----------------------------- MODULE OperatorDesk -----------------------------
(***************************************************************************)
(* The operator surfaces over a case store that lives: one worker at a     *)
(* time detects, transitions, comments and assigns (each mutation of       *)
(* CaseStore in one step), and every view may be asked for in every state. *)
(* Nothing a view computes is stored; what is checked is that the numbers  *)
(* and lists the surfaces show side by side agree with each other, though  *)
(* each of them is computed by a loop of its own from columns of its own.  *)
(***************************************************************************)
EXTENDS CaseQuery

CONSTANT MaxEvents   \* bound on the events of all timelines together

ASSUME MaxEventsAssumption == MaxEvents \in Nat \ {0}

Events == SumOf([c \in DOMAIN cases |-> Len(cases[c].timeline)])

-----------------------------------------------------------------------------
(***************************************************************************)
(* One worker's mutations.                                                 *)
(***************************************************************************)
Commit(id, row) ==
    /\ Len(row.timeline) <= MaxTimeline
    /\ Events < MaxEvents
    /\ ValidTimes(row)
    /\ cases' = Replace(id, row)
    /\ UNCHANGED <<now, work, overlapped>>

\* Keys are numbered in the order in which their cases open.
Detect(key, run) ==
    LET det == [key |-> key, run |-> run, at |-> now] IN
    \/ /\ RowsOf(key) = {}
       /\ \A k \in Keys : k < key => RowsOf(k) # {}
       /\ \E id \in Ids \ issued : Commit(id, Opened(det)) /\ issued' = issued \cup {id}
    \/ \E c \in RowsOf(key) : Commit(c, Redetected(cases[c], det)) /\ UNCHANGED issued

Operate(c) ==
    /\ UNCHANGED issued
    /\ \/ \E to \in Transitions[Status(c)] : Commit(c, Transitioned(cases[c], to, now))
       \/ Commit(c, Commented(cases[c], now))
       \/ \E who \in Assignees :
             Status(c) \notin Terminal /\ Commit(c, Assigned(cases[c], who, now))

\* Time begins with the first case: before it there is nothing to see.
DeskNext ==
    \/ DOMAIN cases # {} /\ Tick
    \/ \E key \in Keys, run \in Runs \cup {None} : Detect(key, run)
    \/ \E c \in DOMAIN cases : Operate(c)

DeskSpec == Init /\ [][DeskNext]_vars

-----------------------------------------------------------------------------
(***************************************************************************)
(* The numbers agree.                                                      *)
(***************************************************************************)
CountOf(counts, group) == IF group \in DOMAIN counts THEN counts[group] ELSE 0

ViewTotal(b, view) == execute_builtin_case_view(b, view, 1).total

\* The same cases in flight, whoever counts them.
InFlightAgree(b, at, n) ==
    LET stalled == summarize_case_queue_stagnation(b, at).counts.bucket
        split == summarize_case_queue_stagnation_by_source_connector(b, at).counts.split
    IN
    /\ n = summarize_case_queue_aging_by_entity_kind(b, at).counts.total
    /\ n = list_top_actionable_cases_by_age(b, 1, at).total
    /\ n = ViewTotal(b, "open_cases") + ViewTotal(b, "acknowledged_cases")
              + ViewTotal(b, "in_progress_cases")
    /\ \A bucket \in BucketNames :
          SumOf(split[bucket]) = stalled[bucket]

DegradedAgree(b, at, n) ==
    /\ n = ViewTotal(b, "connector_degraded")
    /\ n = list_top_actionable_degraded_cases(b, 1, at).total
    /\ n = SumOf(summarize_case_queue_by_source_connector(b).degraded_by)

\* A list may ask for a date besides the status: no case may lack it.
StatusesAgree(b, by) ==
    /\ CountOf(by, "open") = list_recently_opened_cases(b, 1).total
    /\ CountOf(by, "acknowledged") = list_recently_acknowledged_cases(b, 1).total
    /\ CountOf(by, "in_progress") = list_recently_in_progress_cases(b, 1).total
    /\ CountOf(by, "resolved") = list_recently_resolved_cases(b, 1).total
    /\ CountOf(by, "resolved") = summarize_case_workflow_throughput(b).resolved
    /\ CountOf(by, "resolved") = ViewTotal(b, "resolved_cases")
    /\ CountOf(by, "resolved") =
          summarize_case_handling_latency_histogram(b).counts.total

\* The surfaces show the same totals side by side although one counts by status,
\* another by a date column, a third by timeline events and a fourth by a query:
\* over the whole life of the cases, recurrences included, they agree.
\* histograms_handling.py relies on it when it calls "resolved cases have
\* acknowledged_at set" a lifecycle invariant.
ViewsAgree ==
    \A b \in Businesses :
       LET queue == summarize_case_queue(b) IN
       /\ InFlightAgree(b, now, queue.actionable)
       /\ DegradedAgree(b, now, queue.degraded)
       /\ StatusesAgree(b, queue.by_status)

-----------------------------------------------------------------------------
(***************************************************************************)
(* The latencies compose.                                                  *)
(***************************************************************************)
Bounds(summary, latency) ==
    IF summary = <<>> THEN latency.fastest = {} /\ latency.slowest = {}
    ELSE /\ \E f \in latency.fastest : summary.min = f.seconds
         /\ \E s \in latency.slowest : summary.max = s.seconds
         /\ summary.avg \in summary.min..summary.max
         /\ summary.median \in summary.min..summary.max

\* Waiting and working are the whole, up to the second that is lost when each
\* difference is truncated by itself: every resolved case was acknowledged, and
\* its time to resolve is its time to acknowledge plus its time to handle or one
\* second more, never less, so that no clamp at zero hides a column of an earlier
\* life.  The histograms' fastest and slowest cases are the extremes of the
\* throughput summary, which does not clamp.
LatenciesCompose ==
    \A b \in Businesses :
       /\ \A c \in ResolvedCases(b) :
             /\ cases[c].acknowledged # 0
             /\ ResolutionLatency(c) - AckLatency(c) - HandlingLatency(c) \in {0, 1}
       /\ Bounds(summarize_case_workflow_throughput(b).ack_seconds,
                 summarize_case_acknowledgment_latency_histogram(b))
       /\ Bounds(summarize_case_workflow_throughput(b).resolve_seconds,
                 summarize_case_resolution_latency_histogram_by_case_type(b))
       /\ \A c \in InStatus(b, "in_progress") :
             LatestInProgressAt(c) = cases[c].acknowledged

-----------------------------------------------------------------------------
(***************************************************************************)
(* The lists are triage orders.                                            *)
(***************************************************************************)
Ids_(list) == [i \in DOMAIN list.cases |-> list.cases[i].row.case_id]

\* A longer list only adds rows at the end, and who is left out ranks no higher.
Stable(L(_), S, Rank(_)) ==
    LET whole == Ids_(L(Cardinality(S))) IN
    \A n \in 1..Cardinality(S) :
       LET shown == IF n = Cardinality(S) THEN whole ELSE Ids_(L(n)) IN
       /\ shown = SubSeq(whole, 1, n)
       /\ \A c \in S \ ToSet(shown) : \A i \in DOMAIN shown :
             \/ Rank(shown[i]) > Rank(c)
             \/ Rank(shown[i]) = Rank(c) /\ shown[i] < c

\* Whatever the limit, an operator who works a list from the top works the case
\* that is oldest, most urgent or most stalled, and ties fall the same way on
\* every call; the oldest case the aging histogram names is as old as the head
\* of the list.
TriageIsStable ==
    \A b \in Businesses : LET at == now IN
       /\ Stable(LAMBDA n : list_top_actionable_cases_by_age(b, n, at),
                 ActionableCases(b), LAMBDA c : Age(c, at))
       /\ Stable(LAMBDA n : list_top_actionable_cases_by_priority(b, n, at),
                 ActionableCases(b), Priority)
       /\ Stable(LAMBDA n : list_top_stalled_actionable_cases(b, n, at),
                 ActionableCases(b), LAMBDA c : IdleTime(c, at))
       /\ Stable(LAMBDA n : list_top_actionable_degraded_cases(b, n, at),
                 DegradedCases(b), Priority)
       /\ ActionableCases(b) # {} =>
             \E o \in summarize_case_queue_aging(b, at).oldest :
                o.seconds = list_top_actionable_cases_by_age(b, 1, at).cases[1].age

-----------------------------------------------------------------------------
(***************************************************************************)
(* Queries.                                                                *)
(***************************************************************************)
\* Values a clause may carry, by type.
ValuesOf(type) ==
    CASE type = "status" -> Statuses
      [] type = "category" -> {"to_do", "in_progress", "done"}
      [] type = "case_type" -> {CaseType[key] : key \in Keys}
      [] type = "severity" -> Severities
      [] type = "bool" -> BOOLEAN
      [] type = "int" -> {Payload[r].priority : r \in DOMAIN Payload}
      [] type = "datetime" -> Times \ {0}

\* issue_type is case_type by another name.
Comparable == {f \in DOMAIN FieldSpecs : FieldSpecs[f].type # "string"} \ {"issue_type"}

Total(S, clauses) == Cardinality(Selected(S, clauses))

Accepted(clause) == ClauseError(clause) = "ok"

\* = and != of a field, or < and >=, part the cases; "IN" all other values is
\* "!=".
ClauseLaws(S, field, v) ==
    LET type == FieldSpecs[field].type
        Is(op) == Where(field, op, type, {v})
        equal == Total(S, <<Is("=")>>)
        other == Total(S, <<Is("!=")>>)
        below == Total(S, <<Is("<")>>)
        set == {c \in S : ~IsNone(field, FieldValue(c, field))}
    IN /\ equal + other = Cardinality(S)
       /\ Accepted(Is("<")) =>
             /\ below + Total(S, <<Is(">=")>>) = Cardinality(set)
             /\ Total(S, <<Is("<=")>>) = below + equal
       /\ Accepted(Is("IN")) =>
             Total(S, <<Where(field, "IN", type, ValuesOf(type) \ {v})>>) = other

\* A connector clause is about a set: "!=" is still the complement of "=".
ConnectorLaws(S) ==
    \A s \in UNION {SourceConnectors(c) : c \in S} :
       LET Is(op) == Where("source_connector", op, "string", {s})
       IN Total(S, <<Is("=")>>) + Total(S, <<Is("!=")>>) = Cardinality(S)

\* Whatever the fields of the cases, set or not: negating a clause selects the
\* other cases and comparisons never select a case without the date, so that an
\* operator who splits a queue by a query neither loses a case nor sees it twice.
QueriesPartition ==
    \A b \in Businesses :
       LET S == CasesOf(b) IN
       /\ \A field \in Comparable :
             \A v \in {FieldValue(c, field) : c \in S} :
                IsNone(field, v) \/ ClauseLaws(S, field, v)
       /\ ConnectorLaws(S)

-----------------------------------------------------------------------------
\* The rank of the worst freshness of a case, below all when no snapshot has one.
WorstRank(c) == IF WorstFreshness(c) = None THEN -1 ELSE FreshnessRank[WorstFreshness(c)]

\* Evidence accumulates in the row and no snapshot ever leaves it: a case that was
\* once seen with stale, degraded or missing data stays degraded for all its
\* lives, whatever fresher data later detections bring; its connectors only get
\* more and its worst freshness only gets worse, from fresh to missing.
DegradedStays ==
    [][\A c \in DOMAIN cases :
          /\ c \in DOMAIN cases'
          /\ IsDegraded(c) => IsDegraded(c)'
          /\ SourceConnectors(c) \subseteq SourceConnectors(c)'
          /\ WorstRank(c) <= WorstRank(c)']_vars
=============================================================================
