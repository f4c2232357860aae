----------------------------- MODULE CaseRecords -----------------------------
(***************************************************************************)
(* What the operator surfaces derive from a row of the case store before   *)
(* they count or list anything: the fields a detection sets, the evidence  *)
(* of a case, its buckets, and the order of SQLiteOperationalCaseStore's   *)
(* list_cases (operator_case_projections.py, operator_api/common.py).      *)
(*                                                                         *)
(* A row of CaseStore keeps the run of each detection; Payload says what   *)
(* a detection by that run carried.  Severity and priority are overwritten *)
(* by every detection, evidence snapshots accumulate under a key made of   *)
(* the run and the evidence, so that the case keeps the first of each.     *)
(***************************************************************************)
EXTENDS CaseStore, Rankings, SequencesExt, FiniteSetsExt

CONSTANTS
    Business,     \* key -> business_id
    CaseType,     \* key -> case family
    EntityKind,   \* key -> entity_scope["kind"], or None
    Payload,      \* run (or None) -> [severity, priority, snapshots]
    Instants,     \* the ticks at which the clock shows 1, 2, ...
    Second,       \* how many ticks (microseconds in the code) make a second
    Buckets       \* <<[name, below]>>: _AGE_BUCKETS, the last one without bound

Actionable == {"open", "acknowledged", "in_progress"}

Severities == {"info", "warning", "critical"}

\* The rules score from 0 to 100 and name one of three severities; the clock only
\* advances; ids are numbered in their alphabetical order.
ASSUME PayloadAssumption ==
    /\ DOMAIN Payload = Runs \cup {None}
    /\ \A r \in DOMAIN Payload :
          Payload[r].priority \in 0..100 /\ Payload[r].severity \in Severities
    /\ DOMAIN Instants = Times \ {0}
    /\ \A t, u \in Times \ {0} : t <= u => Instants[t] <= Instants[u]
    /\ \A t \in Times \ {0} : Instants[t] \in Int
    /\ Second \in Nat \ {0}
    /\ Ids \subseteq Nat

\* int(), of a number of seconds: the fraction is dropped, towards zero.
Truncated(ticks) == IF ticks < 0 THEN 0 - ((0 - ticks) \div Second) ELSE ticks \div Second

\* int((to - from).total_seconds()): each difference is truncated by itself.
Elapsed(from, to) == Truncated(Instants[to] - Instants[from])

\* max(int((to - from).total_seconds()), 0)
Seconds(from, to) == IF Elapsed(from, to) < 0 THEN 0 ELSE Elapsed(from, to)

Businesses == {Business[key] : key \in Keys}

CasesOf(business) == {c \in DOMAIN cases : Business[cases[c].key] = business}

ActionableCases(business) ==
    {c \in CasesOf(business) : cases[c].status \in Actionable}

-----------------------------------------------------------------------------
(***************************************************************************)
(* Fields a detection overwrites, and evidence it adds.                    *)
(***************************************************************************)
Detections(c) ==
    {i \in DOMAIN cases[c].timeline : cases[c].timeline[i].type \in DetectionEvents}

Latest(c) == CHOOSE i \in Detections(c) : \A j \in Detections(c) : j <= i

LatestDetection(c) == Payload[cases[c].timeline[Latest(c)].ref]

Severity(c) == LatestDetection(c).severity

Priority(c) == LatestDetection(c).priority

\* The runs whose snapshots the row holds, and these snapshots.
Cited(c) == {r \in DOMAIN Payload : cases[c].evidence[r] # 0}

Snapshots(c) == UNION {Payload[r].snapshots : r \in Cited(c)}

LatestEvidenceAt(c) ==
    Max({0} \cup {cases[c].evidence[r] : r \in {q \in Cited(c) : Payload[q].snapshots # {}}})

\* Connectors are numbered from 1 in alphabetical order; 0 is "unknown".
SourceConnectors(c) == {s.source : s \in Snapshots(c)}

PrimarySource(c) ==
    IF SourceConnectors(c) = {} THEN 0 ELSE Min(SourceConnectors(c))

IsDegraded(c) == \E s \in Snapshots(c) : s.state \in {"stale", "degraded", "missing"}

FreshnessRank == [fresh |-> 0, degraded |-> 1, stale |-> 2, missing |-> 3]

\* States without a rank ("unknown") never win.
WorstFreshness(c) ==
    LET ranked == {s.state : s \in Snapshots(c)} \cap DOMAIN FreshnessRank
    IN IF ranked = {} THEN None
       ELSE CHOOSE w \in ranked : \A s \in ranked : FreshnessRank[s] <= FreshnessRank[w]

Kind(c) ==
    LET kind == EntityKind[cases[c].key] IN IF kind = None THEN "unknown" ELSE kind

Type(c) == CaseType[cases[c].key]

-----------------------------------------------------------------------------
(***************************************************************************)
(* Buckets, brackets, summaries and orders.                                *)
(***************************************************************************)
BucketNames == {Buckets[i].name : i \in DOMAIN Buckets}

AgeBucket(seconds) ==
    LET fits == {i \in DOMAIN Buckets : i = Len(Buckets) \/ seconds < Buckets[i].below}
    IN Buckets[Min(fits)].name

PriorityBracket(score) ==
    CASE score < 50 -> "low"
      [] score \in 50..79 -> "medium"
      [] OTHER -> "high"

\* The latencies of some cases, sorted: min, max, average and median, the last two
\* rounded down; nothing when there is no latency.
LatencySummary(latency) ==
    LET n == Cardinality(DOMAIN latency)
        shortest == Top([c \in DOMAIN latency |-> 0 - latency[c]], n)
        sorted == [i \in 1..n |-> latency[shortest[i]]]
        mid == n \div 2
    IN IF n = 0 THEN <<>>
       ELSE [min |-> sorted[1], max |-> sorted[n], avg |-> SumOf(latency) \div n,
             median |-> IF n % 2 = 1 THEN sorted[mid + 1]
                        ELSE (sorted[mid] + sorted[mid + 1]) \div 2]

\* ORDER BY priority_score DESC, opened_at ASC, case_id ASC
Before(c, d) ==
    \/ Priority(c) > Priority(d)
    \/ Priority(c) = Priority(d) /\ cases[c].opened < cases[d].opened
    \/ Priority(c) = Priority(d) /\ cases[c].opened = cases[d].opened /\ c < d

\* A loop over list_cases that keeps the first strictly greater measure: the set
\* of that case, empty when there is none.
FirstMost(measure) ==
    {c \in DOMAIN measure : \A d \in DOMAIN measure \ {c} :
                  \/ measure[c] > measure[d]
                  \/ measure[c] = measure[d] /\ Before(c, d)}

\* How many of S fall in each group: a dict counted with .get(group, 0) + 1.
CountBy(S, group) ==
    [g \in {group[c] : c \in S} |-> Cardinality({c \in S : group[c] = g})]
=============================================================================
