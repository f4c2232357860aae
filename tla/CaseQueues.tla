------------------------------ MODULE CaseQueues ------------------------------
(***************************************************************************)
(* The other projections of operator_api: queue summaries, workflow        *)
(* throughput, the top and recent lists, one case's timeline and detail,   *)
(* work items, and the brief and dashboard composed of them.               *)
(***************************************************************************)
EXTENDS CaseHistograms

-----------------------------------------------------------------------------
(***************************************************************************)
(* cases.py: counts of the whole queue.                                    *)
(***************************************************************************)
\* Mutant: closed cases with degraded evidence count as well.
DegradedCases_Closed(business) == {c \in CasesOf(business) : IsDegraded(c)}

DegradedCases(business) == {c \in ActionableCases(business) : IsDegraded(c)}

Status(c) == cases[c].status

summarize_case_queue(b) ==
    [total               |-> Cardinality(CasesOf(b)),
     by_status           |-> CountBy(CasesOf(b), [c \in CasesOf(b) |-> Status(c)]),
     by_severity         |-> CountBy(CasesOf(b), BySeverity),
     by_case_type        |-> CountBy(CasesOf(b), ByType),
     actionable          |-> Cardinality(ActionableCases(b)),
     actionable_severity |-> CountBy(ActionableCases(b), BySeverity),
     degraded            |-> Cardinality(DegradedCases(b))]

\* The same three counts by group.
QueueBy(b, group) ==
    [total            |-> Cardinality(CasesOf(b)),
     actionable       |-> Cardinality(ActionableCases(b)),
     totals_by        |-> CountBy(CasesOf(b), group),
     actionable_by    |-> CountBy(ActionableCases(b), group),
     degraded_by      |-> CountBy(DegradedCases(b), group)]

summarize_case_queue_by_priority_bracket(b) == QueueBy(b, ByBracket)
summarize_case_queue_by_case_type(b) == QueueBy(b, ByType)
summarize_case_queue_by_entity_kind(b) == QueueBy(b, ByKind)
summarize_case_queue_by_source_connector(b) == QueueBy(b, BySource)

-----------------------------------------------------------------------------
(***************************************************************************)
(* workflow.py: latencies of acknowledgment and resolution, not clamped.   *)
(***************************************************************************)
TimeToAck(c) == Elapsed(cases[c].opened, cases[c].acknowledged)

TimeToResolve(c) == Elapsed(cases[c].opened, cases[c].resolved)

AckTimes(b) == [c \in AckedCases(b) |-> TimeToAck(c)]

ResolveTimes(b) == [c \in ResolvedCases(b) |-> TimeToResolve(c)]

summarize_case_workflow_throughput(b) ==
    [total        |-> Cardinality(CasesOf(b)),
     acknowledged |-> Cardinality(AckedCases(b)),
     resolved     |-> Cardinality(ResolvedCases(b)),
     ack_seconds  |-> LatencySummary(AckTimes(b)),
     resolve_seconds |-> LatencySummary(ResolveTimes(b))]

SummaryBy(took, group) ==
    [g \in {group[c] : c \in DOMAIN took} |->
        LatencySummary([c \in {d \in DOMAIN took : group[d] = g} |-> took[c]])]

ThroughputBy(b, group) ==
    [total        |-> Cardinality(CasesOf(b)),
     totals_by    |-> CountBy(CasesOf(b), group),
     acknowledged |-> CountBy(AckedCases(b), group),
     resolved     |-> CountBy(ResolvedCases(b), group),
     ack_seconds  |-> SummaryBy(AckTimes(b), group),
     resolve_seconds |-> SummaryBy(ResolveTimes(b), group)]

summarize_case_workflow_throughput_by_severity(b) == ThroughputBy(b, BySeverity)
summarize_case_workflow_throughput_by_case_type(b) == ThroughputBy(b, ByType)
summarize_case_workflow_throughput_by_entity_kind(b) == ThroughputBy(b, ByKind)
summarize_case_workflow_throughput_by_source_connector(b) ==
    ThroughputBy(b, BySource)
summarize_case_workflow_throughput_by_priority_bracket(b) == ThroughputBy(b, ByBracket)

-----------------------------------------------------------------------------
(***************************************************************************)
(* top_cases.py and recent_cases.py: the first rows of an order.           *)
(***************************************************************************)
\* A list says how many rows there are and shows the first of them.
Listed(rank, limit, row) ==
    LET shown == Top(rank, limit)
    IN [total |-> Cardinality(DOMAIN rank), limit |-> limit, count |-> Len(shown),
        cases |-> [i \in DOMAIN shown |-> row[shown[i]]]]

Row1(c) == [case_id |-> c, case_type |-> Type(c), status |-> Status(c),
            severity |-> Severity(c), priority |-> Priority(c)]

Ages(b, at) == [c \in ActionableCases(b) |-> Age(c, at)]

Idleness(b, at) == [c \in ActionableCases(b) |-> IdleTime(c, at)]

AgedRows(b, at) == [c \in ActionableCases(b) |-> [row |-> Row1(c), age |-> Age(c, at)]]

\* Mutant: the oldest is the one nobody touched for longest.
list_top_actionable_cases_by_age_Idle(b, limit, at) ==
    Listed(Idleness(b, at), limit, AgedRows(b, at))

list_top_actionable_cases_by_age(b, limit, at) ==
    Listed(Ages(b, at), limit, AgedRows(b, at))

list_top_actionable_cases_by_priority(b, limit, at) ==
    Listed([c \in ActionableCases(b) |-> Priority(c)], limit, AgedRows(b, at))

list_top_stalled_actionable_cases(b, limit, at) ==
    Listed(Idleness(b, at), limit,
           [c \in ActionableCases(b) |->
               [row |-> Row1(c), age |-> Age(c, at), idle |-> IdleTime(c, at)]])

list_top_actionable_degraded_cases(b, limit, at) ==
    Listed([c \in DegradedCases(b) |-> Priority(c)], limit,
           [c \in DegradedCases(b) |->
               [row |-> Row1(c), age |-> Age(c, at),
                freshness |-> WorstFreshness(c),
                evidence_at |-> LatestEvidenceAt(c),
                sources |-> SourceConnectors(c)]])

InStatus(b, status) == {c \in CasesOf(b) : Status(c) = status}

list_recently_resolved_cases(b, limit) ==
    LET S == {c \in InStatus(b, "resolved") : cases[c].resolved # 0}
    IN Listed([c \in S |-> cases[c].resolved], limit,
              [c \in S |-> [row |-> Row1(c), seconds |-> TimeToResolve(c)]])

list_recently_opened_cases(b, limit) ==
    LET S == InStatus(b, "open")
    IN Listed([c \in S |-> cases[c].opened], limit, [c \in S |-> [row |-> Row1(c)]])

list_recently_acknowledged_cases(b, limit) ==
    LET S == {c \in InStatus(b, "acknowledged") : cases[c].acknowledged # 0}
    IN Listed([c \in S |-> cases[c].acknowledged], limit,
              [c \in S |-> [row |-> Row1(c), seconds |-> TimeToAck(c)]])

\* _latest_in_progress_at: from the timeline, 0 when it never was in progress.
LatestInProgressAt(c) ==
    LET tl == cases[c].timeline
    IN Max({0} \cup {tl[i].at : i \in
          {j \in DOMAIN tl : tl[j].type = "status_changed" /\ tl[j].to = "in_progress"}})

list_recently_in_progress_cases(b, limit) ==
    LET S == {c \in InStatus(b, "in_progress") : LatestInProgressAt(c) # 0}
    IN Listed([c \in S |-> LatestInProgressAt(c)], limit,
              [c \in S |-> [row |-> Row1(c),
                             seconds |-> Elapsed(cases[c].opened, LatestInProgressAt(c))]])

-----------------------------------------------------------------------------
(***************************************************************************)
(* One case: its timeline, its work item, its detail.                      *)
(***************************************************************************)
Operator(event) ==
    event.type \in {"status_changed", "case_assigned", "operator_comment"}

\* The last "limit" of the events that pass both filters (None: no filter).
list_case_timeline(c, type, actor, limit) ==
    LET Passes(e) == /\ type # None => e.type = type
                     /\ actor # None => (actor = "operator") = Operator(e)
        events == SelectSeq(cases[c].timeline, Passes)
        total == Len(events)
    IN [total |-> total,
        events |-> IF total > limit THEN SubSeq(events, total - limit + 1, total)
                   ELSE events]

StatusCategory(status) ==
    CASE status = "open" -> "to_do"
      [] status \in {"acknowledged", "in_progress"} -> "in_progress"
      [] OTHER -> "done"

case_work_item_projection(c) ==
    [project |-> Business[cases[c].key], case_id |-> c, issue_type |-> Type(c),
     status |-> Status(c), status_category |-> StatusCategory(Status(c)),
     priority |-> Priority(c), assignee |-> cases[c].assignee,
     created_at |-> cases[c].opened, updated_at |-> cases[c].updated]

\* latest_run_id: a detection without a run leaves it.
LatestRun(c) ==
    LET named == {i \in Detections(c) : cases[c].timeline[i].ref # None}
    IN IF named = {} THEN None ELSE cases[c].timeline[Max(named)].ref

case_queue_item(c) ==
    [work_item |-> case_work_item_projection(c), severity |-> Severity(c),
     acknowledged_at |-> cases[c].acknowledged, assigned_at |-> cases[c].assigned,
     snapshots |-> Cardinality(Snapshots(c)), evidence_at |-> LatestEvidenceAt(c),
     sources |-> SourceConnectors(c), degraded |-> IsDegraded(c),
     latest_run |-> LatestRun(c)]

case_detail(c) ==
    [work_item |-> case_work_item_projection(c), row |-> cases[c],
     severity |-> Severity(c), snapshots |-> Snapshots(c), latest_run |-> LatestRun(c)]

-----------------------------------------------------------------------------
(***************************************************************************)
(* runs_dashboard.py: the brief and the dashboard put projections together.*)
(***************************************************************************)
\* _owner_dispatch_policy
DispatchPolicy(actionable, degraded) ==
    LET reasons == (IF actionable > 0 THEN {"actionable_cases_present"} ELSE {})
                   \cup (IF degraded > 0 THEN {"degraded_evidence_present"} ELSE {})
    IN [reasons |-> reasons, review_required |-> reasons # {},
        auto_dispatch |-> reasons = {}]

First3(list) == SubSeq(list, 1, IF Len(list) < 3 THEN Len(list) ELSE 3)

\* What _owner_ready_message says: nothing to do, or the totals, the first case
\* to take and the first evidence to check.
OwnerMessage(actionable, degraded, next, evidence) ==
    IF actionable = 0 THEN [nothing |-> TRUE]
    ELSE [nothing |-> FALSE, actionable |-> actionable, degraded |-> degraded,
          take |-> First3(next), check |-> First3(evidence)]

\* _mvp_operator_brief: from a summary and two lists read by the caller.
Brief(summary, top, degraded) ==
    LET next == First3(top.cases)
        evidence == First3(degraded.cases)
    IN [status   |-> IF summary.actionable = 0 THEN "clear" ELSE "needs_attention",
        message  |-> OwnerMessage(summary.actionable, summary.degraded, next, evidence),
        policy   |-> DispatchPolicy(summary.actionable, summary.degraded),
        next_actions |-> [i \in DOMAIN next |-> next[i].row.case_id],
        evidence_actions |-> [i \in DOMAIN evidence |-> evidence[i].row.case_id]]

get_mvp_operator_brief(b, limit, at) ==
    Brief(summarize_case_queue(b),
          list_top_actionable_cases_by_priority(b, limit, at),
          list_top_actionable_degraded_cases(b, limit, at))
=============================================================================
