------------------------------ MODULE CaseStore ------------------------------
(***************************************************************************)
(* The operational case store: the table operational_cases and the five    *)
(* ways the program changes it.                                            *)
(*                                                                         *)
(* Every mutation of app/brain/operational_cases.py is a SELECT of a whole *)
(* row, a computation on the Python object, and one INSERT OR REPLACE of   *)
(* the whole row.  The two statements are separate transactions, each      *)
(* request of the operator API and each report script has a connection of  *)
(* its own, and nothing (no lock, no version column) ties the write to the *)
(* read.  A worker is one such thread of control; what it is about to      *)
(* write is its draft.                                                     *)
(*                                                                         *)
(* Times are readings of one clock shared by the workers, 0 is Python's    *)
(* None.  Of the detection's payload the model keeps the run id, and with  *)
(* it the evidence snapshots, whose keys start with the run id: the column *)
(* evidence_snapshots says when the snapshots of each run were captured,   *)
(* on the clock reading of the detection that brought them (the code       *)
(* captures them a moment earlier, when it builds the detection).          *)
(* evidence_refs and artifact_refs are merged like source_run_ids.         *)
(***************************************************************************)
EXTENDS Integers, Sequences, FiniteSets

CONSTANTS
    Workers,      \* threads and processes with a connection to the database
    Keys,         \* the pairs (business_id, dedupe_key)
    Ids,          \* what uuid4() may return for a new case
    Runs,         \* run ids a detection may carry
    Assignees,    \* owners a case may be assigned to
    MaxTime,      \* bound on the clock
    MaxTimeline   \* bound on the length of a timeline

ASSUME BoundsAssumption ==
    /\ MaxTime \in Nat \ {0}
    /\ MaxTimeline \in Nat \ {0}

VARIABLES
    cases,        \* the table: case_id -> row
    issued,       \* every case_id uuid4() has returned so far
    now,          \* the clock
    work,         \* what each worker is doing
    overlapped    \* history: workers whose draft was read before another commit

vars == <<cases, issued, now, work, overlapped>>

-----------------------------------------------------------------------------
(***************************************************************************)
(* Statuses, timeline events and rows.                                     *)
(***************************************************************************)
None == "none"

\* assign_case refuses an empty owner.
ASSUME OwnersAssumption == None \notin Assignees

Statuses == {"open", "acknowledged", "in_progress", "resolved", "dismissed"}

Terminal == {"resolved", "dismissed"}

Transitions ==
    [open         |-> {"acknowledged", "in_progress", "dismissed"},
     acknowledged |-> {"in_progress", "resolved", "dismissed"},
     in_progress  |-> {"resolved", "dismissed"},
     resolved     |-> {},
     dismissed    |-> {}]

StatusEvents == {"case_opened", "case_reopened", "status_changed"}

DetectionEvents == {"case_opened", "case_updated", "case_reopened"}

EventTypes ==
    StatusEvents \cup DetectionEvents \cup {"case_assigned", "operator_comment"}

Times == 0..MaxTime

\* What a timeline event says: "to" is the status a status event leads to,
\* "ref" the run of a detection event or the owner of an assignment.
Event == [type : EventTypes, to : Statuses \cup {None},
          ref : Runs \cup Assignees \cup {None}, at : Times]

Row == [key : Keys, status : Statuses, opened : Times, updated : Times,
        acknowledged : Times, assigned : Times,
        assignee : Assignees \cup {None}, resolved : Times, dismissed : Times,
        runs : SUBSET Runs, evidence : [Runs \cup {None} -> Times],
        timeline : Seq(Event)]

MkEvent(type, to, ref, at) == [type |-> type, to |-> to, ref |-> ref, at |-> at]

RowsOf(key) == {c \in DOMAIN cases : cases[c].key = key}

-----------------------------------------------------------------------------
(***************************************************************************)
(* What the mutations compute from the row they read.                      *)
(***************************************************************************)
\* OperationalCase.validate_lifecycle_times: a row that fails it raises.
ValidTimes(row) ==
    /\ row.updated >= row.opened
    /\ \A t \in {row.acknowledged, row.assigned, row.resolved, row.dismissed} :
          t # 0 => t >= row.opened
    /\ row.assigned # 0 <=> row.assignee # None
    /\ row.resolved # 0 <=> row.status = "resolved"
    /\ row.dismissed # 0 <=> row.status = "dismissed"

\* upsert_detection, nothing found: a case opened by the detection.
Opened(det) ==
    [key |-> det.key, status |-> "open", opened |-> det.at, updated |-> det.at,
     acknowledged |-> 0, assigned |-> 0, assignee |-> None,
     resolved |-> 0, dismissed |-> 0, runs |-> {det.run} \ {None},
     evidence |-> [r \in Runs \cup {None} |-> IF r = det.run THEN det.at ELSE 0],
     timeline |-> <<MkEvent("case_opened", "open", det.run, det.at)>>]

\* Every mutation of an existing case appends one event and dates the row.
Logged(row, type, to, ref, at) ==
    [row EXCEPT !.updated = at, !.timeline = Append(@, MkEvent(type, to, ref, at))]

\* Mutant: the evidence is that of the last detection.
UniqueSnapshots_Latest(evidence, det) ==
    [run \in DOMAIN evidence |-> IF run = det.run THEN det.at ELSE 0]

\* _unique_snapshots([*existing, *detection]) keeps the first snapshot of a key.
UniqueSnapshots(evidence, det) ==
    [evidence EXCEPT ![det.run] = IF @ = 0 THEN det.at ELSE @]

\* A detection also adds its run and its snapshots to those the case has.
Merged(row, det, type, to) ==
    [Logged(row, type, to, det.run, det.at) EXCEPT
        !.runs = @ \cup ({det.run} \ {None}),
        !.evidence = UniqueSnapshots(@, det)]

\* Mutant: the merge resets the status.
Updated_ResetsStatus(row, det) ==
    [Merged(row, det, "case_updated", None) EXCEPT !.status = "open"]

\* upsert_detection, case found while still actionable: merge the evidence.
Updated(row, det) == Merged(row, det, "case_updated", None)

\* Mutants: "reopened" becomes a status; the acknowledgement survives; so does the
\* dismissal; the owner goes without an event; the timeline starts afresh.
Reopened_AsStatus(row, det) ==
    [Merged(row, det, "case_reopened", "open") EXCEPT
        !.status = "reopened", !.resolved = 0, !.dismissed = 0, !.acknowledged = 0]
Reopened_StillAcknowledged(row, det) ==
    [Merged(row, det, "case_reopened", "open") EXCEPT
        !.status = "open", !.resolved = 0, !.dismissed = 0]
Reopened_StillDismissed(row, det) ==
    [Merged(row, det, "case_reopened", "open") EXCEPT
        !.status = "open", !.resolved = 0, !.acknowledged = 0]
Reopened_DropsOwner(row, det) ==
    [Merged(row, det, "case_reopened", "open") EXCEPT
        !.status = "open", !.resolved = 0, !.dismissed = 0, !.acknowledged = 0,
        !.assignee = None, !.assigned = 0]
Reopened_NewTimeline(row, det) ==
    [Merged(row, det, "case_reopened", "open") EXCEPT
        !.status = "open", !.resolved = 0, !.dismissed = 0, !.acknowledged = 0,
        !.timeline = <<MkEvent("case_reopened", "open", det.run, det.at)>>]

\* upsert_detection, case found resolved or dismissed: it recurs.  The owner
\* stays, the acknowledgement does not.
Reopened(row, det) ==
    [Merged(row, det, "case_reopened", "open") EXCEPT
        !.status = "open", !.resolved = 0, !.dismissed = 0, !.acknowledged = 0]

\* Mutant: whatever is not open any more is reopened.
Redetected_ReopensInProgress(row, det) ==
    IF row.status # "open" THEN Reopened(row, det) ELSE Updated(row, det)

Redetected(row, det) ==
    IF row.status \in Terminal THEN Reopened(row, det) ELSE Updated(row, det)

\* Mutant: only the status acknowledged acknowledges.
Transitioned_OnlyAcknowledged(row, to, at) ==
    [Logged(row, "status_changed", to, None, at) EXCEPT
        !.status = to,
        !.acknowledged = IF to = "acknowledged" THEN at ELSE @,
        !.resolved = IF to = "resolved" THEN at ELSE @,
        !.dismissed = IF to = "dismissed" THEN at ELSE @]

\* transition_case
Transitioned(row, to, at) ==
    [Logged(row, "status_changed", to, None, at) EXCEPT
        !.status = to,
        !.acknowledged = IF to \in {"acknowledged", "in_progress"} THEN at ELSE @,
        !.resolved = IF to = "resolved" THEN at ELSE @,
        !.dismissed = IF to = "dismissed" THEN at ELSE @]

\* add_comment
Commented(row, at) == Logged(row, "operator_comment", None, None, at)

\* assign_case
Assigned(row, who, at) ==
    [Logged(row, "case_assigned", None, who, at) EXCEPT !.assignee = who, !.assigned = at]

-----------------------------------------------------------------------------
(***************************************************************************)
(* The workers.                                                            *)
(***************************************************************************)
Idle == [pc |-> "idle"]

Detecting == [pc : {"detecting"}, key : Keys, run : Runs \cup {None},
              at : Times \ {0}]

\* "base" is the number of events of the row the draft was computed from.
Draft == [pc : {"drafted"}, id : Ids, row : Row, base : 0..MaxTimeline,
          detection : BOOLEAN]

Init ==
    /\ cases = [c \in {} |-> {}]
    /\ issued = {}
    /\ now = 1
    /\ work = [w \in Workers |-> Idle]
    /\ overlapped = {}

Tick ==
    /\ now < MaxTime
    /\ now' = now + 1
    /\ UNCHANGED <<cases, issued, work, overlapped>>

MkDraft(id, row, detection) ==
    [pc |-> "drafted", id |-> id, row |-> row,
     base |-> Len(row.timeline) - 1, detection |-> detection]

\* upsert_detection reads the clock before it looks the case up.
StartDetection(w) ==
    /\ work[w] = Idle
    /\ \E key \in Keys, run \in Runs \cup {None} :
          work' = [work EXCEPT ![w] = [pc |-> "detecting", key |-> key,
                                       run |-> run, at |-> now]]
    /\ UNCHANGED <<cases, issued, now, overlapped>>

\* find_by_dedupe_key returned nothing: a case with a new uuid.
DraftNewCase(w) ==
    /\ work[w].pc = "detecting"
    /\ RowsOf(work[w].key) = {}
    /\ \E id \in Ids \ issued :
          /\ issued' = issued \cup {id}
          /\ work' = [work EXCEPT ![w] = MkDraft(id, Opened(work[w]), TRUE)]
    /\ UNCHANGED <<cases, now, overlapped>>

\* find_by_dedupe_key returned a case: merge the detection into it.
DraftRedetection(w) ==
    /\ work[w].pc = "detecting"
    /\ \E c \in RowsOf(work[w].key) :
          /\ Len(cases[c].timeline) < MaxTimeline
          /\ ValidTimes(Redetected(cases[c], work[w]))
          /\ work' = [work EXCEPT ![w] =
                         MkDraft(c, Redetected(cases[c], work[w]), TRUE)]
    /\ UNCHANGED <<cases, issued, now, overlapped>>

\* ... or raise: the case was opened after this detection read the clock.
RejectRedetection(w) ==
    /\ work[w].pc = "detecting"
    /\ \E c \in RowsOf(work[w].key) : ~ValidTimes(Redetected(cases[c], work[w]))
    /\ work' = [work EXCEPT ![w] = Idle]
    /\ UNCHANGED <<cases, issued, now, overlapped>>

\* _load_for_update by an operator, then the guards of the mutation.
DraftFrom(w, id, row) ==
    /\ work[w] = Idle
    /\ Len(cases[id].timeline) < MaxTimeline
    /\ ValidTimes(row)
    /\ work' = [work EXCEPT ![w] = MkDraft(id, row, FALSE)]
    /\ UNCHANGED <<cases, issued, now, overlapped>>

DraftTransition(w) ==
    \E id \in DOMAIN cases, to \in Statuses, reason \in BOOLEAN :
       /\ to # cases[id].status
       /\ to \in Transitions[cases[id].status]
       /\ to \in Terminal => reason
       /\ DraftFrom(w, id, Transitioned(cases[id], to, now))

DraftComment(w) ==
    \E id \in DOMAIN cases : DraftFrom(w, id, Commented(cases[id], now))

DraftAssignment(w) ==
    \E id \in DOMAIN cases, who \in Assignees :
       /\ cases[id].status \notin Terminal
       /\ DraftFrom(w, id, Assigned(cases[id], who, now))

\* Mutant: the primary key is the only uniqueness constraint.
Replace_ById(id, row) ==
    [c \in DOMAIN cases \cup {id} |-> IF c = id THEN row ELSE cases[c]]

\* INSERT OR REPLACE deletes the rows that conflict on the primary key or on
\* UNIQUE (business_id, dedupe_key), then inserts the draft.
Replace(id, row) ==
    [c \in (DOMAIN cases \ RowsOf(row.key)) \cup {id} |->
        IF c = id THEN row ELSE cases[c]]

Persist(w) ==
    /\ work[w].pc = "drafted"
    /\ cases' = Replace(work[w].id, work[w].row)
    /\ work' = [work EXCEPT ![w] = Idle]
    /\ overlapped' = (overlapped \cup
          {v \in Workers : /\ work[v].pc = "drafted"
                           /\ work[v].row.key = work[w].row.key}) \ {w}
    /\ UNCHANGED <<issued, now>>

\* The worker dies, or SQLite raises "database is locked": nothing is written.
Abandon(w) ==
    /\ work[w].pc # "idle"
    /\ work' = [work EXCEPT ![w] = Idle]
    /\ overlapped' = overlapped \ {w}
    /\ UNCHANGED <<cases, issued, now>>

Next ==
    \/ Tick
    \/ \E w \in Workers :
          \/ StartDetection(w)
          \/ DraftNewCase(w)
          \/ DraftRedetection(w)
          \/ RejectRedetection(w)
          \/ DraftTransition(w)
          \/ DraftComment(w)
          \/ DraftAssignment(w)
          \/ Persist(w)
          \/ Abandon(w)

Spec == Init /\ [][Next]_vars
-----------------------------------------------------------------------------
(***************************************************************************)
(* Correctness.                                                            *)
(***************************************************************************)
\* Every variable has its type, ids come from uuid4(), and only drafts can be
\* overtaken.
TypeOK ==
    /\ cases \in [DOMAIN cases -> Row]
    /\ DOMAIN cases \subseteq issued
    /\ issued \subseteq Ids
    /\ now \in Times \ {0}
    /\ work \in [Workers -> {Idle} \cup Detecting \cup Draft]
    /\ overlapped \subseteq {w \in Workers : work[w].pc = "drafted"}

\* Two report runs that both find no case and both insert one must not leave
\* the business with two cases for one problem: whatever the interleaving, the
\* table holds at most one row per (business_id, dedupe_key).
OneRowPerKey ==
    \A c, d \in DOMAIN cases : cases[c].key = cases[d].key => c = d

IsStatusEvent(e) == e.type \in StatusEvents

\* Event i decides the status in which event j happens.
Governs(tl, i, j) ==
    /\ i < j
    /\ IsStatusEvent(tl[i])
    /\ \A k \in (i + 1)..(j - 1) : ~IsStatusEvent(tl[k])

\* What may happen to a case in a given status.
LegalIn(e, status) ==
    /\ e.type # "case_opened"
    /\ e.type = "status_changed" => e.to \in Transitions[status]
    /\ e.type = "case_reopened" => status \in Terminal
    /\ e.type \in {"case_updated", "case_assigned"} => status \notin Terminal

LegalTimeline(tl) ==
    /\ Len(tl) > 0
    /\ tl[1].type = "case_opened"
    /\ \A i, j \in DOMAIN tl : Governs(tl, i, j) => LegalIn(tl[j], tl[i].to)

\* Guards are checked on a row that may be stale by the time of the write; the
\* history each row carries must nevertheless be one the lifecycle allows, from
\* case_opened on: no transition outside the table, no reopening of a case that
\* was not closed, no assignment or plain update of a closed one.
TimelinesAreLegal == \A c \in DOMAIN cases : LegalTimeline(cases[c].timeline)

LastStatus(tl, i) ==
    IsStatusEvent(tl[i]) /\ \A j \in (i + 1)..Len(tl) : ~IsStatusEvent(tl[j])

StatusFollows(row) ==
    \A i \in DOMAIN row.timeline :
       LastStatus(row.timeline, i) =>
          LET e == row.timeline[i] IN
          /\ row.status = e.to
          /\ row.resolved = IF e.to = "resolved" THEN e.at ELSE 0
          /\ row.dismissed = IF e.to = "dismissed" THEN e.at ELSE 0

\* The status, resolved_at and dismissed_at columns, which the queues and the
\* throughput views read, are those of the last status event of the timeline,
\* which the case detail shows.
StatusFollowsTimeline == \A c \in DOMAIN cases : StatusFollows(cases[c])

\* The event takes the case in charge, and no later one put it back to open.
TakesCharge(tl, i) ==
    /\ tl[i].to \in {"acknowledged", "in_progress"}
    /\ \A j \in (i + 1)..Len(tl) : tl[j].type # "case_reopened"

\* acknowledged_at is the time the case was last taken in charge since it was
\* last opened: a recurrence clears it, so that it must be acknowledged again,
\* and closing the case does not.
AcknowledgementFollows(row) ==
    LET tl == row.timeline
        charges == {i \in DOMAIN tl : TakesCharge(tl, i)}
    IN /\ charges = {} => row.acknowledged = 0
       /\ \A i \in charges :
             (\A j \in charges : j <= i) => row.acknowledged = tl[i].at

IsAssignment(e) == e.type = "case_assigned"

LastAssignment(tl, i) ==
    IsAssignment(tl[i]) /\ \A j \in (i + 1)..Len(tl) : ~IsAssignment(tl[j])

\* The owner of a case is the one of its last assignment: transitions, comments
\* and recurrences (a reopened case keeps its owner) do not change it.
OwnerFollows(row) ==
    /\ (\A i \in DOMAIN row.timeline : ~IsAssignment(row.timeline[i])) =>
          row.assignee = None /\ row.assigned = 0
    /\ \A i \in DOMAIN row.timeline :
          LastAssignment(row.timeline, i) =>
             /\ row.assignee = row.timeline[i].ref
             /\ row.assigned = row.timeline[i].at

\* source_run_ids holds exactly the runs whose detections the timeline shows:
\* evidence is never attached without its event, nor an event without its run.
RunsFollow(row) ==
    row.runs = {row.timeline[i].ref : i \in
                  {j \in DOMAIN row.timeline :
                      row.timeline[j].type \in DetectionEvents}} \ {None}

\* Detections that brought the snapshots of a run.
Brought(tl, run) ==
    {i \in DOMAIN tl : tl[i].type \in DetectionEvents /\ tl[i].ref = run}

\* evidence_snapshots holds the snapshots of exactly the detections the timeline
\* shows, each as the first of them captured it.
EvidenceFollows(row) ==
    \A run \in Runs \cup {None} :
       LET brought == Brought(row.timeline, run) IN
       /\ row.evidence[run] # 0 <=> brought # {}
       /\ \A i \in brought : (\A j \in brought : i <= j) =>
             row.evidence[run] = row.timeline[i].at

\* However often a case is closed, reopened, reassigned and detected again, the
\* columns acknowledged_at, assignee, assigned_at, source_run_ids and
\* evidence_snapshots, which the queues read and which upsert_detection merges by
\* an expression each, are those its timeline tells.
ColumnsFollowTimeline ==
    \A c \in DOMAIN cases :
       /\ AcknowledgementFollows(cases[c])
       /\ OwnerFollows(cases[c])
       /\ RunsFollow(cases[c])
       /\ EvidenceFollows(cases[c])

Extends(new, old) ==
    /\ Len(old) <= Len(new)
    /\ \A i \in 1..Len(old) : new[i] = old[i]

\* The case is still there after the step, with all of its history.
Kept(c) ==
    c \in DOMAIN cases' /\ Extends(cases'[c].timeline, cases[c].timeline)

\* A commit loses events, or a whole case, only if another commit on the same
\* key fell between its SELECT and its INSERT OR REPLACE.  Every mutation that
\* runs alone preserves the identity and the history of every case.
LossNeedsOverlap ==
    [][\A c \in DOMAIN cases :
         Kept(c) \/ \E w \in overlapped : w \notin overlapped']_vars

\* upsert_detection reads the clock, then looks the case up, and model_validate
\* raises in the middle of a report run if the merged columns contradict each
\* other.  Whatever workers wrote a row over and however often it was closed and
\* reopened, a detection is refused exactly when the case was opened after the
\* detection read its clock, and what the lifecycle lets an operator do is never
\* refused.
OnlyNewerCasesRefuse ==
    \A c \in DOMAIN cases :
       /\ \A w \in Workers :
             (work[w].pc = "detecting" /\ work[w].key = cases[c].key) =>
                (ValidTimes(Redetected(cases[c], work[w])) <=>
                    cases[c].opened <= work[w].at)
       /\ \A to \in Transitions[cases[c].status] :
             ValidTimes(Transitioned(cases[c], to, now))
       /\ ValidTimes(Commented(cases[c], now))
       /\ cases[c].status \notin Terminal =>
             \A who \in Assignees : ValidTimes(Assigned(cases[c], who, now))

\* docs/specs/operational-case-engine-contract.md: detections may open, update
\* and reopen, "they may not silently dismiss human decisions".  A commit by a
\* detection keeps every closing decision in the table.
DecisionsSurviveDetections ==
    [][\A w \in Workers :
         (work[w].pc = "drafted" /\ work[w].detection /\ work'[w] = Idle) =>
            \A c \in DOMAIN cases : \A i \in DOMAIN cases[c].timeline :
               cases[c].timeline[i].to \in Terminal =>
                  /\ c \in DOMAIN cases'
                  /\ \E j \in DOMAIN cases'[c].timeline :
                        cases'[c].timeline[j] = cases[c].timeline[i]]_vars


-----------------------------------------------------------------------------
(***************************************************************************)
(* Refinement: the row of a key, without its times, is its case.           *)
(***************************************************************************)
CaseOf(key) ==
    IF RowsOf(key) = {} THEN [status |-> None]
    ELSE LET c == CHOOSE c \in RowsOf(key) : TRUE
         IN [id |-> c, status |-> cases[c].status, owner |-> cases[c].assignee,
             log |-> [i \in DOMAIN cases[c].timeline |->
                         cases[c].timeline[i].type]]

Board == INSTANCE CaseBoard WITH board <- [key \in Keys |-> CaseOf(key)]

\* A store with one worker implements the case board: each Persist is one
\* lawful operation on one case, and everything else is invisible.
ImplementsCaseBoard == Board!Spec
=============================================================================
