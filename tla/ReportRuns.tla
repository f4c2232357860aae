------------------------------ MODULE ReportRuns ------------------------------
(***************************************************************************)
(* Report scripts (scripts/run_orvo_brain_reports.py) producing the daily  *)
(* reports of one date: run_due_daily_reports or run_forced_report, the    *)
(* pipeline, the dispatch of the report and of the owner case brief over   *)
(* WhatsApp behind the idempotency store, and the run ledger.              *)
(*                                                                         *)
(* Cron and the operator start scripts independently, so any number may    *)
(* run at once against one database.  A run is written by the script that  *)
(* began it alone (RunLedger has the writers who are given a run id), so   *)
(* the SELECT and the REPLACE of a ledger call are one step here.          *)
(***************************************************************************)
EXTENDS Naturals, Sequences, FiniteSets

CONSTANTS
    Scripts,      \* script processes
    Businesses,   \* businesses with a daily schedule
    Unconnected,  \* those of them without an enabled daily connector
    Runs,         \* run ids
    Connectors    \* number of connectors of a connected business

ASSUME ReportAssumption ==
    /\ Unconnected \subseteq Businesses
    /\ Connectors \in Nat \ {0}

VARIABLES
    runs,         \* the ledger: run id -> record
    marked,       \* the table idempotency_keys
    delivered,    \* how many times WhatsApp accepted each message
    work,         \* what each script is doing
    abandoned,    \* history: runs whose script died or raised outside the pipeline
    disturbed     \* history: messages whose check-send-mark did not go alone to its end

vars == <<runs, marked, delivered, work, abandoned, disturbed>>

-----------------------------------------------------------------------------
Messages == {"daily", "owner_case_brief"}

\* make_idempotency_key: business, date and message type; the date is fixed.
Keys == Businesses \X Messages

None == "none"

Results == {"sent", "failed", "skipped_duplicate"}

DispatchOk == {"sent", "skipped_duplicate"}

RunStatuses == {"running", "succeeded", "partial", "failed"}

Record == [business : Businesses, status : RunStatuses,
           connectors : Seq({"succeeded", "failed"}), artifact : BOOLEAN,
           dispatches : Seq(Messages \X Results)]

NewRun(b) == [business |-> b, status |-> "running", connectors |-> <<>>,
              artifact |-> FALSE, dispatches |-> <<>>]

Ended == [pc |-> "ended"]

\* "due" are the businesses still to come; "message" the one being dispatched;
\* "daily" and "brief" the results of the two dispatches.
Working == [pc : {"next", "building", "checking", "sending", "marking", "connectors",
                  "artifact", "dispatch", "brief", "record_brief", "finish",
                  "failing", "failed"},
            due : SUBSET Businesses, business : Businesses \cup {None},
            run : Runs \cup {None}, message : Messages,
            daily : Results \cup {None}, brief : Results \cup {None}]

Init ==
    /\ runs = [r \in {} |-> {}]
    /\ marked = {}
    /\ delivered = [k \in Keys |-> 0]
    /\ work = [p \in Scripts |-> Ended]
    /\ abandoned = {}
    /\ disturbed = {}

\* The script goes on as "next" says; the record of its run becomes "rec".
Goto(p, next) == work' = [work EXCEPT ![p] = next]

Write(p, rec) == runs' = [runs EXCEPT ![work[p].run] = rec]

MyRun(p) == runs[work[p].run]

MyKey(p) == <<work[p].business, work[p].message>>

-----------------------------------------------------------------------------
(***************************************************************************)
(* The script: due businesses one after the other.                         *)
(***************************************************************************)
\* Cron fires for whatever is due, or an operator forces one business.
Start(p) ==
    /\ work[p] = Ended
    /\ \E due \in SUBSET Businesses \ {{}} :
          Goto(p, [pc |-> "next", due |-> due, business |-> None, run |-> None,
                   message |-> "daily", daily |-> None, brief |-> None])
    /\ UNCHANGED <<runs, marked, delivered, abandoned, disturbed>>

SkipBusiness(p) ==
    /\ work[p].pc = "next"
    /\ \E b \in work[p].due \cap Unconnected :
          Goto(p, [work[p] EXCEPT !.due = @ \ {b}])
    /\ UNCHANGED <<runs, marked, delivered, abandoned, disturbed>>

\* compile_business_runtime and begin_pipeline_run
BeginRun(p) ==
    /\ work[p].pc = "next"
    /\ \E b \in work[p].due \ Unconnected, r \in Runs \ DOMAIN runs :
          /\ runs' = [s \in DOMAIN runs \cup {r} |->
                         IF s = r THEN NewRun(b) ELSE runs[s]]
          /\ Goto(p, [work[p] EXCEPT !.pc = "building", !.due = @ \ {b},
                         !.business = b, !.run = r, !.message = "daily",
                         !.daily = None, !.brief = None])
    /\ UNCHANGED <<marked, delivered, abandoned, disturbed>>

\* All reports are built, or compile_business_runtime raised, or the results
\* are printed: the script is over.
Finished(p) ==
    /\ work[p].pc = "next"
    /\ Goto(p, Ended)
    /\ UNCHANGED <<runs, marked, delivered, abandoned, disturbed>>

-----------------------------------------------------------------------------
(***************************************************************************)
(* The pipeline and _send_text_once, which both messages go through.       *)
(***************************************************************************)
\* Every connector answered and the reports are merged.
Build(p) ==
    /\ work[p].pc = "building"
    /\ Goto(p, [work[p] EXCEPT !.pc = "checking"])
    /\ UNCHANGED <<runs, marked, delivered, abandoned, disturbed>>

\* A connector, a secret or the merge raised.
BuildFails(p) ==
    /\ work[p].pc = "building"
    /\ Goto(p, [work[p] EXCEPT !.pc = "failing"])
    /\ UNCHANGED <<runs, marked, delivered, abandoned, disturbed>>

\* The dispatch of the current message returned a result.
Returned(p, result) ==
    IF work[p].message = "daily"
    THEN [work[p] EXCEPT !.daily = result, !.pc = "connectors"]
    ELSE [work[p] EXCEPT !.brief = result, !.pc = "record_brief"]

\* Mutant: exceptions are logged and the loop goes on to the next business.
Raised_Swallowed(p) == [work[p] EXCEPT !.pc = "next"]

\* It raised: the pipeline fails, while for the brief the exception is caught
\* and becomes a failed result.
Raised(p) ==
    IF work[p].message = "daily" THEN [work[p] EXCEPT !.pc = "failing"]
                                 ELSE Returned(p, "failed")

\* Another script is past its check of the same key and has not marked it.
Overlapping(p) ==
    \E q \in Scripts \ {p} :
       work[q].pc \in {"sending", "marking"} /\ MyKey(q) = MyKey(p)

\* Mutant: the key is not looked up.
Duplicate_Never(p) == FALSE

Duplicate(p) == MyKey(p) \in marked

\* idempotency_store.has(key)
CheckKey(p) ==
    /\ work[p].pc = "checking"
    /\ IF Duplicate(p)
       THEN Goto(p, Returned(p, "skipped_duplicate")) /\ UNCHANGED disturbed
       ELSE /\ Goto(p, [work[p] EXCEPT !.pc = "sending"])
            /\ disturbed' = IF Overlapping(p) THEN disturbed \cup {MyKey(p)}
                            ELSE disturbed
    /\ UNCHANGED <<runs, marked, delivered, abandoned>>

Deliver(p) == delivered' = [delivered EXCEPT ![MyKey(p)] = @ + 1]

\* WhatsApp accepted the message and the client read its answer.
SendAccepted(p) ==
    /\ work[p].pc = "sending"
    /\ Deliver(p)
    /\ Goto(p, [work[p] EXCEPT !.pc = "marking"])
    /\ UNCHANGED <<runs, marked, abandoned, disturbed>>

\* Mutant: a failed send marks the key all the same.
SendRejected_Marks(p) ==
    /\ work[p].pc = "sending"
    /\ marked' = marked \cup {MyKey(p)}
    /\ Goto(p, Returned(p, "failed"))
    /\ UNCHANGED <<runs, delivered, abandoned, disturbed>>

\* It did not accept it, or was not reached.
SendRejected(p) ==
    /\ work[p].pc = "sending"
    /\ Goto(p, Returned(p, "failed"))
    /\ UNCHANGED <<runs, marked, delivered, abandoned, disturbed>>

\* It accepted it, but the connection broke before the answer, or the answer
\* has no message id (a failed result) or no JSON body (an exception).
SendAnswerLost(p) ==
    /\ work[p].pc = "sending"
    /\ Deliver(p)
    /\ disturbed' = disturbed \cup {MyKey(p)}
    /\ Goto(p, Returned(p, "failed")) \/ Goto(p, Raised(p))
    /\ UNCHANGED <<runs, marked, abandoned>>

\* idempotency_store.mark(key)
MarkKey(p) ==
    /\ work[p].pc = "marking"
    /\ marked' = marked \cup {MyKey(p)}
    /\ Goto(p, Returned(p, "sent"))
    /\ UNCHANGED <<runs, delivered, abandoned, disturbed>>

\* The idempotency table is locked: has or mark raises.
StoreRaises(p) ==
    /\ work[p].pc \in {"checking", "marking"}
    /\ disturbed' = IF work[p].pc = "marking" THEN disturbed \cup {MyKey(p)}
                    ELSE disturbed
    /\ Goto(p, Raised(p))
    /\ UNCHANGED <<runs, marked, delivered, abandoned>>

-----------------------------------------------------------------------------
(***************************************************************************)
(* record_pipeline_success                                                 *)
(***************************************************************************)
\* append_connector_outcome for each connector in turn
RecordConnector(p) ==
    /\ work[p].pc = "connectors"
    /\ LET done == Append(MyRun(p).connectors, "succeeded") IN
          /\ Write(p, [MyRun(p) EXCEPT !.connectors = done])
          /\ Goto(p, IF Len(done) < Connectors THEN work[p]
                     ELSE [work[p] EXCEPT !.pc = "artifact"])
    /\ UNCHANGED <<marked, delivered, abandoned, disturbed>>

\* Mutant: the artifact is added to the record create_run returned.
RecordArtifact_Stale(p) ==
    /\ work[p].pc = "artifact"
    /\ Write(p, [NewRun(work[p].business) EXCEPT !.artifact = TRUE])
    /\ Goto(p, [work[p] EXCEPT !.pc = "dispatch"])
    /\ UNCHANGED <<marked, delivered, abandoned, disturbed>>

\* upsert_cases_from_report (CaseStore), then append_artifact_ref
RecordArtifact(p) ==
    /\ work[p].pc = "artifact"
    /\ Write(p, [MyRun(p) EXCEPT !.artifact = TRUE])
    /\ Goto(p, [work[p] EXCEPT !.pc = "dispatch"])
    /\ UNCHANGED <<marked, delivered, abandoned, disturbed>>

\* Mutant: the brief goes out whatever became of the report.
AfterDispatch_Brief(result) == "brief"

\* The owner gets a brief only with a report.
AfterDispatch(result) == IF result \in DispatchOk THEN "brief" ELSE "finish"

RecordDispatch(p) ==
    /\ work[p].pc = "dispatch"
    /\ Write(p, [MyRun(p) EXCEPT !.dispatches = Append(@, <<"daily", work[p].daily>>)])
    /\ Goto(p, [work[p] EXCEPT !.pc = AfterDispatch(work[p].daily)])
    /\ UNCHANGED <<marked, delivered, abandoned, disturbed>>

\* dispatch_owner_case_brief: nothing to tell, or on to _send_text_once.
\* Operators close cases meanwhile, so either may be the case.
Brief(p) ==
    /\ work[p].pc = "brief"
    /\ \/ Goto(p, [work[p] EXCEPT !.pc = "finish"])
       \/ Goto(p, [work[p] EXCEPT !.pc = "checking", !.message = "owner_case_brief"])
    /\ UNCHANGED <<runs, marked, delivered, abandoned, disturbed>>

RecordBrief(p) ==
    /\ work[p].pc = "record_brief"
    /\ Write(p, [MyRun(p) EXCEPT !.dispatches =
                    Append(@, <<"owner_case_brief", work[p].brief>>)])
    /\ Goto(p, [work[p] EXCEPT !.pc = "finish"])
    /\ UNCHANGED <<marked, delivered, abandoned, disturbed>>

\* Mutant: the final status looks at the brief only.
FinalStatus_BriefOnly(daily, brief) ==
    IF brief \in DispatchOk \cup {None} THEN "succeeded" ELSE "partial"

FinalStatus(daily, brief) ==
    IF daily \in DispatchOk /\ brief \in DispatchOk \cup {None}
    THEN "succeeded" ELSE "partial"

\* update_run, then the next business
FinishRun(p) ==
    /\ work[p].pc = "finish"
    /\ Write(p, [MyRun(p) EXCEPT !.status = FinalStatus(work[p].daily, work[p].brief)])
    /\ Goto(p, [work[p] EXCEPT !.pc = "next"])
    /\ UNCHANGED <<marked, delivered, abandoned, disturbed>>

-----------------------------------------------------------------------------
(***************************************************************************)
(* Failures.                                                               *)
(***************************************************************************)
\* record_pipeline_failure: data_stale cases (CaseStore), then the outcome of
\* the failed connector, when it is known which one failed ...
RecordFailedConnector(p) ==
    /\ work[p].pc = "failing"
    /\ Write(p, [MyRun(p) EXCEPT !.connectors = Append(@, "failed")])
    /\ Goto(p, [work[p] EXCEPT !.pc = "failed"])
    /\ UNCHANGED <<marked, delivered, abandoned, disturbed>>

\* ... and update_run; the exception goes on and ends the script.
FailRun(p) ==
    /\ work[p].pc \in {"failing", "failed"}
    /\ Write(p, [MyRun(p) EXCEPT !.status = "failed"])
    /\ Goto(p, Ended)
    /\ UNCHANGED <<marked, delivered, abandoned, disturbed>>

\* The process is killed, or a ledger or case-store call raises where nothing
\* catches: the run stays as it is.
Die(p) ==
    /\ work[p].pc \notin {"ended", "next"}
    /\ abandoned' = abandoned \cup {work[p].run}
    /\ disturbed' = IF work[p].pc = "marking" THEN disturbed \cup {MyKey(p)}
                    ELSE disturbed
    /\ Goto(p, Ended)
    /\ UNCHANGED <<runs, marked, delivered>>

Progress(p) ==
    \/ SkipBusiness(p) \/ BeginRun(p) \/ Finished(p)
    \/ Build(p) \/ BuildFails(p) \/ CheckKey(p) \/ SendAccepted(p)
    \/ SendRejected(p) \/ SendAnswerLost(p) \/ MarkKey(p) \/ StoreRaises(p)
    \/ RecordConnector(p) \/ RecordArtifact(p) \/ RecordDispatch(p)
    \/ Brief(p) \/ RecordBrief(p) \/ FinishRun(p)
    \/ RecordFailedConnector(p) \/ FailRun(p)

Next == \E p \in Scripts : Start(p) \/ Progress(p) \/ Die(p)

Spec == Init /\ [][Next]_vars

\* The script waits for a connector or for WhatsApp.  Their HTTP clients are called
\* without a timeout, so nothing says that it will ever go on.
Waiting(p) == work[p].pc \in {"building", "sending"}

\* A script that is not killed keeps executing its own statements.
FairSpec == Spec /\ \A p \in Scripts : WF_vars(~Waiting(p) /\ Progress(p))

-----------------------------------------------------------------------------
\* Every variable has its type; a script has its own running run.
TypeOK ==
    /\ DOMAIN runs \subseteq Runs
    /\ runs \in [DOMAIN runs -> Record]
    /\ marked \subseteq Keys
    /\ delivered \in [Keys -> Nat]
    /\ work \in [Scripts -> {Ended} \cup Working]
    /\ \A p \in Scripts : work[p].pc \notin {"ended", "next"} =>
          work[p].run \in DOMAIN runs /\ MyRun(p).status = "running"
    /\ abandoned \subseteq DOMAIN runs
    /\ disturbed \subseteq Keys

\* The history view is right about deliveries: a run that reads succeeded, and
\* each dispatch that reads sent or skipped_duplicate, is of a message WhatsApp
\* did accept, from this run or from the one that it repeated.
LedgerIsTruthful ==
    \A r \in DOMAIN runs :
       /\ runs[r].status = "succeeded" => delivered[<<runs[r].business, "daily">>] > 0
       /\ \A i \in DOMAIN runs[r].dispatches :
             runs[r].dispatches[i][2] \in DispatchOk =>
                delivered[<<runs[r].business, runs[r].dispatches[i][1]>>] > 0

\* The owner never gets the case brief of a day without its report.
BriefFollowsReport ==
    \A b \in Businesses :
       delivered[<<b, "owner_case_brief">>] > 0 => delivered[<<b, "daily">>] > 0

\* A message is repeated only if two scripts were between check and mark at
\* once, or a send was not followed by its mark (an answer lost, a locked
\* table, a dead script).  Any number of repeated, forced and retried runs one
\* after the other delivers each message at most once.
RepeatNeedsDisturbance ==
    \A k \in Keys : delivered[k] > 1 => k \in disturbed

\* app/brain/dispatch.py: "Send a daily report to the business owner exactly
\* once per key."
AtMostOncePerKey == \A k \in Keys : delivered[k] <= 1

\* A run that came to its end without failing has one outcome per connector,
\* its artifact and the dispatch of its report, and is partial exactly when
\* one of its dispatches failed.
EndedRunsAreComplete ==
    \A r \in DOMAIN runs :
       runs[r].status \in {"succeeded", "partial"} =>
          /\ runs[r].connectors = [i \in 1..Connectors |-> "succeeded"]
          /\ runs[r].artifact
          /\ runs[r].dispatches # <<>> /\ runs[r].dispatches[1][1] = "daily"
          /\ runs[r].status = "partial" <=>
                \E i \in DOMAIN runs[r].dispatches : runs[r].dispatches[i][2] = "failed"

IsRunning(r) == r \in DOMAIN runs /\ runs[r].status = "running"

\* The script of the run waits, and will for ever.
Hangs(r) == \E p \in Scripts : [](work[p] # Ended /\ work[p].run = r /\ Waiting(p))

\* Whatever the connectors, WhatsApp and the idempotency store answer, each run
\* reaches a terminal status, unless its script died, raised outside the pipeline,
\* or was never answered.
EveryRunEnds ==
    \A r \in Runs : IsRunning(r) ~> (~IsRunning(r) \/ r \in abandoned \/ Hangs(r))

\* app/brain/runner.py: "Run every due daily report from the config store."
\* One business whose pipeline fails does not take the others with it.
EveryDueReportIsRun ==
    [][\A p \in Scripts :
          (/\ work[p].pc \in {"failing", "failed"}
           /\ work'[p] = Ended
           /\ abandoned' = abandoned)
             => work[p].due \subseteq Unconnected]_vars

-----------------------------------------------------------------------------
\* The outcomes of a run in the order in which they are appended.
Outcomes(rec) ==
    [i \in DOMAIN rec.connectors |-> "connector"]
    \o (IF rec.artifact THEN <<"artifact">> ELSE <<>>)
    \o [i \in DOMAIN rec.dispatches |-> "dispatch"]

\* The log an auditor reads off the ledger.
runLog == [r \in Runs |->
              IF r \in DOMAIN runs
              THEN [status |-> runs[r].status, entries |-> Outcomes(runs[r])]
              ELSE [status |-> "none", entries |-> <<>>]]

Log == INSTANCE RunLog WITH
    Entries <- {"connector", "artifact", "dispatch"},
    log <- runLog

\* Report scripts use the ledger as it is meant to be used: each run is opened
\* once, collects outcomes, is closed at most once, and rests.
ImplementsRunLog == Log!Spec
=============================================================================
