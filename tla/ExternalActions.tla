--------------------------- MODULE ExternalActions ---------------------------
(***************************************************************************)
(* Guarded external actions (app/brain/external_actions.py): executors     *)
(* that look for an earlier attempt in their run and for an approval in    *)
(* the workflow action ledger (Approvals), append the planned attempt to   *)
(* the run, call the provider, and append the outcome.                     *)
(*                                                                         *)
(* Appending is the run ledger's read-modify-write (RunLedger): the record *)
(* is loaded, checked to be open, and replaced later.  The run's owner may *)
(* close it at any time, and executors may die.                            *)
(***************************************************************************)
EXTENDS Approvals, Naturals, Sequences, FiniteSets, SequencesExt

CONSTANTS
    Executors,      \* threads of control calling execute_external_action
    Reads,          \* idempotency keys of read requests; writes have those of Actions
    Runs,           \* run ids the requests name
    MaxRequests     \* bound on the requests

ASSUME ExternalAssumption == MaxRequests \in Nat /\ Reads \cap Actions = {}

VARIABLES
    runs,           \* the run ledger: run -> record
    work,           \* what each executor is doing
    asked,          \* the number of requests so far
    owner,          \* what each run's owner is doing
    effects,        \* how often the provider did what run and key asked for
    granted,        \* history: writes that were approved at some time
    overwritten,    \* history: runs in which a stale record replaced a newer one
    unsettled       \* history: attempts that overlapped, or whose result was not recorded

executorVars == <<runs, work, asked, owner, effects, granted, overwritten, unsettled>>
vars == <<approvalVars, executorVars>>

-----------------------------------------------------------------------------
Keys == Actions \cup Reads

\* Of an outcome: a refusal (duplicate, reserved, not allowlisted, not approved),
\* attempt_planned_before_side_effect, executed, or failed.
Outcome == [key : Keys, state : {"refused", "planned", "executed", "failed"}]

Record == [open : BOOLEAN, outcomes : Seq(Outcome)]

Idle == [pc |-> "idle"]

Busy == [pc : {"loaded", "appending", "persisting", "calling"}, run : Runs, key : Keys,
         state : {"new", "refused", "planned", "executed", "failed"}, base : Seq(Outcome)]

Init ==
    /\ ApprovalInit
    /\ runs = [r \in Runs |-> [open |-> TRUE, outcomes |-> <<>>]]
    /\ work = [e \in Executors |-> Idle]
    /\ asked = 0
    /\ owner = [r \in Runs |-> <<>>]
    /\ effects = [a \in Runs \X Keys |-> 0]
    /\ granted = {}
    /\ overwritten = {}
    /\ unsettled = {}

AttemptOf(e) == <<work[e].run, work[e].key>>

InFlight(attempt) == \E e \in Executors : work[e] # Idle /\ AttemptOf(e) = attempt

\* Mutant: looks for the wrong state.
HasExecuted_Failed(r, k) == Contains(runs[r].outcomes, [key |-> k, state |-> "failed"])

\* _has_executed_idempotency_key
HasExecuted(r, k) == Contains(runs[r].outcomes, [key |-> k, state |-> "executed"])

\* _load_scoped_run, and what it says of earlier attempts; a duplicate is refused
\* whatever the other checks say.
Load(e) ==
    /\ work[e] = Idle
    /\ asked < MaxRequests
    /\ asked' = asked + 1
    /\ \E r \in Runs, k \in Keys :
          /\ work' = [work EXCEPT ![e] =
                [pc |-> "loaded", run |-> r, key |-> k, base |-> <<>>,
                 state |-> IF HasExecuted(r, k) THEN "refused" ELSE "new"]]
          /\ unsettled' = IF InFlight(<<r, k>>) THEN unsettled \cup {<<r, k>>}
                          ELSE unsettled
    /\ UNCHANGED <<approvalVars, runs, owner, effects, granted, overwritten>>

\* Mutant: a planned action will do.
Approved_Planned(k) == k \in DOMAIN planned

\* _find_approved_workflow_action
Approved(k) == k \in ExecutionQueue

\* The checks.  A request may be for a toolkit or action that policy denies, and
\* may name another workflow action than the one its key belongs to, or none; each
\* refusal is audited.
Check(e) ==
    /\ work[e].pc = "loaded"
    /\ \E allowed, linked \in BOOLEAN :
          work' = [work EXCEPT ![e].pc = "appending",
                               ![e].state =
             IF /\ work[e].state = "new"
                /\ allowed
                /\ work[e].key \in Actions => linked /\ Approved(work[e].key)
             THEN "planned" ELSE "refused"]
    /\ UNCHANGED <<approvalVars, runs, asked, owner, effects, granted, overwritten, unsettled>>

\* The result of the call will not be in the ledger.
Unrecorded(e) ==
    unsettled' = IF work[e].state = "executed" THEN unsettled \cup {AttemptOf(e)}
                 ELSE unsettled

\* append_connector_outcome loads the run ...
LoadForAppend(e) ==
    /\ work[e].pc = "appending"
    /\ runs[work[e].run].open
    /\ work' = [work EXCEPT ![e].pc = "persisting",
                            ![e].base = runs[work[e].run].outcomes]
    /\ UNCHANGED <<approvalVars, runs, asked, owner, effects, granted, overwritten, unsettled>>

\* ... or raises, because it is closed.
AppendRaises(e) ==
    /\ work[e].pc = "appending"
    /\ ~runs[work[e].run].open
    /\ work' = [work EXCEPT ![e] = Idle]
    /\ Unrecorded(e)
    /\ UNCHANGED <<approvalVars, runs, asked, owner, effects, granted, overwritten>>

\* Mutant: an outcome replaces the earlier ones of its attempt.
WithOutcome_Replaces(outcomes, outcome) ==
    Append(SelectSeq(outcomes, LAMBDA o : o.key # outcome.key), outcome)

WithOutcome(outcomes, outcome) == Append(outcomes, outcome)

\* A record computed from what was loaded replaces whatever the run is now.
Replace(r, rec, base) ==
    /\ runs' = [runs EXCEPT ![r] = rec]
    /\ overwritten' = IF runs[r] = [open |-> TRUE, outcomes |-> base] THEN overwritten
                      ELSE overwritten \cup {r}

\* The second half of the append.  A stored plan is followed by the call, anything
\* else ends the execution.
Persist(e) ==
    /\ work[e].pc = "persisting"
    /\ LET outcome == [key |-> work[e].key, state |-> work[e].state] IN
          Replace(work[e].run,
                  [open |-> TRUE, outcomes |-> WithOutcome(work[e].base, outcome)],
                  work[e].base)
    /\ work' = [work EXCEPT ![e] = IF @.state = "planned"
                                   THEN [@ EXCEPT !.pc = "calling", !.base = <<>>]
                                   ELSE Idle]
    /\ UNCHANGED <<approvalVars, asked, owner, effects, granted, unsettled>>

Answer(e, state) == work' = [work EXCEPT ![e].pc = "appending", ![e].state = state]

TakesEffect(e) == effects' = [effects EXCEPT ![AttemptOf(e)] = @ + 1]

CallSucceeds(e) ==
    /\ work[e].pc = "calling"
    /\ TakesEffect(e)
    /\ Answer(e, "executed")
    /\ UNCHANGED <<approvalVars, runs, asked, owner, granted, overwritten, unsettled>>

\* The provider raised, or answered with something that is not an object.
CallFails(e) ==
    /\ work[e].pc = "calling"
    /\ Answer(e, "failed")
    /\ \/ UNCHANGED <<effects, unsettled>>
       \/ TakesEffect(e) /\ unsettled' = unsettled \cup {AttemptOf(e)}
    /\ UNCHANGED <<approvalVars, runs, asked, owner, granted, overwritten>>

\* The executor dies, or SQLite raises.
Die(e) ==
    /\ work[e] # Idle
    /\ work' = [work EXCEPT ![e] = Idle]
    /\ Unrecorded(e)
    /\ UNCHANGED <<approvalVars, runs, asked, owner, effects, granted, overwritten>>

\* The script that owns the run closes it: update_run loads the record ...  (Its
\* appends, which go the way of the executors', are left out.)
CloseRead(r) ==
    /\ runs[r].open
    /\ owner[r] = <<>>
    /\ owner' = [owner EXCEPT ![r] = <<runs[r].outcomes>>]
    /\ UNCHANGED <<approvalVars, runs, work, asked, effects, granted, overwritten, unsettled>>

\* ... and replaces it.
CloseWrite(r) ==
    /\ owner[r] # <<>>
    /\ Replace(r, [open |-> FALSE, outcomes |-> Head(owner[r])], Head(owner[r]))
    /\ owner' = [owner EXCEPT ![r] = <<>>]
    /\ UNCHANGED <<approvalVars, work, asked, effects, granted, unsettled>>

Approvers ==
    /\ ApprovalNext
    /\ granted' = granted \cup ExecutionQueue'
    /\ UNCHANGED <<runs, work, asked, owner, effects, overwritten, unsettled>>

Next ==
    \/ Approvers
    \/ \E e \in Executors :
          \/ Load(e) \/ Check(e) \/ LoadForAppend(e) \/ AppendRaises(e) \/ Persist(e)
          \/ CallSucceeds(e) \/ CallFails(e) \/ Die(e)
    \/ \E r \in Runs : CloseRead(r) \/ CloseWrite(r)

Spec == Init /\ [][Next]_vars

-----------------------------------------------------------------------------
\* Every variable has its type.
TypeOK ==
    /\ ApprovalTypeOK
    /\ runs \in [Runs -> Record]
    /\ work \in [Executors -> {Idle} \cup Busy]
    /\ owner \in [Runs -> Seq(Seq(Outcome))]
    /\ \A r \in Runs : Len(owner[r]) <= 1
    /\ asked \in 0 .. MaxRequests
    /\ effects \in [Runs \X Keys -> Nat]
    /\ granted \subseteq Actions
    /\ overwritten \subseteq Runs
    /\ unsettled \subseteq Runs \X Keys

\* Whatever operators, executors and owners do in between, no write takes effect
\* that needs no approval or that no operator ever approved.
WritesWereApproved ==
    \A r \in Runs, k \in Actions :
       effects[<<r, k>>] > 0 => k \in granted \cap NeedApproval

Recorded(r, k, state) == Contains(runs[r].outcomes, [key |-> k, state |-> state])

\* The docstring of execute_external_action promises a durable planned outcome
\* before the client is called: an effect, or the record of a result, without a
\* recorded plan needs a stale record that replaced a newer one.
EffectsWerePlanned ==
    \A r \in Runs \ overwritten, k \in Keys :
       (effects[<<r, k>>] > 0 \/ Recorded(r, k, "executed") \/ Recorded(r, k, "failed"))
          => Recorded(r, k, "planned")

\* Once nobody works on it, and unless executors overlapped, a result was lost or
\* a stale record replaced a newer one, the run shows each effect as executed,
\* and exactly one; what it shows as executed did take effect in any case.
EffectsAreRecordedOnce ==
    \A r \in Runs, k \in Keys :
       /\ Recorded(r, k, "executed") => effects[<<r, k>>] > 0
       /\ (~InFlight(<<r, k>>) /\ r \notin overwritten /\ <<r, k>> \notin unsettled) =>
             /\ effects[<<r, k>>] > 0 <=> Recorded(r, k, "executed")
             /\ effects[<<r, k>>] <= 1
=============================================================================
