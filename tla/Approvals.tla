------------------------------ MODULE Approvals ------------------------------
(***************************************************************************)
(* The workflow action ledger (app/brain/workflow_action_ledger.py) of one *)
(* business: planned actions, the approval requests of those that need     *)
(* one, and operators who decide them.                                     *)
(*                                                                         *)
(* An action is identified by its idempotency key.  Planning inserts the   *)
(* action and its request in one transaction.  Deciding reads both tables  *)
(* and then updates both: the updates are one transaction, which SQLite    *)
(* begins at the first UPDATE, so that the reads are outside of it.        *)
(***************************************************************************)
CONSTANTS
    Actions,        \* idempotency keys of workflow actions
    NeedApproval,   \* those whose definition in the catalog requires approval
    Operators       \* operators' requests to decide

ASSUME ApprovalAssumption == NeedApproval \subseteq Actions

VARIABLES
    planned,        \* workflow_action_ledger: key -> approval and execution state
    requests,       \* workflow_approval_requests: key -> status
    deciding,       \* what each operator's request is doing
    outpaced        \* history: operators whose read was followed by another's update

approvalVars == <<planned, requests, deciding, outpaced>>

-----------------------------------------------------------------------------
Decisions == {"approved", "rejected"}

ApprovalStates == {"not_required", "pending"} \cup Decisions

\* dry_run stands for suggestion_only, too: nothing tells them apart.  Nothing writes
\* the states executed and skipped_duplicate, nor cancelled above.
ExecutionStates ==
    {"dry_run", "blocked_approval_required", "pending_execution", "failed"}

RequestStatuses == {"pending"} \cup Decisions

\* _decision_states
ExecutionAfter(decision) ==
    IF decision = "approved" THEN "pending_execution" ELSE "failed"

Waiting == [pc |-> "waiting"]

Deciding == [pc : {"read"}, key : Actions, decision : Decisions]

ApprovalInit ==
    /\ planned = [k \in {} |-> {}]
    /\ requests = [k \in {} |-> {}]
    /\ deciding = [o \in Operators |-> Waiting]
    /\ outpaced = {}

Put(table, key, row) ==
    [k \in DOMAIN table \cup {key} |-> IF k = key THEN row ELSE table[k]]

\* The states an action is planned with (_execution_status, and pending if its
\* definition requires approval).
DryRun == [approval |-> "not_required", execution |-> "dry_run"]

Blocked == [approval |-> "pending", execution |-> "blocked_approval_required"]

\* record_planned_action; an IntegrityError on a key that exists changes nothing.
Plan(k) ==
    /\ k \notin DOMAIN planned
    /\ planned' = Put(planned, k, IF k \in NeedApproval THEN Blocked ELSE DryRun)
    /\ requests' = IF k \in NeedApproval THEN Put(requests, k, "pending") ELSE requests
    /\ UNCHANGED <<deciding, outpaced>>

\* Mutant: the status is not looked at.
ReadRequest_Whatever(o) ==
    /\ deciding[o] = Waiting
    /\ \E k \in DOMAIN requests, decision \in Decisions :
          deciding' = [deciding EXCEPT ![o] =
                          [pc |-> "read", key |-> k, decision |-> decision]]
    /\ UNCHANGED <<planned, requests, outpaced>>

\* decide_approval_request up to its guards: a request that is not pending raises
\* approval_request_already_decided, one without its action approval_record_not_found.
ReadRequest(o) ==
    /\ deciding[o] = Waiting
    /\ \E k \in DOMAIN requests, decision \in Decisions :
          /\ requests[k] = "pending"
          /\ k \in DOMAIN planned
          /\ deciding' = [deciding EXCEPT ![o] =
                             [pc |-> "read", key |-> k, decision |-> decision]]
    /\ UNCHANGED <<planned, requests, outpaced>>

\* Mutant: the action keeps its execution state.
Decide_LeavesBlocked(o) ==
    /\ deciding[o].pc = "read"
    /\ LET k == deciding[o].key IN
          /\ requests' = [requests EXCEPT ![k] = deciding[o].decision]
          /\ planned' = [planned EXCEPT ![k].approval = deciding[o].decision]
          /\ outpaced' = (outpaced \cup
                {p \in Operators : deciding[p].pc = "read" /\ deciding[p].key = k}) \ {o}
    /\ deciding' = [deciding EXCEPT ![o] = Waiting]

\* The two UPDATEs, which do not ask for the status again, and their COMMIT.
Decide(o) ==
    /\ deciding[o].pc = "read"
    /\ LET k == deciding[o].key IN
          /\ requests' = [requests EXCEPT ![k] = deciding[o].decision]
          /\ planned' = [planned EXCEPT
                ![k] = [approval |-> deciding[o].decision,
                        execution |-> ExecutionAfter(deciding[o].decision)]]
          /\ outpaced' = (outpaced \cup
                {p \in Operators : deciding[p].pc = "read" /\ deciding[p].key = k}) \ {o}
    /\ deciding' = [deciding EXCEPT ![o] = Waiting]

\* The request dies, or the database is locked: the transaction rolls back.
GiveUp(o) ==
    /\ deciding[o].pc = "read"
    /\ deciding' = [deciding EXCEPT ![o] = Waiting]
    /\ outpaced' = outpaced \ {o}
    /\ UNCHANGED <<planned, requests>>

ApprovalNext ==
    \/ \E k \in Actions : Plan(k)
    \/ \E o \in Operators : ReadRequest(o) \/ Decide(o) \/ GiveUp(o)

ApprovalSpec == ApprovalInit /\ [][ApprovalNext]_approvalVars

-----------------------------------------------------------------------------
\* Every variable has its type.
ApprovalTypeOK ==
    /\ DOMAIN planned \subseteq Actions
    /\ planned \in [DOMAIN planned ->
                      [approval : ApprovalStates, execution : ExecutionStates]]
    /\ DOMAIN requests \subseteq Actions
    /\ requests \in [DOMAIN requests -> RequestStatuses]
    /\ deciding \in [Operators -> {Waiting} \cup Deciding]
    /\ outpaced \subseteq {o \in Operators : deciding[o].pc = "read"}

\* What list_workflow_approval_queue and list_workflow_execution_queue show.
ApprovalQueue ==
    {k \in DOMAIN requests \cap DOMAIN planned :
        /\ requests[k] = "pending"
        /\ planned[k].approval = "pending"
        /\ planned[k].execution = "blocked_approval_required"}

ExecutionQueue ==
    {k \in DOMAIN planned :
        /\ planned[k].approval = "approved"
        /\ planned[k].execution = "pending_execution"}

Rejected ==
    {k \in DOMAIN planned :
        planned[k] = [approval |-> "rejected", execution |-> "failed"]}

\* An action that requires approval is never lost between the queues, nor in two
\* of them: operators see it as waiting for a decision, as waiting for execution,
\* or it was rejected, and its request says the same.
EveryActionHasItsQueue ==
    \A k \in DOMAIN planned \cap NeedApproval :
       \/ k \in ApprovalQueue
       \/ k \in ExecutionQueue /\ requests[k] = "approved"
       \/ k \in Rejected /\ requests[k] = "rejected"

\* A decision stands: it changes only when the operator who changes it had read
\* the request before the other one decided it.
DecisionsStandUnlessOutpaced ==
    [][\A k \in DOMAIN requests :
          requests[k] \in Decisions =>
             \/ k \in DOMAIN requests' /\ requests'[k] = requests[k]
             \/ \E o \in outpaced : deciding[o].key = k /\ o \notin outpaced']_approvalVars
=============================================================================
