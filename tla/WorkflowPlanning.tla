---------------------------- MODULE WorkflowPlanning ----------------------------
(***************************************************************************)
(* Simulating workflow rules on operational cases (workflow_automation.py, *)
(* action_catalog.py) over the workflow action ledger of Approvals: a rule *)
(* is validated, its conditions are compared with a snapshot of the case,  *)
(* and its actions are planned one by one, each in a transaction of its    *)
(* own, while other simulations do the same and operators decide.          *)
(*                                                                         *)
(* An idempotency key is the tuple <<rule, case, action, params>>.         *)
(***************************************************************************)
EXTENDS Approvals, Naturals, Sequences, FiniteSets, Functions

CONSTANTS
    Planners,    \* simulations; each simulates once
    Rules,       \* records [id, business, trigger, conditions, actions]
    Snapshots,   \* cases as read: [id, business, type, status, severity,
                 \* priority, degraded]
    NoNumber     \* a model value: what does not read as a number

VARIABLES
    sim          \* what each simulation is doing, and has reported

planningVars == <<planned, requests, deciding, outpaced, sim>>

-----------------------------------------------------------------------------
(***************************************************************************)
(* action_catalog.py                                                       *)
(***************************************************************************)
Definition(mode, families, needs) ==
    [mode |-> mode, families |-> families, needs |-> needs]

\* requires_reason, requires_comment and input_fields are the params it needs, and
\* requires_approval is set for exactly the actions of that mode.
Catalog ==
    [acknowledge_case |-> Definition("manual", {}, {}),
     add_comment |-> Definition("manual", {}, {"comment"}),
     assign_owner |-> Definition("manual", {}, {"assignee_ref"}),
     dismiss_case |-> Definition("manual", {}, {"reason"}),
     mark_in_progress |-> Definition("manual", {}, {}),
     resolve_case |-> Definition("manual", {}, {"reason"}),
     request_follow_up |-> Definition("manual", {}, {}),
     request_external_action |-> Definition("approval_required", {}, {"reason"}),
     check_storefront |->
        Definition("suggestion", {"sales_drop", "spend_without_orders"}, {}),
     review_campaigns |-> Definition("suggestion", {"spend_without_orders"}, {}),
     confirm_stock |-> Definition("suggestion", {"stockout_risk"}, {}),
     pause_promotion |->
        Definition("approval_required", {"stockout_risk", "spend_without_orders"}, {}),
     refresh_credentials |-> Definition("manual", {"data_stale"}, {}),
     retry_connector |-> Definition("manual", {"data_stale"}, {}),
     inspect_pending_orders |-> Definition("suggestion", {"fulfillment_backlog"}, {}),
     reply_pending_chats |-> Definition("suggestion", {"unanswered_conversations"}, {})]

RequiresApproval(action) == Catalog[action].mode = "approval_required"

-----------------------------------------------------------------------------
(***************************************************************************)
(* workflow_automation.py.  The params of an action are a function from    *)
(* names to texts; a "secret" text is redacted before it is fingerprinted, *)
(* so that two secrets are one.                                            *)
(***************************************************************************)
Secrets == {"secret1", "secret2"}

_redacted_params(params) ==
    [name \in DOMAIN params |-> IF params[name] \in Secrets THEN "[REDACTED]" ELSE params[name]]

make_workflow_idempotency_key(rule, case, action) ==
    <<rule.id, case.id, action.action, _redacted_params(action.params)>>

MissingParams(action) ==
    {name \in Catalog[action.action].needs :
        name \notin DOMAIN action.params \/ action.params[name] = "blank"}

Allowed(action, case) ==
    /\ action.action \in DOMAIN Catalog
    /\ Catalog[action.action].families # {} => case.type \in Catalog[action.action].families
    /\ MissingParams(action) = {}

Triggers == {"case_opened", "case_updated", "manual"}

\* _validate_rule does not raise
Valid(rule, case) ==
    /\ rule.business = case.business
    /\ rule.id # "blank"
    /\ rule.trigger \in Triggers
    /\ \A i \in DOMAIN rule.actions : Allowed(rule.actions[i], case)

ConditionFields == {"status", "type", "severity", "priority", "degraded"}

\* A field that is unknown, or a least priority that is no number, raises.
Comparable(condition) ==
    /\ condition.field \in ConditionFields
    /\ condition.field = "priority" => condition.value # NoNumber

\* min_priority_score is a bound, the others are compared for equality.
Holds(condition, case) ==
    IF condition.field = "priority" THEN case.priority >= condition.value
    ELSE case[condition.field] = condition.value

Accepted(rule, case) ==
    Valid(rule, case) /\ \A i \in DOMAIN rule.conditions : Comparable(rule.conditions[i])

Matched(rule, case) ==
    \A i \in DOMAIN rule.conditions : Holds(rule.conditions[i], case)

\* The ledger opens a request for the actions that the catalog wants approved
\* (record_planned_action looks at definition.requires_approval).
ASSUME PlanningAssumption ==
    \A rule \in Rules :
       /\ Len(rule.actions) \in Nat /\ DOMAIN rule.actions = 1..Len(rule.actions)
       /\ \A case \in Snapshots, i \in DOMAIN rule.actions :
             LET action == rule.actions[i] IN
             action.action \in DOMAIN Catalog =>
                (make_workflow_idempotency_key(rule, case, action) \in NeedApproval
                    <=> RequiresApproval(action.action))

-----------------------------------------------------------------------------
NotStarted == [pc |-> "idle", actions |-> {}, skipped |-> {}]

PlanningInit ==
    /\ ApprovalInit
    /\ sim = [p \in Planners |-> NotStarted]

LedgerUnchanged == UNCHANGED approvalVars

\* simulate_case_workflow up to the planning
Simulate(p, rule, case) ==
    /\ sim[p].pc = "idle"
    /\ sim' = [sim EXCEPT ![p] =
          [pc |-> IF ~Accepted(rule, case) THEN "refused"
                  ELSE IF Matched(rule, case) THEN "planning" ELSE "done",
           rule |-> rule, case |-> case, next |-> 1, actions |-> {}, skipped |-> {}]]
    /\ LedgerUnchanged

NextKey(p) ==
    make_workflow_idempotency_key(sim[p].rule, sim[p].case, sim[p].rule.actions[sim[p].next])

HasNext(p) == sim[p].pc = "planning" /\ sim[p].next <= Len(sim[p].rule.actions)

\* Mutant: whether the write created anything is not looked at.
Reported_Always(p, created) ==
    [sim[p] EXCEPT !.next = @ + 1, !.actions = @ \cup {NextKey(p)}]

\* The action is among those planned, or those skipped as duplicates.
Reported(p, created) ==
    [sim[p] EXCEPT !.next = @ + 1,
                   !.actions = IF created THEN @ \cup {NextKey(p)} ELSE @,
                   !.skipped = IF created THEN @ ELSE @ \cup {NextKey(p)}]

\* The key is new: the action, and its request if it needs approval, are inserted.
PlanNext(p) ==
    /\ HasNext(p)
    /\ Plan(NextKey(p))
    /\ sim' = [sim EXCEPT ![p] = Reported(p, TRUE)]

\* An earlier action of the rule had the key, or the ledger has it: IntegrityError.
SkipNext(p) ==
    /\ HasNext(p)
    /\ NextKey(p) \in DOMAIN planned
    /\ sim' = [sim EXCEPT ![p] = Reported(p, FALSE)]
    /\ LedgerUnchanged

Finish(p) ==
    /\ sim[p].pc = "planning"
    /\ ~HasNext(p)
    /\ sim' = [sim EXCEPT ![p].pc = "done"]
    /\ LedgerUnchanged

\* The ledger is locked: the simulation raises, what it planned stays.
Break(p) ==
    /\ HasNext(p)
    /\ sim' = [sim EXCEPT ![p].pc = "failed"]
    /\ LedgerUnchanged

Operate(o) ==
    /\ ReadRequest(o) \/ Decide(o) \/ GiveUp(o)
    /\ UNCHANGED sim

PlanningNext ==
    \/ \E p \in Planners :
          \/ \E rule \in Rules, case \in Snapshots : Simulate(p, rule, case)
          \/ PlanNext(p) \/ SkipNext(p) \/ Finish(p) \/ Break(p)
    \/ \E o \in Operators : Operate(o)

PlanningSpec == PlanningInit /\ [][PlanningNext]_planningVars
-----------------------------------------------------------------------------
\* However simulations of the same rules race, retry after a failure and meet what
\* operators have decided meanwhile: every action in the ledger was planned by
\* exactly one simulation, of a rule of the case's business whose conditions all
\* held of the case, with actions meant for its type; it waits for approval exactly
\* if the catalog says so; and a simulation that ends accounts for every action of
\* its rule as planned by itself or skipped, and the ledger has them all.
PlansAreGoverned ==
    /\ \A k \in DOMAIN planned :
          /\ Cardinality({p \in Planners : k \in sim[p].actions}) = 1
          /\ k \in DOMAIN requests <=> RequiresApproval(k[3])
          /\ \A p \in Planners : k \in sim[p].actions =>
                /\ k[2] = sim[p].case.id
                /\ sim[p].rule.business = sim[p].case.business
                /\ Matched(sim[p].rule, sim[p].case)
                /\ Catalog[k[3]].families = {} \/ sim[p].case.type \in Catalog[k[3]].families
    /\ \A p \in Planners : sim[p].pc = "done" /\ Matched(sim[p].rule, sim[p].case) =>
          /\ sim[p].actions \cup sim[p].skipped \subseteq DOMAIN planned
          /\ \A i \in DOMAIN sim[p].rule.actions :
                make_workflow_idempotency_key(sim[p].rule, sim[p].case, sim[p].rule.actions[i])
                   \in sim[p].actions \cup sim[p].skipped
=============================================================================
