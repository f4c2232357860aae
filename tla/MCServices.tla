------------------------------ MODULE MCServices ------------------------------
(***************************************************************************)
(* One TLC run for four components that share no state: the findings of a  *)
(* daily report, the schedules, the planning of workflow actions and the   *)
(* delivery statuses.  A behaviour plays one scene: one of the machines    *)
(* moves, the others stay in their initial states.                         *)
(***************************************************************************)
EXTENDS DailyFindings, Schedules, WorkflowPlanning, DeliveryStatus

-----------------------------------------------------------------------------
(***************************************************************************)
(* Daily findings: an integration, a spreadsheet and a manual payload, in  *)
(* any order.  Only a manual payload can tell how fresh it is, and sign    *)
(* with the name of another connector.                                     *)
(***************************************************************************)
DefaultThresholds == [drop |-> 15, stock |-> 5, unanswered |-> 5, mix |-> 40, roas |-> 3]

Number(source, value, unit) ==
    [value |-> value, kind |-> "number", says |-> None, unit |-> unit, sources |-> {source}]

Words(source, says) ==
    [value |-> 0, kind |-> "words", says |-> says, unit |-> None, sources |-> {source}]

Numeral(source, value) ==
    [value |-> value, kind |-> "numeral", says |-> None, unit |-> None, sources |-> {source}]

DefaultPlan == <<"tiendanube", "google_sheets", "sample">>

AnyOrder == {p \in [1..3 -> Range(DefaultPlan)] : Cardinality(Range(p)) = 3}

\* What a manual payload may tell of its freshness.
FreshnessNotes ==
    LET by == "manual_sample"
        status(says) == Status :> Words(by, says)
    IN {<<>>, status("stale"), status("failed"), status("fresh"),
        status("rate_limited") @@ (Age :> Number(by, 6 * Hour, "seconds")),
        Age :> Numeral(by, 24 * Hour), Age :> Words(by, "yesterday"),
        Age :> Number(by, Hour, "seconds")}

SampleFigures ==
    LET by == "manual_sample"
    IN {"revenue_today" :> Number(by, 20, "ARS") @@
           "orders_today" :> Number(by, 1, None),
        "stock_units" :> Number(by, 1, "units") @@
           "unanswered_conversations" :> Words(by, "many"),
        "revenue_today_tn" :> Number(by, 100, "ARS") @@
           "revenue_today_ml" :> Number(by, 200, "ARS") @@
           "orders_today_tn" :> Number(by, 0, None) @@
           "ad_spend_today" :> Number(by, 150, "ARS")}

Reports ==
    [tiendanube |->
        {"revenue_today" :> Number("tiendanube", 80, "ARS") @@
            "orders_today" :> Number("tiendanube", 2, "orders"),
         "revenue_today" :> Number("tiendanube", 30, "ARS") @@
            "orders_today" :> Number("tiendanube", 0, "orders") @@
            "stock_units" :> Number("tiendanube", 3, "units")},
     google_sheets |->
        {"revenue_baseline" :> Number("google_sheets", 100, "ARS") @@
            "orders_today" :> Number("google_sheets", 1, None) @@
            "unanswered_conversations" :> Number("google_sheets", 6, None),
         "revenue_today" :> Number("google_sheets", 40, "ARS") @@
            "revenue_baseline" :> Number("google_sheets", 60, "ARS") @@
            "ad_spend_today" :> Number("google_sheets", 50, "ARS")},
     sample |-> {figures @@ note : figures \in SampleFigures, note \in FreshnessNotes}
                   \cup {"revenue_today" :> Number("tiendanube", 20, "ARS") @@
                            "orders_today" :> Number("tiendanube", 1, None)}]

-----------------------------------------------------------------------------
(***************************************************************************)
(* Schedules: days of eight minutes, a change of the clock by two minutes  *)
(* either way, or none, and a schedule in each of some minutes.            *)
(***************************************************************************)
Clocks ==
    {z \in [from : {9, 12, 15}, before : {-3, -1, 1}, after : {-3, -1, 1}] : KeepsDays(z)}

DefaultZone == [from |-> 9, before |-> 1, after |-> 1]

SomeCrons ==
    {[at |-> m, enabled |-> TRUE, known |-> TRUE] : m \in {0, 3, 6}} \cup
    {[at |-> 3, enabled |-> FALSE, known |-> TRUE], [at |-> 3, enabled |-> TRUE, known |-> FALSE]}

-----------------------------------------------------------------------------
(***************************************************************************)
(* Planning: one case, as read twice, and rules that fit it or do not.     *)
(***************************************************************************)
Case(priority, degraded) ==
    [id |-> "case1", business |-> "b1", type |-> "stockout_risk", status |-> "open",
     severity |-> "critical", priority |-> priority, degraded |-> degraded]

Act(key, params) == [action |-> key, params |-> params]

Rule(id, conditions, actions) ==
    [id |-> id, business |-> "b1", trigger |-> "case_opened", conditions |-> conditions,
     actions |-> actions]

Urgent == [field |-> "priority", value |-> 80]

\* Two secrets are redacted to one key, so that the third action is a duplicate.
Pausing ==
    Rule("pause", <<Urgent, [field |-> "degraded", value |-> FALSE]>>,
         <<Act("pause_promotion", <<>>),
           Act("request_external_action", "reason" :> "stock" @@ "token" :> "secret1"),
           Act("request_external_action", "reason" :> "stock" @@ "token" :> "secret2")>>)

SomeRules ==
    {Pausing,
     Rule("check", <<>>, <<Act("confirm_stock", <<>>), Act("check_storefront", <<>>)>>),
     Rule("dismiss", <<Urgent>>, <<Act("add_comment", "comment" :> "late"),
                                 Act("dismiss_case", "reason" :> "blank")>>),
     Rule("odd", <<[field |-> "priority", value |-> NoNumber]>>, <<Act("confirm_stock", <<>>)>>),
     [Pausing EXCEPT !.business = "b2"],
     Rule("confirm", <<[field |-> "status", value |-> "open"]>>, <<Act("confirm_stock", <<>>)>>)}

Cases == {Case(100, FALSE), Case(70, FALSE)}

Keys ==
    {make_workflow_idempotency_key(rule, case, rule.actions[i]) :
        rule \in SomeRules, case \in Cases, i \in 1..1} \cup
    {make_workflow_idempotency_key(rule, case, rule.actions[i]) :
        rule \in {r \in SomeRules : Len(r.actions) > 1}, case \in Cases, i \in 2..2}

KeysToApprove == {k \in Keys : RequiresApproval(k[3])}

-----------------------------------------------------------------------------
(***************************************************************************)
(* Delivery statuses: a sent, a delivered and a malformed entry, and two   *)
(* webhooks that overlap in one of them.                                   *)
(***************************************************************************)
Told(status, time) == [id |-> "m1", status |-> status, time |-> time]

SomeWebhooks ==
    {[statuses |-> <<Told("sent", "t1"), Told(None, "t2"), Told("delivered", "t2")>>,
      message |-> "text"],
     [statuses |-> <<Told("delivered", "t2"), Told("read", "t3")>>, message |-> None]}

-----------------------------------------------------------------------------
VARIABLE scene

servicesVars == <<scene, findingVars, scheduleVars, planningVars, statusVars>>

Scenes == {"findings", "schedules", "planning", "statuses"}

Plays(name) == scene = name /\ UNCHANGED scene

ServicesInit ==
    /\ scene \in Scenes
    /\ FindingsInit /\ (scene # "findings" => plan = DefaultPlan)
    /\ ScheduleInit /\ (scene # "schedules" => zone = DefaultZone)
    /\ PlanningInit
    /\ StatusInit

ServicesNext ==
    \/ Plays("findings") /\ FindingsNext /\ UNCHANGED <<scheduleVars, planningVars, statusVars>>
    \/ Plays("schedules") /\ ScheduleNext /\ UNCHANGED <<findingVars, planningVars, statusVars>>
    \/ Plays("planning") /\ PlanningNext /\ UNCHANGED <<findingVars, scheduleVars, statusVars>>
    \/ Plays("statuses") /\ StatusNext /\ UNCHANGED <<findingVars, scheduleVars, planningVars>>

ServicesSpec == ServicesInit /\ [][ServicesNext]_servicesVars
=============================================================================
