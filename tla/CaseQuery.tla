------------------------------ MODULE CaseQuery ------------------------------
(***************************************************************************)
(* JQL-lite (operator_views.py): what a query text is accepted as, which   *)
(* cases match it and in which order they come.                            *)
(*                                                                         *)
(* A query text is given by the record a reader of it would write down:    *)
(* its length class, whether it contains a forbidden word or a stray       *)
(* parenthesis, its clauses and its ORDER BY entries.  A raw value is      *)
(* given by its type and its value, so that coercion may refuse it.        *)
(***************************************************************************)
EXTENDS CaseQueues

-----------------------------------------------------------------------------
(***************************************************************************)
(* _FIELD_SPECS: the type of each field and the operators it allows.       *)
(***************************************************************************)
ChoiceOps == {"=", "!=", "IN"}

Equalities == {"=", "!="}

Orders == {"=", "!=", ">", ">=", "<", "<="}

FieldSpecs ==
    [status |-> [type |-> "status", ops |-> ChoiceOps],
     status_category |-> [type |-> "category", ops |-> ChoiceOps],
     project |-> [type |-> "string", ops |-> ChoiceOps],
     issue_type |-> [type |-> "case_type", ops |-> ChoiceOps],
     assignee_ref |-> [type |-> "string", ops |-> ChoiceOps],
     case_type |-> [type |-> "case_type", ops |-> ChoiceOps],
     severity |-> [type |-> "severity", ops |-> ChoiceOps],
     priority_score |-> [type |-> "int", ops |-> Orders],
     entity_kind |-> [type |-> "string", ops |-> ChoiceOps],
     latest_run_id |-> [type |-> "string", ops |-> ChoiceOps],
     source_connector |-> [type |-> "string", ops |-> ChoiceOps],
     degraded |-> [type |-> "bool", ops |-> Equalities],
     dedupe_key |-> [type |-> "string", ops |-> Equalities],
     opened_at |-> [type |-> "datetime", ops |-> Orders],
     updated_at |-> [type |-> "datetime", ops |-> Orders],
     resolved_at |-> [type |-> "datetime", ops |-> Orders]]

SortFields == {"priority_score", "opened_at", "updated_at"}

DefaultSort == <<[field |-> "priority_score", dir |-> "DESC"],
                 [field |-> "opened_at", dir |-> "ASC"]>>

-----------------------------------------------------------------------------
(***************************************************************************)
(* parse_case_jql: the first error found, or "ok".                         *)
(***************************************************************************)
\* _parse_clause: too many values, then the field, the operator, the values.
ClauseError(clause) ==
    IF clause.op = "IN" /\ Cardinality(clause.values) > 20
       THEN "jql_clause_limit_exceeded"
    ELSE IF clause.field \notin DOMAIN FieldSpecs THEN "unsupported_jql_field"
    ELSE IF clause.op \notin FieldSpecs[clause.field].ops
         THEN "unsupported_jql_operator"
    ELSE IF \E v \in clause.values : v.type # FieldSpecs[clause.field].type
         THEN "unsupported_jql_value"
    ELSE "ok"

FirstError(errors) ==
    LET bad == {i \in DOMAIN errors : errors[i] # "ok"}
    IN IF bad = {} THEN "ok" ELSE errors[Min(bad)]

JqlError(query) ==
    IF query.tooLong THEN "jql_too_long"
    ELSE IF query.forbidden THEN "invalid_jql"
    ELSE IF \E i \in DOMAIN query.order : query.order[i].field \notin SortFields
         THEN "unsupported_jql_field"
    ELSE IF query.parens THEN "invalid_jql"
    ELSE IF Len(query.clauses) > 8 THEN "jql_clause_limit_exceeded"
    ELSE FirstError([i \in DOMAIN query.clauses |-> ClauseError(query.clauses[i])])

-----------------------------------------------------------------------------
(***************************************************************************)
(* _matches and _sort_cases.                                               *)
(***************************************************************************)
\* _case_field_value; a time that is not set is 0, an absent reference None.
FieldValue(c, field) ==
    CASE field = "status" -> Status(c)
      [] field = "status_category" -> StatusCategory(Status(c))
      [] field = "project" -> Business[cases[c].key]
      [] field \in {"issue_type", "case_type"} -> Type(c)
      [] field = "assignee_ref" -> cases[c].assignee
      [] field = "severity" -> Severity(c)
      [] field = "priority_score" -> Priority(c)
      [] field = "entity_kind" -> EntityKind[cases[c].key]
      [] field = "latest_run_id" -> LatestRun(c)
      [] field = "degraded" -> IsDegraded(c)
      [] field = "dedupe_key" -> cases[c].key
      [] field = "opened_at" -> cases[c].opened
      [] field = "updated_at" -> cases[c].updated
      [] field = "resolved_at" -> cases[c].resolved

Wanted(clause) == {v.value : v \in clause.values}

Ordered(actual, op, value) ==
    CASE op = ">" -> actual > value
      [] op = ">=" -> actual >= value
      [] op = "<" -> actual < value
      [] op = "<=" -> actual <= value

IsNone(field, value) == FieldSpecs[field].type = "datetime" /\ value = 0

\* Mutant: a time that is not set compares as the earliest one.
Matches_NoneIsEarly(c, clause) ==
    LET actual == FieldValue(c, clause.field)
        found == IF clause.field = "source_connector"
                 THEN SourceConnectors(c) \cap Wanted(clause) # {}
                 ELSE actual \in Wanted(clause)
    IN CASE clause.op \in {"=", "IN"} -> found
         [] clause.op = "!=" -> ~found
         [] OTHER -> \A v \in Wanted(clause) : Ordered(actual, clause.op, v)

\* A connector clause asks whether any source of the case is wanted; None is
\* different from every value and below or above none.
Matches(c, clause) ==
    LET actual == FieldValue(c, clause.field)
        found == IF clause.field = "source_connector"
                 THEN SourceConnectors(c) \cap Wanted(clause) # {}
                 ELSE actual \in Wanted(clause)
    IN CASE clause.op \in {"=", "IN"} -> found
         [] clause.op = "!=" -> ~found
         [] OTHER -> /\ ~IsNone(clause.field, actual)
                     /\ \A v \in Wanted(clause) : Ordered(actual, clause.op, v)

Selected(S, clauses) ==
    {c \in S : \A i \in DOMAIN clauses : Matches(c, clauses[i])}

\* c comes before d by entry i of the order.
Precedes(c, d, entry) ==
    LET x == FieldValue(c, entry.field)  y == FieldValue(d, entry.field)
    IN IF entry.dir = "DESC" THEN x > y ELSE x < y

\* Stable sorts from the last entry to the first, case_id ASC being the last.
InOrder(c, d, order) ==
    LET Differs(i) == FieldValue(c, order[i].field) # FieldValue(d, order[i].field)
        decisive == {i \in DOMAIN order : Differs(i) /\ \A j \in 1..(i - 1) : ~Differs(j)}
    IN IF decisive = {} THEN c < d
       ELSE \E i \in decisive : Precedes(c, d, order[i])

SortedCases(S, order) == SetToSortSeq(S, LAMBDA c, d : InOrder(c, d, order))

\* query_case_queue: parse, select, sort, cut.
query_case_queue(b, query, limit) ==
    LET error == JqlError(query)
        order == IF query.order = <<>> THEN DefaultSort ELSE query.order
        filtered == Selected(CasesOf(b), query.clauses)
        total == Cardinality(filtered)
        sorted == SortedCases(filtered, order)
        shown == SubSeq(sorted, 1, IF limit < Len(sorted) THEN limit ELSE Len(sorted))
    IN IF error # "ok" THEN [ok |-> FALSE, code |-> error]
       ELSE [ok |-> TRUE, cases |-> shown, count |-> Len(shown),
             total |-> total, truncated |-> total > Len(shown)]

\* list_case_queue without a query: list_cases with a status and a limit.
list_case_queue(b, status, limit) ==
    LET S == IF status = None THEN CasesOf(b) ELSE InStatus(b, status)
        sorted == SetToSortSeq(S, Before)
    IN SubSeq(sorted, 1, IF limit < Len(sorted) THEN limit ELSE Len(sorted))

-----------------------------------------------------------------------------
(***************************************************************************)
(* _BUILTIN_CASE_VIEWS                                                     *)
(***************************************************************************)
Value(type, value) == [type |-> type, value |-> value]

Where(field, op, type, values) ==
    [field |-> field, op |-> op, values |-> {Value(type, v) : v \in values}]

Query(clauses, field) ==
    [tooLong |-> FALSE, forbidden |-> FALSE, parens |-> FALSE, clauses |-> clauses,
     order |-> <<[field |-> field, dir |-> "DESC"]>>]

IsStatus(status) == Where("status", "=", "status", {status})

InFlight == Where("status", "IN", "status", Actionable)

ConnectorDegraded ==
    Query(<<InFlight, Where("degraded", "=", "bool", {TRUE})>>, "updated_at")

BuiltinViews ==
    [open_cases |-> Query(<<IsStatus("open")>>, "priority_score"),
     acknowledged_cases |-> Query(<<IsStatus("acknowledged")>>, "updated_at"),
     in_progress_cases |-> Query(<<IsStatus("in_progress")>>, "updated_at"),
     resolved_cases |-> Query(<<IsStatus("resolved")>>, "updated_at"),
     critical_open |->
        Query(<<IsStatus("open"), Where("severity", "=", "severity", {"critical"})>>,
              "priority_score"),
     data_stale |->
        Query(<<Where("case_type", "=", "case_type", {"data_stale"}), InFlight>>,
              "updated_at"),
     stockout_risk |->
        Query(<<Where("case_type", "=", "case_type", {"stockout_risk"}), InFlight>>,
              "priority_score"),
     connector_degraded |-> ConnectorDegraded]

\* execute_builtin_case_view
execute_builtin_case_view(b, view, limit) == query_case_queue(b, BuiltinViews[view], limit)
=============================================================================
