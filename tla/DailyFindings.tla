----------------------------- MODULE DailyFindings -----------------------------
(***************************************************************************)
(* From connectors to cases: the pipeline builds the report of every       *)
(* planned connector, merges them, and detects operational cases in the    *)
(* insights (pipeline.py, operational_cases.py).  If a connector raises,   *)
(* nothing is merged, and cases of stale data are opened instead           *)
(* (execution_ledger.py).                                                  *)
(*                                                                         *)
(* A detection is a record of its dedupe key, a pair of the case type and, *)
(* for data_stale, the source; its severity, priority and cited sources.   *)
(***************************************************************************)
EXTENDS ReportMerge, TLC, Functions, SequencesExt

CONSTANTS
    Plans,       \* sequences of connector types that may be planned
    Yields       \* connector type -> the reports it may return

\* A compiled runtime names no connector type twice (_unique_in_order).
ASSUME ConnectorAssumption ==
    /\ \A p \in Plans : p \in Seq(DOMAIN Yields) /\ IsInjective(p)
    /\ \A type \in DOMAIN Yields : \A report \in Yields[type] : IsReport(report)

VARIABLES
    plan,        \* connector_types
    given,       \* reports: those built so far
    metrics,     \* the metrics of the merged report
    found,       \* the detections made
    stage        \* "building", "merged", "detected" or "failed"

findingVars == <<plan, given, metrics, found, stage>>

-----------------------------------------------------------------------------
(***************************************************************************)
(* Freshness of a source, as far as the report itself tells.               *)
(***************************************************************************)
Status == "runtime.connector.status"
Age == "runtime.freshness.age_seconds"

Hour == 3600

Unfresh == {"stale", "degraded", "missing"}

\* _metric_value_for_source finds a metric of the key that cites the source.
Tells(m, key, source) == key \in DOMAIN m /\ source \in m[key].sources

\* "failed" and "fresh" stand for the lists of words of failure and of success; a
\* text in none of them, as "rate_limited", leaves the decision to the age.
StateByStatus == [s \in Unfresh |-> s] @@ [s \in {"failed"} |-> "stale"]
                                       @@ [s \in {"fresh"} |-> "fresh"]

_source_freshness_state(m, source) ==
    IF Tells(m, Status, source) /\ m[Status].says \in DOMAIN StateByStatus
    THEN StateByStatus[m[Status].says]
    ELSE IF ~Tells(m, Age, source) \/ ~Reads(m, Age) THEN "unknown"
    ELSE IF m[Age].value >= 24 * Hour THEN "stale"
    ELSE IF m[Age].value >= 6 * Hour THEN "degraded"
    ELSE "fresh"

\* Mutant: one source that is not stale is enough.
_stale_sources_for_insight_All(m, insight) ==
    LET stale == {s \in insight.sources : _source_freshness_state(m, s) \in Unfresh}
    IN IF stale = insight.sources THEN stale ELSE {}

_stale_sources_for_insight(m, insight) ==
    {s \in insight.sources : _source_freshness_state(m, s) \in Unfresh}

-----------------------------------------------------------------------------
(***************************************************************************)
(* Detection.                                                              *)
(***************************************************************************)
\* By the words of the title; a shift of channels is no detectable family.
CaseTypes ==
    [title \in {"stock"} |-> "stockout_risk"] @@
    [title \in {"sin ventas", "roas bajo"} |-> "spend_without_orders"] @@
    [title \in {"conversaciones"} |-> "unanswered_conversations"] @@
    [title \in {"ventas debajo del promedio"} |-> "sales_drop"]

\* _case_type_for_insight is not None
Detectable(insight) == insight.severity # "info" /\ insight.title \in DOMAIN CaseTypes

PriorityOf == [critical |-> 100, warning |-> 70, info |-> 30]

make_data_stale_detection(source) ==
    [key |-> <<"data_stale", source>>, severity |-> "warning", priority |-> 80,
     sources |-> {source}]

Detection(insight) ==
    [key |-> <<CaseTypes[insight.title], "all">>, severity |-> insight.severity,
     priority |-> PriorityOf[insight.severity], sources |-> insight.sources]

\* The detections one insight asks for: a case, or what keeps it from being made.
Suggested(m, insight) ==
    LET stale == _stale_sources_for_insight(m, insight)
    IN IF ~Detectable(insight) THEN {}
       ELSE IF stale = {} THEN {Detection(insight)}
       ELSE {make_data_stale_detection(s) : s \in stale}

\* The first detection of a dedupe key is kept.
WithNewKeys(kept, detections) ==
    kept \o SetToSeq({d \in detections : \A i \in DOMAIN kept : kept[i].key # d.key})

\* What the first insights ask for.
DetectedUpTo(m) ==
    LET insights == generate_insights(m)
        kept[n \in 0..Len(insights)] ==
          IF n = 0 THEN <<>> ELSE WithNewKeys(kept[n - 1], Suggested(m, insights[n]))
    IN kept

detect_cases_from_report(m) == DetectedUpTo(m)[Len(generate_insights(m))]

-----------------------------------------------------------------------------
FindingsInit ==
    /\ plan \in Plans
    /\ given = <<>>
    /\ metrics = [key \in {} |-> {}]
    /\ found = <<>>
    /\ stage = "building"

Building == stage = "building" /\ Len(given) < Len(plan)

\* _build_daily_report_for_connector_type, in the order of the plan
Build ==
    /\ Building
    /\ \E report \in Yields[plan[Len(given) + 1]] : given' = Append(given, report)
    /\ UNCHANGED <<plan, metrics, found, stage>>

\* PipelineConnectorError: record_pipeline_failure blames every planned connector.
Raise ==
    /\ Building
    /\ stage' = "failed"
    /\ found' = [i \in DOMAIN plan |-> make_data_stale_detection(plan[i])]
    /\ UNCHANGED <<plan, given, metrics>>

\* merge_daily_reports
Merge ==
    /\ stage = "building"
    /\ Len(given) = Len(plan)
    /\ metrics' = merge_daily_reports(given)
    /\ stage' = "merged"
    /\ UNCHANGED <<plan, given, found>>

\* upsert_cases_from_report, after the report was dispatched
DetectCases ==
    /\ stage = "merged"
    /\ found' = detect_cases_from_report(metrics)
    /\ stage' = "detected"
    /\ UNCHANGED <<plan, given, metrics>>

FindingsNext == Build \/ Raise \/ Merge \/ DetectCases

FindingsSpec == FindingsInit /\ [][FindingsNext]_findingVars
-----------------------------------------------------------------------------
(***************************************************************************)
(* Correctness.                                                            *)
(***************************************************************************)
Reporters(key) == {i \in DOMAIN given : key \in DOMAIN given[i]}

\* The reports that a merged metric cites.
Behind(key) == {i \in Reporters(key) : given[i][key].sources \subseteq metrics[key].sources}

\* No two reports of the metric sign with the same name.  A manual payload may sign
\* with any, its default is one of its own.
OwnNames(key) ==
    \A i, j \in Reporters(key) :
       i # j => given[i][key].sources \cap given[j][key].sources = {}

\* What some of the reports say of the metric, and 0 for the others; the sum.
Figures(key, S) == [i \in DOMAIN given |-> IF i \in S THEN given[i][key].value ELSE 0]

Totals(values) ==
    LET total[n \in 0..Len(values)] == IF n = 0 THEN 0 ELSE total[n - 1] + values[n]
    IN total

Total(values) == Totals(values)[Len(values)]

\* Whatever the order of the connectors and the units they use, a figure of the
\* daily report is the sum of what exactly the sources it cites have reported.  It
\* leaves a connector out only if they disagree on what is counted: as long as all
\* reported numbers of one unit, all are in the sum and cited.
FiguresMatchCitations ==
    stage = "merged" =>
       \A key \in DOMAIN metrics :
          /\ metrics[key].sources = UNION {given[i][key].sources : i \in Behind(key)}
          /\ metrics[key].kind = "number" /\ OwnNames(key) =>
                metrics[key].value = Total(Figures(key, Behind(key)))
          /\ \/ Behind(key) = Reporters(key)
             \/ \E i, j \in Reporters(key) : ~Additive(given[i][key], given[j][key])

Families == Range(CaseTypes)

\* A case is made at most once per report and cites no source known to be stale;
\* every finding that could be a case is one, or each stale source it rests on is
\* reported instead; and data_stale is reported of nothing else.  Only when a
\* connector raised are the planned ones reported, those that answered included:
\* the run ledger of the same failure names the one that raised.
CasesRestOnFreshData ==
    LET keys == {found[i].key : i \in DOMAIN found}
        insights == Range(generate_insights(metrics))
        StaleIn(insight) == {s \in insight.sources :
                               _source_freshness_state(metrics, s) \in Unfresh}
    IN /\ Cardinality(keys) = Len(found)
       /\ stage = "failed" => keys = {<<"data_stale", c>> : c \in Range(plan)}
       /\ stage = "detected" =>
             /\ \A i \in DOMAIN found :
                   \/ /\ found[i].key[1] \in Families
                      /\ StaleIn(found[i]) = {}
                   \/ \E insight \in insights :
                         /\ Detectable(insight)
                         /\ found[i].key \in {<<"data_stale", s>> : s \in StaleIn(insight)}
             /\ \A insight \in {x \in insights : Detectable(x)} :
                   IF StaleIn(insight) = {}
                   THEN <<CaseTypes[insight.title], "all">> \in keys
                   ELSE {<<"data_stale", s>> : s \in StaleIn(insight)} \subseteq keys
=============================================================================
