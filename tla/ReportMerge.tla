----------------------------- MODULE ReportMerge -----------------------------
(***************************************************************************)
(* What a daily report says, from the reports of a business's connectors:  *)
(* report_merge_policy.py collapses them to one metric per key, and        *)
(* insights.py turns the metrics into findings.                            *)
(*                                                                         *)
(* A report is a function from metric keys to metrics.  A metric is a      *)
(* record [value, kind, says, unit, sources]: kind is "number" (value is   *)
(* it), "numeral" (a text that reads as value) or "words" (a text, of      *)
(* which says is the meaning); sources are those of its evidence.          *)
(***************************************************************************)
EXTENDS Integers, Sequences, FiniteSets

CONSTANT Thresholds   \* InsightThresholds, in percent where they are ratios

ASSUME ThresholdAssumption ==
    Thresholds \in [drop : Nat, stock : Nat, unanswered : Nat, mix : Nat, roas : Nat]

-----------------------------------------------------------------------------
\* Whatever is reported is a number or a text and cites some evidence.
IsMetric(m) ==
    /\ DOMAIN m = {"value", "kind", "says", "unit", "sources"}
    /\ m.value \in Int
    /\ m.kind \in {"number", "numeral", "words"}
    /\ IsFiniteSet(m.sources) /\ m.sources # {}

IsReport(report) == \A key \in DOMAIN report : IsMetric(report[key])

-----------------------------------------------------------------------------
(***************************************************************************)
(* report_merge_policy.py                                                  *)
(***************************************************************************)
Additive(m, n) == m.kind = "number" /\ n.kind = "number" /\ m.unit = n.unit

\* Mutant: the sum keeps the evidence of the first metric.
merge_duplicate_metric_FirstEvidence(existing, incoming) ==
    IF Additive(existing, incoming)
    THEN [existing EXCEPT !.value = @ + incoming.value]
    ELSE incoming

\* Numbers of one unit add up and keep all evidence; otherwise the last wins.
merge_duplicate_metric(existing, incoming) ==
    IF Additive(existing, incoming)
    THEN [existing EXCEPT !.value = @ + incoming.value,
                          !.sources = @ \cup incoming.sources]
    ELSE incoming

Merged(metrics, report) ==
    [key \in DOMAIN metrics \cup DOMAIN report |->
        IF key \notin DOMAIN report THEN metrics[key]
        ELSE IF key \notin DOMAIN metrics THEN report[key]
        ELSE merge_duplicate_metric(metrics[key], report[key])]

\* The first reports merged, in their order.
MergedUpTo(reports) ==
    LET merged[n \in 0..Len(reports)] ==
          IF n = 0 THEN [key \in {} |-> {}] ELSE Merged(merged[n - 1], reports[n])
    IN merged

merge_daily_reports(reports) == MergedUpTo(reports)[Len(reports)]

-----------------------------------------------------------------------------
(***************************************************************************)
(* insights.py, with the money in whole pesos.                             *)
(***************************************************************************)
\* _to_float is not None
Reads(m, key) == key \in DOMAIN m /\ m[key].kind # "words"

Cited(m, keys) == UNION {m[key].sources : key \in keys \cap DOMAIN m}

Insight(severity, title, sources) ==
    [severity |-> severity, title |-> title, sources |-> sources]

If(condition, insight) == IF condition THEN <<insight>> ELSE <<>>

SalesDrop(m) ==
    /\ Reads(m, "revenue_today")
    /\ Reads(m, "revenue_baseline")
    /\ m["revenue_baseline"].value > 0
    /\ (m["revenue_baseline"].value - m["revenue_today"].value) * 100
          >= Thresholds.drop * m["revenue_baseline"].value

LowStock(m) == Reads(m, "stock_units") /\ m["stock_units"].value <= Thresholds.stock

Unanswered(m) ==
    /\ Reads(m, "unanswered_conversations")
    /\ m["unanswered_conversations"].value >= Thresholds.unanswered

Advertises(m) == Reads(m, "ad_spend_today") /\ m["ad_spend_today"].value > 0

BothChannels(m) == Reads(m, "revenue_today_tn") /\ Reads(m, "revenue_today_ml")

ChannelShift(m) ==
    /\ BothChannels(m)
    /\ m["revenue_today_tn"].value > 0
    /\ m["revenue_today_ml"].value * 100
          > m["revenue_today_tn"].value * (100 + Thresholds.mix)

\* roas_revenue: both channels, else Tiendanube, else the single channel.
RoasRevenue(m) ==
    IF BothChannels(m) THEN m["revenue_today_tn"].value + m["revenue_today_ml"].value
    ELSE IF Reads(m, "revenue_today_tn") THEN m["revenue_today_tn"].value
    ELSE IF Reads(m, "revenue_today") THEN m["revenue_today"].value
    ELSE 0

LowRoas(m) ==
    /\ Advertises(m)
    /\ RoasRevenue(m) > 0
    /\ RoasRevenue(m) < Thresholds.roas * m["ad_spend_today"].value

OrdersOf(m, key) == IF Reads(m, key) THEN m[key].value ELSE 0

NoOrders(m) ==
    /\ Advertises(m)
    /\ Reads(m, "orders_today_tn") \/ Reads(m, "orders_today_ml")
    /\ OrdersOf(m, "orders_today_tn") + OrdersOf(m, "orders_today_ml") = 0

\* The collision of low stock and running ads replaces the finding on stock.
generate_insights(m) ==
    If(SalesDrop(m), Insight("warning", "ventas debajo del promedio",
                        Cited(m, {"revenue_today", "revenue_baseline"}))) \o
    If(LowStock(m) /\ ~Advertises(m),
       Insight("critical", "stock", Cited(m, {"stock_units"}))) \o
    If(Unanswered(m), Insight("warning", "conversaciones",
                         Cited(m, {"unanswered_conversations"}))) \o
    If(BothChannels(m), Insight("info", "revenue total",
                           Cited(m, {"revenue_today_tn", "revenue_today_ml"}))) \o
    If(ChannelShift(m), Insight("warning", "canal tiendanube",
                           Cited(m, {"revenue_today_tn", "revenue_today_ml"}))) \o
    If(LowRoas(m), Insight("warning", "roas bajo",
                      Cited(m, {"ad_spend_today", "revenue_today_tn",
                                "revenue_today_ml", "revenue_today"}))) \o
    If(NoOrders(m), Insight("critical", "sin ventas",
                       Cited(m, {"ad_spend_today", "orders_today_tn",
                                 "orders_today_ml"}))) \o
    If(LowStock(m) /\ Advertises(m),
       Insight("critical", "stock", Cited(m, {"stock_units", "ad_spend_today"})))
=============================================================================
