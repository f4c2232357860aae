--------------------------- MODULE MCOperatorDesk ---------------------------
(***************************************************************************)
(* A TLC instance of OperatorDesk: two problems of one business, two       *)
(* kinds of detections, and a clock in tenths of a second whose instants   *)
(* lie just above the bounds of the age buckets.                           *)
(***************************************************************************)
EXTENDS OperatorDesk

OneBusiness == [key \in Keys |-> "b1"]

Types == [key \in Keys |-> IF key = 1 THEN "stockout_risk" ELSE "data_stale"]

Kinds == [key \in Keys |-> IF key = 1 THEN "product" ELSE None]

Snapshot(source, state) == [source |-> source, state |-> state]

\* A warning on stale and missing data, and a critical detection without a run on
\* data that is fresh or of no known age.
Payloads ==
    [r \in Runs \cup {None} |->
       IF r = None THEN [severity |-> "critical", priority |-> 80,
                         snapshots |-> {Snapshot(2, "fresh"), Snapshot(3, "unknown")}]
       ELSE [severity |-> "warning", priority |-> 60,
             snapshots |-> {Snapshot(1, "stale"), Snapshot(3, "missing")}]]

\* 3600.4, 86400.7 and 90001.1 seconds apart: truncated to one hour, one day, and
\* a second more than both together.
Clock == <<0, 36004, 900011>>

AgeBuckets == <<[name |-> "under_1h", below |-> 3600],
                [name |-> "under_6h", below |-> 21600],
                [name |-> "under_24h", below |-> 86400],
                [name |-> "under_7d", below |-> 604800],
                [name |-> "over_7d", below |-> 0]>>
=============================================================================
