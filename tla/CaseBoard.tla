------------------------------ MODULE CaseBoard ------------------------------
(***************************************************************************)
(* What an operational case promises, with no clock, no table and no       *)
(* drafts: for each dedupe key at most one case, which keeps its identity  *)
(* for ever, moves along the lifecycle, and whose log only grows.          *)
(* CaseStore with one worker implements it; with two it does not.          *)
(***************************************************************************)
EXTENDS Sequences

CONSTANTS Keys, Ids, Assignees

VARIABLE board    \* per dedupe key: nothing yet, or the case

NoCase == [status |-> "none"]

\* docs/specs/operational-case-engine-contract.md, "Lifecycle"; the reopening
\* edges belong to detections alone.
Moves ==
    {<<"open", "acknowledged">>, <<"open", "in_progress">>, <<"open", "dismissed">>,
     <<"acknowledged", "in_progress">>, <<"acknowledged", "resolved">>,
     <<"acknowledged", "dismissed">>,
     <<"in_progress", "resolved">>, <<"in_progress", "dismissed">>}

Closed == {"resolved", "dismissed"}

Exists(k) == board[k].status # "none"

Init == board = [k \in Keys |-> NoCase]

\* A detection opens a case under an identity no other case has.
Open(k) ==
    /\ ~Exists(k)
    /\ \E id \in Ids :
          /\ \A j \in Keys : Exists(j) => board[j].id # id
          /\ board' = [board EXCEPT ![k] =
                          [id |-> id, status |-> "open", owner |-> "none",
                           log |-> <<"case_opened">>]]

\* Everything else happens to a case that exists, and is logged.
Record(k, type, status, owner) ==
    /\ Exists(k)
    /\ board' = [board EXCEPT ![k].status = status, ![k].owner = owner,
                              ![k].log = Append(@, type)]

\* A detection of a known problem: a closed case recurs, another is updated.
Redetect(k) ==
    IF board[k].status \in Closed
    THEN Record(k, "case_reopened", "open", board[k].owner)
    ELSE Record(k, "case_updated", board[k].status, board[k].owner)

Move(k) ==
    \E edge \in Moves :
       /\ board[k].status = edge[1]
       /\ Record(k, "status_changed", edge[2], board[k].owner)

Comment(k) == Record(k, "operator_comment", board[k].status, board[k].owner)

Assign(k) ==
    /\ board[k].status \notin Closed
    /\ \E who \in Assignees : Record(k, "case_assigned", board[k].status, who)

Next ==
    \E k \in Keys :
       \/ Open(k)
       \/ Exists(k) /\ (Redetect(k) \/ Move(k) \/ Comment(k) \/ Assign(k))

Spec == Init /\ [][Next]_board
=============================================================================
