------------------------------- MODULE RunLog -------------------------------
(***************************************************************************)
(* What the run ledger promises an auditor                                 *)
(* (docs/specs/run-ledger-foundation.md): a run is opened once, collects   *)
(* outcomes while it is running, is closed once, and is never touched      *)
(* again.                                                                  *)
(***************************************************************************)
EXTENDS Sequences

CONSTANTS
    Runs,      \* run ids
    Entries    \* kinds of outcome a run collects

VARIABLE log   \* run id -> status and collected outcomes

TerminalStatuses == {"succeeded", "failed", "partial", "cancelled"}

Unborn == [status |-> "none", entries |-> <<>>]

Init == log = [r \in Runs |-> Unborn]

Open(r) ==
    /\ log[r] = Unborn
    /\ log' = [log EXCEPT ![r].status = "running"]

Collect(r) ==
    /\ log[r].status = "running"
    /\ \E e \in Entries : log' = [log EXCEPT ![r].entries = Append(@, e)]

Close(r) ==
    /\ log[r].status = "running"
    /\ \E s \in TerminalStatuses : log' = [log EXCEPT ![r].status = s]

Next == \E r \in Runs : Open(r) \/ Collect(r) \/ Close(r)

Spec == Init /\ [][Next]_log
=============================================================================
