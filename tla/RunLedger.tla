------------------------------ MODULE RunLedger ------------------------------
(***************************************************************************)
(* The run ledger (app/brain/run_ledger.py) and its clients: the report    *)
(* script that owns a run, and executors of external actions, which append *)
(* outcomes to a run they were given the id of.                            *)
(*                                                                         *)
(* As in CaseStore every mutation is a SELECT of the whole record, checks  *)
(* and a computation on the object, and one INSERT OR REPLACE of the whole *)
(* record; the two statements are separate transactions.                   *)
(***************************************************************************)
EXTENDS Naturals, Sequences

CONSTANTS
    Clients,      \* threads of control with a connection to the ledger
    Runs,         \* run ids
    MaxEntries    \* bound on the outcomes of a run

ASSUME EntriesAssumption == MaxEntries \in Nat \ {0}

VARIABLES
    ledger,       \* the table run_ledger: run id -> record
    work,         \* what each client is doing
    overlapped    \* history: clients whose draft was read before another commit

vars == <<ledger, work, overlapped>>

-----------------------------------------------------------------------------
TerminalStatuses == {"succeeded", "failed", "partial", "cancelled"}

RunStatuses == {"running"} \cup TerminalStatuses

Unchanged == "unchanged"   \* Python's None for an argument of update_run

Entries == {"connector", "artifact", "dispatch"}

\* "noted" says that summary metadata or an error summary was added;
\* connector_outcomes, artifacts and dispatch_outcomes are one sequence.
Record == [status : RunStatuses, finished : BOOLEAN, noted : BOOLEAN,
           entries : Seq(Entries)]

NewRun == [status |-> "running", finished |-> FALSE, noted |-> FALSE, entries |-> <<>>]

\* RunRecord.validate_lifecycle_times
ValidRecord(rec) == rec.finished <=> rec.status \in TerminalStatuses

\* update_run on an open record
Updated(rec, status, finish, note) ==
    [rec EXCEPT !.status = IF status = Unchanged THEN @ ELSE status,
                !.finished = @ \/ finish,
                !.noted = @ \/ note]

-----------------------------------------------------------------------------
Idle == [pc |-> "idle"]

Draft == [pc : {"drafted"}, run : Runs, rec : Record]

Init ==
    /\ ledger = [r \in {} |-> {}]
    /\ work = [c \in Clients |-> Idle]
    /\ overlapped = {}

DraftOf(c, r, rec) ==
    /\ work[c] = Idle
    /\ work' = [work EXCEPT ![c] = [pc |-> "drafted", run |-> r, rec |-> rec]]
    /\ UNCHANGED <<ledger, overlapped>>

\* Mutant: create_run does not look whether the run exists.
DraftCreate_Blindly(c) == \E r \in Runs : DraftOf(c, r, NewRun)

\* create_run: the id may be the caller's own; one that exists raises.
DraftCreate(c) == \E r \in Runs \ DOMAIN ledger : DraftOf(c, r, NewRun)

\* Mutant: only succeeded and failed runs are closed for appends.
EnsureOpenForAppend_IfFailed(rec) == rec.status \notin {"succeeded", "failed"}

EnsureOpenForAppend(rec) == rec.status \notin TerminalStatuses

\* append_connector_outcome, append_artifact_ref, append_dispatch_outcome
DraftAppend(c) ==
    \E r \in DOMAIN ledger, e \in Entries :
       /\ Len(ledger[r].entries) < MaxEntries
       /\ EnsureOpenForAppend(ledger[r])
       /\ DraftOf(c, r, [ledger[r] EXCEPT !.entries = Append(@, e)])

\* update_run; without any argument it rewrites even a closed record.
DraftUpdate(c) ==
    \E r \in DOMAIN ledger, status \in RunStatuses \cup {Unchanged},
          finish \in BOOLEAN, note \in BOOLEAN :
       /\ ledger[r].status \in TerminalStatuses =>
             status = Unchanged /\ ~finish /\ ~note
       /\ ValidRecord(Updated(ledger[r], status, finish, note))
       /\ DraftOf(c, r, Updated(ledger[r], status, finish, note))

\* INSERT OR REPLACE
Put(r, rec) ==
    [s \in DOMAIN ledger \cup {r} |-> IF s = r THEN rec ELSE ledger[s]]

Persist(c) ==
    /\ work[c].pc = "drafted"
    /\ ledger' = Put(work[c].run, work[c].rec)
    /\ work' = [work EXCEPT ![c] = Idle]
    /\ overlapped' = (overlapped \cup
          {d \in Clients : work[d].pc = "drafted" /\ work[d].run = work[c].run}) \ {c}

\* The client dies, or SQLite raises: nothing is written.
Abandon(c) ==
    /\ work[c].pc = "drafted"
    /\ work' = [work EXCEPT ![c] = Idle]
    /\ overlapped' = overlapped \ {c}
    /\ UNCHANGED ledger

Next ==
    \E c \in Clients :
       \/ DraftCreate(c)
       \/ DraftAppend(c)
       \/ DraftUpdate(c)
       \/ Persist(c)
       \/ Abandon(c)

Spec == Init /\ [][Next]_vars

-----------------------------------------------------------------------------
\* Every variable has its type.
TypeOK ==
    /\ DOMAIN ledger \subseteq Runs
    /\ ledger \in [DOMAIN ledger -> Record]
    /\ work \in [Clients -> {Idle} \cup Draft]
    /\ overlapped \subseteq {c \in Clients : work[c].pc = "drafted"}

Extends(new, old) ==
    /\ Len(old) <= Len(new)
    /\ \A i \in 1..Len(old) : new[i] = old[i]

\* The record is as it was, or the run was open and only gained outcomes.
AuditKept(r) ==
    /\ r \in DOMAIN ledger'
    /\ ledger[r].status \in TerminalStatuses => ledger'[r] = ledger[r]
    /\ Extends(ledger'[r].entries, ledger[r].entries)

\* docs/specs/run-ledger-foundation.md: "Once terminal, a run cannot be mutated
\* or appended to."  That is more than the code ensures: a closed run changes, or
\* an outcome disappears, but only when another commit on the run fell between
\* the SELECT and the INSERT OR REPLACE of a client: the checks of update_run and
\* append_* fail to protect history there alone.
AuditLossNeedsOverlap ==
    [][\A r \in DOMAIN ledger :
          AuditKept(r) \/ \E c \in overlapped : c \notin overlapped']_vars

\* What an auditor sees of the table.
runLog ==
    [r \in Runs |->
        IF r \in DOMAIN ledger
        THEN [status |-> ledger[r].status, entries |-> ledger[r].entries]
        ELSE [status |-> "none", entries |-> <<>>]]

Log == INSTANCE RunLog WITH log <- runLog

\* Every commit is one lawful step of the run log (it opens a run, adds one
\* outcome to an open run, closes it, or changes nothing an auditor sees) unless
\* another commit on the run fell between this client's SELECT and its INSERT OR
\* REPLACE.  A ledger whose clients take turns therefore implements RunLog.
StepsFollowRunLog ==
    [][Log!Next \/ \E c \in overlapped : c \notin overlapped']_runLog
=============================================================================
