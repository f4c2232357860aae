--------------------------- MODULE RunLedgerProofs ---------------------------
(***************************************************************************)
(* Theorems about RunLedger for any clients, runs and number of outcomes:  *)
(* closed runs rest, outcomes stay, and commits are steps of RunLog,       *)
(* unless a commit fell between a client's SELECT and its INSERT OR        *)
(* REPLACE.                                                                *)
(***************************************************************************)
EXTENDS RunLedger, TLAPS

-----------------------------------------------------------------------------
(***************************************************************************)
(* The inductive invariant.                                                *)
(***************************************************************************)
Drafted(c) == work[c].pc = "drafted"

\* What create_run, update_run and append_* make of a record: a closed one stays,
\* an open one gains an outcome or changes its status, not both.
Follows(rec, old) ==
    /\ old.status \in TerminalStatuses => rec = old
    /\ \/ rec.entries = old.entries
       \/ /\ \E e \in Entries : rec.entries = Append(old.entries, e)
          /\ rec.status = old.status

\* The draft follows what the table holds for its run now.
Current(draft) ==
    IF draft.run \in DOMAIN ledger THEN Follows(draft.rec, ledger[draft.run])
                                   ELSE draft.rec = NewRun

\* This is what a version column would check.
FreshUnlessOverlapped ==
    \A c \in Clients : Drafted(c) /\ c \notin overlapped => Current(work[c])

IInv == TypeOK /\ FreshUnlessOverlapped

LEMMA NewRunIsRecord == NewRun \in Record
BY DEF NewRun, Record, RunStatuses

LEMMA UpdatedIsRecord ==
    ASSUME NEW rec \in Record, NEW status \in RunStatuses \cup {Unchanged},
           NEW finish \in BOOLEAN, NEW note \in BOOLEAN
    PROVE  /\ Updated(rec, status, finish, note) \in Record
           /\ Updated(rec, status, finish, note).entries = rec.entries
<1> DEFINE s == IF status = Unchanged THEN rec.status ELSE status
           f == rec.finished \/ finish
           n == rec.noted \/ note
<1>1. rec = [status |-> rec.status, finished |-> rec.finished, noted |-> rec.noted,
             entries |-> rec.entries]
  BY DEF Record
<1>2. Updated(rec, status, finish, note) =
         [rec EXCEPT !.status = s, !.finished = f, !.noted = n]
  BY DEF Updated
<1>3. s \in RunStatuses /\ f \in BOOLEAN /\ n \in BOOLEAN
  BY DEF Record
<1> HIDE DEF s, f, n
<1> QED
  BY <1>1, <1>2, <1>3 DEF Record

LEMMA UpdatedByNothing ==
    ASSUME NEW rec \in Record
    PROVE  Updated(rec, Unchanged, FALSE, FALSE) = rec
<1>1. rec = [status |-> rec.status, finished |-> rec.finished, noted |-> rec.noted,
             entries |-> rec.entries]
  BY DEF Record
<1>2. (rec.finished \/ FALSE) = rec.finished /\ (rec.noted \/ FALSE) = rec.noted
  BY DEF Record
<1>3. Updated(rec, Unchanged, FALSE, FALSE) =
         [rec EXCEPT !.status = rec.status, !.finished = rec.finished, !.noted = rec.noted]
  BY <1>2 DEF Updated
<1> QED
  BY <1>1, <1>3

LEMMA AppendedIsRecord ==
    ASSUME NEW rec \in Record, NEW e \in Entries
    PROVE  /\ [rec EXCEPT !.entries = Append(@, e)] \in Record
           /\ [rec EXCEPT !.entries = Append(@, e)].entries = Append(rec.entries, e)
           /\ [rec EXCEPT !.entries = Append(@, e)].status = rec.status
<1>1. Append(rec.entries, e) \in Seq(Entries)
  BY DEF Record
<1>2. rec = [status |-> rec.status, finished |-> rec.finished, noted |-> rec.noted,
             entries |-> rec.entries]
  BY DEF Record
<1> QED
  BY <1>1, <1>2 DEF Record

-----------------------------------------------------------------------------
(***************************************************************************)
(* The steps.                                                              *)
(***************************************************************************)
\* A client drafts a record that follows what it read.
LEMMA DraftsFollow ==
    ASSUME TypeOK, NEW c \in Clients, DraftCreate(c) \/ DraftAppend(c) \/ DraftUpdate(c)
    PROVE  \E r \in Runs, rec \in Record :
              /\ DraftOf(c, r, rec)
              /\ IF r \in DOMAIN ledger THEN Follows(rec, ledger[r]) ELSE rec = NewRun
<1>1. \A r \in DOMAIN ledger : r \in Runs /\ ledger[r] \in Record
  BY DEF TypeOK
<1>2. CASE DraftCreate(c)
  BY <1>2, NewRunIsRecord DEF DraftCreate
<1>3. CASE DraftAppend(c)
  <2>1. PICK r \in DOMAIN ledger, e \in Entries :
           /\ EnsureOpenForAppend(ledger[r])
           /\ DraftOf(c, r, [ledger[r] EXCEPT !.entries = Append(@, e)])
    BY <1>3 DEF DraftAppend
  <2> DEFINE rec == [ledger[r] EXCEPT !.entries = Append(@, e)]
  <2>2. /\ rec \in Record
        /\ rec.entries = Append(ledger[r].entries, e)
        /\ rec.status = ledger[r].status
    BY <1>1, AppendedIsRecord
  <2>3. Follows(rec, ledger[r])
    BY <2>1, <2>2 DEF Follows, EnsureOpenForAppend
  <2> QED
    BY <1>1, <2>1, <2>2, <2>3
<1>4. CASE DraftUpdate(c)
  <2>1. PICK r \in DOMAIN ledger, status \in RunStatuses \cup {Unchanged},
             finish \in BOOLEAN, note \in BOOLEAN :
           /\ ledger[r].status \in TerminalStatuses =>
                 status = Unchanged /\ ~finish /\ ~note
           /\ DraftOf(c, r, Updated(ledger[r], status, finish, note))
    BY <1>4 DEF DraftUpdate
  <2> DEFINE rec == Updated(ledger[r], status, finish, note)
  <2>2. rec \in Record /\ rec.entries = ledger[r].entries
    BY <1>1, UpdatedIsRecord
  <2>3. ledger[r].status \in TerminalStatuses => rec = ledger[r]
    <3>1. ledger[r].status \in TerminalStatuses => finish = FALSE /\ note = FALSE
      BY <2>1
    <3> QED
      BY <1>1, <2>1, <3>1, UpdatedByNothing
  <2>4. Follows(rec, ledger[r])
    BY <2>2, <2>3 DEF Follows
  <2> QED
    BY <1>1, <2>1, <2>2, <2>4
<1> QED
  BY <1>2, <1>3, <1>4

LEMMA DraftingStep ==
    ASSUME IInv, NEW c \in Clients, DraftCreate(c) \/ DraftAppend(c) \/ DraftUpdate(c)
    PROVE  IInv' /\ UNCHANGED ledger
<1>0. TypeOK
  BY DEF IInv
<1>1. PICK r \in Runs, rec \in Record :
         /\ DraftOf(c, r, rec)
         /\ IF r \in DOMAIN ledger THEN Follows(rec, ledger[r]) ELSE rec = NewRun
  BY <1>0, DraftsFollow
<1> DEFINE draft == [pc |-> "drafted", run |-> r, rec |-> rec]
<1>2. /\ work' = [work EXCEPT ![c] = draft]
      /\ UNCHANGED <<ledger, overlapped>>
  BY <1>1 DEF DraftOf
<1>3. draft \in Draft /\ draft.pc = "drafted" /\ draft.run = r /\ draft.rec = rec
  BY DEF Draft
<1> HIDE DEF draft
<1>4. Current(draft)
  BY <1>1, <1>3 DEF Current
<1>5. TypeOK'
  <2>1. work' \in [Clients -> {Idle} \cup Draft]
    BY <1>0, <1>2, <1>3 DEF TypeOK
  <2>2. overlapped' \subseteq {d \in Clients : work'[d].pc = "drafted"}
    BY <1>0, <1>2, <1>3 DEF TypeOK
  <2> QED
    BY <1>0, <1>2, <2>1, <2>2 DEF TypeOK
<1>6. FreshUnlessOverlapped'
  BY <1>0, <1>2, <1>4 DEF IInv, FreshUnlessOverlapped, Current, Drafted, TypeOK
<1> QED
  BY <1>2, <1>5, <1>6 DEF IInv

LEMMA PersistStep ==
    ASSUME IInv, NEW c \in Clients, Persist(c)
    PROVE  IInv'
<1>1. work[c] \in Draft /\ work[c].run \in Runs /\ work[c].rec \in Record
  BY DEF Persist, IInv, TypeOK, Idle, Draft
<1>2. /\ DOMAIN ledger' = DOMAIN ledger \cup {work[c].run}
      /\ ledger'[work[c].run] = work[c].rec
      /\ \A r \in DOMAIN ledger : r # work[c].run => ledger'[r] = ledger[r]
      /\ ledger' = [r \in DOMAIN ledger' |-> ledger'[r]]
  BY DEF Persist, Put
<1>3. /\ work'[c] = Idle
      /\ \A d \in Clients : d # c => work'[d] = work[d]
      /\ ~Drafted(c)'
  BY DEF Persist, IInv, TypeOK, Drafted, Idle
<1>4. overlapped' = (overlapped \cup
         {d \in Clients : Drafted(d) /\ work[d].run = work[c].run}) \ {c}
  BY DEF Persist, Drafted
<1>5. TypeOK'
  <2>1. ledger' \in [DOMAIN ledger' -> Record] /\ DOMAIN ledger' \subseteq Runs
    BY <1>1, <1>2 DEF IInv, TypeOK
  <2>2. work' \in [Clients -> {Idle} \cup Draft]
    BY DEF Persist, IInv, TypeOK
  <2>3. overlapped' \subseteq {d \in Clients : work'[d].pc = "drafted"}
    BY <1>3, <1>4 DEF IInv, TypeOK, Drafted
  <2> QED
    BY <2>1, <2>2, <2>3 DEF TypeOK
<1>6. ASSUME NEW d \in Clients, Drafted(d)', d \notin overlapped'
      PROVE  IF work'[d].run \in DOMAIN ledger'
             THEN Follows(work'[d].rec, ledger'[work'[d].run])
             ELSE work'[d].rec = NewRun
  <2>1. d # c /\ work'[d] = work[d] /\ Drafted(d)
    BY <1>3, <1>6 DEF Drafted
  <2>2. d \notin overlapped /\ work[d].run # work[c].run
    BY <1>4, <1>6, <2>1
  <2>3. Current(work[d])
    BY <2>1, <2>2 DEF IInv, FreshUnlessOverlapped
  <2> QED
    BY <1>2, <2>1, <2>2, <2>3 DEF Current
<1>7. FreshUnlessOverlapped'
  BY <1>6 DEF FreshUnlessOverlapped, Current, Follows
<1> QED
  BY <1>5, <1>7 DEF IInv

LEMMA InitIInv == Init => IInv
BY DEF Init, IInv, TypeOK, FreshUnlessOverlapped, Drafted, Idle

LEMMA NextIInv == IInv /\ [Next]_vars => IInv'
<1> SUFFICES ASSUME IInv, [Next]_vars PROVE IInv'
  OBVIOUS
<1>1. ASSUME NEW c \in Clients, Abandon(c) PROVE IInv'
  BY <1>1 DEF Abandon, IInv, TypeOK, FreshUnlessOverlapped, Current, Drafted, Idle
<1>2. CASE UNCHANGED vars
  BY <1>2 DEF vars, IInv, TypeOK, FreshUnlessOverlapped, Current, Drafted
<1> QED
  BY <1>1, <1>2, DraftingStep, PersistStep DEF Next

LEMMA Invariant == Spec => []IInv
BY InitIInv, NextIInv, PTL DEF Spec

\* Steps that leave the table alone.
LEMMA OnlyPersistWrites ==
    ASSUME IInv, [Next]_vars, \A c \in Clients : ~Persist(c)
    PROVE  ledger' = ledger
BY DraftingStep DEF Next, vars, Abandon

\* What an un-overlapped commit finds in the table.
LEMMA PersistFinds ==
    ASSUME IInv, NEW c \in Clients, Persist(c), c \notin overlapped
    PROVE  /\ work[c].run \in Runs /\ work[c].rec \in Record
           /\ Current(work[c])
           /\ ledger' = Put(work[c].run, work[c].rec)
BY DEF Persist, IInv, TypeOK, FreshUnlessOverlapped, Drafted, Idle, Draft

-----------------------------------------------------------------------------
(***************************************************************************)
(* The theorems.                                                           *)
(***************************************************************************)
LEMMA AuditStep ==
    ASSUME IInv, [Next]_vars
    PROVE  [\A r \in DOMAIN ledger :
              AuditKept(r) \/ \E c \in overlapped : c \notin overlapped']_vars
<1> SUFFICES ASSUME NEW r \in DOMAIN ledger,
                    ~\E c \in overlapped : c \notin overlapped'
             PROVE  AuditKept(r)
  OBVIOUS
<1>1. ledger[r] \in Record /\ ledger[r].entries \in Seq(Entries)
  BY DEF IInv, TypeOK, Record
<1>2. Extends(ledger[r].entries, ledger[r].entries)
  BY <1>1 DEF Extends
<1>3. CASE ledger' = ledger
  BY <1>2, <1>3 DEF AuditKept
<1>4. ASSUME NEW c \in Clients, Persist(c) PROVE AuditKept(r)
  <2>1. c \notin overlapped
    BY <1>4 DEF Persist
  <2>2. Current(work[c]) /\ ledger' = Put(work[c].run, work[c].rec)
    BY <1>4, <2>1, PersistFinds
  <2>3. CASE r # work[c].run
    BY <1>2, <2>2, <2>3 DEF Put, AuditKept
  <2>4. CASE r = work[c].run
    <3>1. Follows(work[c].rec, ledger[r])
      BY <2>2, <2>4 DEF Current
    <3>2. r \in DOMAIN ledger' /\ ledger'[r] = work[c].rec
      BY <2>2, <2>4 DEF Put
    <3>3. Extends(work[c].rec.entries, ledger[r].entries)
      BY <1>1, <3>1 DEF Follows, Extends
    <3> QED
      BY <3>1, <3>2, <3>3 DEF AuditKept, Follows
  <2> QED
    BY <2>3, <2>4
<1> QED
  BY <1>3, <1>4, OnlyPersistWrites

\* Every variable keeps its type.
THEOREM TypeCorrect == Spec => []TypeOK
BY Invariant, PTL DEF IInv

\* A closed run changes, or an outcome disappears, by an overlap alone.
THEOREM NoOverlapNoAuditLoss == Spec => AuditLossNeedsOverlap
BY AuditStep, Invariant, PTL DEF Spec, AuditLossNeedsOverlap

LEMMA LogStep ==
    ASSUME IInv, [Next]_vars
    PROVE  [Log!Next \/ \E c \in overlapped : c \notin overlapped']_runLog
<1> SUFFICES ASSUME ~\E c \in overlapped : c \notin overlapped'
             PROVE  Log!Next \/ runLog' = runLog
  OBVIOUS
<1>1. CASE ledger' = ledger
  BY <1>1 DEF runLog
<1>2. ASSUME NEW c \in Clients, Persist(c) PROVE Log!Next \/ runLog' = runLog
  <2> DEFINE r == work[c].run
             rec == work[c].rec
  <2>1. c \notin overlapped
    BY <1>2 DEF Persist
  <2>2. r \in Runs /\ rec \in Record /\ Current(work[c]) /\ ledger' = Put(r, rec)
    BY <1>2, <2>1, PersistFinds
  <2> HIDE DEF r, rec
  <2>3. runLog' = [runLog EXCEPT ![r] = [status |-> rec.status, entries |-> rec.entries]]
    BY <2>2 DEF runLog, Put
  <2>4. CASE r \notin DOMAIN ledger
    <3>1. rec = NewRun
      BY <2>2, <2>4 DEF Current, r, rec
    <3>2. runLog[r] = Log!Unborn
      BY <2>2, <2>4 DEF runLog, Log!Unborn
    <3>3. runLog' = [runLog EXCEPT ![r].status = "running"]
      BY <2>2, <2>3, <3>1, <3>2 DEF NewRun, Log!Unborn, runLog
    <3>4. Log!Open(r)
      BY <3>2, <3>3 DEF Log!Open
    <3> QED
      BY <2>2, <3>4 DEF Log!Next
  <2>5. CASE r \in DOMAIN ledger
    <3> DEFINE old == ledger[r]
    <3>1. Follows(rec, old)
      BY <2>2, <2>5 DEF Current, r, rec
    <3>2. old \in Record
      BY <2>5 DEF IInv, TypeOK
    <3>3. runLog[r] = [status |-> old.status, entries |-> old.entries]
      BY <2>2, <2>5 DEF runLog
    <3> HIDE DEF old
    <3>4. CASE rec.status = old.status /\ rec.entries = old.entries
      <4>1. runLog' = runLog
        BY <2>2, <2>3, <3>3, <3>4 DEF runLog
      <4> QED
        BY <4>1
    <3>5. ASSUME rec.status = old.status, old.status = "running",
                 NEW e \in Entries, rec.entries = Append(old.entries, e)
          PROVE  Log!Next
      <4>1. runLog' = [runLog EXCEPT ![r].entries = Append(@, e)]
        BY <2>2, <2>3, <3>3, <3>5 DEF runLog
      <4>2. Log!Collect(r)
        <5>1. runLog[r].status = "running"
          BY <3>3, <3>5
        <5> HIDE DEF rec
        <5> QED
          BY <5>1, <3>5, <4>1, Zenon DEF Log!Collect
      <4> QED
        BY <2>2, <4>2 DEF Log!Next
    <3>6. CASE /\ old.status = "running"
               /\ rec.status \in TerminalStatuses
               /\ rec.entries = old.entries
      <4>1. runLog' = [runLog EXCEPT ![r].status = rec.status]
        BY <2>2, <2>3, <3>3, <3>6 DEF runLog
      <4>2. Log!Close(r)
        <5>1. runLog[r].status = "running"
          BY <3>3, <3>6
        <5>2. rec.status \in Log!TerminalStatuses
          BY <3>6 DEF TerminalStatuses, Log!TerminalStatuses
        <5> HIDE DEF rec
        <5> QED
          BY <5>1, <5>2, <4>1, Zenon DEF Log!Close
      <4> QED
        BY <2>2, <4>2 DEF Log!Next
    <3>7. old.status = "running" \/ old.status \in TerminalStatuses
      BY <3>2 DEF Record, RunStatuses
    <3>8. rec.status = "running" \/ rec.status \in TerminalStatuses
      BY <2>2 DEF Record, RunStatuses
    <3> QED
      BY <3>1, <3>4, <3>5, <3>6, <3>7, <3>8 DEF Follows
  <2> QED
    BY <2>4, <2>5
<1> QED
  BY <1>1, <1>2, OnlyPersistWrites

\* Every commit is a step of the run log, but for those overlaps.
THEOREM CommitsFollowRunLog == Spec => StepsFollowRunLog
BY LogStep, Invariant, PTL DEF Spec, StepsFollowRunLog

LEMMA LoneClientStep ==
    ASSUME \A c, d \in Clients : c = d, overlapped = {}, [Next]_vars
    PROVE  overlapped' = {}
BY DEF Next, vars, DraftCreate, DraftAppend, DraftUpdate, DraftOf, Persist, Abandon

LEMMA InitLog == Init => Log!Init
<1> SUFFICES ASSUME Init PROVE runLog = [r \in Runs |-> Log!Unborn]
  BY DEF Log!Init
<1> QED
  BY DEF Init, runLog, Log!Unborn

\* A ledger that one client alone writes implements the run log: a run is opened
\* once, collects, is closed once and never touched again.
THEOREM LoneClientImplementsRunLog ==
    ASSUME \A c, d \in Clients : c = d
    PROVE  Spec => Log!Spec
<1>1. Init => overlapped = {}
  BY DEF Init
<1>2. overlapped = {} /\ [Next]_vars => (overlapped = {})'
  BY LoneClientStep
<1>3. IInv /\ overlapped = {} /\ [Next]_vars => [Log!Next]_runLog
  BY LogStep
<1> QED
  BY <1>1, <1>2, <1>3, Invariant, InitLog, PTL DEF Spec, Log!Spec
=============================================================================
