--------------------------- MODULE ReportRunsProofs ---------------------------
(***************************************************************************)
(* Theorems about ReportRuns for any scripts, businesses, runs and number  *)
(* of connectors: the ledger tells the truth, finished runs are complete,  *)
(* and a message is repeated only after a disturbance.                     *)
(***************************************************************************)
EXTENDS ReportRuns, SequenceTheorems, TLAPS

-----------------------------------------------------------------------------
(***************************************************************************)
(* The inductive invariant.                                                *)
(***************************************************************************)
Busy(p) == work[p].pc \notin {"ended", "next"}

\* Where the script is; _send_text_once is part of building or of briefing.
Stage(w) ==
    IF w.pc \in {"checking", "sending", "marking"}
    THEN IF w.message = "daily" THEN "building" ELSE "briefing"
    ELSE w.pc

Early == {"building", "failing", "failed", "connectors", "artifact", "dispatch"}

Late == {"brief", "briefing", "record_brief", "finish"}

Done(n) == [i \in 1..n |-> "succeeded"]

DailyOnly(w) == << <<"daily", w.daily>> >>

WithBrief(w) == << <<"daily", w.daily>>, <<"owner_case_brief", w.brief>> >>

\* How far the record of its run is, for a script in this stage.
Fits(w, rec) ==
    /\ rec.status = "running" /\ rec.business = w.business
    /\ Stage(w) \in Early => w.message = "daily" /\ w.brief = None /\ rec.dispatches = <<>>
    /\ Stage(w) \in {"building", "failing"} => rec.connectors = <<>>
    /\ Stage(w) \in Early \ {"dispatch"} => ~rec.artifact
    /\ Stage(w) = "connectors" =>
          Len(rec.connectors) < Connectors /\ rec.connectors = Done(Len(rec.connectors))
    /\ Stage(w) \in {"artifact", "dispatch"} \cup Late => rec.connectors = Done(Connectors)
    /\ Stage(w) \in {"dispatch"} \cup Late => rec.artifact
    /\ Stage(w) \in {"connectors", "artifact", "dispatch"} \cup Late => w.daily \in Results
    /\ Stage(w) \in Late \ {"finish"} => w.daily \in DispatchOk /\ rec.dispatches = DailyOnly(w)
    /\ Stage(w) \in {"brief", "briefing"} => w.brief = None
    /\ Stage(w) \in {"briefing", "record_brief"} => w.message = "owner_case_brief"
    /\ Stage(w) = "record_brief" => w.brief \in Results
    /\ Stage(w) = "finish" =>
          rec.dispatches = IF w.brief = None THEN DailyOnly(w) ELSE WithBrief(w)

\* A script that is busy with a run has it to itself.
RunsAreOwned ==
    \A p, q \in Scripts : Busy(p) /\ Busy(q) /\ work[p].run = work[q].run => p = q

RunsFit == \A p \in Scripts : Busy(p) => Fits(work[p], MyRun(p))

\* A result in the hands of a script is true.
Told(p) ==
    /\ work[p].daily \in DispatchOk => delivered[<<work[p].business, "daily">>] > 0
    /\ work[p].brief \in DispatchOk => delivered[<<work[p].business, "owner_case_brief">>] > 0
    /\ work[p].pc = "marking" => delivered[MyKey(p)] > 0

ResultsAreTrue == \A p \in Scripts : Busy(p) => Told(p)

MarksAreTrue == \A k \in marked : delivered[k] > 0

\* The script is past its check of the key.
Past(p, k) == work[p].pc \in {"sending", "marking"} /\ MyKey(p) = k

\* One script at most is past its check of a message that was not delivered before,
\* and what was delivered is marked by the time it is gone.
Booked(k) ==
    /\ \A p, q \in Scripts : Past(p, k) /\ Past(q, k) => p = q
    /\ \A p \in Scripts : Past(p, k) =>
          k \notin marked /\ delivered[k] = IF work[p].pc = "marking" THEN 1 ELSE 0
    /\ (\A p \in Scripts : ~Past(p, k)) => delivered[k] = IF k \in marked THEN 1 ELSE 0

MessagesAreBooked == \A k \in Keys : k \notin disturbed => Booked(k)

IInv ==
    /\ TypeOK
    /\ RunsAreOwned
    /\ RunsFit
    /\ ResultsAreTrue
    /\ MarksAreTrue
    /\ LedgerIsTruthful
    /\ BriefFollowsReport
    /\ EndedRunsAreComplete
    /\ MessagesAreBooked

-----------------------------------------------------------------------------
(***************************************************************************)
(* What a step of one script leaves to the others.                         *)
(***************************************************************************)
LEMMA BusyWork ==
    ASSUME TypeOK, NEW p \in Scripts, Busy(p)
    PROVE  /\ work[p] \in Working /\ work[p].run \in DOMAIN runs
           /\ MyRun(p) \in Record /\ MyRun(p).status = "running"
BY DEF TypeOK, Busy, Ended, MyRun

LEMMA GoesTo ==
    ASSUME TypeOK, NEW p \in Scripts, NEW w \in {Ended} \cup Working, Goto(p, w)
    PROVE  /\ work' \in [Scripts -> {Ended} \cup Working]
           /\ work'[p] = w
           /\ \A q \in Scripts \ {p} : work'[q] = work[q]
BY DEF TypeOK, Goto

LEMMA WritesTo ==
    ASSUME TypeOK, NEW p \in Scripts, Busy(p), NEW rec \in Record, Write(p, rec)
    PROVE  /\ DOMAIN runs' = DOMAIN runs
           /\ runs' \in [DOMAIN runs' -> Record]
           /\ runs'[work[p].run] = rec
           /\ \A r \in DOMAIN runs : r # work[p].run => runs'[r] = runs[r]
BY BusyWork DEF TypeOK, Write

\* A step of a script changes its own work and the record of its own run.
StepOf(p) ==
    /\ work' \in [Scripts -> {Ended} \cup Working]
    /\ \A q \in Scripts \ {p} : work'[q] = work[q]
    /\ DOMAIN runs' = DOMAIN runs
    /\ runs' \in [DOMAIN runs' -> Record]
    /\ \A r \in DOMAIN runs : r # work[p].run => runs'[r] = runs[r]
    /\ abandoned' \subseteq DOMAIN runs

MyRunAfter(p) == runs'[work[p].run]

\* Scripts hand out results and make marks, but take back neither.
DeliveriesStay ==
    /\ marked' \subseteq Keys
    /\ disturbed' \subseteq Keys
    /\ delivered' \in [Keys -> Nat]
    /\ \A k \in Keys : delivered[k] > 0 => delivered'[k] > 0

LEMMA RunsStep ==
    ASSUME TypeOK, RunsAreOwned, RunsFit, NEW p \in Scripts, Busy(p), StepOf(p), DeliveriesStay,
           work'[p].pc \notin {"ended", "next"} =>
              work'[p].run = work[p].run /\ Fits(work'[p], MyRunAfter(p))
    PROVE  TypeOK' /\ RunsAreOwned' /\ RunsFit'
<1>1. work[p].run \in DOMAIN runs
  BY BusyWork
<1>2. \A q \in Scripts \ {p} : Busy(q)' <=> Busy(q)
  BY DEF Busy, StepOf
<1>3. \A q \in Scripts \ {p} : Busy(q) =>
         /\ work'[q] = work[q] /\ work[q].run \in DOMAIN runs
         /\ runs'[work[q].run] = MyRun(q)
  BY BusyWork DEF StepOf, RunsAreOwned, MyRun
<1>4. Busy(p)' => work'[p].run = work[p].run /\ Fits(work'[p], runs'[work'[p].run])
  BY DEF Busy, MyRunAfter
<1>5. TypeOK'
  <2>1. ASSUME NEW q \in Scripts, Busy(q)'
        PROVE  work'[q].run \in DOMAIN runs' /\ runs'[work'[q].run].status = "running"
    <3>1. CASE q = p
      BY <1>1, <1>4, <2>1, <3>1 DEF Fits, StepOf
    <3>2. CASE q # p
      BY <1>2, <1>3, <2>1, <3>2, BusyWork DEF StepOf
    <3> QED
      BY <3>1, <3>2
  <2>2. abandoned' \subseteq DOMAIN runs' /\ DOMAIN runs' \subseteq Runs
    BY DEF StepOf, TypeOK
  <2> QED
    BY <2>1, <2>2 DEF TypeOK, StepOf, DeliveriesStay, Busy, MyRun
<1>6. RunsAreOwned'
  <2> SUFFICES ASSUME NEW q \in Scripts, NEW o \in Scripts, Busy(q)', Busy(o)',
                      work'[q].run = work'[o].run
               PROVE  q = o
    BY DEF RunsAreOwned
  <2> QED
    BY <1>2, <1>3, <1>4 DEF RunsAreOwned
<1>7. RunsFit'
  <2> SUFFICES ASSUME NEW q \in Scripts, Busy(q)'
               PROVE  Fits(work'[q], runs'[work'[q].run])
    BY DEF RunsFit, MyRun
  <2>1. CASE q = p
    BY <1>4, <2>1
  <2>2. CASE q # p
    BY <1>2, <1>3, <2>2 DEF RunsFit
  <2> QED
    BY <2>1, <2>2
<1> QED
  BY <1>5, <1>6, <1>7

LEMMA ResultsStep ==
    ASSUME TypeOK, RunsFit, ResultsAreTrue, NEW p \in Scripts, DeliveriesStay,
           \A q \in Scripts \ {p} : work'[q] = work[q],
           Busy(p)' => Told(p)'
    PROVE  ResultsAreTrue'
<1> SUFFICES ASSUME NEW q \in Scripts, q # p, Busy(q)'
             PROVE  Told(q)'
  BY DEF ResultsAreTrue
<1>1. work'[q] = work[q] /\ Busy(q)
  BY DEF Busy
<1>2. work[q].business \in Businesses /\ work[q].message \in Messages
  <2>1. MyRun(q) \in Record /\ MyRun(q).business = work[q].business /\ work[q] \in Working
    BY <1>1, BusyWork DEF RunsFit, Fits
  <2> QED
    BY <2>1 DEF Record, Working
<1>3. \A m \in Messages : <<work[q].business, m>> \in Keys
  BY <1>2 DEF Keys
<1>4. Told(q)
  BY <1>1 DEF ResultsAreTrue
<1> QED
  BY <1>1, <1>2, <1>3, <1>4 DEF Told, MyKey, DeliveriesStay, Messages

\* The record of a run may come to tell more, as long as that is true.
LEMMA LedgerStep ==
    ASSUME TypeOK, LedgerIsTruthful, NEW p \in Scripts, Busy(p), StepOf(p), DeliveriesStay,
           MyRunAfter(p).business = MyRun(p).business,
           MyRunAfter(p).status = "succeeded" => delivered'[<<MyRun(p).business, "daily">>] > 0,
           \A i \in DOMAIN MyRunAfter(p).dispatches :
              MyRunAfter(p).dispatches[i][2] \in DispatchOk =>
                 delivered'[<<MyRun(p).business, MyRunAfter(p).dispatches[i][1]>>] > 0
    PROVE  LedgerIsTruthful'
<1> SUFFICES ASSUME NEW r \in DOMAIN runs'
             PROVE  /\ runs'[r].status = "succeeded" =>
                          delivered'[<<runs'[r].business, "daily">>] > 0
                    /\ \A i \in DOMAIN runs'[r].dispatches :
                          runs'[r].dispatches[i][2] \in DispatchOk =>
                             delivered'[<<runs'[r].business, runs'[r].dispatches[i][1]>>] > 0
  BY DEF LedgerIsTruthful
<1>1. CASE r = work[p].run
  BY <1>1 DEF MyRunAfter
<1>2. CASE r # work[p].run
  <2>1. runs'[r] = runs[r] /\ r \in DOMAIN runs /\ runs[r] \in Record
    BY <1>2 DEF StepOf, TypeOK
  <2>2. runs[r].business \in Businesses
    BY <2>1 DEF Record
  <2>3. \A i \in DOMAIN runs[r].dispatches : runs[r].dispatches[i][1] \in Messages
    BY <2>1 DEF Record
  <2>4. \A m \in Messages : <<runs[r].business, m>> \in Keys
    BY <2>2 DEF Keys
  <2> QED
    BY <2>1, <2>3, <2>4 DEF LedgerIsTruthful, DeliveriesStay, Messages
<1> QED
  BY <1>1, <1>2

\* What EndedRunsAreComplete says of a record.
Complete(rec) ==
    /\ rec.connectors = [i \in 1..Connectors |-> "succeeded"]
    /\ rec.artifact
    /\ rec.dispatches # <<>> /\ rec.dispatches[1][1] = "daily"
    /\ rec.status = "partial" <=> \E i \in DOMAIN rec.dispatches : rec.dispatches[i][2] = "failed"

LEMMA CompleteStep ==
    ASSUME TypeOK, EndedRunsAreComplete, NEW p \in Scripts, Busy(p), StepOf(p),
           MyRunAfter(p).status \notin {"succeeded", "partial"}
    PROVE  EndedRunsAreComplete'
<1> SUFFICES ASSUME NEW r \in DOMAIN runs', runs'[r].status \in {"succeeded", "partial"}
             PROVE  Complete(runs'[r])
  BY DEF EndedRunsAreComplete, Complete
<1>1. r # work[p].run
  BY DEF MyRunAfter
<1>2. runs'[r] = runs[r] /\ r \in DOMAIN runs
  BY <1>1 DEF StepOf
<1>3. runs[r].status \in {"succeeded", "partial"} => Complete(runs[r])
  BY <1>2 DEF EndedRunsAreComplete, Complete
<1> QED
  BY <1>2, <1>3

\* Steps that are neither past a check nor become so.
LEMMA UnbookedStep ==
    ASSUME MessagesAreBooked, NEW p \in Scripts,
           \A q \in Scripts \ {p} : work'[q] = work[q],
           work[p].pc \notin {"sending", "marking"}, work'[p].pc \notin {"sending", "marking"},
           marked' = marked, delivered' = delivered, disturbed' = disturbed
    PROVE  MessagesAreBooked'
<1>1. \A q \in Scripts, k \in Keys : Past(q, k)' <=> Past(q, k)
  BY DEF Past, MyKey
<1>2. \A q \in Scripts, k \in Keys : Past(q, k) => work'[q] = work[q]
  BY DEF Past
<1> QED
  BY <1>1, <1>2 DEF MessagesAreBooked, Booked

\* Steps past the check, or that pass it, concern its key only.
LEMMA BookedStep ==
    ASSUME MessagesAreBooked, NEW p \in Scripts, NEW k0 \in Keys, k0 = MyKey(p),
           \A q \in Scripts \ {p} : work'[q] = work[q],
           work'[p].pc \in {"sending", "marking"} => MyKey(p)' = k0,
           \A k \in Keys \ {k0} : delivered'[k] = delivered[k] /\ (k \in marked' <=> k \in marked),
           disturbed \subseteq disturbed',
           k0 \notin disturbed' /\ Booked(k0) => Booked(k0)'
    PROVE  MessagesAreBooked'
<1> SUFFICES ASSUME NEW k \in Keys, k \notin disturbed'
             PROVE  Booked(k)'
  BY DEF MessagesAreBooked
<1>1. Booked(k)
  BY DEF MessagesAreBooked
<1>2. CASE k = k0
  BY <1>1, <1>2
<1>3. CASE k # k0
  <2>1. ~Past(p, k) /\ ~Past(p, k)'
    BY <1>3 DEF Past
  <2>2. \A q \in Scripts : Past(q, k)' <=> Past(q, k)
    BY <2>1 DEF Past, MyKey
  <2>3. \A q \in Scripts : Past(q, k) => work'[q] = work[q]
    BY <2>1
  <2> QED
    BY <1>1, <1>3, <2>2, <2>3 DEF Booked
<1> QED
  BY <1>2, <1>3

-----------------------------------------------------------------------------
\* A record that fits tells nothing a script was not told.
LEMMA FitsIsTruthful ==
    ASSUME NEW w \in Working, w.pc # "next", NEW rec, NEW heard, Fits(w, rec),
           w.daily \in DispatchOk => <<w.business, "daily">> \in heard,
           w.brief \in DispatchOk => <<w.business, "owner_case_brief">> \in heard,
           NEW i \in DOMAIN rec.dispatches, rec.dispatches[i][2] \in DispatchOk
    PROVE  <<w.business, rec.dispatches[i][1]>> \in heard
<1>1. CASE rec.dispatches = <<>>
  BY <1>1
<1>2. CASE rec.dispatches = DailyOnly(w)
  BY <1>2 DEF DailyOnly
<1>3. CASE rec.dispatches = WithBrief(w)
  BY <1>3 DEF WithBrief
<1>4. Stage(w) \in Early \cup Late
  BY DEF Early, Late, Stage, Working
<1> QED
  BY <1>1, <1>2, <1>3, <1>4 DEF Fits, Late

\* The script goes on with its run.
LEMMA ProceedStep ==
    ASSUME IInv, NEW p \in Scripts, Busy(p), StepOf(p), DeliveriesStay,
           work'[p].pc \notin {"ended", "next"},
           work'[p].run = work[p].run, work'[p].business = work[p].business,
           Fits(work'[p], MyRunAfter(p)), Told(p)',
           MarksAreTrue', BriefFollowsReport', MessagesAreBooked'
    PROVE  IInv'
<1>1. TypeOK' /\ RunsAreOwned' /\ RunsFit'
  BY RunsStep DEF IInv
<1>2. ResultsAreTrue'
  BY ResultsStep DEF IInv, StepOf
<1>3. EndedRunsAreComplete'
  BY CompleteStep DEF IInv, Fits
<1>4. LedgerIsTruthful'
  <2> DEFINE w == work'[p]
             heard == {k \in Keys : delivered'[k] > 0}
             b == work[p].business
  <2>1. w \in Working /\ w.pc # "next"
    BY DEF StepOf, Ended
  <2>2. b \in Businesses /\ MyRun(p).business = b
    BY BusyWork DEF IInv, RunsFit, Fits, Record
  <2>3. <<b, "daily">> \in Keys /\ <<b, "owner_case_brief">> \in Keys
    BY <2>2 DEF Keys, Messages
  <2>4. /\ w.daily \in DispatchOk => <<b, "daily">> \in heard
        /\ w.brief \in DispatchOk => <<b, "owner_case_brief">> \in heard
    BY <2>3 DEF Told
  <2>5. \A i \in DOMAIN MyRunAfter(p).dispatches :
           MyRunAfter(p).dispatches[i][2] \in DispatchOk =>
              <<b, MyRunAfter(p).dispatches[i][1]>> \in heard
    <3> HIDE DEF w, heard
    <3> QED
      BY <2>1, <2>4, FitsIsTruthful DEF w
  <2>6. MyRunAfter(p).business = b /\ MyRunAfter(p).status # "succeeded"
    BY DEF Fits
  <2> QED
    BY <2>2, <2>5, <2>6, LedgerStep DEF IInv
<1> QED
  BY <1>1, <1>2, <1>3, <1>4 DEF IInv

\* The script goes on to the next business, or ends.
LEMMA LeaveStep ==
    ASSUME IInv, NEW p \in Scripts, Busy(p), StepOf(p), DeliveriesStay,
           work'[p].pc \in {"ended", "next"},
           MyRunAfter(p).business = MyRun(p).business,
           MyRunAfter(p).dispatches = MyRun(p).dispatches,
           MyRunAfter(p).status = "succeeded" => work[p].daily \in DispatchOk,
           MyRunAfter(p).status \in {"succeeded", "partial"} => Complete(MyRunAfter(p)),
           MarksAreTrue', BriefFollowsReport', MessagesAreBooked'
    PROVE  IInv'
<1>1. TypeOK' /\ RunsAreOwned' /\ RunsFit'
  BY RunsStep DEF IInv
<1>2. ResultsAreTrue'
  BY ResultsStep DEF IInv, StepOf, Busy
<1>3. EndedRunsAreComplete'
  <2> SUFFICES ASSUME NEW r \in DOMAIN runs', runs'[r].status \in {"succeeded", "partial"}
               PROVE  Complete(runs'[r])
    BY DEF EndedRunsAreComplete, Complete
  <2>1. CASE r = work[p].run
    BY <2>1 DEF MyRunAfter
  <2>2. CASE r # work[p].run
    <3>1. runs'[r] = runs[r] /\ r \in DOMAIN runs
      BY <2>2 DEF StepOf
    <3>2. runs[r].status \in {"succeeded", "partial"} => Complete(runs[r])
      BY <3>1 DEF IInv, EndedRunsAreComplete, Complete
    <3> QED
      BY <3>1, <3>2
  <2> QED
    BY <2>1, <2>2
<1>4. LedgerIsTruthful'
  <2> DEFINE b == MyRun(p).business
  <2>1. /\ b \in Businesses /\ b = work[p].business /\ work[p].run \in DOMAIN runs
        /\ \A i \in DOMAIN MyRun(p).dispatches : MyRun(p).dispatches[i][1] \in Messages
    BY BusyWork DEF IInv, RunsFit, Fits, Record
  <2>2. \A m \in Messages : <<b, m>> \in Keys
    BY <2>1 DEF Keys
  <2>3. \A i \in DOMAIN MyRun(p).dispatches :
           MyRun(p).dispatches[i][2] \in DispatchOk => delivered[<<b, MyRun(p).dispatches[i][1]>>] > 0
    BY <2>1 DEF IInv, LedgerIsTruthful, MyRun
  <2>4. MyRunAfter(p).status = "succeeded" => delivered[<<b, "daily">>] > 0
    BY <2>1 DEF IInv, ResultsAreTrue, Told
  <2>5. \A i \in DOMAIN MyRunAfter(p).dispatches :
           MyRunAfter(p).dispatches[i][2] \in DispatchOk =>
              delivered'[<<b, MyRunAfter(p).dispatches[i][1]>>] > 0
    BY <2>1, <2>2, <2>3 DEF DeliveriesStay
  <2>6. MyRunAfter(p).status = "succeeded" => delivered'[<<b, "daily">>] > 0
    BY <2>2, <2>4 DEF DeliveriesStay, Messages
  <2> QED
    BY <2>5, <2>6, LedgerStep DEF IInv
<1> QED
  BY <1>1, <1>2, <1>3, <1>4 DEF IInv

LEMMA NothingDelivered ==
    ASSUME IInv, UNCHANGED <<marked, delivered, disturbed>>
    PROVE  DeliveriesStay /\ MarksAreTrue' /\ BriefFollowsReport'
BY DEF IInv, TypeOK, DeliveriesStay, MarksAreTrue, BriefFollowsReport

-----------------------------------------------------------------------------
(***************************************************************************)
(* The steps.                                                              *)
(***************************************************************************)
\* The script stays with its run and goes to another statement.
Moves(p, pc, message, daily, brief) ==
    /\ work' \in [Scripts -> {Ended} \cup Working]
    /\ \A q \in Scripts \ {p} : work'[q] = work[q]
    /\ work'[p] \in Working
    /\ work'[p].pc = pc
    /\ work'[p].run = work[p].run
    /\ work'[p].business = work[p].business
    /\ work'[p].message = message
    /\ work'[p].daily = daily
    /\ work'[p].brief = brief

BusyStages == {"building", "checking", "sending", "marking", "connectors", "artifact",
               "dispatch", "brief", "record_brief", "finish", "failing", "failed"}

LEMMA MovesIf ==
    ASSUME TypeOK, NEW p \in Scripts, NEW w \in Working, Goto(p, w),
           w.run = work[p].run, w.business = work[p].business
    PROVE  Moves(p, w.pc, w.message, w.daily, w.brief)
BY GoesTo DEF Moves

\* The next statement and nothing else.
GotoPc(p, pc) == Goto(p, [work[p] EXCEPT !.pc = pc])

LEMMA PcMoves ==
    ASSUME TypeOK, NEW p \in Scripts, Busy(p), NEW pc \in BusyStages \cup {"next"}, GotoPc(p, pc)
    PROVE  Moves(p, pc, work[p].message, work[p].daily, work[p].brief)
<1> DEFINE w == [work[p] EXCEPT !.pc = pc]
<1>1. /\ w \in Working /\ w.pc = pc /\ w.run = work[p].run /\ w.business = work[p].business
      /\ w.message = work[p].message /\ w.daily = work[p].daily /\ w.brief = work[p].brief
  BY BusyWork DEF Working, BusyStages
<1>2. Goto(p, w)
  BY DEF GotoPc
<1> HIDE DEF w
<1> QED
  BY <1>1, <1>2, MovesIf

LEMMA MoveFrame ==
    ASSUME IInv, NEW p \in Scripts, Busy(p), NEW pc, NEW message, NEW daily, NEW brief,
           Moves(p, pc, message, daily, brief), runs' = runs, abandoned' = abandoned
    PROVE  StepOf(p) /\ MyRunAfter(p) = MyRun(p)
BY DEF IInv, TypeOK, Moves, StepOf, MyRunAfter, MyRun

LEMMA WriteFrame ==
    ASSUME IInv, NEW p \in Scripts, Busy(p), NEW rec \in Record, Write(p, rec),
           work' \in [Scripts -> {Ended} \cup Working],
           \A q \in Scripts \ {p} : work'[q] = work[q], abandoned' = abandoned
    PROVE  StepOf(p) /\ MyRunAfter(p) = rec
BY WritesTo DEF IInv, TypeOK, StepOf, MyRunAfter

LEMMA StillTold ==
    ASSUME IInv, NEW p \in Scripts, Busy(p), UNCHANGED delivered, NEW pc, pc # "marking",
           NEW message, Moves(p, pc, message, work[p].daily, work[p].brief)
    PROVE  Told(p)'
BY DEF IInv, ResultsAreTrue, Told, Moves

\* Another statement that neither writes to the ledger nor sends.
LEMMA MoveStep ==
    ASSUME IInv, NEW p \in Scripts, Busy(p), NEW pc \in BusyStages, NEW message,
           Moves(p, pc, message, work[p].daily, work[p].brief), Fits(work'[p], MyRun(p)),
           {work[p].pc, pc} \cap {"sending", "marking"} = {},
           UNCHANGED <<runs, marked, delivered, abandoned, disturbed>>
    PROVE  IInv'
<1>1. StepOf(p) /\ MyRunAfter(p) = MyRun(p)
  BY MoveFrame
<1>2. DeliveriesStay /\ MarksAreTrue' /\ BriefFollowsReport' /\ Told(p)'
  BY NothingDelivered, StillTold
<1>3. MessagesAreBooked'
  BY UnbookedStep DEF IInv, Moves
<1>4. work'[p].pc \notin {"ended", "next"}
  BY DEF Moves, BusyStages
<1> QED
  BY <1>1, <1>2, <1>3, <1>4, ProceedStep DEF Moves

\* The record fits the script once it is at this statement.
FitsAt(p, pc, rec) ==
    \A w \in Working :
       (/\ w.pc = pc /\ w.business = work[p].business /\ w.message = work[p].message
        /\ w.daily = work[p].daily /\ w.brief = work[p].brief) => Fits(w, rec)

\* A statement that writes to the ledger.
LEMMA RecordStep ==
    ASSUME IInv, NEW p \in Scripts, Busy(p), NEW pc \in BusyStages, GotoPc(p, pc),
           NEW rec \in Record, Write(p, rec), FitsAt(p, pc, rec),
           {work[p].pc, pc} \cap {"sending", "marking"} = {},
           UNCHANGED <<marked, delivered, abandoned, disturbed>>
    PROVE  IInv'
<1>1. Moves(p, pc, work[p].message, work[p].daily, work[p].brief)
  BY PcMoves DEF IInv
<1>2. StepOf(p) /\ MyRunAfter(p) = rec
  BY <1>1, WriteFrame DEF Moves
<1>3. DeliveriesStay /\ MarksAreTrue' /\ BriefFollowsReport' /\ Told(p)'
  BY <1>1, NothingDelivered, StillTold
<1>4. MessagesAreBooked'
  BY <1>1, UnbookedStep DEF IInv, Moves
<1>5. work'[p].pc \notin {"ended", "next"} /\ Fits(work'[p], rec)
  BY <1>1 DEF Moves, BusyStages, FitsAt
<1> QED
  BY <1>1, <1>2, <1>3, <1>4, <1>5, ProceedStep DEF Moves

LEMMA MyFit ==
    ASSUME IInv, NEW p \in Scripts, Busy(p)
    PROVE  /\ Fits(work[p], MyRun(p)) /\ MyRun(p) \in Record /\ work[p] \in Working
           /\ work[p].business \in Businesses /\ work[p].message \in Messages
           /\ MyKey(p) \in Keys
<1>1. Fits(work[p], MyRun(p)) /\ MyRun(p) \in Record /\ work[p] \in Working
  BY BusyWork DEF IInv, RunsFit
<1>2. work[p].business \in Businesses /\ work[p].message \in Messages
  BY <1>1 DEF Fits, Record, Working
<1> QED
  BY <1>1, <1>2 DEF MyKey, Keys

LEMMA BuildStep ==
    ASSUME IInv, NEW p \in Scripts, Build(p) \/ BuildFails(p)
    PROVE  IInv'
<1>1. Busy(p) /\ work[p].pc = "building"
  BY DEF Build, BuildFails, Busy
<1>2. PICK pc \in {"checking", "failing"} : GotoPc(p, pc)
  BY DEF Build, BuildFails, GotoPc
<1>3. Moves(p, pc, work[p].message, work[p].daily, work[p].brief)
  BY <1>1, <1>2, PcMoves DEF IInv, BusyStages
<1>4. Fits(work'[p], MyRun(p))
  <2>1. Fits(work[p], MyRun(p))
    BY <1>1, MyFit
  <2>2. Stage(work[p]) = "building"
    BY <1>1 DEF Stage
  <2>3. Stage(work'[p]) \in {"building", "failing"}
    BY <1>3, <2>1, <2>2 DEF Stage, Moves, Fits, Early
  <2> QED
    BY <1>3, <2>1, <2>2, <2>3 DEF Fits, Early, Late, Moves
<1>5. UNCHANGED <<runs, marked, delivered, abandoned, disturbed>>
  BY DEF Build, BuildFails
<1> QED
  BY <1>1, <1>3, <1>4, <1>5, MoveStep DEF BusyStages

LEMMA AppendDone ==
    ASSUME NEW n \in Nat
    PROVE  /\ Done(n) \in Seq({"succeeded", "failed"}) /\ Len(Done(n)) = n
           /\ Append(Done(n), "succeeded") = Done(n + 1)
<1>1. Done(n) \in Seq({"succeeded", "failed"}) /\ Len(Done(n)) = n
  BY IsASeq DEF Done
<1>2. Done(n + 1) \in Seq({"succeeded", "failed"}) /\ Len(Done(n + 1)) = n + 1
  BY IsASeq DEF Done
<1>3. /\ Append(Done(n), "succeeded") \in Seq({"succeeded", "failed"})
      /\ Len(Append(Done(n), "succeeded")) = n + 1
  BY <1>1
<1>4. \A i \in 1..(n + 1) : Append(Done(n), "succeeded")[i] = Done(n + 1)[i]
  BY <1>1 DEF Done
<1> QED
  BY <1>1, <1>2, <1>3, <1>4, SeqEqual

LEMMA NothingDone == <<>> = Done(0)
BY DEF Done

LEMMA RecordConnectorStep ==
    ASSUME IInv, NEW p \in Scripts, RecordConnector(p)
    PROVE  IInv'
<1> DEFINE done == Append(MyRun(p).connectors, "succeeded")
           n == Len(MyRun(p).connectors)
           rec == [MyRun(p) EXCEPT !.connectors = done]
           pc == IF Len(done) < Connectors THEN "connectors" ELSE "artifact"
<1>1. Busy(p) /\ work[p].pc = "connectors" /\ Fits(work[p], MyRun(p))
      /\ MyRun(p) \in Record /\ work[p] \in Working
  BY MyFit DEF RecordConnector, Busy
<1>2. Stage(work[p]) = "connectors"
  BY <1>1 DEF Stage
<1>3. n \in Nat /\ n < Connectors /\ MyRun(p).connectors = Done(n)
  BY <1>1, <1>2 DEF Fits, Record
<1>4. done = Done(n + 1) /\ Len(done) = n + 1 /\ done \in Seq({"succeeded", "failed"})
  <2>1. done = Append(Done(n), "succeeded")
    BY <1>3
  <2> HIDE DEF done, n
  <2>2. n + 1 \in Nat /\ n \in Nat
    BY <1>3
  <2>3. Done(n + 1) \in Seq({"succeeded", "failed"}) /\ Len(Done(n + 1)) = n + 1
    BY <2>2, AppendDone
  <2>4. Append(Done(n), "succeeded") = Done(n + 1)
    BY <2>2, AppendDone
  <2> QED
    BY <2>1, <2>3, <2>4
<1>5. Write(p, rec) /\ UNCHANGED <<marked, delivered, abandoned, disturbed>>
  BY DEF RecordConnector
<1>6. GotoPc(p, pc)
  <2>1. [work[p] EXCEPT !.pc = "connectors"] = work[p]
    BY <1>1 DEF Working
  <2>2. Goto(p, IF Len(done) < Connectors THEN work[p] ELSE [work[p] EXCEPT !.pc = "artifact"])
    BY DEF RecordConnector
  <2> HIDE DEF done
  <2>3. CASE Len(done) < Connectors
    BY <2>1, <2>2, <2>3 DEF GotoPc
  <2>4. CASE ~(Len(done) < Connectors)
    BY <2>2, <2>4 DEF GotoPc
  <2> QED
    BY <2>3, <2>4
<1> HIDE DEF done, n
<1>7. /\ rec \in Record /\ rec.status = MyRun(p).status /\ rec.business = MyRun(p).business
      /\ rec.connectors = done /\ rec.artifact = MyRun(p).artifact
      /\ rec.dispatches = MyRun(p).dispatches
  BY <1>1, <1>4 DEF Record
<1> HIDE DEF rec
<1>8. FitsAt(p, pc, rec)
  <2> SUFFICES ASSUME NEW w \in Working, w.pc = pc, w.business = work[p].business,
                      w.message = work[p].message, w.daily = work[p].daily, w.brief = work[p].brief
               PROVE  Fits(w, rec)
    BY DEF FitsAt
  <2>1. CASE n + 1 < Connectors
    <3>1. Stage(w) = "connectors"
      BY <1>4, <2>1 DEF Stage
    <3> QED
      BY <1>1, <1>2, <1>4, <1>7, <2>1, <3>1 DEF Fits, Early, Late
  <2>2. CASE ~(n + 1 < Connectors)
    <3>1. Stage(w) = "artifact"
      BY <1>4, <2>2 DEF Stage
    <3>2. n + 1 = Connectors
      BY <1>3, <2>2, ReportAssumption
    <3> QED
      BY <1>1, <1>2, <1>4, <1>7, <3>1, <3>2 DEF Fits, Early, Late
  <2> QED
    BY <2>1, <2>2
<1>9. pc \in {"connectors", "artifact"}
  OBVIOUS
<1> HIDE DEF pc
<1> QED
  BY <1>1, <1>5, <1>6, <1>7, <1>8, <1>9, RecordStep DEF BusyStages

LEMMA RecordArtifactStep ==
    ASSUME IInv, NEW p \in Scripts, RecordArtifact(p)
    PROVE  IInv'
<1> DEFINE rec == [MyRun(p) EXCEPT !.artifact = TRUE]
<1>1. Busy(p) /\ work[p].pc = "artifact" /\ Fits(work[p], MyRun(p)) /\ MyRun(p) \in Record
  BY MyFit DEF RecordArtifact, Busy
<1>2. /\ GotoPc(p, "dispatch")
      /\ Write(p, rec) /\ UNCHANGED <<marked, delivered, abandoned, disturbed>>
  BY DEF RecordArtifact, GotoPc
<1>3. /\ rec \in Record /\ rec.status = MyRun(p).status /\ rec.business = MyRun(p).business
      /\ rec.connectors = MyRun(p).connectors /\ rec.artifact = TRUE
      /\ rec.dispatches = MyRun(p).dispatches
  BY <1>1 DEF Record
<1> HIDE DEF rec
<1>4. FitsAt(p, "dispatch", rec)
  <2> SUFFICES ASSUME NEW w \in Working, w.pc = "dispatch", w.business = work[p].business,
                      w.message = work[p].message, w.daily = work[p].daily, w.brief = work[p].brief
               PROVE  Fits(w, rec)
    BY DEF FitsAt
  <2>1. Stage(w) = "dispatch" /\ Stage(work[p]) = "artifact"
    BY <1>1 DEF Stage
  <2> QED
    BY <1>1, <1>3, <2>1 DEF Fits, Early, Late
<1> QED
  BY <1>1, <1>2, <1>3, <1>4, RecordStep DEF BusyStages

LEMMA RecordDispatchStep ==
    ASSUME IInv, NEW p \in Scripts, RecordDispatch(p)
    PROVE  IInv'
<1> DEFINE rec == [MyRun(p) EXCEPT !.dispatches = Append(@, <<"daily", work[p].daily>>)]
           pc == AfterDispatch(work[p].daily)
<1>1. Busy(p) /\ work[p].pc = "dispatch" /\ Fits(work[p], MyRun(p)) /\ MyRun(p) \in Record
  BY MyFit DEF RecordDispatch, Busy
<1>2. /\ GotoPc(p, pc)
      /\ Write(p, rec) /\ UNCHANGED <<marked, delivered, abandoned, disturbed>>
  BY DEF RecordDispatch, GotoPc
<1>3. Stage(work[p]) = "dispatch"
  BY <1>1 DEF Stage
<1>4. /\ Append(MyRun(p).dispatches, <<"daily", work[p].daily>>) = DailyOnly(work[p])
      /\ DailyOnly(work[p]) \in Seq(Messages \X Results)
  <2>1. MyRun(p).dispatches = <<>> /\ work[p].daily \in Results
    BY <1>1, <1>3 DEF Fits, Early, Late
  <2> QED
    BY <2>1 DEF DailyOnly, Messages
<1>5. /\ rec \in Record /\ rec.status = MyRun(p).status /\ rec.business = MyRun(p).business
      /\ rec.connectors = MyRun(p).connectors /\ rec.artifact = MyRun(p).artifact
      /\ rec.dispatches = DailyOnly(work[p])
  BY <1>1, <1>4 DEF Record
<1>6. pc = IF work[p].daily \in DispatchOk THEN "brief" ELSE "finish"
  BY DEF AfterDispatch
<1> HIDE DEF rec, pc
<1>7. FitsAt(p, pc, rec)
  <2> SUFFICES ASSUME NEW w \in Working, w.pc = pc, w.business = work[p].business,
                      w.message = work[p].message, w.daily = work[p].daily, w.brief = work[p].brief
               PROVE  Fits(w, rec)
    BY DEF FitsAt
  <2>1. Stage(w) = pc
    BY <1>6 DEF Stage
  <2>2. DailyOnly(w) = DailyOnly(work[p])
    BY DEF DailyOnly
  <2> QED
    BY <1>1, <1>3, <1>5, <1>6, <2>1, <2>2 DEF Fits, Early, Late
<1> QED
  BY <1>1, <1>2, <1>5, <1>6, <1>7, RecordStep DEF BusyStages

LEMMA AppendSecond ==
    ASSUME NEW S, NEW a \in S, NEW b \in S
    PROVE  Append(<<a>>, b) = <<a, b>> /\ <<a, b>> \in Seq(S)
<1>1. <<a>> \in Seq(S) /\ Len(<<a>>) = 1 /\ <<a>>[1] = a
  OBVIOUS
<1>2. <<a, b>> \in Seq(S) /\ Len(<<a, b>>) = 2 /\ <<a, b>>[1] = a /\ <<a, b>>[2] = b
  OBVIOUS
<1>3. /\ Append(<<a>>, b) \in Seq(S) /\ Len(Append(<<a>>, b)) = 2
      /\ Append(<<a>>, b)[1] = a /\ Append(<<a>>, b)[2] = b
  BY <1>1, AppendProperties
<1> QED
  <2> DEFINE one == Append(<<a>>, b)
             two == <<a, b>>
  <2>1. one \in Seq(S) /\ two \in Seq(S) /\ Len(one) = Len(two)
    BY <1>2, <1>3
  <2>2. \A i \in 1..Len(one) : one[i] = two[i]
    BY <1>2, <1>3
  <2> HIDE DEF one, two
  <2>3. one = two
    BY <2>1, <2>2, SeqEqual
  <2> QED
    BY <2>1, <2>3 DEF one, two

LEMMA RecordBriefStep ==
    ASSUME IInv, NEW p \in Scripts, RecordBrief(p)
    PROVE  IInv'
<1> DEFINE rec == [MyRun(p) EXCEPT !.dispatches =
                      Append(@, <<"owner_case_brief", work[p].brief>>)]
<1>1. Busy(p) /\ work[p].pc = "record_brief" /\ Fits(work[p], MyRun(p)) /\ MyRun(p) \in Record
  BY MyFit DEF RecordBrief, Busy
<1>2. /\ GotoPc(p, "finish")
      /\ Write(p, rec) /\ UNCHANGED <<marked, delivered, abandoned, disturbed>>
  BY DEF RecordBrief, GotoPc
<1>3. Stage(work[p]) = "record_brief"
  BY <1>1 DEF Stage
<1>4. /\ MyRun(p).dispatches = DailyOnly(work[p])
      /\ work[p].daily \in Results /\ work[p].brief \in Results
  BY <1>1, <1>3 DEF Fits, Early, Late
<1>5. /\ Append(MyRun(p).dispatches, <<"owner_case_brief", work[p].brief>>) = WithBrief(work[p])
      /\ WithBrief(work[p]) \in Seq(Messages \X Results)
  <2>1. /\ <<"daily", work[p].daily>> \in Messages \X Results
        /\ <<"owner_case_brief", work[p].brief>> \in Messages \X Results
    BY <1>4 DEF Messages
  <2> QED
    <3> DEFINE daily == <<"daily", work[p].daily>>
               brief == <<"owner_case_brief", work[p].brief>>
    <3>1. MyRun(p).dispatches = <<daily>> /\ WithBrief(work[p]) = <<daily, brief>>
      BY <1>4 DEF DailyOnly, WithBrief
    <3>2. daily \in Messages \X Results /\ brief \in Messages \X Results
      BY <2>1
    <3> HIDE DEF daily
    <3>3. Append(MyRun(p).dispatches, brief) = WithBrief(work[p]) /\ WithBrief(work[p]) \in Seq(Messages \X Results)
      <4> HIDE DEF brief
      <4> QED
        BY <3>1, <3>2, AppendSecond
    <3> QED
      BY <3>3
<1>6. /\ rec \in Record /\ rec.status = MyRun(p).status /\ rec.business = MyRun(p).business
      /\ rec.connectors = MyRun(p).connectors /\ rec.artifact = MyRun(p).artifact
      /\ rec.dispatches = WithBrief(work[p])
  BY <1>1, <1>5 DEF Record
<1> HIDE DEF rec
<1>7. FitsAt(p, "finish", rec)
  <2> SUFFICES ASSUME NEW w \in Working, w.pc = "finish", w.business = work[p].business,
                      w.message = work[p].message, w.daily = work[p].daily, w.brief = work[p].brief
               PROVE  Fits(w, rec)
    BY DEF FitsAt
  <2>1. Stage(w) = "finish" /\ w.brief # None
    BY <1>4 DEF Stage, Results, None
  <2>2. WithBrief(w) = WithBrief(work[p])
    BY DEF WithBrief
  <2> QED
    BY <1>1, <1>3, <1>4, <1>6, <2>1, <2>2 DEF Fits, Early, Late
<1> QED
  BY <1>1, <1>2, <1>6, <1>7, RecordStep DEF BusyStages

LEMMA RecordFailedConnectorStep ==
    ASSUME IInv, NEW p \in Scripts, RecordFailedConnector(p)
    PROVE  IInv'
<1> DEFINE rec == [MyRun(p) EXCEPT !.connectors = Append(@, "failed")]
<1>1. Busy(p) /\ work[p].pc = "failing" /\ Fits(work[p], MyRun(p)) /\ MyRun(p) \in Record
  BY MyFit DEF RecordFailedConnector, Busy
<1>2. /\ GotoPc(p, "failed")
      /\ Write(p, rec) /\ UNCHANGED <<marked, delivered, abandoned, disturbed>>
  BY DEF RecordFailedConnector, GotoPc
<1>3. Append(MyRun(p).connectors, "failed") \in Seq({"succeeded", "failed"})
  BY <1>1 DEF Record
<1>4. /\ rec \in Record /\ rec.status = MyRun(p).status /\ rec.business = MyRun(p).business
      /\ rec.artifact = MyRun(p).artifact /\ rec.dispatches = MyRun(p).dispatches
  BY <1>1, <1>3 DEF Record
<1> HIDE DEF rec
<1>5. FitsAt(p, "failed", rec)
  <2> SUFFICES ASSUME NEW w \in Working, w.pc = "failed", w.business = work[p].business,
                      w.message = work[p].message, w.daily = work[p].daily, w.brief = work[p].brief
               PROVE  Fits(w, rec)
    BY DEF FitsAt
  <2>1. Stage(w) = "failed" /\ Stage(work[p]) = "failing"
    BY <1>1 DEF Stage
  <2> QED
    BY <1>1, <1>4, <2>1 DEF Fits, Early, Late
<1> QED
  BY <1>1, <1>2, <1>4, <1>5, RecordStep DEF BusyStages

LEMMA BriefStep ==
    ASSUME IInv, NEW p \in Scripts, Brief(p)
    PROVE  IInv'
<1>1. /\ Busy(p) /\ work[p].pc = "brief" /\ Fits(work[p], MyRun(p)) /\ work[p] \in Working
      /\ UNCHANGED <<runs, marked, delivered, abandoned, disturbed>>
  BY MyFit DEF Brief, Busy
<1>2. Stage(work[p]) = "brief"
  BY <1>1 DEF Stage
<1>3. PICK pc \in {"finish", "checking"}, message \in Messages :
         /\ Moves(p, pc, message, work[p].daily, work[p].brief)
         /\ pc = "checking" => message = "owner_case_brief"
  <2>1. CASE Goto(p, [work[p] EXCEPT !.pc = "finish"])
    <3>1. Moves(p, "finish", work[p].message, work[p].daily, work[p].brief)
      BY <1>1, <2>1, PcMoves DEF GotoPc, IInv, BusyStages
    <3> QED
      BY <1>1, <3>1, MyFit
  <2>2. CASE Goto(p, [work[p] EXCEPT !.pc = "checking", !.message = "owner_case_brief"])
    <3> DEFINE w == [work[p] EXCEPT !.pc = "checking", !.message = "owner_case_brief"]
    <3>1. /\ w \in Working /\ w.pc = "checking" /\ w.message = "owner_case_brief"
          /\ w.run = work[p].run /\ w.business = work[p].business
          /\ w.daily = work[p].daily /\ w.brief = work[p].brief
      BY <1>1 DEF Working, Messages
    <3>2. Goto(p, w)
      BY <2>2
    <3> HIDE DEF w
    <3>3. Moves(p, "checking", "owner_case_brief", work[p].daily, work[p].brief)
      BY <3>1, <3>2, MovesIf DEF IInv
    <3> QED
      BY <3>3 DEF Messages
  <2> QED
    BY <2>1, <2>2 DEF Brief
<1>4. Fits(work'[p], MyRun(p))
  <2>1. Stage(work'[p]) = IF pc = "finish" THEN "finish" ELSE "briefing"
    BY <1>3 DEF Stage, Moves
  <2>2. DailyOnly(work'[p]) = DailyOnly(work[p]) /\ work'[p].brief = None
    BY <1>1, <1>2, <1>3 DEF DailyOnly, Moves, Fits
  <2> QED
    BY <1>1, <1>2, <1>3, <2>1, <2>2 DEF Fits, Early, Late, Moves
<1> QED
  BY <1>1, <1>3, <1>4, MoveStep DEF BusyStages

\* A script that ends, with the record of its run as it leaves it.
LEMMA EndFrame ==
    ASSUME IInv, NEW p \in Scripts, Busy(p), Goto(p, Ended), NEW rec \in Record,
           Write(p, rec) \/ (runs' = runs /\ rec = MyRun(p)),
           abandoned' \subseteq abandoned \cup {work[p].run}
    PROVE  /\ StepOf(p) /\ MyRunAfter(p) = rec /\ work'[p].pc = "ended"
           /\ \A q \in Scripts \ {p} : work'[q] = work[q]
<1>1. /\ work' \in [Scripts -> {Ended} \cup Working] /\ work'[p].pc = "ended"
      /\ \A q \in Scripts \ {p} : work'[q] = work[q]
  BY GoesTo DEF IInv, Ended
<1>2. work[p].run \in DOMAIN runs /\ abandoned \subseteq DOMAIN runs
  BY BusyWork DEF IInv, TypeOK
<1>3. CASE Write(p, rec)
  BY <1>1, <1>2, <1>3, WritesTo DEF IInv, StepOf, MyRunAfter
<1>4. CASE runs' = runs /\ rec = MyRun(p)
  BY <1>1, <1>2, <1>4 DEF IInv, TypeOK, StepOf, MyRunAfter, MyRun
<1> QED
  BY <1>1, <1>3, <1>4

\* The two ways in which a finished run may come to its dispatches.
LEMMA FinishedIsComplete ==
    ASSUME NEW w \in Working, NEW before \in Record, Fits(w, before), w.pc = "finish",
           NEW rec \in Record, rec.status = FinalStatus(w.daily, w.brief),
           rec.connectors = before.connectors, rec.artifact = before.artifact,
           rec.dispatches = before.dispatches
    PROVE  Complete(rec)
<1>1. Stage(w) = "finish"
  BY DEF Stage
<1>2. /\ rec.connectors = [i \in 1..Connectors |-> "succeeded"] /\ rec.artifact
      /\ w.daily \in Results /\ w.brief \in Results \cup {None}
      /\ rec.dispatches = IF w.brief = None THEN DailyOnly(w) ELSE WithBrief(w)
  BY <1>1 DEF Fits, Late, Done, Working
<1>3. CASE w.brief = None
  <2>1. /\ rec.dispatches = << <<"daily", w.daily>> >> /\ rec.dispatches # <<>>
        /\ rec.dispatches[1][1] = "daily" /\ rec.dispatches[1][2] = w.daily
        /\ DOMAIN rec.dispatches = {1}
    BY <1>2, <1>3 DEF DailyOnly
  <2>2. rec.status = "partial" <=> w.daily = "failed"
    BY <1>2, <1>3 DEF FinalStatus, Results, DispatchOk
  <2> QED
    BY <1>2, <2>1, <2>2 DEF Complete
<1>4. CASE w.brief # None
  <2>1. /\ rec.dispatches = << <<"daily", w.daily>>, <<"owner_case_brief", w.brief>> >>
        /\ rec.dispatches # <<>>
        /\ rec.dispatches[1][1] = "daily" /\ rec.dispatches[1][2] = w.daily
        /\ rec.dispatches[2][2] = w.brief /\ DOMAIN rec.dispatches = {1, 2}
    BY <1>2, <1>4 DEF WithBrief
  <2>2. rec.status = "partial" <=> (w.daily = "failed" \/ w.brief = "failed")
    BY <1>2, <1>4 DEF FinalStatus, Results, DispatchOk
  <2> QED
    BY <1>2, <2>1, <2>2 DEF Complete
<1> QED
  BY <1>3, <1>4

LEMMA FinishRunStep ==
    ASSUME IInv, NEW p \in Scripts, FinishRun(p)
    PROVE  IInv'
<1> DEFINE rec == [MyRun(p) EXCEPT !.status = FinalStatus(work[p].daily, work[p].brief)]
<1>1. /\ Busy(p) /\ work[p].pc = "finish" /\ Fits(work[p], MyRun(p))
      /\ MyRun(p) \in Record /\ work[p] \in Working
  BY MyFit DEF FinishRun, Busy
<1>2. /\ GotoPc(p, "next") /\ Write(p, rec)
      /\ UNCHANGED <<marked, delivered, abandoned, disturbed>>
  BY DEF FinishRun, GotoPc
<1>3. Moves(p, "next", work[p].message, work[p].daily, work[p].brief)
  BY <1>1, <1>2, PcMoves DEF IInv
<1>4. /\ rec \in Record /\ rec.status = FinalStatus(work[p].daily, work[p].brief)
      /\ rec.business = MyRun(p).business /\ rec.dispatches = MyRun(p).dispatches
      /\ rec.connectors = MyRun(p).connectors /\ rec.artifact = MyRun(p).artifact
  BY <1>1 DEF Record, FinalStatus, RunStatuses
<1> HIDE DEF rec
<1>5. Complete(rec)
  BY <1>1, <1>4, FinishedIsComplete
<1>6. rec.status = "succeeded" => work[p].daily \in DispatchOk
  BY <1>4 DEF FinalStatus
<1>7. StepOf(p) /\ MyRunAfter(p) = rec
  BY <1>1, <1>2, <1>3, <1>4, WriteFrame DEF Moves
<1>8. DeliveriesStay /\ MarksAreTrue' /\ BriefFollowsReport'
  BY <1>2, NothingDelivered
<1>9. work'[p].pc = "next" /\ MessagesAreBooked'
  BY <1>1, <1>2, <1>3, UnbookedStep DEF IInv, Moves
<1> QED
  BY <1>1, <1>4, <1>5, <1>6, <1>7, <1>8, <1>9, LeaveStep

LEMMA FailRunStep ==
    ASSUME IInv, NEW p \in Scripts, FailRun(p)
    PROVE  IInv'
<1> DEFINE rec == [MyRun(p) EXCEPT !.status = "failed"]
<1>1. Busy(p) /\ work[p].pc \in {"failing", "failed"} /\ MyRun(p) \in Record
  BY MyFit DEF FailRun, Busy
<1>2. /\ Goto(p, Ended) /\ Write(p, rec)
      /\ UNCHANGED <<marked, delivered, abandoned, disturbed>>
  BY DEF FailRun
<1>3. /\ rec \in Record /\ rec.status = "failed"
      /\ rec.business = MyRun(p).business /\ rec.dispatches = MyRun(p).dispatches
  BY <1>1 DEF Record, RunStatuses
<1> HIDE DEF rec
<1>4. /\ StepOf(p) /\ MyRunAfter(p) = rec /\ work'[p].pc = "ended"
      /\ \A q \in Scripts \ {p} : work'[q] = work[q]
  BY <1>1, <1>2, <1>3, EndFrame
<1>5. DeliveriesStay /\ MarksAreTrue' /\ BriefFollowsReport'
  BY <1>2, NothingDelivered
<1>6. MessagesAreBooked'
  BY <1>1, <1>2, <1>4, UnbookedStep DEF IInv
<1> QED
  BY <1>1, <1>3, <1>4, <1>5, <1>6, LeaveStep

\* A script that goes away between the check and the mark disturbs its message.
LEMMA DieStep ==
    ASSUME IInv, NEW p \in Scripts, Die(p)
    PROVE  IInv'
<1>1. /\ Busy(p) /\ MyRun(p) \in Record /\ MyRun(p).status = "running" /\ MyKey(p) \in Keys
  BY MyFit, BusyWork DEF Die, Busy, IInv
<1>2. /\ Goto(p, Ended) /\ UNCHANGED <<runs, marked, delivered>>
      /\ abandoned' = abandoned \cup {work[p].run}
      /\ disturbed' = IF work[p].pc = "marking" THEN disturbed \cup {MyKey(p)} ELSE disturbed
  BY DEF Die
<1>3. /\ StepOf(p) /\ MyRunAfter(p) = MyRun(p) /\ work'[p].pc = "ended"
      /\ \A q \in Scripts \ {p} : work'[q] = work[q]
  BY <1>1, <1>2, EndFrame
<1>4. DeliveriesStay /\ MarksAreTrue' /\ BriefFollowsReport'
  BY <1>1, <1>2 DEF IInv, TypeOK, DeliveriesStay, MarksAreTrue, BriefFollowsReport
<1>5. MessagesAreBooked'
  <2>1. PICK k0 \in Keys : k0 = MyKey(p)
    BY <1>1
  <2>2. k0 \notin disturbed' /\ Booked(k0) => Booked(k0)'
    <3> SUFFICES ASSUME k0 \notin disturbed', Booked(k0)
                 PROVE  Booked(k0)'
      OBVIOUS
    <3>1. work[p].pc # "marking" /\ ~Past(p, k0)'
      BY <1>2, <1>3, <2>1 DEF Past
    <3>2. \A q \in Scripts \ {p} : (Past(q, k0)' <=> Past(q, k0)) /\ work'[q] = work[q]
      BY <1>3 DEF Past, MyKey
    <3>3. Past(p, k0) => work[p].pc = "sending"
      BY <3>1 DEF Past
    <3> QED
      BY <1>2, <3>1, <3>2, <3>3 DEF Booked
  <2> QED
    BY <1>2, <1>3, <2>1, <2>2, BookedStep DEF IInv
<1> QED
  BY <1>1, <1>3, <1>4, <1>5, LeaveStep

-----------------------------------------------------------------------------
(***************************************************************************)
(* _send_text_once: check, send, mark.                                     *)
(***************************************************************************)
InDispatch(p) == work[p].pc \in {"checking", "sending", "marking"}

\* The dispatch is over, with this result or with an exception.
Answers(p, result) ==
    \/ Goto(p, Returned(p, result))
    \/ result = "failed" /\ Goto(p, Raised(p))

LEMMA AnswersGo ==
    ASSUME IInv, NEW p \in Scripts, InDispatch(p), NEW result \in Results, Answers(p, result)
    PROVE  \E pc \in {"connectors", "failing", "record_brief"},
              daily \in Results \cup {None}, brief \in Results \cup {None} :
              /\ Moves(p, pc, work[p].message, daily, brief)
              /\ IF work[p].message = "daily"
                 THEN /\ pc # "record_brief" /\ brief = work[p].brief
                      /\ daily = (IF pc = "connectors" THEN result ELSE work[p].daily)
                 ELSE pc = "record_brief" /\ daily = work[p].daily /\ brief = result
<1>1. Busy(p)
  BY DEF InDispatch, Busy
<1>2. work[p] \in Working
  BY <1>1, MyFit
<1>3. CASE work[p].message = "daily" /\ Goto(p, Returned(p, result))
  <2> DEFINE w == [work[p] EXCEPT !.daily = result, !.pc = "connectors"]
  <2>1. /\ w \in Working /\ w.pc = "connectors" /\ w.message = work[p].message
        /\ w.run = work[p].run /\ w.business = work[p].business
        /\ w.daily = result /\ w.brief = work[p].brief
    BY <1>2 DEF Working
  <2>2. Goto(p, w)
    BY <1>3 DEF Returned
  <2> HIDE DEF w
  <2>3. Moves(p, "connectors", work[p].message, result, work[p].brief)
    BY <2>1, <2>2, MovesIf DEF IInv
  <2>4. work[p].brief \in Results \cup {None}
    BY <1>2 DEF Working
  <2> QED
    BY <1>3, <2>3, <2>4
<1>4. CASE work[p].message = "daily" /\ Goto(p, Raised(p))
  <2>1. GotoPc(p, "failing")
    BY <1>4 DEF Raised, GotoPc
  <2>2. Moves(p, "failing", work[p].message, work[p].daily, work[p].brief)
    BY <1>1, <2>1, PcMoves DEF IInv, BusyStages
  <2>3. work[p].brief \in Results \cup {None} /\ work[p].daily \in Results \cup {None}
    BY <1>2 DEF Working
  <2> QED
    BY <1>4, <2>2, <2>3
<1>5. CASE work[p].message # "daily"
  <2> DEFINE w == [work[p] EXCEPT !.brief = result, !.pc = "record_brief"]
  <2>1. /\ w \in Working /\ w.pc = "record_brief" /\ w.message = work[p].message
        /\ w.run = work[p].run /\ w.business = work[p].business
        /\ w.daily = work[p].daily /\ w.brief = result
    BY <1>2 DEF Working
  <2>2. Goto(p, w)
    BY <1>5 DEF Answers, Returned, Raised
  <2> HIDE DEF w
  <2>3. Moves(p, "record_brief", work[p].message, work[p].daily, result)
    BY <2>1, <2>2, MovesIf DEF IInv
  <2>4. work[p].daily \in Results \cup {None}
    BY <1>2 DEF Working
  <2> QED
    BY <1>5, <2>3, <2>4
<1> QED
  BY <1>3, <1>4, <1>5 DEF Answers

\* After the dispatch the record fits as before, and the result is true if the
\* message was delivered, now or before.
LEMMA AnswersFit ==
    ASSUME IInv, NEW p \in Scripts, InDispatch(p), NEW result \in Results, Answers(p, result),
           DeliveriesStay, runs' = runs, abandoned' = abandoned,
           result \in DispatchOk => delivered'[MyKey(p)] > 0
    PROVE  /\ StepOf(p) /\ MyRunAfter(p) = MyRun(p)
           /\ work'[p].pc \notin {"ended", "next", "sending", "marking"}
           /\ work'[p].run = work[p].run /\ work'[p].business = work[p].business
           /\ \A q \in Scripts \ {p} : work'[q] = work[q]
           /\ Fits(work'[p], MyRunAfter(p)) /\ Told(p)'
<1>1. Busy(p)
  BY DEF InDispatch, Busy
<1>2. /\ work[p] \in Working /\ Fits(work[p], MyRun(p)) /\ MyKey(p) \in Keys
      /\ work[p].business \in Businesses /\ work[p].message \in Messages
  BY <1>1, MyFit
<1>3. PICK pc \in {"connectors", "failing", "record_brief"},
           daily \in Results \cup {None}, brief \in Results \cup {None} :
         /\ Moves(p, pc, work[p].message, daily, brief)
         /\ IF work[p].message = "daily"
            THEN /\ pc # "record_brief" /\ brief = work[p].brief
                 /\ daily = (IF pc = "connectors" THEN result ELSE work[p].daily)
            ELSE pc = "record_brief" /\ daily = work[p].daily /\ brief = result
  BY AnswersGo
<1>4. StepOf(p) /\ MyRunAfter(p) = MyRun(p)
  BY <1>1, <1>3, MoveFrame
<1>5. Stage(work'[p]) = pc
  BY <1>3 DEF Stage, Moves
<1>6. Stage(work[p]) = IF work[p].message = "daily" THEN "building" ELSE "briefing"
  BY DEF Stage, InDispatch
<1>7. Fits(work'[p], MyRun(p))
  <2>1. CASE work[p].message = "daily"
    <3>1. MyRun(p).connectors = Done(0) /\ Len(Done(0)) = 0 /\ 0 < Connectors
      <4>1. MyRun(p).connectors = <<>>
        BY <1>2, <1>6, <2>1 DEF Fits
      <4>2. 0 < Connectors
        BY ReportAssumption
      <4> QED
        BY <4>1, <4>2, NothingDone
    <3> QED
      BY <1>2, <1>3, <1>5, <1>6, <2>1, <3>1 DEF Fits, Early, Late, Moves
  <2>2. CASE work[p].message # "daily"
    <3>1. DailyOnly(work'[p]) = DailyOnly(work[p])
      BY <1>3, <2>2 DEF DailyOnly, Moves
    <3> QED
      BY <1>2, <1>3, <1>5, <1>6, <2>2, <3>1 DEF Fits, Early, Late, Moves
  <2> QED
    BY <2>1, <2>2
<1>8. Told(p)'
  <2>1. Told(p)
    BY <1>1 DEF IInv, ResultsAreTrue
  <2>2. /\ <<work[p].business, "daily">> \in Keys
        /\ <<work[p].business, "owner_case_brief">> \in Keys
    BY <1>2 DEF Keys, Messages
  <2>3. MyKey(p) = <<work[p].business, work[p].message>>
    BY DEF MyKey
  <2>4. /\ work[p].daily \in DispatchOk => delivered'[<<work[p].business, "daily">>] > 0
        /\ work[p].brief \in DispatchOk =>
              delivered'[<<work[p].business, "owner_case_brief">>] > 0
    BY <2>1, <2>2 DEF Told, DeliveriesStay
  <2> QED
    BY <1>2, <1>3, <2>3, <2>4 DEF Told, Moves, Messages
<1> QED
  BY <1>3, <1>4, <1>7, <1>8 DEF Moves

\* No other script is past the check of an undisturbed message.
LEMMA AnswersAreBooked ==
    ASSUME IInv, NEW p \in Scripts, InDispatch(p),
           work'[p].pc \notin {"sending", "marking"},
           \A q \in Scripts \ {p} : work'[q] = work[q],
           DeliveriesStay, disturbed \subseteq disturbed',
           \A k \in Keys \ {MyKey(p)} :
              delivered'[k] = delivered[k] /\ (k \in marked' <=> k \in marked),
           \/ MyKey(p) \in disturbed'
           \/ /\ work[p].pc = "sending" /\ UNCHANGED <<marked, delivered>>
           \/ /\ work[p].pc = "marking" /\ UNCHANGED delivered /\ MyKey(p) \in marked'
    PROVE  MessagesAreBooked'
<1>1. PICK k0 \in Keys : k0 = MyKey(p)
  BY MyFit DEF InDispatch, Busy
<1>2. k0 \notin disturbed' /\ Booked(k0) => Booked(k0)'
  <2> SUFFICES ASSUME k0 \notin disturbed', Booked(k0)
               PROVE  Booked(k0)'
    OBVIOUS
  <2>1. Past(p, k0)
    BY <1>1 DEF Past
  <2>2. \A q \in Scripts : ~Past(q, k0)'
    BY <2>1 DEF Past, Booked, MyKey
  <2>3. k0 \notin marked /\ delivered[k0] = IF work[p].pc = "marking" THEN 1 ELSE 0
    BY <2>1 DEF Booked
  <2>4. delivered'[k0] = IF k0 \in marked' THEN 1 ELSE 0
    BY <1>1, <2>3
  <2> QED
    BY <2>2, <2>4 DEF Booked
<1> QED
  BY <1>1, <1>2, BookedStep DEF IInv

LEMMA AnswerStep ==
    ASSUME IInv, NEW p \in Scripts, InDispatch(p), NEW result \in Results, Answers(p, result),
           DeliveriesStay, runs' = runs, abandoned' = abandoned,
           result \in DispatchOk => delivered'[MyKey(p)] > 0,
           MarksAreTrue', BriefFollowsReport', MessagesAreBooked'
    PROVE  IInv'
<1>1. Busy(p)
  BY DEF InDispatch, Busy
<1>2. /\ StepOf(p) /\ work'[p].pc \notin {"ended", "next"}
      /\ work'[p].run = work[p].run /\ work'[p].business = work[p].business
      /\ Fits(work'[p], MyRunAfter(p)) /\ Told(p)'
  BY AnswersFit
<1> QED
  BY <1>1, <1>2, ProceedStep

\* On to the next statement of the dispatch: past the check, or past the send.
LEMMA GoOnStep ==
    ASSUME IInv, NEW p \in Scripts, InDispatch(p), NEW pc \in {"sending", "marking"},
           GotoPc(p, pc), DeliveriesStay, runs' = runs, abandoned' = abandoned,
           pc = "marking" => delivered'[MyKey(p)] > 0,
           MarksAreTrue', BriefFollowsReport', MessagesAreBooked'
    PROVE  IInv'
<1>1. Busy(p)
  BY DEF InDispatch, Busy
<1>2. Moves(p, pc, work[p].message, work[p].daily, work[p].brief)
  BY <1>1, PcMoves DEF IInv, BusyStages
<1>3. /\ Fits(work[p], MyRun(p)) /\ work[p].business \in Businesses
  BY <1>1, MyFit
<1>4. StepOf(p) /\ MyRunAfter(p) = MyRun(p)
  BY <1>1, <1>2, MoveFrame
<1>5. Fits(work'[p], MyRun(p))
  <2>1. Stage(work'[p]) = Stage(work[p]) /\ Stage(work[p]) \in {"building", "briefing"}
    BY <1>2 DEF Stage, InDispatch, Moves
  <2>2. DailyOnly(work'[p]) = DailyOnly(work[p])
    BY <1>2 DEF DailyOnly, Moves
  <2> QED
    BY <1>2, <1>3, <2>1, <2>2 DEF Fits, Early, Late, Moves
<1>6. Told(p)'
  <2>1. Told(p)
    BY <1>1 DEF IInv, ResultsAreTrue
  <2>2. /\ <<work[p].business, "daily">> \in Keys
        /\ <<work[p].business, "owner_case_brief">> \in Keys
    BY <1>3 DEF Keys, Messages
  <2> QED
    BY <1>2, <2>1, <2>2 DEF Told, DeliveriesStay, Moves, MyKey
<1>7. work'[p].pc \notin {"ended", "next"}
  BY <1>2 DEF Moves
<1> QED
  BY <1>1, <1>2, <1>4, <1>5, <1>6, <1>7, ProceedStep DEF Moves

LEMMA CheckKeyStep ==
    ASSUME IInv, NEW p \in Scripts, CheckKey(p)
    PROVE  IInv'
<1>1. /\ InDispatch(p) /\ work[p].pc = "checking" /\ MyKey(p) \in Keys
      /\ UNCHANGED <<runs, marked, delivered, abandoned>>
  BY MyFit DEF CheckKey, InDispatch, Busy
<1>2. CASE Duplicate(p)
  <2>1. Answers(p, "skipped_duplicate") /\ UNCHANGED disturbed
    BY <1>2 DEF CheckKey, Answers
  <2>2. delivered'[MyKey(p)] > 0
    BY <1>1, <1>2 DEF Duplicate, IInv, MarksAreTrue
  <2>3. DeliveriesStay /\ MarksAreTrue' /\ BriefFollowsReport'
    BY <1>1, <2>1, NothingDelivered
  <2>4. /\ work'[p].pc \notin {"sending", "marking"}
        /\ \A q \in Scripts \ {p} : work'[q] = work[q]
    BY <1>1, <2>1, <2>2, <2>3, AnswersFit DEF Results
  <2>5. MessagesAreBooked'
    BY <1>1, <2>1, <2>4, UnbookedStep DEF IInv
  <2> QED
    BY <1>1, <2>1, <2>2, <2>3, <2>5, AnswerStep DEF Results
<1>3. CASE ~Duplicate(p)
  <2>1. /\ GotoPc(p, "sending")
        /\ disturbed' = IF Overlapping(p) THEN disturbed \cup {MyKey(p)} ELSE disturbed
    BY <1>3 DEF CheckKey, GotoPc
  <2>2. DeliveriesStay /\ MarksAreTrue' /\ BriefFollowsReport'
    BY <1>1, <2>1 DEF IInv, TypeOK, DeliveriesStay, MarksAreTrue, BriefFollowsReport
  <2>3. Moves(p, "sending", work[p].message, work[p].daily, work[p].brief)
    BY <1>1, <2>1, PcMoves DEF IInv, BusyStages, InDispatch, Busy
  <2>4. MessagesAreBooked'
    <3>1. PICK k0 \in Keys : k0 = MyKey(p)
      BY <1>1
    <3>2. MyKey(p)' = k0
      BY <2>3, <3>1 DEF MyKey, Moves
    <3>3. k0 \notin disturbed' /\ Booked(k0) => Booked(k0)'
      <4> SUFFICES ASSUME k0 \notin disturbed', Booked(k0)
                   PROVE  Booked(k0)'
        OBVIOUS
      <4>1. \A q \in Scripts : ~Past(q, k0)
        BY <1>1, <2>1, <3>1 DEF Past, Overlapping
      <4>2. \A q \in Scripts \ {p} : ~Past(q, k0)'
        BY <2>3, <4>1 DEF Past, Moves, MyKey
      <4>3. k0 \notin marked' /\ delivered'[k0] = 0
        BY <1>1, <1>3, <3>1, <4>1 DEF Booked, Duplicate
      <4>4. Past(p, k0)' /\ work'[p].pc = "sending"
        BY <2>3, <3>2 DEF Past, Moves
      <4> QED
        BY <4>2, <4>3, <4>4 DEF Booked
    <3> QED
      BY <1>1, <2>1, <2>3, <3>1, <3>2, <3>3, BookedStep DEF IInv, Moves
  <2> QED
    BY <1>1, <2>1, <2>2, <2>4, GoOnStep
<1> QED
  BY <1>2, <1>3

\* WhatsApp takes one more message; a brief comes after its report.
LEMMA DeliverFrame ==
    ASSUME IInv, NEW p \in Scripts, work[p].pc = "sending", Deliver(p), marked' = marked,
           disturbed' \subseteq Keys
    PROVE  /\ DeliveriesStay /\ MarksAreTrue' /\ BriefFollowsReport'
           /\ delivered'[MyKey(p)] = delivered[MyKey(p)] + 1
           /\ delivered[MyKey(p)] \in Nat
           /\ \A k \in Keys \ {MyKey(p)} : delivered'[k] = delivered[k]
<1>1. Busy(p) /\ Stage(work[p]) = IF work[p].message = "daily" THEN "building" ELSE "briefing"
  BY DEF Busy, Stage
<1>2. /\ Fits(work[p], MyRun(p)) /\ MyKey(p) \in Keys
      /\ work[p].business \in Businesses /\ work[p].message \in Messages
  BY <1>1, MyFit
<1>3. delivered \in [Keys -> Nat] /\ marked \subseteq Keys
  BY DEF IInv, TypeOK
<1>4. /\ delivered' \in [Keys -> Nat]
      /\ delivered'[MyKey(p)] = delivered[MyKey(p)] + 1 /\ delivered[MyKey(p)] \in Nat
      /\ \A k \in Keys \ {MyKey(p)} : delivered'[k] = delivered[k]
  BY <1>2, <1>3 DEF Deliver
<1>5. \A k \in Keys : delivered[k] > 0 => delivered'[k] > 0
  BY <1>3, <1>4
<1>6. DeliveriesStay
  BY <1>3, <1>4, <1>5 DEF DeliveriesStay
<1>7. MarksAreTrue'
  BY <1>3, <1>5 DEF IInv, MarksAreTrue
<1>8. BriefFollowsReport'
  <2> SUFFICES ASSUME NEW b \in Businesses, delivered'[<<b, "owner_case_brief">>] > 0
               PROVE  delivered'[<<b, "daily">>] > 0
    BY DEF BriefFollowsReport
  <2>1. <<b, "daily">> \in Keys /\ <<b, "owner_case_brief">> \in Keys
    BY DEF Keys, Messages
  <2>2. CASE MyKey(p) = <<b, "owner_case_brief">>
    <3>1. work[p].business = b /\ work[p].message = "owner_case_brief"
      BY <2>2 DEF MyKey
    <3>2. work[p].daily \in DispatchOk
      BY <1>1, <1>2, <3>1 DEF Fits, Late
    <3>3. delivered[<<b, "daily">>] > 0
      BY <1>1, <3>1, <3>2 DEF IInv, ResultsAreTrue, Told
    <3> QED
      BY <1>5, <2>1, <3>3
  <2>3. CASE MyKey(p) # <<b, "owner_case_brief">>
    <3>1. delivered[<<b, "owner_case_brief">>] > 0
      BY <1>4, <2>1, <2>3
    <3> QED
      BY <1>5, <2>1, <3>1 DEF IInv, BriefFollowsReport
  <2> QED
    BY <2>2, <2>3
<1> QED
  BY <1>4, <1>6, <1>7, <1>8

LEMMA SendAcceptedStep ==
    ASSUME IInv, NEW p \in Scripts, SendAccepted(p)
    PROVE  IInv'
<1>1. /\ InDispatch(p) /\ Busy(p) /\ work[p].pc = "sending" /\ Deliver(p)
      /\ GotoPc(p, "marking") /\ UNCHANGED <<runs, marked, abandoned, disturbed>>
  BY DEF SendAccepted, InDispatch, Busy, GotoPc
<1>2. MyKey(p) \in Keys /\ disturbed' \subseteq Keys
  BY <1>1, MyFit DEF IInv, TypeOK
<1>3. /\ DeliveriesStay /\ MarksAreTrue' /\ BriefFollowsReport'
      /\ delivered'[MyKey(p)] = delivered[MyKey(p)] + 1
      /\ delivered[MyKey(p)] \in Nat
      /\ \A k \in Keys \ {MyKey(p)} : delivered'[k] = delivered[k]
  BY <1>1, <1>2, DeliverFrame
<1>4. Moves(p, "marking", work[p].message, work[p].daily, work[p].brief)
  BY <1>1, PcMoves DEF IInv, BusyStages
<1>5. MessagesAreBooked'
  <2>1. PICK k0 \in Keys : k0 = MyKey(p)
    BY <1>2
  <2>2. MyKey(p)' = k0
    BY <1>4, <2>1 DEF MyKey, Moves
  <2>3. k0 \notin disturbed' /\ Booked(k0) => Booked(k0)'
    <3> SUFFICES ASSUME Booked(k0)
                 PROVE  Booked(k0)'
      OBVIOUS
    <3>1. Past(p, k0)
      BY <1>1, <2>1 DEF Past
    <3>2. \A q \in Scripts \ {p} : ~Past(q, k0)'
      BY <1>4, <3>1 DEF Past, Booked, Moves, MyKey
    <3>3. k0 \notin marked' /\ delivered[k0] = 0
      BY <1>1, <3>1 DEF Booked
    <3>4. delivered'[k0] = 1
      BY <1>3, <2>1, <3>3
    <3>5. Past(p, k0)' /\ work'[p].pc = "marking"
      BY <1>4, <2>2 DEF Past, Moves
    <3> QED
      BY <3>2, <3>3, <3>4, <3>5 DEF Booked
  <2> QED
    BY <1>1, <1>3, <1>4, <2>1, <2>2, <2>3, BookedStep DEF IInv, Moves
<1>6. delivered'[MyKey(p)] > 0
  BY <1>3
<1> QED
  BY <1>1, <1>3, <1>5, <1>6, GoOnStep

LEMMA SendRejectedStep ==
    ASSUME IInv, NEW p \in Scripts, SendRejected(p)
    PROVE  IInv'
<1>1. /\ InDispatch(p) /\ work[p].pc = "sending" /\ Answers(p, "failed")
      /\ UNCHANGED <<runs, marked, delivered, abandoned, disturbed>>
  BY DEF SendRejected, InDispatch, Answers
<1>2. DeliveriesStay /\ MarksAreTrue' /\ BriefFollowsReport'
  BY <1>1, NothingDelivered
<1>3. "failed" \in Results /\ "failed" \notin DispatchOk
  BY DEF Results, DispatchOk
<1>4. /\ work'[p].pc \notin {"sending", "marking"}
      /\ \A q \in Scripts \ {p} : work'[q] = work[q]
  BY <1>1, <1>2, <1>3, AnswersFit
<1>5. MessagesAreBooked'
  BY <1>1, <1>2, <1>4, AnswersAreBooked
<1> QED
  BY <1>1, <1>2, <1>3, <1>5, AnswerStep

LEMMA SendAnswerLostStep ==
    ASSUME IInv, NEW p \in Scripts, SendAnswerLost(p)
    PROVE  IInv'
<1>1. /\ InDispatch(p) /\ Busy(p) /\ work[p].pc = "sending" /\ Answers(p, "failed")
      /\ Deliver(p) /\ UNCHANGED <<runs, marked, abandoned>>
      /\ disturbed' = disturbed \cup {MyKey(p)}
  BY DEF SendAnswerLost, InDispatch, Answers, Busy
<1>2. MyKey(p) \in Keys /\ disturbed' \subseteq Keys
  BY <1>1, MyFit DEF IInv, TypeOK
<1>3. /\ DeliveriesStay /\ MarksAreTrue' /\ BriefFollowsReport'
      /\ \A k \in Keys \ {MyKey(p)} : delivered'[k] = delivered[k]
  BY <1>1, <1>2, DeliverFrame
<1>4. "failed" \in Results /\ "failed" \notin DispatchOk
  BY DEF Results, DispatchOk
<1>5. /\ work'[p].pc \notin {"sending", "marking"}
      /\ \A q \in Scripts \ {p} : work'[q] = work[q]
  BY <1>1, <1>3, <1>4, AnswersFit
<1>6. MessagesAreBooked'
  BY <1>1, <1>3, <1>5, AnswersAreBooked
<1> QED
  BY <1>1, <1>3, <1>4, <1>6, AnswerStep

LEMMA MarkKeyStep ==
    ASSUME IInv, NEW p \in Scripts, MarkKey(p)
    PROVE  IInv'
<1>1. /\ InDispatch(p) /\ Busy(p) /\ work[p].pc = "marking" /\ Answers(p, "sent")
      /\ UNCHANGED <<runs, delivered, abandoned, disturbed>>
      /\ marked' = marked \cup {MyKey(p)}
  BY DEF MarkKey, InDispatch, Answers, Busy
<1>2. MyKey(p) \in Keys /\ delivered[MyKey(p)] > 0
  BY <1>1, MyFit DEF IInv, ResultsAreTrue, Told
<1>3. DeliveriesStay /\ MarksAreTrue' /\ BriefFollowsReport'
  BY <1>1, <1>2 DEF IInv, TypeOK, DeliveriesStay, MarksAreTrue, BriefFollowsReport
<1>4. "sent" \in Results /\ delivered'[MyKey(p)] > 0
  BY <1>1, <1>2 DEF Results
<1>5. /\ work'[p].pc \notin {"sending", "marking"}
      /\ \A q \in Scripts \ {p} : work'[q] = work[q]
  BY <1>1, <1>3, <1>4, AnswersFit
<1>6. MessagesAreBooked'
  BY <1>1, <1>3, <1>5, AnswersAreBooked
<1> QED
  BY <1>1, <1>3, <1>4, <1>6, AnswerStep

LEMMA StoreRaisesStep ==
    ASSUME IInv, NEW p \in Scripts, StoreRaises(p)
    PROVE  IInv'
<1>1. /\ InDispatch(p) /\ Busy(p) /\ work[p].pc \in {"checking", "marking"}
      /\ Answers(p, "failed") /\ UNCHANGED <<runs, marked, delivered, abandoned>>
      /\ disturbed' = IF work[p].pc = "marking" THEN disturbed \cup {MyKey(p)} ELSE disturbed
  BY DEF StoreRaises, InDispatch, Answers, Busy
<1>2. MyKey(p) \in Keys
  BY <1>1, MyFit
<1>3. DeliveriesStay /\ MarksAreTrue' /\ BriefFollowsReport'
  BY <1>1, <1>2 DEF IInv, TypeOK, DeliveriesStay, MarksAreTrue, BriefFollowsReport
<1>4. "failed" \in Results /\ "failed" \notin DispatchOk
  BY DEF Results, DispatchOk
<1>5. /\ work'[p].pc \notin {"sending", "marking"}
      /\ \A q \in Scripts \ {p} : work'[q] = work[q]
  BY <1>1, <1>3, <1>4, AnswersFit
<1>6. MessagesAreBooked'
  <2>1. CASE work[p].pc = "checking"
    BY <1>1, <1>5, <2>1, UnbookedStep DEF IInv
  <2>2. CASE work[p].pc = "marking"
    BY <1>1, <1>3, <1>5, <2>2, AnswersAreBooked
  <2> QED
    BY <1>1, <2>1, <2>2
<1> QED
  BY <1>1, <1>3, <1>4, <1>6, AnswerStep

-----------------------------------------------------------------------------
(***************************************************************************)
(* Between runs.                                                           *)
(***************************************************************************)
LEMMA IdleStep ==
    ASSUME IInv, NEW p \in Scripts, ~Busy(p), NEW w \in {Ended} \cup Working, Goto(p, w),
           w.pc \in {"ended", "next"},
           UNCHANGED <<runs, marked, delivered, abandoned, disturbed>>
    PROVE  IInv'
<1>1. /\ work' \in [Scripts -> {Ended} \cup Working] /\ work'[p] = w
      /\ \A q \in Scripts \ {p} : work'[q] = work[q]
  BY GoesTo DEF IInv
<1>2. ~Busy(p)'
  BY <1>1 DEF Busy
<1>3. \A q \in Scripts : Busy(q)' => Busy(q) /\ work'[q] = work[q]
  BY <1>1, <1>2 DEF Busy
<1>4. TypeOK' /\ RunsAreOwned' /\ RunsFit'
  BY <1>1, <1>3 DEF IInv, TypeOK, RunsAreOwned, RunsFit, Busy, MyRun
<1>5. ResultsAreTrue'
  BY <1>3 DEF IInv, ResultsAreTrue, Told, MyKey
<1>6. MessagesAreBooked'
  BY <1>1, <1>2, UnbookedStep DEF IInv, Busy
<1> QED
  BY <1>4, <1>5, <1>6 DEF IInv, MarksAreTrue, LedgerIsTruthful, BriefFollowsReport,
                          EndedRunsAreComplete

LEMMA StartStep ==
    ASSUME IInv, NEW p \in Scripts, Start(p)
    PROVE  IInv'
<1>1. PICK due \in SUBSET Businesses :
         Goto(p, [pc |-> "next", due |-> due, business |-> None, run |-> None,
                  message |-> "daily", daily |-> None, brief |-> None])
  BY DEF Start
<1> DEFINE w == [pc |-> "next", due |-> due, business |-> None, run |-> None,
                 message |-> "daily", daily |-> None, brief |-> None]
<1>2. w \in Working /\ w.pc = "next" /\ Goto(p, w)
  BY <1>1 DEF Working, Messages
<1>3. ~Busy(p) /\ UNCHANGED <<runs, marked, delivered, abandoned, disturbed>>
  BY DEF Start, Busy, Ended
<1> HIDE DEF w
<1> QED
  BY <1>2, <1>3, IdleStep

LEMMA NextWork ==
    ASSUME IInv, NEW p \in Scripts, work[p].pc = "next"
    PROVE  work[p] \in Working /\ ~Busy(p)
BY DEF IInv, TypeOK, Ended, Busy

LEMMA SkipBusinessStep ==
    ASSUME IInv, NEW p \in Scripts, SkipBusiness(p)
    PROVE  IInv'
<1>1. PICK b \in work[p].due : Goto(p, [work[p] EXCEPT !.due = @ \ {b}])
  BY DEF SkipBusiness
<1> DEFINE w == [work[p] EXCEPT !.due = @ \ {b}]
<1>2. work[p] \in Working /\ ~Busy(p) /\ work[p].pc = "next"
  BY NextWork DEF SkipBusiness
<1>3. w \in Working /\ w.pc = "next" /\ Goto(p, w)
  BY <1>1, <1>2 DEF Working
<1>4. UNCHANGED <<runs, marked, delivered, abandoned, disturbed>>
  BY DEF SkipBusiness
<1> HIDE DEF w
<1> QED
  BY <1>2, <1>3, <1>4, IdleStep

LEMMA FinishedStep ==
    ASSUME IInv, NEW p \in Scripts, Finished(p)
    PROVE  IInv'
BY NextWork, IdleStep DEF Finished, Ended

LEMMA BeginRunStep ==
    ASSUME IInv, NEW p \in Scripts, BeginRun(p)
    PROVE  IInv'
<1>1. PICK b \in work[p].due \ Unconnected, r \in Runs \ DOMAIN runs :
         /\ runs' = [s \in DOMAIN runs \cup {r} |-> IF s = r THEN NewRun(b) ELSE runs[s]]
         /\ Goto(p, [work[p] EXCEPT !.pc = "building", !.due = @ \ {b}, !.business = b,
                        !.run = r, !.message = "daily", !.daily = None, !.brief = None])
  BY DEF BeginRun
<1> DEFINE w == [work[p] EXCEPT !.pc = "building", !.due = @ \ {b}, !.business = b,
                   !.run = r, !.message = "daily", !.daily = None, !.brief = None]
<1>2. work[p] \in Working /\ ~Busy(p)
  BY NextWork DEF BeginRun
<1>3. b \in Businesses
  BY <1>2 DEF Working
<1>4. /\ w \in Working /\ w.pc = "building" /\ w.business = b /\ w.run = r
      /\ w.message = "daily" /\ w.daily = None /\ w.brief = None
  BY <1>2, <1>3 DEF Working, Messages
<1>5. Goto(p, w)
  BY <1>1
<1> HIDE DEF w
<1>6. UNCHANGED <<marked, delivered, abandoned, disturbed>>
  BY DEF BeginRun
<1>7. /\ work' \in [Scripts -> {Ended} \cup Working] /\ work'[p] = w
      /\ \A q \in Scripts \ {p} : work'[q] = work[q]
  BY <1>4, <1>5, GoesTo DEF IInv
<1>8. NewRun(b) \in Record /\ Fits(w, NewRun(b))
  <2>1. Stage(w) = "building"
    BY <1>4 DEF Stage
  <2>2. <<>> \in Seq({"succeeded", "failed"}) /\ <<>> \in Seq(Messages \X Results)
    OBVIOUS
  <2> QED
    BY <1>3, <1>4, <2>1, <2>2 DEF Fits, Early, Late, NewRun, Record, RunStatuses
<1>9. /\ DOMAIN runs' = DOMAIN runs \cup {r} /\ r \notin DOMAIN runs /\ r \in Runs
      /\ runs'[r] = NewRun(b) /\ \A s \in DOMAIN runs : runs'[s] = runs[s]
  BY <1>1
<1>10. \A q \in Scripts : Busy(q) => q # p /\ work[q].run \in DOMAIN runs
  BY <1>2, BusyWork DEF IInv
<1>11. \A q \in Scripts \ {p} :
          (Busy(q)' <=> Busy(q)) /\ (Busy(q) => runs'[work[q].run] = runs[work[q].run])
  BY <1>7, <1>9, <1>10 DEF Busy
<1>12. TypeOK'
  <2>1. runs' \in [DOMAIN runs' -> Record]
    BY <1>1, <1>8 DEF IInv, TypeOK
  <2>2. ASSUME NEW q \in Scripts, work'[q].pc \notin {"ended", "next"}
        PROVE  work'[q].run \in DOMAIN runs' /\ runs'[work'[q].run].status = "running"
    <3>1. CASE q = p
      BY <1>4, <1>7, <1>9, <3>1 DEF NewRun
    <3>2. CASE q # p
      BY <1>7, <1>9, <1>10, <1>11, <2>2, <3>2 DEF IInv, TypeOK, Busy, MyRun
    <3> QED
      BY <3>1, <3>2
  <2> QED
    BY <1>6, <1>7, <1>9, <2>1, <2>2 DEF IInv, TypeOK, MyRun
<1>13. RunsAreOwned'
  <2> SUFFICES ASSUME NEW q \in Scripts, NEW o \in Scripts, Busy(q)', Busy(o)',
                      work'[q].run = work'[o].run
               PROVE  q = o
    BY DEF RunsAreOwned
  <2> QED
    BY <1>4, <1>7, <1>9, <1>10, <1>11 DEF IInv, RunsAreOwned
<1>14. RunsFit'
  <2> SUFFICES ASSUME NEW q \in Scripts, Busy(q)'
               PROVE  Fits(work'[q], runs'[work'[q].run])
    BY DEF RunsFit, MyRun
  <2> QED
    BY <1>4, <1>7, <1>8, <1>9, <1>11 DEF IInv, RunsFit, MyRun
<1>15. ResultsAreTrue'
  <2> SUFFICES ASSUME NEW q \in Scripts, Busy(q)'
               PROVE  Told(q)'
    BY DEF ResultsAreTrue
  <2>1. CASE q = p
    BY <1>4, <1>7, <2>1 DEF Told, None, DispatchOk
  <2>2. CASE q # p
    BY <1>6, <1>7, <1>11, <2>2 DEF IInv, ResultsAreTrue, Told, MyKey
  <2> QED
    BY <2>1, <2>2
<1>16. LedgerIsTruthful'
  BY <1>6, <1>9 DEF IInv, LedgerIsTruthful, NewRun
<1>17. EndedRunsAreComplete'
  <2> SUFFICES ASSUME NEW s \in DOMAIN runs', runs'[s].status \in {"succeeded", "partial"}
               PROVE  Complete(runs'[s])
    BY DEF EndedRunsAreComplete, Complete
  <2>1. s \in DOMAIN runs /\ runs'[s] = runs[s]
    BY <1>9 DEF NewRun
  <2>2. runs[s].status \in {"succeeded", "partial"} => Complete(runs[s])
    BY <2>1 DEF IInv, EndedRunsAreComplete, Complete
  <2> QED
    BY <2>1, <2>2
<1>18. MessagesAreBooked'
  BY <1>2, <1>4, <1>6, <1>7, UnbookedStep DEF IInv, Busy
<1> QED
  BY <1>6, <1>12, <1>13, <1>14, <1>15, <1>16, <1>17, <1>18
     DEF IInv, MarksAreTrue, BriefFollowsReport

-----------------------------------------------------------------------------
(***************************************************************************)
(* The theorems.                                                           *)
(***************************************************************************)
LEMMA InitHolds == Init => IInv
<1> SUFFICES ASSUME Init PROVE IInv
  OBVIOUS
<1>1. \A p \in Scripts : ~Busy(p)
  BY DEF Init, Ended, Busy
<1>2. TypeOK
  BY DEF Init, TypeOK, Ended
<1>3. MessagesAreBooked
  BY DEF Init, MessagesAreBooked, Booked, Past, Ended
<1> QED
  BY <1>1, <1>2, <1>3 DEF Init, IInv, RunsAreOwned, RunsFit, ResultsAreTrue, MarksAreTrue,
     LedgerIsTruthful, BriefFollowsReport, EndedRunsAreComplete, Keys, Messages

LEMMA StepHolds == IInv /\ [Next]_vars => IInv'
<1> SUFFICES ASSUME IInv, [Next]_vars PROVE IInv'
  OBVIOUS
<1>1. ASSUME NEW p \in Scripts, Start(p) PROVE IInv'
  BY <1>1, StartStep
<1>2. ASSUME NEW p \in Scripts, Die(p) PROVE IInv'
  BY <1>2, DieStep
<1>3. ASSUME NEW p \in Scripts, Progress(p) PROVE IInv'
  BY <1>3, SkipBusinessStep, BeginRunStep, FinishedStep, BuildStep, CheckKeyStep,
     SendAcceptedStep, SendRejectedStep, SendAnswerLostStep, MarkKeyStep, StoreRaisesStep,
     RecordConnectorStep, RecordArtifactStep, RecordDispatchStep, BriefStep, RecordBriefStep,
     FinishRunStep, RecordFailedConnectorStep, FailRunStep
     DEF Progress
<1>4. CASE UNCHANGED vars
  <2>1. \A p \in Scripts : Busy(p)' <=> Busy(p)
    BY <1>4 DEF vars, Busy
  <2>2. /\ TypeOK' /\ RunsAreOwned' /\ RunsFit' /\ ResultsAreTrue' /\ MarksAreTrue'
    BY <1>4, <2>1 DEF vars, IInv, TypeOK, RunsAreOwned, RunsFit, ResultsAreTrue, MarksAreTrue,
       MyRun, MyKey, Told
  <2>3. MessagesAreBooked'
    BY <1>4 DEF vars, IInv, MessagesAreBooked, Booked, Past, MyKey
  <2> QED
    BY <1>4, <2>2, <2>3 DEF vars, IInv, LedgerIsTruthful, BriefFollowsReport,
       EndedRunsAreComplete
<1> QED
  BY <1>1, <1>2, <1>3, <1>4 DEF Next

LEMMA AlwaysIInv == Spec => []IInv
BY InitHolds, StepHolds, PTL DEF Spec

\* Every variable keeps its type; a script at work has its own running run
\* (scripts/run_orvo_brain_reports.py, app/brain/runner.py).
THEOREM TypeCorrect == Spec => []TypeOK
<1>1. IInv => TypeOK
  BY DEF IInv
<1> QED
  BY <1>1, AlwaysIInv, PTL

\* A run that reads succeeded, and a dispatch that reads sent or duplicate, is of
\* a message WhatsApp accepted, with any number of scripts, their deaths and lost
\* answers (app/brain/runner.py record_pipeline_success, dispatch.py).
THEOREM LedgerTellsTheTruth == Spec => []LedgerIsTruthful
<1>1. IInv => LedgerIsTruthful
  BY DEF IInv
<1> QED
  BY <1>1, AlwaysIInv, PTL

\* No owner gets the brief of a day without its report, whichever of several
\* scripts sent the one and the other (runner.py dispatch_owner_case_brief).
THEOREM BriefsFollowReports == Spec => []BriefFollowsReport
<1>1. IInv => BriefFollowsReport
  BY DEF IInv
<1> QED
  BY <1>1, AlwaysIInv, PTL

\* A message goes out twice only after two scripts were between check and mark of
\* its key at once, or a send was not followed by its mark (dispatch.py
\* _send_text_once): the check-then-mark of the idempotency store is enough for
\* scripts that run one after the other.
THEOREM RepeatsNeedDisturbance == Spec => []RepeatNeedsDisturbance
<1>1. IInv => RepeatNeedsDisturbance
  <2> SUFFICES ASSUME IInv, NEW k \in Keys, k \notin disturbed
               PROVE  ~(delivered[k] > 1)
    BY DEF RepeatNeedsDisturbance
  <2>1. Booked(k)
    BY DEF IInv, MessagesAreBooked
  <2>2. delivered[k] = 0 \/ delivered[k] = 1
    BY <2>1 DEF Booked
  <2> QED
    BY <2>2
<1> QED
  BY <1>1, AlwaysIInv, PTL

\* A run that succeeded or is partial has every connector outcome, its artifact,
\* the dispatch of its report, and the status its dispatches call for
\* (runner.py record_pipeline_success).
THEOREM FinishedRunsAreComplete == Spec => []EndedRunsAreComplete
<1>1. IInv => EndedRunsAreComplete
  BY DEF IInv
<1> QED
  BY <1>1, AlwaysIInv, PTL

-----------------------------------------------------------------------------
(***************************************************************************)
(* The ledger of the report scripts implements RunLog.                     *)
(***************************************************************************)
Kinds == {"connector", "artifact", "dispatch"}

\* One outcome for each member of a list.
AllOf(kind, s) == [i \in DOMAIN s |-> kind]

LEMMA AllOfSeq ==
    ASSUME NEW S, NEW s \in Seq(S), NEW kind \in Kinds
    PROVE  AllOf(kind, s) \in Seq(Kinds) /\ Len(AllOf(kind, s)) = Len(s)
<1>1. DOMAIN s = 1..Len(s) /\ Len(s) \in Nat
  OBVIOUS
<1>2. AllOf(kind, s) = [i \in 1..Len(s) |-> kind]
  BY <1>1 DEF AllOf
<1>3. [i \in 1..Len(s) |-> kind] \in Seq(Kinds) /\ Len([i \in 1..Len(s) |-> kind]) = Len(s)
  BY <1>1, IsASeq
<1> QED
  BY <1>2, <1>3

LEMMA AllOfAppend ==
    ASSUME NEW S, NEW s \in Seq(S), NEW x \in S, NEW kind \in Kinds
    PROVE  AllOf(kind, Append(s, x)) = Append(AllOf(kind, s), kind)
<1> DEFINE after == AllOf(kind, Append(s, x))
           before == AllOf(kind, s)
<1>1. Append(s, x) \in Seq(S) /\ Len(Append(s, x)) = Len(s) + 1 /\ Len(s) \in Nat
  OBVIOUS
<1>2. /\ after \in Seq(Kinds) /\ Len(after) = Len(s) + 1
      /\ before \in Seq(Kinds) /\ Len(before) = Len(s)
  BY <1>1, AllOfSeq
<1>3. /\ \A i \in 1..(Len(s) + 1) : after[i] = kind
      /\ \A i \in 1..Len(s) : before[i] = kind
  BY <1>1 DEF AllOf
<1> HIDE DEF after, before
<1>4. /\ Append(before, kind) \in Seq(Kinds) /\ Len(Append(before, kind)) = Len(s) + 1
      /\ \A i \in 1..(Len(s) + 1) : Append(before, kind)[i] = kind
  BY <1>1, <1>2, <1>3
<1>5. after = Append(before, kind)
  <2>1. \A i \in 1..Len(after) : after[i] = Append(before, kind)[i]
    BY <1>2, <1>3, <1>4
  <2> QED
    BY <1>2, <1>4, <2>1, SeqEqual
<1> QED
  BY <1>5 DEF after, before

LEMMA AllOfNone ==
    ASSUME NEW kind
    PROVE  AllOf(kind, <<>>) = <<>>
BY DEF AllOf

ArtifactOf(rec) == IF rec.artifact THEN <<"artifact">> ELSE <<>>

LEMMA OutcomesAre ==
    ASSUME NEW rec \in Record
    PROVE  /\ Outcomes(rec) = (AllOf("connector", rec.connectors) \o ArtifactOf(rec))
                               \o AllOf("dispatch", rec.dispatches)
           /\ AllOf("connector", rec.connectors) \in Seq(Kinds)
           /\ ArtifactOf(rec) \in Seq(Kinds)
           /\ AllOf("dispatch", rec.dispatches) \in Seq(Kinds)
<1>1. Outcomes(rec) = (AllOf("connector", rec.connectors) \o ArtifactOf(rec))
                         \o AllOf("dispatch", rec.dispatches)
  BY Zenon DEF Outcomes, AllOf, ArtifactOf
<1>2. rec.connectors \in Seq({"succeeded", "failed"}) /\ rec.dispatches \in Seq(Messages \X Results)
  BY DEF Record
<1>3. "connector" \in Kinds /\ "dispatch" \in Kinds
  BY DEF Kinds
<1>4. ArtifactOf(rec) \in Seq(Kinds)
  <2>1. <<>> \in Seq(Kinds) /\ <<"artifact">> \in Seq(Kinds)
    BY DEF Kinds
  <2> QED
    BY <2>1 DEF ArtifactOf
<1> QED
  BY <1>1, <1>2, <1>3, <1>4, AllOfSeq

\* What a record gains: one more outcome at the end, of the next kind.
Gains(before, after, kind) == Outcomes(after) = Append(Outcomes(before), kind)

LEMMA ConnectorGained ==
    ASSUME NEW before \in Record, NEW after \in Record, NEW x \in {"succeeded", "failed"},
           after.connectors = Append(before.connectors, x),
           ~before.artifact, ~after.artifact,
           before.dispatches = <<>>, after.dispatches = <<>>
    PROVE  Gains(before, after, "connector")
<1> DEFINE c == AllOf("connector", before.connectors)
           n == AllOf("connector", after.connectors)
<1>1. before.connectors \in Seq({"succeeded", "failed"}) /\ "connector" \in Kinds
  BY DEF Record, Kinds
<1>2. n = Append(c, "connector")
  BY <1>1, AllOfAppend
<1>3. /\ c \in Seq(Kinds) /\ Outcomes(before) = (c \o <<>>) \o <<>>
      /\ n \in Seq(Kinds) /\ Outcomes(after) = (n \o <<>>) \o <<>>
  BY OutcomesAre, AllOfNone DEF ArtifactOf
<1> HIDE DEF c, n
<1>4. c \o <<>> = c /\ n \o <<>> = n
  BY <1>3, ConcatEmptySeq
<1> QED
  BY <1>2, <1>3, <1>4 DEF Gains

LEMMA ArtifactGained ==
    ASSUME NEW before \in Record, NEW after \in Record,
           after.connectors = before.connectors, ~before.artifact, after.artifact,
           before.dispatches = <<>>, after.dispatches = <<>>
    PROVE  Gains(before, after, "artifact")
<1> DEFINE c == AllOf("connector", before.connectors)
<1>1. /\ c \in Seq(Kinds) /\ Outcomes(before) = (c \o <<>>) \o <<>>
      /\ Outcomes(after) = (c \o <<"artifact">>) \o <<>>
  BY OutcomesAre, AllOfNone DEF ArtifactOf
<1> HIDE DEF c
<1>2. "artifact" \in Kinds /\ c \o <<"artifact">> \in Seq(Kinds)
  BY <1>1 DEF Kinds
<1>3. c \o <<>> = c /\ (c \o <<"artifact">>) \o <<>> = c \o <<"artifact">>
  BY <1>1, <1>2, ConcatEmptySeq
<1>4. Append(c, "artifact") = c \o <<"artifact">>
  BY <1>1, <1>2, AppendIsConcat
<1> QED
  BY <1>1, <1>3, <1>4 DEF Gains

LEMMA ConcatAppend ==
    ASSUME NEW S, NEW s \in Seq(S), NEW t \in Seq(S), NEW e \in S
    PROVE  s \o Append(t, e) = Append(s \o t, e)
<1> DEFINE one == <<e>>
<1>1. one \in Seq(S)
  OBVIOUS
<1>2. Append(t, e) = t \o one /\ s \o t \in Seq(S)
  BY AppendIsConcat
<1>3. Append(s \o t, e) = (s \o t) \o one
  BY <1>2, AppendIsConcat
<1> HIDE DEF one
<1>4. (s \o t) \o one = s \o (t \o one)
  BY <1>1, ConcatAssociative
<1> QED
  BY <1>2, <1>3, <1>4

LEMMA DispatchGained ==
    ASSUME NEW before \in Record, NEW after \in Record, NEW x \in Messages \X Results,
           after.connectors = before.connectors, after.artifact = before.artifact,
           after.dispatches = Append(before.dispatches, x)
    PROVE  Gains(before, after, "dispatch")
<1> DEFINE c == AllOf("connector", before.connectors)
           a == ArtifactOf(before)
           d == AllOf("dispatch", before.dispatches)
           n == AllOf("dispatch", after.dispatches)
<1>1. before.dispatches \in Seq(Messages \X Results) /\ "dispatch" \in Kinds
  BY DEF Record, Kinds
<1>2. n = Append(d, "dispatch")
  <2> DEFINE old == before.dispatches
             T == Messages \X Results
  <2>1. old \in Seq(T) /\ x \in T /\ after.dispatches = Append(old, x)
    BY <1>1
  <2> HIDE DEF old, T
  <2>2. AllOf("dispatch", Append(old, x)) = Append(AllOf("dispatch", old), "dispatch")
    BY <1>1, <2>1, AllOfAppend
  <2> QED
    BY <2>1, <2>2 DEF old
<1>3. /\ c \in Seq(Kinds) /\ a \in Seq(Kinds) /\ d \in Seq(Kinds)
      /\ Outcomes(before) = (c \o a) \o d
  BY OutcomesAre
<1>4. Outcomes(after) = (c \o a) \o n
  <2>1. ArtifactOf(after) = a
    BY DEF ArtifactOf
  <2> QED
    BY <2>1, OutcomesAre
<1> HIDE DEF c, a, d, n
<1>5. PICK s \in Seq(Kinds) : s = c \o a
  BY <1>3, ConcatProperties
<1>6. s \o Append(d, "dispatch") = Append(s \o d, "dispatch")
  BY <1>1, <1>3, ConcatAppend
<1> QED
  BY <1>2, <1>3, <1>4, <1>5, <1>6 DEF Gains

\* What a write to the record of a running run does to the log.
LEMMA WriteLogs ==
    ASSUME IInv, NEW p \in Scripts, Busy(p), NEW rec \in Record, Write(p, rec)
    PROVE  \E r \in Runs :
              /\ runLog[r] = [status |-> "running", entries |-> Outcomes(MyRun(p))]
              /\ runLog' = [runLog EXCEPT ![r] =
                               [status |-> rec.status, entries |-> Outcomes(rec)]]
<1>1. PICK r \in Runs : r = work[p].run /\ r \in DOMAIN runs
  BY BusyWork DEF IInv, TypeOK
<1>2. runs[r] = MyRun(p) /\ MyRun(p).status = "running"
  BY <1>1, BusyWork DEF IInv, MyRun
<1>3. runs' = [runs EXCEPT ![r] = rec]
  BY <1>1 DEF Write
<1>4. runLog[r] = [status |-> "running", entries |-> Outcomes(MyRun(p))]
  BY <1>1, <1>2 DEF runLog
<1>5. runLog' = [runLog EXCEPT ![r] = [status |-> rec.status, entries |-> Outcomes(rec)]]
  <2> DEFINE line(s) == IF s \in DOMAIN runs
                        THEN [status |-> runs[s].status, entries |-> Outcomes(runs[s])]
                        ELSE [status |-> "none", entries |-> <<>>]
             new == [status |-> rec.status, entries |-> Outcomes(rec)]
  <2>1. runLog' = [s \in Runs |-> IF s = r THEN new ELSE line(s)]
    BY <1>1, <1>3 DEF runLog
  <2>2. runLog = [s \in Runs |-> line(s)]
    BY DEF runLog
  <2> HIDE DEF line, new
  <2> QED
    BY <2>1, <2>2 DEF new
<1> QED
  BY <1>4, <1>5

LEMMA Collects ==
    ASSUME IInv, NEW p \in Scripts, Busy(p), NEW rec \in Record, Write(p, rec),
           rec.status = MyRun(p).status, NEW kind \in Kinds, Gains(MyRun(p), rec, kind)
    PROVE  Log!Next
<1> DEFINE old == Outcomes(MyRun(p))
<1>1. PICK r \in Runs :
         /\ runLog[r] = [status |-> "running", entries |-> Outcomes(MyRun(p))]
         /\ runLog' = [runLog EXCEPT ![r] = [status |-> rec.status, entries |-> Outcomes(rec)]]
  BY WriteLogs
<1>2. /\ runLog[r] = [status |-> "running", entries |-> old]
      /\ runLog' = [runLog EXCEPT ![r] = [status |-> "running", entries |-> Append(old, kind)]]
  <2>1. rec.status = "running"
    BY BusyWork DEF IInv
  <2> QED
    BY <1>1, <2>1 DEF Gains
<1> HIDE DEF old
<1>3. runLog' = [runLog EXCEPT ![r].entries = Append(@, kind)]
  BY <1>2 DEF runLog
<1>4. runLog[r].status = "running"
  BY <1>2
<1>5. Log!Collect(r)
  BY <1>3, <1>4, Zenon DEF Log!Collect, Kinds
<1> QED
  BY <1>5 DEF Log!Next

LEMMA Closes ==
    ASSUME IInv, NEW p \in Scripts, Busy(p), NEW rec \in Record, Write(p, rec),
           rec.status \in Log!TerminalStatuses, Outcomes(rec) = Outcomes(MyRun(p))
    PROVE  Log!Next
<1> DEFINE old == Outcomes(MyRun(p))
<1>1. PICK r \in Runs :
         /\ runLog[r] = [status |-> "running", entries |-> Outcomes(MyRun(p))]
         /\ runLog' = [runLog EXCEPT ![r] = [status |-> rec.status, entries |-> Outcomes(rec)]]
  BY WriteLogs
<1>2. /\ runLog[r] = [status |-> "running", entries |-> old]
      /\ runLog' = [runLog EXCEPT ![r] = [status |-> rec.status, entries |-> old]]
  BY <1>1
<1> HIDE DEF old
<1>3. runLog' = [runLog EXCEPT ![r].status = rec.status]
  BY <1>2 DEF runLog
<1>4. runLog[r].status = "running"
  BY <1>2
<1>5. Log!Close(r)
  BY <1>3, <1>4, Zenon DEF Log!Close
<1> QED
  BY <1>5 DEF Log!Next

LEMMA Opens ==
    ASSUME IInv, NEW p \in Scripts, BeginRun(p)
    PROVE  Log!Next
<1>1. PICK b \in work[p].due \ Unconnected, r \in Runs \ DOMAIN runs :
         runs' = [s \in DOMAIN runs \cup {r} |-> IF s = r THEN NewRun(b) ELSE runs[s]]
  BY DEF BeginRun
<1>2. Outcomes(NewRun(b)) = <<>>
  <2>1. AllOf("connector", <<>>) = <<>> /\ AllOf("dispatch", <<>>) = <<>>
    BY AllOfNone
  <2>2. Outcomes(NewRun(b)) = (AllOf("connector", <<>>) \o <<>>) \o AllOf("dispatch", <<>>)
    BY DEF Outcomes, NewRun, AllOf
  <2> QED
    BY <2>1, <2>2
<1>3. runLog[r] = [status |-> "none", entries |-> <<>>]
  BY <1>1 DEF runLog
<1>4. runLog' = [runLog EXCEPT ![r] = [status |-> "running", entries |-> <<>>]]
  <2> DEFINE line(s) == IF s \in DOMAIN runs
                        THEN [status |-> runs[s].status, entries |-> Outcomes(runs[s])]
                        ELSE [status |-> "none", entries |-> <<>>]
             new == [status |-> NewRun(b).status, entries |-> Outcomes(NewRun(b))]
  <2>1. runLog' = [s \in Runs |-> IF s = r THEN new ELSE line(s)]
    BY <1>1 DEF runLog
  <2>2. runLog = [s \in Runs |-> line(s)]
    BY DEF runLog
  <2>3. new = [status |-> "running", entries |-> <<>>]
    BY <1>2 DEF NewRun
  <2> HIDE DEF line, new
  <2> QED
    BY <2>1, <2>2, <2>3
<1>5. runLog' = [runLog EXCEPT ![r].status = "running"]
  BY <1>3, <1>4 DEF runLog
<1>6. Log!Open(r)
  <2>1. runLog[r] = Log!Unborn
    BY <1>3 DEF Log!Unborn
  <2> QED
    BY <1>5, <2>1, Zenon DEF Log!Open
<1> QED
  BY <1>6 DEF Log!Next

LEMMA LogsConnector ==
    ASSUME IInv, NEW p \in Scripts, RecordConnector(p) \/ RecordFailedConnector(p)
    PROVE  Log!Next
<1>1. /\ Busy(p) /\ work[p].pc \in {"connectors", "failing"}
      /\ Fits(work[p], MyRun(p)) /\ MyRun(p) \in Record
  BY MyFit DEF RecordConnector, RecordFailedConnector, Busy
<1>2. PICK x \in {"succeeded", "failed"} :
         Write(p, [MyRun(p) EXCEPT !.connectors = Append(MyRun(p).connectors, x)])
  BY DEF RecordConnector, RecordFailedConnector
<1> DEFINE rec == [MyRun(p) EXCEPT !.connectors = Append(MyRun(p).connectors, x)]
<1>3. /\ rec \in Record /\ rec.connectors = Append(MyRun(p).connectors, x)
      /\ rec.status = MyRun(p).status /\ rec.artifact = MyRun(p).artifact
      /\ rec.dispatches = MyRun(p).dispatches
  <2>1. Append(MyRun(p).connectors, x) \in Seq({"succeeded", "failed"})
    BY <1>1 DEF Record
  <2> QED
    BY <1>1, <2>1 DEF Record
<1>4. Write(p, rec)
  BY <1>2
<1> HIDE DEF rec
<1>5. ~MyRun(p).artifact /\ MyRun(p).dispatches = <<>>
  BY <1>1 DEF Fits, Early, Stage
<1>6. Gains(MyRun(p), rec, "connector")
  BY <1>1, <1>3, <1>5, ConnectorGained
<1> QED
  BY <1>1, <1>3, <1>4, <1>6, Collects DEF Kinds

LEMMA LogsArtifact ==
    ASSUME IInv, NEW p \in Scripts, RecordArtifact(p)
    PROVE  Log!Next
<1> DEFINE rec == [MyRun(p) EXCEPT !.artifact = TRUE]
<1>1. /\ Busy(p) /\ work[p].pc = "artifact" /\ Write(p, rec)
      /\ Fits(work[p], MyRun(p)) /\ MyRun(p) \in Record
  BY MyFit DEF RecordArtifact, Busy
<1>2. /\ rec \in Record /\ rec.connectors = MyRun(p).connectors
      /\ rec.status = MyRun(p).status /\ rec.artifact = TRUE
      /\ rec.dispatches = MyRun(p).dispatches
  BY <1>1 DEF Record
<1> HIDE DEF rec
<1>3. ~MyRun(p).artifact /\ MyRun(p).dispatches = <<>>
  BY <1>1 DEF Fits, Early, Stage
<1>4. Gains(MyRun(p), rec, "artifact")
  BY <1>1, <1>2, <1>3, ArtifactGained
<1> QED
  BY <1>1, <1>2, <1>4, Collects DEF Kinds

LEMMA LogsDispatch ==
    ASSUME IInv, NEW p \in Scripts, RecordDispatch(p) \/ RecordBrief(p)
    PROVE  Log!Next
<1>1. /\ Busy(p) /\ Fits(work[p], MyRun(p)) /\ MyRun(p) \in Record
      /\ Stage(work[p]) = work[p].pc /\ work[p].pc \in {"dispatch", "record_brief"}
  BY MyFit DEF RecordDispatch, RecordBrief, Busy, Stage
<1>2. PICK x \in Messages \X Results :
         Write(p, [MyRun(p) EXCEPT !.dispatches = Append(MyRun(p).dispatches, x)])
  <2>1. CASE RecordDispatch(p)
    <3>1. work[p].daily \in Results
      BY <1>1, <2>1 DEF RecordDispatch, Fits
    <3>2. <<"daily", work[p].daily>> \in Messages \X Results
      BY <3>1 DEF Messages
    <3> QED
      BY <2>1, <3>2 DEF RecordDispatch
  <2>2. CASE RecordBrief(p)
    <3>1. work[p].brief \in Results
      BY <1>1, <2>2 DEF RecordBrief, Fits
    <3>2. <<"owner_case_brief", work[p].brief>> \in Messages \X Results
      BY <3>1 DEF Messages
    <3> QED
      BY <2>2, <3>2 DEF RecordBrief
  <2> QED
    BY <2>1, <2>2
<1> DEFINE rec == [MyRun(p) EXCEPT !.dispatches = Append(MyRun(p).dispatches, x)]
<1>3. /\ rec \in Record /\ rec.dispatches = Append(MyRun(p).dispatches, x)
      /\ rec.status = MyRun(p).status /\ rec.artifact = MyRun(p).artifact
      /\ rec.connectors = MyRun(p).connectors
  <2>1. Append(MyRun(p).dispatches, x) \in Seq(Messages \X Results)
    BY <1>1 DEF Record
  <2> QED
    BY <1>1, <2>1 DEF Record
<1>4. Write(p, rec)
  BY <1>2
<1> HIDE DEF rec
<1>5. Gains(MyRun(p), rec, "dispatch")
  BY <1>1, <1>3, DispatchGained
<1> QED
  BY <1>1, <1>3, <1>4, <1>5, Collects DEF Kinds

LEMMA LogsEnd ==
    ASSUME IInv, NEW p \in Scripts, FinishRun(p) \/ FailRun(p)
    PROVE  Log!Next
<1>1. Busy(p) /\ MyRun(p) \in Record
  BY MyFit DEF FinishRun, FailRun, Busy
<1>2. PICK s \in {"succeeded", "partial", "failed"} : Write(p, [MyRun(p) EXCEPT !.status = s])
  BY DEF FinishRun, FailRun, FinalStatus
<1> DEFINE rec == [MyRun(p) EXCEPT !.status = s]
<1>3. /\ rec \in Record /\ rec.status = s /\ rec.connectors = MyRun(p).connectors
      /\ rec.artifact = MyRun(p).artifact /\ rec.dispatches = MyRun(p).dispatches
  BY <1>1 DEF Record, RunStatuses
<1>4. Write(p, rec)
  BY <1>2
<1> HIDE DEF rec
<1>5. Outcomes(rec) = Outcomes(MyRun(p))
  BY <1>3 DEF Outcomes
<1>6. rec.status \in Log!TerminalStatuses
  BY <1>3 DEF Log!TerminalStatuses
<1> QED
  BY <1>1, <1>3, <1>4, <1>5, <1>6, Closes

LEMMA LogStep == IInv /\ [Next]_vars => [Log!Next]_runLog
<1> SUFFICES ASSUME IInv, [Next]_vars PROVE Log!Next \/ runLog' = runLog
  OBVIOUS
<1>1. ASSUME NEW p \in Scripts, Progress(p) PROVE Log!Next \/ runs' = runs
  BY <1>1, Opens, LogsConnector, LogsArtifact, LogsDispatch, LogsEnd
     DEF Progress, SkipBusiness, Finished, Build, BuildFails, CheckKey, SendAccepted,
         SendRejected, SendAnswerLost, MarkKey, StoreRaises, Brief
<1>2. runs' = runs => runLog' = runLog
  BY DEF runLog
<1> QED
  BY <1>1, <1>2 DEF Next, vars, Start, Die

LEMMA InitLog == Init => Log!Init
<1> SUFFICES ASSUME Init PROVE runLog = [r \in Runs |-> Log!Unborn]
  BY DEF Log!Init
<1> QED
  BY DEF Init, runLog, Log!Unborn

\* Report scripts write the ledger as RunLog has it, however many run at once and
\* wherever they die: each run is opened once, collects connector, artifact and
\* dispatch outcomes one at a time, is closed at most once, and rests
\* (app/brain/runner.py begin_pipeline_run .. record_pipeline_success/failure).
THEOREM ScriptsImplementRunLog == Spec => ImplementsRunLog
<1>1. Spec => Log!Init /\ [][Log!Next]_runLog
  BY InitLog, LogStep, AlwaysIInv, PTL DEF Spec
<1> QED
  BY <1>1 DEF ImplementsRunLog, Log!Spec
=============================================================================
