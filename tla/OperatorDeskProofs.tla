-------------------------- MODULE OperatorDeskProofs --------------------------
(***************************************************************************)
(* Theorems about OperatorDesk for any keys, payloads, clock and bounds:   *)
(* what the surfaces read is a lawful table, every mutation is one step of *)
(* CaseBoard, evidence only accumulates, the lists are triage orders,      *)
(* queries part the queue, latencies add up, and the totals that the       *)
(* surfaces count in ways of their own agree.                              *)
(***************************************************************************)
EXTENDS OperatorDesk, CaseStoreProofs, FiniteSetTheorems

-----------------------------------------------------------------------------
(***************************************************************************)
(* The inductive invariant: the table between two mutations.               *)
(***************************************************************************)
\* A row has valid times; it was opened and updated some time.
Dated(row) == row.opened # 0 /\ ValidTimes(row)

\* The events that took a case in progress.
Starts(tl) ==
    {i \in DOMAIN tl : tl[i].type = "status_changed" /\ tl[i].to = "in_progress"}

\* By the time "at" nothing in the row is dated later, it was taken in charge
\* before it was resolved, and a case in progress was last taken in charge by
\* the last event that took it in progress.
Paced(row, at) ==
    LET tl == row.timeline IN
    /\ row.updated <= at
    /\ row.acknowledged <= row.updated
    /\ row.status \in {"acknowledged", "in_progress", "resolved"} => row.acknowledged # 0
    /\ row.resolved # 0 => row.acknowledged <= row.resolved
    /\ \A i \in DOMAIN tl : tl[i].at <= row.updated
    /\ row.status = "in_progress" =>
          /\ \E i \in Starts(tl) : tl[i].at = row.acknowledged
          /\ \A i \in Starts(tl) : tl[i].at <= row.acknowledged

DeskInv ==
    /\ TypeOK
    /\ OneRowPerKey
    /\ RowsAreLawful
    /\ \A w \in Workers : work[w] = Idle
    /\ IsFiniteSet(DOMAIN cases)
    /\ \A c \in DOMAIN cases : Dated(cases[c]) /\ Paced(cases[c], now)

\* A mutation reads and writes in one step: its draft is never stale.
Written(draft) ==
    /\ Placed(draft)
    /\ Lawful(draft.row)
    /\ Dated(draft.row)
    /\ Paced(draft.row, now)
    /\ issued' = issued \cup {draft.id}
    /\ UNCHANGED <<now, work, overlapped>>

\* What upsert_detection holds while it looks the case up; CaseStore's record of
\* it also says what the worker is doing.
DetectionNow(key, run) == [key |-> key, run |-> run, at |-> now]

Detecting_(key, run) == [pc |-> "detecting", key |-> key, run |-> run, at |-> now]

LEMMA SameDetection ==
    ASSUME NEW key, NEW run, NEW row
    PROVE  /\ Opened(DetectionNow(key, run)) = Opened(Detecting_(key, run))
           /\ Redetected(row, DetectionNow(key, run)) = Redetected(row, Detecting_(key, run))
BY DEF Opened, Redetected, Reopened, Updated, Merged, UniqueSnapshots, Logged, DetectionNow,
       Detecting_

\* Operations now keep a row paced.
LEMMA LoggedIsPaced ==
    ASSUME NEW row \in Row, NEW at \in Times, Paced(row, at), NEW e \in Event, e.at = at,
           NEW new \in Row, new.timeline = Append(row.timeline, e), new.updated = at,
           new.acknowledged <= at,
           new.status \in {"acknowledged", "in_progress", "resolved"} =>
              new.acknowledged # 0,
           new.resolved # 0 => new.acknowledged <= new.resolved,
           \/ new.status # "in_progress"
           \/ new.acknowledged = at /\ e.type = "status_changed" /\ e.to = "in_progress"
           \/ /\ row.status = "in_progress" /\ new.acknowledged = row.acknowledged
              /\ e.type # "status_changed"
    PROVE  Paced(new, at)
<1> DEFINE tl == row.timeline
           n == Len(tl) + 1
<1>1. tl \in Seq(Event) /\ row.updated \in Int /\ row.acknowledged \in Int
      /\ new.acknowledged \in Int /\ at \in Int
  BY DEF Row, Times
<1>2. /\ DOMAIN Append(tl, e) = 1..n /\ DOMAIN tl = 1..(n - 1) /\ n \in Nat
      /\ \A i \in DOMAIN tl : Append(tl, e)[i] = tl[i]
      /\ Append(tl, e)[n] = e
  BY <1>1, AppendedTimeline
<1>3. \A i \in DOMAIN tl : tl[i].at \in Int
  <2> HIDE DEF tl, n
  <2>1. \A i \in DOMAIN tl : tl[i] \in Event
    BY <1>1
  <2> QED
    BY <2>1 DEF Event, Times
<1> HIDE DEF tl, n
<1>4. \A i \in DOMAIN Append(tl, e) : Append(tl, e)[i].at <= at
  <2> SUFFICES ASSUME NEW i \in DOMAIN Append(tl, e) PROVE Append(tl, e)[i].at <= at
    OBVIOUS
  <2>1. i = n \/ i \in DOMAIN tl
    BY <1>2
  <2>2. \A j \in DOMAIN tl : tl[j].at <= at
    BY <1>1, <1>3 DEF Paced, tl
  <2> QED
    BY <1>1, <1>2, <2>1, <2>2
<1>5. ASSUME new.status = "in_progress", e.type = "status_changed", e.to = "in_progress",
             new.acknowledged = at
      PROVE  /\ \E i \in Starts(Append(tl, e)) : Append(tl, e)[i].at = new.acknowledged
             /\ \A i \in Starts(Append(tl, e)) : Append(tl, e)[i].at <= new.acknowledged
  <2>1. n \in Starts(Append(tl, e))
    BY <1>2, <1>5 DEF Starts
  <2> QED
    BY <1>2, <1>4, <1>5, <2>1 DEF Starts
<1>6. ASSUME new.status = "in_progress", row.status = "in_progress",
             new.acknowledged = row.acknowledged, e.type # "status_changed"
      PROVE  /\ \E i \in Starts(Append(tl, e)) : Append(tl, e)[i].at = new.acknowledged
             /\ \A i \in Starts(Append(tl, e)) : Append(tl, e)[i].at <= new.acknowledged
  <2>1. Starts(Append(tl, e)) = Starts(tl)
    <3>1. \A i \in Starts(Append(tl, e)) : i # n
      BY <1>2, <1>6 DEF Starts
    <3> QED
      BY <1>2, <3>1 DEF Starts
  <2>2. /\ \E i \in Starts(tl) : tl[i].at = row.acknowledged
        /\ \A i \in Starts(tl) : tl[i].at <= row.acknowledged
    BY <1>6 DEF Paced, tl
  <2> QED
    BY <1>2, <1>6, <2>1, <2>2 DEF Starts
<1>7. PICK all : all = Append(tl, e)
  OBVIOUS
<1>8. new.timeline = all /\ \A i \in DOMAIN all : all[i].at <= new.updated
  BY <1>4, <1>7 DEF tl
<1>9. new.status = "in_progress" =>
         /\ \E i \in Starts(all) : all[i].at = new.acknowledged
         /\ \A i \in Starts(all) : all[i].at <= new.acknowledged
  BY <1>5, <1>6, <1>7
<1>10. new.updated <= at
  BY <1>1
<1> QED
  BY <1>8, <1>9, <1>10 DEF Paced

LEMMA OpenedIsPaced ==
    ASSUME NEW det \in Detecting
    PROVE  Paced(Opened(det), det.at)
<1>1. det.at \in Int /\ 0 <= det.at
  BY DEF Detecting, Times
<1>2. Opened(det).timeline = <<MkEvent("case_opened", "open", det.run, det.at)>>
  BY DEF Opened
<1>3. \A i \in DOMAIN Opened(det).timeline : Opened(det).timeline[i].at = det.at
  BY <1>2 DEF MkEvent
<1>4. /\ Opened(det).status = "open" /\ Opened(det).updated = det.at
      /\ Opened(det).acknowledged = 0 /\ Opened(det).resolved = 0
  BY DEF Opened
<1> QED
  BY <1>1, <1>3, <1>4 DEF Paced

LEMMA RedetectedIsPaced ==
    ASSUME NEW row \in Row, Lawful(row), ValidTimes(row), NEW det \in Detecting,
           Paced(row, det.at)
    PROVE  Paced(Redetected(row, det), det.at)
<1> DEFINE new == Redetected(row, det)
           e == MkEvent(IF row.status \in Terminal THEN "case_reopened" ELSE "case_updated",
                        IF row.status \in Terminal THEN "open" ELSE None, det.run, det.at)
<1>1. new \in Row /\ det.at \in Times
  BY RedetectedIsRow DEF Detecting
<1>2. e \in Event /\ e.at = det.at /\ e.type # "status_changed"
  BY <1>1 DEF MkEvent, Event, EventTypes, DetectionEvents, StatusEvents, Statuses, Detecting
<1>3. /\ new.timeline = Append(row.timeline, e) /\ new.updated = det.at
      /\ row.status \in Terminal =>
            new.status = "open" /\ new.acknowledged = 0 /\ new.resolved = 0
      /\ row.status \notin Terminal =>
            /\ new.status = row.status /\ new.acknowledged = row.acknowledged
            /\ new.resolved = row.resolved
  BY DEF Redetected, Reopened, Updated, Merged, Logged, Row
<1>4. /\ row.acknowledged \in Int /\ row.updated \in Int /\ det.at \in Int /\ det.at >= 0
      /\ row.acknowledged <= row.updated /\ row.updated <= det.at
  BY <1>1 DEF Row, Times, Paced
<1> HIDE DEF new, e
<1>5. new.acknowledged <= det.at
  BY <1>3, <1>4
<1>6. new.status \in {"acknowledged", "in_progress", "resolved"} => new.acknowledged # 0
  BY <1>3 DEF Paced, Terminal
<1>7. new.resolved # 0 => new.acknowledged <= new.resolved
  BY <1>3 DEF Paced
<1>8. \/ new.status # "in_progress"
      \/ row.status = "in_progress" /\ new.acknowledged = row.acknowledged
  BY <1>3
<1> QED
  BY <1>1, <1>2, <1>3, <1>5, <1>6, <1>7, <1>8, LoggedIsPaced DEF new

LEMMA TransitionedIsPaced ==
    ASSUME NEW row \in Row, NEW at \in Times \ {0}, Paced(row, at), ValidTimes(row),
           NEW to \in Transitions[row.status]
    PROVE  Paced(Transitioned(row, to, at), at)
<1> DEFINE new == Transitioned(row, to, at)
           e == MkEvent("status_changed", to, None, at)
<1>1. /\ to \in {"acknowledged", "in_progress", "resolved", "dismissed"}
      /\ to = "resolved" => row.status \in {"acknowledged", "in_progress"}
      /\ row.status \notin Terminal
  BY DEF Row, Statuses, Transitions, Terminal
<1>2. new \in Row
  BY <1>1, TransitionedIsRow DEF Statuses
<1>3. e \in Event /\ e.at = at /\ e.type = "status_changed" /\ e.to = to
  BY <1>1 DEF MkEvent, Event, EventTypes, StatusEvents, Statuses
<1>4. /\ new.timeline = Append(row.timeline, e) /\ new.updated = at /\ new.status = to
      /\ new.acknowledged =
            IF to \in {"acknowledged", "in_progress"} THEN at ELSE row.acknowledged
      /\ new.resolved = IF to = "resolved" THEN at ELSE row.resolved
  BY DEF Transitioned, Logged, Row
<1>5. /\ row.acknowledged \in Int /\ row.updated \in Int /\ at \in Int /\ at # 0
      /\ row.acknowledged <= row.updated /\ row.updated <= at
      /\ row.resolved = 0
  BY <1>1 DEF Row, Times, Paced, ValidTimes, Terminal
<1> HIDE DEF new, e
<1>6. new.acknowledged <= at
  BY <1>4, <1>5
<1>7. new.status \in {"acknowledged", "in_progress", "resolved"} => new.acknowledged # 0
  BY <1>1, <1>4, <1>5 DEF Paced
<1>8. new.resolved # 0 => new.acknowledged <= new.resolved
  BY <1>4, <1>5, <1>6
<1>9. \/ new.status # "in_progress"
      \/ new.acknowledged = at /\ e.type = "status_changed" /\ e.to = "in_progress"
  BY <1>3, <1>4
<1> QED
  BY <1>2, <1>3, <1>4, <1>6, <1>7, <1>8, <1>9, LoggedIsPaced DEF new

LEMMA NotedIsPaced ==
    ASSUME NEW row \in Row, NEW at \in Times, Paced(row, at), NEW new \in Row,
           \/ new = Commented(row, at)
           \/ \E who \in Assignees : new = Assigned(row, who, at)
    PROVE  Paced(new, at)
<1>1. PICK e \in Event :
         /\ e.at = at /\ e.type # "status_changed"
         /\ new.timeline = Append(row.timeline, e) /\ new.updated = at
         /\ new.status = row.status /\ new.acknowledged = row.acknowledged
         /\ new.resolved = row.resolved
  <2>1. CASE new = Commented(row, at)
    <3> DEFINE e == MkEvent("operator_comment", None, None, at)
    <3>1. e \in Event /\ e.at = at /\ e.type # "status_changed"
      BY DEF MkEvent, Event, EventTypes
    <3> QED
      BY <2>1, <3>1 DEF Commented, Logged, Row
  <2>2. ASSUME NEW who \in Assignees, new = Assigned(row, who, at)
        PROVE  \E e \in Event :
                 /\ e.at = at /\ e.type # "status_changed"
                 /\ new.timeline = Append(row.timeline, e) /\ new.updated = at
                 /\ new.status = row.status /\ new.acknowledged = row.acknowledged
                 /\ new.resolved = row.resolved
    <3> DEFINE e == MkEvent("case_assigned", None, who, at)
    <3>1. e \in Event /\ e.at = at /\ e.type # "status_changed"
      BY DEF MkEvent, Event, EventTypes
    <3> QED
      BY <2>2, <3>1 DEF Assigned, Logged, Row
  <2> QED
    BY <2>1, <2>2
<1>2. /\ row.acknowledged \in Int /\ row.updated \in Int /\ at \in Int
      /\ row.acknowledged <= row.updated /\ row.updated <= at
  BY DEF Row, Times, Paced
<1>3. /\ new.acknowledged <= at
      /\ new.status \in {"acknowledged", "in_progress", "resolved"} => new.acknowledged # 0
      /\ new.resolved # 0 => new.acknowledged <= new.resolved
  BY <1>1, <1>2 DEF Paced
<1> QED
  BY <1>1, <1>3, LoggedIsPaced

\* The row of a case that exists, and one more event.
LEMMA CommitChanges ==
    ASSUME DeskInv, NEW c \in DOMAIN cases, NEW row \in Row,
           Grown(row, cases[c]), Lawful(row), LawfulChange(row, cases[c]),
           row.opened = cases[c].opened, Paced(row, now), Commit(c, row), UNCHANGED issued
    PROVE  \E draft : Written(draft)
<1> DEFINE draft == [id |-> c, row |-> row]
<1>1. draft.id = c /\ draft.row = row
  OBVIOUS
<1>2. c \in Ids /\ c \in issued /\ cases[c] \in Row
  BY DEF DeskInv, TypeOK
<1>3. RowsOf(row.key) = {c}
  BY DEF DeskInv, OneRowPerKey, RowsOf, Grown
<1>4. cases' = Replace(c, row) /\ UNCHANGED <<now, work, overlapped>>
  BY DEF Commit
<1> HIDE DEF draft
<1>5. Current(draft) /\ Fits(draft)
  BY <1>1, <1>3 DEF Current, Fits
<1>6. Placed(draft)
  BY <1>1, <1>2, <1>4, <1>5 DEF Placed
<1>7. issued' = issued \cup {draft.id}
  BY <1>1, <1>2
<1>8. Dated(draft.row)
  BY <1>1 DEF DeskInv, Dated, Commit
<1>9. Written(draft)
  BY <1>1, <1>4, <1>6, <1>7, <1>8 DEF Written
<1> QED
  BY <1>9

LEMMA DetectWrites ==
    ASSUME DeskInv, NEW key \in Keys, NEW run \in Runs \cup {None}, Detect(key, run)
    PROVE  \E draft : Written(draft)
<1> DEFINE det == DetectionNow(key, run)
           full == Detecting_(key, run)
<1>1. full \in Detecting /\ full.key = key
  BY DEF Detecting_, Detecting, DeskInv, TypeOK
<1>2. /\ Opened(full) \in Row /\ Opened(full).key = key
      /\ Lawful(Opened(full)) /\ NewCase(Opened(full))
      /\ Opened(full).opened # 0 /\ Paced(Opened(full), now)
  <2>1. Opened(full).opened # 0 /\ full.at = now
    BY DEF Opened, Detecting_, DeskInv, TypeOK
  <2> HIDE DEF full
  <2> QED
    BY <1>1, <2>1, OpenedIsRow, OpenedIsLawful, OpenedIsNewCase, OpenedIsPaced
<1>3. /\ Opened(det) = Opened(full)
      /\ \A row : Redetected(row, det) = Redetected(row, full)
  BY SameDetection
<1>4. \/ /\ RowsOf(key) = {}
         /\ \E id \in Ids \ issued : Commit(id, Opened(det)) /\ issued' = issued \cup {id}
      \/ \E c \in RowsOf(key) : Commit(c, Redetected(cases[c], det)) /\ UNCHANGED issued
  BY DEF Detect, DetectionNow
<1> HIDE DEF det, full
<1>5. ASSUME RowsOf(key) = {}, NEW id \in Ids \ issued, Commit(id, Opened(det)),
             issued' = issued \cup {id}
      PROVE  \E draft : Written(draft)
  <2> DEFINE draft == [id |-> id, row |-> Opened(full)]
  <2>1. draft.id = id /\ draft.row = Opened(full)
    OBVIOUS
  <2>2. id \notin DOMAIN cases
    BY <1>5 DEF DeskInv, TypeOK
  <2>3. cases' = Replace(id, Opened(full)) /\ UNCHANGED <<now, work, overlapped>>
    BY <1>3, <1>5 DEF Commit
  <2> HIDE DEF draft
  <2>4. Current(draft) /\ Fits(draft)
    BY <1>2, <1>5, <2>1, <2>2 DEF Current, Fits
  <2>5. Placed(draft)
    BY <1>2, <1>5, <2>1, <2>3, <2>4 DEF Placed
  <2>6. Dated(draft.row)
    BY <1>2, <1>3, <1>5, <2>1 DEF Dated, Commit
  <2>7. Written(draft)
    BY <1>2, <1>5, <2>1, <2>3, <2>5, <2>6 DEF Written
  <2> QED
    BY <2>7
<1>6. ASSUME NEW c \in RowsOf(key), Commit(c, Redetected(cases[c], det)), UNCHANGED issued
      PROVE  \E draft : Written(draft)
  <2>1. /\ c \in DOMAIN cases /\ cases[c] \in Row /\ Lawful(cases[c])
        /\ ValidTimes(cases[c]) /\ Paced(cases[c], now) /\ full.at = now
    BY DEF RowsOf, DeskInv, TypeOK, RowsAreLawful, Dated, full, Detecting_
  <2>2. /\ Redetected(cases[c], full) \in Row
        /\ Grown(Redetected(cases[c], full), cases[c])
        /\ Lawful(Redetected(cases[c], full))
        /\ LawfulChange(Redetected(cases[c], full), cases[c])
    BY <1>1, <2>1, RedetectedIsRow, RedetectedIsLawful, RedetectedIsLawfulChange DEF Grown
  <2>3. Commit(c, Redetected(cases[c], full))
    BY <1>3, <1>6
  <2>4. Redetected(cases[c], full).opened = cases[c].opened
    BY <2>1 DEF Redetected, Reopened, Updated, Merged, Logged, Row
  <2>5. Paced(Redetected(cases[c], full), now)
    BY <1>1, <2>1, RedetectedIsPaced
  <2> QED
    BY <1>6, <2>1, <2>2, <2>3, <2>4, <2>5, CommitChanges
<1> QED
  BY <1>4, <1>5, <1>6

LEMMA OperateWrites ==
    ASSUME DeskInv, NEW c \in DOMAIN cases, Operate(c)
    PROVE  \E draft : Written(draft)
<1>1. /\ cases[c] \in Row /\ Lawful(cases[c])
      /\ ValidTimes(cases[c]) /\ Paced(cases[c], now)
      /\ now \in Times /\ now \in Times \ {0}
  BY DEF DeskInv, TypeOK, RowsAreLawful, Dated
<1>2. UNCHANGED issued
  BY DEF Operate
<1>3. ASSUME NEW to \in Transitions[cases[c].status],
             Commit(c, Transitioned(cases[c], to, now))
      PROVE  \E draft : Written(draft)
  <2>1. to \in Statuses
    BY <1>1 DEF Row, Statuses, Transitions
  <2>2. /\ Transitioned(cases[c], to, now) \in Row
        /\ Grown(Transitioned(cases[c], to, now), cases[c])
        /\ Lawful(Transitioned(cases[c], to, now))
        /\ LawfulChange(Transitioned(cases[c], to, now), cases[c])
    BY <1>1, <2>1, TransitionedIsRow, TransitionedIsLawful, OperatedIsLawfulChange
  <2>3. Transitioned(cases[c], to, now).opened = cases[c].opened
    BY <1>1 DEF Transitioned, Logged, Row
  <2>4. Paced(Transitioned(cases[c], to, now), now)
    BY <1>1, <1>3, TransitionedIsPaced
  <2> QED
    BY <1>2, <1>3, <2>2, <2>3, <2>4, CommitChanges
<1>4. ASSUME Commit(c, Commented(cases[c], now))
      PROVE  \E draft : Written(draft)
  <2>1. /\ Commented(cases[c], now) \in Row
        /\ Grown(Commented(cases[c], now), cases[c])
        /\ Lawful(Commented(cases[c], now))
        /\ LawfulChange(Commented(cases[c], now), cases[c])
    BY <1>1, CommentedIsRow, CommentedIsLawful, OperatedIsLawfulChange
  <2>2. Commented(cases[c], now).opened = cases[c].opened
    BY <1>1 DEF Commented, Logged, Row
  <2>3. Paced(Commented(cases[c], now), now)
    BY <1>1, <2>1, NotedIsPaced
  <2> QED
    BY <1>2, <1>4, <2>1, <2>2, <2>3, CommitChanges
<1>5. ASSUME NEW who \in Assignees, cases[c].status \notin Terminal,
             Commit(c, Assigned(cases[c], who, now))
      PROVE  \E draft : Written(draft)
  <2>1. /\ Assigned(cases[c], who, now) \in Row
        /\ Grown(Assigned(cases[c], who, now), cases[c])
        /\ Lawful(Assigned(cases[c], who, now))
        /\ LawfulChange(Assigned(cases[c], who, now), cases[c])
    BY <1>1, <1>5, AssignedIsRow, AssignedIsLawful, OperatedIsLawfulChange
  <2>2. Assigned(cases[c], who, now).opened = cases[c].opened
    BY <1>1 DEF Assigned, Logged, Row
  <2>3. Paced(Assigned(cases[c], who, now), now)
    BY <1>1, <2>1, NotedIsPaced
  <2> QED
    BY <1>2, <1>5, <2>1, <2>2, <2>3, CommitChanges
<1> QED
  BY <1>3, <1>4, <1>5 DEF Operate, Status

\* Every step writes one draft, moves the clock, or does nothing.
LEMMA DeskSteps ==
    ASSUME DeskInv, [DeskNext]_vars
    PROVE  (\E draft : Written(draft)) \/ Tick \/ UNCHANGED vars
BY DetectWrites, OperateWrites DEF DeskNext

LEMMA WrittenKeeps ==
    ASSUME DeskInv, NEW draft, Written(draft)
    PROVE  DeskInv'
<1> DEFINE id == draft.id
           row == draft.row
<1>1. /\ id \in Ids /\ row \in Row /\ Lawful(row) /\ Dated(row) /\ Paced(row, now)
      /\ issued' = issued \cup {id}
      /\ UNCHANGED <<now, work, overlapped>>
      /\ cases' = Replace(id, row)
  BY DEF Written, Placed
<1>2. /\ DOMAIN cases' = (DOMAIN cases \ RowsOf(row.key)) \cup {id}
      /\ cases'[id] = row
      /\ \A c \in DOMAIN cases' : c # id =>
            c \in DOMAIN cases /\ cases'[c] = cases[c] /\ cases[c].key # row.key
      /\ cases' = [c \in DOMAIN cases' |-> cases'[c]]
  BY <1>1 DEF Replace, RowsOf
<1> HIDE DEF id, row
<1>3. /\ \A c \in DOMAIN cases' : cases'[c] \in Row /\ Lawful(cases'[c])
      /\ DOMAIN cases' \subseteq issued'
  BY <1>1, <1>2 DEF DeskInv, TypeOK, RowsAreLawful
<1>4. TypeOK'
  <2>1. cases' \in [DOMAIN cases' -> Row]
    BY <1>2, <1>3
  <2> QED
    BY <1>1, <1>3, <2>1 DEF DeskInv, TypeOK
<1>5. OneRowPerKey'
  BY <1>2 DEF DeskInv, OneRowPerKey
<1>6. RowsAreLawful'
  BY <1>1, <1>3 DEF DeskInv, RowsAreLawful, Drafted, Idle
<1>7. IsFiniteSet(DOMAIN cases')
  <2>1. IsFiniteSet(DOMAIN cases \ RowsOf(row.key))
    BY FS_Subset DEF DeskInv
  <2> QED
    BY <1>2, <2>1, FS_AddElement
<1>8. \A c \in DOMAIN cases' : Dated(cases'[c]) /\ Paced(cases'[c], now')
  BY <1>1, <1>2 DEF DeskInv
<1> QED
  BY <1>1, <1>4, <1>5, <1>6, <1>7, <1>8 DEF DeskInv

LEMMA InitDeskInv == Init => DeskInv
<1> SUFFICES ASSUME Init PROVE DeskInv
  OBVIOUS
<1>1. IInv
  BY InitIInv
<1> QED
  BY <1>1, InitLawful, FS_EmptySet DEF DeskInv, IInv, Init

LEMMA NextDeskInv == DeskInv /\ [DeskNext]_vars => DeskInv'
<1> SUFFICES ASSUME DeskInv, [DeskNext]_vars PROVE DeskInv'
  OBVIOUS
<1>1. CASE Tick
  <2>1. now' \in Times \ {0}
    BY <1>1, BoundsAssumption DEF Tick, DeskInv, TypeOK, Times
  <2>2. TypeOK'
    BY <1>1, <2>1 DEF Tick, DeskInv, TypeOK
  <2>3. ASSUME NEW c \in DOMAIN cases PROVE Paced(cases[c], now')
    <3>1. cases[c].updated \in Int /\ now \in Int /\ now' = now + 1
      BY <1>1 DEF Tick, DeskInv, TypeOK, Row, Times
    <3> QED
      BY <3>1 DEF DeskInv, Paced
  <2> QED
    BY <1>1, <2>2, <2>3 DEF Tick, DeskInv, OneRowPerKey, RowsAreLawful, Drafted
<1>2. CASE UNCHANGED vars
  BY <1>2 DEF vars, DeskInv, TypeOK, OneRowPerKey, RowsAreLawful, Drafted
<1>3. ASSUME NEW draft, Written(draft) PROVE DeskInv'
  BY <1>3, WrittenKeeps
<1> QED
  BY <1>1, <1>2, <1>3, DeskSteps

LEMMA DeskInvariant == DeskSpec => []DeskInv
BY InitDeskInv, NextDeskInv, PTL DEF DeskSpec

-----------------------------------------------------------------------------
(***************************************************************************)
(* The table under the surfaces.                                           *)
(***************************************************************************)
\* The surfaces read one row per problem, whose timeline the lifecycle allows and
\* whose columns are those its timeline tells: the brief may read a column where
\* the detail reads the timeline.
THEOREM DeskReadsLawfulRows ==
    DeskSpec => [](/\ OneRowPerKey
                   /\ TimelinesAreLegal
                   /\ StatusFollowsTimeline
                   /\ ColumnsFollowTimeline)
<1>1. DeskInv => /\ OneRowPerKey
                 /\ TimelinesAreLegal
                 /\ StatusFollowsTimeline
                 /\ ColumnsFollowTimeline
  BY DEF DeskInv, RowsAreLawful, Lawful, TimelinesAreLegal, StatusFollowsTimeline,
     ColumnsFollowTimeline
<1> QED
  BY <1>1, DeskInvariant, PTL

\* Every mutation of the desk is one lawful operation on one case of the board.
THEOREM DeskImplementsBoard == DeskSpec => ImplementsCaseBoard
<1>1. DeskInv /\ [DeskNext]_vars => [Board!Next]_boardNow
  <2> SUFFICES ASSUME DeskInv, [DeskNext]_vars PROVE [Board!Next]_boardNow
    OBVIOUS
  <2>1. ASSUME NEW draft, Written(draft) PROVE Board!Next
    BY <2>1, PlacedOpens, PlacedRecords DEF Written, DeskInv
  <2>2. ASSUME cases' = cases PROVE boardNow' = boardNow
    BY <2>2, BoardNow
  <2> QED
    BY <2>1, <2>2, DeskSteps DEF Tick, vars
<1> QED
  BY <1>1, DeskInvariant, InitFollowsBoard, PTL
     DEF DeskSpec, ImplementsCaseBoard, Board!Spec, boardNow

-----------------------------------------------------------------------------
(***************************************************************************)
(* Evidence accumulates.                                                   *)
(***************************************************************************)
\* A case keeps its key, its timeline or a longer one, in every step.
LEMMA CasesStay ==
    ASSUME DeskInv, [DeskNext]_vars, NEW c \in DOMAIN cases
    PROVE  /\ c \in DOMAIN cases'
           /\ cases'[c] = cases[c] \/ Grown(cases'[c], cases[c])
<1>1. ASSUME NEW draft, Written(draft)
      PROVE  /\ c \in DOMAIN cases'
             /\ cases'[c] = cases[c] \/ Grown(cases'[c], cases[c])
  <2>1. Current(draft) /\ cases' = Replace(draft.id, draft.row)
    BY <1>1 DEF Written, Placed
  <2>2. CASE c = draft.id
    BY <2>1, <2>2 DEF Current, Replace
  <2>3. CASE c # draft.id
    BY <2>1, <2>3 DEF Current, Replace
  <2> QED
    BY <2>2, <2>3
<1> QED
  BY <1>1, DeskSteps DEF Tick, vars

\* A timeline that grows still shows what a run brought.
LEMMA StillBrought ==
    ASSUME NEW tl \in Seq(Event), NEW e \in Event, NEW run, Brought(tl, run) # {}
    PROVE  Brought(Append(tl, e), run) # {}
<1>1. PICK i : i \in Brought(tl, run)
  OBVIOUS
<1>2. i \in DOMAIN Append(tl, e) /\ Append(tl, e)[i] = tl[i]
  BY <1>1, AppendedTimeline DEF Brought
<1> QED
  BY <1>1, <1>2 DEF Brought

\* Rows are lawful before and after the step: the column holds the snapshots of
\* the runs the timeline shows, and the timeline only grows.
LEMMA EvidenceStays ==
    ASSUME DeskInv, [DeskNext]_vars, NEW c \in DOMAIN cases
    PROVE  Snapshots(c) \subseteq Snapshots(c)'
<1>1. PICK old, row : old = cases[c] /\ row = cases'[c]
  OBVIOUS
<1>2. c \in DOMAIN cases' /\ (row = old \/ Grown(row, old))
  BY <1>1, CasesStay
<1>3. old.timeline \in Seq(Event) /\ EvidenceFollows(old)
  BY <1>1 DEF DeskInv, TypeOK, Row, RowsAreLawful, Lawful
<1>4. EvidenceFollows(row)
  <2>1. DeskInv'
    BY NextDeskInv
  <2> QED
    BY <1>1, <1>2, <2>1 DEF DeskInv, RowsAreLawful, Lawful
<1>5. ASSUME NEW run \in Runs \cup {None}, old.evidence[run] # 0
      PROVE  row.evidence[run] # 0
  <2>1. Brought(old.timeline, run) # {}
    BY <1>3, <1>5 DEF EvidenceFollows
  <2>2. Brought(row.timeline, run) # {}
    BY <1>2, <1>3, <2>1, StillBrought DEF Grown
  <2> QED
    BY <1>4, <2>2 DEF EvidenceFollows
<1>6. Cited(c) \subseteq Cited(c)'
  BY <1>1, <1>5, PayloadAssumption DEF Cited
<1> QED
  BY <1>6 DEF Snapshots

\* WorstFreshness, of the states that have a rank, and WorstRank of it.
Ranked(S) == {s.state : s \in S} \cap DOMAIN FreshnessRank

Worst(ranked) ==
    IF ranked = {} THEN None
    ELSE CHOOSE w \in ranked : \A s \in ranked : FreshnessRank[s] <= FreshnessRank[w]

RankOf(state) == IF state = None THEN -1 ELSE FreshnessRank[state]

LEMMA Ranks ==
    /\ DOMAIN FreshnessRank = {"fresh", "degraded", "stale", "missing"}
    /\ FreshnessRank["fresh"] = 0 /\ FreshnessRank["degraded"] = 1
    /\ FreshnessRank["stale"] = 2 /\ FreshnessRank["missing"] = 3
    /\ None \notin DOMAIN FreshnessRank
BY DEF FreshnessRank, None

\* The worst of some states is one of them, and none ranks above it.
LEMMA WorstIsWorst ==
    ASSUME NEW ranked, ranked \subseteq DOMAIN FreshnessRank, ranked # {}
    PROVE  /\ Worst(ranked) \in ranked
           /\ \A s \in ranked : FreshnessRank[s] <= FreshnessRank[Worst(ranked)]
<1> DEFINE IsWorst(w) == \A s \in ranked : FreshnessRank[s] <= FreshnessRank[w]
<1>1. \E w \in ranked : IsWorst(w)
  <2>1. CASE "missing" \in ranked
    BY Ranks, <2>1
  <2>2. CASE "missing" \notin ranked /\ "stale" \in ranked
    BY Ranks, <2>2
  <2>3. CASE "missing" \notin ranked /\ "stale" \notin ranked /\ "degraded" \in ranked
    BY Ranks, <2>3
  <2>4. CASE ranked = {"fresh"}
    BY Ranks, <2>4
  <2> QED
    BY Ranks, <2>1, <2>2, <2>3, <2>4
<1>2. Worst(ranked) = CHOOSE w \in ranked : IsWorst(w)
  BY DEF Worst
<1> HIDE DEF IsWorst
<1>3. Worst(ranked) \in ranked /\ IsWorst(Worst(ranked))
  BY <1>1, <1>2
<1> QED
  BY <1>3 DEF IsWorst

\* More snapshots are never fresher.
LEMMA NeverFresher ==
    ASSUME NEW S, NEW T, S \subseteq T
    PROVE  RankOf(Worst(Ranked(S))) <= RankOf(Worst(Ranked(T)))
<1>1. PICK few, many : few = Ranked(S) /\ many = Ranked(T)
  OBVIOUS
<1>2. few \subseteq many /\ many \subseteq DOMAIN FreshnessRank
  BY <1>1 DEF Ranked
<1>3. \A s \in DOMAIN FreshnessRank : RankOf(s) = FreshnessRank[s] /\ RankOf(s) \in 0..3
  BY Ranks DEF RankOf
<1>4. RankOf(None) = -1
  BY DEF RankOf
<1>5. CASE few = {}
  <2>1. RankOf(Worst(few)) = -1
    BY <1>4, <1>5 DEF Worst
  <2>2. Worst(many) = None \/ Worst(many) \in DOMAIN FreshnessRank
    BY <1>2, WorstIsWorst DEF Worst
  <2>3. RankOf(Worst(many)) \in -1..3
    BY <1>3, <1>4, <2>2
  <2> QED
    BY <1>1, <2>1, <2>3
<1>6. CASE few # {}
  <2>1. Worst(few) \in many /\ Worst(many) \in many
    BY <1>2, <1>6, WorstIsWorst
  <2>2. FreshnessRank[Worst(few)] <= FreshnessRank[Worst(many)]
    BY <1>2, <1>6, <2>1, WorstIsWorst
  <2> QED
    BY <1>1, <1>2, <1>3, <2>1, <2>2
<1> QED
  BY <1>5, <1>6

\* A case that was once seen with degraded data stays degraded, its connectors
\* only become more, and its worst freshness never gets better.
THEOREM DegradedForLife == DeskSpec => DegradedStays
<1>1. ASSUME DeskInv, [DeskNext]_vars, NEW c \in DOMAIN cases
      PROVE  /\ c \in DOMAIN cases'
             /\ IsDegraded(c) => IsDegraded(c)'
             /\ SourceConnectors(c) \subseteq SourceConnectors(c)'
             /\ WorstRank(c) <= WorstRank(c)'
  <2>1. c \in DOMAIN cases' /\ Snapshots(c) \subseteq Snapshots(c)'
    BY <1>1, CasesStay, EvidenceStays
  <2>2. IsDegraded(c) => IsDegraded(c)'
    BY <2>1 DEF IsDegraded
  <2>3. SourceConnectors(c) \subseteq SourceConnectors(c)'
    BY <2>1 DEF SourceConnectors
  <2>4. WorstRank(c) = RankOf(Worst(Ranked(Snapshots(c))))
    BY DEF WorstRank, WorstFreshness, RankOf, Worst, Ranked
  <2>5. WorstRank(c)' = RankOf(Worst(Ranked(Snapshots(c)')))
    BY DEF WorstRank, WorstFreshness, RankOf, Worst, Ranked
  <2>6. PICK S, T : S = Snapshots(c) /\ T = Snapshots(c)'
    OBVIOUS
  <2>7. RankOf(Worst(Ranked(S))) <= RankOf(Worst(Ranked(T)))
    BY <2>1, <2>6, NeverFresher
  <2> QED
    BY <2>1, <2>2, <2>3, <2>4, <2>5, <2>6, <2>7
<1>2. DeskInv /\ [DeskNext]_vars =>
        [\A c \in DOMAIN cases :
           /\ c \in DOMAIN cases'
           /\ IsDegraded(c) => IsDegraded(c)'
           /\ SourceConnectors(c) \subseteq SourceConnectors(c)'
           /\ WorstRank(c) <= WorstRank(c)']_vars
  BY <1>1
<1> QED
  BY <1>2, DeskInvariant, PTL DEF DeskSpec, DegradedStays

-----------------------------------------------------------------------------
(***************************************************************************)
(* The lists are triage orders.                                            *)
(***************************************************************************)
\* The whole part of a quotient: the multiple of n just below t.
LEMMA WholeQuotient ==
    ASSUME NEW t \in Nat, NEW n \in Nat, n > 0
    PROVE  t \div n \in Nat /\ n * (t \div n) <= t /\ t < n * (t \div n) + n
<1>1. PICK q \in Int : q = t \div n
  OBVIOUS
<1>2. n * q <= t /\ t < n * q + n
  BY <1>1
<1>3. q >= 0
  <2> SUFFICES ASSUME q + 1 <= 0 PROVE FALSE
    OBVIOUS
  <2>1. (q + 1) * n <= 0
    OBVIOUS
  <2>2. (q + 1) * n = n * q + n
    OBVIOUS
  <2> QED
    BY <1>2, <2>1, <2>2
<1> QED
  BY <1>1, <1>2, <1>3

\* Truncating two spans of time loses at most a second of their sum.
LEMMA TruncatedSum ==
    ASSUME NEW a \in Nat, NEW b \in Nat, NEW n \in Nat, n > 0
    PROVE  (a + b) \div n - a \div n - b \div n \in {0, 1}
<1>1. PICK x, y, z : x = a \div n /\ y = b \div n /\ z = (a + b) \div n
  OBVIOUS
<1>2. x \in Nat /\ y \in Nat /\ z \in Nat
  BY <1>1, WholeQuotient
<1>3. /\ n * x <= a /\ a < n * x + n
      /\ n * y <= b /\ b < n * y + n
      /\ n * z <= a + b /\ a + b < n * z + n
  BY <1>1, WholeQuotient
<1>4. x + y <= z
  <2> SUFFICES ASSUME z + 1 <= x + y PROVE FALSE
    BY <1>2
  <2>1. n * (z + 1) <= n * (x + y)
    BY <1>2
  <2>2. n * (z + 1) = n * z + n /\ n * (x + y) = n * x + n * y
    BY <1>2
  <2> QED
    BY <1>2, <1>3, <2>1, <2>2
<1>5. z <= x + y + 1
  <2> SUFFICES ASSUME x + y + 2 <= z PROVE FALSE
    BY <1>2
  <2>1. n * (x + y + 2) <= n * z
    BY <1>2
  <2>2. n * (x + y + 2) = n * x + n * y + n + n
    BY <1>2
  <2> QED
    BY <1>2, <1>3, <2>1, <2>2
<1> QED
  BY <1>1, <1>2, <1>4, <1>5

\* What is left of a number of ticks, in whole seconds.
LEMMA WholeTicks ==
    ASSUME NEW ticks \in Int
    PROVE  /\ Truncated(ticks) \in Int
           /\ ticks >= 0 => /\ Truncated(ticks) = ticks \div Second
                           /\ Truncated(ticks) >= 0
<1>1. Second \in Nat /\ Second > 0
  BY PayloadAssumption
<1>2. \A n \in Nat : n \div Second \in Nat
  BY <1>1, WholeQuotient
<1>3. CASE ticks < 0
  <2>1. 0 - ticks \in Nat /\ Truncated(ticks) = 0 - ((0 - ticks) \div Second)
    BY <1>3 DEF Truncated
  <2> QED
    BY <1>2, <1>3, <2>1
<1>4. CASE ~(ticks < 0)
  <2>1. ticks \in Nat /\ Truncated(ticks) = ticks \div Second
    BY <1>4 DEF Truncated
  <2> QED
    BY <1>2, <2>1
<1> QED
  BY <1>3, <1>4

LEMMA WholeSeconds ==
    ASSUME NEW t \in Times \ {0}, NEW u \in Times \ {0}
    PROVE  Elapsed(t, u) \in Int /\ Seconds(t, u) \in Int
<1>1. Instants[t] \in Int /\ Instants[u] \in Int
  BY PayloadAssumption
<1>2. Elapsed(t, u) \in Int
  BY <1>1, WholeTicks DEF Elapsed
<1> QED
  BY <1>2 DEF Seconds

\* The clock's readings and a case's dates have instants.
LEMMA SecondsPassed ==
    ASSUME DeskInv, NEW c \in DOMAIN cases
    PROVE  /\ c \in Int /\ Priority(c) \in Int
           /\ cases[c].opened \in Times \ {0} /\ cases[c].updated \in Times \ {0}
           /\ now \in Times \ {0}
           /\ Age(c, now) \in Int /\ IdleTime(c, now) \in Int
<1>1. cases[c] \in Row /\ Dated(cases[c]) /\ Lawful(cases[c]) /\ c \in Nat
  BY PayloadAssumption DEF DeskInv, TypeOK, RowsAreLawful
<1>2. cases[c].opened \in Times \ {0} /\ cases[c].updated \in Times \ {0}
  BY <1>1, BoundsAssumption DEF Row, Dated, ValidTimes, Times
<1>3. now \in Times \ {0}
  BY DEF DeskInv, TypeOK
<1>4. Age(c, now) \in Int /\ IdleTime(c, now) \in Int
  BY <1>2, <1>3, WholeSeconds DEF Age, IdleTime
<1>5. Priority(c) \in Int
  BY <1>1, FieldsOfLatest
<1> QED
  BY <1>1, <1>2, <1>3, <1>4, <1>5

\* So cases can be ranked by age, by idleness and by priority.
LEMMA DeskRanks ==
    ASSUME DeskInv, NEW S \in SUBSET DOMAIN cases
    PROVE  /\ IsRanking([c \in S |-> Age(c, now)])
           /\ IsRanking([c \in S |-> IdleTime(c, now)])
           /\ IsRanking([c \in S |-> Priority(c)])
<1>1. IsFiniteSet(S)
  BY FS_Subset DEF DeskInv
<1>2. \A c \in S : /\ c \in Int /\ Priority(c) \in Int
                   /\ Age(c, now) \in Int /\ IdleTime(c, now) \in Int
  BY SecondsPassed
<1> QED
  BY <1>1, <1>2 DEF IsRanking

\* A list shows the ids of the first places, in order.
LEMMA IdsOfListed ==
    ASSUME NEW rank, IsRanking(rank), NEW row, NEW limit \in Nat,
           \A c \in DOMAIN rank : row[c].row.case_id = c
    PROVE  Ids_(Listed(rank, limit, row)) = Top(rank, limit)
<1> DEFINE shown == Top(rank, limit)
<1>1. PICK n \in Nat : DOMAIN shown = 1..n /\ shown = [i \in 1..n |-> shown[i]]
                       /\ \A i \in 1..n : shown[i] \in DOMAIN rank
  BY TopList
<1>2. Listed(rank, limit, row).cases = [i \in DOMAIN shown |-> row[shown[i]]]
  BY DEF Listed
<1> HIDE DEF shown
<1>3. Ids_(Listed(rank, limit, row)) = [i \in 1..n |-> row[shown[i]].row.case_id]
  BY <1>1, <1>2 DEF Ids_
<1>4. Ids_(Listed(rank, limit, row)) = shown
  BY <1>1, <1>3
<1> QED
  BY <1>4 DEF shown

\* The ids shown when the list is cut at n are the head of the whole list, and no
\* case that is left out ranks ahead of one that is shown.
IdsShown(rank, row, n) == Ids_(Listed(rank, n, row))

IsHeadOf(rank, part, list, n) ==
    /\ part = SubSeq(list, 1, n)
    /\ \A i \in DOMAIN part : part[i] \in DOMAIN rank
    /\ \A c \in DOMAIN rank \ ToSet(part) : \A i \in DOMAIN part :
          \/ rank[part[i]] > rank[c]
          \/ rank[part[i]] = rank[c] /\ part[i] < c

LEMMA ListedStable ==
    ASSUME NEW rank, IsRanking(rank), NEW row,
           \A c \in DOMAIN rank : row[c].row.case_id = c,
           NEW n \in 1..Cardinality(DOMAIN rank)
    PROVE  IsHeadOf(rank, IdsShown(rank, row, n),
                    IdsShown(rank, row, Cardinality(DOMAIN rank)), n)
<1> DEFINE N == Cardinality(DOMAIN rank)
           whole == Top(rank, N)
           shown == Top(rank, n)
<1>1. N \in Nat /\ n \in Nat /\ n <= N /\ n >= 1
  BY FS_CardinalityType DEF IsRanking
<1>2. Ids_(Listed(rank, N, row)) = whole /\ Ids_(Listed(rank, n, row)) = shown
  BY <1>1, IdsOfListed
<1>3. /\ whole \in Seq(DOMAIN rank) /\ Len(whole) = N
      /\ shown \in Seq(DOMAIN rank) /\ Len(shown) = n /\ DOMAIN shown = 1..n
      /\ \A i \in 1..n : shown[i] \in DOMAIN rank
  BY <1>1, TopList
<1>4. /\ \A i \in 1..n : shown[i] = whole[i]
      /\ \A c \in DOMAIN rank :
            (\A i \in 1..n : shown[i] # c) => \A i \in 1..n : Ahead(rank, shown[i], c)
  BY TopIsStable
<1> HIDE DEF N, whole, shown
<1>5. shown = SubSeq(whole, 1, n)
  <2>1. /\ SubSeq(whole, 1, n) \in Seq(DOMAIN rank) /\ Len(SubSeq(whole, 1, n)) = n
        /\ \A i \in 1..n : SubSeq(whole, 1, n)[i] = whole[i]
    BY <1>1, <1>3
  <2> QED
    BY <1>1, <1>3, <1>4, <2>1
<1>6. ASSUME NEW c \in DOMAIN rank \ ToSet(shown), NEW i \in DOMAIN shown
      PROVE  Ahead(rank, shown[i], c)
  <2>1. \A k \in 1..n : shown[k] # c
    BY <1>3, <1>6 DEF ToSet
  <2> QED
    BY <1>3, <1>4, <1>6, <2>1
<1>7. /\ IdsShown(rank, row, n) = shown
      /\ IdsShown(rank, row, Cardinality(DOMAIN rank)) = whole
  BY <1>2 DEF N, IdsShown
<1>8. IsHeadOf(rank, shown, whole, n)
  BY <1>3, <1>5, <1>6 DEF Ahead, IsHeadOf
<1> QED
  BY <1>7, <1>8

\* A measure, and the order of list_cases where it is equal, strictly order the
\* cases, so that the walk for the most of it finds one case.
LEMMA MostExists ==
    ASSUME DeskInv, NEW measure, DOMAIN measure \in SUBSET DOMAIN cases,
           DOMAIN measure # {}, \A c \in DOMAIN measure : measure[c] \in Int
    PROVE  \E c : c \in FirstMost(measure)
<1> DEFINE S == DOMAIN measure
           R == {p \in S \X S : \/ measure[p[1]] > measure[p[2]]
                                \/ measure[p[1]] = measure[p[2]] /\ Before(p[1], p[2])}
<1>1. \A c, d \in S : <<c, d>> \in R <=>
         \/ measure[c] > measure[d]
         \/ measure[c] = measure[d] /\ Before(c, d)
  OBVIOUS
<1>2. IsFiniteSet(S)
  BY FS_Subset DEF DeskInv
<1>3. \A c \in S : /\ c \in Int /\ measure[c] \in Int /\ Priority(c) \in Int
                   /\ cases[c].opened \in Int
  BY SecondsPassed DEF Times
<1> HIDE DEF R
<1>4. StrictOrder(S, R)
  <2>1. \A c \in S : <<c, c>> \notin R
    BY <1>1, <1>3 DEF Before
  <2>2. \A c, d \in S : c # d => <<c, d>> \in R \/ <<d, c>> \in R
    BY <1>1, <1>3 DEF Before
  <2>3. \A c, d, e \in S : Before(c, d) /\ Before(d, e) => Before(c, e)
    BY <1>3 DEF Before
  <2>4. \A c, d, e \in S : <<c, d>> \in R /\ <<d, e>> \in R => <<c, e>> \in R
    BY <1>1, <1>3, <2>3
  <2> QED
    BY <2>1, <2>2, <2>4 DEF StrictOrder
<1>5. PICK c \in S : \A d \in S \ {c} : <<c, d>> \in R
  BY <1>2, <1>4, OrderHasFirst
<1>6. c \in FirstMost(measure)
  BY <1>1, <1>5 DEF FirstMost
<1> QED
  BY <1>6

\* The oldest case of the histogram is as old as the head of the list.
LEMMA OldestAgree ==
    ASSUME DeskInv, NEW b, ActionableCases(b) # {}
    PROVE  \E o \in summarize_case_queue_aging(b, now).oldest :
              o.seconds = list_top_actionable_cases_by_age(b, 1, now).cases[1].age
<1> DEFINE S == ActionableCases(b)
           rank == Ages(b, now)
           head == Top(rank, 1)[1]
<1>1. S \in SUBSET DOMAIN cases /\ DOMAIN rank = S /\ rank = [c \in S |-> Age(c, now)]
  BY DEF ActionableCases, CasesOf, Ages
<1>2. IsRanking(rank)
  BY <1>1, DeskRanks
<1>3. Cardinality(S) \in Nat /\ Cardinality(S) # 0
  BY <1>1, <1>2, FS_CardinalityType, FS_EmptySet DEF IsRanking
<1>4. /\ DOMAIN Top(rank, 1) = 1..1
      /\ head \in S /\ Place(rank, head) = 1
  <2>1. PICK N \in Nat : N = Cardinality(DOMAIN rank) /\ N # 0
    BY <1>1, <1>3
  <2>2. (IF 1 < N THEN 1 ELSE N) = 1
    BY <2>1
  <2>3. PICK ages : ages = rank
    OBVIOUS
  <2>4. /\ DOMAIN Top(ages, 1) = 1..1
        /\ \A i \in 1..1 : Top(ages, 1)[i] \in DOMAIN ages /\ Place(ages, Top(ages, 1)[i]) = i
    BY <1>2, <2>1, <2>2, <2>3, TopList
  <2> QED
    BY <1>1, <2>3, <2>4
<1>5. \A c \in S : ~Ahead(rank, c, head)
  BY <1>1, <1>2, <1>4, Places
<1>6. PICK c : c \in FirstMost([x \in S |-> Age(x, now)])
  <2>1. PICK ages : ages = [x \in S |-> Age(x, now)]
    OBVIOUS
  <2>2. /\ DOMAIN ages \in SUBSET DOMAIN cases /\ DOMAIN ages # {}
        /\ \A x \in DOMAIN ages : ages[x] \in Int
    BY <1>1, <2>1, SecondsPassed
  <2> QED
    BY <2>1, <2>2, MostExists
<1>7. /\ c \in S
      /\ \A d \in S \ {c} : rank[c] > rank[d] \/ rank[c] = rank[d]
  BY <1>1, <1>6 DEF FirstMost
<1>8. rank[c] = rank[head]
  BY <1>1, <1>2, <1>4, <1>5, <1>7 DEF Ahead, IsRanking
<1>9. [case_id |-> c, seconds |-> rank[c]] \in summarize_case_queue_aging(b, now).oldest
  BY <1>1, <1>6 DEF summarize_case_queue_aging, Aging, Extreme
<1>10. list_top_actionable_cases_by_age(b, 1, now).cases[1].age = rank[head]
  <2>1. list_top_actionable_cases_by_age(b, 1, now).cases
           = [i \in 1..1 |-> AgedRows(b, now)[Top(rank, 1)[i]]]
    BY <1>4 DEF list_top_actionable_cases_by_age, Listed
  <2>2. AgedRows(b, now)[head].age = rank[head]
    BY <1>1, <1>4 DEF AgedRows
  <2> QED
    BY <2>1, <2>2
<1> HIDE DEF rank, head
<1>11. PICK o : o = [case_id |-> c, seconds |-> rank[c]]
  OBVIOUS
<1>12. o \in summarize_case_queue_aging(b, now).oldest /\ o.seconds = rank[c]
  BY <1>9, <1>11
<1> QED
  BY <1>8, <1>10, <1>12

\* Each list, in the order it is named for.
LEMMA AgeStable ==
    ASSUME DeskInv, NEW b
    PROVE  Stable(LAMBDA n : list_top_actionable_cases_by_age(b, n, now), ActionableCases(b), LAMBDA c : Age(c, now))
<1> DEFINE S == ActionableCases(b)
           rank == [c \in S |-> Age(c, now)]
           row == AgedRows(b, now)
<1>1. S \in SUBSET DOMAIN cases
  BY DEF ActionableCases, CasesOf
<1>2. IsRanking(rank) /\ DOMAIN rank = S
  BY <1>1, DeskRanks
<1>3. \A c \in S : row[c].row.case_id = c
  BY DEF AgedRows, Row1
<1>4. \A n : list_top_actionable_cases_by_age(b, n, now) = Listed(rank, n, row)
  BY DEF list_top_actionable_cases_by_age, Ages
<1>5. \A c \in S : rank[c] = Age(c, now)
  OBVIOUS
<1> HIDE DEF S, rank, row
<1>6. ASSUME NEW n \in 1..Cardinality(S)
      PROVE  LET whole == Ids_(list_top_actionable_cases_by_age(b, Cardinality(S), now))
                 shown == IF n = Cardinality(S) THEN whole
                          ELSE Ids_(list_top_actionable_cases_by_age(b, n, now))
             IN /\ shown = SubSeq(whole, 1, n)
                /\ \A c \in S \ ToSet(shown) : \A i \in DOMAIN shown :
                      \/ Age(shown[i], now) > Age(c, now)
                      \/ Age(shown[i], now) = Age(c, now) /\ shown[i] < c
  <2>1. PICK whole, shown, r, w :
           /\ whole = Ids_(Listed(rank, Cardinality(S), row))
           /\ shown = IF n = Cardinality(S) THEN whole ELSE Ids_(Listed(rank, n, row))
           /\ r = rank /\ w = row
    OBVIOUS
  <2>2. /\ shown = SubSeq(whole, 1, n)
        /\ \A i \in DOMAIN shown : shown[i] \in S
        /\ \A c \in S \ ToSet(shown) : \A i \in DOMAIN shown :
              \/ rank[shown[i]] > rank[c]
              \/ rank[shown[i]] = rank[c] /\ shown[i] < c
    <3>1. IsRanking(r) /\ DOMAIN r = S /\ \A c \in DOMAIN r : w[c].row.case_id = c
      BY <1>2, <1>3, <2>1
    <3>2. n \in 1..Cardinality(DOMAIN r)
      BY <1>6, <3>1
    <3>3. /\ whole = IdsShown(r, w, Cardinality(DOMAIN r))
          /\ shown = IdsShown(r, w, n)
      BY <2>1, <3>1 DEF IdsShown
    <3>4. IsHeadOf(r, IdsShown(r, w, n), IdsShown(r, w, Cardinality(DOMAIN r)), n)
      BY <3>1, <3>2, ListedStable
    <3>5. IsHeadOf(r, shown, whole, n)
      BY <3>3, <3>4
    <3> QED
      BY <2>1, <3>1, <3>5 DEF IsHeadOf
  <2>3. \A c \in S \ ToSet(shown) : \A i \in DOMAIN shown :
           \/ Age(shown[i], now) > Age(c, now)
           \/ Age(shown[i], now) = Age(c, now) /\ shown[i] < c
    BY <1>5, <2>2
  <2>4. /\ whole = Ids_(list_top_actionable_cases_by_age(b, Cardinality(S), now))
        /\ shown = IF n = Cardinality(S) THEN whole
                   ELSE Ids_(list_top_actionable_cases_by_age(b, n, now))
    BY <1>4, <2>1
  <2> QED
    BY <2>2, <2>3, <2>4
<1> QED
  BY <1>6 DEF Stable, S

LEMMA PriorityStable ==
    ASSUME DeskInv, NEW b
    PROVE  Stable(LAMBDA n : list_top_actionable_cases_by_priority(b, n, now), ActionableCases(b), Priority)
<1> DEFINE S == ActionableCases(b)
           rank == [c \in S |-> Priority(c)]
           row == AgedRows(b, now)
<1>1. S \in SUBSET DOMAIN cases
  BY DEF ActionableCases, CasesOf
<1>2. IsRanking(rank) /\ DOMAIN rank = S
  BY <1>1, DeskRanks
<1>3. \A c \in S : row[c].row.case_id = c
  BY DEF AgedRows, Row1
<1>4. \A n : list_top_actionable_cases_by_priority(b, n, now) = Listed(rank, n, row)
  BY DEF list_top_actionable_cases_by_priority
<1>5. \A c \in S : rank[c] = Priority(c)
  OBVIOUS
<1> HIDE DEF S, rank, row
<1>6. ASSUME NEW n \in 1..Cardinality(S)
      PROVE  LET whole == Ids_(list_top_actionable_cases_by_priority(b, Cardinality(S), now))
                 shown == IF n = Cardinality(S) THEN whole
                          ELSE Ids_(list_top_actionable_cases_by_priority(b, n, now))
             IN /\ shown = SubSeq(whole, 1, n)
                /\ \A c \in S \ ToSet(shown) : \A i \in DOMAIN shown :
                      \/ Priority(shown[i]) > Priority(c)
                      \/ Priority(shown[i]) = Priority(c) /\ shown[i] < c
  <2>1. PICK whole, shown, r, w :
           /\ whole = Ids_(Listed(rank, Cardinality(S), row))
           /\ shown = IF n = Cardinality(S) THEN whole ELSE Ids_(Listed(rank, n, row))
           /\ r = rank /\ w = row
    OBVIOUS
  <2>2. /\ shown = SubSeq(whole, 1, n)
        /\ \A i \in DOMAIN shown : shown[i] \in S
        /\ \A c \in S \ ToSet(shown) : \A i \in DOMAIN shown :
              \/ rank[shown[i]] > rank[c]
              \/ rank[shown[i]] = rank[c] /\ shown[i] < c
    <3>1. IsRanking(r) /\ DOMAIN r = S /\ \A c \in DOMAIN r : w[c].row.case_id = c
      BY <1>2, <1>3, <2>1
    <3>2. n \in 1..Cardinality(DOMAIN r)
      BY <1>6, <3>1
    <3>3. /\ whole = IdsShown(r, w, Cardinality(DOMAIN r))
          /\ shown = IdsShown(r, w, n)
      BY <2>1, <3>1 DEF IdsShown
    <3>4. IsHeadOf(r, IdsShown(r, w, n), IdsShown(r, w, Cardinality(DOMAIN r)), n)
      BY <3>1, <3>2, ListedStable
    <3>5. IsHeadOf(r, shown, whole, n)
      BY <3>3, <3>4
    <3> QED
      BY <2>1, <3>1, <3>5 DEF IsHeadOf
  <2>3. \A c \in S \ ToSet(shown) : \A i \in DOMAIN shown :
           \/ Priority(shown[i]) > Priority(c)
           \/ Priority(shown[i]) = Priority(c) /\ shown[i] < c
    BY <1>5, <2>2
  <2>4. /\ whole = Ids_(list_top_actionable_cases_by_priority(b, Cardinality(S), now))
        /\ shown = IF n = Cardinality(S) THEN whole
                   ELSE Ids_(list_top_actionable_cases_by_priority(b, n, now))
    BY <1>4, <2>1
  <2> QED
    BY <2>2, <2>3, <2>4
<1> QED
  BY <1>6 DEF Stable, S

LEMMA IdleStable ==
    ASSUME DeskInv, NEW b
    PROVE  Stable(LAMBDA n : list_top_stalled_actionable_cases(b, n, now), ActionableCases(b), LAMBDA c : IdleTime(c, now))
<1> DEFINE S == ActionableCases(b)
           rank == [c \in S |-> IdleTime(c, now)]
           row == [c \in S |-> [row |-> Row1(c), age |-> Age(c, now), idle |-> IdleTime(c, now)]]
<1>1. S \in SUBSET DOMAIN cases
  BY DEF ActionableCases, CasesOf
<1>2. IsRanking(rank) /\ DOMAIN rank = S
  BY <1>1, DeskRanks
<1>3. \A c \in S : row[c].row.case_id = c
  BY DEF Row1
<1>4. \A n : list_top_stalled_actionable_cases(b, n, now) = Listed(rank, n, row)
  BY DEF list_top_stalled_actionable_cases, Idleness
<1>5. \A c \in S : rank[c] = IdleTime(c, now)
  OBVIOUS
<1> HIDE DEF S, rank, row
<1>6. ASSUME NEW n \in 1..Cardinality(S)
      PROVE  LET whole == Ids_(list_top_stalled_actionable_cases(b, Cardinality(S), now))
                 shown == IF n = Cardinality(S) THEN whole
                          ELSE Ids_(list_top_stalled_actionable_cases(b, n, now))
             IN /\ shown = SubSeq(whole, 1, n)
                /\ \A c \in S \ ToSet(shown) : \A i \in DOMAIN shown :
                      \/ IdleTime(shown[i], now) > IdleTime(c, now)
                      \/ IdleTime(shown[i], now) = IdleTime(c, now) /\ shown[i] < c
  <2>1. PICK whole, shown, r, w :
           /\ whole = Ids_(Listed(rank, Cardinality(S), row))
           /\ shown = IF n = Cardinality(S) THEN whole ELSE Ids_(Listed(rank, n, row))
           /\ r = rank /\ w = row
    OBVIOUS
  <2>2. /\ shown = SubSeq(whole, 1, n)
        /\ \A i \in DOMAIN shown : shown[i] \in S
        /\ \A c \in S \ ToSet(shown) : \A i \in DOMAIN shown :
              \/ rank[shown[i]] > rank[c]
              \/ rank[shown[i]] = rank[c] /\ shown[i] < c
    <3>1. IsRanking(r) /\ DOMAIN r = S /\ \A c \in DOMAIN r : w[c].row.case_id = c
      BY <1>2, <1>3, <2>1
    <3>2. n \in 1..Cardinality(DOMAIN r)
      BY <1>6, <3>1
    <3>3. /\ whole = IdsShown(r, w, Cardinality(DOMAIN r))
          /\ shown = IdsShown(r, w, n)
      BY <2>1, <3>1 DEF IdsShown
    <3>4. IsHeadOf(r, IdsShown(r, w, n), IdsShown(r, w, Cardinality(DOMAIN r)), n)
      BY <3>1, <3>2, ListedStable
    <3>5. IsHeadOf(r, shown, whole, n)
      BY <3>3, <3>4
    <3> QED
      BY <2>1, <3>1, <3>5 DEF IsHeadOf
  <2>3. \A c \in S \ ToSet(shown) : \A i \in DOMAIN shown :
           \/ IdleTime(shown[i], now) > IdleTime(c, now)
           \/ IdleTime(shown[i], now) = IdleTime(c, now) /\ shown[i] < c
    BY <1>5, <2>2
  <2>4. /\ whole = Ids_(list_top_stalled_actionable_cases(b, Cardinality(S), now))
        /\ shown = IF n = Cardinality(S) THEN whole
                   ELSE Ids_(list_top_stalled_actionable_cases(b, n, now))
    BY <1>4, <2>1
  <2> QED
    BY <2>2, <2>3, <2>4
<1> QED
  BY <1>6 DEF Stable, S

LEMMA DegradedStable ==
    ASSUME DeskInv, NEW b
    PROVE  Stable(LAMBDA n : list_top_actionable_degraded_cases(b, n, now), DegradedCases(b), Priority)
<1> DEFINE S == DegradedCases(b)
           rank == [c \in S |-> Priority(c)]
           row == [c \in S |-> [row |-> Row1(c), age |-> Age(c, now),
                               freshness |-> WorstFreshness(c),
                               evidence_at |-> LatestEvidenceAt(c),
                               sources |-> SourceConnectors(c)]]
<1>1. S \in SUBSET DOMAIN cases
  BY DEF DegradedCases, ActionableCases, CasesOf
<1>2. IsRanking(rank) /\ DOMAIN rank = S
  BY <1>1, DeskRanks
<1>3. \A c \in S : row[c].row.case_id = c
  BY DEF Row1
<1>4. \A n : list_top_actionable_degraded_cases(b, n, now) = Listed(rank, n, row)
  BY DEF list_top_actionable_degraded_cases
<1>5. \A c \in S : rank[c] = Priority(c)
  OBVIOUS
<1> HIDE DEF S, rank, row
<1>6. ASSUME NEW n \in 1..Cardinality(S)
      PROVE  LET whole == Ids_(list_top_actionable_degraded_cases(b, Cardinality(S), now))
                 shown == IF n = Cardinality(S) THEN whole
                          ELSE Ids_(list_top_actionable_degraded_cases(b, n, now))
             IN /\ shown = SubSeq(whole, 1, n)
                /\ \A c \in S \ ToSet(shown) : \A i \in DOMAIN shown :
                      \/ Priority(shown[i]) > Priority(c)
                      \/ Priority(shown[i]) = Priority(c) /\ shown[i] < c
  <2>1. PICK whole, shown, r, w :
           /\ whole = Ids_(Listed(rank, Cardinality(S), row))
           /\ shown = IF n = Cardinality(S) THEN whole ELSE Ids_(Listed(rank, n, row))
           /\ r = rank /\ w = row
    OBVIOUS
  <2>2. /\ shown = SubSeq(whole, 1, n)
        /\ \A i \in DOMAIN shown : shown[i] \in S
        /\ \A c \in S \ ToSet(shown) : \A i \in DOMAIN shown :
              \/ rank[shown[i]] > rank[c]
              \/ rank[shown[i]] = rank[c] /\ shown[i] < c
    <3>1. IsRanking(r) /\ DOMAIN r = S /\ \A c \in DOMAIN r : w[c].row.case_id = c
      BY <1>2, <1>3, <2>1
    <3>2. n \in 1..Cardinality(DOMAIN r)
      BY <1>6, <3>1
    <3>3. /\ whole = IdsShown(r, w, Cardinality(DOMAIN r))
          /\ shown = IdsShown(r, w, n)
      BY <2>1, <3>1 DEF IdsShown
    <3>4. IsHeadOf(r, IdsShown(r, w, n), IdsShown(r, w, Cardinality(DOMAIN r)), n)
      BY <3>1, <3>2, ListedStable
    <3>5. IsHeadOf(r, shown, whole, n)
      BY <3>3, <3>4
    <3> QED
      BY <2>1, <3>1, <3>5 DEF IsHeadOf
  <2>3. \A c \in S \ ToSet(shown) : \A i \in DOMAIN shown :
           \/ Priority(shown[i]) > Priority(c)
           \/ Priority(shown[i]) = Priority(c) /\ shown[i] < c
    BY <1>5, <2>2
  <2>4. /\ whole = Ids_(list_top_actionable_degraded_cases(b, Cardinality(S), now))
        /\ shown = IF n = Cardinality(S) THEN whole
                   ELSE Ids_(list_top_actionable_degraded_cases(b, n, now))
    BY <1>4, <2>1
  <2> QED
    BY <2>2, <2>3, <2>4
<1> QED
  BY <1>6 DEF Stable, S

\* Whatever the limit, the list names the cases at the head of the one order; what
\* it leaves out ranks no higher; and the histogram names the oldest case.
THEOREM StableTriage == DeskSpec => []TriageIsStable
<1>1. ASSUME DeskInv, NEW b \in Businesses
      PROVE  /\ Stable(LAMBDA n : list_top_actionable_cases_by_age(b, n, now),
                       ActionableCases(b), LAMBDA c : Age(c, now))
             /\ Stable(LAMBDA n : list_top_actionable_cases_by_priority(b, n, now),
                       ActionableCases(b), Priority)
             /\ Stable(LAMBDA n : list_top_stalled_actionable_cases(b, n, now),
                       ActionableCases(b), LAMBDA c : IdleTime(c, now))
             /\ Stable(LAMBDA n : list_top_actionable_degraded_cases(b, n, now),
                       DegradedCases(b), Priority)
             /\ ActionableCases(b) # {} =>
                   \E o \in summarize_case_queue_aging(b, now).oldest :
                      o.seconds = list_top_actionable_cases_by_age(b, 1, now).cases[1].age
  <2>1. Stable(LAMBDA n : list_top_actionable_cases_by_age(b, n, now),
               ActionableCases(b), LAMBDA c : Age(c, now))
    BY <1>1, AgeStable DEF Stable
  <2>2. Stable(LAMBDA n : list_top_actionable_cases_by_priority(b, n, now),
               ActionableCases(b), Priority)
    BY <1>1, PriorityStable DEF Stable
  <2>3. Stable(LAMBDA n : list_top_stalled_actionable_cases(b, n, now),
               ActionableCases(b), LAMBDA c : IdleTime(c, now))
    BY <1>1, IdleStable DEF Stable
  <2>4. Stable(LAMBDA n : list_top_actionable_degraded_cases(b, n, now),
               DegradedCases(b), Priority)
    BY <1>1, DegradedStable DEF Stable
  <2> QED
    BY <1>1, <2>1, <2>2, <2>3, <2>4, OldestAgree DEF Stable
<1>2. DeskInv => TriageIsStable
  BY <1>1 DEF TriageIsStable, Stable
<1> QED
  BY <1>2, DeskInvariant, PTL

-----------------------------------------------------------------------------
(***************************************************************************)
(* Queries.                                                                *)
(***************************************************************************)
\* What a clause with one value, or a set of values, selects.
LEMMA WhereWants ==
    ASSUME NEW field, NEW op, NEW type, NEW values
    PROVE  /\ Wanted(Where(field, op, type, values)) = values
           /\ Where(field, op, type, values).field = field
           /\ Where(field, op, type, values).op = op
<1>1. Where(field, op, type, values) =
        [field |-> field, op |-> op,
         values |-> {[type |-> type, value |-> w] : w \in values}]
  BY DEF Where, Value
<1>2. {u.value : u \in {[type |-> type, value |-> w] : w \in values}} = values
  <2>1. \A w : [type |-> type, value |-> w].value = w
    OBVIOUS
  <2> QED
    BY <2>1
<1> QED
  BY <1>1, <1>2 DEF Wanted

LEMMA SelectsOne ==
    ASSUME NEW S, NEW clause
    PROVE  Selected(S, <<clause>>) = {c \in S : Matches(c, clause)}
BY DEF Selected

LEMMA ClauseMatches ==
    ASSUME NEW c, NEW field, field # "source_connector", NEW type, NEW values
    PROVE  /\ Matches(c, Where(field, "=", type, values)) <=> FieldValue(c, field) \in values
           /\ Matches(c, Where(field, "IN", type, values)) <=> FieldValue(c, field) \in values
           /\ Matches(c, Where(field, "!=", type, values)) <=> FieldValue(c, field) \notin values
<1> DEFINE Is(op) == Where(field, op, type, values)
<1>1. \A op : Wanted(Is(op)) = values /\ Is(op).field = field /\ Is(op).op = op
  BY WhereWants
<1> HIDE DEF Is
<1>2. Matches(c, Is("=")) <=> FieldValue(c, field) \in values
  BY <1>1 DEF Matches
<1>3. Matches(c, Is("IN")) <=> FieldValue(c, field) \in values
  BY <1>1 DEF Matches
<1>4. Matches(c, Is("!=")) <=> FieldValue(c, field) \notin values
  BY <1>1 DEF Matches
<1> QED
  BY <1>2, <1>3, <1>4 DEF Is

LEMMA ComparisonMatches ==
    ASSUME NEW c, NEW field, field # "source_connector", NEW type, NEW v
    PROVE  LET x == FieldValue(c, field) IN
           /\ Matches(c, Where(field, "<", type, {v})) <=> ~IsNone(field, x) /\ x < v
           /\ Matches(c, Where(field, "<=", type, {v})) <=> ~IsNone(field, x) /\ x <= v
           /\ Matches(c, Where(field, ">=", type, {v})) <=> ~IsNone(field, x) /\ x >= v
<1> DEFINE Is(op) == Where(field, op, type, {v})
<1>1. \A op : Wanted(Is(op)) = {v} /\ Is(op).field = field /\ Is(op).op = op
  BY WhereWants
<1>2. PICK x : x = FieldValue(c, field)
  OBVIOUS
<1> HIDE DEF Is
<1>3. Matches(c, Is("<")) <=> ~IsNone(field, x) /\ x < v
  BY <1>1, <1>2 DEF Matches, Ordered
<1>4. Matches(c, Is("<=")) <=> ~IsNone(field, x) /\ x <= v
  BY <1>1, <1>2 DEF Matches, Ordered
<1>5. Matches(c, Is(">=")) <=> ~IsNone(field, x) /\ x >= v
  BY <1>1, <1>2 DEF Matches, Ordered
<1> QED
  BY <1>2, <1>3, <1>4, <1>5 DEF Is

\* Two parts of a finite set that have nothing in common.
LEMMA PartsAddUp ==
    ASSUME NEW S, IsFiniteSet(S), NEW A \in SUBSET S, NEW B \in SUBSET S, A \cap B = {}
    PROVE  Cardinality(A) + Cardinality(B) = Cardinality(A \cup B)
<1>1. IsFiniteSet(A) /\ IsFiniteSet(B) /\ Cardinality(A) \in Nat /\ Cardinality(B) \in Nat
  BY FS_Subset, FS_CardinalityType
<1>2. Cardinality(A \cup B) = Cardinality(A) + Cardinality(B) - Cardinality(A \cap B)
  BY <1>1, FS_Union
<1> QED
  BY <1>1, <1>2, FS_EmptySet

\* The values of the fields that queries compare.
LEMMA FieldsTyped ==
    ASSUME DeskInv, NEW c \in DOMAIN cases, NEW field \in Comparable
    PROVE  /\ field # "source_connector"
           /\ FieldSpecs[field].type \notin {"int", "datetime"} =>
                 FieldValue(c, field) \in ValuesOf(FieldSpecs[field].type)
           /\ FieldSpecs[field].type \in {"int", "datetime"} =>
                 FieldValue(c, field) \in Int
<1>1. cases[c] \in Row
  BY DEF DeskInv, TypeOK
<1>2. /\ Priority(c) \in Int /\ Severity(c) \in Severities
  BY <1>1, FieldsOfLatest DEF DeskInv, RowsAreLawful
<1>3. field \in {"status", "status_category", "case_type", "severity", "priority_score",
                 "degraded", "opened_at", "updated_at", "resolved_at"}
  BY DEF Comparable, FieldSpecs
<1>4. /\ FieldSpecs["status"].type = "status"
      /\ FieldSpecs["status_category"].type = "category"
      /\ FieldSpecs["case_type"].type = "case_type"
      /\ FieldSpecs["severity"].type = "severity"
      /\ FieldSpecs["priority_score"].type = "int"
      /\ FieldSpecs["degraded"].type = "bool"
      /\ FieldSpecs["opened_at"].type = "datetime"
      /\ FieldSpecs["updated_at"].type = "datetime"
      /\ FieldSpecs["resolved_at"].type = "datetime"
  BY DEF FieldSpecs
<1>5. CASE field = "status"
  BY <1>1, <1>4, <1>5 DEF FieldValue, ValuesOf, Status, Row
<1>6. CASE field = "status_category"
  BY <1>4, <1>6 DEF FieldValue, ValuesOf, StatusCategory
<1>7. CASE field = "case_type"
  BY <1>1, <1>4, <1>7 DEF FieldValue, ValuesOf, Type, Row
<1>8. CASE field = "severity"
  BY <1>2, <1>4, <1>8 DEF FieldValue, ValuesOf
<1>9. CASE field = "degraded"
  BY <1>4, <1>9 DEF FieldValue, ValuesOf, IsDegraded
<1>10. CASE field = "priority_score"
  BY <1>2, <1>4, <1>10 DEF FieldValue
<1>11. CASE field \in {"opened_at", "updated_at", "resolved_at"}
  BY <1>1, <1>4, <1>11 DEF FieldValue, Row, Times
<1> QED
  BY <1>3, <1>5, <1>6, <1>7, <1>8, <1>9, <1>10, <1>11

\* Which fields may be compared, and which asked for one of several values.
LEMMA Accepting ==
    ASSUME NEW field \in Comparable, NEW v
    PROVE  LET type == FieldSpecs[field].type IN
           /\ Accepted(Where(field, "<", type, {v})) => type \in {"int", "datetime"}
           /\ Accepted(Where(field, "IN", type, {v})) => type \notin {"int", "datetime", "bool"}
<1> DEFINE type == FieldSpecs[field].type
<1>1. /\ "<" \in FieldSpecs[field].ops => type \in {"int", "datetime"}
      /\ "IN" \in FieldSpecs[field].ops => type \notin {"int", "datetime", "bool"}
  BY DEF FieldSpecs, Comparable, ChoiceOps, Equalities, Orders
<1>2. \A op : Accepted(Where(field, op, type, {v})) => op \in FieldSpecs[field].ops
  BY WhereWants DEF Accepted, ClauseError
<1> QED
  BY <1>1, <1>2

LEMMA LawsOfClause ==
    ASSUME DeskInv, NEW S \in SUBSET DOMAIN cases, NEW field \in Comparable,
           NEW one \in S, NEW v, v = FieldValue(one, field), ~IsNone(field, v)
    PROVE  ClauseLaws(S, field, v)
<1> DEFINE type == FieldSpecs[field].type
           Is(op) == Where(field, op, type, {v})
           set == {c \in S : ~IsNone(field, FieldValue(c, field))}
           equal == {c \in S : FieldValue(c, field) = v}
           other == {c \in S : FieldValue(c, field) # v}
           below == {c \in set : FieldValue(c, field) < v}
           above == {c \in set : FieldValue(c, field) >= v}
           others == Where(field, "IN", type, ValuesOf(type) \ {v})
<1>1. IsFiniteSet(S)
  BY FS_Subset DEF DeskInv
<1>2. \A c \in S : /\ field # "source_connector"
                   /\ type \notin {"int", "datetime"} => FieldValue(c, field) \in ValuesOf(type)
                   /\ type \in {"int", "datetime"} => FieldValue(c, field) \in Int
  BY FieldsTyped
<1>3. field # "source_connector"
  BY <1>2
<1>4. Selected(S, <<Is("=")>>) = equal /\ Selected(S, <<Is("!=")>>) = other
  BY <1>3, SelectsOne, ClauseMatches
<1>5. /\ Selected(S, <<Is("<")>>) = below
      /\ Selected(S, <<Is(">=")>>) = above
      /\ Selected(S, <<Is("<=")>>) = {c \in set : FieldValue(c, field) <= v}
  <2>1. \A c : LET x == FieldValue(c, field) IN
           /\ Matches(c, Is("<")) <=> ~IsNone(field, x) /\ x < v
           /\ Matches(c, Is("<=")) <=> ~IsNone(field, x) /\ x <= v
           /\ Matches(c, Is(">=")) <=> ~IsNone(field, x) /\ x >= v
    BY <1>3, ComparisonMatches
  <2>2. \A op : Selected(S, <<Is(op)>>) = {c \in S : Matches(c, Is(op))}
    BY SelectsOne
  <2> HIDE DEF Is
  <2>3. {c \in S : Matches(c, Is("<"))} = below
    BY <2>1
  <2>4. {c \in S : Matches(c, Is(">="))} = above
    BY <2>1
  <2>5. {c \in S : Matches(c, Is("<="))} = {c \in set : FieldValue(c, field) <= v}
    BY <2>1
  <2> QED
    BY <2>2, <2>3, <2>4, <2>5
<1>6. /\ Accepted(Is("<")) => type \in {"int", "datetime"}
      /\ Accepted(Is("IN")) => type \notin {"int", "datetime", "bool"}
  BY Accepting
<1>7. Selected(S, <<others>>) = {c \in S : FieldValue(c, field) \in ValuesOf(type) \ {v}}
  BY <1>3, SelectsOne, ClauseMatches
<1> HIDE DEF Is, others
<1>8. Total(S, <<Is("=")>>) + Total(S, <<Is("!=")>>) = Cardinality(S)
  <2>1. equal \cap other = {} /\ equal \cup other = S
    OBVIOUS
  <2> HIDE DEF equal, other
  <2>2. equal \in SUBSET S /\ other \in SUBSET S
    BY <2>1
  <2> QED
    BY <1>1, <1>4, <2>1, <2>2, PartsAddUp DEF Total
<1>9. ASSUME Accepted(Is("<"))
      PROVE  /\ Total(S, <<Is("<")>>) + Total(S, <<Is(">=")>>) = Cardinality(set)
             /\ Total(S, <<Is("<=")>>) = Total(S, <<Is("<")>>) + Total(S, <<Is("=")>>)
  <2>1. /\ v \in Int
        /\ \A c \in S : FieldValue(c, field) \in Int
    BY <1>2, <1>6, <1>9
  <2>2. below \cap above = {} /\ below \cup above = set
    BY <2>1
  <2>3. /\ below \cap equal = {}
        /\ below \cup equal = {c \in set : FieldValue(c, field) <= v}
    BY <2>1
  <2>4. below \in SUBSET S /\ above \in SUBSET S /\ equal \in SUBSET S
    OBVIOUS
  <2> HIDE DEF below, above, equal, set
  <2>5. Cardinality(below) + Cardinality(above) = Cardinality(set)
    BY <1>1, <2>2, <2>4, PartsAddUp
  <2>6. Cardinality(below) + Cardinality(equal) = Cardinality(below \cup equal)
    BY <1>1, <2>3, <2>4, PartsAddUp
  <2> QED
    BY <1>4, <1>5, <2>3, <2>5, <2>6 DEF Total
<1>10. ASSUME Accepted(Is("IN")) PROVE Total(S, <<others>>) = Total(S, <<Is("!=")>>)
  <2>1. \A c \in S : FieldValue(c, field) \in ValuesOf(type)
    BY <1>2, <1>6, <1>10
  <2>2. {c \in S : FieldValue(c, field) \in ValuesOf(type) \ {v}} = other
    BY <2>1
  <2> QED
    BY <1>4, <1>7, <2>2 DEF Total
<1> QED
  BY <1>8, <1>9, <1>10 DEF ClauseLaws, Is, others

LEMMA LawsOfConnector ==
    ASSUME DeskInv, NEW S \in SUBSET DOMAIN cases
    PROVE  ConnectorLaws(S)
<1> SUFFICES ASSUME NEW s
             PROVE  LET Is(op) == Where("source_connector", op, "string", {s})
                    IN Total(S, <<Is("=")>>) + Total(S, <<Is("!=")>>) = Cardinality(S)
  BY DEF ConnectorLaws
<1> DEFINE Is(op) == Where("source_connector", op, "string", {s})
           from == {c \in S : s \in SourceConnectors(c)}
           other == {c \in S : s \notin SourceConnectors(c)}
<1>1. IsFiniteSet(S)
  BY FS_Subset DEF DeskInv
<1>2. \A op : /\ Wanted(Is(op)) = {s} /\ Is(op).op = op
              /\ Is(op).field = "source_connector"
  BY WhereWants
<1> HIDE DEF Is
<1>3. \A c : /\ Matches(c, Is("=")) <=> s \in SourceConnectors(c)
             /\ Matches(c, Is("!=")) <=> s \notin SourceConnectors(c)
  <2> SUFFICES ASSUME NEW c
               PROVE  /\ Matches(c, Is("=")) <=> s \in SourceConnectors(c)
                      /\ Matches(c, Is("!=")) <=> s \notin SourceConnectors(c)
    OBVIOUS
  <2>1. SourceConnectors(c) \cap Wanted(Is("=")) # {} <=> s \in SourceConnectors(c)
    BY <1>2
  <2>2. SourceConnectors(c) \cap Wanted(Is("!=")) # {} <=> s \in SourceConnectors(c)
    BY <1>2
  <2>3. Is("=").op = "=" /\ Is("=").field = "source_connector"
    BY <1>2
  <2>4. Is("!=").op = "!=" /\ Is("!=").field = "source_connector"
    BY <1>2
  <2>5. Matches(c, Is("=")) <=> s \in SourceConnectors(c)
    BY <2>1, <2>3 DEF Matches
  <2>6. Matches(c, Is("!=")) <=> s \notin SourceConnectors(c)
    BY <2>2, <2>4 DEF Matches
  <2> QED
    BY <2>5, <2>6
<1>4. Selected(S, <<Is("=")>>) = from /\ Selected(S, <<Is("!=")>>) = other
  BY <1>3, SelectsOne
<1>5. from \cap other = {} /\ from \cup other = S
      /\ from \in SUBSET S /\ other \in SUBSET S
  OBVIOUS
<1> HIDE DEF from, other
<1>6. Cardinality(from) + Cardinality(other) = Cardinality(S)
  BY <1>1, <1>5, PartsAddUp
<1> QED
  BY <1>4, <1>6 DEF Total, Is

\* Negating a clause selects the other cases, and comparisons part the cases that
\* have the date: splitting a queue by a query loses no case and shows none twice.
THEOREM SplitQueues == DeskSpec => []QueriesPartition
<1>1. ASSUME DeskInv, NEW b \in Businesses
      PROVE  LET S == CasesOf(b) IN
             /\ \A field \in Comparable :
                   \A v \in {FieldValue(c, field) : c \in S} :
                      IsNone(field, v) \/ ClauseLaws(S, field, v)
             /\ ConnectorLaws(S)
  <2>1. CasesOf(b) \in SUBSET DOMAIN cases
    BY DEF CasesOf
  <2>2. PICK S \in SUBSET DOMAIN cases : S = CasesOf(b)
    BY <2>1
  <2>3. ConnectorLaws(S)
    BY <1>1, LawsOfConnector
  <2>4. \A field \in Comparable : \A v \in {FieldValue(c, field) : c \in S} :
           IsNone(field, v) \/ ClauseLaws(S, field, v)
    BY <1>1, LawsOfClause
  <2> QED
    BY <2>2, <2>3, <2>4
<1>2. DeskInv => QueriesPartition
  BY <1>1 DEF QueriesPartition
<1> QED
  BY <1>2, DeskInvariant, PTL
-----------------------------------------------------------------------------
(***************************************************************************)
(* The latencies.                                                          *)
(***************************************************************************)
\* A quotient that is rounded down stays between the bounds.
LEMMA Quotient ==
    ASSUME NEW t \in Int, NEW n \in Nat, n > 0, NEW lo \in Int, NEW hi \in Int,
           lo * n <= t, t <= hi * n
    PROVE  t \div n \in lo..hi
<1>1. PICK q \in Int : q = t \div n
  OBVIOUS
<1>2. n * q <= t /\ t < n * q + n
  BY <1>1
<1>3. q >= lo
  <2> SUFFICES ASSUME q + 1 <= lo PROVE FALSE
    OBVIOUS
  <2>1. (q + 1) * n <= lo * n
    OBVIOUS
  <2>2. (q + 1) * n = n * q + n
    OBVIOUS
  <2> QED
    BY <1>2, <2>1, <2>2
<1>4. q <= hi
  <2> SUFFICES ASSUME hi + 1 <= q PROVE FALSE
    OBVIOUS
  <2>1. (hi + 1) * n <= n * q
    OBVIOUS
  <2>2. (hi + 1) * n = hi * n + n
    OBVIOUS
  <2> QED
    BY <1>2, <2>1, <2>2
<1> QED
  BY <1>1, <1>3, <1>4

LEMMA Columns ==
    ASSUME DeskInv, NEW c \in DOMAIN cases
    PROVE  /\ cases[c].status \in Statuses
           /\ cases[c].opened \in Times \ {0} /\ cases[c].acknowledged \in Times
           /\ cases[c].resolved \in Times
           /\ cases[c].acknowledged # 0 => cases[c].opened <= cases[c].acknowledged
           /\ cases[c].status \in {"acknowledged", "in_progress", "resolved"} =>
                 cases[c].acknowledged # 0
           /\ cases[c].resolved # 0 <=> cases[c].status = "resolved"
           /\ cases[c].resolved # 0 => /\ cases[c].acknowledged <= cases[c].resolved
                                       /\ cases[c].opened <= cases[c].resolved
<1>1. cases[c] \in Row /\ Dated(cases[c]) /\ Paced(cases[c], now)
  BY DEF DeskInv, TypeOK
<1> QED
  BY <1>1 DEF Row, Dated, ValidTimes, Paced

LEMMA LastStart ==
    ASSUME DeskInv, NEW c \in DOMAIN cases, cases[c].status = "in_progress"
    PROVE  LatestInProgressAt(c) = cases[c].acknowledged
<1> DEFINE tl == cases[c].timeline
           ack == cases[c].acknowledged
           dates == {0} \cup {tl[i].at : i \in Starts(tl)}
<1>1. cases[c] \in Row /\ Paced(cases[c], now)
  BY DEF DeskInv, TypeOK
<1>2. ack \in Int /\ 0 <= ack
  BY <1>1 DEF Row, Times
<1>3. /\ \E i \in Starts(tl) : tl[i].at = ack
      /\ \A i \in Starts(tl) : tl[i].at <= ack
  BY <1>1 DEF Paced
<1>4. ack \in dates /\ \A d \in dates : ack >= d
  <2> HIDE DEF ack
  <2>1. \A i \in Starts(tl) : tl[i].at \in Int
    <3>1. \A i \in DOMAIN tl : tl[i] \in Event
      BY <1>1 DEF Row
    <3> QED
      BY <3>1 DEF Starts, Event, Times
  <2> QED
    BY <1>2, <1>3, <2>1
<1>5. dates \subseteq Int
  <2>1. \A i \in DOMAIN tl : tl[i] \in Event
    BY <1>1 DEF Row
  <2> QED
    BY <2>1 DEF Starts, Event, Times
<1>6. LatestInProgressAt(c) = Max(dates)
  BY DEF LatestInProgressAt, Starts
<1> HIDE DEF dates, ack
<1>7. Max(dates) = ack
  <2>1. Max(dates) = CHOOSE x \in dates : \A y \in dates : x >= y
    BY DEF Max
  <2>2. PICK m : m = CHOOSE x \in dates : \A y \in dates : x >= y
    OBVIOUS
  <2>3. m \in dates /\ \A y \in dates : m >= y
    BY <1>4, <2>2
  <2>4. m \in Int /\ ack \in Int /\ m >= ack /\ ack >= m
    BY <1>4, <1>5, <2>3
  <2> QED
    BY <2>1, <2>2, <2>4
<1> QED
  BY <1>6, <1>7 DEF ack

\* What the walk for the most finds is at least as much as any other.
LEMMA MostIsLargest ==
    ASSUME NEW measure, \A c \in DOMAIN measure : measure[c] \in Int,
           NEW c \in FirstMost(measure)
    PROVE  c \in DOMAIN measure /\ \A d \in DOMAIN measure : measure[d] <= measure[c]
<1>1. c \in DOMAIN measure
  BY DEF FirstMost
<1>2. ASSUME NEW d \in DOMAIN measure PROVE measure[d] <= measure[c]
  <2>1. d = c \/ measure[c] > measure[d] \/ measure[c] = measure[d]
    BY DEF FirstMost
  <2>2. measure[c] \in Int /\ measure[d] \in Int
    BY <1>1
  <2> QED
    BY <2>1, <2>2
<1> QED
  BY <1>1, <1>2

\* The values of a ranking that says shortest first, in that order.
ShortestFirst(took) == [c \in DOMAIN took |-> 0 - took[c]]

SortedUp(took) ==
    LET n == Cardinality(DOMAIN took)
    IN [i \in 1..n |-> took[Top(ShortestFirst(took), n)[i]]]

Ascends(sorted, took, n) ==
    /\ n \in Nat
    /\ \A i \in 1..n : sorted[i] \in Int /\ \E c \in DOMAIN took : sorted[i] = took[c]
    /\ \A i, j \in 1..n : i <= j => sorted[i] <= sorted[j]
    /\ \A c \in DOMAIN took : sorted[1] <= took[c] /\ took[c] <= sorted[n]

LEMMA SortedTimes ==
    ASSUME NEW took, IsFiniteSet(DOMAIN took), DOMAIN took \subseteq Int,
           \A c \in DOMAIN took : took[c] \in Int, DOMAIN took # {}
    PROVE  /\ Cardinality(DOMAIN took) # 0
           /\ Ascends(SortedUp(took), took, Cardinality(DOMAIN took))
<1>14. PICK n : n = Cardinality(DOMAIN took)
  OBVIOUS
<1>12. PICK sorted : sorted = [i \in 1..n |-> took[Top(ShortestFirst(took), n)[i]]]
  OBVIOUS
<1>13. SortedUp(took) = sorted
  BY <1>14, <1>12 DEF SortedUp
<1>1. n \in Nat /\ n # 0
  BY <1>14, FS_CardinalityType, FS_EmptySet
<1>2. PICK rank : rank = ShortestFirst(took)
  OBVIOUS
<1>3. /\ DOMAIN rank = DOMAIN took /\ \A c \in DOMAIN rank : rank[c] = 0 - took[c]
      /\ IsRanking(rank)
  BY <1>2 DEF ShortestFirst, IsRanking
<1>4. PICK list : list = Top(rank, n)
  OBVIOUS
<1>5. \A i \in 1..n : list[i] \in DOMAIN rank /\ Place(rank, list[i]) = i
  <2>1. \A i \in 1..(IF n < n THEN n ELSE n) :
           Top(rank, n)[i] \in DOMAIN rank /\ Place(rank, Top(rank, n)[i]) = i
    BY <1>14, <1>1, <1>3, TopList
  <2> QED
    BY <1>1, <1>4, <2>1
<1>6. \A i \in 1..n : /\ sorted[i] = took[list[i]] /\ sorted[i] \in Int
                        /\ list[i] \in DOMAIN took
  BY <1>12, <1>2, <1>3, <1>4, <1>5
<1>7. \A c \in DOMAIN rank : Place(rank, c) \in 1..n
  BY <1>14, <1>3, Places
<1>8. ASSUME NEW c \in DOMAIN rank, NEW d \in DOMAIN rank, Place(rank, c) <= Place(rank, d)
      PROVE  took[c] <= took[d]
  <2>1. ~(Place(rank, d) < Place(rank, c))
    BY <1>1, <1>7, <1>8
  <2>2. ~Ahead(rank, d, c)
    BY <1>3, <2>1, Places
  <2>3. took[c] \in Int /\ took[d] \in Int
    BY <1>3
  <2> QED
    BY <1>3, <2>2, <2>3 DEF Ahead
<1>9. ASSUME NEW i \in 1..n, NEW j \in 1..n, i <= j PROVE sorted[i] <= sorted[j]
  BY <1>5, <1>6, <1>8, <1>9
<1>10. ASSUME NEW c \in DOMAIN took PROVE sorted[1] <= took[c] /\ took[c] <= sorted[n]
  <2>1. 1 \in 1..n /\ n \in 1..n
    BY <1>1
  <2>2. 1 <= Place(rank, c) /\ Place(rank, c) <= n
    BY <1>1, <1>3, <1>7
  <2>3. Place(rank, list[1]) <= Place(rank, c) /\ Place(rank, c) <= Place(rank, list[n])
    BY <1>5, <2>1, <2>2
  <2> QED
    BY <1>3, <1>5, <1>6, <1>8, <2>1, <2>3
<1>11. \A i \in 1..n : \E c \in DOMAIN took : sorted[i] = took[c]
  BY <1>6
<1> QED
  BY <1>14, <1>1, <1>13, <1>6, <1>9, <1>10, <1>11 DEF Ascends

LEMMA SummaryOf ==
    ASSUME NEW took, Cardinality(DOMAIN took) # 0
    PROVE  LET n == Cardinality(DOMAIN took)
               sorted == SortedUp(took)
               mid == n \div 2
           IN LatencySummary(took) =
                 [min |-> sorted[1], max |-> sorted[n], avg |-> SumOf(took) \div n,
                  median |-> IF n % 2 = 1 THEN sorted[mid + 1]
                             ELSE (sorted[mid] + sorted[mid + 1]) \div 2]
BY DEF LatencySummary, ShortestFirst, SortedUp

LEMMA SummaryBounds ==
    ASSUME DeskInv, NEW took, DOMAIN took \in SUBSET DOMAIN cases,
           \A c \in DOMAIN took : took[c] \in Int, NEW group
    PROVE  Bounds(LatencySummary(took), Latency(took, group))
<1>1. PICK n : n = Cardinality(DOMAIN took)
  OBVIOUS
<1>2. IsFiniteSet(DOMAIN took) /\ DOMAIN took \subseteq Int
  BY FS_Subset, SecondsPassed DEF DeskInv
<1>3. /\ Latency(took, group).fastest = Extreme(ShortestFirst(took), took)
      /\ Latency(took, group).slowest = Extreme(took, took)
  BY DEF Latency, ShortestFirst
<1>4. CASE DOMAIN took = {}
  <2>1. LatencySummary(took) = <<>>
    BY <1>4, FS_EmptySet DEF LatencySummary
  <2>2. FirstMost(took) = {} /\ FirstMost(ShortestFirst(took)) = {}
    BY <1>4 DEF FirstMost, ShortestFirst
  <2> QED
    BY <1>3, <2>1, <2>2 DEF Bounds, Extreme
<1>5. CASE DOMAIN took # {}
  <2>16. n # 0 /\ Ascends(SortedUp(took), took, n)
    BY <1>1, <1>2, <1>5, SortedTimes
  <2>1. n # 0
    BY <2>16
  <2>2. PICK sorted : sorted = SortedUp(took)
    OBVIOUS
  <2>3. /\ n \in Nat
        /\ \A i \in 1..n :
              sorted[i] \in Int /\ \E c \in DOMAIN took : sorted[i] = took[c]
        /\ \A i, j \in 1..n : i <= j => sorted[i] <= sorted[j]
        /\ \A c \in DOMAIN took : sorted[1] <= took[c] /\ took[c] <= sorted[n]
    BY <2>16, <2>2 DEF Ascends
  <2>4. PICK lo, hi, mid : lo = sorted[1] /\ hi = sorted[n] /\ mid = n \div 2
    OBVIOUS
  <2>5. PICK median : median = IF n % 2 = 1 THEN sorted[mid + 1]
                               ELSE (sorted[mid] + sorted[mid + 1]) \div 2
    OBVIOUS
  <2>6. PICK avg : avg = SumOf(took) \div n
    OBVIOUS
  <2>7. PICK summary : summary = [min |-> lo, max |-> hi, avg |-> avg, median |-> median]
    OBVIOUS
  <2>8. LatencySummary(took) = summary
    <3>1. LatencySummary(took) =
             [min |-> sorted[1], max |-> sorted[n], avg |-> SumOf(took) \div n,
              median |-> IF n % 2 = 1 THEN sorted[n \div 2 + 1]
                         ELSE (sorted[n \div 2] + sorted[n \div 2 + 1]) \div 2]
      BY <1>1, <2>1, <2>2, SummaryOf
    <3> QED
      BY <2>4, <2>5, <2>6, <2>7, <3>1
  <2>9. lo \in Int /\ hi \in Int /\ 1 \in 1..n /\ n \in 1..n
    BY <2>1, <2>3, <2>4
  <2>10. avg \in lo..hi
    <3>1. /\ SumOf(took) \in Int
          /\ lo * n <= SumOf(took) /\ SumOf(took) <= hi * n
      BY <1>1, <1>2, <2>3, <2>4, <2>9, SumsBounded
    <3> QED
      BY <2>1, <2>3, <2>6, <2>9, <3>1, Quotient
  <2>11. median \in lo..hi
    <3>1. \A i \in 1..n : sorted[i] \in Int /\ lo <= sorted[i] /\ sorted[i] <= hi
      BY <2>3, <2>4, <2>9
    <3>2. CASE n % 2 = 1
      <4>1. mid + 1 \in 1..n
        BY <2>3, <2>4, <3>2
      <4> QED
        BY <2>5, <2>9, <3>1, <3>2, <4>1
    <3>3. CASE n % 2 # 1
      <4>1. mid \in 1..n /\ mid + 1 \in 1..n
        BY <2>1, <2>3, <2>4, <3>3
      <4>2. PICK x, y : x = sorted[mid] /\ y = sorted[mid + 1]
        OBVIOUS
      <4>3. /\ x \in Int /\ lo <= x /\ x <= hi
            /\ y \in Int /\ lo <= y /\ y <= hi
        BY <3>1, <4>1, <4>2
      <4>4. (x + y) \div 2 \in lo..hi
        BY <2>9, <4>3
      <4> QED
        BY <2>5, <3>3, <4>2, <4>4
    <3> QED
      BY <3>2, <3>3
  <2>12. \E f \in Latency(took, group).fastest : lo = f.seconds
    <3>1. PICK rank : rank = ShortestFirst(took)
      OBVIOUS
    <3>2. DOMAIN rank = DOMAIN took /\ \A c \in DOMAIN took : rank[c] = 0 - took[c]
      BY <3>1 DEF ShortestFirst
    <3>3. PICK c : c \in FirstMost(rank)
      BY <1>5, <3>2, MostExists
    <3>4. c \in DOMAIN took /\ \A d \in DOMAIN took : rank[d] <= rank[c]
      BY <3>2, <3>3, MostIsLargest
    <3>5. \A d \in DOMAIN took : took[c] <= took[d]
      BY <3>2, <3>4
    <3>6. took[c] = lo
      BY <1>1, <2>3, <2>4, <2>9, <3>4, <3>5
    <3>7. [case_id |-> c, seconds |-> took[c]] \in Latency(took, group).fastest
      BY <1>3, <3>1, <3>3 DEF Extreme
    <3> QED
      BY <3>6, <3>7
  <2>13. \E s \in Latency(took, group).slowest : hi = s.seconds
    <3>1. PICK c : c \in FirstMost(took)
      BY <1>5, MostExists
    <3>2. c \in DOMAIN took /\ \A d \in DOMAIN took : took[d] <= took[c]
      BY <3>1, MostIsLargest
    <3>3. took[c] = hi
      BY <2>3, <2>4, <2>9, <3>2
    <3>4. [case_id |-> c, seconds |-> took[c]] \in Latency(took, group).slowest
      BY <1>3, <3>1 DEF Extreme
    <3> QED
      BY <3>3, <3>4
  <2>14. summary # <<>>
    BY <2>7
  <2>15. summary.min = lo /\ summary.max = hi /\ summary.avg = avg /\ summary.median = median
    BY <2>7
  <2> QED
    BY <2>8, <2>10, <2>11, <2>12, <2>13, <2>14, <2>15 DEF Bounds
<1> QED
  BY <1>4, <1>5

\* How long it took: no clamp bites, and truncating loses at most a second.
LEMMA NoClampBites ==
    ASSUME DeskInv, NEW c \in DOMAIN cases
    PROVE  /\ cases[c].acknowledged # 0 =>
                 AckLatency(c) = TimeToAck(c) /\ AckLatency(c) \in Int
           /\ cases[c].resolved # 0 =>
                 /\ ResolutionLatency(c) = TimeToResolve(c) /\ ResolutionLatency(c) \in Int
                 /\ cases[c].acknowledged # 0
                 /\ ResolutionLatency(c) - AckLatency(c) - HandlingLatency(c) \in {0, 1}
<1>1. PICK opened, acked, resolved :
         /\ opened = cases[c].opened /\ acked = cases[c].acknowledged
         /\ resolved = cases[c].resolved
  OBVIOUS
<1>2. /\ opened \in Times \ {0} /\ acked \in Times /\ resolved \in Times
      /\ acked # 0 => opened <= acked
      /\ resolved # 0 => acked # 0 /\ acked <= resolved /\ opened <= resolved
  BY <1>1, Columns
<1>3. \A t \in Times \ {0} : t \in Int /\ Instants[t] \in Int
  BY PayloadAssumption DEF Times
<1>4. ASSUME NEW t \in Times \ {0}, NEW u \in Times \ {0}, t <= u
      PROVE  /\ Instants[u] - Instants[t] \in Nat
             /\ Elapsed(t, u) = (Instants[u] - Instants[t]) \div Second
             /\ Seconds(t, u) = Elapsed(t, u)
             /\ Elapsed(t, u) \in Int
  <2>1. PICK ticks : ticks = Instants[u] - Instants[t]
    OBVIOUS
  <2>2. ticks \in Int /\ ticks >= 0
    BY <1>3, <1>4, <2>1, PayloadAssumption
  <2>3. /\ Truncated(ticks) = ticks \div Second /\ Truncated(ticks) >= 0
        /\ Truncated(ticks) \in Int
    BY <2>2, WholeTicks
  <2> QED
    BY <2>1, <2>2, <2>3 DEF Elapsed, Seconds
<1>5. /\ AckLatency(c) = Seconds(opened, acked) /\ TimeToAck(c) = Elapsed(opened, acked)
      /\ HandlingLatency(c) = Seconds(acked, resolved)
      /\ ResolutionLatency(c) = Seconds(opened, resolved)
      /\ TimeToResolve(c) = Elapsed(opened, resolved)
  BY <1>1 DEF AckLatency, TimeToAck, HandlingLatency, ResolutionLatency, TimeToResolve
<1>6. ASSUME acked # 0 PROVE AckLatency(c) = TimeToAck(c) /\ AckLatency(c) \in Int
  BY <1>2, <1>4, <1>5, <1>6
<1>7. ASSUME resolved # 0
      PROVE  /\ ResolutionLatency(c) = TimeToResolve(c) /\ ResolutionLatency(c) \in Int
             /\ acked # 0
             /\ ResolutionLatency(c) - AckLatency(c) - HandlingLatency(c) \in {0, 1}
  <2>1. /\ opened \in Times \ {0} /\ acked \in Times \ {0} /\ resolved \in Times \ {0}
        /\ opened <= acked /\ acked <= resolved /\ opened <= resolved
    BY <1>2, <1>7
  <2>2. PICK waited, handled, lasted :
           /\ waited = Instants[acked] - Instants[opened]
           /\ handled = Instants[resolved] - Instants[acked]
           /\ lasted = Instants[resolved] - Instants[opened]
    OBVIOUS
  <2>3. /\ AckLatency(c) = waited \div Second
        /\ HandlingLatency(c) = handled \div Second
        /\ ResolutionLatency(c) = lasted \div Second
    BY <1>4, <1>5, <2>1, <2>2
  <2>4. waited \in Nat /\ handled \in Nat /\ lasted = waited + handled
    BY <1>3, <1>4, <2>1, <2>2
  <2>5. lasted \div Second - waited \div Second - handled \div Second \in {0, 1}
    BY <2>4, TruncatedSum, PayloadAssumption
  <2> QED
    BY <1>4, <1>5, <2>1, <2>3, <2>5
<1> QED
  BY <1>1, <1>6, <1>7

\* Waiting and working add up, but for the second that truncating may lose;
\* summaries and histograms name the same extremes.
THEOREM LatenciesAddUp == DeskSpec => []LatenciesCompose
<1>1. ASSUME DeskInv, NEW b \in Businesses
      PROVE  /\ \A c \in ResolvedCases(b) :
                   /\ cases[c].acknowledged # 0
                   /\ ResolutionLatency(c) - AckLatency(c) - HandlingLatency(c) \in {0, 1}
             /\ Bounds(summarize_case_workflow_throughput(b).ack_seconds,
                       summarize_case_acknowledgment_latency_histogram(b))
             /\ Bounds(summarize_case_workflow_throughput(b).resolve_seconds,
                       summarize_case_resolution_latency_histogram_by_case_type(b))
             /\ \A c \in InStatus(b, "in_progress") :
                   LatestInProgressAt(c) = cases[c].acknowledged
  <2>1. /\ \A c \in AckedCases(b) : c \in DOMAIN cases /\ cases[c].acknowledged # 0
        /\ \A c \in ResolvedCases(b) : c \in DOMAIN cases /\ cases[c].resolved # 0
    BY DEF AckedCases, ResolvedCases, CasesOf
  <2>2. /\ \A c \in AckedCases(b) : AckLatency(c) = TimeToAck(c) /\ AckLatency(c) \in Int
        /\ \A c \in ResolvedCases(b) :
              /\ ResolutionLatency(c) = TimeToResolve(c) /\ ResolutionLatency(c) \in Int
              /\ cases[c].acknowledged # 0
              /\ ResolutionLatency(c) - AckLatency(c) - HandlingLatency(c) \in {0, 1}
    BY <1>1, <2>1, NoClampBites
  <2>3. Bounds(summarize_case_workflow_throughput(b).ack_seconds,
               summarize_case_acknowledgment_latency_histogram(b))
    <3>1. PICK took : took = [c \in AckedCases(b) |-> AckLatency(c)]
      OBVIOUS
    <3>2. DOMAIN took = AckedCases(b) /\ \A c \in DOMAIN took : took[c] \in Int
      BY <2>2, <3>1
    <3>3. AckTimes(b) = took
      BY <2>2, <3>1 DEF AckTimes
    <3>4. DOMAIN took \in SUBSET DOMAIN cases
      BY <2>1, <3>2
    <3>5. Bounds(LatencySummary(took), Latency(took, BySeverity))
      BY <1>1, <3>2, <3>4, SummaryBounds
    <3>6. summarize_case_workflow_throughput(b).ack_seconds = LatencySummary(took)
      BY <3>3 DEF summarize_case_workflow_throughput
    <3>7. summarize_case_acknowledgment_latency_histogram(b) = Latency(took, BySeverity)
      BY <3>1 DEF summarize_case_acknowledgment_latency_histogram, Acknowledgment
    <3> QED
      BY <3>5, <3>6, <3>7
  <2>4. Bounds(summarize_case_workflow_throughput(b).resolve_seconds,
               summarize_case_resolution_latency_histogram_by_case_type(b))
    <3>1. PICK took : took = [c \in ResolvedCases(b) |-> ResolutionLatency(c)]
      OBVIOUS
    <3>2. DOMAIN took = ResolvedCases(b) /\ \A c \in DOMAIN took : took[c] \in Int
      BY <2>2, <3>1
    <3>3. ResolveTimes(b) = took
      BY <2>2, <3>1 DEF ResolveTimes
    <3>4. DOMAIN took \in SUBSET DOMAIN cases
      BY <2>1, <3>2
    <3>5. Bounds(LatencySummary(took), Latency(took, ByType))
      BY <1>1, <3>2, <3>4, SummaryBounds
    <3>6. summarize_case_workflow_throughput(b).resolve_seconds = LatencySummary(took)
      BY <3>3 DEF summarize_case_workflow_throughput
    <3>7. summarize_case_resolution_latency_histogram_by_case_type(b)
             = Latency(took, ByType)
      BY <3>1 DEF summarize_case_resolution_latency_histogram_by_case_type, Resolution
    <3> QED
      BY <3>5, <3>6, <3>7
  <2>5. \A c \in InStatus(b, "in_progress") :
           LatestInProgressAt(c) = cases[c].acknowledged
    <3>1. \A c \in InStatus(b, "in_progress") :
             c \in DOMAIN cases /\ cases[c].status = "in_progress"
      BY DEF InStatus, CasesOf, Status
    <3> QED
      BY <1>1, <3>1, LastStart
  <2> QED
    BY <2>2, <2>3, <2>4, <2>5
<1>2. DeskInv => LatenciesCompose
  BY <1>1 DEF LatenciesCompose
<1> QED
  BY <1>2, DeskInvariant, PTL

-----------------------------------------------------------------------------
(***************************************************************************)
(* The numbers side by side.                                               *)
(***************************************************************************)
\* A query that is accepted counts what its clauses select.
LEMMA AcceptedTotal ==
    ASSUME NEW b, NEW clauses, NEW field \in SortFields, Len(clauses) <= 8,
           \A i \in DOMAIN clauses : Accepted(clauses[i])
    PROVE  query_case_queue(b, Query(clauses, field), 1).total = Total(CasesOf(b), clauses)
<1>1. PICK query : query = Query(clauses, field)
  OBVIOUS
<1>2. /\ query.tooLong = FALSE /\ query.forbidden = FALSE /\ query.parens = FALSE
      /\ query.clauses = clauses /\ query.order = <<[field |-> field, dir |-> "DESC"]>>
  BY <1>1 DEF Query
<1>3. \A i \in DOMAIN query.order : query.order[i].field \in SortFields
  BY <1>2
<1>4. FirstError([i \in DOMAIN clauses |-> ClauseError(clauses[i])]) = "ok"
  <2>1. {i \in DOMAIN [j \in DOMAIN clauses |-> ClauseError(clauses[j])] :
            [j \in DOMAIN clauses |-> ClauseError(clauses[j])][i] # "ok"} = {}
    BY DEF Accepted
  <2> QED
    BY <2>1 DEF FirstError
<1>5. JqlError(query) = "ok"
  <2>1. PICK size : size = Len(clauses)
    OBVIOUS
  <2> QED
    BY <1>2, <1>3, <1>4 DEF JqlError
<1>6. query_case_queue(b, query, 1).total = Cardinality(Selected(CasesOf(b), clauses))
  BY <1>2, <1>5 DEF query_case_queue
<1> QED
  BY <1>1, <1>6 DEF Total

\* The clauses of the built-in views.
LEMMA ViewClauses ==
    /\ \A status \in Statuses : Accepted(IsStatus(status))
    /\ Accepted(InFlight)
    /\ Accepted(Where("degraded", "=", "bool", {TRUE}))
<1>1. \A field, op, type, values : \A u \in Where(field, op, type, values).values :
         u.type = type
  BY DEF Where, Value
<1>2. /\ FieldSpecs["status"].type = "status" /\ FieldSpecs["degraded"].type = "bool"
      /\ {"=", "IN"} \subseteq FieldSpecs["status"].ops
      /\ "=" \in FieldSpecs["degraded"].ops
      /\ "status" \in DOMAIN FieldSpecs /\ "degraded" \in DOMAIN FieldSpecs
  BY DEF FieldSpecs, ChoiceOps, Equalities
<1>3. ASSUME NEW status PROVE Accepted(IsStatus(status))
  <2>1. PICK clause : clause = IsStatus(status)
    OBVIOUS
  <2>2. clause.field = "status" /\ clause.op = "="
    BY <2>1, WhereWants DEF IsStatus
  <2>3. \A u \in clause.values : u.type = "status"
    BY <1>1, <2>1 DEF IsStatus
  <2> QED
    BY <1>2, <2>1, <2>2, <2>3 DEF Accepted, ClauseError
<1>4. Accepted(InFlight)
  <2>1. PICK clause : clause = InFlight
    OBVIOUS
  <2>2. clause.field = "status" /\ clause.op = "IN"
    BY <2>1, WhereWants DEF InFlight
  <2>3. \A u \in clause.values : u.type = "status"
    BY <1>1, <2>1 DEF InFlight
  <2>4. Cardinality(clause.values) = 3
    <3>1. clause.values = {Value("status", "open"), Value("status", "acknowledged"),
                           Value("status", "in_progress")}
      BY <2>1 DEF InFlight, Where, Actionable
    <3>2. PICK x, y, z : /\ x = Value("status", "open")
                         /\ y = Value("status", "acknowledged")
                         /\ z = Value("status", "in_progress")
      OBVIOUS
    <3>3. x # y /\ x # z /\ y # z
      BY <3>2 DEF Value
    <3>4. IsFiniteSet({x}) /\ Cardinality({x}) = 1
      BY FS_Singleton
    <3>5. IsFiniteSet({x} \cup {y}) /\ Cardinality({x} \cup {y}) = 2
      BY <3>3, <3>4, FS_AddElement
    <3>6. Cardinality({x} \cup {y} \cup {z}) = 3
      BY <3>3, <3>5, FS_AddElement
    <3>7. {x} \cup {y} \cup {z} = {x, y, z}
      OBVIOUS
    <3> QED
      BY <3>1, <3>2, <3>6, <3>7
  <2> QED
    BY <1>2, <2>1, <2>2, <2>3, <2>4 DEF Accepted, ClauseError
<1>5. Accepted(Where("degraded", "=", "bool", {TRUE}))
  <2>1. PICK clause : clause = Where("degraded", "=", "bool", {TRUE})
    OBVIOUS
  <2>2. clause.field = "degraded" /\ clause.op = "="
    BY <2>1, WhereWants
  <2>3. \A u \in clause.values : u.type = "bool"
    BY <1>1, <2>1
  <2> QED
    BY <1>2, <2>1, <2>2, <2>3 DEF Accepted, ClauseError
<1> QED
  BY <1>3, <1>4, <1>5

\* How many cases each built-in view of a status, of evidence, counts.
LEMMA StatusView ==
    ASSUME NEW b, NEW status \in Statuses, NEW view, NEW field \in SortFields,
           BuiltinViews[view] = Query(<<IsStatus(status)>>, field)
    PROVE  ViewTotal(b, view) = Cardinality(InStatus(b, status))
<1>1. Len(<<IsStatus(status)>>) = 1 /\ \A i \in DOMAIN <<IsStatus(status)>> :
         <<IsStatus(status)>>[i] = IsStatus(status)
  OBVIOUS
<1>2. ViewTotal(b, view) = Total(CasesOf(b), <<IsStatus(status)>>)
  <2>1. PICK clauses : clauses = <<IsStatus(status)>>
    OBVIOUS
  <2>2. Len(clauses) <= 8 /\ \A i \in DOMAIN clauses : Accepted(clauses[i])
    BY <1>1, <2>1, ViewClauses
  <2>3. query_case_queue(b, Query(clauses, field), 1).total = Total(CasesOf(b), clauses)
    BY <2>2, AcceptedTotal
  <2>4. ViewTotal(b, view) = query_case_queue(b, BuiltinViews[view], 1).total
    BY DEF ViewTotal, execute_builtin_case_view
  <2> QED
    BY <2>1, <2>3, <2>4
<1>3. \A c : Matches(c, IsStatus(status)) <=> Status(c) = status
  <2>1. \A c : Matches(c, IsStatus(status)) <=> FieldValue(c, "status") \in {status}
    BY ClauseMatches DEF IsStatus
  <2>2. \A c : FieldValue(c, "status") = Status(c)
    BY DEF FieldValue
  <2> QED
    BY <2>1, <2>2
<1>4. Selected(CasesOf(b), <<IsStatus(status)>>) = InStatus(b, status)
  BY <1>3, SelectsOne DEF InStatus
<1> QED
  BY <1>2, <1>4 DEF Total

LEMMA DegradedView ==
    ASSUME NEW b
    PROVE  ViewTotal(b, "connector_degraded") = Cardinality(DegradedCases(b))
<1>1. PICK clause : clause = Where("degraded", "=", "bool", {TRUE})
  OBVIOUS
<1>2. PICK clauses : clauses = <<InFlight, clause>>
  OBVIOUS
<1>3. BuiltinViews["connector_degraded"] = Query(clauses, "updated_at")
  BY <1>1, <1>2 DEF BuiltinViews, ConnectorDegraded
<1>4. /\ Len(clauses) = 2 /\ DOMAIN clauses = 1..2
      /\ clauses[1] = InFlight /\ clauses[2] = clause
  BY <1>2
<1>5. \A i \in DOMAIN clauses : Accepted(clauses[i])
  BY <1>1, <1>4, ViewClauses
<1>6. ViewTotal(b, "connector_degraded") = Total(CasesOf(b), clauses)
  <2>1. Len(clauses) <= 8 /\ "updated_at" \in SortFields
    BY <1>4 DEF SortFields
  <2>2. query_case_queue(b, Query(clauses, "updated_at"), 1).total
           = Total(CasesOf(b), clauses)
    BY <1>5, <2>1, AcceptedTotal
  <2>3. ViewTotal(b, "connector_degraded")
           = query_case_queue(b, BuiltinViews["connector_degraded"], 1).total
    BY DEF ViewTotal, execute_builtin_case_view
  <2> QED
    BY <1>3, <2>2, <2>3
<1>7. \A c : Matches(c, InFlight) <=> Status(c) \in Actionable
  <2>1. \A c : Matches(c, InFlight) <=> FieldValue(c, "status") \in Actionable
    BY ClauseMatches DEF InFlight
  <2>2. \A c : FieldValue(c, "status") = Status(c)
    BY DEF FieldValue
  <2> QED
    BY <2>1, <2>2
<1>8. \A c : Matches(c, clause) <=> IsDegraded(c)
  <2>1. \A c : Matches(c, clause) <=> FieldValue(c, "degraded") \in {TRUE}
    BY <1>1, ClauseMatches
  <2>2. \A c : FieldValue(c, "degraded") = IsDegraded(c)
    BY DEF FieldValue
  <2>3. \A c : IsDegraded(c) \in BOOLEAN
    BY DEF IsDegraded
  <2> QED
    BY <2>1, <2>2, <2>3
<1>9. Selected(CasesOf(b), clauses) = DegradedCases(b)
  BY <1>4, <1>7, <1>8 DEF Selected, DegradedCases, ActionableCases, Status
<1> QED
  BY <1>6, <1>9 DEF Total
\* A status counted in a dict, and how many have it.
LEMMA StatusCounted ==
    ASSUME NEW b, IsFiniteSet(CasesOf(b)), NEW status
    PROVE  CountOf(summarize_case_queue(b).by_status, status)
              = Cardinality(InStatus(b, status))
<1> DEFINE S == CasesOf(b)
           group == [c \in S |-> Status(c)]
<1>1. PICK by : by = CountBy(S, group)
  OBVIOUS
<1>2. summarize_case_queue(b).by_status = by
  BY <1>1 DEF summarize_case_queue
<1>3. /\ DOMAIN by = {group[c] : c \in S}
      /\ \A g \in DOMAIN by : by[g] = Cardinality({c \in S : group[c] = g})
  BY <1>1 DEF CountBy
<1>4. \A g : {c \in S : group[c] = g} = InStatus(b, g)
  BY DEF InStatus
<1>5. CASE status \in DOMAIN by
  BY <1>2, <1>3, <1>4, <1>5 DEF CountOf
<1>6. CASE status \notin DOMAIN by
  <2>1. InStatus(b, status) = {}
    BY <1>3, <1>6 DEF InStatus
  <2> QED
    BY <1>2, <1>6, <2>1, FS_EmptySet DEF CountOf
<1> QED
  BY <1>5, <1>6

LEMMA StatusNumbers ==
    ASSUME DeskInv, NEW b
    PROVE  StatusesAgree(b, summarize_case_queue(b).by_status)
<1>1. PICK by : by = summarize_case_queue(b).by_status
  OBVIOUS
<1>2. CasesOf(b) \in SUBSET DOMAIN cases
  BY DEF CasesOf
<1>3. IsFiniteSet(CasesOf(b))
  BY <1>2, FS_Subset DEF DeskInv
<1>4. \A status : CountOf(by, status) = Cardinality(InStatus(b, status))
  BY <1>1, <1>3, StatusCounted
<1>5. \A c \in CasesOf(b) :
         /\ Status(c) = "acknowledged" => cases[c].acknowledged # 0
         /\ Status(c) = "resolved" <=> cases[c].resolved # 0
         /\ Status(c) = "resolved" => cases[c].acknowledged # 0
         /\ Status(c) = "in_progress" => LatestInProgressAt(c) # 0
  BY <1>2, Columns, LastStart DEF Status
<1>6. /\ {c \in InStatus(b, "acknowledged") : cases[c].acknowledged # 0}
            = InStatus(b, "acknowledged")
      /\ {c \in InStatus(b, "in_progress") : LatestInProgressAt(c) # 0}
            = InStatus(b, "in_progress")
      /\ {c \in InStatus(b, "resolved") : cases[c].resolved # 0} = InStatus(b, "resolved")
      /\ ResolvedCases(b) = InStatus(b, "resolved")
      /\ HandledCases(b) = InStatus(b, "resolved")
  BY <1>5 DEF InStatus, ResolvedCases, HandledCases
<1>7. \A rank, limit, row : Listed(rank, limit, row).total = Cardinality(DOMAIN rank)
  BY DEF Listed
<1>8. list_recently_opened_cases(b, 1).total = Cardinality(InStatus(b, "open"))
  BY <1>7 DEF list_recently_opened_cases
<1>9. list_recently_acknowledged_cases(b, 1).total
         = Cardinality(InStatus(b, "acknowledged"))
  <2>1. PICK S : S = {c \in InStatus(b, "acknowledged") : cases[c].acknowledged # 0}
    OBVIOUS
  <2>2. list_recently_acknowledged_cases(b, 1).total
           = Cardinality(DOMAIN [c \in S |-> cases[c].acknowledged])
    BY <1>7, <2>1 DEF list_recently_acknowledged_cases
  <2> QED
    BY <1>6, <2>1, <2>2
<1>10. list_recently_in_progress_cases(b, 1).total
          = Cardinality(InStatus(b, "in_progress"))
  <2>1. PICK S : S = {c \in InStatus(b, "in_progress") : LatestInProgressAt(c) # 0}
    OBVIOUS
  <2>2. list_recently_in_progress_cases(b, 1).total
           = Cardinality(DOMAIN [c \in S |-> LatestInProgressAt(c)])
    BY <1>7, <2>1 DEF list_recently_in_progress_cases
  <2> QED
    BY <1>6, <2>1, <2>2
<1>11. list_recently_resolved_cases(b, 1).total = Cardinality(InStatus(b, "resolved"))
  <2>1. PICK S : S = {c \in InStatus(b, "resolved") : cases[c].resolved # 0}
    OBVIOUS
  <2>2. list_recently_resolved_cases(b, 1).total
           = Cardinality(DOMAIN [c \in S |-> cases[c].resolved])
    BY <1>7, <2>1 DEF list_recently_resolved_cases
  <2> QED
    BY <1>6, <2>1, <2>2
<1>12. summarize_case_workflow_throughput(b).resolved
          = Cardinality(InStatus(b, "resolved"))
  BY <1>6 DEF summarize_case_workflow_throughput
<1>13. ViewTotal(b, "resolved_cases") = Cardinality(InStatus(b, "resolved"))
  BY StatusView DEF BuiltinViews, Statuses, SortFields
<1>14. summarize_case_handling_latency_histogram(b).counts.total
          = Cardinality(InStatus(b, "resolved"))
  BY <1>6 DEF summarize_case_handling_latency_histogram, Handling, Latency, Histogram
<1>15. StatusesAgree(b, by)
  BY <1>4, <1>8, <1>9, <1>10, <1>11, <1>12, <1>13, <1>14 DEF StatusesAgree
<1> QED
  BY <1>1, <1>15

LEMMA DegradedNumbers ==
    ASSUME DeskInv, NEW b
    PROVE  DegradedAgree(b, now, summarize_case_queue(b).degraded)
<1>1. IsFiniteSet(DegradedCases(b))
  <2>1. DegradedCases(b) \in SUBSET DOMAIN cases
    BY DEF DegradedCases, ActionableCases, CasesOf
  <2> QED
    BY <2>1, FS_Subset DEF DeskInv
<1>2. summarize_case_queue(b).degraded = Cardinality(DegradedCases(b))
  BY DEF summarize_case_queue
<1>3. list_top_actionable_degraded_cases(b, 1, now).total = Cardinality(DegradedCases(b))
  BY DEF list_top_actionable_degraded_cases, Listed
<1>4. SumOf(summarize_case_queue_by_source_connector(b).degraded_by)
         = Cardinality(DegradedCases(b))
  <2>1. summarize_case_queue_by_source_connector(b).degraded_by
           = CountBy(DegradedCases(b), BySource)
    BY DEF summarize_case_queue_by_source_connector, QueueBy
  <2>2. PICK S, group : S = DegradedCases(b) /\ group = BySource
    OBVIOUS
  <2>3. SumOf(CountBy(S, group)) = Cardinality(S)
    BY <1>1, <2>2, SumOfCounts
  <2> QED
    BY <2>1, <2>2, <2>3
<1> QED
  BY <1>2, <1>3, <1>4, DegradedView DEF DegradedAgree

LEMMA InFlightNumbers ==
    ASSUME DeskInv, NEW b
    PROVE  InFlightAgree(b, now, summarize_case_queue(b).actionable)
<1>1. PICK S : S = ActionableCases(b)
  OBVIOUS
<1>2. IsFiniteSet(CasesOf(b)) /\ S \in SUBSET CasesOf(b) /\ IsFiniteSet(S)
  <2>1. CasesOf(b) \in SUBSET DOMAIN cases /\ S \in SUBSET CasesOf(b)
    BY <1>1 DEF ActionableCases, CasesOf
  <2>2. IsFiniteSet(CasesOf(b))
    BY <2>1, FS_Subset DEF DeskInv
  <2> QED
    BY <2>1, <2>2, FS_Subset
<1>3. summarize_case_queue(b).actionable = Cardinality(S)
  BY <1>1 DEF summarize_case_queue
<1>4. summarize_case_queue_aging_by_entity_kind(b, now).counts.total = Cardinality(S)
  BY <1>1 DEF summarize_case_queue_aging_by_entity_kind, Aging, Histogram
<1>5. list_top_actionable_cases_by_age(b, 1, now).total = Cardinality(S)
  BY <1>1 DEF list_top_actionable_cases_by_age, Listed, Ages
<1>6. Cardinality(S) = ViewTotal(b, "open_cases") + ViewTotal(b, "acknowledged_cases")
                          + ViewTotal(b, "in_progress_cases")
  <2>1. PICK open, acked, working :
           /\ open = InStatus(b, "open") /\ acked = InStatus(b, "acknowledged")
           /\ working = InStatus(b, "in_progress")
    OBVIOUS
  <2>2. /\ ViewTotal(b, "open_cases") = Cardinality(open)
        /\ ViewTotal(b, "acknowledged_cases") = Cardinality(acked)
        /\ ViewTotal(b, "in_progress_cases") = Cardinality(working)
    BY <2>1, StatusView DEF BuiltinViews, Statuses, SortFields
  <2>3. /\ open \in SUBSET S /\ acked \in SUBSET S /\ working \in SUBSET S
        /\ open \cap acked = {} /\ (open \cup acked) \cap working = {}
        /\ open \cup acked \cup working = S
    BY <1>1, <2>1 DEF InStatus, ActionableCases, Actionable, Status
  <2>4. Cardinality(open) + Cardinality(acked) = Cardinality(open \cup acked)
    BY <1>2, <2>3, PartsAddUp
  <2>5. open \cup acked \in SUBSET S
    BY <2>3
  <2>6. Cardinality(open \cup acked) + Cardinality(working)
           = Cardinality(open \cup acked \cup working)
    BY <1>2, <2>3, <2>5, PartsAddUp
  <2> QED
    BY <2>2, <2>3, <2>4, <2>6
<1>7. ASSUME NEW bucket \in BucketNames
      PROVE  SumOf(summarize_case_queue_stagnation_by_source_connector(b, now)
                      .counts.split[bucket])
                = summarize_case_queue_stagnation(b, now).counts.bucket[bucket]
  <2>1. PICK idle : idle = [c \in S |-> IdleTime(c, now)]
    OBVIOUS
  <2>2. PICK In, group : /\ In = {c \in S : AgeBucket(idle[c]) = bucket}
                         /\ group = BySource
    OBVIOUS
  <2>3. DOMAIN idle = S /\ IsFiniteSet(In)
    <3>1. In \in SUBSET S
      BY <2>2
    <3> QED
      BY <1>2, <2>1, <3>1, FS_Subset
  <2>4. \A g : /\ Histogram(idle, g).bucket[bucket] = Cardinality(In)
              /\ Histogram(idle, g).split[bucket] = CountBy(In, g)
    BY <1>7, <2>2, <2>3 DEF Histogram
  <2>5. /\ summarize_case_queue_stagnation_by_source_connector(b, now).counts
              = Histogram(idle, group)
        /\ summarize_case_queue_stagnation(b, now).counts = Histogram(idle, BySeverity)
    BY <1>1, <2>1, <2>2 DEF summarize_case_queue_stagnation_by_source_connector,
                            summarize_case_queue_stagnation, Stagnation
  <2>6. SumOf(CountBy(In, group)) = Cardinality(In)
    BY <2>3, SumOfCounts
  <2>7. PICK severity : severity = BySeverity
    OBVIOUS
  <2> QED
    BY <2>4, <2>5, <2>6, <2>7
<1>8. \A bucket \in BucketNames :
         SumOf(summarize_case_queue_stagnation_by_source_connector(b, now)
                  .counts.split[bucket])
            = summarize_case_queue_stagnation(b, now).counts.bucket[bucket]
  BY <1>7
<1> QED
  BY <1>3, <1>4, <1>5, <1>6, <1>8 DEF InFlightAgree

\* The totals shown side by side agree, whoever counts them and from which column.
THEOREM AgreeingViews == DeskSpec => []ViewsAgree
<1>1. ASSUME DeskInv, NEW b \in Businesses
      PROVE  LET queue == summarize_case_queue(b) IN
             /\ InFlightAgree(b, now, queue.actionable)
             /\ DegradedAgree(b, now, queue.degraded)
             /\ StatusesAgree(b, queue.by_status)
  BY <1>1, InFlightNumbers, DegradedNumbers, StatusNumbers
<1>2. DeskInv => ViewsAgree
  BY <1>1 DEF ViewsAgree
<1> QED
  BY <1>2, DeskInvariant, PTL
=============================================================================
