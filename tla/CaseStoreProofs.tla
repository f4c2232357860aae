--------------------------- MODULE CaseStoreProofs ---------------------------
(***************************************************************************)
(* Theorems about CaseStore for any number of workers, keys, ids, runs and *)
(* owners, and any bounds: the table and its drafts; what the store keeps  *)
(* in one row, whose timeline is one the lifecycle allows and whose        *)
(* columns are the ones its timeline tells; and the refinement of          *)
(* CaseBoard.  The last two parts are about the rankings that the          *)
(* surfaces make of the table, and what they read from a row of it.        *)
(***************************************************************************)
EXTENDS CaseRecords, SequenceTheorems, FiniteSetTheorems, TLAPS

-----------------------------------------------------------------------------
(***************************************************************************)
(* What the mutations compute is a row, one event longer.                  *)
(***************************************************************************)
\* A detection, as upsert_detection holds it while it looks the case up.
LEMMA OpenedIsRow ==
    ASSUME NEW det \in Detecting
    PROVE  /\ Opened(det) \in Row
           /\ Opened(det).key = det.key
           /\ Len(Opened(det).timeline) = 1
<1> DEFINE e == MkEvent("case_opened", "open", det.run, det.at)
<1>1. /\ det.key \in Keys
      /\ det.run \in Runs \cup {None}
      /\ det.at \in Times
      /\ 0 \in Times
  BY BoundsAssumption DEF Detecting, Times
<1> DEFINE kept == [r \in Runs \cup {None} |-> IF r = det.run THEN det.at ELSE 0]
<1>2. e \in Event
  BY <1>1 DEF MkEvent, Event, EventTypes, StatusEvents, Statuses
<1>3. {det.run} \ {None} \in SUBSET Runs /\ kept \in [Runs \cup {None} -> Times]
  BY <1>1
<1> HIDE DEF e, kept
<1>4. <<e>> \in Seq(Event) /\ Len(<<e>>) = 1
  BY <1>2
<1>5. Opened(det) = [key |-> det.key, status |-> "open", opened |-> det.at,
         updated |-> det.at, acknowledged |-> 0, assigned |-> 0, assignee |-> None,
         resolved |-> 0, dismissed |-> 0, runs |-> {det.run} \ {None},
         evidence |-> kept, timeline |-> <<e>>]
  BY DEF Opened, e, kept
<1> QED
  BY <1>1, <1>3, <1>4, <1>5 DEF Row, Statuses

\* Logging an event keeps the row a row, its key, and its earlier events.
LEMMA LoggedIsRow ==
    ASSUME NEW row \in Row, NEW type \in EventTypes, NEW to \in Statuses \cup {None},
           NEW ref \in Runs \cup Assignees \cup {None}, NEW at \in Times
    PROVE  /\ Logged(row, type, to, ref, at) \in Row
           /\ Logged(row, type, to, ref, at).key = row.key
           /\ Logged(row, type, to, ref, at).timeline =
                 Append(row.timeline, MkEvent(type, to, ref, at))
<1> DEFINE e == MkEvent(type, to, ref, at)
<1>1. e \in Event
  BY DEF MkEvent, Event
<1> HIDE DEF e
<1>2. Append(row.timeline, e) \in Seq(Event)
  BY <1>1 DEF Row
<1>3. Logged(row, type, to, ref, at) =
         [row EXCEPT !.updated = at, !.timeline = Append(row.timeline, e)]
  BY DEF Logged, e
<1>4. /\ Logged(row, type, to, ref, at) \in Row
      /\ Logged(row, type, to, ref, at).key = row.key
      /\ Logged(row, type, to, ref, at).timeline = Append(row.timeline, e)
  BY <1>2, <1>3 DEF Row
<1> QED
  BY <1>4 DEF e

\* A detection also keeps the other columns of the row.
LEMMA MergedIsRow ==
    ASSUME NEW row \in Row, NEW det \in Detecting, NEW type \in EventTypes,
           NEW to \in Statuses \cup {None}
    PROVE  /\ Merged(row, det, type, to) \in Row
           /\ Merged(row, det, type, to).key = row.key
           /\ Merged(row, det, type, to).timeline =
                 Append(row.timeline, MkEvent(type, to, det.run, det.at))
           /\ Merged(row, det, type, to).evidence = UniqueSnapshots(row.evidence, det)
<1> DEFINE L == Logged(row, type, to, det.run, det.at)
           runs == row.runs \cup ({det.run} \ {None})
           kept == UniqueSnapshots(row.evidence, det)
<1>1. det.run \in Runs \cup {None} /\ det.run \in Runs \cup Assignees \cup {None}
      /\ det.at \in Times
  BY DEF Detecting
<1>2. /\ L \in Row /\ L.key = row.key
      /\ L.timeline = Append(row.timeline, MkEvent(type, to, det.run, det.at))
  BY <1>1, LoggedIsRow
<1>3. L.runs = row.runs /\ L.evidence = row.evidence
  BY DEF Logged, Row
<1>4. runs \in SUBSET Runs
  BY <1>1 DEF Row
<1>5. kept \in [Runs \cup {None} -> Times]
  <2>1. row.evidence \in [Runs \cup {None} -> Times]
    BY DEF Row
  <2> QED
    BY <1>1, <2>1 DEF UniqueSnapshots
<1>6. Merged(row, det, type, to) =
         [L EXCEPT !.runs = L.runs \cup ({det.run} \ {None}),
                   !.evidence = UniqueSnapshots(L.evidence, det)]
  BY DEF Merged, L
<1> HIDE DEF L
<1>8. Merged(row, det, type, to) = [L EXCEPT !.runs = runs, !.evidence = kept]
  BY <1>3, <1>6
<1> HIDE DEF kept
<1> HIDE DEF runs
<1>9. /\ Merged(row, det, type, to) \in Row
      /\ Merged(row, det, type, to).key = L.key
      /\ Merged(row, det, type, to).timeline = L.timeline
      /\ Merged(row, det, type, to).evidence = kept
  BY <1>2, <1>4, <1>5, <1>8 DEF Row
<1> QED
  BY <1>2, <1>9 DEF kept

\* So do the four mutations of an existing case.
LEMMA RedetectedIsRow ==
    ASSUME NEW row \in Row, NEW det \in Detecting
    PROVE  /\ Redetected(row, det) \in Row
           /\ Redetected(row, det).key = row.key
           /\ \E e \in Event : Redetected(row, det).timeline = Append(row.timeline, e)
           /\ Redetected(row, det).evidence = UniqueSnapshots(row.evidence, det)
<1> DEFINE U == Merged(row, det, "case_updated", None)
           R == Merged(row, det, "case_reopened", "open")
<1>1. /\ det.run \in Runs \cup Assignees \cup {None} /\ det.at \in Times
      /\ 0 \in Times
  BY BoundsAssumption DEF Detecting, Times
<1>2. "case_updated" \in EventTypes /\ "case_reopened" \in EventTypes /\ "open" \in Statuses
  BY DEF EventTypes, DetectionEvents, Statuses
<1>3. /\ U \in Row /\ U.key = row.key /\ U.evidence = UniqueSnapshots(row.evidence, det)
      /\ U.timeline = Append(row.timeline, MkEvent("case_updated", None, det.run, det.at))
  BY <1>2, MergedIsRow
<1>4. /\ R \in Row /\ R.key = row.key /\ R.evidence = UniqueSnapshots(row.evidence, det)
      /\ R.timeline = Append(row.timeline, MkEvent("case_reopened", "open", det.run, det.at))
  BY <1>2, MergedIsRow
<1>5. /\ MkEvent("case_updated", None, det.run, det.at) \in Event
      /\ MkEvent("case_reopened", "open", det.run, det.at) \in Event
  BY <1>1, <1>2 DEF MkEvent, Event
<1>6. /\ Updated(row, det) = U
      /\ Reopened(row, det) =
           [R EXCEPT !.status = "open", !.resolved = 0, !.dismissed = 0, !.acknowledged = 0]
  BY DEF Updated, Reopened, U, R
<1> HIDE DEF U, R
<1>7. /\ Reopened(row, det) \in Row
      /\ Reopened(row, det).key = R.key
      /\ Reopened(row, det).timeline = R.timeline
      /\ Reopened(row, det).evidence = R.evidence
  BY <1>1, <1>2, <1>4, <1>6 DEF Row
<1> QED
  BY <1>3, <1>4, <1>5, <1>6, <1>7 DEF Redetected

\* row is old with one more event: what every mutation of a case computes.
Grown(row, old) ==
    /\ row.key = old.key
    /\ \E e \in Event : row.timeline = Append(old.timeline, e)

LEMMA TransitionedIsRow ==
    ASSUME NEW row \in Row, NEW to \in Statuses, NEW at \in Times
    PROVE  Transitioned(row, to, at) \in Row /\ Grown(Transitioned(row, to, at), row)
<1> DEFINE L == Logged(row, "status_changed", to, None, at)
<1>1. "status_changed" \in EventTypes /\ to \in Statuses \cup {None}
      /\ None \in Runs \cup Assignees \cup {None}
  BY DEF EventTypes, StatusEvents
<1>2. /\ L \in Row
      /\ L.key = row.key
      /\ L.timeline = Append(row.timeline, MkEvent("status_changed", to, None, at))
  BY <1>1, LoggedIsRow
<1>3. MkEvent("status_changed", to, None, at) \in Event
  BY <1>1 DEF MkEvent, Event
<1> HIDE DEF L
<1>4. PICK a, r, d \in Times :
        Transitioned(row, to, at) =
           [L EXCEPT !.status = to, !.acknowledged = a, !.resolved = r, !.dismissed = d]
  <2> DEFINE a == IF to \in {"acknowledged", "in_progress"} THEN at ELSE L.acknowledged
             r == IF to = "resolved" THEN at ELSE L.resolved
             d == IF to = "dismissed" THEN at ELSE L.dismissed
  <2>1. a \in Times /\ r \in Times /\ d \in Times
    BY <1>2 DEF Row
  <2>2. Transitioned(row, to, at) =
           [L EXCEPT !.status = to, !.acknowledged = a, !.resolved = r, !.dismissed = d]
    BY DEF Transitioned, L
  <2> QED
    BY <2>1, <2>2
<1> QED
  BY <1>2, <1>3, <1>4 DEF Row, Grown

LEMMA CommentedIsRow ==
    ASSUME NEW row \in Row, NEW at \in Times
    PROVE  Commented(row, at) \in Row /\ Grown(Commented(row, at), row)
<1>1. "operator_comment" \in EventTypes /\ None \in Statuses \cup {None}
      /\ None \in Runs \cup Assignees \cup {None}
  BY DEF EventTypes
<1>2. MkEvent("operator_comment", None, None, at) \in Event
  BY <1>1 DEF MkEvent, Event
<1> QED
  BY <1>1, <1>2, LoggedIsRow DEF Commented, Grown

LEMMA AssignedIsRow ==
    ASSUME NEW row \in Row, NEW who \in Assignees, NEW at \in Times
    PROVE  Assigned(row, who, at) \in Row /\ Grown(Assigned(row, who, at), row)
<1> DEFINE L == Logged(row, "case_assigned", None, who, at)
<1>1. "case_assigned" \in EventTypes /\ None \in Statuses \cup {None}
      /\ who \in Runs \cup Assignees \cup {None}
  BY DEF EventTypes
<1>2. /\ L \in Row
      /\ L.key = row.key
      /\ L.timeline = Append(row.timeline, MkEvent("case_assigned", None, who, at))
  BY <1>1, LoggedIsRow
<1>3. MkEvent("case_assigned", None, who, at) \in Event
  BY <1>1 DEF MkEvent, Event
<1> HIDE DEF L
<1>4. Assigned(row, who, at) = [L EXCEPT !.assignee = who, !.assigned = at]
  BY DEF Assigned, L
<1> QED
  BY <1>2, <1>3, <1>4 DEF Row, Grown

-----------------------------------------------------------------------------
(***************************************************************************)
(* The inductive invariant.                                                *)
(***************************************************************************)
Drafted(w) == work[w].pc = "drafted"

\* uuid4() has returned the id of every draft.
DraftIdsIssued == \A w \in Workers : Drafted(w) => work[w].id \in issued

\* A case_id belongs to one key, in the table and in the drafts.
IdHasOneKey ==
    /\ \A w \in Workers :
          Drafted(w) /\ work[w].id \in DOMAIN cases =>
             cases[work[w].id].key = work[w].row.key
    /\ \A v, w \in Workers :
          Drafted(v) /\ Drafted(w) /\ work[v].id = work[w].id =>
             work[v].row.key = work[w].row.key

\* The draft is the successor of what the table holds for its key now.
Current(draft) ==
    IF draft.id \in DOMAIN cases
    THEN /\ RowsOf(draft.row.key) = {draft.id}
         /\ Grown(draft.row, cases[draft.id])
    ELSE RowsOf(draft.row.key) = {}

\* A draft that no commit overlapped is not stale.
FreshUnlessOverlapped ==
    \A w \in Workers : Drafted(w) /\ w \notin overlapped => Current(work[w])

IInv ==
    /\ TypeOK
    /\ DraftIdsIssued
    /\ OneRowPerKey
    /\ IdHasOneKey
    /\ FreshUnlessOverlapped

\* w computes a draft: a new case, or the successor of a row of the table.
Drafts(w, id, row) ==
    /\ \E d \in BOOLEAN : work' = [work EXCEPT ![w] = MkDraft(id, row, d)]
    /\ row \in Row
    /\ Len(row.timeline) <= MaxTimeline
    /\ \/ id \in DOMAIN cases /\ Grown(row, cases[id]) /\ issued' = issued
       \/ /\ id \in Ids \ issued
          /\ issued' = issued \cup {id}
          /\ RowsOf(row.key) = {}
          /\ Len(row.timeline) = 1
    /\ ~Drafted(w)
    /\ UNCHANGED <<cases, now, overlapped>>

\* Appending makes a timeline one event longer and keeps the others.
LEMMA GrownExtends ==
    ASSUME NEW row \in Row, NEW old \in Row, Grown(row, old)
    PROVE  /\ Len(row.timeline) = Len(old.timeline) + 1
           /\ Extends(row.timeline, old.timeline)
<1>1. PICK e \in Event : row.timeline = Append(old.timeline, e)
  BY DEF Grown
<1>2. old.timeline \in Seq(Event)
  BY DEF Row
<1> QED
  BY <1>1, <1>2 DEF Extends

\* Each of the drafting actions is an instance of Drafts.
LEMMA DraftingActions ==
    ASSUME TypeOK, NEW w \in Workers,
           DraftNewCase(w) \/ DraftRedetection(w) \/ DraftTransition(w)
              \/ DraftComment(w) \/ DraftAssignment(w)
    PROVE  \E id \in Ids, row \in Row : Drafts(w, id, row)
<1>1. /\ work[w] \in {Idle} \cup Detecting \cup Draft
      /\ \A c \in DOMAIN cases : c \in Ids /\ cases[c] \in Row
      /\ now \in Times
  BY DEF TypeOK
<1>2. work[w].pc = "detecting" => work[w] \in Detecting
  BY <1>1 DEF Idle, Detecting, Draft
<1>3. work[w] = Idle => ~Drafted(w)
  BY DEF Idle, Drafted
<1>4. work[w].pc = "detecting" => ~Drafted(w)
  BY DEF Drafted
<1>5. CASE DraftNewCase(w)
  <2>1. PICK id \in Ids \ issued :
           /\ issued' = issued \cup {id}
           /\ work' = [work EXCEPT ![w] = MkDraft(id, Opened(work[w]), TRUE)]
    BY <1>5 DEF DraftNewCase
  <2>2. /\ work[w] \in Detecting
        /\ RowsOf(work[w].key) = {}
        /\ UNCHANGED <<cases, now, overlapped>>
    BY <1>2, <1>5 DEF DraftNewCase
  <2>3. /\ Opened(work[w]) \in Row
        /\ Opened(work[w]).key = work[w].key
        /\ Len(Opened(work[w]).timeline) = 1
    BY <2>2, OpenedIsRow
  <2>4. /\ RowsOf(Opened(work[w]).key) = {}
        /\ Len(Opened(work[w]).timeline) <= MaxTimeline
        /\ ~Drafted(w)
    BY <2>2, <2>3, <1>4, <1>5, BoundsAssumption DEF DraftNewCase
  <2>5. \E d \in BOOLEAN : work' = [work EXCEPT ![w] = MkDraft(id, Opened(work[w]), d)]
    BY <2>1
  <2>6. Drafts(w, id, Opened(work[w]))
    BY <2>1, <2>2, <2>3, <2>4, <2>5 DEF Drafts
  <2> QED
    BY <2>3, <2>6
<1>6. ASSUME NEW id \in DOMAIN cases, NEW row \in Row, NEW d \in BOOLEAN,
             Grown(row, cases[id]), Len(cases[id].timeline) < MaxTimeline,
             work' = [work EXCEPT ![w] = MkDraft(id, row, d)],
             ~Drafted(w), UNCHANGED <<cases, issued, now, overlapped>>
      PROVE  \E i \in Ids, r \in Row : Drafts(w, i, r)
  <2>1. Len(row.timeline) <= MaxTimeline
    <3>1. Len(row.timeline) = Len(cases[id].timeline) + 1
      BY <1>1, <1>6, GrownExtends
    <3>2. Len(cases[id].timeline) \in Nat
      BY <1>1 DEF Row
    <3> QED
      BY <1>6, <3>1, <3>2, BoundsAssumption
  <2>2. Drafts(w, id, row)
    BY <1>6, <2>1 DEF Drafts
  <2> QED
    BY <1>1, <2>2
<1>7. CASE DraftRedetection(w)
  <2>1. PICK c \in RowsOf(work[w].key) :
           /\ Len(cases[c].timeline) < MaxTimeline
           /\ work' = [work EXCEPT ![w] = MkDraft(c, Redetected(cases[c], work[w]), TRUE)]
    BY <1>7 DEF DraftRedetection
  <2>2. work[w] \in Detecting /\ c \in DOMAIN cases /\ cases[c] \in Row
    BY <1>1, <1>2, <1>7, <2>1 DEF DraftRedetection, RowsOf
  <2>3. /\ Redetected(cases[c], work[w]) \in Row
        /\ Grown(Redetected(cases[c], work[w]), cases[c])
    BY <2>2, RedetectedIsRow DEF Grown
  <2> QED
    BY <1>4, <1>6, <1>7, <2>1, <2>2, <2>3 DEF DraftRedetection
<1>8. CASE DraftTransition(w)
  <2>1. PICK id \in DOMAIN cases, to \in Statuses : DraftFrom(w, id, Transitioned(cases[id], to, now))
    BY <1>8 DEF DraftTransition
  <2>2. /\ Transitioned(cases[id], to, now) \in Row
        /\ Grown(Transitioned(cases[id], to, now), cases[id])
    BY <1>1, TransitionedIsRow
  <2> QED
    BY <1>3, <1>6, <2>1, <2>2 DEF DraftFrom
<1>9. CASE DraftComment(w)
  <2>1. PICK id \in DOMAIN cases : DraftFrom(w, id, Commented(cases[id], now))
    BY <1>9 DEF DraftComment
  <2>2. /\ Commented(cases[id], now) \in Row
        /\ Grown(Commented(cases[id], now), cases[id])
    BY <1>1, CommentedIsRow
  <2> QED
    BY <1>3, <1>6, <2>1, <2>2 DEF DraftFrom
<1>10. CASE DraftAssignment(w)
  <2>1. PICK id \in DOMAIN cases, who \in Assignees :
           DraftFrom(w, id, Assigned(cases[id], who, now))
    BY <1>10 DEF DraftAssignment
  <2>2. /\ Assigned(cases[id], who, now) \in Row
        /\ Grown(Assigned(cases[id], who, now), cases[id])
    BY <1>1, AssignedIsRow
  <2> QED
    BY <1>3, <1>6, <2>1, <2>2 DEF DraftFrom
<1> QED
  BY <1>5, <1>7, <1>8, <1>9, <1>10

-----------------------------------------------------------------------------
(***************************************************************************)
(* The invariant is inductive.                                             *)
(***************************************************************************)
LEMMA InitIInv == Init => IInv
<1> SUFFICES ASSUME Init PROVE IInv
  OBVIOUS
<1>1. DOMAIN cases = {} /\ cases = [c \in {} |-> {}]
  BY DEF Init
<1>2. \A w \in Workers : work[w] = Idle /\ ~Drafted(w)
  BY DEF Init, Drafted, Idle
<1>3. cases \in [DOMAIN cases -> Row]
  BY <1>1
<1>4. TypeOK
  BY <1>1, <1>3, BoundsAssumption DEF Init, TypeOK, Times, Idle
<1> QED
  BY <1>1, <1>2, <1>4 DEF IInv, DraftIdsIssued, OneRowPerKey, IdHasOneKey,
     FreshUnlessOverlapped

\* A step that leaves the table alone and ends or restarts one worker.
LEMMA UndraftedStep ==
    ASSUME IInv, NEW w \in Workers, NEW job \in {Idle} \cup Detecting,
           work' = [work EXCEPT ![w] = job],
           overlapped' = overlapped \ {w},
           UNCHANGED <<cases, issued, now>>
    PROVE  IInv'
<1>1. /\ work \in [Workers -> {Idle} \cup Detecting \cup Draft]
      /\ overlapped \subseteq {v \in Workers : work[v].pc = "drafted"}
  BY DEF IInv, TypeOK
<1>2. job.pc # "drafted"
  BY DEF Idle, Detecting
<1>3. \A v \in Workers : v # w => work'[v] = work[v]
  BY <1>1
<1>4. ~Drafted(w)' /\ \A v \in Workers : v # w => (Drafted(v)' <=> Drafted(v))
  BY <1>1, <1>2, <1>3 DEF Drafted
<1>5. TypeOK'
  <2>1. work' \in [Workers -> {Idle} \cup Detecting \cup Draft]
    BY <1>1
  <2>2. overlapped' \subseteq {v \in Workers : work'[v].pc = "drafted"}
    BY <1>1, <1>3
  <2> QED
    BY <2>1, <2>2 DEF IInv, TypeOK
<1>6. DraftIdsIssued' /\ OneRowPerKey' /\ IdHasOneKey'
  BY <1>3, <1>4 DEF IInv, DraftIdsIssued, OneRowPerKey, IdHasOneKey
<1>7. FreshUnlessOverlapped'
  BY <1>3, <1>4 DEF IInv, FreshUnlessOverlapped, Current, RowsOf
<1> QED
  BY <1>5, <1>6, <1>7 DEF IInv

\* A step that computes a draft from the table as it is.
LEMMA DraftingStep ==
    ASSUME IInv, NEW w \in Workers, NEW id \in Ids, NEW row \in Row, Drafts(w, id, row)
    PROVE  IInv'
<1>1. /\ work \in [Workers -> {Idle} \cup Detecting \cup Draft]
      /\ overlapped \subseteq {v \in Workers : Drafted(v)}
      /\ DOMAIN cases \subseteq issued /\ issued \subseteq Ids
      /\ \A c \in DOMAIN cases : cases[c] \in Row
  BY DEF IInv, TypeOK, Drafted
<1>2. PICK d \in BOOLEAN : work' = [work EXCEPT ![w] = MkDraft(id, row, d)]
  BY DEF Drafts
<1>3. /\ MkDraft(id, row, d).pc = "drafted"
      /\ MkDraft(id, row, d).id = id
      /\ MkDraft(id, row, d).row = row
  BY DEF MkDraft
<1>4. /\ work'[w] = MkDraft(id, row, d)
      /\ \A v \in Workers : v # w => work'[v] = work[v]
      /\ Drafted(w)'
      /\ \A v \in Workers : v # w => (Drafted(v)' <=> Drafted(v))
  BY <1>1, <1>2, <1>3 DEF Drafted
<1>5. ~Drafted(w) /\ w \notin overlapped
      /\ UNCHANGED <<cases, now, overlapped>>
  BY <1>1 DEF Drafts
<1>6. id \in issued' /\ issued \subseteq issued' /\ issued' \subseteq Ids
  BY <1>1 DEF Drafts
<1>7. MkDraft(id, row, d) \in Draft
  <2>1. Len(row.timeline) \in Nat /\ Len(row.timeline) > 0
    <3>1. CASE id \in DOMAIN cases /\ Grown(row, cases[id])
      <4>1. cases[id] \in Row /\ Len(row.timeline) = Len(cases[id].timeline) + 1
        BY <1>1, <3>1, GrownExtends
      <4>2. Len(cases[id].timeline) \in Nat
        BY <4>1 DEF Row
      <4> QED
        BY <4>1, <4>2
    <3>2. CASE Len(row.timeline) = 1
      BY <3>2
    <3> QED
      BY <3>1, <3>2 DEF Drafts
  <2>2. Len(row.timeline) - 1 \in 0..MaxTimeline
    BY <2>1, BoundsAssumption DEF Drafts
  <2> QED
    BY <2>2 DEF MkDraft, Draft
<1>8. TypeOK'
  <2>1. work' \in [Workers -> {Idle} \cup Detecting \cup Draft]
    BY <1>1, <1>2, <1>7
  <2>2. overlapped' \subseteq {v \in Workers : work'[v].pc = "drafted"}
    BY <1>1, <1>4, <1>5 DEF Drafted
  <2> QED
    BY <1>5, <1>6, <2>1, <2>2 DEF IInv, TypeOK
<1>9. DraftIdsIssued'
  BY <1>3, <1>4, <1>6 DEF IInv, DraftIdsIssued
<1>10. OneRowPerKey'
  BY <1>5 DEF IInv, OneRowPerKey
<1>11. id \in DOMAIN cases => row.key = cases[id].key
  BY <1>1 DEF Drafts, Grown
<1>12. \A v \in Workers : Drafted(v) /\ work[v].id = id => work[v].row.key = row.key
  <2>1. CASE id \in DOMAIN cases
    BY <1>11, <2>1 DEF IInv, IdHasOneKey
  <2>2. CASE id \notin issued
    BY <2>2 DEF IInv, DraftIdsIssued
  <2> QED
    BY <2>1, <2>2 DEF Drafts
<1>13. IdHasOneKey'
  BY <1>3, <1>4, <1>5, <1>11, <1>12 DEF IInv, IdHasOneKey
<1>14. Current(MkDraft(id, row, d))
  <2>1. CASE id \in DOMAIN cases /\ Grown(row, cases[id])
    <3>1. RowsOf(row.key) = {id}
      BY <1>11, <2>1 DEF IInv, OneRowPerKey, RowsOf
    <3> QED
      BY <1>3, <2>1, <3>1 DEF Current
  <2>2. CASE id \in Ids \ issued /\ RowsOf(row.key) = {}
    BY <1>1, <1>3, <2>2 DEF Current
  <2> QED
    BY <2>1, <2>2 DEF Drafts
<1>15. FreshUnlessOverlapped'
  BY <1>4, <1>5, <1>14 DEF IInv, FreshUnlessOverlapped, Current, RowsOf
<1> QED
  BY <1>8, <1>9, <1>10, <1>13, <1>15 DEF IInv

\* The step that writes the table.
LEMMA PersistStep ==
    ASSUME IInv, NEW w \in Workers, Persist(w)
    PROVE  IInv'
<1> DEFINE id == work[w].id
           row == work[w].row
<1>1. /\ work \in [Workers -> {Idle} \cup Detecting \cup Draft]
      /\ DOMAIN cases \subseteq issued /\ issued \subseteq Ids
      /\ \A c \in DOMAIN cases : cases[c] \in Row
      /\ overlapped \subseteq Workers
  BY DEF IInv, TypeOK
<1>2. Drafted(w) /\ work[w] \in Draft /\ id \in Ids /\ row \in Row /\ id \in issued
  <2>1. Drafted(w)
    BY DEF Persist, Drafted
  <2>2. work[w] \in Draft
    BY <1>1, <2>1 DEF Drafted, Idle, Detecting
  <2> QED
    BY <2>1, <2>2 DEF Draft, IInv, DraftIdsIssued
<1>3. /\ DOMAIN cases' = (DOMAIN cases \ RowsOf(row.key)) \cup {id}
      /\ cases'[id] = row
      /\ \A c \in DOMAIN cases' : c # id =>
            c \in DOMAIN cases /\ cases'[c] = cases[c] /\ cases[c].key # row.key
  BY DEF Persist, Replace, RowsOf
<1>4. /\ work'[w] = Idle
      /\ \A v \in Workers : v # w => work'[v] = work[v]
      /\ ~Drafted(w)'
      /\ \A v \in Workers : v # w => (Drafted(v)' <=> Drafted(v))
      /\ UNCHANGED <<issued, now>>
  BY <1>1 DEF Persist, Drafted, Idle
<1>5. overlapped' = (overlapped \cup
         {v \in Workers : Drafted(v) /\ work[v].row.key = row.key}) \ {w}
  BY DEF Persist, Drafted
<1> HIDE DEF id, row
<1>6. TypeOK'
  <2>1. cases' \in [DOMAIN cases' -> Row]
    <3>1. \A c \in DOMAIN cases' : cases'[c] \in Row
      BY <1>1, <1>2, <1>3
    <3>2. cases' = [c \in DOMAIN cases' |-> cases'[c]]
      BY DEF Persist, Replace
    <3> QED
      BY <3>1, <3>2
  <2>2. DOMAIN cases' \subseteq issued'
    BY <1>1, <1>2, <1>3, <1>4
  <2>3. work' \in [Workers -> {Idle} \cup Detecting \cup Draft]
    BY <1>1 DEF Persist
  <2>4. overlapped' \subseteq {v \in Workers : work'[v].pc = "drafted"}
    BY <1>4, <1>5 DEF IInv, TypeOK, Drafted
  <2> QED
    BY <1>4, <2>1, <2>2, <2>3, <2>4 DEF IInv, TypeOK
<1>7. DraftIdsIssued'
  BY <1>4 DEF IInv, DraftIdsIssued
<1>8. OneRowPerKey'
  BY <1>3 DEF IInv, OneRowPerKey
<1>9. IdHasOneKey'
  <2>1. ASSUME NEW v \in Workers, Drafted(v)', work'[v].id \in DOMAIN cases'
        PROVE  cases'[work'[v].id].key = work'[v].row.key
    <3>1. v # w /\ work'[v] = work[v] /\ Drafted(v)
      BY <1>4, <2>1
    <3>2. CASE work[v].id = id
      BY <1>2, <1>3, <3>1, <3>2 DEF IInv, IdHasOneKey, id, row
    <3>3. CASE work[v].id # id
      BY <1>3, <2>1, <3>1, <3>3 DEF IInv, IdHasOneKey
    <3> QED
      BY <3>2, <3>3
  <2>2. \A u, v \in Workers : Drafted(u)' /\ Drafted(v)' /\ work'[u].id = work'[v].id =>
           work'[u].row.key = work'[v].row.key
    BY <1>4 DEF IInv, IdHasOneKey
  <2> QED
    BY <2>1, <2>2 DEF IdHasOneKey
<1>10. FreshUnlessOverlapped'
  <2> DEFINE Rows(k) == {c \in DOMAIN cases' : cases'[c].key = k}
  <2>1. SUFFICES ASSUME NEW v \in Workers, Drafted(v)', v \notin overlapped'
                 PROVE  IF work'[v].id \in DOMAIN cases'
                        THEN /\ Rows(work'[v].row.key) = {work'[v].id}
                             /\ Grown(work'[v].row, cases'[work'[v].id])
                        ELSE Rows(work'[v].row.key) = {}
    BY DEF FreshUnlessOverlapped, Current, RowsOf, Grown
  <2>2. v # w /\ work'[v] = work[v] /\ Drafted(v) /\ v \notin overlapped
        /\ work[v].row.key # row.key
    BY <1>4, <1>5, <2>1
  <2>3. Current(work[v])
    BY <2>2 DEF IInv, FreshUnlessOverlapped
  <2>4. work[v].id # id
    BY <1>2, <2>2 DEF IInv, IdHasOneKey, id, row
  <2>5. id \in DOMAIN cases => cases[id].key = row.key
    BY <1>2 DEF IInv, IdHasOneKey, id, row
  <2>6. \A k : k # row.key => Rows(k) = RowsOf(k)
    BY <1>3, <2>5 DEF RowsOf
  <2>7. work[v].id \in DOMAIN cases => work[v].id \in RowsOf(work[v].row.key)
    BY <2>2 DEF RowsOf, IInv, IdHasOneKey
  <2>8. work[v].id \in DOMAIN cases' <=> work[v].id \in DOMAIN cases
    BY <1>3, <2>2, <2>4, <2>7 DEF RowsOf
  <2>9. work[v].id \in DOMAIN cases => cases'[work[v].id] = cases[work[v].id]
    BY <1>3, <2>4, <2>8
  <2> HIDE DEF Rows
  <2> QED
    BY <2>2, <2>3, <2>6, <2>8, <2>9 DEF Current
<1> QED
  BY <1>6, <1>7, <1>8, <1>9, <1>10 DEF IInv

\* Every step keeps the invariant.
LEMMA NextIInv == IInv /\ [Next]_vars => IInv'
<1> SUFFICES ASSUME IInv, [Next]_vars PROVE IInv'
  OBVIOUS
<1>1. CASE Tick
  <2>1. now' \in Times \ {0}
    BY <1>1, BoundsAssumption DEF Tick, IInv, TypeOK, Times
  <2> QED
    BY <1>1, <2>1 DEF Tick, IInv, TypeOK, DraftIdsIssued, OneRowPerKey, IdHasOneKey,
       FreshUnlessOverlapped, Current, RowsOf, Drafted
<1>2. CASE UNCHANGED vars
  BY <1>2 DEF vars, IInv, TypeOK, DraftIdsIssued, OneRowPerKey, IdHasOneKey,
     FreshUnlessOverlapped, Current, RowsOf, Drafted
<1>3. ASSUME NEW w \in Workers, StartDetection(w) PROVE IInv'
  <2>1. w \notin overlapped
    BY <1>3 DEF StartDetection, IInv, TypeOK, Idle
  <2>2. PICK key \in Keys, run \in Runs \cup {None} :
           work' = [work EXCEPT ![w] = [pc |-> "detecting", key |-> key,
                                        run |-> run, at |-> now]]
    BY <1>3 DEF StartDetection
  <2>3. [pc |-> "detecting", key |-> key, run |-> run, at |-> now] \in Detecting
    BY DEF Detecting, IInv, TypeOK
  <2>4. overlapped' = overlapped \ {w} /\ UNCHANGED <<cases, issued, now>>
    BY <1>3, <2>1 DEF StartDetection
  <2> QED
    BY <2>2, <2>3, <2>4, UndraftedStep
<1>4. ASSUME NEW w \in Workers, RejectRedetection(w) PROVE IInv'
  <2>1. w \notin overlapped
    BY <1>4 DEF RejectRedetection, IInv, TypeOK
  <2>2. /\ overlapped' = overlapped \ {w}
        /\ UNCHANGED <<cases, issued, now>>
        /\ work' = [work EXCEPT ![w] = Idle]
    BY <1>4, <2>1 DEF RejectRedetection
  <2> QED
    BY <2>2, UndraftedStep
<1>5. ASSUME NEW w \in Workers, Abandon(w) PROVE IInv'
  BY <1>5, UndraftedStep DEF Abandon
<1>6. ASSUME NEW w \in Workers,
             DraftNewCase(w) \/ DraftRedetection(w) \/ DraftTransition(w)
                \/ DraftComment(w) \/ DraftAssignment(w)
      PROVE  IInv'
  <2>1. PICK id \in Ids, row \in Row : Drafts(w, id, row)
    BY <1>6, DraftingActions DEF IInv
  <2> QED
    BY <2>1, DraftingStep
<1>7. ASSUME NEW w \in Workers, Persist(w) PROVE IInv'
  BY <1>7, PersistStep
<1> QED
  BY <1>1, <1>2, <1>3, <1>4, <1>5, <1>6, <1>7 DEF Next

LEMMA Invariant == Spec => []IInv
BY InitIInv, NextIInv, PTL DEF Spec

-----------------------------------------------------------------------------
(***************************************************************************)
(* The theorems.                                                           *)
(***************************************************************************)
\* Every variable keeps its type.
THEOREM TypeCorrect == Spec => []TypeOK
BY Invariant, PTL DEF IInv

\* Two racing first detections never leave two cases for one problem.
THEOREM DedupeIsUnique == Spec => []OneRowPerKey
BY Invariant, PTL DEF IInv

\* One step: what is lost was overlapped.
LEMMA LossStep ==
    ASSUME IInv, [Next]_vars
    PROVE  [\A c \in DOMAIN cases :
              Kept(c) \/ \E w \in overlapped : w \notin overlapped']_vars
<1> SUFFICES ASSUME NEW c \in DOMAIN cases,
                    ~\E w \in overlapped : w \notin overlapped'
             PROVE  Kept(c)
  OBVIOUS
<1>1. cases[c] \in Row /\ cases[c].timeline \in Seq(Event)
  BY DEF IInv, TypeOK, Row
<1>2. Extends(cases[c].timeline, cases[c].timeline)
  BY <1>1 DEF Extends
<1>3. CASE cases' = cases
  BY <1>2, <1>3 DEF Kept
<1>4. ASSUME NEW w \in Workers, Persist(w) PROVE Kept(c)
  <2>1. Drafted(w) /\ w \notin overlapped
    BY <1>4 DEF Persist, Drafted
  <2>2. Current(work[w])
    BY <2>1 DEF IInv, FreshUnlessOverlapped
  <2>3. work[w] \in Draft
    BY <2>1 DEF IInv, TypeOK, Drafted, Idle, Detecting
  <2>4. CASE c = work[w].id
    <3>1. Grown(work[w].row, cases[c])
      BY <2>2, <2>4 DEF Current
    <3>2. Extends(work[w].row.timeline, cases[c].timeline)
      BY <1>1, <2>3, <3>1, GrownExtends DEF Draft
    <3>3. c \in DOMAIN cases' /\ cases'[c] = work[w].row
      BY <1>4, <2>4 DEF Persist, Replace
    <3> QED
      BY <3>2, <3>3 DEF Kept
  <2>5. CASE c # work[w].id
    <3>1. c \notin RowsOf(work[w].row.key)
      BY <2>2, <2>5 DEF Current
    <3>2. c \in DOMAIN cases' /\ cases'[c] = cases[c]
      BY <1>4, <2>5, <3>1 DEF Persist, Replace
    <3> QED
      BY <1>2, <3>2 DEF Kept
  <2> QED
    BY <2>4, <2>5
<1> QED
  BY <1>3, <1>4 DEF Next, vars, Tick, StartDetection, DraftNewCase, DraftRedetection,
     RejectRedetection, DraftTransition, DraftComment, DraftAssignment, DraftFrom, Abandon

\* A mutation that no other commit on its key overlaps loses nothing.
THEOREM NoOverlapNoLoss == Spec => LossNeedsOverlap
<1>1. IInv /\ [Next]_vars =>
        [\A c \in DOMAIN cases :
           Kept(c) \/ \E w \in overlapped : w \notin overlapped']_vars
  BY LossStep
<1> QED
  BY <1>1, Invariant, PTL DEF Spec, LossNeedsOverlap

\* With one worker no draft is ever overlapped.
LEMMA LoneWorkerStep ==
    ASSUME \A v, w \in Workers : v = w, overlapped = {}, [Next]_vars
    PROVE  overlapped' = {}
BY DEF Next, vars, Tick, StartDetection, DraftNewCase, DraftRedetection,
   RejectRedetection, DraftTransition, DraftComment, DraftAssignment, DraftFrom,
   Persist, Abandon

\* A store that one worker alone writes keeps every case and its history.
LEMMA LoneWorkerKeepsHistory ==
    ASSUME \A v, w \in Workers : v = w
    PROVE  Spec => [][\A c \in DOMAIN cases : Kept(c)]_vars
<1>1. Init => overlapped = {}
  BY DEF Init
<1>2. overlapped = {} /\ [Next]_vars => (overlapped = {})'
  BY LoneWorkerStep
<1>3. Spec => [](overlapped = {})
  BY <1>1, <1>2, PTL DEF Spec
<1>4. IInv /\ overlapped = {} /\ [Next]_vars => [\A c \in DOMAIN cases : Kept(c)]_vars
  BY LossStep
<1> QED
  BY <1>3, <1>4, Invariant, PTL DEF Spec
-----------------------------------------------------------------------------
(***************************************************************************)
(* PART TWO.  One row: the timeline is lawful and the columns follow it,   *)
(* however many workers race on the table.                                 *)
(***************************************************************************)

-----------------------------------------------------------------------------
(***************************************************************************)
(* Rows that agree with themselves.                                        *)
(***************************************************************************)
\* resolved_at and dismissed_at are empty but in the status they belong to.
ClosedOnce(row) ==
    /\ row.status # "resolved" => row.resolved = 0
    /\ row.status # "dismissed" => row.dismissed = 0

\* Legality and status need each other: an event is legal in the status the row
\* has, which is the one of the last status event.
Lawful(row) ==
    /\ LegalTimeline(row.timeline)
    /\ StatusFollows(row)
    /\ ClosedOnce(row)
    /\ AcknowledgementFollows(row)
    /\ OwnerFollows(row)
    /\ RunsFollow(row)
    /\ EvidenceFollows(row)

-----------------------------------------------------------------------------
(***************************************************************************)
(* One more event, column by column.                                       *)
(***************************************************************************)
LEMMA AppendedTimeline ==
    ASSUME NEW tl \in Seq(Event), NEW e \in Event
    PROVE  /\ Append(tl, e) \in Seq(Event)
           /\ Len(tl) \in Nat
           /\ Len(Append(tl, e)) = Len(tl) + 1
           /\ DOMAIN tl = 1..Len(tl)
           /\ DOMAIN Append(tl, e) = 1..(Len(tl) + 1)
           /\ \A i \in DOMAIN tl : i # Len(tl) + 1 /\ Append(tl, e)[i] = tl[i]
           /\ Append(tl, e)[Len(tl) + 1] = e
OBVIOUS

\* The last status event of the longer timeline governs no event but the new one.
LEMMA LegalGrows ==
    ASSUME NEW old \in Row, NEW e \in Event,
           LegalTimeline(old.timeline), StatusFollows(old), LegalIn(e, old.status)
    PROVE  LegalTimeline(Append(old.timeline, e))
<1> DEFINE tl == old.timeline
           new == Append(tl, e)
           n == Len(tl)
<1>1. tl \in Seq(Event)
  BY DEF Row
<1>2. /\ n \in Nat /\ n > 0 /\ Len(new) = n + 1
      /\ DOMAIN tl = 1..n /\ DOMAIN new = 1..(n + 1)
      /\ \A i \in 1..n : new[i] = tl[i]
      /\ new[n + 1] = e
  BY <1>1, AppendedTimeline DEF LegalTimeline
<1>3. Len(new) > 0 /\ new[1].type = "case_opened"
  BY <1>2 DEF LegalTimeline
<1> HIDE DEF new, n
<1>4. ASSUME NEW i \in DOMAIN new, NEW j \in DOMAIN new, Governs(new, i, j)
      PROVE  LegalIn(new[j], new[i].to)
  <2>1. i \in 1..n /\ new[i] = tl[i] /\ i < j
    BY <1>2, <1>4 DEF Governs
  <2>2. CASE j \in 1..n
    <3>1. Governs(tl, i, j)
      BY <1>2, <1>4, <2>1, <2>2 DEF Governs
    <3> QED
      BY <1>2, <2>1, <2>2, <3>1 DEF LegalTimeline
  <2>3. CASE j = n + 1
    <3>1. LastStatus(tl, i)
      BY <1>2, <1>4, <2>1, <2>3 DEF Governs, LastStatus, n
    <3>2. old.status = tl[i].to
      BY <1>2, <2>1, <3>1 DEF StatusFollows
    <3> QED
      BY <1>2, <2>1, <2>3, <3>2
  <2> QED
    BY <1>2, <2>2, <2>3
<1> QED
  BY <1>3, <1>4 DEF LegalTimeline, new

LEMMA StatusKept ==
    ASSUME NEW old \in Row, NEW row \in Row, NEW e \in Event,
           row.timeline = Append(old.timeline, e), ~IsStatusEvent(e),
           StatusFollows(old),
           row.status = old.status, row.resolved = old.resolved,
           row.dismissed = old.dismissed
    PROVE  StatusFollows(row)
<1> DEFINE tl == old.timeline
           n == Len(tl)
<1>1. tl \in Seq(Event)
  BY DEF Row
<1>2. /\ n \in Nat /\ Len(row.timeline) = n + 1
      /\ DOMAIN tl = 1..n /\ DOMAIN row.timeline = 1..(n + 1)
      /\ \A i \in 1..n : row.timeline[i] = tl[i]
      /\ row.timeline[n + 1] = e
  BY <1>1, AppendedTimeline
<1> SUFFICES ASSUME NEW i \in DOMAIN row.timeline, LastStatus(row.timeline, i)
             PROVE  i \in DOMAIN tl /\ row.timeline[i] = tl[i] /\ LastStatus(tl, i)
  BY DEF StatusFollows
<1>3. i \in 1..n
  BY <1>2 DEF LastStatus
<1>4. \A j \in (i + 1)..n : ~IsStatusEvent(tl[j])
  BY <1>2, <1>3 DEF LastStatus
<1> QED
  BY <1>2, <1>3, <1>4 DEF LastStatus

LEMMA StatusSet ==
    ASSUME NEW old \in Row, NEW row \in Row, NEW e \in Event,
           row.timeline = Append(old.timeline, e), IsStatusEvent(e),
           row.status = e.to,
           row.resolved = IF e.to = "resolved" THEN e.at ELSE 0,
           row.dismissed = IF e.to = "dismissed" THEN e.at ELSE 0
    PROVE  StatusFollows(row)
<1> DEFINE n == Len(old.timeline)
<1>1. old.timeline \in Seq(Event)
  BY DEF Row
<1>2. /\ n \in Nat /\ Len(row.timeline) = n + 1
      /\ DOMAIN row.timeline = 1..(n + 1)
      /\ row.timeline[n + 1] = e
  BY <1>1, AppendedTimeline
<1> SUFFICES ASSUME NEW i \in DOMAIN row.timeline, LastStatus(row.timeline, i)
             PROVE  i = n + 1
  BY <1>2 DEF StatusFollows
<1> QED
  BY <1>2 DEF LastStatus

\* The same for the acknowledgement, ...
LEMMA AcknowledgementKept ==
    ASSUME NEW old \in Row, NEW row \in Row, NEW e \in Event,
           row.timeline = Append(old.timeline, e),
           e.to \notin {"acknowledged", "in_progress"}, e.type # "case_reopened",
           AcknowledgementFollows(old), row.acknowledged = old.acknowledged
    PROVE  AcknowledgementFollows(row)
<1> DEFINE tl == old.timeline
           n == Len(tl)
           C(s) == {i \in DOMAIN s : TakesCharge(s, i)}
<1>1. tl \in Seq(Event)
  BY DEF Row
<1>2. /\ n \in Nat /\ Len(row.timeline) = n + 1
      /\ DOMAIN tl = 1..n /\ DOMAIN row.timeline = 1..(n + 1)
      /\ \A i \in 1..n : row.timeline[i] = tl[i]
      /\ row.timeline[n + 1] = e
  BY <1>1, AppendedTimeline
<1>3. \A i \in 1..n : TakesCharge(row.timeline, i) <=> TakesCharge(tl, i)
  <2> SUFFICES ASSUME NEW i \in 1..n
               PROVE  TakesCharge(row.timeline, i) <=> TakesCharge(tl, i)
    OBVIOUS
  <2>1. (\A j \in (i + 1)..(n + 1) : row.timeline[j].type # "case_reopened")
           <=> (\A j \in (i + 1)..n : tl[j].type # "case_reopened")
    BY <1>2
  <2> QED
    BY <1>2, <2>1 DEF TakesCharge
<1>4. C(row.timeline) = C(tl)
  BY <1>2, <1>3 DEF TakesCharge
<1> QED
  BY <1>2, <1>4 DEF AcknowledgementFollows

LEMMA AcknowledgementSet ==
    ASSUME NEW old \in Row, NEW row \in Row, NEW e \in Event,
           row.timeline = Append(old.timeline, e),
           e.to \in {"acknowledged", "in_progress"}, row.acknowledged = e.at
    PROVE  AcknowledgementFollows(row)
<1> DEFINE n == Len(old.timeline)
           charges == {i \in DOMAIN row.timeline : TakesCharge(row.timeline, i)}
<1>1. old.timeline \in Seq(Event)
  BY DEF Row
<1>2. /\ n \in Nat /\ Len(row.timeline) = n + 1
      /\ DOMAIN row.timeline = 1..(n + 1)
      /\ row.timeline[n + 1] = e
  BY <1>1, AppendedTimeline
<1>3. n + 1 \in charges
  BY <1>2 DEF TakesCharge
<1>4. \A i \in charges : (\A j \in charges : j <= i) => i = n + 1
  BY <1>2, <1>3
<1> QED
  BY <1>2, <1>3, <1>4 DEF AcknowledgementFollows

LEMMA AcknowledgementCleared ==
    ASSUME NEW old \in Row, NEW row \in Row, NEW e \in Event,
           row.timeline = Append(old.timeline, e),
           e.to = "open", e.type = "case_reopened", row.acknowledged = 0
    PROVE  AcknowledgementFollows(row)
<1> DEFINE n == Len(old.timeline)
<1>1. old.timeline \in Seq(Event)
  BY DEF Row
<1>2. /\ n \in Nat /\ Len(row.timeline) = n + 1
      /\ DOMAIN row.timeline = 1..(n + 1)
      /\ row.timeline[n + 1] = e
  BY <1>1, AppendedTimeline
<1>3. \A i \in DOMAIN row.timeline : ~TakesCharge(row.timeline, i)
  BY <1>2 DEF TakesCharge
<1> QED
  BY <1>3 DEF AcknowledgementFollows

\* ... the owner ...
LEMMA OwnerKept ==
    ASSUME NEW old \in Row, NEW row \in Row, NEW e \in Event,
           row.timeline = Append(old.timeline, e), ~IsAssignment(e),
           OwnerFollows(old),
           row.assignee = old.assignee, row.assigned = old.assigned
    PROVE  OwnerFollows(row)
<1> DEFINE tl == old.timeline
           n == Len(tl)
<1>1. tl \in Seq(Event)
  BY DEF Row
<1>2. /\ n \in Nat /\ Len(row.timeline) = n + 1
      /\ DOMAIN tl = 1..n /\ DOMAIN row.timeline = 1..(n + 1)
      /\ \A i \in 1..n : row.timeline[i] = tl[i]
      /\ row.timeline[n + 1] = e
  BY <1>1, AppendedTimeline
<1>3. (\A i \in DOMAIN row.timeline : ~IsAssignment(row.timeline[i])) =>
         (\A i \in DOMAIN tl : ~IsAssignment(tl[i]))
  BY <1>2
<1>4. ASSUME NEW i \in DOMAIN row.timeline, LastAssignment(row.timeline, i)
      PROVE  i \in DOMAIN tl /\ row.timeline[i] = tl[i] /\ LastAssignment(tl, i)
  <2>1. i \in 1..n
    BY <1>2, <1>4 DEF LastAssignment
  <2>2. \A j \in (i + 1)..n : ~IsAssignment(tl[j])
    BY <1>2, <1>4, <2>1 DEF LastAssignment
  <2> QED
    BY <1>2, <1>4, <2>1, <2>2 DEF LastAssignment
<1> QED
  BY <1>3, <1>4 DEF OwnerFollows

LEMMA OwnerSet ==
    ASSUME NEW old \in Row, NEW row \in Row, NEW e \in Event,
           row.timeline = Append(old.timeline, e), IsAssignment(e),
           row.assignee = e.ref, row.assigned = e.at
    PROVE  OwnerFollows(row)
<1> DEFINE n == Len(old.timeline)
<1>1. old.timeline \in Seq(Event)
  BY DEF Row
<1>2. /\ n \in Nat /\ Len(row.timeline) = n + 1
      /\ DOMAIN row.timeline = 1..(n + 1)
      /\ row.timeline[n + 1] = e
  BY <1>1, AppendedTimeline
<1> HIDE DEF n
<1>3. ASSUME NEW i \in DOMAIN row.timeline, LastAssignment(row.timeline, i)
      PROVE  i = n + 1
  <2>1. i \in Nat /\ i <= n + 1
    BY <1>2
  <2>2. i < n + 1 => n + 1 \in (i + 1)..Len(row.timeline)
    BY <1>2, <2>1
  <2>3. i < n + 1 => ~IsAssignment(row.timeline[n + 1])
    BY <1>3, <2>2 DEF LastAssignment
  <2> QED
    BY <1>2, <2>1, <2>3
<1> QED
  BY <1>2, <1>3 DEF OwnerFollows

\* ... and the runs.
LEMMA RunsGrow ==
    ASSUME NEW old \in Row, NEW row \in Row, NEW e \in Event,
           row.timeline = Append(old.timeline, e),
           RunsFollow(old),
           row.runs = IF e.type \in DetectionEvents
                      THEN old.runs \cup ({e.ref} \ {None}) ELSE old.runs
    PROVE  RunsFollow(row)
<1> DEFINE tl == old.timeline
           n == Len(tl)
           Seen(s) == {s[i].ref : i \in {j \in DOMAIN s : s[j].type \in DetectionEvents}}
<1>1. tl \in Seq(Event)
  BY DEF Row
<1>2. /\ n \in Nat
      /\ DOMAIN tl = 1..n /\ DOMAIN row.timeline = DOMAIN tl \cup {n + 1}
      /\ \A i \in DOMAIN tl : row.timeline[i] = tl[i]
      /\ row.timeline[n + 1] = e
  BY <1>1, AppendedTimeline
<1> HIDE DEF n
<1>3. Seen(row.timeline) = Seen(tl) \cup (IF e.type \in DetectionEvents THEN {e.ref} ELSE {})
  BY <1>2
<1> HIDE DEF Seen
<1>4. Seen(row.timeline) \ {None} = row.runs
  BY <1>3 DEF RunsFollow, Seen
<1> QED
  BY <1>4 DEF RunsFollow, Seen

\* ... and the evidence.
LEMMA EvidenceGrows ==
    ASSUME NEW old \in Row, NEW row \in Row, NEW e \in Event,
           row.timeline = Append(old.timeline, e),
           EvidenceFollows(old),
           e.type \in DetectionEvents => e.ref \in Runs \cup {None} /\ e.at # 0,
           row.evidence = IF e.type \in DetectionEvents
                          THEN [old.evidence EXCEPT ![e.ref] = IF @ = 0 THEN e.at ELSE @]
                          ELSE old.evidence
    PROVE  EvidenceFollows(row)
<1> DEFINE tl == old.timeline
           n == Len(tl)
<1>1. tl \in Seq(Event) /\ old.evidence \in [Runs \cup {None} -> Times]
  BY DEF Row
<1>2. /\ n \in Nat
      /\ DOMAIN tl = 1..n /\ DOMAIN row.timeline = DOMAIN tl \cup {n + 1}
      /\ \A i \in DOMAIN tl : row.timeline[i] = tl[i]
      /\ row.timeline[n + 1] = e
  BY <1>1, AppendedTimeline
<1> HIDE DEF n
<1> SUFFICES ASSUME NEW run \in Runs \cup {None}
             PROVE  LET brought == Brought(row.timeline, run) IN
                    /\ row.evidence[run] # 0 <=> brought # {}
                    /\ \A i \in brought : (\A j \in brought : i <= j) =>
                          row.evidence[run] = row.timeline[i].at
  BY DEF EvidenceFollows
<1>3. /\ old.evidence[run] # 0 <=> Brought(tl, run) # {}
      /\ \A i \in Brought(tl, run) : (\A j \in Brought(tl, run) : i <= j) =>
            old.evidence[run] = tl[i].at
      /\ Brought(tl, run) \subseteq 1..n
  BY <1>2 DEF EvidenceFollows, Brought
<1>4. CASE e.type \in DetectionEvents /\ e.ref = run
  <2>1. Brought(row.timeline, run) = Brought(tl, run) \cup {n + 1}
    BY <1>2, <1>4 DEF Brought
  <2>2. row.evidence[run] = IF old.evidence[run] = 0 THEN e.at ELSE old.evidence[run]
    BY <1>1, <1>4
  <2>3. CASE Brought(tl, run) = {}
    BY <1>2, <1>3, <1>4, <2>1, <2>2, <2>3
  <2>4. CASE Brought(tl, run) # {}
    <3>1. \A j \in Brought(tl, run) : j \in DOMAIN tl /\ j < n + 1
      BY <1>2, <1>3
    <3>2. row.evidence[run] = old.evidence[run] /\ row.evidence[run] # 0
      BY <1>3, <2>2, <2>4
    <3>3. ASSUME NEW i \in Brought(row.timeline, run),
                 \A j \in Brought(row.timeline, run) : i <= j
          PROVE  row.evidence[run] = row.timeline[i].at
      <4>1. i \in Brought(tl, run)
        BY <1>2, <2>1, <2>4, <3>1, <3>3
      <4> QED
        BY <1>2, <1>3, <2>1, <3>1, <3>2, <3>3, <4>1
    <3> QED
      BY <2>1, <3>2, <3>3
  <2> QED
    BY <2>3, <2>4
<1>5. CASE ~(e.type \in DetectionEvents /\ e.ref = run)
  <2>1. Brought(row.timeline, run) = Brought(tl, run)
    BY <1>2, <1>5 DEF Brought
  <2>2. row.evidence[run] = old.evidence[run]
    BY <1>1, <1>5
  <2>3. \A i \in Brought(tl, run) : row.timeline[i] = tl[i]
    BY <1>2 DEF Brought
  <2> QED
    BY <1>3, <2>1, <2>2, <2>3
<1> QED
  BY <1>4, <1>5

-----------------------------------------------------------------------------
(***************************************************************************)
(* The mutations, and the event each of them appends.                      *)
(***************************************************************************)
\* A mutation that logs e keeps a lawful row lawful if e is legal in the status
\* the row has, and if it changes the columns e tells about and no others.
LEMMA LawfulStep ==
    ASSUME NEW old \in Row, NEW row \in Row, NEW e \in Event, Lawful(old),
           row.timeline = Append(old.timeline, e),
           LegalIn(e, old.status),
           row.status = IF IsStatusEvent(e) THEN e.to ELSE old.status,
           row.resolved = IF e.to = "resolved" THEN e.at
                          ELSE IF IsStatusEvent(e) THEN 0 ELSE old.resolved,
           row.dismissed = IF e.to = "dismissed" THEN e.at
                           ELSE IF IsStatusEvent(e) THEN 0 ELSE old.dismissed,
           row.acknowledged = IF e.to \in {"acknowledged", "in_progress"} THEN e.at
                              ELSE IF e.type = "case_reopened" THEN 0
                              ELSE old.acknowledged,
           row.assignee = IF IsAssignment(e) THEN e.ref ELSE old.assignee,
           row.assigned = IF IsAssignment(e) THEN e.at ELSE old.assigned,
           row.runs = IF e.type \in DetectionEvents
                      THEN old.runs \cup ({e.ref} \ {None}) ELSE old.runs,
           row.evidence = IF e.type \in DetectionEvents
                          THEN [old.evidence EXCEPT ![e.ref] = IF @ = 0 THEN e.at ELSE @]
                          ELSE old.evidence,
           e.type \in DetectionEvents => e.ref \in Runs \cup {None} /\ e.at # 0,
           ~IsStatusEvent(e) => e.to = None,
           e.type = "case_reopened" => e.to = "open"
    PROVE  Lawful(row)
<1>1. LegalTimeline(row.timeline)
  BY LegalGrows DEF Lawful
<1>2. StatusFollows(row)
  <2>1. CASE IsStatusEvent(e)
    BY <2>1, StatusSet
  <2>2. CASE ~IsStatusEvent(e)
    <3>1. e.to \notin {"resolved", "dismissed"}
      BY <2>2 DEF None
    <3> QED
      BY <2>2, <3>1, StatusKept DEF Lawful
  <2> QED
    BY <2>1, <2>2
<1>3. ClosedOnce(row)
  BY DEF Lawful, ClosedOnce, None
<1>4. AcknowledgementFollows(row)
  <2>1. CASE e.to \in {"acknowledged", "in_progress"}
    BY <2>1, AcknowledgementSet
  <2>2. CASE e.type = "case_reopened"
    BY <2>2, AcknowledgementCleared
  <2>3. CASE e.to \notin {"acknowledged", "in_progress"} /\ e.type # "case_reopened"
    BY <2>3, AcknowledgementKept DEF Lawful
  <2> QED
    BY <2>1, <2>2, <2>3
<1>5. OwnerFollows(row)
  <2>1. CASE IsAssignment(e)
    BY <2>1, OwnerSet
  <2>2. CASE ~IsAssignment(e)
    BY <2>2, OwnerKept DEF Lawful
  <2> QED
    BY <2>1, <2>2
<1>6. RunsFollow(row)
  BY RunsGrow DEF Lawful
<1>7. EvidenceFollows(row)
  BY EvidenceGrows DEF Lawful
<1> QED
  BY <1>1, <1>2, <1>3, <1>4, <1>5, <1>6, <1>7 DEF Lawful

LEMMA MkEventIsEvent ==
    ASSUME NEW type \in EventTypes, NEW to \in Statuses \cup {None},
           NEW ref \in Runs \cup Assignees \cup {None}, NEW at \in Times
    PROVE  /\ MkEvent(type, to, ref, at) \in Event
           /\ MkEvent(type, to, ref, at).type = type
           /\ MkEvent(type, to, ref, at).to = to
           /\ MkEvent(type, to, ref, at).ref = ref
           /\ MkEvent(type, to, ref, at).at = at
BY DEF MkEvent, Event

\* A case opened by a detection tells its own story from the start.
LEMMA OpenedIsLawful ==
    ASSUME NEW det \in Detecting
    PROVE  Lawful(Opened(det))
<1> DEFINE e == MkEvent("case_opened", "open", det.run, det.at)
           row == Opened(det)
<1>1. /\ e \in Event /\ e.type = "case_opened" /\ e.to = "open"
      /\ e.ref = det.run /\ e.at = det.at
  <2>1. /\ "case_opened" \in EventTypes /\ "open" \in Statuses \cup {None}
        /\ det.run \in Runs \cup Assignees \cup {None} /\ det.at \in Times
    BY DEF EventTypes, StatusEvents, Statuses, Detecting
  <2> QED
    BY <2>1, MkEventIsEvent
<1>2. row.timeline = <<e>>
  BY DEF Opened
<1> HIDE DEF e
<1>3. DOMAIN row.timeline = {1} /\ Len(row.timeline) = 1 /\ row.timeline[1] = e
  BY <1>1, <1>2
<1>4. /\ row.status = "open" /\ row.resolved = 0 /\ row.dismissed = 0
      /\ row.acknowledged = 0 /\ row.assignee = None /\ row.assigned = 0
      /\ row.runs = {det.run} \ {None}
      /\ row.evidence = [r \in Runs \cup {None} |-> IF r = det.run THEN det.at ELSE 0]
      /\ det.at # 0
  BY DEF Opened, Detecting
<1> HIDE DEF row
<1>5. LegalTimeline(row.timeline)
  BY <1>1, <1>3 DEF LegalTimeline, Governs
<1>6. StatusFollows(row) /\ ClosedOnce(row)
  BY <1>1, <1>3, <1>4 DEF StatusFollows, ClosedOnce
<1>7. AcknowledgementFollows(row)
  BY <1>1, <1>3, <1>4 DEF AcknowledgementFollows, TakesCharge
<1>8. OwnerFollows(row)
  BY <1>1, <1>3, <1>4 DEF OwnerFollows, LastAssignment, IsAssignment
<1>9. RunsFollow(row)
  BY <1>1, <1>3, <1>4 DEF RunsFollow, DetectionEvents
<1>10. EvidenceFollows(row)
  <2>1. \A run : Brought(row.timeline, run) = IF run = det.run THEN {1} ELSE {}
    BY <1>1, <1>3 DEF Brought, DetectionEvents
  <2> QED
    BY <1>1, <1>3, <1>4, <2>1 DEF EvidenceFollows
<1> QED
  BY <1>5, <1>6, <1>7, <1>8, <1>9, <1>10 DEF Lawful, row

LEMMA RedetectedIsLawful ==
    ASSUME NEW old \in Row, NEW det \in Detecting, Lawful(old)
    PROVE  Lawful(Redetected(old, det))
<1> DEFINE e == IF old.status \in Terminal
                THEN MkEvent("case_reopened", "open", det.run, det.at)
                ELSE MkEvent("case_updated", None, det.run, det.at)
           row == Redetected(old, det)
<1>1. row \in Row
  BY RedetectedIsRow
<1>2. /\ det.run \in Runs \cup Assignees \cup {None} /\ det.at \in Times
      /\ det.run \in Runs \cup {None} /\ det.at # 0
      /\ "case_reopened" \in EventTypes /\ "case_updated" \in EventTypes
      /\ "open" \in Statuses \cup {None} /\ None \in Statuses \cup {None}
  BY DEF Detecting, EventTypes, DetectionEvents, Statuses
<1>3. /\ e \in Event /\ e.ref = det.run /\ e.at = det.at
      /\ old.status \in Terminal => e.type = "case_reopened" /\ e.to = "open"
      /\ old.status \notin Terminal => e.type = "case_updated" /\ e.to = None
  BY <1>2, MkEventIsEvent
<1>4. /\ row.timeline = Append(old.timeline, e)
      /\ row.runs = old.runs \cup ({det.run} \ {None})
      /\ row.assignee = old.assignee /\ row.assigned = old.assigned
  BY DEF Redetected, Reopened, Updated, Merged, Logged, Row
<1>8. row.evidence = [old.evidence EXCEPT ![det.run] = IF @ = 0 THEN det.at ELSE @]
  BY RedetectedIsRow DEF UniqueSnapshots
<1>5. /\ row.status = IF old.status \in Terminal THEN "open" ELSE old.status
      /\ row.resolved = IF old.status \in Terminal THEN 0 ELSE old.resolved
      /\ row.dismissed = IF old.status \in Terminal THEN 0 ELSE old.dismissed
      /\ row.acknowledged = IF old.status \in Terminal THEN 0 ELSE old.acknowledged
  BY DEF Redetected, Reopened, Updated, Merged, Logged, Row
<1> HIDE DEF e, row
<1>6. /\ e.type \in DetectionEvents /\ ~IsAssignment(e)
      /\ IsStatusEvent(e) <=> old.status \in Terminal
      /\ e.to \notin {"acknowledged", "in_progress", "resolved", "dismissed"}
      /\ LegalIn(e, old.status)
  BY <1>3 DEF DetectionEvents, IsAssignment, IsStatusEvent, StatusEvents, None, LegalIn
<1>7. Lawful(row)
  BY <1>1, <1>2, <1>3, <1>4, <1>5, <1>6, <1>8, LawfulStep
<1> QED
  BY <1>7 DEF row

LEMMA TransitionedIsLawful ==
    ASSUME NEW old \in Row, NEW to \in Statuses, NEW at \in Times, Lawful(old),
           to \in Transitions[old.status]
    PROVE  Lawful(Transitioned(old, to, at))
<1> DEFINE e == MkEvent("status_changed", to, None, at)
           row == Transitioned(old, to, at)
<1>1. row \in Row
  BY TransitionedIsRow
<1>2. /\ e \in Event /\ e.type = "status_changed" /\ e.to = to
      /\ e.ref = None /\ e.at = at
  <2>1. /\ "status_changed" \in EventTypes /\ to \in Statuses \cup {None}
        /\ None \in Runs \cup Assignees \cup {None}
    BY DEF EventTypes, StatusEvents
  <2> QED
    BY <2>1, MkEventIsEvent
<1>3. /\ row.timeline = Append(old.timeline, e)
      /\ row.runs = old.runs /\ row.evidence = old.evidence
      /\ row.assignee = old.assignee /\ row.assigned = old.assigned
      /\ row.status = to
      /\ row.acknowledged = IF to \in {"acknowledged", "in_progress"} THEN at
                            ELSE old.acknowledged
      /\ row.resolved = IF to = "resolved" THEN at ELSE old.resolved
      /\ row.dismissed = IF to = "dismissed" THEN at ELSE old.dismissed
  BY DEF Transitioned, Logged, Row
<1>4. old.status \notin Terminal /\ old.resolved = 0 /\ old.dismissed = 0
  BY DEF Lawful, ClosedOnce, Row, Statuses, Transitions, Terminal
<1> HIDE DEF e, row
<1>5. /\ e.type \notin DetectionEvents /\ e.type # "case_reopened" /\ ~IsAssignment(e)
      /\ IsStatusEvent(e)
      /\ LegalIn(e, old.status)
  BY <1>2 DEF DetectionEvents, IsAssignment, IsStatusEvent, StatusEvents, LegalIn
<1>6. Lawful(row)
  BY <1>1, <1>2, <1>3, <1>4, <1>5, LawfulStep
<1> QED
  BY <1>6 DEF row

LEMMA CommentedIsLawful ==
    ASSUME NEW old \in Row, NEW at \in Times, Lawful(old)
    PROVE  Lawful(Commented(old, at))
<1> DEFINE e == MkEvent("operator_comment", None, None, at)
           row == Commented(old, at)
<1>1. row \in Row
  BY CommentedIsRow
<1>2. /\ e \in Event /\ e.type = "operator_comment" /\ e.to = None
      /\ e.ref = None /\ e.at = at
  <2>1. /\ "operator_comment" \in EventTypes /\ None \in Statuses \cup {None}
        /\ None \in Runs \cup Assignees \cup {None}
    BY DEF EventTypes
  <2> QED
    BY <2>1, MkEventIsEvent
<1>3. /\ row.timeline = Append(old.timeline, e)
      /\ row.runs = old.runs /\ row.evidence = old.evidence
      /\ row.assignee = old.assignee /\ row.assigned = old.assigned
      /\ row.status = old.status /\ row.acknowledged = old.acknowledged
      /\ row.resolved = old.resolved /\ row.dismissed = old.dismissed
  BY DEF Commented, Logged, Row
<1> HIDE DEF e, row
<1>4. /\ e.type \notin DetectionEvents /\ e.type # "case_reopened" /\ ~IsAssignment(e)
      /\ ~IsStatusEvent(e)
      /\ e.to \notin {"acknowledged", "in_progress", "resolved", "dismissed"}
      /\ LegalIn(e, old.status)
  BY <1>2 DEF DetectionEvents, IsAssignment, IsStatusEvent, StatusEvents, LegalIn, None
<1>5. Lawful(row)
  BY <1>1, <1>2, <1>3, <1>4, LawfulStep
<1> QED
  BY <1>5 DEF row

LEMMA AssignedIsLawful ==
    ASSUME NEW old \in Row, NEW who \in Assignees, NEW at \in Times, Lawful(old),
           old.status \notin Terminal
    PROVE  Lawful(Assigned(old, who, at))
<1> DEFINE e == MkEvent("case_assigned", None, who, at)
           row == Assigned(old, who, at)
<1>1. row \in Row
  BY AssignedIsRow
<1>2. /\ e \in Event /\ e.type = "case_assigned" /\ e.to = None
      /\ e.ref = who /\ e.at = at
  <2>1. /\ "case_assigned" \in EventTypes /\ None \in Statuses \cup {None}
        /\ who \in Runs \cup Assignees \cup {None}
    BY DEF EventTypes
  <2> QED
    BY <2>1, MkEventIsEvent
<1>3. /\ row.timeline = Append(old.timeline, e)
      /\ row.runs = old.runs /\ row.evidence = old.evidence
      /\ row.assignee = who /\ row.assigned = at
      /\ row.status = old.status /\ row.acknowledged = old.acknowledged
      /\ row.resolved = old.resolved /\ row.dismissed = old.dismissed
  BY DEF Assigned, Logged, Row
<1> HIDE DEF e, row
<1>4. /\ e.type \notin DetectionEvents /\ e.type # "case_reopened" /\ IsAssignment(e)
      /\ ~IsStatusEvent(e)
      /\ e.to \notin {"acknowledged", "in_progress", "resolved", "dismissed"}
      /\ LegalIn(e, old.status)
  BY <1>2 DEF DetectionEvents, IsAssignment, IsStatusEvent, StatusEvents, LegalIn, None
<1>5. Lawful(row)
  BY <1>1, <1>2, <1>3, <1>4, LawfulStep
<1> QED
  BY <1>5 DEF row

-----------------------------------------------------------------------------
(***************************************************************************)
(* The rows of the table and of the drafts are lawful.                     *)
(***************************************************************************)
RowsAreLawful ==
    /\ \A c \in DOMAIN cases : Lawful(cases[c])
    /\ \A w \in Workers : Drafted(w) => Lawful(work[w].row)

LEMMA InitLawful == Init => RowsAreLawful
BY DEF Init, RowsAreLawful, Drafted, Idle

\* Workers draft lawful rows from lawful rows, though what they read may be stale
\* by the time they write.
LEMMA DraftIsLawful ==
    ASSUME TypeOK, RowsAreLawful, NEW w \in Workers,
           DraftNewCase(w) \/ DraftRedetection(w) \/ DraftTransition(w)
              \/ DraftComment(w) \/ DraftAssignment(w)
    PROVE  /\ \E id \in Ids, row \in Row, d \in BOOLEAN :
                 Lawful(row) /\ work' = [work EXCEPT ![w] = MkDraft(id, row, d)]
           /\ UNCHANGED cases
<1>1. /\ work[w].pc = "detecting" => work[w] \in Detecting
      /\ \A c \in DOMAIN cases : c \in Ids /\ cases[c] \in Row /\ Lawful(cases[c])
      /\ now \in Times
  BY DEF TypeOK, RowsAreLawful, Idle, Detecting, Draft
<1>2. CASE DraftNewCase(w)
  <2>1. Opened(work[w]) \in Row /\ Lawful(Opened(work[w]))
    BY <1>1, <1>2, OpenedIsRow, OpenedIsLawful DEF DraftNewCase
  <2> QED
    BY <1>2, <2>1 DEF DraftNewCase
<1>3. CASE DraftRedetection(w)
  <2>1. PICK c \in RowsOf(work[w].key) :
           work' = [work EXCEPT ![w] = MkDraft(c, Redetected(cases[c], work[w]), TRUE)]
    BY <1>3 DEF DraftRedetection
  <2>2. work[w] \in Detecting /\ c \in DOMAIN cases
    BY <1>1, <1>3, <2>1 DEF DraftRedetection, RowsOf
  <2>3. Redetected(cases[c], work[w]) \in Row /\ Lawful(Redetected(cases[c], work[w]))
    BY <1>1, <2>2, RedetectedIsRow, RedetectedIsLawful
  <2> QED
    BY <1>1, <1>3, <2>1, <2>2, <2>3 DEF DraftRedetection
<1>4. CASE DraftTransition(w)
  <2>1. PICK id \in DOMAIN cases, to \in Statuses :
           /\ to \in Transitions[cases[id].status]
           /\ DraftFrom(w, id, Transitioned(cases[id], to, now))
    BY <1>4 DEF DraftTransition
  <2>2. /\ Transitioned(cases[id], to, now) \in Row
        /\ Lawful(Transitioned(cases[id], to, now))
    BY <1>1, <2>1, TransitionedIsRow, TransitionedIsLawful
  <2> QED
    BY <1>1, <2>1, <2>2 DEF DraftFrom
<1>5. CASE DraftComment(w)
  <2>1. PICK id \in DOMAIN cases : DraftFrom(w, id, Commented(cases[id], now))
    BY <1>5 DEF DraftComment
  <2>2. Commented(cases[id], now) \in Row /\ Lawful(Commented(cases[id], now))
    BY <1>1, CommentedIsRow, CommentedIsLawful
  <2> QED
    BY <1>1, <2>1, <2>2 DEF DraftFrom
<1>6. CASE DraftAssignment(w)
  <2>1. PICK id \in DOMAIN cases, who \in Assignees :
           /\ cases[id].status \notin Terminal
           /\ DraftFrom(w, id, Assigned(cases[id], who, now))
    BY <1>6 DEF DraftAssignment
  <2>2. Assigned(cases[id], who, now) \in Row /\ Lawful(Assigned(cases[id], who, now))
    BY <1>1, <2>1, AssignedIsRow, AssignedIsLawful
  <2> QED
    BY <1>1, <2>1, <2>2 DEF DraftFrom
<1> QED
  BY <1>2, <1>3, <1>4, <1>5, <1>6

LEMMA NextLawful ==
    ASSUME TypeOK, RowsAreLawful, [Next]_vars
    PROVE  RowsAreLawful'
<1> USE DEF RowsAreLawful, Drafted
<1>1. ASSUME NEW w \in Workers,
             DraftNewCase(w) \/ DraftRedetection(w) \/ DraftTransition(w)
                \/ DraftComment(w) \/ DraftAssignment(w)
      PROVE  RowsAreLawful'
  <2>1. PICK id \in Ids, row \in Row, d \in BOOLEAN :
           Lawful(row) /\ work' = [work EXCEPT ![w] = MkDraft(id, row, d)]
    BY <1>1, DraftIsLawful
  <2>2. MkDraft(id, row, d).row = row
    BY DEF MkDraft
  <2>3. \A v \in Workers : Drafted(v)' => Lawful(work'[v].row)
    BY <2>1, <2>2 DEF TypeOK
  <2>4. UNCHANGED cases
    BY <1>1, DraftIsLawful
  <2> QED
    BY <2>3, <2>4
<1>2. ASSUME NEW w \in Workers, Persist(w) PROVE RowsAreLawful'
  <2>1. \A c \in DOMAIN cases' :
           \/ cases'[c] = work[w].row
           \/ c \in DOMAIN cases /\ cases'[c] = cases[c]
    BY <1>2 DEF Persist, Replace
  <2>2. \A v \in Workers : Drafted(v)' => Drafted(v) /\ work'[v] = work[v]
    BY <1>2 DEF Persist, TypeOK, Idle
  <2> QED
    BY <1>2, <2>1, <2>2 DEF Persist
<1>3. ASSUME NEW w \in Workers,
             StartDetection(w) \/ RejectRedetection(w) \/ Abandon(w)
      PROVE  RowsAreLawful'
  <2>1. \A v \in Workers : Drafted(v)' => Drafted(v) /\ work'[v] = work[v]
    BY <1>3 DEF StartDetection, RejectRedetection, Abandon, TypeOK, Idle
  <2>2. UNCHANGED cases
    BY <1>3 DEF StartDetection, RejectRedetection, Abandon
  <2> QED
    BY <2>1, <2>2
<1>4. CASE Tick \/ UNCHANGED vars
  BY <1>4 DEF Tick, vars
<1> QED
  BY <1>1, <1>2, <1>3, <1>4 DEF Next

LEMMA RowsStayLawful == Spec => []RowsAreLawful
BY InitLawful, NextLawful, TypeCorrect, PTL DEF Spec

-----------------------------------------------------------------------------
(***************************************************************************)
(* The theorems.                                                           *)
(***************************************************************************)
\* Whatever stale rows the workers write, every timeline in the table is one the
\* lifecycle allows.
THEOREM LegalTimelines == Spec => []TimelinesAreLegal
<1>1. RowsAreLawful => TimelinesAreLegal
  BY DEF RowsAreLawful, Lawful, TimelinesAreLegal
<1> QED
  BY <1>1, RowsStayLawful, PTL

\* Status and closing times are those of the last status event.
THEOREM StatusOfTimeline == Spec => []StatusFollowsTimeline
<1>1. RowsAreLawful => StatusFollowsTimeline
  BY DEF RowsAreLawful, Lawful, StatusFollowsTimeline
<1> QED
  BY <1>1, RowsStayLawful, PTL

\* Acknowledgement, owner, runs and evidence are those the timeline tells.
THEOREM ColumnsOfTimeline == Spec => []ColumnsFollowTimeline
<1>1. RowsAreLawful => ColumnsFollowTimeline
  BY DEF RowsAreLawful, Lawful, ColumnsFollowTimeline
<1> QED
  BY <1>1, RowsStayLawful, PTL

-----------------------------------------------------------------------------
(***************************************************************************)
(* Rows pass validation, and so does what is computed from them.           *)
(***************************************************************************)
LEMMA OpenedIsValid ==
    ASSUME NEW det \in Detecting
    PROVE  ValidTimes(Opened(det)) /\ Opened(det).opened = det.at
<1>1. det.at \in Nat
  BY DEF Detecting, Times
<1> QED
  BY <1>1 DEF Opened, ValidTimes

\* Of what validation asks, a detection can only violate that a case is not
\* updated before it is opened.
LEMMA RedetectedIsValid ==
    ASSUME NEW row \in Row, ValidTimes(row), NEW det \in Detecting
    PROVE  /\ ValidTimes(Redetected(row, det)) <=> row.opened <= det.at
           /\ Redetected(row, det).opened = row.opened
<1> DEFINE new == Redetected(row, det)
<1>1. /\ new.opened = row.opened /\ new.updated = det.at
      /\ new.assigned = row.assigned /\ new.assignee = row.assignee
      /\ new.status = IF row.status \in Terminal THEN "open" ELSE row.status
      /\ new.resolved = IF row.status \in Terminal THEN 0 ELSE row.resolved
      /\ new.dismissed = IF row.status \in Terminal THEN 0 ELSE row.dismissed
      /\ new.acknowledged = IF row.status \in Terminal THEN 0 ELSE row.acknowledged
  BY DEF Redetected, Reopened, Updated, Merged, Logged, Row
<1>2. /\ row.opened \in Nat /\ row.assigned \in Nat /\ row.resolved \in Nat
      /\ row.dismissed \in Nat /\ row.acknowledged \in Nat /\ det.at \in Nat
  BY DEF Row, Detecting, Times
<1> HIDE DEF new
<1>3. /\ row.acknowledged # 0 => row.acknowledged >= row.opened
      /\ row.assigned # 0 => row.assigned >= row.opened
      /\ row.resolved # 0 => row.resolved >= row.opened
      /\ row.dismissed # 0 => row.dismissed >= row.opened
      /\ row.assigned # 0 <=> row.assignee # None
      /\ row.resolved # 0 <=> row.status = "resolved"
      /\ row.dismissed # 0 <=> row.status = "dismissed"
  BY DEF ValidTimes
<1>4. /\ new.acknowledged # 0 => new.acknowledged >= new.opened
      /\ new.assigned # 0 => new.assigned >= new.opened
      /\ new.resolved # 0 => new.resolved >= new.opened
      /\ new.dismissed # 0 => new.dismissed >= new.opened
  BY <1>1, <1>2, <1>3
<1>5. new.assigned # 0 <=> new.assignee # None
  BY <1>1, <1>3
<1>6. /\ new.resolved # 0 <=> new.status = "resolved"
      /\ new.dismissed # 0 <=> new.status = "dismissed"
  BY <1>1, <1>3 DEF Terminal
<1>7. ValidTimes(new) <=> new.updated >= new.opened
  BY <1>4, <1>5, <1>6 DEF ValidTimes
<1>8. ValidTimes(new) <=> row.opened <= det.at
  BY <1>1, <1>2, <1>7
<1> QED
  BY <1>1, <1>8 DEF new

\* What an operator may do is never refused.
LEMMA OperatedIsValid ==
    ASSUME NEW row \in Row, ValidTimes(row), NEW at \in Times \ {0}, row.opened <= at
    PROVE  /\ \A to \in Transitions[row.status] : ValidTimes(Transitioned(row, to, at))
           /\ ValidTimes(Commented(row, at))
           /\ \A who \in Assignees : ValidTimes(Assigned(row, who, at))
<1>1. /\ row.opened \in Nat /\ row.assigned \in Nat /\ row.resolved \in Nat
      /\ row.dismissed \in Nat /\ row.acknowledged \in Nat /\ at \in Nat /\ at # 0
  BY DEF Row, Times
<1>2. ASSUME NEW to \in Transitions[row.status]
      PROVE  ValidTimes(Transitioned(row, to, at))
  <2> DEFINE new == Transitioned(row, to, at)
  <2>1. /\ new.opened = row.opened /\ new.updated = at
        /\ new.assigned = row.assigned /\ new.assignee = row.assignee
        /\ new.status = to
        /\ new.acknowledged = (IF to \in {"acknowledged", "in_progress"} THEN at
                               ELSE row.acknowledged)
        /\ new.resolved = IF to = "resolved" THEN at ELSE row.resolved
        /\ new.dismissed = IF to = "dismissed" THEN at ELSE row.dismissed
    BY DEF Transitioned, Logged, Row
  <2>2. row.status \notin Terminal /\ to \in Statuses
    BY DEF Row, Statuses, Transitions, Terminal
  <2>3. row.resolved = 0 /\ row.dismissed = 0
    BY <2>2 DEF ValidTimes, Terminal
  <2> HIDE DEF new
  <2>4. ValidTimes(new)
    BY <1>1, <2>1, <2>2, <2>3 DEF ValidTimes, Statuses
  <2> QED
    BY <2>4 DEF new
<1>3. ValidTimes(Commented(row, at))
  <2> DEFINE new == Commented(row, at)
  <2>1. /\ new.opened = row.opened /\ new.updated = at
        /\ new.assigned = row.assigned /\ new.assignee = row.assignee
        /\ new.status = row.status /\ new.acknowledged = row.acknowledged
        /\ new.resolved = row.resolved /\ new.dismissed = row.dismissed
    BY DEF Commented, Logged, Row
  <2> HIDE DEF new
  <2>2. ValidTimes(new)
    BY <1>1, <2>1 DEF ValidTimes
  <2> QED
    BY <2>2 DEF new
<1>4. ASSUME NEW who \in Assignees
      PROVE  ValidTimes(Assigned(row, who, at))
  <2> DEFINE new == Assigned(row, who, at)
  <2>1. /\ new.opened = row.opened /\ new.updated = at
        /\ new.assigned = at /\ new.assignee = who
        /\ new.status = row.status /\ new.acknowledged = row.acknowledged
        /\ new.resolved = row.resolved /\ new.dismissed = row.dismissed
    BY DEF Assigned, Logged, Row
  <2>2. who # None
    BY OwnersAssumption
  <2> HIDE DEF new
  <2>3. ValidTimes(new)
    BY <1>1, <2>1, <2>2 DEF ValidTimes
  <2> QED
    BY <2>3 DEF new
<1> QED
  BY <1>2, <1>3, <1>4

\* Times of the past, in rows that passed validation.
ValidPast(row) == ValidTimes(row) /\ row.opened <= now

RowsAreValid ==
    /\ \A c \in DOMAIN cases : ValidPast(cases[c])
    /\ \A w \in Workers : Drafted(w) => ValidPast(work[w].row)
    /\ \A w \in Workers : work[w].pc = "detecting" => work[w].at <= now

LEMMA InitValid == Init => RowsAreValid
BY DEF Init, RowsAreValid, Drafted, Idle

LEMMA DraftIsValid ==
    ASSUME TypeOK, RowsAreValid, NEW w \in Workers,
           DraftNewCase(w) \/ DraftRedetection(w) \/ DraftTransition(w)
              \/ DraftComment(w) \/ DraftAssignment(w)
    PROVE  /\ \E id \in Ids, row \in Row, d \in BOOLEAN :
                 ValidPast(row) /\ work' = [work EXCEPT ![w] = MkDraft(id, row, d)]
           /\ UNCHANGED <<cases, now>>
<1>1. /\ work[w].pc = "detecting" => work[w] \in Detecting /\ work[w].at <= now
      /\ \A c \in DOMAIN cases : c \in Ids /\ cases[c] \in Row /\ ValidPast(cases[c])
      /\ now \in Times
  BY DEF TypeOK, RowsAreValid, Idle, Detecting, Draft
<1>2. CASE DraftNewCase(w)
  <2>1. Opened(work[w]) \in Row /\ ValidPast(Opened(work[w]))
    BY <1>1, <1>2, OpenedIsRow, OpenedIsValid DEF DraftNewCase, ValidPast
  <2> QED
    BY <1>2, <2>1 DEF DraftNewCase
<1>3. CASE DraftRedetection(w)
  <2>1. PICK c \in RowsOf(work[w].key) :
           /\ ValidTimes(Redetected(cases[c], work[w]))
           /\ work' = [work EXCEPT ![w] = MkDraft(c, Redetected(cases[c], work[w]), TRUE)]
    BY <1>3 DEF DraftRedetection
  <2>2. work[w] \in Detecting /\ c \in DOMAIN cases
    BY <1>1, <1>3, <2>1 DEF DraftRedetection, RowsOf
  <2>3. /\ Redetected(cases[c], work[w]) \in Row
        /\ ValidPast(Redetected(cases[c], work[w]))
    BY <1>1, <2>1, <2>2, RedetectedIsRow, RedetectedIsValid DEF ValidPast
  <2> QED
    BY <1>1, <1>3, <2>1, <2>2, <2>3 DEF DraftRedetection
<1>4. CASE DraftTransition(w)
  <2>1. PICK id \in DOMAIN cases, to \in Statuses :
           DraftFrom(w, id, Transitioned(cases[id], to, now))
    BY <1>4 DEF DraftTransition
  <2>2. Transitioned(cases[id], to, now) \in Row
    BY <1>1, TransitionedIsRow
  <2>3. Transitioned(cases[id], to, now).opened = cases[id].opened
    BY <1>1 DEF Transitioned, Logged, Row
  <2> QED
    BY <1>1, <2>1, <2>2, <2>3 DEF DraftFrom, ValidPast
<1>5. CASE DraftComment(w)
  <2>1. PICK id \in DOMAIN cases : DraftFrom(w, id, Commented(cases[id], now))
    BY <1>5 DEF DraftComment
  <2>2. Commented(cases[id], now) \in Row
    BY <1>1, CommentedIsRow
  <2>3. Commented(cases[id], now).opened = cases[id].opened
    BY <1>1 DEF Commented, Logged, Row
  <2> QED
    BY <1>1, <2>1, <2>2, <2>3 DEF DraftFrom, ValidPast
<1>6. CASE DraftAssignment(w)
  <2>1. PICK id \in DOMAIN cases, who \in Assignees :
           DraftFrom(w, id, Assigned(cases[id], who, now))
    BY <1>6 DEF DraftAssignment
  <2>2. Assigned(cases[id], who, now) \in Row
    BY <1>1, AssignedIsRow
  <2>3. Assigned(cases[id], who, now).opened = cases[id].opened
    BY <1>1 DEF Assigned, Logged, Row
  <2> QED
    BY <1>1, <2>1, <2>2, <2>3 DEF DraftFrom, ValidPast
<1> QED
  BY <1>2, <1>3, <1>4, <1>5, <1>6

LEMMA NextValid ==
    ASSUME TypeOK, RowsAreValid, [Next]_vars
    PROVE  RowsAreValid'
<1> USE DEF RowsAreValid, Drafted
<1>1. ASSUME NEW w \in Workers,
             DraftNewCase(w) \/ DraftRedetection(w) \/ DraftTransition(w)
                \/ DraftComment(w) \/ DraftAssignment(w)
      PROVE  RowsAreValid'
  <2>1. PICK id \in Ids, row \in Row, d \in BOOLEAN :
           ValidPast(row) /\ work' = [work EXCEPT ![w] = MkDraft(id, row, d)]
    BY <1>1, DraftIsValid
  <2>2. MkDraft(id, row, d).row = row /\ MkDraft(id, row, d).pc = "drafted"
    BY DEF MkDraft
  <2>3. UNCHANGED <<cases, now>>
    BY <1>1, DraftIsValid
  <2>4. \A v \in Workers : Drafted(v)' => ValidPast(work'[v].row)
    BY <2>1, <2>2 DEF TypeOK
  <2>5. \A v \in Workers : work'[v].pc = "detecting" => work[v].pc = "detecting" /\ work'[v] = work[v]
    BY <2>1, <2>2 DEF TypeOK
  <2> QED
    BY <2>3, <2>4, <2>5 DEF ValidPast
<1>2. ASSUME NEW w \in Workers, Persist(w) PROVE RowsAreValid'
  <2>1. \A c \in DOMAIN cases' :
           \/ cases'[c] = work[w].row
           \/ c \in DOMAIN cases /\ cases'[c] = cases[c]
    BY <1>2 DEF Persist, Replace
  <2>2. \A v \in Workers : work'[v] = work[v] \/ work'[v] = Idle
    BY <1>2 DEF Persist, TypeOK
  <2> QED
    BY <1>2, <2>1, <2>2 DEF Persist, Idle, ValidPast
<1>3. ASSUME NEW w \in Workers,
             RejectRedetection(w) \/ Abandon(w)
      PROVE  RowsAreValid'
  <2>1. \A v \in Workers : work'[v] = work[v] \/ work'[v] = Idle
    BY <1>3 DEF RejectRedetection, Abandon, TypeOK
  <2>2. UNCHANGED <<cases, now>>
    BY <1>3 DEF RejectRedetection, Abandon
  <2> QED
    BY <2>1, <2>2 DEF Idle, ValidPast
<1>4. ASSUME NEW w \in Workers, StartDetection(w) PROVE RowsAreValid'
  <2>1. PICK key \in Keys, run \in Runs \cup {None} :
           work' = [work EXCEPT ![w] = [pc |-> "detecting", key |-> key,
                                        run |-> run, at |-> now]]
    BY <1>4 DEF StartDetection
  <2>2. \A v \in Workers : v # w => work'[v] = work[v]
    BY <2>1 DEF TypeOK
  <2>3. work'[w].pc = "detecting" /\ work'[w].at = now
    BY <2>1 DEF TypeOK
  <2>4. UNCHANGED <<cases, now>> /\ now <= now
    BY <1>4 DEF StartDetection, TypeOK, Times
  <2> QED
    BY <2>2, <2>3, <2>4 DEF ValidPast
<1>5. CASE Tick
  <2>1. now \in Nat /\ now' = now + 1 /\ UNCHANGED <<cases, work>>
    BY <1>5 DEF Tick, TypeOK, Times
  <2>2. \A c \in DOMAIN cases : cases[c].opened \in Nat
    BY DEF TypeOK, Row, Times
  <2>3. \A w \in Workers : /\ Drafted(w) => work[w].row.opened \in Nat
                           /\ work[w].pc = "detecting" => work[w].at \in Nat
    BY DEF TypeOK, Idle, Detecting, Draft, Row, Times
  <2> QED
    BY <2>1, <2>2, <2>3 DEF ValidPast
<1>6. CASE UNCHANGED vars
  BY <1>6 DEF vars, ValidPast
<1> QED
  BY <1>1, <1>2, <1>3, <1>4, <1>5, <1>6 DEF Next

\* A detection is refused exactly by a case opened after it read the clock, an
\* operator never, whatever workers race and however often a case recurs.
THEOREM OnlyNewerCases == Spec => []OnlyNewerCasesRefuse
<1>1. Spec => []RowsAreValid
  BY InitValid, NextValid, TypeCorrect, PTL DEF Spec
<1>2. TypeOK /\ RowsAreValid => OnlyNewerCasesRefuse
  <2> SUFFICES ASSUME TypeOK, RowsAreValid, NEW c \in DOMAIN cases
               PROVE  /\ \A w \in Workers :
                            (work[w].pc = "detecting" /\ work[w].key = cases[c].key) =>
                               (ValidTimes(Redetected(cases[c], work[w])) <=>
                                   cases[c].opened <= work[w].at)
                      /\ \A to \in Transitions[cases[c].status] :
                            ValidTimes(Transitioned(cases[c], to, now))
                      /\ ValidTimes(Commented(cases[c], now))
                      /\ \A who \in Assignees : ValidTimes(Assigned(cases[c], who, now))
    BY DEF OnlyNewerCasesRefuse
  <2>1. cases[c] \in Row /\ ValidTimes(cases[c]) /\ cases[c].opened <= now
        /\ now \in Times \ {0}
    BY DEF TypeOK, RowsAreValid, ValidPast
  <2>2. \A w \in Workers : work[w].pc = "detecting" => work[w] \in Detecting
    BY DEF TypeOK, Idle, Draft
  <2> QED
    BY <2>1, <2>2, RedetectedIsValid, OperatedIsValid
<1> QED
  BY <1>1, <1>2, TypeCorrect, PTL
-----------------------------------------------------------------------------
(***************************************************************************)
(* PART THREE.  CaseStore implements CaseBoard: every commit that no other *)
(* commit on its key has overtaken is one lawful operation on one case.    *)
(***************************************************************************)

-----------------------------------------------------------------------------
(***************************************************************************)
(* What a draft does to the case it was read from.                         *)
(***************************************************************************)
Changes(row, old, type, status, owner) ==
    /\ \E e \in Event : e.type = type /\ row.timeline = Append(old.timeline, e)
    /\ row.status = status
    /\ row.assignee = owner

\* One of the operations the board allows on an existing case.
LawfulChange(row, old) ==
    \/ old.status \in Terminal /\ Changes(row, old, "case_reopened", "open", old.assignee)
    \/ old.status \notin Terminal
          /\ Changes(row, old, "case_updated", old.status, old.assignee)
    \/ \E to \in Transitions[old.status] :
          Changes(row, old, "status_changed", to, old.assignee)
    \/ Changes(row, old, "operator_comment", old.status, old.assignee)
    \/ old.status \notin Terminal
          /\ \E who \in Assignees : Changes(row, old, "case_assigned", old.status, who)

NewCase(row) ==
    /\ \E e \in Event : e.type = "case_opened" /\ row.timeline = <<e>>
    /\ row.status = "open"
    /\ row.assignee = None

Fits(draft) ==
    IF draft.id \in DOMAIN cases THEN LawfulChange(draft.row, cases[draft.id])
                                 ELSE NewCase(draft.row)

\* A draft that no commit has overtaken is a lawful change of what is there now.
DraftsFit == \A w \in Workers : Drafted(w) /\ w \notin overlapped => Fits(work[w])

LEMMA OpenedIsNewCase ==
    ASSUME NEW det \in Detecting
    PROVE  NewCase(Opened(det))
<1> DEFINE e == MkEvent("case_opened", "open", det.run, det.at)
<1>1. e \in Event /\ e.type = "case_opened"
  <2>1. /\ "case_opened" \in EventTypes /\ "open" \in Statuses \cup {None}
        /\ det.run \in Runs \cup Assignees \cup {None} /\ det.at \in Times
    BY DEF EventTypes, StatusEvents, Statuses, Detecting
  <2> QED
    BY <2>1, MkEventIsEvent
<1>2. Opened(det).timeline = <<e>> /\ Opened(det).status = "open"
      /\ Opened(det).assignee = None
  BY DEF Opened
<1> QED
  BY <1>1, <1>2 DEF NewCase

LEMMA RedetectedIsLawfulChange ==
    ASSUME NEW old \in Row, NEW det \in Detecting
    PROVE  LawfulChange(Redetected(old, det), old)
<1> DEFINE up == MkEvent("case_updated", None, det.run, det.at)
           re == MkEvent("case_reopened", "open", det.run, det.at)
<1>1. /\ up \in Event /\ up.type = "case_updated"
      /\ re \in Event /\ re.type = "case_reopened"
  <2>1. /\ "case_reopened" \in EventTypes /\ "case_updated" \in EventTypes
        /\ "open" \in Statuses \cup {None} /\ None \in Statuses \cup {None}
        /\ det.run \in Runs \cup Assignees \cup {None} /\ det.at \in Times
    BY DEF EventTypes, DetectionEvents, Statuses, Detecting
  <2> QED
    BY <2>1, MkEventIsEvent
<1>2. CASE old.status \in Terminal
  <2>1. /\ Redetected(old, det).timeline = Append(old.timeline, re)
        /\ Redetected(old, det).status = "open"
        /\ Redetected(old, det).assignee = old.assignee
    BY <1>2 DEF Redetected, Reopened, Merged, Logged, Row
  <2> QED
    BY <1>1, <1>2, <2>1 DEF LawfulChange, Changes
<1>3. CASE old.status \notin Terminal
  <2>1. /\ Redetected(old, det).timeline = Append(old.timeline, up)
        /\ Redetected(old, det).status = old.status
        /\ Redetected(old, det).assignee = old.assignee
    BY <1>3 DEF Redetected, Updated, Merged, Logged, Row
  <2> QED
    BY <1>1, <1>3, <2>1 DEF LawfulChange, Changes
<1> QED
  BY <1>2, <1>3

LEMMA OperatedIsLawfulChange ==
    ASSUME NEW old \in Row, NEW at \in Times
    PROVE  /\ \A to \in Transitions[old.status] :
                 LawfulChange(Transitioned(old, to, at), old)
           /\ LawfulChange(Commented(old, at), old)
           /\ old.status \notin Terminal =>
                 \A who \in Assignees : LawfulChange(Assigned(old, who, at), old)
<1>1. ASSUME NEW to \in Transitions[old.status]
      PROVE  LawfulChange(Transitioned(old, to, at), old)
  <2> DEFINE e == MkEvent("status_changed", to, None, at)
  <2>1. e \in Event /\ e.type = "status_changed"
    <3>1. to \in Statuses \cup {None} /\ "status_changed" \in EventTypes
          /\ None \in Runs \cup Assignees \cup {None}
      BY DEF EventTypes, StatusEvents, Row, Statuses, Transitions
    <3> QED
      BY <3>1 DEF MkEvent, Event
  <2>2. /\ Transitioned(old, to, at).timeline = Append(old.timeline, e)
        /\ Transitioned(old, to, at).status = to
        /\ Transitioned(old, to, at).assignee = old.assignee
    BY DEF Transitioned, Logged, Row
  <2> QED
    BY <2>1, <2>2 DEF LawfulChange, Changes
<1>2. LawfulChange(Commented(old, at), old)
  <2> DEFINE e == MkEvent("operator_comment", None, None, at)
  <2>1. e \in Event /\ e.type = "operator_comment"
    BY DEF EventTypes, MkEvent, Event
  <2>2. /\ Commented(old, at).timeline = Append(old.timeline, e)
        /\ Commented(old, at).status = old.status
        /\ Commented(old, at).assignee = old.assignee
    BY DEF Commented, Logged, Row
  <2> QED
    BY <2>1, <2>2 DEF LawfulChange, Changes
<1>3. ASSUME old.status \notin Terminal, NEW who \in Assignees
      PROVE  LawfulChange(Assigned(old, who, at), old)
  <2> DEFINE e == MkEvent("case_assigned", None, who, at)
  <2>1. e \in Event /\ e.type = "case_assigned"
    BY DEF EventTypes, MkEvent, Event
  <2>2. /\ Assigned(old, who, at).timeline = Append(old.timeline, e)
        /\ Assigned(old, who, at).status = old.status
        /\ Assigned(old, who, at).assignee = who
    BY DEF Assigned, Logged, Row
  <2> QED
    BY <1>3, <2>1, <2>2 DEF LawfulChange, Changes
<1> QED
  BY <1>1, <1>2, <1>3

-----------------------------------------------------------------------------
(***************************************************************************)
(* Drafts fit until they are overtaken.                                    *)
(***************************************************************************)
\* A drafting step leaves the table alone and computes a draft that fits it.
LEMMA DraftFitsNow ==
    ASSUME TypeOK, NEW w \in Workers,
           DraftNewCase(w) \/ DraftRedetection(w) \/ DraftTransition(w)
              \/ DraftComment(w) \/ DraftAssignment(w)
    PROVE  /\ \E id \in Ids, row \in Row, d \in BOOLEAN :
                 /\ work' = [work EXCEPT ![w] = MkDraft(id, row, d)]
                 /\ Fits(MkDraft(id, row, d))
           /\ UNCHANGED <<cases, overlapped>>
<1>1. /\ work[w].pc = "detecting" => work[w] \in Detecting
      /\ \A c \in DOMAIN cases : c \in Ids /\ cases[c] \in Row
      /\ now \in Times
      /\ DOMAIN cases \subseteq issued
  BY DEF TypeOK, Idle, Detecting, Draft
<1>2. \A id, row, d : MkDraft(id, row, d).id = id /\ MkDraft(id, row, d).row = row
  BY DEF MkDraft
<1>3. CASE DraftNewCase(w)
  <2>1. PICK id \in Ids \ issued :
           work' = [work EXCEPT ![w] = MkDraft(id, Opened(work[w]), TRUE)]
    BY <1>3 DEF DraftNewCase
  <2>2. Opened(work[w]) \in Row /\ NewCase(Opened(work[w]))
    BY <1>1, <1>3, OpenedIsRow, OpenedIsNewCase DEF DraftNewCase
  <2>3. Fits(MkDraft(id, Opened(work[w]), TRUE))
    BY <1>1, <1>2, <2>2 DEF Fits
  <2> QED
    BY <1>3, <2>1, <2>2, <2>3 DEF DraftNewCase
<1>4. ASSUME NEW id \in DOMAIN cases, NEW row \in Row, NEW d \in BOOLEAN,
             LawfulChange(row, cases[id]), UNCHANGED <<cases, overlapped>>,
             work' = [work EXCEPT ![w] = MkDraft(id, row, d)]
      PROVE  /\ \E i \in Ids, r \in Row, b \in BOOLEAN :
                   /\ work' = [work EXCEPT ![w] = MkDraft(i, r, b)]
                   /\ Fits(MkDraft(i, r, b))
             /\ UNCHANGED <<cases, overlapped>>
  <2>1. Fits(MkDraft(id, row, d))
    BY <1>2, <1>4 DEF Fits
  <2> QED
    BY <1>1, <1>4, <2>1
<1>5. CASE DraftRedetection(w)
  <2>1. PICK c \in RowsOf(work[w].key) :
           work' = [work EXCEPT ![w] = MkDraft(c, Redetected(cases[c], work[w]), TRUE)]
    BY <1>5 DEF DraftRedetection
  <2>2. work[w] \in Detecting /\ c \in DOMAIN cases
    BY <1>1, <1>5, <2>1 DEF DraftRedetection, RowsOf
  <2>3. /\ Redetected(cases[c], work[w]) \in Row
        /\ LawfulChange(Redetected(cases[c], work[w]), cases[c])
    BY <1>1, <2>2, RedetectedIsRow, RedetectedIsLawfulChange
  <2> QED
    BY <1>4, <1>5, <2>1, <2>2, <2>3 DEF DraftRedetection
<1>6. CASE DraftTransition(w)
  <2>1. PICK id \in DOMAIN cases, to \in Statuses :
           /\ to \in Transitions[cases[id].status]
           /\ DraftFrom(w, id, Transitioned(cases[id], to, now))
    BY <1>6 DEF DraftTransition
  <2>2. /\ Transitioned(cases[id], to, now) \in Row
        /\ LawfulChange(Transitioned(cases[id], to, now), cases[id])
    BY <1>1, <2>1, TransitionedIsRow, OperatedIsLawfulChange
  <2> QED
    BY <1>4, <2>1, <2>2 DEF DraftFrom
<1>7. CASE DraftComment(w)
  <2>1. PICK id \in DOMAIN cases : DraftFrom(w, id, Commented(cases[id], now))
    BY <1>7 DEF DraftComment
  <2>2. /\ Commented(cases[id], now) \in Row
        /\ LawfulChange(Commented(cases[id], now), cases[id])
    BY <1>1, CommentedIsRow, OperatedIsLawfulChange
  <2> QED
    BY <1>4, <2>1, <2>2 DEF DraftFrom
<1>8. CASE DraftAssignment(w)
  <2>1. PICK id \in DOMAIN cases, who \in Assignees :
           /\ cases[id].status \notin Terminal
           /\ DraftFrom(w, id, Assigned(cases[id], who, now))
    BY <1>8 DEF DraftAssignment
  <2>2. /\ Assigned(cases[id], who, now) \in Row
        /\ LawfulChange(Assigned(cases[id], who, now), cases[id])
    BY <1>1, <2>1, AssignedIsRow, OperatedIsLawfulChange
  <2> QED
    BY <1>4, <2>1, <2>2 DEF DraftFrom
<1> QED
  BY <1>3, <1>5, <1>6, <1>7, <1>8

\* A commit leaves alone the rows of the drafts it does not overtake.
LEMMA PersistSparesOthers ==
    ASSUME IInv, NEW w \in Workers, Persist(w), NEW v \in Workers,
           Drafted(v), v # w, v \notin overlapped'
    PROVE  /\ v \notin overlapped
           /\ work[v].id \in DOMAIN cases' <=> work[v].id \in DOMAIN cases
           /\ work[v].id \in DOMAIN cases => cases'[work[v].id] = cases[work[v].id]
<1>1. Drafted(w) /\ v \notin overlapped /\ work[v].row.key # work[w].row.key
  BY DEF Persist, Drafted
<1>2. work[v].id # work[w].id
  BY <1>1 DEF IInv, IdHasOneKey
<1>3. work[v].id \in DOMAIN cases => work[v].id \notin RowsOf(work[w].row.key)
  BY <1>1 DEF IInv, IdHasOneKey, RowsOf
<1> QED
  BY <1>1, <1>2, <1>3 DEF Persist, Replace

LEMMA InitFits == Init => DraftsFit
BY DEF Init, DraftsFit, Drafted, Idle

LEMMA NextFits ==
    ASSUME IInv, DraftsFit, [Next]_vars
    PROVE  DraftsFit'
<1> USE DEF Drafted
<1>0. TypeOK
  BY DEF IInv
<1>1. ASSUME NEW w \in Workers,
             DraftNewCase(w) \/ DraftRedetection(w) \/ DraftTransition(w)
                \/ DraftComment(w) \/ DraftAssignment(w)
      PROVE  DraftsFit'
  <2>1. PICK id \in Ids, row \in Row, d \in BOOLEAN :
           /\ work' = [work EXCEPT ![w] = MkDraft(id, row, d)]
           /\ Fits(MkDraft(id, row, d))
    BY <1>0, <1>1, DraftFitsNow
  <2>2. UNCHANGED <<cases, overlapped>>
    BY <1>0, <1>1, DraftFitsNow
  <2> QED
    BY <1>0, <2>1, <2>2 DEF DraftsFit, Fits, TypeOK
<1>2. ASSUME NEW w \in Workers, Persist(w) PROVE DraftsFit'
  <2> SUFFICES ASSUME NEW v \in Workers, Drafted(v)', v \notin overlapped'
               PROVE  IF work'[v].id \in DOMAIN cases'
                      THEN LawfulChange(work'[v].row, cases'[work'[v].id])
                      ELSE NewCase(work'[v].row)
    BY DEF DraftsFit, Fits, LawfulChange, Changes, NewCase
  <2>1. v # w /\ Drafted(v) /\ work'[v] = work[v]
    BY <1>0, <1>2 DEF Persist, TypeOK, Idle
  <2>2. Fits(work[v])
    BY <1>2, <2>1, PersistSparesOthers DEF DraftsFit
  <2> QED
    BY <1>2, <2>1, <2>2, PersistSparesOthers DEF Fits
<1>3. ASSUME NEW w \in Workers,
             StartDetection(w) \/ RejectRedetection(w) \/ Abandon(w)
      PROVE  DraftsFit'
  <2>1. \A v \in Workers : Drafted(v)' => Drafted(v) /\ work'[v] = work[v] /\ v # w
    BY <1>0, <1>3 DEF StartDetection, RejectRedetection, Abandon, TypeOK, Idle
  <2>2. cases' = cases /\ (overlapped' = overlapped \/ overlapped' = overlapped \ {w})
    BY <1>3 DEF StartDetection, RejectRedetection, Abandon
  <2> QED
    BY <2>1, <2>2 DEF DraftsFit, Fits
<1>4. CASE Tick \/ UNCHANGED vars
  BY <1>4 DEF Tick, vars, DraftsFit, Fits
<1> QED
  BY <1>1, <1>2, <1>3, <1>4 DEF Next

LEMMA DraftsStayFit == Spec => []DraftsFit
BY InitFits, NextFits, Invariant, PTL DEF Spec

-----------------------------------------------------------------------------
(***************************************************************************)
(* A write of a draft that nothing overtook is a step of the board.        *)
(***************************************************************************)
\* CaseOf, of a table that need not be the current one.
RowsIn(table, key) == {c \in DOMAIN table : table[c].key = key}

Face(id, row) ==
    [id |-> id, status |-> row.status, owner |-> row.assignee,
     log |-> [i \in DOMAIN row.timeline |-> row.timeline[i].type]]

CaseIn(table, key) ==
    IF RowsIn(table, key) = {} THEN [status |-> None]
    ELSE LET c == CHOOSE c \in RowsIn(table, key) : TRUE IN Face(c, table[c])

BoardOf(table) == [key \in Keys |-> CaseIn(table, key)]

LEMMA OnlyCaseIn ==
    ASSUME NEW table, NEW key, NEW c, RowsIn(table, key) = {c}
    PROVE  CaseIn(table, key) = Face(c, table[c])
<1>1. (CHOOSE d \in RowsIn(table, key) : TRUE) = c
  OBVIOUS
<1> QED
  BY <1>1 DEF CaseIn

LEMMA NoCaseIn ==
    ASSUME NEW table, NEW key, RowsIn(table, key) = {}
    PROVE  CaseIn(table, key) = [status |-> None]
BY DEF CaseIn

\* The types of a longer timeline are the longer list of types.
LEMMA TypesAppended ==
    ASSUME NEW tl \in Seq(Event), NEW e \in Event
    PROVE  [i \in DOMAIN Append(tl, e) |-> Append(tl, e)[i].type] =
              Append([i \in DOMAIN tl |-> tl[i].type], e.type)
<1> DEFINE types == [i \in DOMAIN tl |-> tl[i].type]
           longer == [i \in DOMAIN Append(tl, e) |-> Append(tl, e)[i].type]
           n == Len(tl)
<1>1. /\ n \in Nat
      /\ DOMAIN tl = 1..n /\ DOMAIN Append(tl, e) = 1..(n + 1)
      /\ \A i \in DOMAIN tl : Append(tl, e)[i] = tl[i]
      /\ Append(tl, e)[n + 1] = e
  BY AppendedTimeline
<1>2. types \in Seq(EventTypes) /\ Len(types) = n
  <2>1. \A i \in 1..n : tl[i].type \in EventTypes
    <3>1. \A i \in 1..n : tl[i] \in Event
      BY ElementOfSeq
    <3>2. \A f \in Event : f.type \in EventTypes
      BY DEF Event
    <3> QED
      BY <3>1, <3>2
  <2>2. types \in [1..n -> EventTypes]
    BY <1>1, <2>1
  <2>3. types \in Seq(EventTypes)
    BY <1>1, <2>2, SeqDef
  <2> QED
    BY <1>1, <2>3
<1>3. e.type \in EventTypes
  BY DEF Event
<1>4. /\ Append(types, e.type) \in Seq(EventTypes)
      /\ DOMAIN Append(types, e.type) = 1..(n + 1)
      /\ \A i \in 1..n : Append(types, e.type)[i] = types[i]
      /\ Append(types, e.type)[n + 1] = e.type
  BY <1>2, <1>3
<1>5. DOMAIN longer = 1..(n + 1) /\ \A i \in 1..(n + 1) : longer[i] = Append(types, e.type)[i]
  BY <1>1, <1>4
<1>6. longer = [i \in 1..(n + 1) |-> longer[i]]
  BY <1>1
<1>7. Append(types, e.type) = [i \in 1..(n + 1) |-> Append(types, e.type)[i]]
  BY <1>4
<1> QED
  BY <1>5, <1>6, <1>7

\* A draft that is not stale and fits the table is written.
Placed(draft) ==
    /\ draft.id \in Ids /\ draft.row \in Row
    /\ Current(draft)
    /\ Fits(draft)
    /\ cases' = Replace(draft.id, draft.row)

LEMMA PersistPlaces ==
    ASSUME IInv, DraftsFit, NEW w \in Workers, Persist(w), w \notin overlapped
    PROVE  Placed(work[w])
BY DEF Placed, Persist, IInv, TypeOK, Drafted, Idle, Detecting, Draft,
   FreshUnlessOverlapped, DraftsFit

\* What such a write changes of the table.
LEMMA PlacedTable ==
    ASSUME OneRowPerKey, NEW draft, Placed(draft)
    PROVE  LET id == draft.id
               row == draft.row
           IN /\ id \in DOMAIN cases' /\ cases'[id] = row
              /\ RowsIn(cases', row.key) = {id}
              /\ \A key : key # row.key => CaseIn(cases', key) = CaseIn(cases, key)
              /\ IF id \in DOMAIN cases THEN RowsIn(cases, row.key) = {id}
                                        ELSE RowsIn(cases, row.key) = {}
<1> DEFINE id == draft.id
           row == draft.row
<1>2. IF id \in DOMAIN cases THEN RowsIn(cases, row.key) = {id}
                             ELSE RowsIn(cases, row.key) = {}
  BY DEF Placed, Current, RowsOf, RowsIn
<1>3. /\ DOMAIN cases' = (DOMAIN cases \ RowsIn(cases, row.key)) \cup {id}
      /\ cases'[id] = row
      /\ \A c \in DOMAIN cases' : c # id => cases'[c] = cases[c]
  BY DEF Placed, Replace, RowsOf, RowsIn
<1> HIDE DEF id, row
<1>4. RowsIn(cases', row.key) = {id}
  BY <1>3 DEF RowsIn
<1>5. ASSUME NEW key, key # row.key
      PROVE  CaseIn(cases', key) = CaseIn(cases, key)
  <2>1. RowsIn(cases', key) = RowsIn(cases, key)
    BY <1>2, <1>3, <1>5 DEF RowsIn
  <2>2. \A c \in RowsIn(cases, key) : cases'[c] = cases[c]
    BY <1>2, <1>3, <1>5, <2>1 DEF RowsIn
  <2>3. CASE RowsIn(cases, key) = {}
    BY <2>1, <2>3, NoCaseIn
  <2>4. ASSUME NEW c \in RowsIn(cases, key)
        PROVE  CaseIn(cases', key) = CaseIn(cases, key)
    <3>1. RowsIn(cases, key) = {c}
      BY <2>4 DEF OneRowPerKey, RowsIn
    <3> QED
      BY <2>1, <2>2, <3>1, OnlyCaseIn
  <2> QED
    BY <2>3, <2>4
<1> QED
  BY <1>2, <1>3, <1>4, <1>5 DEF id, row

LEMMA BoardStep ==
    ASSUME OneRowPerKey, NEW draft, Placed(draft),
           NEW b, NEW c, b = BoardOf(cases), c = BoardOf(cases')
    PROVE  LET k == draft.row.key
               id == draft.id
               row == draft.row
           IN /\ k \in Keys
              /\ b[k] = IF id \in DOMAIN cases THEN Face(id, cases[id])
                        ELSE [status |-> None]
              /\ c = [b EXCEPT ![k] = Face(id, row)]
<1> DEFINE id == draft.id
           row == draft.row
<1>1. /\ row \in Row
      /\ id \in DOMAIN cases' /\ cases'[id] = row
      /\ RowsIn(cases', row.key) = {id}
      /\ \A key : key # row.key => CaseIn(cases', key) = CaseIn(cases, key)
      /\ IF id \in DOMAIN cases THEN RowsIn(cases, row.key) = {id}
                                ELSE RowsIn(cases, row.key) = {}
  BY PlacedTable DEF Placed
<1> HIDE DEF id, row
<1>3. row.key \in Keys
  BY <1>1 DEF Row
<1>4. b[row.key] = IF id \in DOMAIN cases THEN Face(id, cases[id]) ELSE [status |-> None]
  BY <1>1, <1>3, OnlyCaseIn, NoCaseIn DEF BoardOf
<1>5. CaseIn(cases', row.key) = Face(id, row)
  BY <1>1, OnlyCaseIn
<1>6. c = [b EXCEPT ![row.key] = Face(id, row)]
  BY <1>1, <1>3, <1>5 DEF BoardOf
<1> QED
  BY <1>3, <1>4, <1>6 DEF id, row

\* One logged change, seen on the board.
AfterChange(face, type, status, owner) ==
    [face EXCEPT !.status = status, !.owner = owner, !.log = Append(@, type)]

LEMMA FaceChanged ==
    ASSUME NEW old \in Row, NEW row \in Row, NEW id, NEW type, NEW status, NEW owner,
           Changes(row, old, type, status, owner)
    PROVE  Face(id, row) = AfterChange(Face(id, old), type, status, owner)
<1>1. PICK e \in Event : e.type = type /\ row.timeline = Append(old.timeline, e)
  BY DEF Changes
<1>2. [i \in DOMAIN row.timeline |-> row.timeline[i].type] =
         Append([i \in DOMAIN old.timeline |-> old.timeline[i].type], type)
  BY <1>1, TypesAppended DEF Row
<1>3. row.status = status /\ row.assignee = owner
  BY DEF Changes
<1> QED
  BY <1>2, <1>3 DEF Face, AfterChange

LEMMA FaceOpened ==
    ASSUME NEW id, NEW row, NewCase(row)
    PROVE  Face(id, row) = [id |-> id, status |-> "open", owner |-> "none",
                            log |-> <<"case_opened">>]
<1>1. PICK e \in Event : e.type = "case_opened" /\ row.timeline = <<e>>
  BY DEF NewCase
<1>2. [i \in DOMAIN row.timeline |-> row.timeline[i].type] = <<"case_opened">>
  <2>1. DOMAIN row.timeline = 1..1 /\ row.timeline[1].type = "case_opened"
    BY <1>1
  <2>2. [i \in DOMAIN row.timeline |-> row.timeline[i].type] = [i \in 1..1 |-> "case_opened"]
    BY <2>1
  <2> QED
    BY <2>2
<1> QED
  BY <1>2 DEF NewCase, Face, None

\* The refinement mapping.
boardNow == [key \in Keys |-> CaseOf(key)]

LEMMA BoardNow == boardNow = BoardOf(cases) /\ boardNow' = BoardOf(cases')
BY DEF boardNow, BoardOf, CaseOf, CaseIn, RowsOf, RowsIn, Face

LEMMA ExistingIdsInTable ==
    ASSUME OneRowPerKey, NEW j \in Keys, BoardOf(cases)[j].status # "none"
    PROVE  BoardOf(cases)[j].id \in DOMAIN cases
<1>1. RowsIn(cases, j) # {}
  BY NoCaseIn DEF BoardOf, None
<1>2. PICK c \in DOMAIN cases : RowsIn(cases, j) = {c}
  BY <1>1 DEF RowsIn, OneRowPerKey
<1>3. BoardOf(cases)[j] = Face(c, cases[c])
  BY <1>2, OnlyCaseIn DEF BoardOf
<1> QED
  BY <1>2, <1>3 DEF Face

\* It opens a case ...
LEMMA PlacedOpens ==
    ASSUME OneRowPerKey, NEW draft, Placed(draft), draft.id \notin DOMAIN cases
    PROVE  Board!Next
<1> DEFINE k == draft.row.key
           id == draft.id
           row == draft.row
<1>1. /\ k \in Keys
      /\ boardNow[k] = [status |-> None]
      /\ boardNow' = [boardNow EXCEPT ![k] = Face(id, row)]
      /\ NewCase(row)
  BY BoardStep, BoardNow DEF Fits, Placed
<1>2. id \in Ids
  BY DEF Placed
<1>3. \A j \in Keys : boardNow[j].status # "none" => boardNow[j].id # id
  BY BoardNow, ExistingIdsInTable
<1>4. Face(id, row) = [id |-> id, status |-> "open", owner |-> "none",
                       log |-> <<"case_opened">>]
  BY <1>1, FaceOpened
<1> HIDE DEF k, id, row
<1>5. Board!Open(k)
  <2>1. ~Board!Exists(k)
    BY <1>1 DEF Board!Exists, boardNow, None
  <2>2. \A j \in Keys : Board!Exists(j) => boardNow[j].id # id
    BY <1>3 DEF Board!Exists, boardNow
  <2>3. boardNow' = [boardNow EXCEPT ![k] =
                       [id |-> id, status |-> "open", owner |-> "none",
                        log |-> <<"case_opened">>]]
    BY <1>1, <1>4
  <2> QED
    BY <1>2, <2>1, <2>2, <2>3, Zenon DEF Board!Open, boardNow
<1> QED
  BY <1>1, <1>5 DEF Board!Next

\* ... or is one operation on a case that exists.
LEMMA PlacedRecords ==
    ASSUME TypeOK, OneRowPerKey, NEW draft, Placed(draft), draft.id \in DOMAIN cases
    PROVE  Board!Next
<1> DEFINE k == draft.row.key
           id == draft.id
           row == draft.row
           old == cases[id]
<1>1. /\ k \in Keys
      /\ boardNow[k] = Face(id, old)
      /\ boardNow' = [boardNow EXCEPT ![k] = Face(id, row)]
      /\ LawfulChange(row, old)
  BY BoardStep, BoardNow DEF Fits, Placed
<1>2. row \in Row /\ old \in Row
  BY DEF Placed, TypeOK
<1> HIDE DEF k, id, row, old
<1>3. boardNow[k].status = old.status /\ boardNow[k].owner = old.assignee
      /\ old.status \in Statuses
  BY <1>1, <1>2 DEF Face, Row
<1>4. Board!Exists(k)
  BY <1>3 DEF Board!Exists, boardNow, Statuses
<1>5. ASSUME NEW type, NEW status, NEW owner, Changes(row, old, type, status, owner)
      PROVE  Board!Record(k, type, status, owner)
  <2>1. Face(id, row) = AfterChange(Face(id, old), type, status, owner)
    BY <1>2, <1>5, FaceChanged
  <2>2. boardNow' = [boardNow EXCEPT ![k].status = status, ![k].owner = owner,
                                     ![k].log = Append(@, type)]
    BY <1>1, <2>1 DEF boardNow, Face, AfterChange
  <2> QED
    BY <1>4, <2>2 DEF Board!Record, boardNow
<1>6. CASE old.status \in Terminal /\ Changes(row, old, "case_reopened", "open", old.assignee)
  <2>1. Board!Redetect(k)
    BY <1>3, <1>5, <1>6 DEF Board!Redetect, Board!Closed, Terminal, boardNow
  <2> QED
    BY <1>1, <1>4, <2>1 DEF Board!Next
<1>7. CASE old.status \notin Terminal
             /\ Changes(row, old, "case_updated", old.status, old.assignee)
  <2>1. Board!Redetect(k)
    BY <1>3, <1>5, <1>7 DEF Board!Redetect, Board!Closed, Terminal, boardNow
  <2> QED
    BY <1>1, <1>4, <2>1 DEF Board!Next
<1>8. ASSUME NEW to \in Transitions[old.status],
             Changes(row, old, "status_changed", to, old.assignee)
      PROVE  Board!Next
  <2>1. <<old.status, to>> \in Board!Moves
    BY <1>3 DEF Board!Moves, Transitions, Statuses
  <2>2. Board!Record(k, "status_changed", to, old.assignee)
    BY <1>5, <1>8
  <2>3. Board!Move(k)
    BY <1>3, <2>1, <2>2 DEF Board!Move, boardNow
  <2> QED
    BY <1>1, <1>4, <2>3 DEF Board!Next
<1>9. CASE Changes(row, old, "operator_comment", old.status, old.assignee)
  <2>1. Board!Comment(k)
    BY <1>3, <1>5, <1>9 DEF Board!Comment, boardNow
  <2> QED
    BY <1>1, <1>4, <2>1 DEF Board!Next
<1>10. ASSUME old.status \notin Terminal, NEW who \in Assignees,
              Changes(row, old, "case_assigned", old.status, who)
       PROVE  Board!Next
  <2>1. Board!Assign(k)
    BY <1>3, <1>5, <1>10 DEF Board!Assign, Board!Closed, Terminal, boardNow
  <2> QED
    BY <1>1, <1>4, <2>1 DEF Board!Next
<1> QED
  BY <1>1, <1>6, <1>7, <1>8, <1>9, <1>10 DEF LawfulChange

-----------------------------------------------------------------------------
(***************************************************************************)
(* The theorems.                                                           *)
(***************************************************************************)
LEMMA StepFollowsBoard ==
    ASSUME IInv, DraftsFit, [Next]_vars
    PROVE  [Board!Next \/ \E w \in overlapped : w \notin overlapped']_boardNow
<1>1. ASSUME NEW w \in Workers, Persist(w)
      PROVE  Board!Next \/ (w \in overlapped /\ w \notin overlapped')
  BY <1>1, PersistPlaces, PlacedOpens, PlacedRecords DEF Persist, IInv
<1>2. ASSUME cases' = cases
      PROVE  boardNow' = boardNow
  BY <1>2, BoardNow
<1>3. (\E w \in Workers : Persist(w)) \/ cases' = cases
  BY DEF Next, vars, Tick, StartDetection, DraftNewCase, DraftRedetection,
     RejectRedetection, DraftTransition, DraftComment, DraftAssignment, DraftFrom, Abandon
<1> QED
  BY <1>1, <1>2, <1>3

\* However many workers there are, every step is a lawful operation on one case or
\* invisible, but for the commits of drafts that another commit overtook.
THEOREM CommitsFollowBoard ==
    Spec => [][Board!Next \/ \E w \in overlapped : w \notin overlapped']_boardNow
BY StepFollowsBoard, Invariant, DraftsStayFit, PTL DEF Spec

LEMMA InitFollowsBoard == Init => Board!Init
<1> SUFFICES ASSUME Init PROVE Board!Init
  OBVIOUS
<1>1. \A key : CaseOf(key) = [status |-> None]
  BY DEF Init, CaseOf, RowsOf
<1> QED
  BY <1>1 DEF Board!Init, Board!NoCase, None

\* A store with one worker implements the case board.
THEOREM LoneWorkerImplementsBoard ==
    ASSUME \A v, w \in Workers : v = w
    PROVE  Spec => ImplementsCaseBoard
<1>1. Init => overlapped = {}
  BY DEF Init
<1>2. overlapped = {} /\ [Next]_vars => (overlapped = {})'
  BY LoneWorkerStep
<1>3. IInv /\ DraftsFit /\ overlapped = {} /\ [Next]_vars => [Board!Next]_boardNow
  BY StepFollowsBoard
<1> QED
  BY <1>1, <1>2, <1>3, Invariant, DraftsStayFit, InitFollowsBoard, PTL
     DEF Spec, ImplementsCaseBoard, Board!Spec, boardNow

\* With one worker a detection keeps every decision of an operator: what the
\* contract promises fails by races alone.
THEOREM LoneWorkerKeepsDecisions ==
    ASSUME \A v, w \in Workers : v = w
    PROVE  Spec => DecisionsSurviveDetections
<1>1. TypeOK /\ [\A c \in DOMAIN cases : Kept(c)]_vars =>
        [\A w \in Workers :
           (work[w].pc = "drafted" /\ work[w].detection /\ work'[w] = Idle) =>
              \A c \in DOMAIN cases : \A i \in DOMAIN cases[c].timeline :
                 cases[c].timeline[i].to \in Terminal =>
                    /\ c \in DOMAIN cases'
                    /\ \E j \in DOMAIN cases'[c].timeline :
                          cases'[c].timeline[j] = cases[c].timeline[i]]_vars
  <2> SUFFICES ASSUME TypeOK, NEW c \in DOMAIN cases, Kept(c),
                      NEW i \in DOMAIN cases[c].timeline
               PROVE  /\ c \in DOMAIN cases'
                      /\ \E j \in DOMAIN cases'[c].timeline :
                            cases'[c].timeline[j] = cases[c].timeline[i]
    OBVIOUS
  <2> QED
    BY DEF Kept, Extends, TypeOK, Row
<1> QED
  BY <1>1, LoneWorkerKeepsHistory, TypeCorrect, PTL DEF DecisionsSurviveDetections

-----------------------------------------------------------------------------
(***************************************************************************)
(* PART FOUR.  Sums, rankings and counts of finite sets, for the proofs    *)
(* about what is read from the table.                                      *)
(***************************************************************************)

StrictOrder(S, R) ==
    /\ \A c \in S : <<c, c>> \notin R
    /\ \A c, d \in S : c # d => <<c, d>> \in R \/ <<d, c>> \in R
    /\ \A c, d, e \in S : <<c, d>> \in R /\ <<d, e>> \in R => <<c, e>> \in R

PlaceOf(S, R, c) == Cardinality({d \in S : d = c \/ <<d, c>> \in R})

\* In a strict total order of a finite set the places are the numbers from 1 on.
LEMMA OrderPlaces ==
    ASSUME NEW S, IsFiniteSet(S), NEW R, StrictOrder(S, R)
    PROVE  /\ \A c \in S : PlaceOf(S, R, c) \in 1..Cardinality(S)
           /\ \A c, d \in S : <<c, d>> \in R => PlaceOf(S, R, c) < PlaceOf(S, R, d)
           /\ \A c, d \in S : PlaceOf(S, R, c) = PlaceOf(S, R, d) => c = d
           /\ \A i \in 1..Cardinality(S) : \E c \in S : PlaceOf(S, R, c) = i
<1> DEFINE UpTo(c) == {d \in S : d = c \/ <<d, c>> \in R}
           N == Cardinality(S)
           place == [c \in S |-> PlaceOf(S, R, c)]
<1> USE DEF StrictOrder
<1>1. N \in Nat
  BY FS_CardinalityType
<1>10. \A c \in S : place[c] = PlaceOf(S, R, c)
  OBVIOUS
<1>2. ASSUME NEW c \in S
      PROVE  /\ IsFiniteSet(UpTo(c)) /\ Cardinality(UpTo(c)) \in Nat
             /\ place[c] = Cardinality(UpTo(c))
             /\ place[c] \in 1..N
  <2>1. UpTo(c) \in SUBSET S
    OBVIOUS
  <2>2. IsFiniteSet(UpTo(c)) /\ Cardinality(UpTo(c)) <= N
    BY <2>1, FS_Subset
  <2>3. Cardinality(UpTo(c)) \in Nat
    BY <2>2, FS_CardinalityType
  <2>4. c \in UpTo(c)
    OBVIOUS
  <2>5. place[c] = Cardinality(UpTo(c))
    BY DEF PlaceOf
  <2> HIDE DEF UpTo
  <2>6. Cardinality(UpTo(c)) # 0
    BY <2>2, <2>4, FS_EmptySet
  <2> QED
    BY <1>1, <2>2, <2>3, <2>5, <2>6
<1>3. ASSUME NEW c \in S, NEW d \in S, <<c, d>> \in R
      PROVE  place[c] < place[d]
  <2>1. UpTo(c) \in SUBSET UpTo(d)
    BY <1>3
  <2>2. d \in UpTo(d) /\ d \notin UpTo(c)
    BY <1>3
  <2>3. /\ IsFiniteSet(UpTo(d))
        /\ place[c] = Cardinality(UpTo(c)) /\ place[d] = Cardinality(UpTo(d))
        /\ Cardinality(UpTo(c)) \in Nat /\ Cardinality(UpTo(d)) \in Nat
    BY <1>2
  <2> HIDE DEF UpTo
  <2>4. /\ Cardinality(UpTo(c)) <= Cardinality(UpTo(d))
        /\ Cardinality(UpTo(d)) = Cardinality(UpTo(c)) => UpTo(d) = UpTo(c)
    BY <2>1, <2>3, FS_Subset
  <2> QED
    BY <2>2, <2>3, <2>4
<1>4. place \in [S -> 1..N]
  BY <1>2
<1> HIDE DEF place
<1>5. ASSUME NEW c \in S, NEW d \in S, place[c] = place[d]
      PROVE  c = d
  <2>1. place[c] \in Int /\ place[d] \in Int
    BY <1>4
  <2>2. ~(place[c] < place[d]) /\ ~(place[d] < place[c])
    BY <1>5, <2>1
  <2>3. <<c, d>> \notin R /\ <<d, c>> \notin R
    BY <1>3, <2>2
  <2> QED
    BY <2>3
<1>6. place \in Injection(S, 1..N)
  BY <1>4, <1>5 DEF Injection, IsInjective
<1>7. IsFiniteSet(1..N) /\ Cardinality(1..N) = N
  <2>1. IsFiniteSet(1..N) /\ Cardinality(1..N) = IF 1 > N THEN 0 ELSE N - 1 + 1
    BY <1>1, FS_Interval
  <2> QED
    BY <1>1, <2>1
<1>8. place \in Surjection(S, 1..N)
  BY <1>6, <1>7, FS_Injection
<1>9. \A i \in 1..N : \E c \in S : place[c] = i
  BY <1>8 DEF Surjection
<1>11. \A c \in S : PlaceOf(S, R, c) \in 1..N
  BY <1>2, <1>10
<1>12. \A c, d \in S : <<c, d>> \in R => PlaceOf(S, R, c) < PlaceOf(S, R, d)
  BY <1>3, <1>10
<1>13. \A c, d \in S : PlaceOf(S, R, c) = PlaceOf(S, R, d) => c = d
  BY <1>5, <1>10
<1>14. \A i \in 1..N : \E c \in S : PlaceOf(S, R, c) = i
  BY <1>9, <1>10
<1> QED
  BY <1>11, <1>12, <1>13, <1>14

\* A finite set that is not empty has a first element in every such order.
LEMMA OrderHasFirst ==
    ASSUME NEW S, IsFiniteSet(S), S # {}, NEW R, StrictOrder(S, R)
    PROVE  \E c \in S : \A d \in S \ {c} : <<c, d>> \in R
<1> DEFINE place(c) == PlaceOf(S, R, c)
<1>1. /\ \A c \in S : place(c) \in 1..Cardinality(S)
      /\ \A c, d \in S : <<c, d>> \in R => place(c) < place(d)
      /\ \A i \in 1..Cardinality(S) : \E c \in S : place(c) = i
  BY OrderPlaces
<1>2. Cardinality(S) \in Nat /\ Cardinality(S) # 0
  BY FS_CardinalityType, FS_EmptySet
<1> HIDE DEF place
<1>3. PICK c \in S : place(c) = 1
  BY <1>1, <1>2
<1>4. ASSUME NEW d \in S \ {c} PROVE <<c, d>> \in R
  <2>1. ~(place(d) < place(c))
    BY <1>1, <1>3
  <2> QED
    BY <1>1, <2>1 DEF StrictOrder
<1> QED
  BY <1>3, <1>4

\* In particular a finite set of numbers has a largest one.
LEMMA LargestExists ==
    ASSUME NEW S, IsFiniteSet(S), S # {}, S \subseteq Int
    PROVE  \E m \in S : \A n \in S : n <= m
<1> DEFINE R == {p \in S \X S : p[1] > p[2]}
<1>1. \A c, d \in S : <<c, d>> \in R <=> c > d
  OBVIOUS
<1> HIDE DEF R
<1>2. \E c \in S : \A d \in S \ {c} : <<c, d>> \in R
  <2>1. \A c \in S : <<c, c>> \notin R
    BY <1>1
  <2>2. \A c, d \in S : c # d => <<c, d>> \in R \/ <<d, c>> \in R
    BY <1>1
  <2>3. \A c, d, e \in S : <<c, d>> \in R /\ <<d, e>> \in R => <<c, e>> \in R
    BY <1>1
  <2>4. StrictOrder(S, R)
    BY <2>1, <2>2, <2>3 DEF StrictOrder
  <2> QED
    BY <2>4, OrderHasFirst
<1>3. PICK c \in S : \A d \in S \ {c} : <<c, d>> \in R
  BY <1>2
<1>4. \A n \in S : n <= c
  <2> SUFFICES ASSUME NEW n \in S PROVE n <= c
    OBVIOUS
  <2>1. n \in Int /\ c \in Int
    OBVIOUS
  <2>2. n = c \/ c > n
    BY <1>1, <1>3
  <2> QED
    BY <2>1, <2>2
<1> QED
  BY <1>4

\* A finite set of numbers has a smallest one.
LEMMA SmallestExists ==
    ASSUME NEW S, IsFiniteSet(S), S # {}, S \subseteq Int
    PROVE  \E m \in S : \A n \in S : m <= n
<1> DEFINE R == {p \in S \X S : p[1] < p[2]}
<1>1. \A c, d \in S : <<c, d>> \in R <=> c < d
  OBVIOUS
<1> HIDE DEF R
<1>2. StrictOrder(S, R)
  <2>1. \A c \in S : <<c, c>> \notin R
    BY <1>1
  <2>2. \A c, d \in S : c # d => <<c, d>> \in R \/ <<d, c>> \in R
    BY <1>1
  <2>3. \A c, d, e \in S : <<c, d>> \in R /\ <<d, e>> \in R => <<c, e>> \in R
    BY <1>1
  <2> QED
    BY <2>1, <2>2, <2>3 DEF StrictOrder
<1>3. PICK c \in S : \A d \in S \ {c} : <<c, d>> \in R
  BY <1>2, OrderHasFirst
<1>4. \A n \in S : c <= n
  <2> SUFFICES ASSUME NEW n \in S PROVE c <= n
    OBVIOUS
  <2>1. n \in Int /\ c \in Int
    OBVIOUS
  <2>2. n = c \/ c < n
    BY <1>1, <1>3
  <2> QED
    BY <2>1, <2>2
<1> QED
  BY <1>4

\* So does a family of subsets of a finite set, by cardinality: what holds of a
\* set when it holds of all smaller ones holds of them all.
LEMMA SmallestSubset ==
    ASSUME NEW D, IsFiniteSet(D), NEW B, B \subseteq SUBSET D, B # {}
    PROVE  \E T \in B : \A U \in B : Cardinality(T) <= Cardinality(U)
<1> DEFINE sizes == {Cardinality(T) : T \in B}
<1>1. \A T \in B : /\ IsFiniteSet(T) /\ Cardinality(T) \in Nat
                   /\ Cardinality(T) <= Cardinality(D)
  BY FS_Subset, FS_CardinalityType
<1>2. Cardinality(D) \in Nat
  BY FS_CardinalityType
<1>3. IsFiniteSet(sizes) /\ sizes # {} /\ sizes \subseteq Int
  <2>1. sizes \in SUBSET Nat /\ \A s \in sizes : s <= Cardinality(D)
    BY <1>1
  <2>2. IsFiniteSet(sizes)
    BY <1>2, <2>1, FS_BoundedSetOfNaturals
  <2> QED
    BY <2>1, <2>2
<1>4. PICK m \in sizes : \A n \in sizes : m <= n
  BY <1>3, SmallestExists
<1>5. PICK T \in B : m = Cardinality(T)
  BY <1>4
<1> QED
  BY <1>4, <1>5

\* The recursion of Sums, one step of it.
Element(S) == CHOOSE x \in S : TRUE

SumBody(f, sum, S) == IF S = {} THEN 0 ELSE f[Element(S)] + sum[S \ {Element(S)}]

SumsUpTo(D, n) == {S \in SUBSET D : Cardinality(S) <= n}

\* The recursion of Sums has a solution.
LEMMA SumsExist ==
    ASSUME NEW D, IsFiniteSet(D), NEW f, \A x \in D : f[x] \in Int
    PROVE  \E sum \in [SUBSET D -> Int] : \A S \in SUBSET D : sum[S] = SumBody(f, sum, S)
<1> DEFINE N == Cardinality(D)
           Solves(n, sum) == /\ sum \in [SumsUpTo(D, n) -> Int]
                             /\ \A S \in SumsUpTo(D, n) : sum[S] = SumBody(f, sum, S)
           unsolved == {n \in 0..N : \A sum : ~Solves(n, sum)}
<1>1. N \in Nat
  BY FS_CardinalityType
<1>2. \A S \in SUBSET D : IsFiniteSet(S) /\ Cardinality(S) \in Nat /\ Cardinality(S) <= N
  BY FS_Subset, FS_CardinalityType
<1>3. \A S \in SUBSET D : S # {} => /\ Element(S) \in S
                                    /\ Cardinality(S \ {Element(S)}) = Cardinality(S) - 1
  <2> SUFFICES ASSUME NEW S \in SUBSET D, S # {}
               PROVE  /\ Element(S) \in S
                      /\ Cardinality(S \ {Element(S)}) = Cardinality(S) - 1
    OBVIOUS
  <2>1. Element(S) \in S
    BY DEF Element
  <2> QED
    BY <1>2, <2>1, FS_RemoveElement
<1>4. Solves(0, [S \in SumsUpTo(D, 0) |-> 0])
  <2>1. SumsUpTo(D, 0) = {{}}
    BY <1>2, FS_EmptySet DEF SumsUpTo
  <2> QED
    BY <2>1 DEF SumBody
<1>5. ASSUME NEW n \in Nat, NEW sum, Solves(n, sum)
      PROVE  \E next : Solves(n + 1, next)
  <2> DEFINE next == [S \in SumsUpTo(D, n + 1) |->
                         IF Cardinality(S) <= n THEN sum[S] ELSE SumBody(f, sum, S)]
  <2>1. ASSUME NEW S \in SumsUpTo(D, n + 1)
        PROVE  /\ SumBody(f, sum, S) \in Int
               /\ next[S] = SumBody(f, sum, S)
               /\ SumBody(f, next, S) = SumBody(f, sum, S)
    <3>1. S \in SUBSET D /\ Cardinality(S) <= n + 1 /\ Cardinality(S) \in Nat
      BY <1>2, <2>1 DEF SumsUpTo
    <3>2. Cardinality(S) <= n => sum[S] = SumBody(f, sum, S)
      BY <1>5, <3>1 DEF SumsUpTo
    <3>3. CASE S = {}
      BY <3>2, <3>3, <2>1, FS_EmptySet DEF SumBody
    <3>4. CASE S # {}
      <4>1. PICK x, rest : /\ x = Element(S) /\ rest = S \ {x}
        OBVIOUS
      <4>2. x \in D /\ rest \in SUBSET D /\ Cardinality(rest) <= n
        BY <1>3, <3>1, <3>4, <4>1
      <4>3. rest \in SumsUpTo(D, n) /\ rest \in SumsUpTo(D, n + 1)
        BY <1>2, <4>2 DEF SumsUpTo
      <4>4. next[rest] = sum[rest] /\ sum[rest] \in Int
        BY <1>5, <4>2, <4>3
      <4>5. /\ SumBody(f, sum, S) = f[x] + sum[rest]
            /\ SumBody(f, next, S) = f[x] + next[rest]
        BY <3>4, <4>1 DEF SumBody
      <4>6. next[S] = SumBody(f, sum, S)
        BY <3>2, <2>1
      <4> HIDE DEF next
      <4> QED
        BY <4>2, <4>4, <4>5, <4>6
    <3> QED
      BY <3>3, <3>4
  <2>2. next \in [SumsUpTo(D, n + 1) -> Int]
    <3>1. \A S \in SumsUpTo(D, n + 1) : next[S] \in Int
      BY <2>1
    <3> QED
      BY <3>1
  <2> HIDE DEF next
  <2>3. Solves(n + 1, next)
    BY <2>1, <2>2
  <2> QED
    BY <2>3
<1>6. unsolved = {}
  <2> SUFFICES ASSUME unsolved # {} PROVE FALSE
    OBVIOUS
  <2>1. IsFiniteSet(0..N)
    BY <1>1, FS_Interval
  <2>2. IsFiniteSet(unsolved) /\ unsolved \subseteq Int
    <3>1. unsolved \in SUBSET (0..N)
      OBVIOUS
    <3> HIDE DEF unsolved
    <3>2. IsFiniteSet(unsolved)
      BY <2>1, <3>1, FS_Subset
    <3>3. unsolved \subseteq Int
      BY <1>1, <3>1
    <3> QED
      BY <3>2, <3>3
  <2>3. PICK m \in unsolved : \A n \in unsolved : m <= n
    BY <2>2, SmallestExists
  <2>4. m \in 0..N /\ m # 0
    BY <1>4, <2>3
  <2>5. PICK k \in Nat : k = m - 1
    BY <1>1, <2>4
  <2>6. k \in 0..N /\ k \notin unsolved
    BY <1>1, <2>3, <2>4, <2>5
  <2>7. PICK sum : Solves(k, sum)
    BY <2>6
  <2> HIDE DEF Solves
  <2>8. \E next : Solves(k + 1, next)
    BY <1>5, <2>7
  <2>9. k + 1 = m
    BY <2>4, <2>5
  <2> QED
    BY <2>3, <2>8, <2>9
<1>7. PICK sum : Solves(N, sum)
  <2>1. N \in 0..N
    BY <1>1
  <2> QED
    BY <1>6, <2>1
<1>8. SumsUpTo(D, N) = SUBSET D
  BY <1>2 DEF SumsUpTo
<1> QED
  BY <1>7, <1>8

\* What Sums unfolds to.
IsSums(f, sum) ==
    sum = [S \in SUBSET DOMAIN f |->
             IF S = {} THEN 0
             ELSE LET x == CHOOSE x \in S : TRUE IN f[x] + sum[S \ {x}]]

LEMMA SumsUnfold ==
    ASSUME NEW f, IsFiniteSet(DOMAIN f), \A x \in DOMAIN f : f[x] \in Int
    PROVE  /\ Sums(f)[{}] = 0
           /\ \A S \in SUBSET DOMAIN f :
                 /\ Sums(f)[S] \in Int
                 /\ S # {} => \E x \in S : Sums(f)[S] = f[x] + Sums(f)[S \ {x}]
<1> DEFINE D == DOMAIN f
<1>1. PICK sum \in [SUBSET D -> Int] : \A S \in SUBSET D : sum[S] = SumBody(f, sum, S)
  BY SumsExist
<1>2. IsSums(f, sum)
  <2>1. sum = [S \in SUBSET D |-> sum[S]]
    BY <1>1
  <2>2. \A S \in SUBSET D : sum[S] =
          IF S = {} THEN 0 ELSE LET x == CHOOSE x \in S : TRUE IN f[x] + sum[S \ {x}]
    BY <1>1 DEF SumBody, Element
  <2> QED
    BY <2>1, <2>2 DEF IsSums
<1>3. IsSums(f, Sums(f))
  <2>1. Sums(f) = CHOOSE sum_ : IsSums(f, sum_)
    BY DEF Sums, IsSums
  <2> QED
    BY <1>2, <2>1
<1>4. PICK s : s = Sums(f)
  OBVIOUS
<1>5. \A S \in SUBSET D : s[S] = SumBody(f, s, S)
  BY <1>3, <1>4 DEF IsSums, SumBody, Element
<1>6. \A S \in SUBSET D : S # {} => \E x \in S : s[S] = f[x] + s[S \ {x}]
  <2>1. \A S \in SUBSET D : S # {} => Element(S) \in S
    BY DEF Element
  <2> QED
    BY <1>5, <2>1 DEF SumBody
<1>7. s[{}] = 0
  BY <1>5 DEF SumBody
<1>8. \A S \in SUBSET D : s[S] \in Int
  <2> DEFINE B == {S \in SUBSET D : s[S] \notin Int}
  <2> SUFFICES ASSUME B # {} PROVE FALSE
    OBVIOUS
  <2>1. PICK T \in B : \A U \in B : Cardinality(T) <= Cardinality(U)
    BY SmallestSubset
  <2>2. T \in SUBSET D /\ T # {} /\ s[T] \notin Int
    <3>1. {} \notin B
      BY <1>7
    <3>2. T \in SUBSET D /\ s[T] \notin Int
      BY <2>1
    <3> HIDE DEF B
    <3> QED
      BY <2>1, <3>1, <3>2
  <2>3. PICK x \in T : s[T] = f[x] + s[T \ {x}]
    BY <1>6, <2>2
  <2>4. Cardinality(T \ {x}) = Cardinality(T) - 1 /\ Cardinality(T) \in Nat
    BY <2>2, FS_Subset, FS_RemoveElement, FS_CardinalityType
  <2>5. T \ {x} \notin B
    <3> HIDE DEF B
    <3> QED
      BY <2>1, <2>4
  <2>6. s[T \ {x}] \in Int /\ f[x] \in Int
    BY <2>2, <2>5
  <2> QED
    BY <2>2, <2>3, <2>6
<1> QED
  BY <1>4, <1>6, <1>7, <1>8

\* Adding an element adds its value, whichever element the recursion takes first.
LEMMA SumsAdd ==
    ASSUME NEW f, IsFiniteSet(DOMAIN f), \A x \in DOMAIN f : f[x] \in Int,
           NEW S \in SUBSET DOMAIN f, NEW y \in S
    PROVE  Sums(f)[S] = f[y] + Sums(f)[S \ {y}]
<1> DEFINE D == DOMAIN f
<1>1. PICK s : s = Sums(f)
  OBVIOUS
<1>2. /\ s[{}] = 0
      /\ \A T \in SUBSET D :
            /\ s[T] \in Int
            /\ T # {} => \E x \in T : s[T] = f[x] + s[T \ {x}]
  BY <1>1, SumsUnfold
<1> DEFINE B == {T \in SUBSET D : \E z \in T : s[T] # f[z] + s[T \ {z}]}
<1>3. B = {}
  <2> SUFFICES ASSUME B # {} PROVE FALSE
    OBVIOUS
  <2>1. PICK T \in B : \A U \in B : Cardinality(T) <= Cardinality(U)
    BY SmallestSubset
  <2>2. T \in SUBSET D
    BY <2>1
  <2>3. PICK z \in T : s[T] # f[z] + s[T \ {z}]
    BY <2>1
  <2>4. PICK x \in T : s[T] = f[x] + s[T \ {x}]
    BY <1>2, <2>2, <2>3
  <2>5. x # z
    BY <2>3, <2>4
  <2>6. /\ Cardinality(T \ {x}) = Cardinality(T) - 1 /\ Cardinality(T) \in Nat
        /\ Cardinality(T \ {z}) = Cardinality(T) - 1
    BY <2>2, FS_Subset, FS_RemoveElement, FS_CardinalityType
  <2>7. T \ {x} \notin B /\ T \ {z} \notin B
    <3> HIDE DEF B
    <3> QED
      BY <2>1, <2>6
  <2>8. s[T \ {x}] = f[z] + s[(T \ {x}) \ {z}]
    BY <2>2, <2>5, <2>7
  <2>9. s[T \ {z}] = f[x] + s[(T \ {z}) \ {x}]
    BY <2>2, <2>5, <2>7
  <2>10. (T \ {z}) \ {x} = (T \ {x}) \ {z}
    OBVIOUS
  <2>11. PICK rest, a, b : /\ rest = s[(T \ {x}) \ {z}]
                            /\ a = s[T \ {x}] /\ b = s[T \ {z}]
    OBVIOUS
  <2>12. rest \in Int /\ f[x] \in Int /\ f[z] \in Int
    BY <1>2, <2>2, <2>11
  <2>13. a = f[z] + rest /\ b = f[x] + rest
    BY <2>8, <2>9, <2>10, <2>11
  <2>14. s[T] = f[x] + a /\ s[T] # f[z] + b
    BY <2>3, <2>4, <2>11
  <2> QED
    BY <2>12, <2>13, <2>14
<1> QED
  BY <1>1, <1>3

\* The sum lies between as many times the least value and the greatest.
LEMMA SumsBounded ==
    ASSUME NEW f, IsFiniteSet(DOMAIN f), \A x \in DOMAIN f : f[x] \in Int,
           NEW lo \in Int, NEW hi \in Int, \A x \in DOMAIN f : lo <= f[x] /\ f[x] <= hi
    PROVE  /\ SumOf(f) \in Int
           /\ lo * Cardinality(DOMAIN f) <= SumOf(f)
           /\ SumOf(f) <= hi * Cardinality(DOMAIN f)
<1> DEFINE D == DOMAIN f
<1>1. PICK s : s = Sums(f)
  OBVIOUS
<1>2. /\ s[{}] = 0
      /\ \A T \in SUBSET D :
            /\ s[T] \in Int
            /\ T # {} => \E x \in T : s[T] = f[x] + s[T \ {x}]
  BY <1>1, SumsUnfold
<1> DEFINE Within(T) == lo * Cardinality(T) <= s[T] /\ s[T] <= hi * Cardinality(T)
           B == {T \in SUBSET D : ~Within(T)}
<1>3. B = {}
  <2> SUFFICES ASSUME B # {} PROVE FALSE
    OBVIOUS
  <2>1. PICK T \in B : \A U \in B : Cardinality(T) <= Cardinality(U)
    BY SmallestSubset
  <2>2. T \in SUBSET D /\ ~Within(T)
    BY <2>1
  <2>3. T # {}
    <3>1. Within({})
      BY <1>2, FS_EmptySet
    <3> QED
      BY <2>2, <3>1
  <2>4. PICK x \in T : s[T] = f[x] + s[T \ {x}]
    BY <1>2, <2>2, <2>3
  <2>5. PICK n : n = Cardinality(T \ {x})
    OBVIOUS
  <2>6. n \in Nat /\ Cardinality(T) = n + 1
    BY <2>2, <2>5, FS_Subset, FS_RemoveElement, FS_CardinalityType
  <2>7. Within(T \ {x})
    <3>1. T \ {x} \notin B
      <4> HIDE DEF B
      <4> QED
        BY <2>1, <2>5, <2>6
    <3> QED
      BY <2>2, <3>1
  <2>8. PICK rest : rest = s[T \ {x}]
    OBVIOUS
  <2>9. rest \in Int /\ f[x] \in Int /\ lo <= f[x] /\ f[x] <= hi
    BY <1>2, <2>2, <2>8
  <2>10. lo * n <= rest /\ rest <= hi * n
    BY <2>5, <2>7, <2>8
  <2>11. lo * (n + 1) = lo * n + lo /\ hi * (n + 1) = hi * n + hi
    BY <2>6
  <2>12. lo * n \in Int /\ hi * n \in Int
    BY <2>6
  <2>13. lo * (n + 1) <= f[x] + rest /\ f[x] + rest <= hi * (n + 1)
    BY <2>9, <2>10, <2>11, <2>12
  <2> QED
    BY <2>2, <2>4, <2>6, <2>8, <2>13
<1> QED
  BY <1>1, <1>2, <1>3 DEF SumOf

\* Counting some cases by group and adding up the counts counts them.
LEMMA SumOfCounts ==
    ASSUME NEW S, IsFiniteSet(S), NEW group
    PROVE  SumOf(CountBy(S, group)) = Cardinality(S)
<1> DEFINE D == {group[c] : c \in S}
           In(T) == {c \in S : group[c] \in T}
<1>1. PICK f : f = CountBy(S, group)
  OBVIOUS
<1>2. DOMAIN f = D /\ \A g \in D : f[g] = Cardinality({c \in S : group[c] = g})
  BY <1>1 DEF CountBy
<1>3. IsFiniteSet(D)
  <2>1. [c \in S |-> group[c]] \in Surjection(S, D)
    BY DEF Surjection
  <2> QED
    BY <2>1, FS_Surjection
<1>4. \A T : In(T) \in SUBSET S /\ IsFiniteSet(In(T)) /\ Cardinality(In(T)) \in Nat
  <2>1. \A T : In(T) \in SUBSET S
    OBVIOUS
  <2> HIDE DEF In
  <2> QED
    BY <2>1, FS_Subset, FS_CardinalityType
<1>5. \A g \in D : f[g] = Cardinality(In({g})) /\ f[g] \in Int
  <2>1. \A g \in D : {c \in S : group[c] = g} = In({g})
    OBVIOUS
  <2>2. \A g \in D : f[g] = Cardinality(In({g}))
    BY <1>2, <2>1
  <2> HIDE DEF In
  <2> QED
    BY <1>4, <2>2
<1>6. \A T \in SUBSET D : \A g \in T :
         Cardinality(In(T)) = Cardinality(In({g})) + Cardinality(In(T \ {g}))
  <2> SUFFICES ASSUME NEW T \in SUBSET D, NEW g \in T
               PROVE  Cardinality(In(T)) = Cardinality(In({g})) + Cardinality(In(T \ {g}))
    OBVIOUS
  <2>1. In(T) = In({g}) \cup In(T \ {g}) /\ In({g}) \cap In(T \ {g}) = {}
    OBVIOUS
  <2>2. PICK U, V : U = In({g}) /\ V = In(T \ {g})
    OBVIOUS
  <2> HIDE DEF In
  <2>3. IsFiniteSet(U) /\ IsFiniteSet(V) /\ Cardinality(U) \in Nat /\ Cardinality(V) \in Nat
    BY <1>4, <2>2
  <2>4. Cardinality(U \cup V) = Cardinality(U) + Cardinality(V) - Cardinality(U \cap V)
    BY <2>3, FS_Union
  <2>5. U \cap V = {} /\ In(T) = U \cup V
    BY <2>1, <2>2
  <2>6. Cardinality(U \cap V) = 0
    BY <2>5, FS_EmptySet
  <2> QED
    BY <2>2, <2>3, <2>4, <2>5, <2>6
<1>7. In({}) = {} /\ In(D) = S
  OBVIOUS
<1>8. PICK s : s = Sums(f)
  OBVIOUS
<1>9. /\ s[{}] = 0
      /\ \A T \in SUBSET D :
            /\ s[T] \in Int
            /\ T # {} => \E g \in T : s[T] = f[g] + s[T \ {g}]
  <2> HIDE DEF D, In
  <2>1. IsFiniteSet(DOMAIN f) /\ \A g \in DOMAIN f : f[g] \in Int
    BY <1>2, <1>3, <1>5
  <2> QED
    <3>1. /\ Sums(f)[{}] = 0
          /\ \A T \in SUBSET DOMAIN f :
                /\ Sums(f)[T] \in Int
                /\ T # {} => \E g \in T : Sums(f)[T] = f[g] + Sums(f)[T \ {g}]
      BY <2>1, SumsUnfold
    <3> QED
      BY <1>2, <1>8, <3>1
<1> HIDE DEF D, In
<1> DEFINE B == {T \in SUBSET D : s[T] # Cardinality(In(T))}
<1>10. B = {}
  <2> SUFFICES ASSUME B # {} PROVE FALSE
    OBVIOUS
  <2>1. PICK T \in B : \A U \in B : Cardinality(T) <= Cardinality(U)
    BY <1>3, SmallestSubset
  <2>2. T \in SUBSET D /\ s[T] # Cardinality(In(T))
    BY <2>1
  <2>3. T # {}
    <3>1. s[{}] = Cardinality(In({}))
      BY <1>7, <1>9, FS_EmptySet
    <3> QED
      BY <2>2, <3>1
  <2>4. PICK g \in T : s[T] = f[g] + s[T \ {g}]
    BY <1>9, <2>2, <2>3
  <2>5. Cardinality(T \ {g}) = Cardinality(T) - 1 /\ Cardinality(T) \in Nat
    BY <1>3, <2>2, FS_Subset, FS_RemoveElement, FS_CardinalityType
  <2>6. s[T \ {g}] = Cardinality(In(T \ {g}))
    BY <2>1, <2>2, <2>5
  <2> QED
    BY <1>5, <1>6, <2>2, <2>4, <2>6
<1>11. s[D] = Cardinality(In(D))
  BY <1>10
<1> QED
  BY <1>1, <1>2, <1>7, <1>8, <1>11 DEF SumOf
\* What a ranking ranks: finitely many ids, by a number.
IsRanking(rank) ==
    /\ IsFiniteSet(DOMAIN rank)
    /\ DOMAIN rank \subseteq Int
    /\ \A c \in DOMAIN rank : rank[c] \in Int

\* Each place from 1 to the number of cases is the place of exactly one case.
LEMMA Places ==
    ASSUME NEW rank, IsRanking(rank)
    PROVE  /\ \A c \in DOMAIN rank : Place(rank, c) \in 1..Cardinality(DOMAIN rank)
           /\ \A c, d \in DOMAIN rank :
                 Ahead(rank, c, d) => Place(rank, c) < Place(rank, d)
           /\ \A c, d \in DOMAIN rank : Place(rank, c) = Place(rank, d) => c = d
           /\ \A i \in 1..Cardinality(DOMAIN rank) :
                 \E c \in DOMAIN rank : Place(rank, c) = i
<1> DEFINE S == DOMAIN rank
           R == {p \in S \X S : Ahead(rank, p[1], p[2])}
<1>1. \A c, d \in S : <<c, d>> \in R <=> Ahead(rank, c, d)
  OBVIOUS
<1> HIDE DEF R
<1>2. \A c \in S : PlaceOf(S, R, c) = Place(rank, c)
  <2>1. \A c \in S : {d \in S : d = c \/ <<d, c>> \in R} = {d \in S : d = c \/ Ahead(rank, d, c)}
    BY <1>1
  <2> QED
    BY <2>1 DEF Place, PlaceOf
<1>3. StrictOrder(S, R) /\ IsFiniteSet(S)
  <2>1. \A c \in S : c \in Int /\ rank[c] \in Int
    BY DEF IsRanking
  <2>2. \A c \in S : <<c, c>> \notin R
    BY <1>1, <2>1 DEF Ahead
  <2>3. \A c, d \in S : c # d => <<c, d>> \in R \/ <<d, c>> \in R
    BY <1>1, <2>1 DEF Ahead
  <2>4. \A c, d, e \in S : <<c, d>> \in R /\ <<d, e>> \in R => <<c, e>> \in R
    BY <1>1, <2>1 DEF Ahead
  <2> QED
    BY <2>2, <2>3, <2>4 DEF StrictOrder, IsRanking
<1> HIDE DEF S
<1>4. /\ \A c \in S : PlaceOf(S, R, c) \in 1..Cardinality(S)
      /\ \A c, d \in S : <<c, d>> \in R => PlaceOf(S, R, c) < PlaceOf(S, R, d)
      /\ \A c, d \in S : PlaceOf(S, R, c) = PlaceOf(S, R, d) => c = d
      /\ \A i \in 1..Cardinality(S) : \E c \in S : PlaceOf(S, R, c) = i
  BY <1>3, OrderPlaces
<1>5. \A c \in S : Place(rank, c) \in 1..Cardinality(S)
  BY <1>2, <1>4
<1>6. \A c, d \in S : Ahead(rank, c, d) => Place(rank, c) < Place(rank, d)
  BY <1>1, <1>2, <1>4
<1>7. \A c, d \in S : Place(rank, c) = Place(rank, d) => c = d
  BY <1>2, <1>4
<1>8. \A i \in 1..Cardinality(S) : \E c \in S : Place(rank, c) = i
  BY <1>2, <1>4
<1> QED
  BY <1>5, <1>6, <1>7, <1>8 DEF S

\* The list shows the case of each place, up to the limit.
LEMMA TopList ==
    ASSUME NEW rank, IsRanking(rank), NEW limit \in Nat
    PROVE  LET N == Cardinality(DOMAIN rank)
               n == IF limit < N THEN limit ELSE N
               list == Top(rank, limit)
           IN /\ N \in Nat
              /\ list \in Seq(DOMAIN rank)
              /\ Len(list) = n /\ DOMAIN list = 1..n
              /\ list = [i \in 1..n |-> list[i]]
              /\ \A i \in 1..n : list[i] \in DOMAIN rank /\ Place(rank, list[i]) = i
<1> DEFINE N == Cardinality(DOMAIN rank)
           n == IF limit < N THEN limit ELSE N
           At(i) == CHOOSE c \in DOMAIN rank : Place(rank, c) = i
<1>1. N \in Nat
  BY FS_CardinalityType DEF IsRanking
<1>2. n \in Nat /\ 1..n \subseteq 1..N
  BY <1>1
<1>3. \A i \in 1..n : At(i) \in DOMAIN rank /\ Place(rank, At(i)) = i
  BY <1>2, Places
<1>4. Top(rank, limit) = [i \in 1..n |-> At(i)]
  BY DEF Top
<1> HIDE DEF n, N, At
<1>5. Top(rank, limit) \in Seq(DOMAIN rank)
  <2>1. [i \in 1..n |-> At(i)] \in [1..n -> DOMAIN rank]
    BY <1>3
  <2> QED
    BY <1>2, <1>4, <2>1, SeqDef
<1>6. DOMAIN Top(rank, limit) = 1..n /\ Len(Top(rank, limit)) = n
  BY <1>2, <1>4, <1>5
<1> QED
  BY <1>1, <1>3, <1>4, <1>5, <1>6 DEF n, N

\* A longer list only adds rows at the end, and who is left out ranks no higher.
LEMMA TopIsStable ==
    ASSUME NEW rank, IsRanking(rank), NEW n \in 1..Cardinality(DOMAIN rank)
    PROVE  LET whole == Top(rank, Cardinality(DOMAIN rank))
               shown == Top(rank, n)
           IN /\ \A i \in 1..n : shown[i] = whole[i]
              /\ \A c \in DOMAIN rank :
                    (\A i \in 1..n : shown[i] # c) =>
                       \A i \in 1..n : Ahead(rank, shown[i], c)
<1> DEFINE N == Cardinality(DOMAIN rank)
           whole == Top(rank, N)
           shown == Top(rank, n)
<1>1. N \in Nat /\ n \in Nat /\ n <= N
  BY FS_CardinalityType DEF IsRanking
<1>2. \A i \in 1..n : shown[i] \in DOMAIN rank /\ Place(rank, shown[i]) = i
  BY <1>1, TopList
<1>3. \A i \in 1..N : whole[i] \in DOMAIN rank /\ Place(rank, whole[i]) = i
  BY <1>1, TopList
<1> HIDE DEF N, whole, shown
<1>4. ASSUME NEW i \in 1..n PROVE shown[i] = whole[i]
  <2>1. i \in 1..N
    BY <1>1
  <2> QED
    BY <1>2, <1>3, <2>1, Places
<1>5. ASSUME NEW c \in DOMAIN rank, \A i \in 1..n : shown[i] # c, NEW i \in 1..n
      PROVE  Ahead(rank, shown[i], c)
  <2>1. Place(rank, c) \in 1..N
    BY Places DEF N
  <2>2. Place(rank, c) \notin 1..n
    BY <1>2, <1>5, Places
  <2>3. ~(Place(rank, c) < Place(rank, shown[i]))
    BY <1>1, <1>2, <2>1, <2>2
  <2>4. ~Ahead(rank, c, shown[i])
    BY <1>2, <2>3, Places
  <2>5. /\ c \in Int /\ shown[i] \in Int /\ c # shown[i]
        /\ rank[c] \in Int /\ rank[shown[i]] \in Int
    BY <1>2, <1>5 DEF IsRanking
  <2> QED
    BY <2>4, <2>5 DEF Ahead
<1> QED
  BY <1>4, <1>5 DEF N, whole, shown

-----------------------------------------------------------------------------
(***************************************************************************)
(* PART FIVE.  What the surfaces read from a row.                          *)
(***************************************************************************)
\* Severity and priority are those of a run: the case has a latest detection.
LEMMA FieldsOfLatest ==
    ASSUME NEW c, cases[c] \in Row, Lawful(cases[c])
    PROVE  Priority(c) \in 0..100 /\ Severity(c) \in Severities
<1> DEFINE tl == cases[c].timeline
           last == Latest(c)
<1>1. tl \in Seq(Event) /\ DOMAIN tl = 1..Len(tl) /\ Len(tl) \in Nat
  BY DEF Row
<1>2. 1 \in Detections(c)
  BY <1>1 DEF Lawful, LegalTimeline, Detections, DetectionEvents
<1>3. Detections(c) \subseteq 1..Len(tl)
  BY <1>1 DEF Detections
<1>4. IsFiniteSet(Detections(c))
  <2>1. IsFiniteSet(1..Len(tl))
    BY <1>1, FS_Interval
  <2> QED
    BY <1>3, <2>1, FS_Subset
<1>5. last \in Detections(c)
  <2>1. \E m \in Detections(c) : \A n \in Detections(c) : n <= m
    BY <1>1, <1>2, <1>3, <1>4, LargestExists
  <2> QED
    BY <2>1 DEF Latest
<1>6. tl[last].ref \in Runs \cup {None}
  BY <1>5 DEF Lawful, RunsFollow, Detections, Row
<1> QED
  BY <1>6, PayloadAssumption DEF Priority, Severity, LatestDetection

\* The table is finite: every row was written by a step.
LEMMA FiniteTable == Spec => []IsFiniteSet(DOMAIN cases)
<1>1. Init => IsFiniteSet(DOMAIN cases)
  BY FS_EmptySet DEF Init
<1>2. IsFiniteSet(DOMAIN cases) /\ [Next]_vars => IsFiniteSet(DOMAIN cases)'
  <2> SUFFICES ASSUME IsFiniteSet(DOMAIN cases), [Next]_vars
               PROVE  IsFiniteSet(DOMAIN cases')
    OBVIOUS
  <2>1. ASSUME NEW w \in Workers, Persist(w) PROVE IsFiniteSet(DOMAIN cases')
    <3>1. PICK D, S, id : /\ D = DOMAIN cases
                          /\ S = DOMAIN cases \ RowsOf(work[w].row.key)
                          /\ id = work[w].id
      OBVIOUS
    <3>2. DOMAIN cases' = S \cup {id}
      BY <2>1, <3>1 DEF Persist, Replace
    <3>3. IsFiniteSet(D) /\ S \in SUBSET D
      BY <3>1
    <3>4. IsFiniteSet(S)
      BY <3>3, FS_Subset
    <3>5. IsFiniteSet(S \cup {id})
      BY <3>4, FS_AddElement
    <3> QED
      BY <3>2, <3>5
  <2>2. UNCHANGED cases => IsFiniteSet(DOMAIN cases')
    OBVIOUS
  <2> QED
    BY <2>1, <2>2 DEF Next, vars, Tick, StartDetection, DraftNewCase, DraftRedetection,
       RejectRedetection, DraftTransition, DraftComment, DraftAssignment, DraftFrom, Abandon
<1> QED
  BY <1>1, <1>2, PTL DEF Spec

\* Finitely many cases with a score: they can be listed.
LEMMA PriorityRanks ==
    ASSUME TypeOK, RowsAreLawful, IsFiniteSet(DOMAIN cases), NEW S \in SUBSET DOMAIN cases
    PROVE  IsRanking([c \in S |-> Priority(c)])
<1>1. \A c \in S : c \in Nat /\ Priority(c) \in Int
  BY FieldsOfLatest, PayloadAssumption DEF TypeOK, RowsAreLawful
<1>2. IsFiniteSet(S)
  BY FS_Subset
<1> QED
  BY <1>1, <1>2 DEF IsRanking
=============================================================================
