---------------------------- MODULE ServicesProofs ----------------------------
(***************************************************************************)
(* Theorems about the services: the webhooks that deliver statuses         *)
(* (DeliveryStatus), the simulations that plan workflow actions            *)
(* (WorkflowPlanning), the schedules (Schedules), and the findings of the  *)
(* daily reports (ReportMerge and DailyFindings).                          *)
(***************************************************************************)
EXTENDS DeliveryStatus, WorkflowPlanning, Schedules, DailyFindings, FiniteSetTheorems,
        SequenceTheorems, TLAPS

-----------------------------------------------------------------------------
(***************************************************************************)
(* Delivery statuses: the inductive invariant.                             *)
(***************************************************************************)
Places == UNION {DOMAIN w.statuses : w \in Webhooks}

Entries == UNION {Range(w.statuses) : w \in Webhooks}

Request == [pc : {"storing", "answering"}, webhook : Webhooks, todo : SUBSET Places,
            failed : BOOLEAN]

\* The threads at work on a webhook that did not hand over its message yet.
Storing(w) == {h \in Handlers : handler[h].pc = "storing" /\ handler[h].webhook = w}

StatusTyped ==
    /\ tries \in [Webhooks -> Nat]
    /\ handed \in [Webhooks -> Nat]
    /\ answered \subseteq Webhooks
    /\ handler \in [Handlers -> {Free} \cup Request]
    /\ events \in Seq(Entries)

\* What a request has left behind is in the table, unless storing failed.
Fits(r) ==
    /\ r.todo \subseteq Parsed(r.webhook)
    /\ \/ r.failed
       \/ \A i \in Parsed(r.webhook) \ r.todo : r.webhook.statuses[i] \in Range(events)
    /\ r.pc = "answering" =>
          r.todo = {} /\ (r.webhook.message = "text" => handed[r.webhook] >= 1)

RequestsFit == \A h \in Handlers : handler[h] # Free => Fits(handler[h])

AnsweredAreStored ==
    \A w \in answered :
       /\ w \in excused \/ \A i \in Parsed(w) : w.statuses[i] \in Range(events)
       /\ w.message = "text" => handed[w] >= 1

\* Each delivery hands its message over at most once.
HandOversAreCounted == \A w \in Webhooks : handed[w] + Cardinality(Storing(w)) <= tries[w]

StatusInv ==
    /\ StatusTyped
    /\ IsInjective(events)
    /\ RequestsFit
    /\ AnsweredAreStored
    /\ HandOversAreCounted

-----------------------------------------------------------------------------
(***************************************************************************)
(* The table.                                                              *)
(***************************************************************************)
LEMMA StatusInvHolds == StatusInit => StatusInv
<1> SUFFICES ASSUME StatusInit PROVE StatusInv
  OBVIOUS
<1>1. StatusTyped /\ RequestsFit /\ AnsweredAreStored
  BY DEF StatusInit, StatusTyped, RequestsFit, AnsweredAreStored
<1>2. IsInjective(events)
  BY DEF StatusInit, IsInjective
<1>3. HandOversAreCounted
  <2>1. \A w \in Webhooks : Storing(w) = {}
    BY DEF StatusInit, Storing, Free
  <2>2. \A w \in Webhooks : handed[w] = 0 /\ tries[w] = 0 /\ Cardinality(Storing(w)) = 0
    BY <2>1, FS_EmptySet DEF StatusInit
  <2> QED
    BY <2>2 DEF HandOversAreCounted
<1> QED
  BY <1>1, <1>2, <1>3 DEF StatusInv

\* INSERT OR IGNORE leaves the entry in the table, once.
LEMMA InsertOrIgnore ==
    ASSUME StatusInv, NEW e \in Entries,
           events' = IF Stored(e) THEN events ELSE Append(events, e)
    PROVE  /\ events' \in Seq(Entries) /\ IsInjective(events')
           /\ Range(events') = Range(events) \cup {e}
<1>1. events \in Seq(Entries) /\ IsInjective(events)
  BY DEF StatusInv, StatusTyped
<1>2. /\ DOMAIN events = 1..Len(events) /\ Len(events) \in Nat
      /\ \A i \in DOMAIN events : events[i] \in Entries
  BY <1>1
<1>3. \A x \in Entries : x = [id |-> x.id, status |-> x.status, time |-> x.time]
  <2>1. \A x \in Entries : \E w \in Webhooks : \E i \in DOMAIN w.statuses : x = w.statuses[i]
    BY DEF Entries, Range
  <2>2. ASSUME NEW w \in Webhooks, NEW i \in DOMAIN w.statuses
        PROVE  w.statuses[i] = [id |-> w.statuses[i].id, status |-> w.statuses[i].status,
                                time |-> w.statuses[i].time]
    BY StatusAssumption
  <2> QED
    BY <2>1, <2>2
<1>4. CASE Stored(e)
  <2>1. PICK i \in DOMAIN events : build_event_key(events[i]) = build_event_key(e)
    BY <1>4 DEF Stored
  <2>2. events[i].id = e.id /\ events[i].status = e.status /\ events[i].time = e.time
    BY <2>1 DEF build_event_key
  <2>3. events[i] = e
    BY <1>2, <1>3, <2>2
  <2>4. e \in Range(events)
    BY <2>3 DEF Range
  <2> QED
    BY <1>1, <1>4, <2>4
<1>5. CASE ~Stored(e)
  <2>1. /\ events' = Append(events, e) /\ events' \in Seq(Entries)
        /\ DOMAIN events' = 1..(Len(events) + 1)
        /\ \A i \in 1..Len(events) : events'[i] = events[i]
        /\ events'[Len(events) + 1] = e
    BY <1>1, <1>5
  <2>2. /\ DOMAIN events' = DOMAIN events \cup {Len(events) + 1}
        /\ Len(events) + 1 \notin DOMAIN events
    BY <1>2, <2>1
  <2>3. \A i \in DOMAIN events : events'[i] = events[i] /\ events[i] # e
    BY <1>2, <1>5, <2>1 DEF Stored
  <2>4. IsInjective(events')
    BY <1>1, <2>1, <2>2, <2>3 DEF IsInjective
  <2>5. Range(events') = Range(events) \cup {e}
    BY <2>1, <2>2, <2>3 DEF Range
  <2> QED
    BY <2>1, <2>4, <2>5
<1> QED
  BY <1>4, <1>5

LEMMA StoringIsFinite ==
    ASSUME NEW w
    PROVE  IsFiniteSet(Storing(w)) /\ Cardinality(Storing(w)) \in Nat
<1>1. Storing(w) \in SUBSET Handlers /\ IsFiniteSet(Handlers)
  BY StatusAssumption DEF Storing
<1> QED
  BY <1>1, FS_Subset, FS_CardinalityType

\* One thread changes; the others, and what they rest on, stay.
Serves(h, r) ==
    /\ handler' \in [Handlers -> {Free} \cup Request]
    /\ handler'[h] = r
    /\ \A g \in Handlers \ {h} : handler'[g] = handler[g]

LEMMA ServesTyped ==
    ASSUME StatusInv, NEW h \in Handlers, NEW r \in {Free} \cup Request,
           handler' = [handler EXCEPT ![h] = r]
    PROVE  Serves(h, r)
BY DEF StatusInv, StatusTyped, Serves

LEMMA AtWork ==
    ASSUME StatusInv, NEW h \in Handlers, handler[h].pc \in {"storing", "answering"}
    PROVE  /\ handler[h] \in Request /\ handler[h] # Free /\ Fits(handler[h])
           /\ handler[h].webhook \in Webhooks
<1>1. handler[h] \in {Free} \cup Request /\ handler[h] # Free
  BY DEF StatusInv, StatusTyped, Free
<1> QED
  BY <1>1 DEF StatusInv, RequestsFit, Request

\* The table and the hand-overs only grow.
LEMMA RestFits ==
    ASSUME StatusInv, NEW h \in Handlers, NEW r, Serves(h, r), r = Free \/ Fits(r)',
           Range(events) \subseteq Range(events'),
           \A w \in Webhooks : handed'[w] \in Nat /\ handed'[w] >= handed[w]
    PROVE  RequestsFit'
<1>1. ASSUME NEW g \in Handlers, g # h, handler[g] # Free
      PROVE  Fits(handler[g])'
  <2>1. handler'[g] = handler[g] /\ Fits(handler[g])
    BY <1>1 DEF Serves, StatusInv, RequestsFit
  <2>2. PICK r0 \in Request : r0 = handler[g]
    BY <1>1 DEF StatusInv, StatusTyped
  <2>3. handed[r0.webhook] \in Nat /\ handed'[r0.webhook] \in Nat
        /\ handed'[r0.webhook] >= handed[r0.webhook]
    BY DEF StatusInv, StatusTyped, Request
  <2>4. Fits(r0)
    BY <2>1, <2>2
  <2>5. Fits(r0)'
    BY <2>3, <2>4 DEF Fits
  <2> QED
    BY <2>1, <2>2, <2>5
<1>2. ASSUME NEW g \in Handlers, g # h
      PROVE  handler'[g] # Free => Fits(handler[g])'
  BY <1>1, <1>2 DEF Serves
<1>3. handler'[h] # Free => Fits(handler[h])'
  BY DEF Serves
<1> QED
  BY <1>2, <1>3 DEF RequestsFit

\* What does not depend on the threads.
LEMMA AnsweredStay ==
    ASSUME StatusInv, Range(events) \subseteq Range(events'),
           \A w \in Webhooks : handed'[w] \in Nat /\ handed'[w] >= handed[w],
           UNCHANGED <<answered, excused>>
    PROVE  AnsweredAreStored'
<1> SUFFICES ASSUME NEW w \in answered
             PROVE  /\ w \in excused \/ \A i \in Parsed(w) : w.statuses[i] \in Range(events')
                    /\ w.message = "text" => handed'[w] >= 1
  BY DEF AnsweredAreStored
<1>1. w \in Webhooks /\ handed[w] \in Nat
  BY DEF StatusInv, StatusTyped
<1>2. /\ w \in excused \/ \A i \in Parsed(w) : w.statuses[i] \in Range(events)
      /\ w.message = "text" => handed[w] >= 1
  BY DEF StatusInv, AnsweredAreStored
<1> QED
  BY <1>1, <1>2

LEMMA StoringStays ==
    ASSUME NEW h \in Handlers, NEW r, Serves(h, r), NEW w,
           (r.pc = "storing" /\ r.webhook = w) <=> h \in Storing(w)
    PROVE  Storing(w)' = Storing(w)
<1>1. Storing(w)' = {g \in Handlers : handler'[g].pc = "storing" /\ handler'[g].webhook = w}
  BY DEF Storing
<1>2. ASSUME NEW g \in Handlers
      PROVE  (handler'[g].pc = "storing" /\ handler'[g].webhook = w) <=> g \in Storing(w)
  <2>1. CASE g = h
    BY <2>1 DEF Serves
  <2>2. CASE g # h
    BY <2>2 DEF Serves, Storing
  <2> QED
    BY <2>1, <2>2
<1>3. Storing(w) \subseteq Handlers
  BY DEF Storing
<1> QED
  BY <1>1, <1>2, <1>3

LEMMA DeliverStep ==
    ASSUME StatusInv, NEW h \in Handlers, NEW w \in Webhooks, Deliver(h, w)
    PROVE  StatusInv'
<1> DEFINE r == [pc |-> "storing", webhook |-> w, todo |-> Parsed(w), failed |-> FALSE]
<1>1. Parsed(w) \subseteq Places
  BY DEF Parsed, Places
<1>2. /\ r \in Request /\ r.pc = "storing" /\ r.webhook = w /\ r.todo = Parsed(w)
      /\ r.failed = FALSE
  BY <1>1 DEF Request
<1>3. handler[h] = Free /\ handler' = [handler EXCEPT ![h] = r]
      /\ tries' = [tries EXCEPT ![w] = @ + 1] /\ UNCHANGED <<answered, events, handed, excused>>
  BY DEF Deliver
<1> HIDE DEF r
<1>4. Serves(h, r)
  BY <1>2, <1>3, ServesTyped
<1>5. handed \in [Webhooks -> Nat] /\ tries \in [Webhooks -> Nat]
  BY DEF StatusInv, StatusTyped
<1>6. StatusTyped' /\ IsInjective(events')
  <2>1. tries' \in [Webhooks -> Nat]
    BY <1>3, <1>5
  <2> QED
    BY <1>3, <1>4, <2>1 DEF StatusInv, StatusTyped, Serves
<1>7. RequestsFit'
  <2>1. Fits(r)'
    BY <1>2 DEF Fits
  <2> QED
    BY <1>3, <1>4, <1>5, <2>1, RestFits
<1>8. AnsweredAreStored'
  BY <1>3, <1>5, AnsweredStay
<1>9. HandOversAreCounted'
  <2> SUFFICES ASSUME NEW v \in Webhooks
               PROVE  handed'[v] + Cardinality(Storing(v)') <= tries'[v]
    BY DEF HandOversAreCounted
  <2>1. handed[v] + Cardinality(Storing(v)) <= tries[v]
    BY DEF StatusInv, HandOversAreCounted
  <2>2. Cardinality(Storing(v)) \in Nat /\ IsFiniteSet(Storing(v)) /\ handed[v] \in Nat
        /\ tries[v] \in Nat /\ handed'[v] = handed[v]
    BY <1>3, <1>5, StoringIsFinite
  <2>3. h \notin Storing(v)
    BY <1>3 DEF Storing, Free
  <2>4. CASE v # w
    <3>1. Storing(v)' = Storing(v)
      BY <1>2, <1>4, <2>3, <2>4, StoringStays
    <3>2. tries'[v] = tries[v]
      BY <1>3, <1>5, <2>4
    <3> QED
      BY <2>1, <2>2, <3>1, <3>2
  <2>5. CASE v = w
    <3>1. Storing(v)' = Storing(v) \cup {h}
      BY <1>2, <1>4, <2>5 DEF Storing, Serves
    <3>2. tries'[v] = tries[v] + 1
      BY <1>3, <1>5, <2>5
    <3>3. Cardinality(Storing(v)') = Cardinality(Storing(v)) + 1
      BY <2>2, <2>3, <3>1, FS_AddElement
    <3> QED
      BY <2>1, <2>2, <3>2, <3>3
  <2> QED
    BY <2>4, <2>5
<1> QED
  BY <1>6, <1>7, <1>8, <1>9 DEF StatusInv

\* A thread goes on, or ends, without handing anything over.
LEMMA WorkStep ==
    ASSUME StatusInv, NEW h \in Handlers, NEW r \in {Free} \cup Request,
           handler' = [handler EXCEPT ![h] = r], r = Free \/ Fits(r)',
           \A w : (r.pc = "storing" /\ r.webhook = w) <=> h \in Storing(w),
           events' \in Seq(Entries), IsInjective(events'), Range(events) \subseteq Range(events'),
           answered' \subseteq Webhooks, UNCHANGED <<tries, handed>>
    PROVE  /\ StatusTyped' /\ IsInjective(events') /\ RequestsFit' /\ HandOversAreCounted'
           /\ UNCHANGED <<answered, excused>> => AnsweredAreStored'
<1>1. Serves(h, r)
  BY ServesTyped
<1>2. handed \in [Webhooks -> Nat]
  BY DEF StatusInv, StatusTyped
<1>3. RequestsFit' /\ (UNCHANGED <<answered, excused>> => AnsweredAreStored')
  BY <1>1, <1>2, RestFits, AnsweredStay
<1>4. HandOversAreCounted'
  <2>1. \A w \in Webhooks : Storing(w)' = Storing(w)
    BY <1>1, StoringStays
  <2> QED
    BY <2>1 DEF StatusInv, HandOversAreCounted
<1> QED
  BY <1>1, <1>3, <1>4 DEF StatusInv, StatusTyped, Serves


LEMMA StoreStep ==
    ASSUME StatusInv, NEW h \in Handlers, Store(h)
    PROVE  StatusInv'
<1>1. /\ handler[h].pc = "storing" /\ UNCHANGED <<tries, answered, handed, excused>>
      /\ handler[h] \in Request /\ Fits(handler[h])
  BY AtWork DEF Store
<1>2. PICK q \in Request : q = handler[h]
  BY <1>1
<1>3. PICK i \in q.todo :
         /\ events' = IF Stored(q.webhook.statuses[i]) THEN events
                      ELSE Append(events, q.webhook.statuses[i])
         /\ handler' = [handler EXCEPT ![h].todo = @ \ {i}]
  BY <1>2 DEF Store
<1> DEFINE r == [q EXCEPT !.todo = @ \ {i}]
<1>4. /\ r \in Request /\ r.pc = "storing" /\ r.webhook = q.webhook /\ r.failed = q.failed
      /\ r.todo = q.todo \ {i}
  BY <1>1, <1>2 DEF Request
<1>5. handler' = [handler EXCEPT ![h] = r]
  BY <1>2, <1>3 DEF StatusInv, StatusTyped
<1> HIDE DEF r
<1>6. q.webhook \in Webhooks /\ i \in Parsed(q.webhook) /\ q.webhook.statuses[i] \in Entries
  <2>1. q.webhook \in Webhooks /\ i \in Parsed(q.webhook)
    BY <1>1, <1>2 DEF Fits, Request
  <2> QED
    BY <2>1 DEF Parsed, Entries, Range
<1>7. /\ events' \in Seq(Entries) /\ IsInjective(events')
      /\ Range(events') = Range(events) \cup {q.webhook.statuses[i]}
  BY <1>3, <1>6, InsertOrIgnore
<1>8. Fits(r)'
  <2>1. /\ q.todo \subseteq Parsed(q.webhook)
        /\ q.failed \/ \A j \in Parsed(q.webhook) \ q.todo : q.webhook.statuses[j] \in Range(events)
    BY <1>1, <1>2 DEF Fits
  <2>2. /\ r.todo \subseteq Parsed(q.webhook)
        /\ r.failed \/ \A j \in Parsed(q.webhook) \ r.todo : q.webhook.statuses[j] \in Range(events')
    BY <1>4, <1>7, <2>1
  <2> QED
    BY <1>4, <2>2 DEF Fits
<1>9. \A w : (r.pc = "storing" /\ r.webhook = w) <=> h \in Storing(w)
  BY <1>1, <1>2, <1>4 DEF Storing
<1> QED
  BY <1>1, <1>4, <1>5, <1>7, <1>8, <1>9, WorkStep DEF StatusInv, StatusTyped

LEMMA StoreRaisesStep ==
    ASSUME StatusInv, NEW h \in Handlers, StoreRaises(h)
    PROVE  StatusInv'
<1>1. /\ handler[h].pc = "storing" /\ UNCHANGED <<tries, answered, events, handed, excused>>
      /\ handler' = [handler EXCEPT ![h].todo = {}, ![h].failed = TRUE]
      /\ handler[h] \in Request
  BY AtWork DEF StoreRaises
<1>2. PICK q \in Request : q = handler[h]
  BY <1>1
<1> DEFINE r == [q EXCEPT !.todo = {}, !.failed = TRUE]
<1>3. /\ r \in Request /\ r.pc = "storing" /\ r.webhook = q.webhook /\ r.failed = TRUE
      /\ r.todo = {}
  BY <1>1, <1>2 DEF Request
<1>4. handler' = [handler EXCEPT ![h] = r]
  BY <1>1, <1>2 DEF StatusInv, StatusTyped
<1> HIDE DEF r
<1>5. Fits(r)'
  BY <1>3 DEF Fits
<1>6. \A w : (r.pc = "storing" /\ r.webhook = w) <=> h \in Storing(w)
  BY <1>1, <1>2, <1>3 DEF Storing
<1> QED
  BY <1>1, <1>3, <1>4, <1>5, <1>6, WorkStep DEF StatusInv, StatusTyped

LEMMA HandOverStep ==
    ASSUME StatusInv, NEW h \in Handlers, HandOver(h)
    PROVE  StatusInv'
<1>1. /\ handler[h].pc = "storing" /\ handler[h].todo = {}
      /\ UNCHANGED <<tries, answered, events, excused>>
      /\ handler' = [handler EXCEPT ![h].pc = "answering"]
      /\ handler[h] \in Request /\ Fits(handler[h])
  BY AtWork DEF HandOver
<1>2. PICK q \in Request : q = handler[h]
  BY <1>1
<1> DEFINE r == [q EXCEPT !.pc = "answering"]
<1>3. /\ r \in Request /\ r.pc = "answering" /\ r.webhook = q.webhook /\ r.failed = q.failed
      /\ r.todo = {}
  BY <1>1, <1>2 DEF Request
<1>4. handler' = [handler EXCEPT ![h] = r]
  BY <1>1, <1>2 DEF StatusInv, StatusTyped
<1> HIDE DEF r
<1>5. Serves(h, r)
  BY <1>3, <1>4, ServesTyped
<1>6. /\ handed \in [Webhooks -> Nat] /\ q.webhook \in Webhooks
      /\ handed' = [handed EXCEPT ![q.webhook] =
                       IF q.webhook.message = "text" THEN @ + 1 ELSE @]
  BY <1>2 DEF StatusInv, StatusTyped, HandOver, Request
<1>7. /\ handed' \in [Webhooks -> Nat]
      /\ \A w \in Webhooks : handed'[w] \in Nat /\ handed'[w] >= handed[w]
      /\ \A w \in Webhooks : w # q.webhook => handed'[w] = handed[w]
      /\ handed'[q.webhook] <= handed[q.webhook] + 1
      /\ q.webhook.message = "text" => handed'[q.webhook] >= 1
  BY <1>6
<1>8. RequestsFit'
  <2>1. Fits(r)'
    BY <1>1, <1>2, <1>3, <1>7 DEF Fits
  <2> QED
    BY <1>1, <1>5, <1>7, <2>1, RestFits
<1>9. AnsweredAreStored'
  BY <1>1, <1>7, AnsweredStay
<1>10. HandOversAreCounted'
  <2> SUFFICES ASSUME NEW w \in Webhooks
               PROVE  handed'[w] + Cardinality(Storing(w)') <= tries[w]
    BY <1>1 DEF HandOversAreCounted
  <2>1. handed[w] + Cardinality(Storing(w)) <= tries[w]
    BY DEF StatusInv, HandOversAreCounted
  <2>2. Cardinality(Storing(w)) \in Nat /\ IsFiniteSet(Storing(w)) /\ handed[w] \in Nat
        /\ tries[w] \in Nat
    BY <1>6, StoringIsFinite DEF StatusInv, StatusTyped
  <2>3. CASE w # q.webhook
    <3>1. Storing(w)' = Storing(w)
      BY <1>2, <1>3, <1>5, <2>3, StoringStays DEF Storing
    <3> QED
      BY <1>7, <2>1, <2>3, <3>1
  <2>4. CASE w = q.webhook
    <3>1. h \in Storing(w) /\ Storing(w)' = Storing(w) \ {h}
      BY <1>1, <1>2, <1>3, <1>5, <2>4 DEF Storing, Serves
    <3>2. Cardinality(Storing(w)') = Cardinality(Storing(w)) - 1
      BY <2>2, <3>1, FS_RemoveElement
    <3> QED
      BY <1>7, <2>1, <2>2, <2>4, <3>2
  <2> QED
    BY <2>3, <2>4
<1> QED
  BY <1>1, <1>5, <1>7, <1>8, <1>9, <1>10 DEF StatusInv, StatusTyped, Serves

\* An answer that arrives is one to a request that stored what it parsed, or failed.
LEMMA AnswerStep ==
    ASSUME StatusInv, NEW h \in Handlers, Answer(h)
    PROVE  StatusInv'
<1>1. /\ handler[h].pc = "answering" /\ UNCHANGED <<tries, events, handed>>
      /\ handler' = [handler EXCEPT ![h] = Free]
      /\ handler[h] \in Request /\ Fits(handler[h]) /\ handler[h].webhook \in Webhooks
  BY AtWork DEF Answer
<1>2. answered' \subseteq Webhooks
  BY <1>1 DEF StatusInv, StatusTyped, Answer
<1>3. \A w : (Free.pc = "storing" /\ Free.webhook = w) <=> h \in Storing(w)
  BY <1>1 DEF Free, Storing
<1>4. /\ StatusTyped' /\ IsInjective(events') /\ RequestsFit' /\ HandOversAreCounted'
      /\ UNCHANGED <<answered, excused>> => AnsweredAreStored'
  BY <1>1, <1>2, <1>3, WorkStep DEF StatusInv, StatusTyped
<1>5. CASE ~UNCHANGED <<answered, excused>>
  <2>1. /\ answered' = answered \cup {handler[h].webhook}
        /\ excused' = excused \cup {w \in {handler[h].webhook} : handler[h].failed}
    BY <1>5 DEF Answer
  <2>2. LET w == handler[h].webhook
        IN /\ w \in excused' \/ \A i \in Parsed(w) : w.statuses[i] \in Range(events)
           /\ w.message = "text" => handed[w] >= 1
    BY <1>1, <2>1 DEF Fits
  <2> QED
    BY <1>1, <1>4, <2>1, <2>2 DEF StatusInv, AnsweredAreStored
<1> QED
  BY <1>4, <1>5 DEF StatusInv

LEMMA RestartStep ==
    ASSUME StatusInv, Restart
    PROVE  StatusInv'
<1>1. /\ handler' = [h \in Handlers |-> Free]
      /\ UNCHANGED <<tries, answered, events, handed, excused>>
  BY DEF Restart
<1>2. StatusTyped' /\ IsInjective(events') /\ RequestsFit' /\ AnsweredAreStored'
  BY <1>1 DEF StatusInv, StatusTyped, RequestsFit, AnsweredAreStored
<1>3. HandOversAreCounted'
  <2> SUFFICES ASSUME NEW w \in Webhooks
               PROVE  handed[w] + Cardinality(Storing(w)') <= tries[w]
    BY <1>1 DEF HandOversAreCounted
  <2>1. Storing(w)' = {}
    BY <1>1 DEF Storing, Free
  <2>2. handed[w] + Cardinality(Storing(w)) <= tries[w] /\ handed[w] \in Nat /\ tries[w] \in Nat
    BY DEF StatusInv, HandOversAreCounted, StatusTyped
  <2> QED
    BY <2>1, <2>2, FS_EmptySet, StoringIsFinite
<1> QED
  BY <1>2, <1>3 DEF StatusInv

LEMMA StatusInvStays == StatusInv /\ [StatusNext]_statusVars => StatusInv'
<1> SUFFICES ASSUME StatusInv, [StatusNext]_statusVars PROVE StatusInv'
  OBVIOUS
<1>1. CASE UNCHANGED statusVars
  BY <1>1 DEF statusVars, StatusInv, StatusTyped, RequestsFit, Fits, AnsweredAreStored,
              HandOversAreCounted, Storing
<1> QED
  BY <1>1, DeliverStep, StoreStep, StoreRaisesStep, HandOverStep, AnswerStep, RestartStep
     DEF StatusNext

\* However often webhooks are repeated, overlap and are interrupted, each status they
\* report is in the table once, and none is missing when WhatsApp stops repeating,
\* unless storing it failed (server.py webhook, delivery_status.py record_event).
THEOREM RetriesKeepStatuses == StatusSpec => []StatusesSurviveRetries
<1>1. StatusInv => StatusesSurviveRetries
  <2> SUFFICES ASSUME StatusInv PROVE StatusesSurviveRetries
    OBVIOUS
  <2>1. \A i, j \in DOMAIN events : events[i] = events[j] => i = j
    BY DEF StatusInv, IsInjective
  <2>2. Range(events) \subseteq UNION {Range(w.statuses) : w \in Webhooks}
    <3>1. events \in Seq(Entries)
      BY DEF StatusInv, StatusTyped
    <3> QED
      BY <3>1, RangeOfSeq DEF Entries
  <2>3. ASSUME NEW w \in answered
        PROVE  /\ w \in excused \/ \A i \in Parsed(w) : w.statuses[i] \in Range(events)
               /\ w.message = "text" => handed[w] \in 1..tries[w]
    <3>1. w \in Webhooks /\ handed[w] \in Nat /\ tries[w] \in Nat
      BY DEF StatusInv, StatusTyped
    <3>2. handed[w] <= tries[w]
      <4>1. handed[w] + Cardinality(Storing(w)) <= tries[w] /\ Cardinality(Storing(w)) \in Nat
        BY <3>1, StoringIsFinite DEF StatusInv, HandOversAreCounted
      <4> QED
        BY <3>1, <4>1
    <3> QED
      BY <3>1, <3>2 DEF StatusInv, AnsweredAreStored
  <2> QED
    BY <2>1, <2>2, <2>3 DEF StatusesSurviveRetries
<1> QED
  BY <1>1, StatusInvHolds, StatusInvStays, PTL DEF StatusSpec

-----------------------------------------------------------------------------
(***************************************************************************)
(* Planning: the inductive invariant.                                      *)
(***************************************************************************)
KeyOf(s, i) == make_workflow_idempotency_key(s.rule, s.case, s.rule.actions[i])

\* A simulation that got as far as planning.
Started(s) ==
    /\ s.rule \in Rules /\ s.case \in Snapshots
    /\ Accepted(s.rule, s.case) /\ Matched(s.rule, s.case)
    /\ s.next \in Nat \ {0}

\* What a simulation reports are actions of its rule, in the ledger, and none of
\* those it has passed is missing.
Reports(s) ==
    /\ s.actions \subseteq DOMAIN planned /\ s.skipped \subseteq DOMAIN planned
    /\ s.pc = "idle" => s.actions = {}
    /\ \A k \in s.actions : Started(s) /\ \E i \in DOMAIN s.rule.actions : k = KeyOf(s, i)
    /\ s.pc = "planning" =>
          /\ Started(s)
          /\ s = [pc |-> s.pc, rule |-> s.rule, case |-> s.case, next |-> s.next,
                  actions |-> s.actions, skipped |-> s.skipped]
          /\ \A i \in DOMAIN s.rule.actions : i < s.next => KeyOf(s, i) \in s.actions \cup s.skipped
    /\ s.pc = "done" /\ Matched(s.rule, s.case) =>
          \A i \in DOMAIN s.rule.actions : KeyOf(s, i) \in s.actions \cup s.skipped

\* The ledger, apart from what operators decide.
LedgerIsPlanned ==
    /\ \A k \in DOMAIN planned : \E p \in Planners : k \in sim[p].actions
    /\ \A k \in DOMAIN planned : k \in DOMAIN requests <=> k \in NeedApproval
    /\ DOMAIN requests \subseteq DOMAIN planned

PlanningInv ==
    /\ DOMAIN sim = Planners
    /\ \A p \in Planners : Reports(sim[p])
    /\ \A p, q \in Planners : p # q => sim[p].actions \cap sim[q].actions = {}
    /\ LedgerIsPlanned

-----------------------------------------------------------------------------
LEMMA PlanningInvHolds == PlanningInit => PlanningInv
<1> SUFFICES ASSUME PlanningInit PROVE PlanningInv
  OBVIOUS
<1>1. /\ sim = [p \in Planners |-> NotStarted] /\ DOMAIN planned = {} /\ DOMAIN requests = {}
  BY DEF PlanningInit, ApprovalInit
<1>2. NotStarted.pc = "idle" /\ NotStarted.actions = {} /\ NotStarted.skipped = {}
  BY DEF NotStarted
<1>3. \A p \in Planners : sim[p] = NotStarted
  BY <1>1
<1>4. \A p \in Planners : Reports(sim[p])
  <2> SUFFICES ASSUME NEW p \in Planners PROVE Reports(sim[p])
    OBVIOUS
  <2>1. sim[p].pc = "idle" /\ sim[p].actions = {} /\ sim[p].skipped = {}
    BY <1>2, <1>3
  <2> QED
    BY <2>1 DEF Reports
<1> QED
  BY <1>1, <1>2, <1>3, <1>4 DEF PlanningInv, LedgerIsPlanned

\* One simulation changes.
Simulates(p, s) ==
    /\ DOMAIN sim' = Planners
    /\ sim'[p] = s
    /\ \A q \in Planners \ {p} : sim'[q] = sim[q]

\* Reports only looks at the keys of the ledger, and these only grow.
LEMMA ReportsStay ==
    ASSUME NEW s, Reports(s), DOMAIN planned \subseteq DOMAIN planned'
    PROVE  Reports(s)'
BY DEF Reports

\* A simulation goes on without planning anything.
LEMMA SimulationStep ==
    ASSUME PlanningInv, NEW p \in Planners, NEW s, Simulates(p, s), Reports(s),
           s.actions = sim[p].actions, LedgerUnchanged
    PROVE  PlanningInv'
<1>1. planned' = planned /\ requests' = requests
  BY DEF LedgerUnchanged, approvalVars
<1>2. \A q \in Planners : sim'[q].actions = sim[q].actions
  BY DEF Simulates
<1>3. ASSUME NEW q \in Planners PROVE Reports(sim[q])'
  <2>1. PICK t : t = sim'[q]
    OBVIOUS
  <2>2. Reports(t)
    BY <2>1 DEF Simulates, PlanningInv
  <2>3. Reports(t)'
    BY <1>1, <2>2, ReportsStay
  <2> QED
    BY <2>1, <2>3
<1> QED
  BY <1>1, <1>2, <1>3 DEF PlanningInv, LedgerIsPlanned, Simulates

LEMMA SimulateStep ==
    ASSUME PlanningInv, NEW p \in Planners, NEW rule \in Rules, NEW case \in Snapshots,
           Simulate(p, rule, case)
    PROVE  PlanningInv'
<1> DEFINE s == [pc |-> IF ~Accepted(rule, case) THEN "refused"
                        ELSE IF Matched(rule, case) THEN "planning" ELSE "done",
                 rule |-> rule, case |-> case, next |-> 1, actions |-> {}, skipped |-> {}]
<1>1. /\ s.rule = rule /\ s.case = case /\ s.next = 1 /\ s.actions = {} /\ s.skipped = {}
      /\ s.pc \in {"refused", "planning", "done"}
      /\ s.pc = "planning" => Accepted(rule, case) /\ Matched(rule, case)
      /\ s.pc = "done" => ~Matched(rule, case)
  OBVIOUS
<1>2. sim[p].pc = "idle" /\ sim' = [sim EXCEPT ![p] = s] /\ LedgerUnchanged
  BY DEF Simulate
<1> HIDE DEF s
<1>3. Simulates(p, s)
  BY <1>2 DEF Simulates, PlanningInv
<1>4. Reports(s)
  <2>1. s.pc = "planning" =>
           /\ Started(s)
           /\ s = [pc |-> s.pc, rule |-> s.rule, case |-> s.case, next |-> s.next,
                   actions |-> s.actions, skipped |-> s.skipped]
    BY <1>1 DEF Started, s
  <2>2. \A i \in DOMAIN rule.actions : ~(i < 1)
    BY PlanningAssumption
  <2> QED
    BY <1>1, <2>1, <2>2 DEF Reports
<1>5. sim[p].actions = {}
  BY <1>2 DEF PlanningInv, Reports
<1> QED
  BY <1>1, <1>2, <1>3, <1>4, <1>5, SimulationStep


LEMMA NextTyped ==
    ASSUME PlanningInv, NEW p \in Planners, HasNext(p)
    PROVE  /\ Started(sim[p]) /\ Reports(sim[p]) /\ sim[p].pc = "planning"
           /\ sim[p].next \in DOMAIN sim[p].rule.actions /\ sim[p].next \in Nat
           /\ NextKey(p) = KeyOf(sim[p], sim[p].next)
           /\ sim[p].rule \in Rules /\ sim[p].case \in Snapshots
           /\ DOMAIN sim[p].rule.actions \subseteq Nat
<1>1. Started(sim[p]) /\ Reports(sim[p]) /\ sim[p].pc = "planning"
  BY DEF PlanningInv, Reports, HasNext
<1>2. /\ sim[p].rule \in Rules /\ sim[p].next \in Nat \ {0} /\ sim[p].next <= Len(sim[p].rule.actions)
      /\ sim[p].case \in Snapshots
  BY <1>1 DEF Started, HasNext
<1>3. /\ Len(sim[p].rule.actions) \in Nat
      /\ DOMAIN sim[p].rule.actions = 1..Len(sim[p].rule.actions)
  BY <1>2, PlanningAssumption
<1> QED
  BY <1>1, <1>2, <1>3 DEF NextKey, KeyOf

\* What a simulation says of its next action.
LEMMA ReportedFits ==
    ASSUME PlanningInv, NEW p \in Planners, HasNext(p), NEW created \in BOOLEAN,
           NextKey(p) \in DOMAIN planned', DOMAIN planned \subseteq DOMAIN planned'
    PROVE  \E s :
              /\ s = Reported(p, created) /\ Reports(s)'
              /\ s.actions = IF created THEN sim[p].actions \cup {NextKey(p)}
                             ELSE sim[p].actions
<1>1. PICK q : q = sim[p]
  OBVIOUS
<1>2. PICK k : k = NextKey(p)
  OBVIOUS
<1>3. PICK s : s = Reported(p, created)
  OBVIOUS
<1>4. /\ Started(q) /\ Reports(q) /\ q.pc = "planning" /\ k = KeyOf(q, q.next)
      /\ q.next \in DOMAIN q.rule.actions /\ q.next \in Nat /\ DOMAIN q.rule.actions \subseteq Nat
      /\ k \in DOMAIN planned'
  BY <1>1, <1>2, NextTyped
<1>5. q = [pc |-> q.pc, rule |-> q.rule, case |-> q.case, next |-> q.next,
           actions |-> q.actions, skipped |-> q.skipped]
  BY <1>4 DEF Reports
<1>6. s = [pc |-> q.pc, rule |-> q.rule, case |-> q.case, next |-> q.next + 1,
           actions |-> IF created THEN q.actions \cup {k} ELSE q.actions,
           skipped |-> IF created THEN q.skipped ELSE q.skipped \cup {k}]
  <2>1. s = [q EXCEPT !.next = @ + 1,
                      !.actions = IF created THEN @ \cup {k} ELSE @,
                      !.skipped = IF created THEN @ ELSE @ \cup {k}]
    BY <1>1, <1>2, <1>3 DEF Reported
  <2> QED
    BY <1>5, <2>1
<1>7. /\ s.pc = "planning" /\ s.rule = q.rule /\ s.case = q.case /\ s.next = q.next + 1
      /\ s.actions = (IF created THEN q.actions \cup {k} ELSE q.actions)
      /\ s.actions \cup s.skipped = q.actions \cup q.skipped \cup {k}
      /\ s = [pc |-> s.pc, rule |-> s.rule, case |-> s.case, next |-> s.next,
              actions |-> s.actions, skipped |-> s.skipped]
  BY <1>4, <1>6
<1>8. Started(s)
  BY <1>4, <1>7 DEF Started
<1>9. \A i \in DOMAIN q.rule.actions : KeyOf(s, i) = KeyOf(q, i)
  BY <1>7 DEF KeyOf
<1>10. /\ s.actions \cup s.skipped \subseteq DOMAIN planned'
       /\ \A j \in s.actions : \E i \in DOMAIN s.rule.actions : j = KeyOf(s, i)
       /\ \A i \in DOMAIN s.rule.actions : i < s.next => KeyOf(s, i) \in s.actions \cup s.skipped
  <2>1. s.actions \cup s.skipped \subseteq DOMAIN planned'
    BY <1>4, <1>7 DEF Reports
  <2>2. \A j \in s.actions : \E i \in DOMAIN s.rule.actions : j = KeyOf(s, i)
    BY <1>4, <1>7, <1>9 DEF Reports
  <2>3. ASSUME NEW i \in DOMAIN s.rule.actions, i < s.next
        PROVE  KeyOf(s, i) \in s.actions \cup s.skipped
    <3>1. i = q.next \/ i < q.next
      BY <1>4, <1>7, <2>3
    <3> QED
      BY <1>4, <1>7, <1>9, <2>3, <3>1 DEF Reports
  <2> QED
    BY <2>1, <2>2, <2>3
<1>11. Reports(s)'
  <2>1. s.pc # "idle" /\ s.pc # "done" /\ Started(s)'
    BY <1>7, <1>8 DEF Started
  <2> QED
    BY <1>7, <1>8, <1>10, <2>1 DEF Reports
<1> QED
  BY <1>1, <1>2, <1>3, <1>7, <1>11


\* A key that is in nobody's report yet is inserted, with its request.
LEMMA PlanNextStep ==
    ASSUME PlanningInv, NEW p \in Planners, PlanNext(p)
    PROVE  PlanningInv'
<1>1. PICK k : k = NextKey(p)
  OBVIOUS
<1>2. /\ HasNext(p) /\ k \notin DOMAIN planned
      /\ planned' = Put(planned, k, IF k \in NeedApproval THEN Blocked ELSE DryRun)
      /\ requests' = IF k \in NeedApproval THEN Put(requests, k, "pending") ELSE requests
      /\ sim' = [sim EXCEPT ![p] = Reported(p, TRUE)]
  BY <1>1 DEF PlanNext, Plan
<1>3. /\ DOMAIN planned' = DOMAIN planned \cup {k}
      /\ DOMAIN requests' = DOMAIN requests \cup {j \in {k} : k \in NeedApproval}
  BY <1>2 DEF Put
<1>4. PICK s : s = Reported(p, TRUE) /\ Reports(s)' /\ s.actions = sim[p].actions \cup {k}
  BY <1>1, <1>2, <1>3, ReportedFits
<1>5. Simulates(p, s)
  BY <1>2, <1>4 DEF Simulates, PlanningInv
<1>6. ASSUME NEW q \in Planners PROVE Reports(sim[q])'
  <2>1. CASE q = p
    BY <1>4, <1>5, <2>1 DEF Simulates
  <2>2. CASE q # p
    <3>1. PICK t : t = sim[q]
      OBVIOUS
    <3>2. Reports(t)'
      BY <1>3, <3>1, ReportsStay DEF PlanningInv
    <3> QED
      BY <1>5, <2>2, <3>1, <3>2 DEF Simulates
  <2> QED
    BY <2>1, <2>2
<1>7. \A q \in Planners : k \notin sim[q].actions
  BY <1>2 DEF PlanningInv, Reports
<1>8. \A q \in Planners : sim'[q].actions = IF q = p THEN sim[q].actions \cup {k}
                                            ELSE sim[q].actions
  BY <1>4, <1>5 DEF Simulates
<1>9. \A q, r \in Planners : q # r => sim'[q].actions \cap sim'[r].actions = {}
  <2>1. \A q, r \in Planners : q # r => sim[q].actions \cap sim[r].actions = {}
    BY DEF PlanningInv
  <2> QED
    BY <1>7, <1>8, <2>1
<1>10. LedgerIsPlanned'
  <2>1. \A j \in DOMAIN planned' : \E q \in Planners : j \in sim'[q].actions
    <3>1. \A j \in DOMAIN planned : \E q \in Planners : j \in sim[q].actions
      BY DEF PlanningInv, LedgerIsPlanned
    <3> QED
      BY <1>3, <1>8, <3>1
  <2>2. /\ \A j \in DOMAIN planned : j \in DOMAIN requests <=> j \in NeedApproval
        /\ DOMAIN requests \subseteq DOMAIN planned
    BY DEF PlanningInv, LedgerIsPlanned
  <2>3. \A j \in DOMAIN planned' : j \in DOMAIN requests' <=> j \in NeedApproval
    BY <1>2, <1>3, <2>2
  <2>4. DOMAIN requests' \subseteq DOMAIN planned'
    BY <1>3, <2>2
  <2> QED
    BY <2>1, <2>3, <2>4 DEF LedgerIsPlanned
<1> QED
  BY <1>5, <1>6, <1>9, <1>10 DEF PlanningInv, Simulates

LEMMA SkipNextStep ==
    ASSUME PlanningInv, NEW p \in Planners, SkipNext(p)
    PROVE  PlanningInv'
<1>1. /\ HasNext(p) /\ NextKey(p) \in DOMAIN planned /\ planned' = planned
      /\ sim' = [sim EXCEPT ![p] = Reported(p, FALSE)] /\ LedgerUnchanged
  BY DEF SkipNext, LedgerUnchanged, approvalVars
<1>2. PICK s : s = Reported(p, FALSE) /\ Reports(s)' /\ s.actions = sim[p].actions
  BY <1>1, ReportedFits
<1>3. Simulates(p, s)
  BY <1>1, <1>2 DEF Simulates, PlanningInv
<1>4. Reports(s)
  BY <1>1, <1>2 DEF Reports
<1> QED
  BY <1>1, <1>2, <1>3, <1>4, SimulationStep

\* A simulation that ends has passed every action of its rule.
LEMMA EndStep ==
    ASSUME PlanningInv, NEW p \in Planners, Finish(p) \/ Break(p)
    PROVE  PlanningInv'
<1>1. PICK pc \in {"done", "failed"} :
         /\ sim' = [sim EXCEPT ![p].pc = pc] /\ LedgerUnchanged /\ sim[p].pc = "planning"
         /\ pc = "done" => ~HasNext(p)
  BY DEF Finish, Break, HasNext
<1>2. PICK q : q = sim[p]
  OBVIOUS
<1>3. PICK s : s = [q EXCEPT !.pc = pc]
  OBVIOUS
<1>4. sim' = [sim EXCEPT ![p] = s]
  BY <1>1, <1>2, <1>3
<1>5. /\ Started(q) /\ Reports(q) /\ q.pc = "planning"
      /\ q = [pc |-> q.pc, rule |-> q.rule, case |-> q.case, next |-> q.next,
              actions |-> q.actions, skipped |-> q.skipped]
  BY <1>1, <1>2 DEF PlanningInv, Reports
<1>6. s = [pc |-> pc, rule |-> q.rule, case |-> q.case, next |-> q.next,
           actions |-> q.actions, skipped |-> q.skipped]
  BY <1>3, <1>5
<1>7. /\ s.pc = pc /\ s.rule = q.rule /\ s.case = q.case /\ s.next = q.next
      /\ s.actions = q.actions /\ s.skipped = q.skipped
  BY <1>6
<1>8. \A i \in DOMAIN q.rule.actions : KeyOf(s, i) = KeyOf(q, i)
  BY <1>7 DEF KeyOf
<1>9. pc = "done" => \A i \in DOMAIN q.rule.actions : i < q.next
  <2>1. q.next > Len(q.rule.actions) \/ pc # "done"
    <3>1. pc = "done" => ~(q.next <= Len(q.rule.actions))
      BY <1>1, <1>2 DEF HasNext
    <3>2. q.next \in Nat /\ Len(q.rule.actions) \in Nat
      BY <1>5, PlanningAssumption DEF Started
    <3> QED
      BY <3>1, <3>2
  <2>2. /\ DOMAIN q.rule.actions = 1..Len(q.rule.actions) /\ Len(q.rule.actions) \in Nat
        /\ q.next \in Nat
    BY <1>5, PlanningAssumption DEF Started
  <2> QED
    BY <2>1, <2>2
<1>10. Reports(s)
  <2>1. \A k \in s.actions : Started(s) /\ \E i \in DOMAIN s.rule.actions : k = KeyOf(s, i)
    BY <1>5, <1>7, <1>8 DEF Reports, Started
  <2>2. s.pc = "done" => \A i \in DOMAIN s.rule.actions : KeyOf(s, i) \in s.actions \cup s.skipped
    BY <1>5, <1>7, <1>8, <1>9 DEF Reports
  <2> QED
    BY <1>5, <1>7, <2>1, <2>2 DEF Reports
<1>11. Simulates(p, s)
  BY <1>4 DEF Simulates, PlanningInv
<1> QED
  BY <1>1, <1>2, <1>7, <1>10, <1>11, SimulationStep


LEMMA PlanningInvStays == PlanningInv /\ [PlanningNext]_planningVars => PlanningInv'
<1> SUFFICES ASSUME PlanningInv, [PlanningNext]_planningVars PROVE PlanningInv'
  OBVIOUS
<1>1. CASE sim' = sim /\ DOMAIN planned' = DOMAIN planned /\ DOMAIN requests' = DOMAIN requests
  BY <1>1 DEF PlanningInv, LedgerIsPlanned, Reports
<1>2. ASSUME NEW o \in Operators, Operate(o) PROVE PlanningInv'
  BY <1>1, <1>2 DEF Operate, ReadRequest, Decide, GiveUp
<1>3. CASE UNCHANGED planningVars
  BY <1>1, <1>3 DEF planningVars
<1> QED
  BY <1>2, <1>3, SimulateStep, PlanNextStep, SkipNextStep, EndStep DEF PlanningNext

\* However simulations race, fail and are run again while operators decide, every
\* action of the ledger was planned by one of them, by a rule that applies to the case
\* and as the catalog allows, it waits for approval exactly if the catalog wants it,
\* and no action of a finished rule is unaccounted for (workflow_automation.py
\* simulate_case_workflow, workflow_action_ledger.py record_planned_action).
THEOREM PlansFollowCatalog == PlanningSpec => []PlansAreGoverned
<1>1. PlanningInv => PlansAreGoverned
  <2> SUFFICES ASSUME PlanningInv PROVE PlansAreGoverned
    OBVIOUS
  <2>1. ASSUME NEW p \in Planners, NEW k \in sim[p].actions
        PROVE  /\ k[2] = sim[p].case.id
               /\ sim[p].rule.business = sim[p].case.business
               /\ Matched(sim[p].rule, sim[p].case)
               /\ Catalog[k[3]].families = {} \/ sim[p].case.type \in Catalog[k[3]].families
               /\ k \in NeedApproval <=> RequiresApproval(k[3])
    <3>1. PICK s : s = sim[p]
      OBVIOUS
    <3>2. Started(s) /\ \E i \in DOMAIN s.rule.actions : k = KeyOf(s, i)
      BY <2>1, <3>1 DEF PlanningInv, Reports
    <3>3. PICK i \in DOMAIN s.rule.actions : k = KeyOf(s, i)
      BY <3>2
    <3>4. k[2] = s.case.id /\ k[3] = s.rule.actions[i].action
      BY <3>3 DEF KeyOf, make_workflow_idempotency_key
    <3>5. /\ s.rule.business = s.case.business /\ Allowed(s.rule.actions[i], s.case)
          /\ Matched(s.rule, s.case)
      BY <3>2, <3>3 DEF Started, Accepted, Valid
    <3>6. k \in NeedApproval <=> RequiresApproval(s.rule.actions[i].action)
      <4>1. s.rule \in Rules /\ s.case \in Snapshots /\ s.rule.actions[i].action \in DOMAIN Catalog
        BY <3>2, <3>5 DEF Started, Allowed
      <4> QED
        BY <3>3, <4>1, PlanningAssumption DEF KeyOf
    <3> QED
      BY <3>1, <3>4, <3>5, <3>6 DEF Allowed
  <2>2. ASSUME NEW k \in DOMAIN planned
        PROVE  /\ Cardinality({p \in Planners : k \in sim[p].actions}) = 1
               /\ k \in DOMAIN requests <=> RequiresApproval(k[3])
    <3>1. PICK p \in Planners : k \in sim[p].actions
      BY DEF PlanningInv, LedgerIsPlanned
    <3>2. {q \in Planners : k \in sim[q].actions} = {p}
      BY <3>1 DEF PlanningInv
    <3>3. Cardinality({q \in Planners : k \in sim[q].actions}) = 1
      BY <3>2, FS_Singleton
    <3>4. k \in DOMAIN requests <=> k \in NeedApproval
      BY DEF PlanningInv, LedgerIsPlanned
    <3> QED
      BY <2>1, <3>1, <3>3, <3>4
  <2>3. ASSUME NEW p \in Planners, sim[p].pc = "done", Matched(sim[p].rule, sim[p].case)
        PROVE  /\ sim[p].actions \cup sim[p].skipped \subseteq DOMAIN planned
               /\ \A i \in DOMAIN sim[p].rule.actions :
                     make_workflow_idempotency_key(sim[p].rule, sim[p].case,
                                                   sim[p].rule.actions[i])
                        \in sim[p].actions \cup sim[p].skipped
    BY <2>3 DEF PlanningInv, Reports, KeyOf
  <2> QED
    BY <2>1, <2>2, <2>3 DEF PlansAreGoverned
<1> QED
  BY <1>1, PlanningInvHolds, PlanningInvStays, PTL DEF PlanningSpec


-----------------------------------------------------------------------------
(***************************************************************************)
(* Schedules: days and minutes.                                            *)
(***************************************************************************)
DayStart(x) == DayOf(x) * DayLength

LEMMA DayBounds ==
    ASSUME NEW x \in Int
    PROVE  /\ DayStart(x) \in Int /\ DayLength \in Nat \ {0}
           /\ DayStart(x) <= x /\ x < DayStart(x) + DayLength
           /\ x = DayStart(x) + MinuteOfDay(x)
BY ScheduleAssumption DEF DayStart, DayOf, MinuteOfDay

\* Two instants of one minute of the day are a day apart, at least.
LEMMA SameMinute ==
    ASSUME NEW x \in Int, NEW y \in Int, MinuteOfDay(x) = MinuteOfDay(y)
    PROVE  x = y \/ x <= y - DayLength \/ x >= y + DayLength
<1>1. DayLength \in Nat \ {0}
  BY ScheduleAssumption
<1>2. /\ x \div DayLength \in Int /\ y \div DayLength \in Int /\ x % DayLength \in Int
      /\ x = DayLength * (x \div DayLength) + (x % DayLength)
      /\ y = DayLength * (y \div DayLength) + (x % DayLength)
  BY <1>1 DEF MinuteOfDay
<1>3. PICK p \in Int, q \in Int, r \in Int : x = DayLength * p + r /\ y = DayLength * q + r
  BY <1>2
<1>4. CASE p = q
  BY <1>3, <1>4
<1>5. CASE p > q
  <2>1. PICK e \in Nat : p = q + 1 + e
    <3>1. p - q - 1 \in Nat /\ p = q + 1 + (p - q - 1)
      BY <1>5
    <3> QED
      BY <3>1
  <2>2. DayLength * p = DayLength * q + DayLength + DayLength * e /\ DayLength * e >= 0
    BY <1>1, <2>1
  <2> QED
    BY <1>1, <1>3, <2>2
<1>6. CASE p < q
  <2>1. PICK e \in Nat : q = p + 1 + e
    <3>1. q - p - 1 \in Nat /\ q = p + 1 + (q - p - 1)
      BY <1>6
    <3> QED
      BY <3>1
  <2>2. DayLength * q = DayLength * p + DayLength + DayLength * e /\ DayLength * e >= 0
    BY <1>1, <2>1
  <2> QED
    BY <1>1, <1>3, <2>2
<1> QED
  BY <1>4, <1>5, <1>6

LEMMA DayAndMinute ==
    ASSUME NEW k \in Int, NEW at \in 0..(DayLength - 1)
    PROVE  MinuteOfDay(k * DayLength + at) = at
<1>1. DayLength \in Nat \ {0}
  BY ScheduleAssumption
<1>2. PICK y \in Int : y = k * DayLength + at
  BY <1>1
<1>3. PICK q \in Int, r \in 0..(DayLength - 1) :
         /\ y = DayLength * q + r
         /\ r = MinuteOfDay(y)
  <2>1. /\ y \div DayLength \in Int /\ y % DayLength \in 0..(DayLength - 1)
        /\ y = DayLength * (y \div DayLength) + (y % DayLength)
    BY <1>1
  <2> QED
    BY <2>1 DEF MinuteOfDay
<1> SUFFICES r = at
  BY <1>2, <1>3
<1>4. CASE q = k
  <2>1. DayLength * q = k * DayLength
    BY <1>1, <1>4
  <2> QED
    BY <1>1, <1>2, <1>3, <2>1
<1>5. CASE q > k
  <2>1. PICK e \in Nat : q = k + 1 + e
    <3>1. q - k - 1 \in Nat /\ q = k + 1 + (q - k - 1)
      BY <1>5
    <3> QED
      BY <3>1
  <2>2. DayLength * q = k * DayLength + DayLength + DayLength * e /\ DayLength * e >= 0
    BY <1>1, <2>1
  <2> QED
    BY <1>1, <1>2, <1>3, <2>2
<1>6. CASE q < k
  <2>1. PICK e \in Nat : k = q + 1 + e
    <3>1. k - q - 1 \in Nat /\ k = q + 1 + (k - q - 1)
      BY <1>6
    <3> QED
      BY <3>1
  <2>2. k * DayLength = DayLength * q + DayLength + DayLength * e /\ DayLength * e >= 0
    BY <1>1, <2>1
  <2> QED
    BY <1>1, <1>2, <1>3, <2>2
<1> QED
  BY <1>4, <1>5, <1>6

LEMMA WallMinute ==
    ASSUME NEW x \in Int, NEW at \in 0..(DayLength - 1)
    PROVE  MinuteOfDay(DayStart(x) + at) = at /\ MinuteOfDay(DayStart(x) + at + DayLength) = at
<1>1. DayLength \in Nat \ {0} /\ DayOf(x) \in Int
  BY ScheduleAssumption DEF DayOf
<1>2. DayOf(x) * DayLength + at + DayLength = (DayOf(x) + 1) * DayLength + at
  BY <1>1
<1>3. MinuteOfDay(DayOf(x) * DayLength + at) = at
  BY <1>1, DayAndMinute
<1>4. MinuteOfDay((DayOf(x) + 1) * DayLength + at) = at
  <2>1. DayOf(x) + 1 \in Int
    BY <1>1
  <2> QED
    BY <2>1, DayAndMinute
<1> QED
  BY <1>2, <1>3, <1>4 DEF DayStart

LEMMA DaysInOrder ==
    ASSUME NEW x \in Int, NEW y \in Int, x <= y
    PROVE  DayStart(x) <= DayStart(y)
<1>1. 0 \in 0..(DayLength - 1)
  BY ScheduleAssumption
<1>2. MinuteOfDay(DayStart(x)) = 0 /\ MinuteOfDay(DayStart(y)) = 0
  BY <1>1, WallMinute, DayBounds
<1> QED
  BY <1>2, DayBounds, SameMinute

-----------------------------------------------------------------------------
(***************************************************************************)
(* Schedules: a zone, and the next run from the minute a on.               *)
(***************************************************************************)
\* What the arithmetic needs to know: w is the run's wall time on the local day of a,
\* whose first minute is d.
Around(a, at, d, w) ==
    /\ a \in Nat /\ at \in 0..(DayLength - 1) /\ DayLength \in Nat \ {0}
    /\ zone.from \in Nat /\ zone.before \in Int /\ zone.after \in Int
    /\ d \in Int /\ d <= Local(a) /\ Local(a) < d + DayLength
    /\ w = d + at
    /\ zone.after - zone.before <= DayLength /\ zone.from >= zone.before - zone.after
    /\ zone.after < zone.before =>
          /\ Local(a) >= zone.from + zone.after => d + DayLength >= zone.from + zone.before
          /\ Local(a) < zone.from + zone.before => d <= zone.from + zone.after

LEMMA AroundHolds ==
    ASSUME zone \in Zones, KeepsDays(zone), NEW a \in Nat, NEW at \in 0..(DayLength - 1)
    PROVE  Around(a, at, DayStart(Local(a)), DayStart(Local(a)) + at)
<1>1. /\ zone.from \in Nat /\ zone.before \in Int /\ zone.after \in Int
      /\ DayLength \in Nat \ {0}
  BY ScheduleAssumption
<1>2. Local(a) \in Int
  BY <1>1 DEF Local, Offset
<1> DEFINE d == DayStart(Local(a))
           first == zone.from + zone.after
           last == zone.from + zone.before - 1
<1>3. first \in Int /\ last \in Int
  BY <1>1
<1>4. ASSUME zone.after < zone.before
      PROVE  /\ Local(a) >= first => d + DayLength >= last + 1
             /\ Local(a) < last + 1 => d <= first
  <2>1. DayStart(first) = DayStart(last)
    BY <1>4 DEF KeepsDays, DayStart
  <2>2. Local(a) >= first => DayStart(first) <= d
    BY <1>2, <1>3, DaysInOrder
  <2>3. Local(a) < last + 1 => d <= DayStart(last)
    <3>1. Local(a) < last + 1 => Local(a) <= last
      BY <1>2, <1>3
    <3> QED
      BY <1>2, <1>3, <3>1, DaysInOrder
  <2>4. /\ last < DayStart(last) + DayLength /\ DayStart(first) <= first
        /\ DayStart(last) \in Int /\ DayStart(first) \in Int
    BY <1>3, DayBounds
  <2>5. d \in Int
    BY <1>2, DayBounds
  <2> HIDE DEF d, first, last
  <2> QED
    BY <1>1, <1>3, <2>1, <2>2, <2>3, <2>4, <2>5
<1>5. d \in Int /\ d <= Local(a) /\ Local(a) < d + DayLength
  BY <1>2, DayBounds
<1>6. /\ zone.after < zone.before =>
            /\ Local(a) >= zone.from + zone.after => d + DayLength >= zone.from + zone.before
            /\ Local(a) < zone.from + zone.before => d <= zone.from + zone.after
  BY <1>1, <1>4
<1> HIDE DEF d
<1> QED
  BY <1>1, <1>5, <1>6 DEF Around, KeepsDays, d

\* A wall time that is not skipped is the local time of the instant it is read as.
LEMMA WallOfUtc ==
    ASSUME zone \in Zones, NEW x \in Int, NEW fold \in {0, 1}
    PROVE  ToUtc(x, fold) \in Int /\ (Local(ToUtc(x, fold)) = x \/ Skipped(x))
<1>1. zone.from \in Nat /\ zone.before \in Int /\ zone.after \in Int
  BY ScheduleAssumption
<1> QED
  BY <1>1 DEF ToUtc, Local, Offset, Skipped

LEMMA FoldIsBit == ASSUME NEW a PROVE Fold(a) \in {0, 1}
BY DEF Fold

\* Tomorrow's run is ahead.
LEMMA TomorrowIsAhead ==
    ASSUME NEW a, NEW at, NEW d, NEW w, Around(a, at, d, w)
    PROVE  ToUtc(w + DayLength, 0) > a
BY DEF Around, ToUtc, Local, Offset

\* No minute between a and today's run, if that is ahead, is one of the schedule.
LEMMA NoneBeforeToday ==
    ASSUME NEW a, NEW at, NEW d, NEW w, Around(a, at, d, w),
           NEW t \in Int, a < t, t < ToUtc(w, Fold(a)),
           Local(t) = w \/ Local(t) <= w - DayLength \/ Local(t) >= w + DayLength
    PROVE  FALSE
<1>1. CASE Local(t) = w
  BY <1>1 DEF Around, ToUtc, Local, Offset, Fold
<1>2. CASE Local(t) <= w - DayLength
  BY <1>2 DEF Around, ToUtc, Local, Offset, Fold
<1>3. CASE Local(t) >= w + DayLength
  BY <1>3 DEF Around, ToUtc, Local, Offset, Fold
<1> QED
  BY <1>1, <1>2, <1>3

\* Between a, whose run of the day has been, and tomorrow's run, only the second pass
\* of the run that has been is a minute of the schedule.
LEMMA NoneBeforeTomorrow ==
    ASSUME NEW a, NEW at, NEW d, NEW w, Around(a, at, d, w), zone \in Zones,
           NEW t \in Int, a < t, t < ToUtc(w + DayLength, 0), ToUtc(w, Fold(a)) <= a,
           Local(t) = w \/ Local(t) <= w - DayLength \/ Local(t) >= w + DayLength,
           \/ Local(t) = w + DayLength \/ Local(t) <= w
           \/ Local(t) >= w + DayLength + DayLength
    PROVE  \E u \in 0..a : Local(u) = Local(t)
<1>1. CASE Local(t) = w
  <2>1. ToUtc(w, Fold(a)) \in 0..a /\ Local(ToUtc(w, Fold(a))) = w
    BY <1>1 DEF Around, ToUtc, Local, Offset, Fold
  <2> QED
    BY <1>1, <2>1
<1>2. CASE Local(t) <= w - DayLength
  BY <1>2 DEF Around, ToUtc, Local, Offset, Fold
<1>3. CASE Local(t) = w + DayLength
  BY <1>3 DEF Around, ToUtc, Local, Offset, Fold
<1>4. CASE Local(t) >= w + DayLength + DayLength
  BY <1>4 DEF Around, ToUtc, Local, Offset, Fold
<1> QED
  BY <1>1, <1>2, <1>3, <1>4 DEF Around, Local, Offset

-----------------------------------------------------------------------------
\* A schedule is started in one of its own minutes.
ScheduleInv ==
    /\ zone \in Zones /\ minute \in Nat
    /\ \A r \in runs : /\ r.cron \in Crons /\ r.run_at \in Nat
                       /\ MinuteOfDay(Local(r.run_at)) = r.cron.at

LEMMA ScheduleInvHolds == ScheduleInit => ScheduleInv
BY DEF ScheduleInit, ScheduleInv

LEMMA ScheduleInvStays == ScheduleInv /\ [ScheduleNext]_scheduleVars => ScheduleInv'
<1> SUFFICES ASSUME ScheduleInv, [ScheduleNext]_scheduleVars PROVE ScheduleInv'
  OBVIOUS
<1>1. CASE Invoke
  <2>1. /\ zone' = zone /\ minute' = minute
        /\ runs' = runs \cup {[cron |-> cron, run_at |-> minute] : cron \in due_schedules(minute)}
    BY <1>1 DEF Invoke
  <2>2. ASSUME NEW r \in runs'
        PROVE  r.cron \in Crons /\ r.run_at \in Nat /\ MinuteOfDay(Local(r.run_at)) = r.cron.at
    <3>1. CASE r \in runs
      BY <3>1 DEF ScheduleInv
    <3>2. CASE r \notin runs
      <4>1. PICK cron \in due_schedules(minute) : r = [cron |-> cron, run_at |-> minute]
        BY <2>1, <3>2
      <4>2. cron \in Crons /\ MinuteOfDay(Local(minute)) = cron.at
        BY <4>1 DEF due_schedules, should_run_schedule
      <4> QED
        BY <4>1, <4>2 DEF ScheduleInv
    <3> QED
      BY <3>1, <3>2
  <2> QED
    BY <2>1, <2>2 DEF ScheduleInv, Local, Offset
<1>2. CASE Pass
  BY <1>2 DEF Pass, ScheduleInv, Local, Offset
<1>3. CASE UNCHANGED scheduleVars
  BY <1>3 DEF scheduleVars, ScheduleInv, Local, Offset
<1> QED
  BY <1>1, <1>2, <1>3 DEF ScheduleNext

LEMMA NextRunIsAnnounced ==
    ASSUME ScheduleInv, KeepsDays(zone), NEW cron \in Crons, cron.enabled
    PROVE  LET next == next_daily_run(cron, minute)
               today == DayOf(Local(minute)) * DayLength + cron.at
           IN /\ next > minute
              /\ \/ should_run_schedule(cron, next)
                 \/ Skipped(today) \/ Skipped(today + DayLength)
              /\ \A t \in (minute + 1)..(next - 1) :
                    should_run_schedule(cron, t) =>
                       \E u \in 0..minute : Local(u) = Local(t)
<1> DEFINE d == DayStart(Local(minute))
           w == d + cron.at
           next == next_daily_run(cron, minute)
<1>1. /\ zone \in Zones /\ minute \in Nat /\ cron.at \in 0..(DayLength - 1)
      /\ zone.from \in Nat /\ zone.before \in Int /\ zone.after \in Int
      /\ DayLength \in Nat \ {0}
  BY ScheduleAssumption DEF ScheduleInv
<1>2. Around(minute, cron.at, d, w)
  BY <1>1, AroundHolds
<1>3. Local(minute) \in Int /\ d \in Int /\ w \in Int /\ w + DayLength \in Int
  <2>1. Local(minute) \in Int
    BY <1>1 DEF Local, Offset
  <2>2. d \in Int
    BY <2>1, DayBounds
  <2> QED
    BY <1>1, <2>1, <2>2
<1>4. w = DayOf(Local(minute)) * DayLength + cron.at
  BY DEF DayStart
<1>5. MinuteOfDay(w) = cron.at /\ MinuteOfDay(w + DayLength) = cron.at
  BY <1>1, <1>3, WallMinute
<1>6. next = IF ToUtc(w, Fold(minute)) > minute THEN ToUtc(w, Fold(minute))
             ELSE ToUtc(w + DayLength, 0)
  BY <1>4 DEF next_daily_run
<1>7. ToUtc(w, Fold(minute)) \in Int /\ ToUtc(w + DayLength, 0) \in Int
  BY <1>1, <1>3, WallOfUtc, FoldIsBit
<1> HIDE DEF d, w, next
<1>8. next > minute
  BY <1>2, <1>6, TomorrowIsAhead
<1>9. should_run_schedule(cron, next) \/ Skipped(w) \/ Skipped(w + DayLength)
  <2>1. Local(ToUtc(w, Fold(minute))) = w \/ Skipped(w)
    BY <1>1, <1>3, WallOfUtc, FoldIsBit
  <2>2. Local(ToUtc(w + DayLength, 0)) = w + DayLength \/ Skipped(w + DayLength)
    BY <1>1, <1>3, WallOfUtc
  <2> QED
    BY <1>5, <1>6, <2>1, <2>2 DEF should_run_schedule
<1>10. ASSUME NEW t \in (minute + 1)..(next - 1), should_run_schedule(cron, t)
       PROVE  \E u \in 0..minute : Local(u) = Local(t)
  <2>1. next \in Int
    BY <1>6, <1>7
  <2>2. t \in Int /\ minute < t /\ t < next
    BY <1>1, <2>1
  <2>3. Local(t) \in Int /\ MinuteOfDay(Local(t)) = cron.at
    BY <1>1, <1>10, <2>2 DEF Local, Offset, should_run_schedule
  <2>4. Local(t) = w \/ Local(t) <= w - DayLength \/ Local(t) >= w + DayLength
    BY <1>3, <1>5, <2>3, SameMinute
  <2>5. \/ Local(t) = w + DayLength \/ Local(t) <= w
        \/ Local(t) >= w + DayLength + DayLength
    <3>1. \/ Local(t) = w + DayLength \/ Local(t) <= (w + DayLength) - DayLength
          \/ Local(t) >= (w + DayLength) + DayLength
      BY <1>3, <1>5, <2>3, SameMinute
    <3>2. (w + DayLength) - DayLength = w
      BY <1>1, <1>3
    <3> QED
      BY <3>1, <3>2
  <2>6. CASE ToUtc(w, Fold(minute)) > minute
    BY <1>2, <1>6, <2>2, <2>4, <2>6, NoneBeforeToday
  <2>7. CASE ~(ToUtc(w, Fold(minute)) > minute)
    <3>1. ToUtc(w, Fold(minute)) <= minute /\ t < ToUtc(w + DayLength, 0)
      BY <1>1, <1>6, <1>7, <2>2, <2>7
    <3> QED
      BY <1>1, <1>2, <2>2, <2>4, <2>5, <3>1, NoneBeforeTomorrow
  <2> QED
    BY <2>6, <2>7
<1> QED
  BY <1>4, <1>8, <1>9, <1>10 DEF next

\* In a zone whose clock keeps to days, what next_daily_run announces and what
\* due_schedules starts agree in every minute, and a schedule is started once in a
\* local day, but for the second pass of a repeated minute (scheduler.py).
THEOREM AnnouncedRunsAreDue ==
    ASSUME \A z \in Zones : KeepsDays(z)
    PROVE  ScheduleSpec => []RunsComeAsAnnounced
<1>1. ScheduleInv => RunsComeAsAnnounced
  <2> SUFFICES ASSUME ScheduleInv PROVE RunsComeAsAnnounced
    OBVIOUS
  <2>1. KeepsDays(zone)
    BY DEF ScheduleInv
  <2>2. ASSUME NEW r \in runs, NEW s \in runs, r.cron = s.cron,
               DayOf(Local(r.run_at)) = DayOf(Local(s.run_at))
        PROVE  Local(r.run_at) = Local(s.run_at)
    <3>1. /\ Local(r.run_at) \in Int /\ Local(s.run_at) \in Int
          /\ MinuteOfDay(Local(r.run_at)) = MinuteOfDay(Local(s.run_at))
      BY <2>2, ScheduleAssumption DEF ScheduleInv, Local, Offset
    <3>2. DayStart(Local(r.run_at)) = DayStart(Local(s.run_at))
      BY <2>2 DEF DayStart
    <3> QED
      BY <3>1, <3>2, DayBounds
  <2>3. \A cron \in Crons : cron.enabled =>
           LET next == next_daily_run(cron, minute)
               today == DayOf(Local(minute)) * DayLength + cron.at
           IN /\ next > minute
              /\ \/ should_run_schedule(cron, next)
                 \/ Skipped(today) \/ Skipped(today + DayLength)
              /\ \A t \in (minute + 1)..(next - 1) :
                    should_run_schedule(cron, t) =>
                       \E u \in 0..minute : Local(u) = Local(t)
    BY <2>1, NextRunIsAnnounced
  <2> QED
    BY <2>2, <2>3 DEF RunsComeAsAnnounced
<1> QED
  BY <1>1, ScheduleInvHolds, ScheduleInvStays, PTL DEF ScheduleSpec

-----------------------------------------------------------------------------
(***************************************************************************)
(* Daily findings: the recursions.                                         *)
(***************************************************************************)
\* Who starts at 0 and climbs every step reaches the top.  Were the top not reached,
\* one step up would take the steps reached, one to one, to those above 0.
LEMMA Climb ==
    ASSUME NEW N \in Nat, NEW A, 0 \in A, \A n \in 0..(N - 1) : n \in A => n + 1 \in A
    PROVE  N \in A
<1> SUFFICES ASSUME N \notin A PROVE FALSE
  OBVIOUS
<1>1. PICK S : S = A \cap (0..N)
  OBVIOUS
<1>2. \A n \in S : n \in Nat /\ n + 1 \in S \ {0}
  BY <1>1
<1>3. IsFiniteSet(S) /\ 0 \in S
  <2>1. IsFiniteSet(0..N)
    BY FS_Interval
  <2> QED
    BY <1>1, <2>1, FS_Subset
<1>4. /\ IsFiniteSet(S \ {0})
      /\ Cardinality(S \ {0}) = Cardinality(S) - 1
      /\ Cardinality(S) \in Nat
  BY <1>3, FS_RemoveElement, FS_CardinalityType
<1>5. PICK up : up = [n \in S |-> n + 1]
  OBVIOUS
<1>6. up \in [S -> S \ {0}]
  BY <1>2, <1>5
<1>7. PICK T : T = S \ {0}
  OBVIOUS
<1>8. \E x, y \in S : x # y /\ up[x] = up[y]
  <2>1. up \in [S -> T] /\ IsFiniteSet(T) /\ Cardinality(T) < Cardinality(S)
    BY <1>4, <1>6, <1>7
  <2> QED
    BY <1>3, <2>1, FS_PigeonHole
<1> QED
  BY <1>2, <1>5, <1>8

IsTotals(values, f) ==
    f = [n \in 0..Len(values) |-> IF n = 0 THEN 0 ELSE f[n - 1] + values[n]]

\* The totals are the ones their recursion describes.
LEMMA TotalsUnfold ==
    ASSUME NEW values, Len(values) \in Nat
    PROVE  IsTotals(values, Totals(values))
<1> DEFINE Solves(n, f) ==
              f = [k \in 0..n |-> IF k = 0 THEN 0 ELSE f[k - 1] + values[k]]
           solved == {n \in 0..Len(values) : \E f : Solves(n, f)}
<1>1. PICK N \in Nat : N = Len(values)
  OBVIOUS
<1>2. ASSUME NEW n \in 0..(N - 1), NEW f, Solves(n, f)
      PROVE  \E next : Solves(n + 1, next)
  <2> DEFINE next == [k \in 0..(n + 1) |->
                        IF k <= n THEN f[k] ELSE f[n] + values[n + 1]]
  <2>1. n \in Nat
    BY <1>2
  <2>2. \A k \in 0..(n + 1) :
           next[k] = IF k = 0 THEN 0 ELSE next[k - 1] + values[k]
    <3> SUFFICES ASSUME NEW k \in 0..(n + 1)
                 PROVE  next[k] = IF k = 0 THEN 0 ELSE next[k - 1] + values[k]
      OBVIOUS
    <3>1. CASE k <= n
      <4>1. f[k] = IF k = 0 THEN 0 ELSE f[k - 1] + values[k]
        BY <1>2, <2>1, <3>1
      <4>2. next[k] = f[k]
        BY <3>1
      <4>3. k # 0 => next[k - 1] = f[k - 1]
        BY <2>1, <3>1
      <4> HIDE DEF next
      <4> QED
        BY <4>1, <4>2, <4>3
    <3>2. CASE k = n + 1
      <4>1. next[k] = f[n] + values[n + 1]
        BY <2>1, <3>2
      <4>2. next[n] = f[n] /\ k - 1 = n /\ k # 0
        BY <2>1, <3>2
      <4> HIDE DEF next
      <4> QED
        BY <3>2, <4>1, <4>2
    <3> QED
      BY <2>1, <3>1, <3>2
  <2>3. next = [k \in 0..(n + 1) |-> next[k]]
    OBVIOUS
  <2> HIDE DEF next
  <2>4. Solves(n + 1, next)
    BY <2>2, <2>3
  <2> QED
    BY <2>4
<1>3. N \in solved
  <2>1. Solves(0, [k \in 0..0 |-> 0])
    OBVIOUS
  <2>2. \A f : \A n \in 0..(N - 1) : Solves(n, f) => \E next : Solves(n + 1, next)
    BY <1>2
  <2> HIDE DEF Solves
  <2>3. 0 \in solved
    BY <1>1, <2>1
  <2>4. \A n \in 0..(N - 1) : n \in solved => n + 1 \in solved
    BY <1>1, <2>2
  <2> HIDE DEF solved
  <2> QED
    BY <2>3, <2>4, Climb
<1>4. PICK f : IsTotals(values, f)
  BY <1>1, <1>3 DEF IsTotals
<1>5. Totals(values) = CHOOSE f_ : IsTotals(values, f_)
  BY DEF Totals, IsTotals
<1> QED
  BY <1>4, <1>5

IsMerged(reports, f) ==
    f = [n \in 0..Len(reports) |-> IF n = 0 THEN [key \in {} |-> {}]
                                   ELSE Merged(f[n - 1], reports[n])]

\* And so are the merged reports.
LEMMA MergedUnfold ==
    ASSUME NEW reports, Len(reports) \in Nat
    PROVE  IsMerged(reports, MergedUpTo(reports))
<1> DEFINE Solves(n, f) ==
              f = [k \in 0..n |-> IF k = 0 THEN [key \in {} |-> {}]
                                  ELSE Merged(f[k - 1], reports[k])]
           solved == {n \in 0..Len(reports) : \E f : Solves(n, f)}
<1>1. PICK N \in Nat : N = Len(reports)
  OBVIOUS
<1>2. ASSUME NEW n \in 0..(N - 1), NEW f, Solves(n, f)
      PROVE  \E next : Solves(n + 1, next)
  <2> DEFINE next == [k \in 0..(n + 1) |->
                        IF k <= n THEN f[k] ELSE Merged(f[n], reports[n + 1])]
  <2>1. n \in Nat
    BY <1>2
  <2>2. \A k \in 0..(n + 1) :
           next[k] = IF k = 0 THEN [key \in {} |-> {}] ELSE Merged(next[k - 1], reports[k])
    <3> SUFFICES ASSUME NEW k \in 0..(n + 1)
                 PROVE  next[k] = IF k = 0 THEN [key \in {} |-> {}]
                                  ELSE Merged(next[k - 1], reports[k])
      OBVIOUS
    <3>1. CASE k <= n
      <4>1. f[k] = IF k = 0 THEN [key \in {} |-> {}] ELSE Merged(f[k - 1], reports[k])
        BY <1>2, <2>1, <3>1
      <4>2. next[k] = f[k]
        BY <3>1
      <4>3. k # 0 => next[k - 1] = f[k - 1]
        BY <2>1, <3>1
      <4> HIDE DEF next
      <4> QED
        BY <4>1, <4>2, <4>3
    <3>2. CASE k = n + 1
      <4>1. next[k] = Merged(f[n], reports[n + 1])
        BY <2>1, <3>2
      <4>2. next[n] = f[n] /\ k - 1 = n /\ k # 0
        BY <2>1, <3>2
      <4> HIDE DEF next
      <4> QED
        BY <3>2, <4>1, <4>2
    <3> QED
      BY <2>1, <3>1, <3>2
  <2>3. next = [k \in 0..(n + 1) |-> next[k]]
    OBVIOUS
  <2> HIDE DEF next
  <2>4. Solves(n + 1, next)
    BY <2>2, <2>3
  <2> QED
    BY <2>4
<1>3. N \in solved
  <2>1. Solves(0, [k \in 0..0 |-> [key \in {} |-> {}]])
    OBVIOUS
  <2>2. \A f : \A n \in 0..(N - 1) : Solves(n, f) => \E next : Solves(n + 1, next)
    BY <1>2
  <2> HIDE DEF Solves
  <2>3. 0 \in solved
    BY <1>1, <2>1
  <2>4. \A n \in 0..(N - 1) : n \in solved => n + 1 \in solved
    BY <1>1, <2>2
  <2> HIDE DEF solved
  <2> QED
    BY <2>3, <2>4, Climb
<1>4. PICK f : IsMerged(reports, f)
  BY <1>1, <1>3 DEF IsMerged
<1>5. MergedUpTo(reports) = CHOOSE f_ : IsMerged(reports, f_)
  BY DEF MergedUpTo, IsMerged
<1> QED
  BY <1>4, <1>5

IsDetected(m, f) ==
    f = [n \in 0..Len(generate_insights(m)) |-> IF n = 0 THEN <<>>
                                                ELSE WithNewKeys(f[n - 1], Suggested(m, generate_insights(m)[n]))]

\* And the detections.
LEMMA DetectedUnfold ==
    ASSUME NEW m, Len(generate_insights(m)) \in Nat
    PROVE  IsDetected(m, DetectedUpTo(m))
<1> DEFINE Solves(n, f) ==
              f = [k \in 0..n |-> IF k = 0 THEN <<>>
                                  ELSE WithNewKeys(f[k - 1], Suggested(m, generate_insights(m)[k]))]
           solved == {n \in 0..Len(generate_insights(m)) : \E f : Solves(n, f)}
<1>1. PICK N \in Nat : N = Len(generate_insights(m))
  OBVIOUS
<1>2. ASSUME NEW n \in 0..(N - 1), NEW f, Solves(n, f)
      PROVE  \E next : Solves(n + 1, next)
  <2> DEFINE next == [k \in 0..(n + 1) |->
                        IF k <= n THEN f[k]
                        ELSE WithNewKeys(f[n], Suggested(m, generate_insights(m)[n + 1]))]
  <2>1. n \in Nat
    BY <1>2
  <2>2. \A k \in 0..(n + 1) :
           next[k] = IF k = 0 THEN <<>>
                     ELSE WithNewKeys(next[k - 1], Suggested(m, generate_insights(m)[k]))
    <3> SUFFICES ASSUME NEW k \in 0..(n + 1)
                 PROVE  next[k] = IF k = 0 THEN <<>>
                                  ELSE WithNewKeys(next[k - 1], Suggested(m, generate_insights(m)[k]))
      OBVIOUS
    <3>1. CASE k <= n
      <4>1. f[k] = IF k = 0 THEN <<>>
                   ELSE WithNewKeys(f[k - 1], Suggested(m, generate_insights(m)[k]))
        BY <1>2, <2>1, <3>1
      <4>2. next[k] = f[k]
        BY <3>1
      <4>3. k # 0 => next[k - 1] = f[k - 1]
        BY <2>1, <3>1
      <4> HIDE DEF next
      <4> QED
        BY <4>1, <4>2, <4>3
    <3>2. CASE k = n + 1
      <4>1. next[k] = WithNewKeys(f[n], Suggested(m, generate_insights(m)[n + 1]))
        BY <2>1, <3>2
      <4>2. next[n] = f[n] /\ k - 1 = n /\ k # 0
        BY <2>1, <3>2
      <4> HIDE DEF next
      <4> QED
        BY <3>2, <4>1, <4>2
    <3> QED
      BY <2>1, <3>1, <3>2
  <2>3. next = [k \in 0..(n + 1) |-> next[k]]
    OBVIOUS
  <2> HIDE DEF next
  <2>4. Solves(n + 1, next)
    BY <2>2, <2>3
  <2> QED
    BY <2>4
<1>3. N \in solved
  <2>1. Solves(0, [k \in 0..0 |-> <<>>])
    OBVIOUS
  <2>2. \A f : \A n \in 0..(N - 1) : Solves(n, f) => \E next : Solves(n + 1, next)
    BY <1>2
  <2> HIDE DEF Solves
  <2>3. 0 \in solved
    BY <1>1, <2>1
  <2>4. \A n \in 0..(N - 1) : n \in solved => n + 1 \in solved
    BY <1>1, <2>2
  <2> HIDE DEF solved
  <2> QED
    BY <2>3, <2>4, Climb
<1>4. PICK f : IsDetected(m, f)
  BY <1>1, <1>3 DEF IsDetected
<1>5. DetectedUpTo(m) = CHOOSE f_ : IsDetected(m, f_)
  BY DEF DetectedUpTo, IsDetected
<1> QED
  BY <1>4, <1>5

-----------------------------------------------------------------------------
(***************************************************************************)
(* Daily findings: the detections.                                         *)
(***************************************************************************)
LEMMA SetAsSequence ==
    ASSUME NEW S, IsFiniteSet(S)
    PROVE  /\ SetToSeq(S) \in Seq(S)
           /\ Len(SetToSeq(S)) = Cardinality(S)
           /\ IsInjective(SetToSeq(S))
           /\ \A x \in S : \E i \in DOMAIN SetToSeq(S) : SetToSeq(S)[i] = x
<1>1. PICK n \in Nat : n = Cardinality(S) /\ ExistsBijection(1..n, S)
  BY FS_CardinalityType
<1>2. \E f \in [1..n -> S] : IsInjective(f)
  BY <1>1 DEF ExistsBijection, Bijection, Injection
<1>3. PICK s : s = SetToSeq(S)
  OBVIOUS
<1>4. s \in [1..n -> S] /\ IsInjective(s)
  BY <1>1, <1>2, <1>3 DEF SetToSeq
<1>5. s \in Injection(1..n, S)
  BY <1>4 DEF Injection
<1>6. IsFiniteSet(1..n) /\ Cardinality(1..n) = n
  BY FS_Interval
<1>7. s \in Surjection(1..n, S)
  BY <1>1, <1>5, <1>6, FS_Injection
<1>8. \A x \in S : \E i \in 1..n : s[i] = x
  BY <1>7 DEF Surjection
<1>9. s \in Seq(S) /\ Len(s) = n /\ DOMAIN s = 1..n
  BY <1>4
<1> QED
  BY <1>1, <1>3, <1>4, <1>8, <1>9

\* The findings of metrics that cite finitely many sources do so too.
CitesFinitely(m) == \A key \in DOMAIN m : IsFiniteSet(m[key].sources)

Titles ==
    {"ventas debajo del promedio", "stock", "conversaciones", "revenue total",
     "canal tiendanube", "roas bajo", "sin ventas"}

SomeInsights(m) ==
    [severity : {"critical", "warning", "info"}, title : Titles,
     sources : {S \in SUBSET Cited(m, DOMAIN m) : IsFiniteSet(S)}]

LEMMA CitedFinite ==
    ASSUME NEW m, CitesFinitely(m), NEW keys, IsFiniteSet(keys)
    PROVE  Cited(m, keys) \in {S \in SUBSET Cited(m, DOMAIN m) : IsFiniteSet(S)}
<1> DEFINE K == keys \cap DOMAIN m
           C == {m[key].sources : key \in K}
<1>1. IsFiniteSet(K)
  BY FS_Subset
<1>2. IsFiniteSet(C)
  <2>1. [key \in K |-> m[key].sources] \in Surjection(K, C)
    BY DEF Surjection
  <2> QED
    BY <1>1, <2>1, FS_Surjection
<1>3. \A S \in C : IsFiniteSet(S)
  BY DEF CitesFinitely
<1>4. IsFiniteSet(UNION C)
  <2> HIDE DEF C
  <2> QED
    BY <1>2, <1>3, FS_UNION
<1>5. Cited(m, keys) = UNION C
  BY DEF Cited
<1>6. Cited(m, keys) \subseteq Cited(m, DOMAIN m)
  BY DEF Cited
<1> QED
  BY <1>4, <1>5, <1>6

LEMMA FiniteKeys ==
    ASSUME NEW a, NEW b, NEW c, NEW d
    PROVE  /\ IsFiniteSet({a})
           /\ IsFiniteSet({a, b})
           /\ IsFiniteSet({a, b, c})
           /\ IsFiniteSet({a, b, c, d})
<1>1. IsFiniteSet({a}) /\ IsFiniteSet({b}) /\ IsFiniteSet({c}) /\ IsFiniteSet({d})
  BY FS_Singleton
<1>2. IsFiniteSet({a} \cup {b})
  BY <1>1, FS_Union
<1>3. IsFiniteSet(({a} \cup {b}) \cup {c})
  BY <1>1, <1>2, FS_Union
<1>4. IsFiniteSet((({a} \cup {b}) \cup {c}) \cup {d})
  BY <1>1, <1>3, FS_Union
<1>5. /\ {a} \cup {b} = {a, b}
      /\ ({a} \cup {b}) \cup {c} = {a, b, c}
      /\ (({a} \cup {b}) \cup {c}) \cup {d} = {a, b, c, d}
  OBVIOUS
<1> QED
  BY <1>1, <1>2, <1>3, <1>4, <1>5

LEMMA InsightsTyped ==
    ASSUME NEW m, CitesFinitely(m)
    PROVE  generate_insights(m) \in Seq(SomeInsights(m))
<1>1. PICK I, C : /\ I = SomeInsights(m)
                  /\ C = {S \in SUBSET Cited(m, DOMAIN m) : IsFiniteSet(S)}
  OBVIOUS
<1>2. \A s, t \in Seq(I) : s \o t \in Seq(I)
  OBVIOUS
<1>3. <<>> \in Seq(I) /\ \A x \in I : <<x>> \in Seq(I)
  OBVIOUS
<1>4. If(SalesDrop(m), Insight("warning", "ventas debajo del promedio",
                          Cited(m, {"revenue_today", "revenue_baseline"}))) \in Seq(I)
  <2>1. IsFiniteSet({"revenue_today", "revenue_baseline"})
    BY FiniteKeys
  <2>2. Cited(m, {"revenue_today", "revenue_baseline"}) \in C
    BY <1>1, <2>1, CitedFinite
  <2>3. Insight("warning", "ventas debajo del promedio",
               Cited(m, {"revenue_today", "revenue_baseline"})) \in I
    BY <1>1, <2>2 DEF Insight, SomeInsights, Titles
  <2> QED
    BY <1>3, <2>3 DEF If
<1>5. If(LowStock(m) /\ ~Advertises(m),
         Insight("critical", "stock", Cited(m, {"stock_units"}))) \in Seq(I)
  <2>1. IsFiniteSet({"stock_units"})
    BY FiniteKeys
  <2>2. Cited(m, {"stock_units"}) \in C
    BY <1>1, <2>1, CitedFinite
  <2>3. Insight("critical", "stock", Cited(m, {"stock_units"})) \in I
    BY <1>1, <2>2 DEF Insight, SomeInsights, Titles
  <2> QED
    BY <1>3, <2>3 DEF If
<1>6. If(Unanswered(m), Insight("warning", "conversaciones",
                           Cited(m, {"unanswered_conversations"}))) \in Seq(I)
  <2>1. IsFiniteSet({"unanswered_conversations"})
    BY FiniteKeys
  <2>2. Cited(m, {"unanswered_conversations"}) \in C
    BY <1>1, <2>1, CitedFinite
  <2>3. Insight("warning", "conversaciones", Cited(m, {"unanswered_conversations"})) \in I
    BY <1>1, <2>2 DEF Insight, SomeInsights, Titles
  <2> QED
    BY <1>3, <2>3 DEF If
<1>7. If(BothChannels(m), Insight("info", "revenue total",
                             Cited(m, {"revenue_today_tn", "revenue_today_ml"}))) \in Seq(I)
  <2>1. IsFiniteSet({"revenue_today_tn", "revenue_today_ml"})
    BY FiniteKeys
  <2>2. Cited(m, {"revenue_today_tn", "revenue_today_ml"}) \in C
    BY <1>1, <2>1, CitedFinite
  <2>3. Insight("info", "revenue total",
               Cited(m, {"revenue_today_tn", "revenue_today_ml"})) \in I
    BY <1>1, <2>2 DEF Insight, SomeInsights, Titles
  <2> QED
    BY <1>3, <2>3 DEF If
<1>8. If(ChannelShift(m), Insight("warning", "canal tiendanube",
                             Cited(m, {"revenue_today_tn", "revenue_today_ml"}))) \in Seq(I)
  <2>1. IsFiniteSet({"revenue_today_tn", "revenue_today_ml"})
    BY FiniteKeys
  <2>2. Cited(m, {"revenue_today_tn", "revenue_today_ml"}) \in C
    BY <1>1, <2>1, CitedFinite
  <2>3. Insight("warning", "canal tiendanube",
               Cited(m, {"revenue_today_tn", "revenue_today_ml"})) \in I
    BY <1>1, <2>2 DEF Insight, SomeInsights, Titles
  <2> QED
    BY <1>3, <2>3 DEF If
<1>9. If(LowRoas(m), Insight("warning", "roas bajo",
                         Cited(m, {"ad_spend_today", "revenue_today_tn",
                                   "revenue_today_ml", "revenue_today"}))) \in Seq(I)
  <2>1. IsFiniteSet({"ad_spend_today", "revenue_today_tn", "revenue_today_ml", "revenue_today"})
    BY FiniteKeys
  <2>2. Cited(m, {"ad_spend_today", "revenue_today_tn", "revenue_today_ml", "revenue_today"})
               \in C
    BY <1>1, <2>1, CitedFinite
  <2>3. Insight("warning", "roas bajo",
               Cited(m, {"ad_spend_today", "revenue_today_tn", "revenue_today_ml",
                      "revenue_today"})) \in I
    BY <1>1, <2>2 DEF Insight, SomeInsights, Titles
  <2> QED
    BY <1>3, <2>3 DEF If
<1>10. If(NoOrders(m), Insight("critical", "sin ventas",
                          Cited(m, {"ad_spend_today", "orders_today_tn",
                                    "orders_today_ml"}))) \in Seq(I)
  <2>1. IsFiniteSet({"ad_spend_today", "orders_today_tn", "orders_today_ml"})
    BY FiniteKeys
  <2>2. Cited(m, {"ad_spend_today", "orders_today_tn", "orders_today_ml"}) \in C
    BY <1>1, <2>1, CitedFinite
  <2>3. Insight("critical", "sin ventas",
               Cited(m, {"ad_spend_today", "orders_today_tn", "orders_today_ml"})) \in I
    BY <1>1, <2>2 DEF Insight, SomeInsights, Titles
  <2> QED
    BY <1>3, <2>3 DEF If
<1>11. If(LowStock(m) /\ Advertises(m),
          Insight("critical", "stock", Cited(m, {"stock_units", "ad_spend_today"}))) \in Seq(I)
  <2>1. IsFiniteSet({"stock_units", "ad_spend_today"})
    BY FiniteKeys
  <2>2. Cited(m, {"stock_units", "ad_spend_today"}) \in C
    BY <1>1, <2>1, CitedFinite
  <2>3. Insight("critical", "stock", Cited(m, {"stock_units", "ad_spend_today"})) \in I
    BY <1>1, <2>2 DEF Insight, SomeInsights, Titles
  <2> QED
    BY <1>3, <2>3 DEF If
<1> QED
  BY <1>1, <1>2, <1>4, <1>5, <1>6, <1>7, <1>8, <1>9, <1>10, <1>11 DEF generate_insights

\* No two detections of a sequence, and of a set, have one key.
KeysDiffer(s) == \A i, j \in DOMAIN s : s[i].key = s[j].key => i = j

\* The detections not made yet are added, each once.
LEMMA NewKeysAdded ==
    ASSUME NEW D, NEW s \in Seq(D), KeysDiffer(s), NEW T \in SUBSET D, IsFiniteSet(T),
           \A d, e \in T : d.key = e.key => d = e
    PROVE  /\ WithNewKeys(s, T) \in Seq(D)
           /\ KeysDiffer(WithNewKeys(s, T))
           /\ \A i \in DOMAIN WithNewKeys(s, T) :
                 \/ \E j \in DOMAIN s : WithNewKeys(s, T)[i] = s[j]
                 \/ WithNewKeys(s, T)[i] \in T
           /\ \A j \in DOMAIN s : \E i \in DOMAIN WithNewKeys(s, T) :
                 WithNewKeys(s, T)[i] = s[j]
           /\ \A d \in T : \E i \in DOMAIN WithNewKeys(s, T) :
                 WithNewKeys(s, T)[i].key = d.key
<1>1. PICK U : U = {d \in T : \A i \in DOMAIN s : s[i].key # d.key}
  OBVIOUS
<1>2. U \in SUBSET T
  BY <1>1
<1>3. IsFiniteSet(U)
  BY <1>2, FS_Subset
<1>4. PICK new : new = SetToSeq(U)
  OBVIOUS
<1>5. /\ new \in Seq(U)
      /\ IsInjective(new)
      /\ \A d \in U : \E i \in DOMAIN new : new[i] = d
  BY <1>3, <1>4, SetAsSequence
<1>6. PICK r : r = s \o new
  OBVIOUS
<1>7. WithNewKeys(s, T) = r
  BY <1>1, <1>4, <1>6 DEF WithNewKeys
<1>8. PICK a, b \in Nat : a = Len(s) /\ b = Len(new)
  BY <1>5
<1>9. /\ new \in Seq(D)
      /\ DOMAIN s = 1..a
      /\ DOMAIN new = 1..b
  BY <1>2, <1>5, <1>8
<1>10. /\ r \in Seq(D)
       /\ DOMAIN r = 1..(a + b)
       /\ \A i \in 1..a : r[i] = s[i]
       /\ \A i \in 1..b : r[a + i] = new[i]
  BY <1>6, <1>8, <1>9
<1>11. \A i \in 1..(a + b) : i \in 1..a \/ (i - a \in 1..b /\ r[i] = new[i - a])
  <2> SUFFICES ASSUME NEW i \in 1..(a + b), i \notin 1..a
               PROVE  i - a \in 1..b /\ r[i] = new[i - a]
    OBVIOUS
  <2>1. PICK k \in Nat : k = i - a
    BY <1>8
  <2>2. k \in 1..b /\ i = a + k
    BY <1>8, <2>1
  <2> QED
    BY <1>10, <2>1, <2>2
<1>12. \A i \in 1..b : new[i] \in U
  BY <1>5, <1>9
<1>13. \A i \in 1..(a + b) : (\E j \in 1..a : r[i] = s[j]) \/ r[i] \in T
  BY <1>2, <1>10, <1>11, <1>12
<1>14. \A j \in 1..a : \E i \in 1..(a + b) : r[i] = s[j]
  BY <1>8, <1>10
<1>15. \A d \in T : \E i \in 1..(a + b) : r[i].key = d.key
  <2> SUFFICES ASSUME NEW d \in T PROVE \E i \in 1..(a + b) : r[i].key = d.key
    OBVIOUS
  <2>1. CASE d \in U
    <3>1. PICK i \in 1..b : new[i] = d
      BY <1>5, <1>9, <2>1
    <3>2. a + i \in 1..(a + b) /\ r[a + i] = d
      BY <1>8, <1>10, <3>1
    <3> QED
      BY <3>2
  <2>2. CASE d \notin U
    <3>1. PICK j \in 1..a : s[j].key = d.key
      BY <1>1, <1>9, <2>2
    <3> QED
      BY <1>14, <3>1
  <2> QED
    BY <2>1, <2>2
<1>16. KeysDiffer(r)
  <2> SUFFICES ASSUME NEW i \in 1..(a + b), NEW j \in 1..(a + b), r[i].key = r[j].key
               PROVE  i = j
    BY <1>10 DEF KeysDiffer
  <2>1. \A k \in 1..a, l \in 1..b : s[k].key # new[l].key
    BY <1>1, <1>9, <1>12
  <2>2. CASE i \in 1..a /\ j \in 1..a
    BY <1>9, <1>10, <2>2 DEF KeysDiffer
  <2>3. CASE i \notin 1..a /\ j \notin 1..a
    <3>1. PICK k, l \in 1..b : k = i - a /\ l = j - a /\ r[i] = new[k] /\ r[j] = new[l]
      BY <1>11, <2>3
    <3>2. new[k] = new[l]
      BY <1>2, <1>12, <3>1
    <3>3. k = l
      BY <1>5, <1>9, <3>2 DEF IsInjective
    <3> QED
      BY <1>8, <3>1, <3>3
  <2>4. CASE i \in 1..a /\ j \notin 1..a
    <3>1. PICK l \in 1..b : r[j] = new[l]
      BY <1>11, <2>4
    <3> QED
      BY <1>10, <2>1, <2>4, <3>1
  <2>5. CASE i \notin 1..a /\ j \in 1..a
    <3>1. PICK l \in 1..b : r[i] = new[l]
      BY <1>11, <2>5
    <3> QED
      BY <1>10, <2>1, <2>5, <3>1
  <2> QED
    BY <2>2, <2>3, <2>4, <2>5
<1> QED
  BY <1>7, <1>8, <1>9, <1>10, <1>13, <1>14, <1>15, <1>16

\* What an insight asks for are finitely many detections, of a key each.
LEMMA SuggestionsDiffer ==
    ASSUME NEW m, NEW insight, IsFiniteSet(insight.sources)
    PROVE  /\ IsFiniteSet(Suggested(m, insight))
           /\ \A d, e \in Suggested(m, insight) : d.key = e.key => d = e
<1>1. PICK stale : stale = _stale_sources_for_insight(m, insight)
  OBVIOUS
<1>2. IsFiniteSet(stale)
  <2>1. stale \in SUBSET insight.sources
    BY <1>1 DEF _stale_sources_for_insight
  <2> QED
    BY <2>1, FS_Subset
<1>3. CASE ~Detectable(insight)
  BY <1>3, FS_EmptySet DEF Suggested
<1>4. CASE Detectable(insight) /\ stale = {}
  <2>1. Suggested(m, insight) = {Detection(insight)}
    BY <1>1, <1>4 DEF Suggested
  <2> QED
    BY <2>1, FS_Singleton
<1>5. CASE Detectable(insight) /\ stale # {}
  <2>1. PICK T : T = {make_data_stale_detection(s) : s \in stale}
    OBVIOUS
  <2>2. Suggested(m, insight) = T
    BY <1>1, <1>5, <2>1 DEF Suggested
  <2>3. IsFiniteSet(T)
    <3>1. [s \in stale |-> make_data_stale_detection(s)] \in Surjection(stale, T)
      BY <2>1 DEF Surjection
    <3> QED
      BY <1>2, <3>1, FS_Surjection
  <2>4. \A d, e \in T : d.key = e.key => d = e
    BY <2>1 DEF make_data_stale_detection
  <2> QED
    BY <2>2, <2>3, <2>4
<1> QED
  BY <1>3, <1>4, <1>5

AllSuggested(m) ==
    UNION {Suggested(m, generate_insights(m)[i]) : i \in DOMAIN generate_insights(m)}

\* What is kept of the suggestions of the first n insights.
Keeps(m, s, n) ==
    /\ s \in Seq(AllSuggested(m))
    /\ KeysDiffer(s)
    /\ \A i \in DOMAIN s : \E j \in 1..n : s[i] \in Suggested(m, generate_insights(m)[j])
    /\ \A j \in 1..n : \A d \in Suggested(m, generate_insights(m)[j]) :
          \E i \in DOMAIN s : s[i].key = d.key

LEMMA KeepsNext ==
    ASSUME NEW m, CitesFinitely(m), NEW n \in Nat, n + 1 \in DOMAIN generate_insights(m),
           NEW s, Keeps(m, s, n)
    PROVE  Keeps(m, WithNewKeys(s, Suggested(m, generate_insights(m)[n + 1])), n + 1)
<1>1. PICK D, T, insights : /\ D = AllSuggested(m)
                            /\ insights = generate_insights(m)
                            /\ T = Suggested(m, insights[n + 1])
  OBVIOUS
<1>2. IsFiniteSet(insights[n + 1].sources)
  <2>1. insights \in Seq(SomeInsights(m))
    BY <1>1, InsightsTyped
  <2>2. insights[n + 1] \in SomeInsights(m)
    BY <1>1, <2>1
  <2> QED
    BY <2>2 DEF SomeInsights
<1>3. IsFiniteSet(T) /\ \A d, e \in T : d.key = e.key => d = e
  BY <1>1, <1>2, SuggestionsDiffer
<1>4. T \in SUBSET D
  BY <1>1 DEF AllSuggested
<1>5. s \in Seq(D) /\ KeysDiffer(s)
  BY <1>1 DEF Keeps
<1>6. PICK r : r = WithNewKeys(s, T)
  OBVIOUS
<1>7. /\ r \in Seq(D)
      /\ KeysDiffer(r)
      /\ \A i \in DOMAIN r : (\E j \in DOMAIN s : r[i] = s[j]) \/ r[i] \in T
      /\ \A j \in DOMAIN s : \E i \in DOMAIN r : r[i] = s[j]
      /\ \A d \in T : \E i \in DOMAIN r : r[i].key = d.key
  BY <1>3, <1>4, <1>5, <1>6, NewKeysAdded
<1>8. \A j \in 1..(n + 1) : j \in 1..n \/ j = n + 1
  OBVIOUS
<1>9. n + 1 \in 1..(n + 1) /\ \A j \in 1..n : j \in 1..(n + 1)
  OBVIOUS
<1>10. \A i \in DOMAIN r : \E j \in 1..(n + 1) : r[i] \in Suggested(m, insights[j])
  <2>1. \A i \in DOMAIN s : \E j \in 1..n : s[i] \in Suggested(m, insights[j])
    BY <1>1 DEF Keeps
  <2> QED
    BY <1>1, <1>7, <1>9, <2>1
<1>11. \A j \in 1..(n + 1) : \A d \in Suggested(m, insights[j]) :
          \E i \in DOMAIN r : r[i].key = d.key
  <2>1. \A j \in 1..n : \A d \in Suggested(m, insights[j]) :
           \E i \in DOMAIN s : s[i].key = d.key
    BY <1>1 DEF Keeps
  <2> SUFFICES ASSUME NEW j \in 1..(n + 1), NEW d \in Suggested(m, insights[j])
               PROVE  \E i \in DOMAIN r : r[i].key = d.key
    OBVIOUS
  <2>2. CASE j = n + 1
    BY <1>1, <1>7, <2>2
  <2>3. CASE j \in 1..n
    <3>1. PICK k \in DOMAIN s : s[k].key = d.key
      BY <2>1, <2>3
    <3> QED
      BY <1>7, <3>1
  <2> QED
    BY <1>8, <2>2, <2>3
<1>12. Keeps(m, r, n + 1)
  BY <1>1, <1>7, <1>10, <1>11 DEF Keeps
<1> QED
  BY <1>1, <1>6, <1>12

LEMMA DetectionsKept ==
    ASSUME NEW m, CitesFinitely(m)
    PROVE  Keeps(m, detect_cases_from_report(m), Len(generate_insights(m)))
<1>1. PICK insights, kept : insights = generate_insights(m) /\ kept = DetectedUpTo(m)
  OBVIOUS
<1>2. PICK N \in Nat : N = Len(insights) /\ DOMAIN insights = 1..N
  BY <1>1, InsightsTyped
<1>3. kept = [n \in 0..N |-> IF n = 0 THEN <<>>
                             ELSE WithNewKeys(kept[n - 1], Suggested(m, insights[n]))]
  BY <1>1, <1>2, DetectedUnfold DEF IsDetected
<1>4. PICK A : A = {n \in 0..N : Keeps(m, kept[n], n)}
  OBVIOUS
<1>5. 0 \in A
  <2>1. kept[0] = <<>>
    BY <1>3
  <2>2. Keeps(m, <<>>, 0)
    BY DEF Keeps, KeysDiffer
  <2> QED
    BY <1>4, <2>1, <2>2
<1>6. ASSUME NEW n \in 0..(N - 1), n \in A PROVE n + 1 \in A
  <2>1. n \in Nat /\ n + 1 \in 0..N /\ n + 1 \in DOMAIN insights /\ Keeps(m, kept[n], n)
    BY <1>2, <1>4, <1>6
  <2>2. kept[n + 1] = WithNewKeys(kept[n], Suggested(m, insights[n + 1]))
    <3>1. n + 1 # 0 /\ (n + 1) - 1 = n
      BY <2>1
    <3> QED
      BY <1>3, <2>1, <3>1
  <2>3. Keeps(m, kept[n + 1], n + 1)
    BY <1>1, <2>1, <2>2, KeepsNext
  <2> QED
    BY <1>4, <2>1, <2>3
<1>7. N \in A
  BY <1>5, <1>6, Climb
<1> QED
  BY <1>1, <1>2, <1>4, <1>7 DEF detect_cases_from_report

-----------------------------------------------------------------------------
(***************************************************************************)
(* Daily findings: the merged report.                                      *)
(***************************************************************************)
LEMMA TotalsStep ==
    ASSUME NEW N \in Nat, NEW f \in [1..N -> Int]
    PROVE  /\ Totals(f)[0] = 0
           /\ \A n \in 0..(N - 1) : Totals(f)[n + 1] = Totals(f)[n] + f[n + 1]
           /\ \A n \in 0..N : Totals(f)[n] \in Int
           /\ Total(f) = Totals(f)[N]
<1>1. Len(f) = N /\ f \in Seq(Int)
  OBVIOUS
<1>2. PICK total : total = Totals(f)
  OBVIOUS
<1>3. total = [n \in 0..N |-> IF n = 0 THEN 0 ELSE total[n - 1] + f[n]]
  BY <1>1, <1>2, TotalsUnfold DEF IsTotals
<1>4. total[0] = 0
  BY <1>3
<1>5. \A n \in 0..(N - 1) : total[n + 1] = total[n] + f[n + 1]
  <2> SUFFICES ASSUME NEW n \in 0..(N - 1) PROVE total[n + 1] = total[n] + f[n + 1]
    OBVIOUS
  <2>1. n + 1 \in 0..N /\ n + 1 # 0 /\ (n + 1) - 1 = n
    OBVIOUS
  <2> QED
    BY <1>3, <2>1
<1>6. ASSUME NEW k \in 0..N PROVE total[k] \in Int
  <2>1. PICK A : A = {n \in 0..k : total[n] \in Int}
    OBVIOUS
  <2>2. 0 \in A
    BY <1>4, <2>1
  <2>3. \A n \in 0..(k - 1) : n \in A => n + 1 \in A
    <3> SUFFICES ASSUME NEW n \in 0..(k - 1), n \in A PROVE n + 1 \in A
      OBVIOUS
    <3>1. total[n] \in Int /\ f[n + 1] \in Int /\ n \in 0..(N - 1)
      BY <2>1
    <3>2. total[n + 1] \in Int
      BY <1>5, <3>1
    <3> QED
      BY <2>1, <3>2
  <2>4. k \in A
    BY <2>2, <2>3, Climb
  <2> QED
    BY <2>1, <2>4
<1> QED
  BY <1>1, <1>2, <1>4, <1>5, <1>6 DEF Total

LEMMA TotalsAgree ==
    ASSUME NEW N \in Nat, NEW f \in [1..N -> Int], NEW g \in [1..N -> Int],
           NEW k \in 0..N, \A i \in 1..k : f[i] = g[i]
    PROVE  Totals(f)[k] = Totals(g)[k]
<1>1. PICK F, G : F = Totals(f) /\ G = Totals(g)
  OBVIOUS
<1>2. PICK A : A = {n \in 0..k : F[n] = G[n]}
  OBVIOUS
<1>3. 0 \in A
  BY <1>1, <1>2, TotalsStep
<1>4. \A n \in 0..(N - 1) : F[n + 1] = F[n] + f[n + 1] /\ G[n + 1] = G[n] + g[n + 1]
  BY <1>1, TotalsStep
<1>5. ASSUME NEW n \in 0..(k - 1), n \in A PROVE n + 1 \in A
  <2>1. n \in 0..(N - 1) /\ n + 1 \in 0..k /\ n + 1 \in 1..k /\ F[n] = G[n]
    BY <1>2, <1>5
  <2> QED
    BY <1>2, <1>4, <2>1
<1>6. k \in A
  BY <1>3, <1>5, Climb
<1> QED
  BY <1>1, <1>2, <1>6

LEMMA TotalsOfNothing ==
    ASSUME NEW N \in Nat, NEW f \in [1..N -> Int],
           NEW k \in 0..N, \A i \in 1..k : f[i] = 0
    PROVE  Totals(f)[k] = 0
<1>1. PICK F : F = Totals(f)
  OBVIOUS
<1>2. PICK A : A = {n \in 0..k : F[n] = 0}
  OBVIOUS
<1>3. 0 \in A
  BY <1>1, <1>2, TotalsStep
<1>4. \A n \in 0..(N - 1) : F[n + 1] = F[n] + f[n + 1]
  BY <1>1, TotalsStep
<1>5. ASSUME NEW n \in 0..(k - 1), n \in A PROVE n + 1 \in A
  <2>1. n \in 0..(N - 1) /\ n + 1 \in 0..k /\ n + 1 \in 1..k /\ F[n] = 0
    BY <1>2, <1>5
  <2> QED
    BY <1>2, <1>4, <2>1
<1>6. k \in A
  BY <1>3, <1>5, Climb
<1> QED
  BY <1>1, <1>2, <1>6

\* The first of the reports that have the metric.
ReportersUpTo(reports, key, n) == {i \in 1..n : key \in DOMAIN reports[i]}

\* What the reports of a set say of the metric, and 0 for the others.
Said(reports, key, B) ==
    [i \in DOMAIN reports |-> IF i \in B THEN reports[i][key].value ELSE 0]

\* A merged metric accounts for a set of the reports that were merged: it cites their
\* sources, is of their kind and unit, and sums what they say.
AccountsFor(reports, key, n, metric, B) ==
    /\ B \subseteq ReportersUpTo(reports, key, n)
    /\ B # {}
    /\ metric.sources = UNION {reports[i][key].sources : i \in B}
    /\ \A i \in B : metric.kind = reports[i][key].kind /\ metric.unit = reports[i][key].unit
    /\ metric.value = Totals(Said(reports, key, B))[n]
    /\ \/ B = ReportersUpTo(reports, key, n)
       \/ \E i, j \in ReportersUpTo(reports, key, n) :
             ~Additive(reports[i][key], reports[j][key])

Accounted(reports, n, report) ==
    /\ \A key \in DOMAIN report :
          /\ IsMetric(report[key])
          /\ \E B : AccountsFor(reports, key, n, report[key], B)
    /\ \A key : ReportersUpTo(reports, key, n) # {} => key \in DOMAIN report

\* Reports that the connectors may have built.
AreReports(reports) == \A i \in DOMAIN reports : IsReport(reports[i])

LEMMA SaidTyped ==
    ASSUME NEW reports, NEW N \in Nat, DOMAIN reports = 1..N, AreReports(reports),
           NEW key, NEW n \in 0..N, NEW B \in SUBSET ReportersUpTo(reports, key, n)
    PROVE  Said(reports, key, B) \in [1..N -> Int]
<1>1. \A i \in B : i \in 1..N /\ reports[i][key].value \in Int
  BY DEF ReportersUpTo, AreReports, IsReport, IsMetric
<1> QED
  BY <1>1 DEF Said

\* A report that does not have the metric leaves the account as it is.
LEMMA AccountStays ==
    ASSUME NEW reports, NEW N \in Nat, DOMAIN reports = 1..N, AreReports(reports),
           NEW key, NEW n \in 0..(N - 1), key \notin DOMAIN reports[n + 1],
           NEW metric, NEW B, AccountsFor(reports, key, n, metric, B)
    PROVE  AccountsFor(reports, key, n + 1, metric, B)
<1>1. ReportersUpTo(reports, key, n + 1) = ReportersUpTo(reports, key, n)
  <2>1. \A i \in 1..(n + 1) : i \in 1..n \/ i = n + 1
    OBVIOUS
  <2> QED
    BY <2>1 DEF ReportersUpTo
<1>2. PICK f : f = Said(reports, key, B)
  OBVIOUS
<1>3. f \in [1..N -> Int]
  BY <1>2, SaidTyped DEF AccountsFor
<1>4. n + 1 \in 1..N /\ n + 1 \notin B
  BY DEF AccountsFor, ReportersUpTo
<1>5. f[n + 1] = 0
  BY <1>2, <1>4 DEF Said
<1>6. Totals(f)[n + 1] = Totals(f)[n]
  <2>1. n \in 0..N
    OBVIOUS
  <2>2. Totals(f)[n + 1] = Totals(f)[n] + f[n + 1] /\ Totals(f)[n] \in Int
    BY <1>3, <2>1, TotalsStep
  <2> QED
    BY <1>5, <2>2
<1> QED
  BY <1>1, <1>2, <1>6 DEF AccountsFor

\* A metric that is taken as it is accounts for its report alone.
LEMMA AccountOfOne ==
    ASSUME NEW reports, NEW N \in Nat, DOMAIN reports = 1..N, AreReports(reports),
           NEW key, NEW n \in 0..(N - 1), key \in DOMAIN reports[n + 1],
           \/ ReportersUpTo(reports, key, n) = {}
           \/ \E i \in ReportersUpTo(reports, key, n) :
                 ~Additive(reports[i][key], reports[n + 1][key])
    PROVE  AccountsFor(reports, key, n + 1, reports[n + 1][key], {n + 1})
<1>1. PICK R, S, f, B : /\ R = ReportersUpTo(reports, key, n)
                        /\ S = ReportersUpTo(reports, key, n + 1)
                        /\ B = {n + 1}
                        /\ f = Said(reports, key, B)
  OBVIOUS
<1>2. S = R \cup {n + 1}
  <2>1. \A i : i \in 1..(n + 1) <=> i \in 1..n \/ i = n + 1
    OBVIOUS
  <2> QED
    BY <1>1, <2>1 DEF ReportersUpTo
<1>3. n + 1 \in 0..N /\ n + 1 \in 1..N
  OBVIOUS
<1>4. f \in [1..N -> Int]
  BY <1>1, <1>2, <1>3, SaidTyped
<1>5. \A i \in 1..n : f[i] = 0
  BY <1>1 DEF Said
<1>6. f[n + 1] = reports[n + 1][key].value
  BY <1>1, <1>3 DEF Said
<1>7. Totals(f)[n + 1] = reports[n + 1][key].value
  <2>1. Totals(f)[n] = 0
    BY <1>4, <1>5, TotalsOfNothing
  <2>2. Totals(f)[n + 1] = Totals(f)[n] + f[n + 1] /\ f[n + 1] \in Int
    BY <1>3, <1>4, TotalsStep
  <2> QED
    BY <1>6, <2>1, <2>2
<1>8. reports[n + 1][key].sources = UNION {reports[i][key].sources : i \in B}
  BY <1>1
<1>9. B = S \/ \E i, j \in S : ~Additive(reports[i][key], reports[j][key])
  BY <1>1, <1>2
<1>10. B \subseteq S /\ B # {} /\ \A i \in B : i = n + 1
  BY <1>1, <1>2
<1> QED
  BY <1>1, <1>7, <1>8, <1>9, <1>10 DEF AccountsFor

\* Numbers of one unit: the sum accounts for one report more.
LEMMA AccountGrows ==
    ASSUME NEW reports, NEW N \in Nat, DOMAIN reports = 1..N, AreReports(reports),
           NEW key, NEW n \in 0..(N - 1), key \in DOMAIN reports[n + 1],
           NEW metric, IsMetric(metric), NEW B, AccountsFor(reports, key, n, metric, B),
           Additive(metric, reports[n + 1][key])
    PROVE  AccountsFor(reports, key, n + 1,
                       merge_duplicate_metric(metric, reports[n + 1][key]), B \cup {n + 1})
<1>1. PICK R, S, f, g, C, incoming, merged :
         /\ R = ReportersUpTo(reports, key, n)
         /\ S = ReportersUpTo(reports, key, n + 1)
         /\ C = B \cup {n + 1}
         /\ f = Said(reports, key, B)
         /\ g = Said(reports, key, C)
         /\ incoming = reports[n + 1][key]
         /\ merged = merge_duplicate_metric(metric, incoming)
  OBVIOUS
<1>2. S = R \cup {n + 1}
  <2>1. \A i : i \in 1..(n + 1) <=> i \in 1..n \/ i = n + 1
    OBVIOUS
  <2> QED
    BY <1>1, <2>1 DEF ReportersUpTo
<1>3. n + 1 \in 0..N /\ n + 1 \in 1..N
  OBVIOUS
<1>4. /\ B \subseteq R
      /\ metric.sources = UNION {reports[i][key].sources : i \in B}
      /\ \A i \in B : metric.kind = reports[i][key].kind /\ metric.unit = reports[i][key].unit
      /\ metric.value = Totals(f)[n]
      /\ B = R \/ \E i, j \in R : ~Additive(reports[i][key], reports[j][key])
  BY <1>1 DEF AccountsFor
<1>5. f \in [1..N -> Int] /\ g \in [1..N -> Int]
  BY <1>1, <1>2, <1>3, <1>4, SaidTyped
<1>6. /\ merged.value = metric.value + incoming.value
      /\ merged.sources = metric.sources \cup incoming.sources
      /\ merged.kind = metric.kind
      /\ merged.unit = metric.unit
  BY <1>1 DEF merge_duplicate_metric, IsMetric
<1>7. merged.value = Totals(g)[n + 1]
  <2>1. \A i \in 1..n : f[i] = g[i]
    BY <1>1 DEF Said
  <2>2. Totals(f)[n] = Totals(g)[n]
    <3>1. n \in 0..N
      OBVIOUS
    <3> QED
      BY <1>5, <2>1, <3>1, TotalsAgree
  <2>3. Totals(g)[n + 1] = Totals(g)[n] + g[n + 1]
    BY <1>5, TotalsStep
  <2>4. g[n + 1] = incoming.value
    BY <1>1, <1>3 DEF Said
  <2> QED
    BY <1>4, <1>6, <2>2, <2>3, <2>4
<1>8. merged.sources = UNION {reports[i][key].sources : i \in C}
  BY <1>1, <1>4, <1>6
<1>9. \A i \in C : merged.kind = reports[i][key].kind /\ merged.unit = reports[i][key].unit
  <2>1. incoming.kind = metric.kind /\ incoming.unit = metric.unit
    BY <1>1 DEF Additive
  <2> QED
    BY <1>1, <1>4, <1>6, <2>1
<1>10. C = S \/ \E i, j \in S : ~Additive(reports[i][key], reports[j][key])
  BY <1>1, <1>2, <1>4
<1>11. C \subseteq S /\ C # {}
  BY <1>1, <1>2, <1>4
<1> QED
  BY <1>1, <1>7, <1>8, <1>9, <1>10, <1>11 DEF AccountsFor

LEMMA AccountedNext ==
    ASSUME NEW reports, NEW N \in Nat, DOMAIN reports = 1..N, AreReports(reports),
           NEW n \in 0..(N - 1), NEW report, Accounted(reports, n, report)
    PROVE  Accounted(reports, n + 1, Merged(report, reports[n + 1]))
<1>1. PICK incoming, merged : incoming = reports[n + 1] /\ merged = Merged(report, incoming)
  OBVIOUS
<1>2. n + 1 \in 1..N
  OBVIOUS
<1>3. \A key \in DOMAIN incoming : IsMetric(incoming[key])
  BY <1>1, <1>2 DEF AreReports, IsReport
<1>4. /\ DOMAIN merged = DOMAIN report \cup DOMAIN incoming
      /\ \A key \in DOMAIN merged : merged[key] =
            IF key \notin DOMAIN incoming THEN report[key]
            ELSE IF key \notin DOMAIN report THEN incoming[key]
            ELSE merge_duplicate_metric(report[key], incoming[key])
  BY <1>1 DEF Merged
<1>5. ASSUME NEW key \in DOMAIN merged
      PROVE  IsMetric(merged[key]) /\ \E B : AccountsFor(reports, key, n + 1, merged[key], B)
  <2>1. CASE key \notin DOMAIN incoming
    <3>1. merged[key] = report[key] /\ key \in DOMAIN report
      BY <1>4, <2>1
    <3>2. IsMetric(report[key])
      BY <3>1 DEF Accounted
    <3>3. PICK B : AccountsFor(reports, key, n, report[key], B)
      BY <3>1 DEF Accounted
    <3>4. AccountsFor(reports, key, n + 1, report[key], B)
      BY <1>1, <2>1, <3>3, AccountStays
    <3> QED
      BY <3>1, <3>2, <3>4
  <2>2. CASE key \in DOMAIN incoming /\ key \notin DOMAIN report
    <3>1. merged[key] = incoming[key]
      BY <1>4, <2>2
    <3>2. ReportersUpTo(reports, key, n) = {}
      BY <2>2 DEF Accounted
    <3>3. AccountsFor(reports, key, n + 1, reports[n + 1][key], {n + 1})
      BY <1>1, <2>2, <3>2, AccountOfOne
    <3> QED
      BY <1>1, <1>3, <2>2, <3>1, <3>3
  <2>3. CASE key \in DOMAIN incoming /\ key \in DOMAIN report
    <3>1. PICK metric : metric = report[key]
      OBVIOUS
    <3>2. IsMetric(metric)
      BY <2>3, <3>1 DEF Accounted
    <3>3. PICK B : AccountsFor(reports, key, n, metric, B)
      BY <2>3, <3>1 DEF Accounted
    <3>4. merged[key] = merge_duplicate_metric(metric, incoming[key])
      BY <1>4, <2>3, <3>1
    <3>5. CASE Additive(metric, incoming[key])
      <4>1. AccountsFor(reports, key, n + 1, merged[key], B \cup {n + 1})
        <5>1. /\ key \in DOMAIN reports[n + 1]
              /\ Additive(metric, reports[n + 1][key])
              /\ merged[key] = merge_duplicate_metric(metric, reports[n + 1][key])
          BY <1>1, <2>3, <3>4, <3>5
        <5>2. AccountsFor(reports, key, n + 1,
                          merge_duplicate_metric(metric, reports[n + 1][key]), B \cup {n + 1})
          BY <3>2, <3>3, <5>1, AccountGrows
        <5> QED
          BY <5>1, <5>2
      <4>2. IsMetric(merged[key])
        <5>1. IsMetric(incoming[key])
          BY <1>3, <2>3
        <5>2. IsFiniteSet(metric.sources \cup incoming[key].sources)
          BY <3>2, <5>1, FS_Union DEF IsMetric
        <5> QED
          BY <3>2, <3>4, <3>5, <5>1, <5>2 DEF merge_duplicate_metric, IsMetric
      <4> QED
        BY <4>1, <4>2
    <3>6. CASE ~Additive(metric, incoming[key])
      <4>1. merged[key] = incoming[key]
        BY <3>4, <3>6 DEF merge_duplicate_metric
      <4>2. PICK i \in B : /\ i \in ReportersUpTo(reports, key, n)
                           /\ metric.kind = reports[i][key].kind
                           /\ metric.unit = reports[i][key].unit
        BY <3>3 DEF AccountsFor
      <4>3. ~Additive(reports[i][key], incoming[key])
        BY <3>6, <4>2 DEF Additive
      <4>4. AccountsFor(reports, key, n + 1, reports[n + 1][key], {n + 1})
        BY <1>1, <2>3, <4>2, <4>3, AccountOfOne
      <4> QED
        BY <1>1, <1>3, <2>3, <4>1, <4>4
    <3> QED
      BY <3>5, <3>6
  <2> QED
    BY <2>1, <2>2, <2>3
<1>6. ASSUME NEW key, ReportersUpTo(reports, key, n + 1) # {} PROVE key \in DOMAIN merged
  <2>1. PICK i \in 1..(n + 1) : key \in DOMAIN reports[i]
    BY <1>6 DEF ReportersUpTo
  <2>2. CASE i = n + 1
    BY <1>1, <1>4, <2>1, <2>2
  <2>3. CASE i \in 1..n
    <3>1. ReportersUpTo(reports, key, n) # {}
      BY <2>1, <2>3 DEF ReportersUpTo
    <3> QED
      BY <1>4, <3>1 DEF Accounted
  <2> QED
    BY <2>1, <2>2, <2>3
<1>7. Accounted(reports, n + 1, merged)
  BY <1>5, <1>6 DEF Accounted
<1> QED
  BY <1>1, <1>7

LEMMA MergedIsAccounted ==
    ASSUME NEW reports, NEW N \in Nat, N = Len(reports), DOMAIN reports = 1..N,
           AreReports(reports)
    PROVE  Accounted(reports, N, merge_daily_reports(reports))
<1>1. PICK merged : merged = MergedUpTo(reports)
  OBVIOUS
<1>2. merged = [n \in 0..N |-> IF n = 0 THEN [key \in {} |-> {}]
                               ELSE Merged(merged[n - 1], reports[n])]
  BY <1>1, MergedUnfold DEF IsMerged
<1>3. PICK A : A = {n \in 0..N : Accounted(reports, n, merged[n])}
  OBVIOUS
<1>4. 0 \in A
  <2>1. merged[0] = [key \in {} |-> {}]
    BY <1>2
  <2>2. Accounted(reports, 0, merged[0])
    BY <2>1 DEF Accounted, ReportersUpTo
  <2> QED
    BY <1>3, <2>2
<1>5. ASSUME NEW n \in 0..(N - 1), n \in A PROVE n + 1 \in A
  <2>1. n + 1 \in 0..N /\ n + 1 # 0 /\ (n + 1) - 1 = n /\ Accounted(reports, n, merged[n])
    BY <1>3, <1>5
  <2>2. merged[n + 1] = Merged(merged[n], reports[n + 1])
    BY <1>2, <2>1
  <2>3. Accounted(reports, n + 1, merged[n + 1])
    BY <2>1, <2>2, AccountedNext
  <2> QED
    BY <1>3, <2>1, <2>3
<1>6. N \in A
  BY <1>4, <1>5, Climb
<1> QED
  BY <1>1, <1>3, <1>6 DEF merge_daily_reports

LEMMA MergedCitesFinitely ==
    ASSUME NEW reports, Len(reports) \in Nat, DOMAIN reports = 1..Len(reports),
           AreReports(reports)
    PROVE  CitesFinitely(merge_daily_reports(reports))
BY MergedIsAccounted DEF Accounted, IsMetric, CitesFinitely

-----------------------------------------------------------------------------
(***************************************************************************)
(* Daily findings: the inductive invariant.                                *)
(***************************************************************************)
SomeReports == UNION {Yields[type] : type \in DOMAIN Yields}

\* What the daily report and the detections are, at each stage.
FindingsInv ==
    /\ plan \in Plans
    /\ given \in Seq(SomeReports)
    /\ Len(given) <= Len(plan)
    /\ stage \in {"building", "merged", "detected", "failed"}
    /\ stage = "building" => metrics = [key \in {} |-> {}] /\ found = <<>>
    /\ stage \in {"merged", "detected"} => metrics = merge_daily_reports(given)
    /\ stage = "merged" => found = <<>>
    /\ stage = "detected" => found = detect_cases_from_report(metrics)
    /\ stage = "failed" => found = [i \in DOMAIN plan |-> make_data_stale_detection(plan[i])]

LEMMA FindingsInvHolds == FindingsInit => FindingsInv
<1> SUFFICES ASSUME FindingsInit PROVE FindingsInv
  OBVIOUS
<1>1. Len(plan) \in Nat
  BY ConnectorAssumption DEF FindingsInit
<1> QED
  BY <1>1 DEF FindingsInit, FindingsInv

LEMMA FindingsInvStays == FindingsInv /\ [FindingsNext]_findingVars => FindingsInv'
<1> SUFFICES ASSUME FindingsInv, [FindingsNext]_findingVars PROVE FindingsInv'
  OBVIOUS
<1>1. CASE Build
  <2>1. Len(plan) \in Nat /\ DOMAIN plan = 1..Len(plan) /\ plan \in Seq(DOMAIN Yields)
    BY ConnectorAssumption DEF FindingsInv
  <2>2. PICK report \in Yields[plan[Len(given) + 1]] : given' = Append(given, report)
    BY <1>1 DEF Build
  <2>3. stage = "building" /\ Len(given) < Len(plan) /\ Len(given) \in Nat
    BY <1>1 DEF Build, Building, FindingsInv
  <2>4. Len(given) + 1 \in 1..Len(plan)
    BY <2>1, <2>3
  <2>5. report \in SomeReports
    BY <2>1, <2>2, <2>4 DEF SomeReports
  <2>6. given' \in Seq(SomeReports) /\ Len(given') = Len(given) + 1
    BY <2>2, <2>5 DEF FindingsInv
  <2>7. Len(given') <= Len(plan)
    BY <2>1, <2>3, <2>6
  <2> QED
    BY <1>1, <2>3, <2>6, <2>7 DEF Build, FindingsInv
<1>2. CASE Raise
  BY <1>2 DEF Raise, Building, FindingsInv
<1>3. CASE Merge
  BY <1>3 DEF Merge, FindingsInv
<1>4. CASE DetectCases
  BY <1>4 DEF DetectCases, FindingsInv
<1>5. CASE UNCHANGED findingVars
  BY <1>5 DEF findingVars, FindingsInv
<1> QED
  BY <1>1, <1>2, <1>3, <1>4, <1>5 DEF FindingsNext

LEMMA GivenAreReports ==
    ASSUME FindingsInv
    PROVE  Len(given) \in Nat /\ DOMAIN given = 1..Len(given) /\ AreReports(given)
<1>1. \A report \in SomeReports : IsReport(report)
  BY ConnectorAssumption DEF SomeReports
<1>2. given \in Seq(SomeReports)
  BY DEF FindingsInv
<1> QED
  BY <1>1, <1>2 DEF AreReports

\* The report is the merge of what was given, and the detections are those of the report
\* or of the failure (run_enabled_connectors_daily_report_pipeline,
\* upsert_cases_from_report, record_pipeline_failure): what the theorems below rest on.
THEOREM FindingsFollowStages == FindingsSpec => []FindingsInv
BY FindingsInvHolds, FindingsInvStays, PTL DEF FindingsSpec

\* What is merged has an account that shows the property.
LEMMA FiguresMatch == FindingsInv => FiguresMatchCitations
<1> SUFFICES ASSUME FindingsInv, stage = "merged", NEW key \in DOMAIN metrics
             PROVE  /\ metrics[key].sources = UNION {given[i][key].sources : i \in Behind(key)}
                    /\ metrics[key].kind = "number" /\ OwnNames(key) =>
                          metrics[key].value = Total(Figures(key, Behind(key)))
                    /\ \/ Behind(key) = Reporters(key)
                       \/ \E i, j \in Reporters(key) : ~Additive(given[i][key], given[j][key])
  BY DEF FiguresMatchCitations
<1>0. PICK N \in Nat : N = Len(given)
  BY GivenAreReports
<1>1. PICK reports, metric, R, C : /\ reports = given
                                  /\ N = Len(given)
                                  /\ metric = metrics[key]
                                  /\ R = Reporters(key)
                                  /\ C = Behind(key)
  BY <1>0
<1>2. DOMAIN reports = 1..N /\ N = Len(reports) /\ AreReports(reports)
  BY <1>1, GivenAreReports
<1>3. metrics = merge_daily_reports(reports)
  BY <1>1 DEF FindingsInv
<1>4. Accounted(reports, N, metrics)
  BY <1>2, <1>3, MergedIsAccounted
<1>5. IsMetric(metric)
  BY <1>1, <1>4 DEF Accounted
<1>6. PICK B : AccountsFor(reports, key, N, metric, B)
  BY <1>1, <1>4 DEF Accounted
<1>7. R = ReportersUpTo(reports, key, N)
  BY <1>1, <1>2 DEF Reporters, ReportersUpTo
<1>8. C = {i \in R : reports[i][key].sources \subseteq metric.sources}
  BY <1>1 DEF Behind
<1>9. B \subseteq C /\ C \subseteq R /\ B # {}
  BY <1>6, <1>7, <1>8 DEF AccountsFor
<1>10. metric.sources = UNION {reports[i][key].sources : i \in C}
  <2>1. metric.sources = UNION {reports[i][key].sources : i \in B}
    BY <1>6 DEF AccountsFor
  <2>2. UNION {reports[i][key].sources : i \in C} \subseteq metric.sources
    BY <1>8
  <2>3. UNION {reports[i][key].sources : i \in B}
           \subseteq UNION {reports[i][key].sources : i \in C}
    BY <1>9
  <2> QED
    BY <2>1, <2>2, <2>3
<1>11. C = R \/ \E i, j \in R : ~Additive(reports[i][key], reports[j][key])
  BY <1>6, <1>7, <1>9 DEF AccountsFor
<1>12. ASSUME OwnNames(key) PROVE metric.value = Total(Figures(key, C))
  <2>1. C = B
    <3> SUFFICES ASSUME NEW i \in C, i \notin B PROVE FALSE
      BY <1>9
    <3>1. i \in R /\ i \in DOMAIN reports /\ key \in DOMAIN reports[i]
      BY <1>2, <1>7, <1>9 DEF ReportersUpTo
    <3>2. reports[i][key].sources # {}
      BY <1>2, <3>1 DEF AreReports, IsReport, IsMetric
    <3>3. \A j \in B : reports[i][key].sources \cap reports[j][key].sources = {}
      BY <1>1, <1>9, <1>12, <3>1 DEF OwnNames
    <3>4. reports[i][key].sources \subseteq UNION {reports[j][key].sources : j \in B}
      BY <1>6, <1>8 DEF AccountsFor
    <3> QED
      BY <3>2, <3>3, <3>4
  <2>2. Figures(key, C) = Said(reports, key, B)
    BY <1>1, <2>1 DEF Figures, Said
  <2>3. PICK f : f = Said(reports, key, B)
    OBVIOUS
  <2>4. f \in [1..N -> Int]
    <3>1. N \in 0..N /\ B \in SUBSET ReportersUpTo(reports, key, N)
      BY <1>6 DEF AccountsFor
    <3> QED
      BY <1>2, <2>3, <3>1, SaidTyped
  <2>5. Total(f) = Totals(f)[N]
    BY <2>4, TotalsStep
  <2>6. metric.value = Totals(f)[N]
    BY <1>6, <2>3 DEF AccountsFor
  <2> QED
    BY <2>2, <2>3, <2>5, <2>6
<1> QED
  BY <1>1, <1>10, <1>11, <1>12

\* A figure of the daily report is the sum of what exactly the sources it cites have
\* reported, and a report is left out only if two of them disagree on what is counted
\* (merge_daily_reports, whatever connectors there are and whatever they report).
THEOREM FiguresAddUp == FindingsSpec => []FiguresMatchCitations
BY FindingsFollowStages, FiguresMatch, PTL

\* As many keys as detections.
LEMMA KeysAreCounted ==
    ASSUME NEW D, NEW s \in Seq(D), KeysDiffer(s)
    PROVE  Cardinality({s[i].key : i \in DOMAIN s}) = Len(s)
<1>1. PICK K : K = {s[i].key : i \in DOMAIN s}
  OBVIOUS
<1>0. PICK N \in Nat : N = Len(s) /\ DOMAIN s = 1..N
  OBVIOUS
<1>2. PICK f : f = [i \in 1..N |-> s[i].key]
  OBVIOUS
<1>3. f \in Surjection(1..N, K) /\ f \in Injection(1..N, K)
  BY <1>1, <1>0, <1>2 DEF Surjection, Injection, IsInjective, KeysDiffer
<1>4. IsFiniteSet(1..N) /\ Cardinality(1..N) = N
  BY FS_Interval
<1> QED
  BY <1>1, <1>0, <1>3, <1>4, FS_Surjection

StaleOf(m, sources) == {s \in sources : _source_freshness_state(m, s) \in Unfresh}

\* Detections rest on fresh data, or tell of the data that is not.
RestsOnFreshData(m, insights, s) ==
    /\ \A i \in DOMAIN s :
          \/ s[i].key[1] \in Families /\ StaleOf(m, s[i].sources) = {}
          \/ \E insight \in Range(insights) :
                /\ Detectable(insight)
                /\ s[i].key \in {<<"data_stale", x>> : x \in StaleOf(m, insight.sources)}
    /\ \A insight \in {x \in Range(insights) : Detectable(x)} :
          IF StaleOf(m, insight.sources) = {}
          THEN <<CaseTypes[insight.title], "all">> \in {s[i].key : i \in DOMAIN s}
          ELSE {<<"data_stale", x>> : x \in StaleOf(m, insight.sources)}
                  \subseteq {s[i].key : i \in DOMAIN s}

LEMMA DetectionsRest ==
    ASSUME NEW m, CitesFinitely(m)
    PROVE  RestsOnFreshData(m, generate_insights(m), detect_cases_from_report(m))
<1>1. PICK s, insights : s = detect_cases_from_report(m) /\ insights = generate_insights(m)
  OBVIOUS
<1>0. PICK N \in Nat : N = Len(insights) /\ DOMAIN insights = 1..N
  BY <1>1, InsightsTyped
<1>2. /\ \A i \in DOMAIN s : \E j \in 1..N : s[i] \in Suggested(m, insights[j])
      /\ \A j \in 1..N : \A d \in Suggested(m, insights[j]) :
            \E i \in DOMAIN s : s[i].key = d.key
  <2>1. Keeps(m, s, N)
    BY <1>1, <1>0, DetectionsKept
  <2> QED
    BY <1>1, <2>1 DEF Keeps
<1>3. \A insight : _stale_sources_for_insight(m, insight) = StaleOf(m, insight.sources)
  BY DEF _stale_sources_for_insight, StaleOf
<1>4. ASSUME NEW i \in DOMAIN s
      PROVE  \/ s[i].key[1] \in Families /\ StaleOf(m, s[i].sources) = {}
             \/ \E insight \in Range(insights) :
                   /\ Detectable(insight)
                   /\ s[i].key \in {<<"data_stale", x>> : x \in StaleOf(m, insight.sources)}
  <2>1. PICK j \in 1..N : s[i] \in Suggested(m, insights[j])
    BY <1>2
  <2>2. PICK insight : insight = insights[j]
    OBVIOUS
  <2>3. insight \in Range(insights)
    BY <1>1, <1>0, <2>2 DEF Range
  <2>4. Detectable(insight)
    BY <2>1, <2>2 DEF Suggested
  <2>5. CASE StaleOf(m, insight.sources) = {}
    <3>1. s[i] = Detection(insight)
      BY <1>3, <2>1, <2>2, <2>4, <2>5 DEF Suggested
    <3>2. s[i].key[1] = CaseTypes[insight.title] /\ s[i].sources = insight.sources
      BY <3>1 DEF Detection
    <3>3. CaseTypes[insight.title] \in Families
      BY <2>4 DEF Detectable, Families, Range
    <3> QED
      BY <2>5, <3>2, <3>3
  <2>6. CASE StaleOf(m, insight.sources) # {}
    <3>1. PICK x \in StaleOf(m, insight.sources) : s[i] = make_data_stale_detection(x)
      BY <1>3, <2>1, <2>2, <2>4, <2>6 DEF Suggested
    <3>2. s[i].key = <<"data_stale", x>>
      BY <3>1 DEF make_data_stale_detection
    <3> QED
      BY <2>3, <2>4, <3>2
  <2> QED
    BY <2>5, <2>6
<1>5. ASSUME NEW insight \in Range(insights), Detectable(insight)
      PROVE  IF StaleOf(m, insight.sources) = {}
             THEN <<CaseTypes[insight.title], "all">> \in {s[i].key : i \in DOMAIN s}
             ELSE {<<"data_stale", x>> : x \in StaleOf(m, insight.sources)}
                     \subseteq {s[i].key : i \in DOMAIN s}
  <2>1. PICK j \in 1..N : insight = insights[j]
    BY <1>1, <1>0 DEF Range
  <2>2. \A d \in Suggested(m, insight) : d.key \in {s[i].key : i \in DOMAIN s}
    BY <1>2, <2>1
  <2>3. CASE StaleOf(m, insight.sources) = {}
    <3>1. Suggested(m, insight) = {Detection(insight)}
      BY <1>3, <1>5, <2>3 DEF Suggested
    <3>2. Detection(insight).key = <<CaseTypes[insight.title], "all">>
      BY DEF Detection
    <3> QED
      BY <2>2, <2>3, <3>1, <3>2
  <2>4. CASE StaleOf(m, insight.sources) # {}
    <3>1. Suggested(m, insight) =
             {make_data_stale_detection(x) : x \in StaleOf(m, insight.sources)}
      BY <1>3, <1>5, <2>4 DEF Suggested
    <3>2. \A x : make_data_stale_detection(x).key = <<"data_stale", x>>
      BY DEF make_data_stale_detection
    <3> QED
      BY <2>2, <2>4, <3>1, <3>2
  <2> QED
    BY <2>3, <2>4
<1>6. RestsOnFreshData(m, insights, s)
  BY <1>4, <1>5 DEF RestsOnFreshData
<1> QED
  BY <1>1, <1>6

LEMMA CasesRest == FindingsInv => CasesRestOnFreshData
<1> SUFFICES ASSUME FindingsInv PROVE CasesRestOnFreshData
  OBVIOUS
<1>1. PICK m, s, keys, c : /\ m = metrics
                           /\ s = found
                           /\ keys = {s[i].key : i \in DOMAIN s}
                           /\ c = plan
  OBVIOUS
<1>2. CASE stage = "detected"
  <2>1. CitesFinitely(m) /\ s = detect_cases_from_report(m)
    BY <1>1, <1>2, GivenAreReports, MergedCitesFinitely DEF FindingsInv
  <2>2. RestsOnFreshData(metrics, generate_insights(metrics), found)
    BY <1>1, <2>1, DetectionsRest
  <2>3. Cardinality(keys) = Len(s)
    <3>1. s \in Seq(AllSuggested(m)) /\ KeysDiffer(s)
      BY <2>1, DetectionsKept DEF Keeps
    <3> QED
      BY <1>1, <3>1, KeysAreCounted
  <2>4. /\ \A i \in DOMAIN found :
              \/ found[i].key[1] \in Families /\ StaleOf(metrics, found[i].sources) = {}
              \/ \E insight \in Range(generate_insights(metrics)) :
                    /\ Detectable(insight)
                    /\ found[i].key \in
                          {<<"data_stale", x>> : x \in StaleOf(metrics, insight.sources)}
        /\ \A insight \in {x \in Range(generate_insights(metrics)) : Detectable(x)} :
              IF StaleOf(metrics, insight.sources) = {}
              THEN <<CaseTypes[insight.title], "all">> \in {found[i].key : i \in DOMAIN found}
              ELSE {<<"data_stale", x>> : x \in StaleOf(metrics, insight.sources)}
                      \subseteq {found[i].key : i \in DOMAIN found}
    BY <2>2 DEF RestsOnFreshData
  <2>5. Cardinality({found[i].key : i \in DOMAIN found}) = Len(found)
    BY <1>1, <2>3
  <2> QED
    BY <1>2, <2>4, <2>5 DEF CasesRestOnFreshData, StaleOf
<1>3. CASE stage = "failed"
  <2>1. s = [i \in DOMAIN c |-> make_data_stale_detection(c[i])]
    BY <1>1, <1>3 DEF FindingsInv
  <2>2. c \in Seq(DOMAIN Yields) /\ IsInjective(c)
    BY <1>1, ConnectorAssumption DEF FindingsInv
  <2>3. PICK D : D = {make_data_stale_detection(x) : x \in DOMAIN Yields}
    OBVIOUS
  <2>4. DOMAIN s = DOMAIN c /\ \A i \in DOMAIN s : s[i].key = <<"data_stale", c[i]>>
    BY <2>1 DEF make_data_stale_detection
  <2>5. s \in Seq(D)
    <3>1. PICK n \in Nat : DOMAIN c = 1..n /\ \A i \in 1..n : c[i] \in DOMAIN Yields
      BY <2>2
    <3>2. s \in [1..n -> D]
      BY <2>1, <2>3, <3>1
    <3> QED
      BY <3>2
  <2>6. KeysDiffer(s)
    BY <2>2, <2>4 DEF KeysDiffer, IsInjective
  <2>7. Cardinality(keys) = Len(s)
    BY <1>1, <2>5, <2>6, KeysAreCounted
  <2>8. keys = {<<"data_stale", x>> : x \in Range(c)}
    BY <1>1, <2>4 DEF Range
  <2>9. /\ Cardinality({found[i].key : i \in DOMAIN found}) = Len(found)
        /\ {found[i].key : i \in DOMAIN found} = {<<"data_stale", x>> : x \in Range(plan)}
    BY <1>1, <2>7, <2>8
  <2> QED
    BY <1>3, <2>9 DEF CasesRestOnFreshData
<1>4. CASE stage \in {"building", "merged"}
  <2>1. s = <<>>
    BY <1>1, <1>4 DEF FindingsInv
  <2>2. keys = {} /\ Cardinality(keys) = 0 /\ Len(s) = 0
    BY <1>1, <2>1, FS_EmptySet
  <2>3. Cardinality({found[i].key : i \in DOMAIN found}) = Len(found)
    BY <1>1, <2>2
  <2> QED
    BY <1>4, <2>3 DEF CasesRestOnFreshData
<1> QED
  BY <1>2, <1>3, <1>4 DEF FindingsInv

\* Whatever was reported, a case is made at most once and of no stale source, and every
\* finding is a case or a report of each stale source it rests on
\* (detect_cases_from_report, record_pipeline_failure).
THEOREM CasesOnFreshData == FindingsSpec => []CasesRestOnFreshData
BY FindingsFollowStages, CasesRest, PTL
=============================================================================
