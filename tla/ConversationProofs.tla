------------------------- MODULE ConversationProofs -------------------------
(***************************************************************************)
(* Theorems about Conversation for any number of messages and restarts.    *)
(***************************************************************************)
EXTENDS Conversation, SequenceTheorems, TLAPS

-----------------------------------------------------------------------------
(***************************************************************************)
(* The inductive invariant.                                                *)
(***************************************************************************)
Stage(t) == thread[t].stage

Batch(t) == Range(thread[t].batch)

\* What the buffer and the threads hold was received, once.
MailIsSorted ==
    /\ Range(buffer) \subseteq 1..received /\ IsInjective(buffer)
    /\ Range(buffer) \cap answered = {}
    /\ \A t \in Messages : t > received => thread[t] = NoThread
    /\ \A t \in Messages : Batch(t) \subseteq 1..received /\ IsInjective(thread[t].batch)
    /\ \A t \in Messages : InHand(t) \cap (Range(buffer) \cup answered) = {}
    /\ \A t, u \in Messages : t # u => InHand(t) \cap InHand(u) = {}

\* In the database, or loaded by a thread.
Known(e) ==
    \/ e \in Range(history)
    \/ \E u \in Messages : e \in Range(thread[u].seen)

\* What a thread is about to save is news to the database and to every thread.
SavesAreNews ==
    /\ \A m \in Messages : Known(Human(m)) =>
          /\ m <= received /\ m \notin Range(buffer)
          /\ \A t \in Messages : Stage(t) \in Trying => m \notin Batch(t)
    /\ \A t \in Messages : Known(Reply(t)) => Stage(t) \in {"saved", "done"}
    /\ IsInjective(history)
    /\ \A t \in Messages : IsInjective(thread[t].seen)

VerdictsAreSaved ==
    \A t \in Messages : Stage(t) = "lead_saved" /\ thread[t].hot => lead.hot

IInv ==
    /\ TypeOK
    /\ MailIsSorted
    /\ SavesAreNews
    /\ NothingForgotten
    /\ VerdictsAreSaved
    /\ NotifiedLeadsAreHot

-----------------------------------------------------------------------------
(***************************************************************************)
(* As long as nothing overlaps or fails.                                   *)
(***************************************************************************)
\* How many messages have left the buffer.
Taken == received - Len(buffer)

Consecutive(s, first) == \A i \in DOMAIN s : s[i] = first + i

\* The messages of the threads that have saved.
Saved == UNION {Batch(t) : t \in {u \in Messages : Stage(u) \in {"saved", "done"}}}

\* The buffer holds the latest messages, in order, after a restart too.
BufferIsInOrder == Consecutive(buffer, Taken)

\* The graph announced a lead that is not marked yet.
Announcing(t) == Stage(t) \in {"invoked", "lead_saved"} /\ thread[t].hot /\ ~thread[t].notified

\* One thread at a time is in _process.
Alone == \A t, u \in Messages : Stage(t) \in Running /\ Stage(u) \in Running => t = u

\* Threads take their turns: the saved messages come first, then those of the
\* thread at work, then those in the buffer.
InTurn ==
    \E n \in 0..Taken :
       /\ Saved = 1..n
       /\ (\A t \in Messages : Stage(t) \notin Trying) => n = Taken
       /\ \A t \in Messages : Stage(t) \in Trying =>
             Consecutive(thread[t].batch, n) /\ n + Len(thread[t].batch) = Taken

\* What the thread at work has read is still so.
ReadsHold ==
    /\ \A t \in Messages : Stage(t) \in Trying \ {"popped"} => thread[t].seen = history
    /\ \A t \in Messages :
          Stage(t) \in {"read", "invoked", "lead_saved"} => thread[t].notified = lead.notified

ToldOnce ==
    /\ notices \in {0, 1}
    /\ notices = 1 => lead.notified \/ \E t \in Messages : Announcing(t)

IsHuman(e) == e.from = "human"

\* The stored conversation: the saved messages in their order, an answer at the end.
HistoryIsInOrder ==
    /\ Saved = {history[i].n : i \in {j \in DOMAIN history : IsHuman(history[j])}}
    /\ \A i, j \in DOMAIN history :
          IsHuman(history[i]) /\ IsHuman(history[j]) /\ i < j => history[i].n < history[j].n
    /\ history # <<>> => ~IsHuman(history[Len(history)])

InOrder == Alone /\ InTurn /\ ReadsHold /\ ToldOnce /\ HistoryIsInOrder

Orderly == undisturbed => InOrder

-----------------------------------------------------------------------------
(***************************************************************************)
(* Sequences.                                                              *)
(***************************************************************************)
LEMMA AppendRange ==
    ASSUME NEW S, NEW s \in Seq(S), NEW x \in S
    PROVE  /\ Range(Append(s, x)) = Range(s) \cup {x}
           /\ IsInjective(s) /\ x \notin Range(s) => IsInjective(Append(s, x))
<1>1. /\ DOMAIN s = 1..Len(s) /\ Len(s) \in Nat /\ DOMAIN Append(s, x) = 1..(Len(s) + 1)
      /\ \A i \in 1..Len(s) : Append(s, x)[i] = s[i]
      /\ Append(s, x)[Len(s) + 1] = x
  OBVIOUS
<1> DEFINE t == Append(s, x)
<1> HIDE DEF t
<1>2. /\ DOMAIN t = DOMAIN s \cup {Len(s) + 1} /\ Len(s) + 1 \notin DOMAIN s
      /\ \A i \in DOMAIN s : t[i] = s[i]
      /\ t[Len(s) + 1] = x
  BY <1>1 DEF t
<1>3. Range(t) = Range(s) \cup {x}
  BY <1>2 DEF Range
<1>4. IsInjective(s) /\ x \notin Range(s) => IsInjective(t)
  BY <1>2 DEF IsInjective, Range
<1> QED
  BY <1>3, <1>4 DEF t

LEMMA ConcatRange ==
    ASSUME NEW S, NEW s \in Seq(S), NEW t \in Seq(S)
    PROVE  /\ Range(s \o t) = Range(s) \cup Range(t)
           /\ IsInjective(s) /\ IsInjective(t) /\ Range(s) \cap Range(t) = {}
                 => IsInjective(s \o t)
<1> DEFINE c == s \o t
<1>1. /\ DOMAIN s = 1..Len(s) /\ Len(s) \in Nat /\ DOMAIN t = 1..Len(t) /\ Len(t) \in Nat
      /\ DOMAIN c = 1..(Len(s) + Len(t))
      /\ \A i \in 1..(Len(s) + Len(t)) : c[i] = IF i <= Len(s) THEN s[i] ELSE t[i - Len(s)]
  <2>1. /\ DOMAIN s = 1..Len(s) /\ Len(s) \in Nat /\ DOMAIN t = 1..Len(t) /\ Len(t) \in Nat
    OBVIOUS
  <2>2. /\ c \in Seq(S) /\ Len(c) = Len(s) + Len(t)
        /\ \A i \in 1..(Len(s) + Len(t)) : c[i] = IF i <= Len(s) THEN s[i] ELSE t[i - Len(s)]
    BY ConcatProperties
  <2> HIDE DEF c
  <2>3. DOMAIN c = 1..Len(c)
    BY <2>2
  <2> QED
    BY <2>1, <2>2, <2>3
<1> HIDE DEF c
<1>2. \A i \in DOMAIN c : \/ (i \in DOMAIN s /\ c[i] = s[i])
                          \/ (i - Len(s) \in DOMAIN t /\ c[i] = t[i - Len(s)])
  BY <1>1
<1>3. /\ \A i \in DOMAIN s : i \in DOMAIN c /\ c[i] = s[i]
      /\ \A i \in DOMAIN t : i + Len(s) \in DOMAIN c /\ c[i + Len(s)] = t[i]
  BY <1>1
<1>4. Range(c) = Range(s) \cup Range(t)
  BY <1>2, <1>3 DEF Range
<1>5. ASSUME IsInjective(s), IsInjective(t), Range(s) \cap Range(t) = {}
      PROVE  IsInjective(c)
  <2> SUFFICES ASSUME NEW i \in DOMAIN c, NEW j \in DOMAIN c, c[i] = c[j]
               PROVE  i = j
    BY DEF IsInjective
  <2>1. CASE i \in DOMAIN s /\ c[i] = s[i] /\ j \in DOMAIN s /\ c[j] = s[j]
    BY <1>5, <2>1 DEF IsInjective
  <2>2. CASE i - Len(s) \in DOMAIN t /\ c[i] = t[i - Len(s)] /\ j - Len(s) \in DOMAIN t /\ c[j] = t[j - Len(s)]
    <3>1. i - Len(s) = j - Len(s)
      BY <1>5, <2>2 DEF IsInjective
    <3> QED
      BY <1>1, <3>1
  <2>3. CASE i \in DOMAIN s /\ c[i] = s[i] /\ j - Len(s) \in DOMAIN t /\ c[j] = t[j - Len(s)]
    BY <1>5, <2>3 DEF Range
  <2>4. CASE j \in DOMAIN s /\ c[j] = s[j] /\ i - Len(s) \in DOMAIN t /\ c[i] = t[i - Len(s)]
    BY <1>5, <2>4 DEF Range
  <2> QED
    BY <1>2, <2>1, <2>2, <2>3, <2>4
<1> QED
  BY <1>4, <1>5 DEF c

-----------------------------------------------------------------------------
(***************************************************************************)
(* What the steps of a thread have in common.                              *)
(***************************************************************************)
\* The threads keep what they took, stay in the same part of _process, and read
\* at most the stored conversation.
Steady ==
    /\ thread' \in [Messages -> Thread]
    /\ \A u \in Messages :
          /\ thread'[u].batch = thread[u].batch
          /\ thread'[u].seen \in {thread[u].seen, history}
          /\ thread'[u].stage \in Trying <=> Stage(u) \in Trying
          /\ thread'[u].stage = "saved" <=> Stage(u) = "saved"
          /\ thread'[u].stage = "done" <=> Stage(u) = "done"
          /\ thread'[u].stage \in {"waiting", "fired"} <=> Stage(u) \in {"waiting", "fired"}
          /\ u > received => thread'[u] = thread[u]

LEMMA SteadyStep ==
    ASSUME IInv, Steady, UNCHANGED <<inbox, history, answered, lost>>
    PROVE  MailIsSorted' /\ SavesAreNews' /\ NothingForgotten'
<1>1. \A u \in Messages : Batch(u)' = Batch(u) /\ InHand(u)' = InHand(u)
  BY DEF Steady, Batch, InHand, Running, Stage
<1>2. \A e : Known(e)' => Known(e)
  BY DEF Steady, Known
<1>3. received' = received /\ buffer' = buffer /\ history' = history /\ answered' = answered
      /\ lost' = lost
  BY DEF inbox
<1>4. MailIsSorted'
  BY <1>1, <1>3 DEF IInv, MailIsSorted, Steady
<1>5. SavesAreNews'
  BY <1>1, <1>2, <1>3 DEF IInv, SavesAreNews, Steady, Stage
<1>6. NothingForgotten'
  BY <1>1, <1>3 DEF IInv, NothingForgotten, Steady, Stage
<1> QED
  BY <1>4, <1>5, <1>6

LEMMA ThreadTyped ==
    ASSUME IInv, NEW t \in Messages
    PROVE  /\ thread[t] \in Thread /\ Stage(t) \in Stages
           /\ thread[t].batch \in Seq(Messages) /\ thread[t].seen \in Seq(Entries)
           /\ Stage(t) # "none" => t <= received
BY DEF IInv, TypeOK, Thread, Stage, MailIsSorted, NoThread, BoundsAssumption, Messages

\* One thread moves to another stage.
Moves(t, w) ==
    /\ thread' \in [Messages -> Thread]
    /\ thread'[t] = w
    /\ \A u \in Messages \ {t} : thread'[u] = thread[u]

LEMMA GoMoves ==
    ASSUME IInv, NEW t \in Messages, NEW stage \in Stages, Go(t, stage)
    PROVE  \E w \in Thread :
              /\ Moves(t, w) /\ w.stage = stage /\ w.batch = thread[t].batch
              /\ w.seen = thread[t].seen /\ w.notified = thread[t].notified
              /\ w.hot = thread[t].hot
<1> DEFINE w == [thread[t] EXCEPT !.stage = stage]
<1>1. /\ w \in Thread /\ w.stage = stage /\ w.batch = thread[t].batch
      /\ w.seen = thread[t].seen /\ w.notified = thread[t].notified /\ w.hot = thread[t].hot
  BY ThreadTyped DEF Thread
<1>2. thread' = [thread EXCEPT ![t] = w]
  BY DEF Go, IInv, TypeOK
<1> HIDE DEF w
<1>3. Moves(t, w)
  BY <1>1, <1>2 DEF Moves, IInv, TypeOK
<1> QED
  BY <1>1, <1>3

LEMMA MovesAreSteady ==
    ASSUME IInv, NEW t \in Messages, NEW w \in Thread, Moves(t, w),
           w.batch = thread[t].batch, w.seen \in {thread[t].seen, history},
           \/ (Stage(t) \in Trying /\ w.stage \in Trying)
           \/ (Stage(t) = "waiting" /\ w.stage = "fired")
    PROVE  Steady
<1>1. t <= received /\ t \in Int /\ received \in Int
  BY ThreadTyped DEF Trying, IInv, TypeOK, Messages
<1>2. ASSUME NEW u \in Messages, u # t
      PROVE  thread'[u] = thread[u]
  BY <1>2 DEF Moves
<1>3. /\ thread'[t].batch = thread[t].batch /\ thread'[t].seen \in {thread[t].seen, history}
      /\ thread'[t].stage \in Trying <=> Stage(t) \in Trying
      /\ thread'[t].stage \notin {"saved", "done"} /\ Stage(t) \notin {"saved", "done"}
      /\ thread'[t].stage \in {"waiting", "fired"} <=> Stage(t) \in {"waiting", "fired"}
  BY DEF Moves, Trying
<1> QED
  BY <1>1, <1>2, <1>3 DEF Steady, Moves, Stage

-----------------------------------------------------------------------------
(***************************************************************************)
(* The steps.                                                              *)
(***************************************************************************)
LEMMA FireStep ==
    ASSUME IInv, NEW t \in Messages, Fire(t)
    PROVE  IInv'
<1>1. PICK w \in Thread :
         /\ Moves(t, w) /\ w.stage = "fired" /\ w.batch = thread[t].batch
         /\ w.seen = thread[t].seen /\ w.hot = thread[t].hot
  BY GoMoves DEF Fire, Stages
<1>2. Stage(t) = "waiting" /\ UNCHANGED <<inbox, stored, sent, crashed, undisturbed>>
  BY DEF Fire, At, Stage
<1>3. Steady
  BY <1>1, <1>2, MovesAreSteady
<1>4. MailIsSorted' /\ SavesAreNews' /\ NothingForgotten'
  BY <1>2, <1>3, SteadyStep DEF stored, sent, crashed
<1>5. TypeOK'
  BY <1>1, <1>2 DEF IInv, TypeOK, Moves, inbox, stored, sent, crashed
<1>6. VerdictsAreSaved' /\ NotifiedLeadsAreHot'
  BY <1>1, <1>2 DEF IInv, VerdictsAreSaved, NotifiedLeadsAreHot, Moves, Stage, stored
<1> QED
  BY <1>4, <1>5, <1>6 DEF IInv

LEMMA ReadLeadStep ==
    ASSUME IInv, NEW t \in Messages, ReadLead(t)
    PROVE  IInv'
<1> DEFINE w == [thread[t] EXCEPT !.stage = "read", !.notified = lead.notified]
<1>1. /\ Stage(t) = "loaded" /\ thread' = [thread EXCEPT ![t] = w]
      /\ UNCHANGED <<inbox, stored, sent, crashed, undisturbed>>
  BY DEF ReadLead, At, Stage, IInv, TypeOK
<1>2. /\ w \in Thread /\ w.stage = "read" /\ w.batch = thread[t].batch
      /\ w.seen = thread[t].seen
  BY ThreadTyped DEF Thread, Stages, Running, Trying, IInv, TypeOK
<1> HIDE DEF w
<1>3. Moves(t, w)
  BY <1>1, <1>2 DEF Moves, IInv, TypeOK
<1>4. Steady
  BY <1>1, <1>2, <1>3, MovesAreSteady DEF Trying
<1>5. MailIsSorted' /\ SavesAreNews' /\ NothingForgotten'
  BY <1>1, <1>4, SteadyStep DEF stored, sent, crashed
<1>6. TypeOK'
  BY <1>1, <1>3 DEF IInv, TypeOK, Moves, inbox, stored, sent, crashed
<1>7. VerdictsAreSaved' /\ NotifiedLeadsAreHot'
  BY <1>1, <1>2, <1>3 DEF IInv, VerdictsAreSaved, NotifiedLeadsAreHot, Moves, Stage, stored
<1> QED
  BY <1>5, <1>6, <1>7 DEF IInv

LEMMA InvokeMoves ==
    ASSUME IInv, NEW t \in Messages, Invoke(t)
    PROVE  \E w \in Thread :
              /\ Moves(t, w) /\ w.stage = "invoked" /\ w.batch = thread[t].batch
              /\ w.seen = thread[t].seen /\ w.notified = thread[t].notified
              /\ notices' = IF w.hot /\ ~w.notified THEN notices + 1 ELSE notices
<1>1. PICK hot \in BOOLEAN :
         /\ thread' = [thread EXCEPT ![t].stage = "invoked", ![t].hot = hot]
         /\ notices' = IF hot /\ ~thread[t].notified THEN notices + 1 ELSE notices
  BY DEF Invoke
<1> DEFINE w == [thread[t] EXCEPT !.stage = "invoked", !.hot = hot]
<1>2. /\ w \in Thread /\ w.stage = "invoked" /\ w.batch = thread[t].batch
      /\ w.seen = thread[t].seen /\ w.notified = thread[t].notified /\ w.hot = hot
  BY ThreadTyped DEF Thread, Stages, Running, Trying
<1>3. thread' = [thread EXCEPT ![t] = w]
  BY <1>1 DEF IInv, TypeOK
<1> HIDE DEF w
<1>4. Moves(t, w)
  BY <1>2, <1>3 DEF Moves, IInv, TypeOK
<1> QED
  BY <1>1, <1>2, <1>4

LEMMA InvokeStep ==
    ASSUME IInv, NEW t \in Messages, Invoke(t)
    PROVE  IInv'
<1>1. PICK w \in Thread :
         /\ Moves(t, w) /\ w.stage = "invoked" /\ w.batch = thread[t].batch
         /\ w.seen = thread[t].seen
         /\ notices' = IF w.hot /\ ~w.notified THEN notices + 1 ELSE notices
  BY InvokeMoves
<1>2. Stage(t) = "read" /\ UNCHANGED <<inbox, stored, answered, crashed, undisturbed>>
  BY DEF Invoke, At, Stage
<1>3. Steady
  BY <1>1, <1>2, MovesAreSteady DEF Trying
<1>4. MailIsSorted' /\ SavesAreNews' /\ NothingForgotten'
  BY <1>2, <1>3, SteadyStep DEF stored, crashed
<1>5. notices' \in Nat
  BY <1>1 DEF IInv, TypeOK
<1>6. TypeOK'
  BY <1>1, <1>2, <1>5 DEF IInv, TypeOK, Moves, inbox, stored, crashed
<1>7. VerdictsAreSaved' /\ NotifiedLeadsAreHot'
  BY <1>1, <1>2 DEF IInv, VerdictsAreSaved, NotifiedLeadsAreHot, Moves, Stage, stored
<1> QED
  BY <1>4, <1>6, <1>7 DEF IInv

\* The verdict and the mark are written one after the other.
LEMMA LeadStep ==
    ASSUME IInv, NEW t \in Messages, SaveLead(t) \/ MarkNotified(t)
    PROVE  IInv'
<1>1. PICK stage \in {"lead_saved", "marked"} :
         /\ Go(t, stage)
         /\ stage = "lead_saved" => SaveLead(t)
         /\ stage = "marked" => MarkNotified(t)
  BY DEF SaveLead, MarkNotified
<1>2. PICK w \in Thread :
         /\ Moves(t, w) /\ w.stage = stage /\ w.batch = thread[t].batch
         /\ w.seen = thread[t].seen /\ w.hot = thread[t].hot
  BY <1>1, GoMoves DEF Stages, Running, Trying
<1>3. /\ Stage(t) = IF stage = "marked" THEN "lead_saved" ELSE "invoked"
      /\ UNCHANGED <<inbox, history, sent, crashed, undisturbed>>
  BY <1>1 DEF SaveLead, MarkNotified, At, Stage
<1>4. Steady
  BY <1>2, <1>3, MovesAreSteady DEF Trying
<1>5. MailIsSorted' /\ SavesAreNews' /\ NothingForgotten'
  BY <1>3, <1>4, SteadyStep DEF sent, crashed
<1>6. /\ lead' \in [hot : BOOLEAN, notified : BOOLEAN]
      /\ lead.hot => lead'.hot
      /\ stage = "lead_saved" => (thread[t].hot => lead'.hot) /\ lead'.notified = lead.notified
      /\ stage = "marked" => (lead'.notified => lead.notified \/ thread[t].hot)
  BY <1>1, ThreadTyped DEF SaveLead, MarkNotified, IInv, TypeOK, Thread
<1>7. TypeOK'
  BY <1>2, <1>3, <1>6 DEF IInv, TypeOK, Moves, inbox, sent, crashed
<1>8. VerdictsAreSaved'
  BY <1>2, <1>6 DEF IInv, VerdictsAreSaved, Moves, Stage
<1>9. NotifiedLeadsAreHot'
  BY <1>1, <1>3, <1>6 DEF IInv, VerdictsAreSaved, NotifiedLeadsAreHot, Stage
<1> QED
  BY <1>5, <1>7, <1>8, <1>9 DEF IInv

LEMMA LoadHistoryStep ==
    ASSUME IInv, NEW t \in Messages, LoadHistory(t)
    PROVE  IInv'
<1> DEFINE w == [thread[t] EXCEPT !.stage = "loaded", !.seen = history]
<1>1. /\ Stage(t) = "popped" /\ thread' = [thread EXCEPT ![t] = w]
      /\ UNCHANGED <<inbox, stored, sent, crashed, undisturbed>>
  BY DEF LoadHistory, At, Stage, IInv, TypeOK
<1>2. /\ w \in Thread /\ w.stage = "loaded" /\ w.batch = thread[t].batch
      /\ w.seen = history
  BY ThreadTyped DEF Thread, Stages, Running, Trying, IInv, TypeOK
<1> HIDE DEF w
<1>3. Moves(t, w)
  BY <1>1, <1>2 DEF Moves, IInv, TypeOK
<1>4. Steady
  BY <1>1, <1>2, <1>3, MovesAreSteady DEF Trying
<1>5. MailIsSorted' /\ SavesAreNews' /\ NothingForgotten'
  BY <1>1, <1>4, SteadyStep DEF stored, sent, crashed
<1>6. TypeOK'
  BY <1>1, <1>3 DEF IInv, TypeOK, Moves, inbox, stored, sent, crashed
<1>7. VerdictsAreSaved' /\ NotifiedLeadsAreHot'
  BY <1>1, <1>2, <1>3 DEF IInv, VerdictsAreSaved, NotifiedLeadsAreHot, Moves, Stage, stored
<1> QED
  BY <1>5, <1>6, <1>7 DEF IInv

\* What a thread in its try block saves.
LEMMA AnsweredAdds ==
    ASSUME IInv, NEW t \in Messages, Stage(t) \in Trying
    PROVE  /\ Answered(t) \in Seq(Entries) /\ IsInjective(Answered(t))
           /\ Range(Answered(t)) = Range(thread[t].seen) \cup {Human(m) : m \in Batch(t)}
                                      \cup {Reply(t)}
<1> DEFINE seen == thread[t].seen
           batch == thread[t].batch
           humans == [i \in DOMAIN batch |-> Human(batch[i])]
           reply == <<Reply(t)>>
<1>1. /\ seen \in Seq(Entries) /\ batch \in Seq(Messages) /\ IsInjective(seen)
      /\ IsInjective(batch)
  BY ThreadTyped DEF IInv, MailIsSorted, SavesAreNews
<1>2. /\ \A m \in Messages : Human(m) \in Entries /\ Reply(m) \in Entries
      /\ \A m, n \in Messages : (Human(m) = Human(n) => m = n) /\ Human(m) # Reply(n)
  BY DEF Human, Reply, Entries
<1>3. /\ humans \in Seq(Entries) /\ IsInjective(humans)
      /\ Range(humans) = {Human(m) : m \in Batch(t)}
  <2> HIDE DEF batch
  <2>1. DOMAIN batch = 1..Len(batch) /\ Len(batch) \in Nat /\ \A i \in DOMAIN batch : batch[i] \in Messages
    BY <1>1
  <2>2. humans \in Seq(Entries)
    BY <1>2, <2>1, IsASeq
  <2>3. IsInjective(humans)
    BY <1>1, <1>2, <2>1 DEF IsInjective
  <2>4. Range(humans) = {Human(batch[i]) : i \in DOMAIN batch}
    BY DEF Range
  <2>5. Batch(t) = {batch[i] : i \in DOMAIN batch}
    BY DEF Range, Batch, batch
  <2> QED
    BY <2>2, <2>3, <2>4, <2>5
<1>4. /\ reply \in Seq(Entries) /\ IsInjective(reply) /\ Range(reply) = {Reply(t)}
  <2>1. reply \in Seq(Entries) /\ DOMAIN reply = {1} /\ reply[1] = Reply(t)
    BY <1>2
  <2> HIDE DEF reply
  <2> QED
    BY <2>1 DEF IsInjective, Range
<1>5. \A m \in Batch(t) : m \in Messages /\ Human(m) \notin Range(seen)
  <2>1. Batch(t) \subseteq Messages
    BY <1>1, RangeOfSeq DEF Batch
  <2>2. \A m \in Messages : Human(m) \in Range(seen) => m \notin Batch(t)
    BY DEF IInv, SavesAreNews, Known
  <2> QED
    BY <2>1, <2>2
<1>6. Reply(t) \notin Range(seen)
  BY DEF IInv, SavesAreNews, Known, Trying
<1>7. Answered(t) = (seen \o humans) \o reply
  BY DEF Answered
<1> HIDE DEF seen, humans, reply, batch
<1>8. /\ seen \o humans \in Seq(Entries) /\ IsInjective(seen \o humans)
      /\ Range(seen \o humans) = Range(seen) \cup {Human(m) : m \in Batch(t)}
  <2>1. Range(seen) \cap Range(humans) = {}
    BY <1>3, <1>5
  <2> QED
    BY <1>1, <1>3, <2>1, ConcatRange, ConcatProperties
<1>9. Range(seen \o humans) \cap Range(reply) = {}
  BY <1>2, <1>4, <1>5, <1>6, <1>8
<1> QED
  <2> DEFINE front == seen \o humans
  <2>1. /\ front \in Seq(Entries) /\ IsInjective(front) /\ Range(front) \cap Range(reply) = {}
        /\ Range(front) = Range(seen) \cup {Human(m) : m \in Batch(t)}
    BY <1>8, <1>9
  <2> HIDE DEF front
  <2>2. /\ front \o reply \in Seq(Entries) /\ IsInjective(front \o reply)
        /\ Range(front \o reply) = Range(front) \cup Range(reply)
    BY <1>4, <2>1, ConcatRange, ConcatProperties
  <2> QED
    BY <1>4, <1>7, <2>1, <2>2 DEF front, seen

LEMMA SaveHistoryStep ==
    ASSUME IInv, NEW t \in Messages, SaveHistory(t)
    PROVE  IInv'
<1>1. PICK w \in Thread :
         /\ Moves(t, w) /\ w.stage = "saved" /\ w.batch = thread[t].batch
         /\ w.seen = thread[t].seen
  BY GoMoves DEF SaveHistory, Stages, Running
<1>2. /\ Stage(t) = "marked" /\ Stage(t) \in Trying /\ history' = Answered(t)
      /\ UNCHANGED <<inbox, lead, sent, crashed, undisturbed>>
  BY DEF SaveHistory, At, Stage, Trying
<1>3. received' = received /\ buffer' = buffer /\ answered' = answered /\ lost' = lost
  BY <1>2 DEF inbox, sent, crashed
<1>4. /\ Answered(t) \in Seq(Entries) /\ IsInjective(Answered(t))
      /\ Range(Answered(t)) = Range(thread[t].seen) \cup {Human(m) : m \in Batch(t)}
                                 \cup {Reply(t)}
  BY <1>2, AnsweredAdds
<1>5. \A u \in Messages \ {t} : thread'[u] = thread[u]
  BY <1>1 DEF Moves
<1>6. \A u \in Messages : /\ thread'[u].batch = thread[u].batch
                          /\ thread'[u].seen = thread[u].seen
  BY <1>1, <1>5 DEF Moves
<1>7. \A u \in Messages : Batch(u)' = Batch(u)
  BY <1>6 DEF Batch
<1>8. \A u \in Messages : InHand(u)' = InHand(u)
  <2> SUFFICES ASSUME NEW u \in Messages PROVE InHand(u)' = InHand(u)
    OBVIOUS
  <2>1. CASE u = t
    BY <1>1, <1>2, <2>1 DEF InHand, Moves, Running, Stage
  <2>2. CASE u # t
    BY <1>5, <2>2 DEF InHand
  <2> QED
    BY <2>1, <2>2
<1>9. TypeOK'
  BY <1>1, <1>2, <1>4 DEF IInv, TypeOK, Moves, inbox, sent, crashed
<1>10. MailIsSorted'
  <2>1. \A u \in Messages : u > received => thread'[u] = thread[u]
    <3>1. t <= received /\ t \in Int /\ received \in Int
      BY <1>2, ThreadTyped DEF IInv, TypeOK, Messages
    <3> QED
      BY <1>5, <3>1
  <2> QED
    BY <1>3, <1>6, <1>7, <1>8, <2>1 DEF IInv, MailIsSorted
<1>11. NothingForgotten'
  <2>1. \A u \in Messages : thread[u].stage \in {"waiting", "fired"} =>
                              thread'[u].stage \in {"waiting", "fired"}
    BY <1>2, <1>5 DEF Stage
  <2> QED
    BY <1>3, <1>8, <2>1 DEF IInv, NothingForgotten
<1>12. SavesAreNews'
  <2>1. \A e : Known(e)' => Known(e) \/ (\E m \in Batch(t) : e = Human(m)) \/ e = Reply(t)
    BY <1>2, <1>4, <1>6 DEF Known
  <2>2. \A m, n \in Messages : (Human(m) = Human(n) => m = n) /\ Human(m) # Reply(n)
                              /\ (Reply(m) = Reply(n) => m = n)
    BY DEF Human, Reply
  <2>3. Batch(t) \subseteq Messages /\ Batch(t) \subseteq 1..received
    <3>1. thread[t].batch \in Seq(Messages)
      BY ThreadTyped
    <3> QED
      BY <3>1, RangeOfSeq DEF Batch, IInv, MailIsSorted
  <2>4. Batch(t) = InHand(t)
    BY <1>2 DEF Batch, InHand, Running, Stage
  <2>5. \A u \in Messages : thread'[u].stage \in Trying <=> u # t /\ Stage(u) \in Trying
    BY <1>1, <1>5 DEF Moves, Stage, Trying
  <2>6. ASSUME NEW m \in Messages, Known(Human(m))'
        PROVE  /\ m <= received' /\ m \notin Range(buffer')
               /\ \A u \in Messages : thread'[u].stage \in Trying => m \notin Batch(u)'
    <3>1. CASE Known(Human(m))
      BY <1>3, <1>7, <2>5, <3>1 DEF IInv, SavesAreNews, Stage
    <3>2. CASE m \in Batch(t)
      <4>1. m <= received' /\ m \notin Range(buffer')
        BY <1>3, <2>3, <2>4, <3>2 DEF IInv, MailIsSorted
      <4>2. ASSUME NEW u \in Messages, thread'[u].stage \in Trying
            PROVE  m \notin Batch(u)'
        <5>1. u # t /\ InHand(u) = Batch(u)
          BY <2>5, <4>2 DEF InHand, Batch, Running, Stage
        <5> QED
          BY <1>7, <2>4, <3>2, <5>1 DEF IInv, MailIsSorted
      <4> QED
        BY <4>1, <4>2
    <3> QED
      BY <2>1, <2>2, <2>3, <2>6, <3>1, <3>2
  <2>7. ASSUME NEW u \in Messages, Known(Reply(u))'
        PROVE  thread'[u].stage \in {"saved", "done"}
    <3>1. CASE Known(Reply(u))
      <4>1. Stage(u) \in {"saved", "done"}
        BY <3>1 DEF IInv, SavesAreNews
      <4> QED
        BY <1>2, <1>5, <4>1 DEF Stage
    <3>2. CASE u = t
      BY <1>1, <3>2 DEF Moves
    <3> QED
      BY <2>1, <2>2, <2>3, <2>7, <3>1, <3>2
  <2>8. IsInjective(history') /\ \A u \in Messages : IsInjective(thread'[u].seen)
    BY <1>2, <1>4, <1>6 DEF IInv, SavesAreNews
  <2> QED
    BY <2>6, <2>7, <2>8 DEF SavesAreNews, Stage
<1>13. VerdictsAreSaved' /\ NotifiedLeadsAreHot'
  BY <1>1, <1>2 DEF IInv, VerdictsAreSaved, NotifiedLeadsAreHot, Moves, Stage
<1> QED
  BY <1>9, <1>10, <1>11, <1>12, <1>13 DEF IInv

\* The thread is through with its batch, by an answer or by an apology.
LEMMA DoneStep ==
    ASSUME IInv, NEW t \in Messages, SendReply(t) \/ Fail(t)
    PROVE  IInv'
<1>1. /\ Stage(t) \in Running /\ Go(t, "done") /\ answered' = answered \cup Batch(t)
      /\ UNCHANGED <<inbox, stored, notices, crashed>> /\ undisturbed' \in BOOLEAN
  BY DEF SendReply, Fail, At, Stage, Running, Batch, IInv, TypeOK
<1>2. PICK w \in Thread :
         /\ Moves(t, w) /\ w.stage = "done" /\ w.batch = thread[t].batch
         /\ w.seen = thread[t].seen
  BY <1>1, GoMoves DEF Stages
<1>3. /\ received' = received /\ buffer' = buffer /\ lost' = lost /\ history' = history
      /\ lead' = lead
  BY <1>1 DEF inbox, stored, crashed
<1>4. \A u \in Messages \ {t} : thread'[u] = thread[u]
  BY <1>2 DEF Moves
<1>5. \A u \in Messages : /\ thread'[u].batch = thread[u].batch
                          /\ thread'[u].seen = thread[u].seen
  BY <1>2, <1>4 DEF Moves
<1>6. \A u \in Messages : Batch(u)' = Batch(u)
  BY <1>5 DEF Batch
<1>7. /\ InHand(t)' = {} /\ InHand(t) = Batch(t)
      /\ \A u \in Messages \ {t} : InHand(u)' = InHand(u)
  BY <1>1, <1>2, <1>4 DEF InHand, Moves, Running, Trying, Stage, Batch
<1>8. Batch(t) \subseteq 1..received
  BY DEF IInv, MailIsSorted
<1>9. TypeOK'
  BY <1>1, <1>2, <1>8 DEF IInv, TypeOK, Moves, inbox, stored, crashed
<1>10. MailIsSorted'
  <2>1. \A u \in Messages : u > received => thread'[u] = thread[u]
    <3>1. t <= received /\ t \in Int /\ received \in Int
      BY <1>1, ThreadTyped DEF IInv, TypeOK, Messages, Running, Trying
    <3> QED
      BY <1>4, <3>1
  <2>2. Range(buffer) \cap Batch(t) = {}
    BY <1>7 DEF IInv, MailIsSorted
  <2>3. \A u \in Messages : InHand(u)' \cap (Range(buffer') \cup answered') = {}
    <3> SUFFICES ASSUME NEW u \in Messages
                 PROVE  InHand(u)' \cap (Range(buffer') \cup answered') = {}
      OBVIOUS
    <3>1. CASE u = t
      BY <1>7, <3>1
    <3>2. CASE u # t
      BY <1>1, <1>3, <1>7, <3>2 DEF IInv, MailIsSorted
    <3> QED
      BY <3>1, <3>2
  <2>4. \A u, v \in Messages : u # v => InHand(u)' \cap InHand(v)' = {}
    BY <1>7 DEF IInv, MailIsSorted
  <2>5. \A u \in Messages : u > received' => thread'[u] = NoThread
    BY <1>3, <2>1 DEF IInv, MailIsSorted
  <2>6. \A u \in Messages : Batch(u)' \subseteq 1..received' /\ IsInjective(thread'[u].batch)
    BY <1>3, <1>5, <1>6 DEF IInv, MailIsSorted
  <2> QED
    BY <1>1, <1>3, <2>2, <2>3, <2>4, <2>5, <2>6 DEF IInv, MailIsSorted
<1>11. NothingForgotten'
  <2>1. \A u \in Messages : thread[u].stage \in {"waiting", "fired"} =>
                              thread'[u].stage \in {"waiting", "fired"}
    BY <1>1, <1>4 DEF Stage, Running, Trying
  <2> SUFFICES ASSUME NEW m \in 1..received
               PROVE  \/ m \in answered' \cup lost'
                      \/ \E u \in Messages : m \in InHand(u)'
                      \/ /\ m \in Range(buffer')
                         /\ \E u \in Messages : thread'[u].stage \in {"waiting", "fired"}
    BY <1>3 DEF NothingForgotten
  <2> QED
    BY <1>1, <1>3, <1>7, <2>1 DEF IInv, NothingForgotten
<1>12. SavesAreNews'
  <2>1. \A e : Known(e)' <=> Known(e)
    BY <1>3, <1>5 DEF Known
  <2>2. \A u \in Messages :
           /\ thread'[u].stage \in Trying => Stage(u) \in Trying
           /\ Stage(u) \in {"saved", "done"} => thread'[u].stage \in {"saved", "done"}
    BY <1>2, <1>4 DEF Stage, Moves, Trying
  <2>3. ASSUME NEW m \in Messages, Known(Human(m))'
        PROVE  /\ m <= received' /\ m \notin Range(buffer')
               /\ \A u \in Messages : thread'[u].stage \in Trying => m \notin Batch(u)'
    <3>1. Known(Human(m))
      BY <2>1, <2>3
    <3> QED
      BY <1>3, <1>6, <2>2, <3>1 DEF IInv, SavesAreNews
  <2>4. \A u \in Messages : Known(Reply(u))' => thread'[u].stage \in {"saved", "done"}
    BY <2>1, <2>2 DEF IInv, SavesAreNews
  <2>5. IsInjective(history') /\ \A u \in Messages : IsInjective(thread'[u].seen)
    BY <1>3, <1>5 DEF IInv, SavesAreNews
  <2> QED
    BY <2>3, <2>4, <2>5 DEF SavesAreNews, Stage
<1>13. VerdictsAreSaved' /\ NotifiedLeadsAreHot'
  BY <1>2, <1>3 DEF IInv, VerdictsAreSaved, NotifiedLeadsAreHot, Moves, Stage
<1> QED
  BY <1>9, <1>10, <1>11, <1>12, <1>13 DEF IInv

LEMMA PopMoves ==
    ASSUME IInv, NEW t \in Messages, Pop(t)
    PROVE  \E w \in Thread :
              /\ Moves(t, w) /\ w.stage = (IF buffer = <<>> THEN "done" ELSE "popped")
              /\ w.batch = buffer /\ w.seen = thread[t].seen
<1> DEFINE stage == IF buffer = <<>> THEN "done" ELSE "popped"
           w == [thread[t] EXCEPT !.stage = stage, !.batch = buffer]
<1>1. thread' = [thread EXCEPT ![t] = w]
  BY DEF Pop, IInv, TypeOK
<1>2. /\ w \in Thread /\ w.stage = stage /\ w.batch = buffer /\ w.seen = thread[t].seen
  BY ThreadTyped DEF Thread, Stages, Running, Trying, IInv, TypeOK
<1> HIDE DEF w
<1>3. Moves(t, w)
  BY <1>1, <1>2 DEF Moves, IInv, TypeOK
<1> QED
  BY <1>2, <1>3

LEMMA PopStep ==
    ASSUME IInv, NEW t \in Messages, Pop(t)
    PROVE  IInv'
<1>1. PICK w \in Thread :
         /\ Moves(t, w) /\ w.stage = (IF buffer = <<>> THEN "done" ELSE "popped")
         /\ w.batch = buffer /\ w.seen = thread[t].seen
  BY PopMoves
<1>2. /\ Stage(t) = "fired" /\ buffer' = <<>> /\ registered' = 0
      /\ undisturbed' \in BOOLEAN
      /\ UNCHANGED <<received, stored, sent, crashed>>
  BY DEF Pop, At, Stage, IInv, TypeOK
<1>3. /\ received' = received /\ lost' = lost /\ history' = history /\ answered' = answered
      /\ lead' = lead
  BY <1>2 DEF stored, sent, crashed
<1>4. \A u \in Messages \ {t} : thread'[u] = thread[u]
  BY <1>1 DEF Moves
<1>5. \A u \in Messages : thread'[u].seen = thread[u].seen
  BY <1>1, <1>4 DEF Moves
<1>6. Range(buffer') = {} /\ IsInjective(buffer') /\ buffer' \in Seq(Messages)
  BY <1>2 DEF Range, IsInjective
<1>7. /\ Batch(t)' = Range(buffer)
      /\ \A u \in Messages \ {t} : Batch(u)' = Batch(u) /\ InHand(u)' = InHand(u)
  BY <1>1, <1>4 DEF Batch, InHand, Moves
<1>8. InHand(t) = {} /\ InHand(t)' = Range(buffer)
  <2>1. buffer = <<>> => Range(buffer) = {}
    BY DEF Range
  <2> QED
    BY <1>1, <1>2, <2>1 DEF InHand, Moves, Running, Trying, Stage
<1>9. TypeOK'
  <2>1. 0 \in 0..received'
    BY <1>3 DEF IInv, TypeOK
  <2> QED
    BY <1>1, <1>2, <1>3, <1>6, <2>1 DEF IInv, TypeOK, Moves, sent, crashed
<1>10. MailIsSorted'
  <2>1. \A u \in Messages : u > received => thread'[u] = thread[u]
    <3>1. t <= received /\ t \in Int /\ received \in Int
      BY <1>2, ThreadTyped DEF IInv, TypeOK, Messages
    <3> QED
      BY <1>4, <3>1
  <2>2. ASSUME NEW u \in Messages
        PROVE  /\ u > received' => thread'[u] = NoThread
               /\ Batch(u)' \subseteq 1..received' /\ IsInjective(thread'[u].batch)
               /\ InHand(u)' \cap answered' = {}
    <3>1. CASE u = t
      BY <1>1, <1>3, <1>7, <1>8, <2>1, <3>1 DEF IInv, MailIsSorted, Moves
    <3>2. CASE u # t
      BY <1>3, <1>4, <1>7, <2>1, <3>2 DEF IInv, MailIsSorted
    <3> QED
      BY <3>1, <3>2
  <2>3. \A u, v \in Messages : u # v => InHand(u)' \cap InHand(v)' = {}
    BY <1>7, <1>8 DEF IInv, MailIsSorted
  <2> QED
    BY <1>6, <2>2, <2>3 DEF MailIsSorted
<1>11. NothingForgotten'
  <2> SUFFICES ASSUME NEW m \in 1..received, m \notin answered, m \notin lost
               PROVE  \E u \in Messages : m \in InHand(u)'
    BY <1>3 DEF NothingForgotten
  <2>1. m \in Range(buffer) \/ \E u \in Messages : m \in InHand(u)
    BY DEF IInv, NothingForgotten
  <2> QED
    BY <1>7, <1>8, <2>1
<1>12. SavesAreNews'
  <2>1. \A e : Known(e)' <=> Known(e)
    BY <1>3, <1>5 DEF Known
  <2>2. \A u \in Messages \ {t} : thread'[u].stage = Stage(u)
    BY <1>4 DEF Stage
  <2>3. ASSUME NEW m \in Messages, Known(Human(m))'
        PROVE  /\ m <= received' /\ m \notin Range(buffer')
               /\ \A u \in Messages : thread'[u].stage \in Trying => m \notin Batch(u)'
    <3>1. Known(Human(m))
      BY <2>1, <2>3
    <3> QED
      BY <1>3, <1>6, <1>7, <2>2, <3>1 DEF IInv, SavesAreNews
  <2>4. ASSUME NEW u \in Messages, Known(Reply(u))'
        PROVE  thread'[u].stage \in {"saved", "done"}
    <3>1. Stage(u) \in {"saved", "done"}
      BY <2>1, <2>4 DEF IInv, SavesAreNews
    <3> QED
      BY <1>2, <2>2, <3>1
  <2>5. IsInjective(history') /\ \A u \in Messages : IsInjective(thread'[u].seen)
    BY <1>3, <1>5 DEF IInv, SavesAreNews
  <2> QED
    BY <2>3, <2>4, <2>5 DEF SavesAreNews, Stage
<1>13. VerdictsAreSaved' /\ NotifiedLeadsAreHot'
  BY <1>1, <1>3 DEF IInv, VerdictsAreSaved, NotifiedLeadsAreHot, Moves, Stage
<1> QED
  BY <1>9, <1>10, <1>11, <1>12, <1>13 DEF IInv

LEMMA CrashStep ==
    ASSUME IInv, Crash
    PROVE  IInv'
<1>1. /\ thread' \in [Messages -> Thread]
      /\ \A u \in Messages :
            /\ thread'[u].batch = thread[u].batch /\ thread'[u].seen = thread[u].seen
            /\ thread'[u].stage \in {"none", "done"}
            /\ Stage(u) # "none" => thread'[u].stage = "done"
            /\ Stage(u) = "none" => thread'[u] = thread[u]
  <2> DEFINE new(u) == IF Stage(u) = "none" THEN thread[u] ELSE [thread[u] EXCEPT !.stage = "done"]
  <2>1. thread' = [u \in Messages |-> new(u)]
    BY DEF Crash, At, Stage
  <2>2. \A u \in Messages :
           /\ new(u) \in Thread /\ new(u).batch = thread[u].batch /\ new(u).seen = thread[u].seen
           /\ new(u).stage \in {"none", "done"}
           /\ Stage(u) # "none" => new(u).stage = "done"
           /\ Stage(u) = "none" => new(u) = thread[u]
    BY DEF IInv, TypeOK, Thread, Stages, Stage
  <2> HIDE DEF new
  <2> QED
    BY <2>1, <2>2
<1>2. /\ buffer' = <<>> /\ registered' = 0 /\ lost' = (1..received) \ answered
      /\ crashes' \in 0..MaxCrashes /\ undisturbed' = FALSE
      /\ received' = received /\ history' = history /\ lead' = lead
      /\ notices' = notices /\ answered' = answered
  <2>1. crashes' = crashes + 1 /\ crashes < MaxCrashes
    BY DEF Crash
  <2>2. crashes \in 0..MaxCrashes /\ MaxCrashes \in Nat
    BY BoundsAssumption DEF IInv, TypeOK
  <2>3. crashes' \in 0..MaxCrashes
    BY <2>1, <2>2
  <2> QED
    BY <2>3 DEF Crash, stored, sent
<1>3. Range(buffer') = {} /\ IsInjective(buffer') /\ buffer' \in Seq(Messages)
  BY <1>2 DEF Range, IsInjective
<1>4. \A u \in Messages : InHand(u)' = {} /\ Batch(u)' = Batch(u)
  BY <1>1 DEF InHand, Running, Trying, Batch
<1>5. \A e : Known(e)' <=> Known(e)
  BY <1>1, <1>2 DEF Known
<1>6. TypeOK'
  <2>1. 0 \in 0..received' /\ lost' \subseteq 1..received'
    BY <1>2 DEF IInv, TypeOK
  <2> QED
    BY <1>1, <1>2, <1>3, <2>1 DEF IInv, TypeOK
<1>7. MailIsSorted'
  <2>1. \A u \in Messages : u > received => thread'[u] = NoThread
    BY <1>1 DEF IInv, MailIsSorted, NoThread, Stage
  <2> QED
    BY <1>1, <1>2, <1>3, <1>4, <2>1 DEF IInv, MailIsSorted
<1>8. NothingForgotten'
  BY <1>2 DEF NothingForgotten
<1>9. SavesAreNews'
  <2>1. \A u \in Messages : thread'[u].stage \notin Trying
    BY <1>1 DEF Trying
  <2>2. ASSUME NEW m \in Messages, Known(Human(m))'
        PROVE  m <= received'
    BY <1>2, <1>5, <2>2 DEF IInv, SavesAreNews
  <2>3. ASSUME NEW u \in Messages, Known(Reply(u))'
        PROVE  thread'[u].stage \in {"saved", "done"}
    BY <1>1, <1>5, <2>3 DEF IInv, SavesAreNews
  <2>4. IsInjective(history') /\ \A u \in Messages : IsInjective(thread'[u].seen)
    BY <1>1, <1>2 DEF IInv, SavesAreNews
  <2> QED
    BY <1>3, <2>1, <2>2, <2>3, <2>4 DEF SavesAreNews, Stage
<1>10. VerdictsAreSaved' /\ NotifiedLeadsAreHot'
  BY <1>1, <1>2 DEF IInv, VerdictsAreSaved, NotifiedLeadsAreHot, Stage
<1> QED
  BY <1>6, <1>7, <1>8, <1>9, <1>10 DEF IInv

LEMMA ReceiveFrame ==
    ASSUME IInv, Receive
    PROVE  /\ received + 1 \in Messages /\ thread[received + 1] = NoThread
           /\ thread' \in [Messages -> Thread]
           /\ \A u \in Messages :
                 /\ thread'[u].batch = thread[u].batch /\ thread'[u].seen = thread[u].seen
                 /\ thread'[u].notified = thread[u].notified /\ thread'[u].hot = thread[u].hot
                 /\ u = received + 1 => thread'[u].stage = "waiting"
                 /\ u # received + 1 =>
                       \/ thread'[u].stage = Stage(u)
                       \/ (Stage(u) = "waiting" /\ thread'[u].stage = "cancelled")
                 /\ u > received + 1 => thread'[u] = NoThread
<1>1. /\ received \in Nat /\ received < MaxMessages /\ MaxMessages \in Nat
      /\ registered \in 0..received
  BY BoundsAssumption DEF Receive, IInv, TypeOK
<1>2. PICK m \in Messages : m = received + 1 /\ m > received
  BY <1>1 DEF Messages
<1>3. thread[m] = NoThread
  BY <1>2 DEF IInv, MailIsSorted
<1> DEFINE others == IF registered = 0 THEN thread ELSE Cancelled(registered)
<1>4. thread' = [others EXCEPT ![m].stage = "waiting"]
  BY <1>2 DEF Receive
<1>5. /\ others \in [Messages -> Thread] /\ others[m] = thread[m]
      /\ \A u \in Messages :
            /\ others[u].batch = thread[u].batch /\ others[u].seen = thread[u].seen
            /\ others[u].notified = thread[u].notified /\ others[u].hot = thread[u].hot
            /\ \/ others[u].stage = Stage(u)
               \/ (Stage(u) = "waiting" /\ others[u].stage = "cancelled")
            /\ u > m => others[u] = NoThread
  <2>1. CASE registered = 0
    <3>1. others = thread
      BY <2>1
    <3>2. thread \in [Messages -> Thread] /\ \A u \in Messages : u > m => thread[u] = NoThread
      BY <1>1, <1>2 DEF IInv, TypeOK, MailIsSorted, Messages
    <3> HIDE DEF others
    <3> QED
      BY <3>1, <3>2 DEF Stage
  <2>2. CASE registered # 0
    <3>1. PICK old \in Messages : old = registered /\ old <= received
      BY <1>1, <2>2 DEF Messages
    <3> DEFINE w == [thread[old] EXCEPT !.stage = IF @ = "waiting" THEN "cancelled" ELSE @]
    <3>2. /\ w \in Thread /\ w.batch = thread[old].batch /\ w.seen = thread[old].seen
          /\ w.notified = thread[old].notified /\ w.hot = thread[old].hot
          /\ \/ w.stage = Stage(old)
             \/ (Stage(old) = "waiting" /\ w.stage = "cancelled")
      BY ThreadTyped DEF Thread, Stages, Stage
    <3>3. others = [thread EXCEPT ![old] = w]
      BY <2>2, <3>1 DEF Cancelled, IInv, TypeOK
    <3>4. thread \in [Messages -> Thread] /\ \A u \in Messages : u > m => thread[u] = NoThread
      BY <1>1, <1>2 DEF IInv, TypeOK, MailIsSorted, Messages
    <3>5. old # m /\ ~(old > m)
      BY <1>1, <1>2, <3>1 DEF Messages
    <3> HIDE DEF others, w
    <3> QED
      BY <3>2, <3>3, <3>4, <3>5 DEF Stage
  <2> QED
    BY <2>1, <2>2
<1> DEFINE new == [others[m] EXCEPT !.stage = "waiting"]
<1>6. thread' = [others EXCEPT ![m] = new]
  BY <1>4, <1>5
<1>7. /\ new \in Thread /\ new.stage = "waiting" /\ new.batch = thread[m].batch
      /\ new.seen = thread[m].seen /\ new.notified = thread[m].notified
      /\ new.hot = thread[m].hot
  BY <1>5 DEF Thread, Stages
<1> HIDE DEF others, new
<1>8. /\ thread' \in [Messages -> Thread] /\ thread'[m] = new
      /\ \A u \in Messages \ {m} : thread'[u] = others[u]
  BY <1>5, <1>6, <1>7
<1> QED
  BY <1>1, <1>2, <1>3, <1>5, <1>7, <1>8 DEF Messages

LEMMA ReceiveStep ==
    ASSUME IInv, Receive
    PROVE  IInv'
<1>1. PICK m \in Messages : m = received + 1
  BY ReceiveFrame
<1>2. /\ thread[m] = NoThread /\ thread' \in [Messages -> Thread]
      /\ \A u \in Messages :
            /\ thread'[u].batch = thread[u].batch /\ thread'[u].seen = thread[u].seen
            /\ thread'[u].hot = thread[u].hot
            /\ u = m => thread'[u].stage = "waiting"
            /\ u # m => \/ thread'[u].stage = Stage(u)
                        \/ (Stage(u) = "waiting" /\ thread'[u].stage = "cancelled")
            /\ u > m => thread'[u] = NoThread
  BY <1>1, ReceiveFrame
<1>3. /\ received' = m /\ buffer' = Append(buffer, m) /\ registered' = m
      /\ history' = history /\ lead' = lead /\ notices' = notices /\ answered' = answered
      /\ lost' = lost /\ crashes' = crashes /\ undisturbed' = undisturbed
  BY <1>1 DEF Receive, stored, sent, crashed
<1>4. /\ received \in Nat /\ m \in Nat /\ m <= MaxMessages /\ MaxMessages \in Nat
      /\ m \notin 1..received /\ 1..received \subseteq 1..m /\ m \in 1..m
  BY <1>1, BoundsAssumption DEF IInv, TypeOK, Messages
<1>5. /\ buffer' \in Seq(Messages) /\ Range(buffer') = Range(buffer) \cup {m}
      /\ IsInjective(buffer')
  <2>1. buffer \in Seq(Messages) /\ IsInjective(buffer) /\ m \notin Range(buffer)
    BY <1>4 DEF IInv, TypeOK, MailIsSorted
  <2> QED
    BY <1>3, <2>1, AppendRange
<1>6. \A u \in Messages : Batch(u)' = Batch(u)
  BY <1>2 DEF Batch
<1>7. \A u \in Messages : InHand(u)' = InHand(u)
  <2>1. \A u \in Messages : thread'[u].stage \in Running <=> Stage(u) \in Running
    BY <1>2 DEF Stage, Running, Trying, NoThread
  <2> QED
    BY <1>6, <2>1 DEF InHand, Stage, Batch
<1>8. \A u \in Messages : Batch(u) \subseteq 1..received /\ InHand(u) \subseteq Batch(u)
  BY DEF IInv, MailIsSorted, InHand, Batch
<1>9. \A e : Known(e)' <=> Known(e)
  BY <1>2, <1>3 DEF Known
<1>10. TypeOK'
  <2>1. m \in 0..MaxMessages /\ m \in 0..m
    BY <1>4
  <2> QED
    BY <1>2, <1>3, <1>4, <1>5, <2>1 DEF IInv, TypeOK
<1>11. MailIsSorted'
  <2>1. Range(buffer') \subseteq 1..m /\ Range(buffer') \cap answered = {}
    BY <1>4, <1>5 DEF IInv, MailIsSorted, TypeOK
  <2>2. \A u \in Messages : u > received' => thread'[u] = NoThread
    BY <1>2, <1>3
  <2>3. \A u \in Messages : Batch(u)' \subseteq 1..received' /\ IsInjective(thread'[u].batch)
    BY <1>2, <1>3, <1>4, <1>6 DEF IInv, MailIsSorted
  <2>4. ASSUME NEW u \in Messages
        PROVE  InHand(u)' \cap (Range(buffer') \cup answered') = {}
    <3>1. InHand(u) \cap (Range(buffer) \cup answered) = {} /\ m \notin InHand(u)
      BY <1>4, <1>8 DEF IInv, MailIsSorted
    <3> QED
      BY <1>3, <1>5, <1>7, <3>1
  <2>5. \A u, v \in Messages : u # v => InHand(u)' \cap InHand(v)' = {}
    BY <1>7 DEF IInv, MailIsSorted
  <2> QED
    BY <1>3, <1>5, <2>1, <2>2, <2>3, <2>4, <2>5 DEF MailIsSorted
<1>12. NothingForgotten'
  <2> SUFFICES ASSUME NEW n \in 1..m
               PROVE  \/ n \in answered \cup lost
                      \/ \E u \in Messages : n \in InHand(u)
                      \/ n \in Range(buffer')
    BY <1>2, <1>3, <1>7 DEF NothingForgotten
  <2>1. CASE n = m
    BY <1>5, <2>1
  <2>2. CASE n \in 1..received
    BY <1>5, <2>2 DEF IInv, NothingForgotten
  <2> QED
    BY <1>1, <1>4, <2>1, <2>2
<1>13. SavesAreNews'
  <2>1. \A u \in Messages :
           /\ thread'[u].stage \in Trying => Stage(u) \in Trying
           /\ Stage(u) \in {"saved", "done"} => thread'[u].stage \in {"saved", "done"}
    BY <1>2 DEF Stage, Trying, NoThread
  <2>2. ASSUME NEW n \in Messages, Known(Human(n))'
        PROVE  /\ n <= received' /\ n \notin Range(buffer')
               /\ \A u \in Messages : thread'[u].stage \in Trying => n \notin Batch(u)'
    <3>1. /\ n <= received /\ n \notin Range(buffer)
          /\ \A u \in Messages : Stage(u) \in Trying => n \notin Batch(u)
      BY <1>9, <2>2 DEF IInv, SavesAreNews
    <3>2. n <= m /\ n # m
      BY <1>1, <1>4, <3>1 DEF Messages
    <3> QED
      BY <1>3, <1>5, <1>6, <2>1, <3>1, <3>2
  <2>3. \A u \in Messages : Known(Reply(u))' => thread'[u].stage \in {"saved", "done"}
    BY <1>9, <2>1 DEF IInv, SavesAreNews
  <2>4. IsInjective(history') /\ \A u \in Messages : IsInjective(thread'[u].seen)
    BY <1>2, <1>3 DEF IInv, SavesAreNews
  <2> QED
    BY <2>2, <2>3, <2>4 DEF SavesAreNews, Stage
<1>14. VerdictsAreSaved' /\ NotifiedLeadsAreHot'
  BY <1>2, <1>3 DEF IInv, VerdictsAreSaved, NotifiedLeadsAreHot, Stage
<1> QED
  BY <1>10, <1>11, <1>12, <1>13, <1>14 DEF IInv

-----------------------------------------------------------------------------
LEMMA InitHolds == Init => IInv
<1> SUFFICES ASSUME Init PROVE IInv
  OBVIOUS
<1>1. \A t \in Messages : thread[t] = NoThread
  BY DEF Init
<1>2. NoThread \in Thread /\ NoThread.stage = "none" /\ NoThread.batch = <<>> /\ NoThread.seen = <<>>
  <2>1. <<>> \in Seq(Messages) /\ <<>> \in Seq(Entries)
    OBVIOUS
  <2> QED
    BY <2>1 DEF NoThread, Thread, Stages
<1>3. Range(<<>>) = {} /\ IsInjective(<<>>)
  BY DEF Range, IsInjective
<1>4. TypeOK
  <2>1. <<>> \in Seq(Messages) /\ <<>> \in Seq(Entries)
    OBVIOUS
  <2>2. 0 \in 0..MaxMessages /\ 0 \in 0..MaxCrashes /\ 0 \in 0..0 /\ 0 \in Nat
    BY BoundsAssumption
  <2> QED
    BY <1>2, <2>1, <2>2 DEF Init, TypeOK
<1>5. \A t \in Messages : InHand(t) = {} /\ Batch(t) = {} /\ Range(thread[t].seen) = {}
                         /\ Stage(t) = "none" /\ IsInjective(thread[t].batch)
                         /\ IsInjective(thread[t].seen)
  BY <1>1, <1>2, <1>3 DEF InHand, Batch, Stage, Running, Trying
<1>6. MailIsSorted
  BY <1>1, <1>3, <1>5 DEF Init, MailIsSorted
<1>7. \A e : ~Known(e)
  BY <1>3, <1>5 DEF Init, Known
<1>8. SavesAreNews
  BY <1>3, <1>5, <1>7 DEF Init, SavesAreNews
<1> QED
  BY <1>4, <1>5, <1>6, <1>8 DEF Init, IInv, NothingForgotten, VerdictsAreSaved, NotifiedLeadsAreHot

LEMMA StepHolds == IInv /\ [Next]_vars => IInv'
<1> SUFFICES ASSUME IInv, [Next]_vars PROVE IInv'
  OBVIOUS
<1>1. ASSUME NEW t \in Messages, Fire(t) \/ Pop(t) \/ Work(t) PROVE IInv'
  BY <1>1, FireStep, PopStep, LoadHistoryStep, ReadLeadStep, InvokeStep, LeadStep,
     SaveHistoryStep, DoneStep DEF Work
<1>2. CASE UNCHANGED vars
  <2>1. UNCHANGED <<inbox, history, answered, lost>>
    BY <1>2 DEF vars, inbox
  <2>2. Steady
    BY <1>2 DEF vars, Steady, IInv, TypeOK, Stage
  <2>3. MailIsSorted' /\ SavesAreNews' /\ NothingForgotten'
    BY <2>1, <2>2, SteadyStep
  <2> QED
    BY <1>2, <2>3 DEF vars, IInv, TypeOK, VerdictsAreSaved, NotifiedLeadsAreHot, Stage
<1> QED
  BY <1>1, <1>2, ReceiveStep, CrashStep DEF Next

LEMMA Invariant == Spec => []IInv
BY InitHolds, StepHolds, PTL DEF Spec

\* Every variable keeps its type (server.py).
THEOREM TypeCorrect == Spec => []TypeOK
<1>1. IInv => TypeOK
  BY DEF IInv
<1> QED
  BY <1>1, Invariant, PTL

\* However timers race the messages that cancel them and threads overlap, no message
\* is taken or answered by two threads, nor stored twice (server.py webhook, _process).
THEOREM MessagesAreHandledOnce == Spec => []HandledOnce
<1>1. IInv => HandledOnce
  BY DEF IInv, MailIsSorted, SavesAreNews, HandledOnce
<1> QED
  BY <1>1, Invariant, PTL

\* A message disappears in a restart only: otherwise it is answered, in the hands of
\* a thread, or in the buffer with a timer that is still to take it (server.py).
THEOREM NoMessageIsForgotten == Spec => []NothingForgotten
<1>1. IInv => NothingForgotten
  BY DEF IInv
<1> QED
  BY <1>1, Invariant, PTL

\* A lead the operator is marked as told of is hot in the table, whatever cooler
\* verdicts overlapping threads save (app/conversation save_lead, mark_juan_notified).
THEOREM AnnouncedLeadsAreHot == Spec => []NotifiedLeadsAreHot
<1>1. IInv => NotifiedLeadsAreHot
  BY DEF IInv
<1> QED
  BY <1>1, Invariant, PTL

-----------------------------------------------------------------------------
(***************************************************************************)
(* In order as long as nothing is disturbed.                               *)
(***************************************************************************)
LEMMA TakenTyped ==
    ASSUME IInv, BufferIsInOrder
    PROVE  /\ Taken \in Nat /\ received \in Nat /\ received <= MaxMessages
           /\ MaxMessages \in Nat
           /\ Len(buffer) \in Nat /\ DOMAIN buffer = 1..Len(buffer)
           /\ Taken + Len(buffer) = received
           /\ buffer # <<>> => Len(buffer) > 0
           /\ Range(buffer) = {Taken + i : i \in 1..Len(buffer)}
<1>1. /\ buffer \in Seq(Messages) /\ received \in Nat /\ received <= MaxMessages
      /\ MaxMessages \in Nat /\ Range(buffer) \subseteq 1..received
  BY BoundsAssumption DEF IInv, TypeOK, MailIsSorted
<1>2. /\ Len(buffer) \in Nat /\ DOMAIN buffer = 1..Len(buffer)
      /\ buffer # <<>> => Len(buffer) > 0
  BY <1>1
<1>3. \A i \in 1..Len(buffer) : buffer[i] = Taken + i
  BY <1>2 DEF BufferIsInOrder, Consecutive
<1>4. CASE Len(buffer) = 0
  BY <1>1, <1>2, <1>4 DEF Taken, Range
<1>5. CASE Len(buffer) > 0
  <2>1. 1 \in DOMAIN buffer /\ buffer[1] \in 1..received /\ buffer[1] = Taken + 1
    BY <1>1, <1>2, <1>3, <1>5 DEF Range
  <2>2. Taken \in Nat /\ Taken + Len(buffer) = received
    BY <1>1, <1>2, <2>1 DEF Taken
  <2>3. Range(buffer) = {Taken + i : i \in 1..Len(buffer)}
    BY <1>2, <1>3 DEF Range
  <2> QED
    BY <1>1, <1>2, <2>2, <2>3
<1> QED
  BY <1>2, <1>4, <1>5

LEMMA BufferStep ==
    ASSUME IInv, BufferIsInOrder, [Next]_vars
    PROVE  BufferIsInOrder'
<1>1. CASE Receive
  <2>1. /\ buffer \in Seq(Messages) /\ received + 1 \in Messages
        /\ received' = received + 1 /\ buffer' = Append(buffer, received + 1)
    BY <1>1, ReceiveFrame DEF Receive, IInv, TypeOK
  <2>2. /\ Taken \in Nat /\ Len(buffer) \in Nat /\ DOMAIN buffer = 1..Len(buffer)
        /\ Taken + Len(buffer) = received /\ received \in Nat
    BY TakenTyped
  <2>3. /\ DOMAIN buffer' = 1..(Len(buffer) + 1) /\ Len(buffer') = Len(buffer) + 1
        /\ \A i \in 1..Len(buffer) : buffer'[i] = buffer[i]
        /\ buffer'[Len(buffer) + 1] = received + 1
    BY <2>1
  <2>4. Taken' = Taken
    BY <2>1, <2>2, <2>3 DEF Taken
  <2>5. \A i \in DOMAIN buffer' : buffer'[i] = Taken + i
    BY <2>2, <2>3 DEF BufferIsInOrder, Consecutive
  <2> QED
    BY <2>4, <2>5 DEF BufferIsInOrder, Consecutive
<1>2. CASE UNCHANGED <<received, buffer>>
  BY <1>2 DEF BufferIsInOrder, Consecutive, Taken
<1>3. CASE buffer' = <<>>
  BY <1>3 DEF BufferIsInOrder, Consecutive
<1> QED
  BY <1>1, <1>2, <1>3 DEF Next, vars, Fire, Pop, Work, LoadHistory, ReadLead, Invoke, SaveLead,
     MarkNotified, SaveHistory, SendReply, Fail, Crash, inbox

\* Steps of other threads than those at work: a message arrives, a timer is over.
LEMMA QuietStep ==
    ASSUME InOrder, UNCHANGED <<history, lead, notices>>, Taken' = Taken,
           \A u \in Messages :
              /\ thread'[u].batch = thread[u].batch /\ thread'[u].seen = thread[u].seen
              /\ thread'[u].notified = thread[u].notified /\ thread'[u].hot = thread[u].hot
              /\ \/ thread'[u].stage = Stage(u)
                 \/ {thread'[u].stage, Stage(u)} \cap (Running \cup {"done"}) = {}
    PROVE  InOrder'
<1>1. \A u \in Messages : \A stage \in Running \cup {"done"} :
         thread'[u].stage = stage <=> Stage(u) = stage
  OBVIOUS
<1>2. \A u \in Messages :
         /\ thread'[u].stage \in Running <=> Stage(u) \in Running
         /\ thread'[u].stage \in Trying <=> Stage(u) \in Trying
         /\ thread'[u].stage \in {"saved", "done"} <=> Stage(u) \in {"saved", "done"}
         /\ Announcing(u)' <=> Announcing(u)
  BY <1>1 DEF Running, Trying, Announcing, Stage
<1>3. Saved' = Saved
  <2>1. \A u \in Messages : Batch(u)' = Batch(u)
    BY DEF Batch
  <2> QED
    BY <1>2, <2>1 DEF Saved, Stage
<1>4. Alone' /\ InTurn'
  <2>1. Alone'
    BY <1>2 DEF InOrder, Alone, Stage
  <2>2. PICK n \in 0..Taken :
           /\ Saved = 1..n
           /\ (\A t \in Messages : Stage(t) \notin Trying) => n = Taken
           /\ \A t \in Messages : Stage(t) \in Trying =>
                 Consecutive(thread[t].batch, n) /\ n + Len(thread[t].batch) = Taken
    BY DEF InOrder, InTurn
  <2>3. /\ (\A t \in Messages : thread'[t].stage \notin Trying) => n = Taken'
        /\ \A t \in Messages : thread'[t].stage \in Trying =>
              Consecutive(thread'[t].batch, n) /\ n + Len(thread'[t].batch) = Taken'
    BY <1>2, <2>2
  <2>4. n \in 0..Taken' /\ Saved' = 1..n
    BY <1>3, <2>2
  <2> QED
    BY <2>1, <2>3, <2>4 DEF InTurn, Stage, Consecutive
<1>5. ReadsHold'
  <2>1. \A u \in Messages :
           /\ thread'[u].stage \in Trying \ {"popped"} <=> Stage(u) \in Trying \ {"popped"}
           /\ thread'[u].stage \in {"read", "invoked", "lead_saved"} <=>
                 Stage(u) \in {"read", "invoked", "lead_saved"}
    BY <1>1 DEF Running, Trying
  <2> QED
    BY <2>1 DEF InOrder, ReadsHold, Stage
<1>6. ToldOnce' /\ HistoryIsInOrder'
  BY <1>2, <1>3 DEF InOrder, ToldOnce, HistoryIsInOrder
<1> QED
  BY <1>4, <1>5, <1>6 DEF InOrder

\* The thread at work goes on in its try block.
LEMMA TryingStep ==
    ASSUME InOrder, NEW t \in Messages, NEW w, Moves(t, w), Stage(t) \in Trying, w.stage \in Trying,
           w.batch = thread[t].batch, UNCHANGED <<received, buffer, history>>
    PROVE  /\ Alone' /\ InTurn' /\ HistoryIsInOrder'
           /\ \A u \in Messages \ {t} : Stage(u) \notin Running /\ thread'[u] = thread[u]
<1>1. \A u \in Messages \ {t} : Stage(u) \notin Running /\ thread'[u] = thread[u]
  BY DEF InOrder, Alone, Running, Moves
<1>2. \A u \in Messages :
         /\ thread'[u].batch = thread[u].batch
         /\ thread'[u].stage \in Trying <=> Stage(u) \in Trying
         /\ thread'[u].stage \in {"saved", "done"} <=> Stage(u) \in {"saved", "done"}
  BY <1>1 DEF Moves, Stage, Trying
<1>3. Saved' = Saved
  <2>1. \A u \in Messages : Batch(u)' = Batch(u)
    BY <1>2 DEF Batch
  <2> QED
    BY <1>2, <2>1 DEF Saved, Stage
<1>4. Alone'
  BY <1>1 DEF Alone, Stage
<1>5. InTurn'
  <2>1. PICK n \in 0..Taken :
           /\ Saved = 1..n
           /\ (\A u \in Messages : Stage(u) \notin Trying) => n = Taken
           /\ \A u \in Messages : Stage(u) \in Trying =>
                 Consecutive(thread[u].batch, n) /\ n + Len(thread[u].batch) = Taken
    BY DEF InOrder, InTurn
  <2>2. Taken' = Taken
    BY DEF Taken
  <2>3. /\ (\A u \in Messages : thread'[u].stage \notin Trying) => n = Taken'
        /\ \A u \in Messages : thread'[u].stage \in Trying =>
              Consecutive(thread'[u].batch, n) /\ n + Len(thread'[u].batch) = Taken'
    BY <1>2, <2>1, <2>2
  <2>4. n \in 0..Taken' /\ Saved' = 1..n
    BY <1>3, <2>1, <2>2
  <2> QED
    BY <2>3, <2>4 DEF InTurn, Stage, Consecutive
<1>6. HistoryIsInOrder'
  BY <1>3 DEF InOrder, HistoryIsInOrder
<1> QED
  BY <1>1, <1>4, <1>5, <1>6

\* What it read holds, and an announcement is its own.
LEMMA OneReader ==
    ASSUME NEW t \in Messages,
           \A u \in Messages \ {t} : Stage(u) \notin Running /\ thread'[u] = thread[u],
           thread'[t].stage \in Trying \ {"popped"} => thread'[t].seen = history',
           thread'[t].stage \in {"read", "invoked", "lead_saved"} =>
              thread'[t].notified = lead'.notified
    PROVE  ReadsHold' /\ \A u \in Messages \ {t} : ~Announcing(u) /\ ~Announcing(u)'
BY DEF ReadsHold, Announcing, Stage, Running, Trying

LEMMA InOrderLoads ==
    ASSUME IInv, InOrder, NEW t \in Messages, LoadHistory(t)
    PROVE  InOrder'
<1> DEFINE w == [thread[t] EXCEPT !.stage = "loaded", !.seen = history]
<1>1. /\ Stage(t) = "popped" /\ thread' = [thread EXCEPT ![t] = w]
      /\ UNCHANGED <<received, buffer, history, lead, notices>>
  BY DEF LoadHistory, At, Stage, IInv, TypeOK, inbox, stored, sent
<1>2. /\ w \in Thread /\ w.stage = "loaded" /\ w.batch = thread[t].batch /\ w.seen = history
  BY ThreadTyped DEF Thread, Stages, Running, Trying, IInv, TypeOK
<1> HIDE DEF w
<1>3. Moves(t, w)
  BY <1>1, <1>2 DEF Moves, IInv, TypeOK
<1>4. /\ Alone' /\ InTurn' /\ HistoryIsInOrder'
      /\ \A u \in Messages \ {t} : Stage(u) \notin Running /\ thread'[u] = thread[u]
  BY <1>1, <1>2, <1>3, TryingStep DEF Trying
<1>5. ReadsHold' /\ \A u \in Messages \ {t} : ~Announcing(u) /\ ~Announcing(u)'
  BY <1>1, <1>2, <1>3, <1>4, OneReader DEF Moves
<1>6. ~Announcing(t)
  BY <1>1 DEF Announcing
<1>7. ToldOnce'
  BY <1>1, <1>5, <1>6 DEF InOrder, ToldOnce
<1> QED
  BY <1>4, <1>5, <1>7 DEF InOrder

LEMMA InOrderReads ==
    ASSUME IInv, InOrder, NEW t \in Messages, ReadLead(t)
    PROVE  InOrder'
<1> DEFINE w == [thread[t] EXCEPT !.stage = "read", !.notified = lead.notified]
<1>1. /\ Stage(t) = "loaded" /\ thread' = [thread EXCEPT ![t] = w]
      /\ UNCHANGED <<received, buffer, history, lead, notices>>
  BY DEF ReadLead, At, Stage, IInv, TypeOK, inbox, stored, sent
<1>2. /\ w \in Thread /\ w.stage = "read" /\ w.batch = thread[t].batch
      /\ w.seen = thread[t].seen /\ w.notified = lead.notified
  BY ThreadTyped DEF Thread, Stages, Running, Trying, IInv, TypeOK
<1> HIDE DEF w
<1>3. Moves(t, w)
  BY <1>1, <1>2 DEF Moves, IInv, TypeOK
<1>4. /\ Alone' /\ InTurn' /\ HistoryIsInOrder'
      /\ \A u \in Messages \ {t} : Stage(u) \notin Running /\ thread'[u] = thread[u]
  BY <1>1, <1>2, <1>3, TryingStep DEF Trying
<1>5. thread[t].seen = history
  BY <1>1 DEF InOrder, ReadsHold, Trying
<1>6. ReadsHold' /\ \A u \in Messages \ {t} : ~Announcing(u) /\ ~Announcing(u)'
  BY <1>1, <1>2, <1>3, <1>4, <1>5, OneReader DEF Moves
<1>7. ~Announcing(t)
  BY <1>1 DEF Announcing
<1>8. ToldOnce'
  BY <1>1, <1>6, <1>7 DEF InOrder, ToldOnce
<1> QED
  BY <1>4, <1>6, <1>8 DEF InOrder

\* A lead is announced only if it is not marked, and then nothing was announced
\* before.
LEMMA InOrderInvokes ==
    ASSUME IInv, InOrder, NEW t \in Messages, Invoke(t)
    PROVE  InOrder'
<1>1. PICK w \in Thread :
         /\ Moves(t, w) /\ w.stage = "invoked" /\ w.batch = thread[t].batch
         /\ w.seen = thread[t].seen /\ w.notified = thread[t].notified
         /\ notices' = IF w.hot /\ ~w.notified THEN notices + 1 ELSE notices
  BY InvokeMoves
<1>2. /\ Stage(t) = "read" /\ UNCHANGED <<received, buffer, history, lead>>
  BY DEF Invoke, At, Stage, inbox, stored
<1>3. /\ Alone' /\ InTurn' /\ HistoryIsInOrder'
      /\ \A u \in Messages \ {t} : Stage(u) \notin Running /\ thread'[u] = thread[u]
  BY <1>1, <1>2, TryingStep DEF Trying
<1>4. thread[t].seen = history /\ thread[t].notified = lead.notified
  BY <1>2 DEF InOrder, ReadsHold, Trying
<1>5. ReadsHold' /\ \A u \in Messages \ {t} : ~Announcing(u) /\ ~Announcing(u)'
  BY <1>1, <1>2, <1>3, <1>4, OneReader DEF Moves
<1>6. ~Announcing(t)
  BY <1>2 DEF Announcing
<1>7. ToldOnce'
  <2>1. notices = 1 => lead.notified
    BY <1>5, <1>6 DEF InOrder, ToldOnce
  <2>2. notices \in {0, 1}
    BY DEF InOrder, ToldOnce
  <2>3. CASE w.hot /\ ~w.notified
    <3>1. notices' = 1
      BY <1>1, <1>4, <2>1, <2>2, <2>3
    <3>2. Announcing(t)'
      BY <1>1, <2>3 DEF Announcing, Stage, Moves
    <3> QED
      BY <3>1, <3>2 DEF ToldOnce
  <2>4. CASE ~(w.hot /\ ~w.notified)
    <3>1. notices' = notices
      BY <1>1, <2>4
    <3> QED
      BY <1>2, <2>1, <2>2, <3>1 DEF ToldOnce
  <2> QED
    BY <2>3, <2>4
<1> QED
  BY <1>3, <1>5, <1>7 DEF InOrder

LEMMA InOrderMarks ==
    ASSUME IInv, InOrder, NEW t \in Messages, SaveLead(t) \/ MarkNotified(t)
    PROVE  InOrder'
<1>1. PICK stage \in {"lead_saved", "marked"} :
         /\ Go(t, stage)
         /\ stage = "lead_saved" => SaveLead(t)
         /\ stage = "marked" => MarkNotified(t)
  BY DEF SaveLead, MarkNotified
<1>2. PICK w \in Thread :
         /\ Moves(t, w) /\ w.stage = stage /\ w.batch = thread[t].batch
         /\ w.seen = thread[t].seen /\ w.notified = thread[t].notified /\ w.hot = thread[t].hot
  BY <1>1, GoMoves DEF Stages, Running, Trying
<1>3. /\ Stage(t) = IF stage = "marked" THEN "lead_saved" ELSE "invoked"
      /\ UNCHANGED <<received, buffer, history, notices>>
  BY <1>1 DEF SaveLead, MarkNotified, At, Stage, inbox, sent
<1>4. /\ Alone' /\ InTurn' /\ HistoryIsInOrder'
      /\ \A u \in Messages \ {t} : Stage(u) \notin Running /\ thread'[u] = thread[u]
  BY <1>2, <1>3, TryingStep DEF Trying
<1>5. thread[t].seen = history /\ thread[t].notified = lead.notified
  BY <1>3 DEF InOrder, ReadsHold, Trying
<1>6. /\ stage = "lead_saved" => lead'.notified = lead.notified
      /\ stage = "marked" =>
            lead'.notified = (lead.notified \/ (thread[t].hot /\ ~thread[t].notified))
  BY <1>1 DEF SaveLead, MarkNotified, IInv, TypeOK
<1>7. ReadsHold' /\ \A u \in Messages \ {t} : ~Announcing(u) /\ ~Announcing(u)'
  BY <1>2, <1>3, <1>4, <1>5, <1>6, OneReader DEF Moves
<1>8. ToldOnce'
  <2>1. notices \in {0, 1} /\ (notices = 1 => lead.notified \/ Announcing(t))
    BY <1>7 DEF InOrder, ToldOnce
  <2>2. Announcing(t) => lead'.notified \/ Announcing(t)'
    BY <1>2, <1>3, <1>6 DEF Announcing, Stage, Moves
  <2>3. lead.notified => lead'.notified
    BY <1>6
  <2> QED
    BY <1>3, <2>1, <2>2, <2>3 DEF ToldOnce
<1> QED
  BY <1>4, <1>7, <1>8 DEF InOrder

\* A thread saves, or finds nothing to do.
LEMMA SavedGrows ==
    ASSUME NEW t \in Messages, \A u \in Messages \ {t} : thread'[u] = thread[u],
           Stage(t) \notin {"saved", "done"}
    PROVE  /\ thread'[t].stage \in {"saved", "done"} => Saved' = Saved \cup Batch(t)'
           /\ thread'[t].stage \notin {"saved", "done"} => Saved' = Saved
<1>1. /\ \A m : m \in Saved <=> \E u \in Messages : Stage(u) \in {"saved", "done"} /\ m \in Batch(u)
      /\ \A m : m \in Saved' <=> \E u \in Messages :
                                    thread'[u].stage \in {"saved", "done"} /\ m \in Batch(u)'
  BY DEF Saved, Stage
<1>2. \A u \in Messages \ {t} : Batch(u)' = Batch(u) /\ thread'[u].stage = Stage(u)
  BY DEF Batch, Stage
<1>3. \A m : m \in Saved => m \in Saved'
  BY <1>1, <1>2
<1>4. \A m : m \in Saved' =>
               m \in Saved \/ (thread'[t].stage \in {"saved", "done"} /\ m \in Batch(t)')
  BY <1>1, <1>2
<1>5. thread'[t].stage \in {"saved", "done"} => \A m \in Batch(t)' : m \in Saved'
  BY <1>1
<1> QED
  BY <1>3, <1>4, <1>5

LEMMA InOrderReceives ==
    ASSUME IInv, BufferIsInOrder, InOrder, Receive
    PROVE  InOrder'
<1>1. /\ UNCHANGED <<history, lead, notices>> /\ received' = received + 1
      /\ buffer' = Append(buffer, received + 1) /\ buffer \in Seq(Messages)
  BY DEF Receive, stored, sent, IInv, TypeOK
<1>2. Taken' = Taken
  <2>1. Len(buffer') = Len(buffer) + 1
    BY <1>1
  <2>2. received \in Nat /\ Len(buffer) \in Nat
    BY TakenTyped
  <2> QED
    BY <1>1, <2>1, <2>2 DEF Taken
<1>3. ASSUME NEW u \in Messages
      PROVE  /\ thread'[u].batch = thread[u].batch /\ thread'[u].seen = thread[u].seen
             /\ thread'[u].notified = thread[u].notified /\ thread'[u].hot = thread[u].hot
             /\ \/ thread'[u].stage = Stage(u)
                \/ {thread'[u].stage, Stage(u)} \cap (Running \cup {"done"}) = {}
  <2>1. CASE u = received + 1
    BY <2>1, ReceiveFrame DEF Stage, NoThread, Running, Trying
  <2>2. CASE u # received + 1
    BY <2>2, ReceiveFrame DEF Running, Trying
  <2> QED
    BY <2>1, <2>2
<1> QED
  BY <1>1, <1>2, <1>3, QuietStep

LEMMA InOrderFires ==
    ASSUME IInv, InOrder, NEW t \in Messages, Fire(t)
    PROVE  InOrder'
<1>1. PICK w \in Thread :
         /\ Moves(t, w) /\ w.stage = "fired" /\ w.batch = thread[t].batch
         /\ w.seen = thread[t].seen /\ w.notified = thread[t].notified /\ w.hot = thread[t].hot
  BY GoMoves DEF Fire, Stages
<1>2. /\ Stage(t) = "waiting" /\ UNCHANGED <<history, lead, notices>> /\ Taken' = Taken
  BY DEF Fire, At, Stage, stored, sent, inbox, Taken
<1>3. ASSUME NEW u \in Messages
      PROVE  /\ thread'[u].batch = thread[u].batch /\ thread'[u].seen = thread[u].seen
             /\ thread'[u].notified = thread[u].notified /\ thread'[u].hot = thread[u].hot
             /\ \/ thread'[u].stage = Stage(u)
                \/ {thread'[u].stage, Stage(u)} \cap (Running \cup {"done"}) = {}
  BY <1>1, <1>2 DEF Moves, Stage, Running, Trying
<1> QED
  BY <1>2, <1>3, QuietStep

\* A timer that fires after an older one took its message finds nothing.
LEMMA InOrderFindsNothing ==
    ASSUME IInv, BufferIsInOrder, InOrder, NEW t \in Messages, Pop(t), buffer = <<>>
    PROVE  InOrder'
<1>1. PICK w \in Thread : Moves(t, w) /\ w.stage = "done" /\ w.batch = <<>>
  BY PopMoves
<1>2. /\ Stage(t) = "fired" /\ buffer' = buffer /\ received' = received
      /\ UNCHANGED <<history, lead, notices>>
  BY DEF Pop, At, Stage, stored, sent
<1>3. \A u \in Messages \ {t} : thread'[u] = thread[u]
  BY <1>1 DEF Moves
<1>4. thread'[t].stage = "done" /\ Batch(t)' = {}
  <2>1. thread'[t].stage = "done" /\ thread'[t].batch = <<>>
    BY <1>1 DEF Moves
  <2> QED
    BY <2>1 DEF Batch, Range
<1>5. Saved' = Saved /\ Taken' = Taken
  BY <1>2, <1>3, <1>4, SavedGrows DEF Taken
<1>6. \A u \in Messages :
         /\ thread'[u].stage \in Running => thread'[u] = thread[u]
         /\ Stage(u) \in Running => thread'[u] = thread[u]
  BY <1>2, <1>3, <1>4 DEF Running, Trying
<1>7. \A u \in Messages :
         /\ thread'[u].stage \in Running <=> Stage(u) \in Running
         /\ thread'[u].stage \in Trying <=> Stage(u) \in Trying
         /\ Announcing(u)' <=> Announcing(u)
  BY <1>2, <1>3, <1>4 DEF Running, Trying, Announcing, Stage
<1>8. Alone'
  BY <1>7 DEF InOrder, Alone, Stage
<1>9. InTurn'
  <2>1. PICK n \in 0..Taken :
           /\ Saved = 1..n
           /\ (\A u \in Messages : Stage(u) \notin Trying) => n = Taken
           /\ \A u \in Messages : Stage(u) \in Trying =>
                 Consecutive(thread[u].batch, n) /\ n + Len(thread[u].batch) = Taken
    BY DEF InOrder, InTurn
  <2>2. /\ (\A u \in Messages : thread'[u].stage \notin Trying) => n = Taken'
        /\ \A u \in Messages : thread'[u].stage \in Trying =>
              Consecutive(thread'[u].batch, n) /\ n + Len(thread'[u].batch) = Taken'
    BY <1>5, <1>6, <1>7, <2>1 DEF Running
  <2>3. n \in 0..Taken' /\ Saved' = 1..n
    BY <1>5, <2>1
  <2> QED
    BY <2>2, <2>3 DEF InTurn, Stage, Consecutive
<1>10. ReadsHold'
  <2>1. ASSUME NEW u \in Messages
        PROVE  /\ thread'[u].stage \in Trying \ {"popped"} => thread'[u].seen = history'
               /\ thread'[u].stage \in {"read", "invoked", "lead_saved"} =>
                     thread'[u].notified = lead'.notified
    <3>1. CASE thread'[u].stage \in Running
      <4>1. thread'[u] = thread[u]
        BY <1>6, <3>1
      <4> QED
        BY <1>2, <4>1 DEF InOrder, ReadsHold, Stage
    <3>2. CASE thread'[u].stage \notin Running
      BY <3>2 DEF Running, Trying
    <3> QED
      BY <3>1, <3>2
  <2> QED
    BY <2>1 DEF ReadsHold, Stage
<1>11. ToldOnce' /\ HistoryIsInOrder'
  BY <1>2, <1>5, <1>7 DEF InOrder, ToldOnce, HistoryIsInOrder
<1> QED
  BY <1>8, <1>9, <1>10, <1>11 DEF InOrder


\* A thread takes the buffer while no other is at work.
LEMMA InOrderTakes ==
    ASSUME IInv, BufferIsInOrder, InOrder, NEW t \in Messages, Pop(t), buffer # <<>>,
           \A u \in Messages : Stage(u) \notin Running
    PROVE  InOrder'
<1>1. PICK w \in Thread : Moves(t, w) /\ w.stage = "popped" /\ w.batch = buffer
  BY PopMoves
<1>2. /\ Stage(t) = "fired" /\ buffer' = <<>> /\ received' = received
      /\ UNCHANGED <<history, lead, notices>>
  BY DEF Pop, At, Stage, stored, sent
<1>3. \A u \in Messages \ {t} : thread'[u] = thread[u]
  BY <1>1 DEF Moves
<1>4. thread'[t].stage = "popped" /\ thread'[t].batch = buffer
  BY <1>1 DEF Moves
<1>5. Saved' = Saved
  BY <1>2, <1>3, <1>4, SavedGrows
<1>6. Taken' = received
  <2>1. received \in Nat /\ Len(buffer') = 0
    BY <1>2, TakenTyped
  <2> QED
    BY <1>2, <2>1 DEF Taken
<1>7. \A u \in Messages : thread'[u].stage \in Running => u = t
  BY <1>3 DEF Stage
<1>8. InTurn'
  <2>1. PICK n \in 0..Taken : Saved = 1..n /\ n = Taken
    BY DEF InOrder, InTurn, Running
  <2>2. n \in 0..Taken'
    BY <1>6, <2>1, TakenTyped
  <2>3. thread'[t].stage \in Trying
    BY <1>4 DEF Trying
  <2>4. \A u \in Messages : thread'[u].stage \in Trying =>
           Consecutive(thread'[u].batch, n) /\ n + Len(thread'[u].batch) = Taken'
    BY <1>4, <1>6, <1>7, <2>1, TakenTyped DEF BufferIsInOrder, Running
  <2> QED
    BY <1>5, <2>1, <2>2, <2>3, <2>4 DEF InTurn, Stage, Consecutive
<1>9. Alone'
  BY <1>7 DEF Alone, Stage
<1>10. ReadsHold'
  BY <1>4, <1>7 DEF ReadsHold, Stage, Running, Trying
<1>11. ToldOnce' /\ HistoryIsInOrder'
  <2>1. \A u \in Messages : ~Announcing(u)
    BY DEF Announcing, Running, Trying
  <2> QED
    BY <1>2, <1>5, <2>1 DEF InOrder, ToldOnce, HistoryIsInOrder
<1> QED
  BY <1>8, <1>9, <1>10, <1>11 DEF InOrder

\* The sequence a thread saves, element by element.
LEMMA AnsweredPointwise ==
    ASSUME IInv, NEW t \in Messages
    PROVE  LET k == Len(thread[t].seen)
               b == Len(thread[t].batch)
           IN /\ k \in Nat /\ b \in Nat
              /\ DOMAIN thread[t].seen = 1..k /\ DOMAIN thread[t].batch = 1..b
              /\ DOMAIN Answered(t) = 1..(k + b + 1) /\ Len(Answered(t)) = k + b + 1
              /\ \A i \in 1..k : Answered(t)[i] = thread[t].seen[i]
              /\ \A i \in 1..b : Answered(t)[k + i] = Human(thread[t].batch[i])
              /\ Answered(t)[k + b + 1] = Reply(t)
<1> DEFINE seen == thread[t].seen
           batch == thread[t].batch
           humans == [i \in DOMAIN batch |-> Human(batch[i])]
           k == Len(seen)
           b == Len(batch)
<1>1. /\ k \in Nat /\ b \in Nat /\ DOMAIN seen = 1..k /\ DOMAIN batch = 1..b
      /\ seen \in Seq(Entries) /\ \A i \in 1..b : batch[i] \in Messages
  <2>1. seen \in Seq(Entries) /\ batch \in Seq(Messages)
    BY ThreadTyped
  <2> HIDE DEF seen, batch
  <2> QED
    BY <2>1
<1>2. \A m \in Messages : Human(m) \in Entries /\ Reply(m) \in Entries
  BY DEF Human, Reply, Entries
<1>3. humans \in Seq(Entries) /\ Len(humans) = b /\ \A i \in 1..b : humans[i] = Human(batch[i])
  <2> HIDE DEF batch
  <2>1. humans \in Seq(Entries)
    BY <1>1, <1>2, IsASeq
  <2> QED
    BY <1>1, <2>1
<1>4. Answered(t) = (seen \o humans) \o <<Reply(t)>>
  BY DEF Answered
<1> HIDE DEF seen, humans, k, b, batch
<1>5. /\ seen \o humans \in Seq(Entries) /\ Len(seen \o humans) = k + b
      /\ \A i \in 1..k : (seen \o humans)[i] = seen[i]
      /\ \A i \in 1..b : (seen \o humans)[k + i] = Human(batch[i])
  <2>1. /\ seen \o humans \in Seq(Entries) /\ Len(seen \o humans) = k + b
        /\ \A i \in 1..(k + b) : (seen \o humans)[i] = IF i <= k THEN seen[i] ELSE humans[i - k]
    BY <1>1, <1>3, ConcatProperties DEF k
  <2>2. ASSUME NEW i \in 1..b PROVE (seen \o humans)[k + i] = Human(batch[i])
    <3>1. k + i \in 1..(k + b) /\ ~(k + i <= k) /\ (k + i) - k = i
      BY <1>1
    <3> QED
      BY <1>3, <2>1, <3>1
  <2> QED
    BY <1>1, <2>1, <2>2
<1> DEFINE front == seen \o humans
<1> HIDE DEF front
<1>6. /\ front \in Seq(Entries) /\ Len(front) = k + b /\ <<Reply(t)>> \in Seq(Entries)
      /\ Len(<<Reply(t)>>) = 1 /\ <<Reply(t)>>[1] = Reply(t)
  BY <1>2, <1>5 DEF front
<1>7. /\ front \o <<Reply(t)>> \in Seq(Entries) /\ Len(front \o <<Reply(t)>>) = k + b + 1
      /\ \A i \in 1..(k + b) : (front \o <<Reply(t)>>)[i] = front[i]
      /\ (front \o <<Reply(t)>>)[k + b + 1] = Reply(t)
  <2>1. /\ front \o <<Reply(t)>> \in Seq(Entries) /\ Len(front \o <<Reply(t)>>) = k + b + 1
        /\ \A i \in 1..(k + b + 1) :
              (front \o <<Reply(t)>>)[i] =
                 IF i <= k + b THEN front[i] ELSE <<Reply(t)>>[i - (k + b)]
    BY <1>6, ConcatProperties
  <2>2. /\ k + b + 1 \in 1..(k + b + 1) /\ ~(k + b + 1 <= k + b) /\ (k + b + 1) - (k + b) = 1
        /\ \A i \in 1..(k + b) : i \in 1..(k + b + 1) /\ i <= k + b
    BY <1>1
  <2> QED
    BY <1>6, <2>1, <2>2
<1> DEFINE all == front \o <<Reply(t)>>
<1>8. Answered(t) = all
  BY <1>4 DEF front
<1>9. /\ all \in Seq(Entries) /\ Len(all) = k + b + 1
      /\ \A i \in 1..k : all[i] = seen[i]
      /\ \A i \in 1..b : all[k + i] = Human(batch[i])
      /\ all[k + b + 1] = Reply(t)
  <2>1. /\ \A i \in 1..k : i \in 1..(k + b)
        /\ \A i \in 1..b : k + i \in 1..(k + b)
    BY <1>1
  <2> QED
    BY <1>5, <1>7, <2>1 DEF front
<1> HIDE DEF all
<1>10. DOMAIN all = 1..(k + b + 1)
  BY <1>9
<1> QED
  BY <1>1, <1>8, <1>9, <1>10 DEF seen, batch, k, b


\* An ordered conversation, continued with the next messages and an answer.
LEMMA InOrderAnswer ==
    ASSUME IInv, NEW t \in Messages, thread[t].seen = history, HistoryIsInOrder,
           NEW n \in Nat, Saved = 1..n, Consecutive(thread[t].batch, n)
    PROVE  LET a == Answered(t)
           IN /\ Saved \cup Batch(t) = {a[i].n : i \in {j \in DOMAIN a : IsHuman(a[j])}}
              /\ \A i, j \in DOMAIN a :
                    IsHuman(a[i]) /\ IsHuman(a[j]) /\ i < j => a[i].n < a[j].n
              /\ a # <<>> => ~IsHuman(a[Len(a)])
<1> DEFINE a == Answered(t)
           k == Len(history)
           b == Len(thread[t].batch)
<1>1. /\ k \in Nat /\ b \in Nat /\ DOMAIN history = 1..k /\ DOMAIN thread[t].batch = 1..b
      /\ DOMAIN a = 1..(k + b + 1) /\ Len(a) = k + b + 1
      /\ \A i \in 1..k : a[i] = history[i]
      /\ \A i \in 1..b : a[k + i] = Human(thread[t].batch[i])
      /\ a[k + b + 1] = Reply(t)
  BY AnsweredPointwise
<1> HIDE DEF a, k, b
<1>2. \A m \in 1..b : IsHuman(a[k + m]) /\ a[k + m].n = n + m
  <2>1. \A m \in 1..b : thread[t].batch[m] = n + m
    BY <1>1 DEF Consecutive
  <2>2. \A m \in 1..b : a[k + m] = Human(n + m)
    BY <1>1, <2>1
  <2>3. \A x : Human(x).from = "human" /\ Human(x).n = x
    BY DEF Human
  <2> QED
    BY <2>2, <2>3 DEF IsHuman
<1>3. ~IsHuman(a[k + b + 1])
  BY <1>1 DEF IsHuman, Reply
<1>4. Batch(t) = {n + m : m \in 1..b}
  <2>1. Batch(t) = {thread[t].batch[m] : m \in DOMAIN thread[t].batch}
    BY DEF Batch, Range
  <2>2. \A m \in DOMAIN thread[t].batch : thread[t].batch[m] = n + m
    BY DEF Consecutive
  <2>3. Batch(t) = {n + m : m \in DOMAIN thread[t].batch}
    BY <2>1, <2>2
  <2>4. DOMAIN thread[t].batch = 1..b
    BY <1>1
  <2> QED
    BY <2>3, <2>4
<1>5. \A i \in DOMAIN a : i \in 1..k \/ (\E m \in 1..b : i = k + m) \/ i = k + b + 1
  <2>1. ASSUME NEW i \in 1..(k + b + 1), i \notin 1..k, i # k + b + 1
        PROVE  i - k \in 1..b /\ i = k + (i - k)
    BY <1>1, <2>1
  <2> QED
    BY <1>1, <2>1
<1>6. \A i \in 1..k : IsHuman(a[i]) => a[i].n \in 1..n
  <2>1. \A i \in 1..k : IsHuman(history[i]) => history[i].n \in Saved
    BY <1>1 DEF HistoryIsInOrder
  <2> QED
    BY <1>1, <2>1
<1>7. Saved \cup Batch(t) = {a[i].n : i \in {j \in DOMAIN a : IsHuman(a[j])}}
  <2>1. \A m \in Saved : \E i \in DOMAIN a : IsHuman(a[i]) /\ m = a[i].n
    <3>1. \A m \in Saved : \E i \in 1..k : IsHuman(history[i]) /\ m = history[i].n
      BY <1>1 DEF HistoryIsInOrder
    <3>2. \A i \in 1..k : i \in DOMAIN a /\ a[i] = history[i]
      BY <1>1
    <3> HIDE DEF HistoryIsInOrder
    <3> QED
      BY <3>1, <3>2
  <2>2. \A m \in Batch(t) : \E i \in DOMAIN a : IsHuman(a[i]) /\ m = a[i].n
    <3>1. \A m \in 1..b : k + m \in DOMAIN a
      BY <1>1
    <3> QED
      BY <1>2, <1>4, <3>1
  <2>3. \A i \in DOMAIN a : IsHuman(a[i]) => a[i].n \in Saved \cup Batch(t)
    BY <1>2, <1>3, <1>4, <1>5, <1>6
  <2> QED
    BY <2>1, <2>2, <2>3
<1>8. ASSUME NEW i \in DOMAIN a, NEW j \in DOMAIN a, IsHuman(a[i]), IsHuman(a[j]), i < j
      PROVE  a[i].n < a[j].n
  <2>1. CASE j \in 1..k
    <3>1. i \in 1..k
      BY <1>1, <1>8, <2>1
    <3> QED
      BY <1>1, <1>8, <2>1, <3>1 DEF HistoryIsInOrder
  <2>2. CASE i \in 1..k /\ \E m \in 1..b : j = k + m
    BY <1>2, <1>6, <1>8, <2>2
  <2>3. ASSUME NEW l \in 1..b, NEW m \in 1..b, i = k + l, j = k + m
        PROVE  a[i].n < a[j].n
    <3>1. l < m
      BY <1>1, <1>8, <2>3
    <3>2. a[i].n = n + l /\ a[j].n = n + m
      BY <1>2, <2>3
    <3> QED
      BY <3>1, <3>2
  <2> QED
    BY <1>3, <1>5, <1>8, <2>1, <2>2, <2>3
<1>9. a[Len(a)] = Reply(t)
  BY <1>1
<1> QED
  BY <1>3, <1>1, <1>7, <1>8, <1>9 DEF a

LEMMA InOrderSaves ==
    ASSUME IInv, BufferIsInOrder, InOrder, NEW t \in Messages, SaveHistory(t)
    PROVE  InOrder'
<1>1. PICK w \in Thread :
         /\ Moves(t, w) /\ w.stage = "saved" /\ w.batch = thread[t].batch
  BY GoMoves DEF SaveHistory, Stages, Running
<1>2. /\ Stage(t) = "marked" /\ history' = Answered(t)
      /\ UNCHANGED <<received, buffer, lead, notices>>
  BY DEF SaveHistory, At, Stage, inbox, sent
<1>3. \A u \in Messages \ {t} : thread'[u] = thread[u]
  BY <1>1 DEF Moves
<1>4. thread'[t].stage = "saved" /\ thread'[t].batch = thread[t].batch
  BY <1>1 DEF Moves
<1>5. \A u \in Messages \ {t} : thread'[u].stage \notin Running /\ Stage(u) \notin Running
  BY <1>2, <1>3 DEF InOrder, Alone, Stage, Running, Trying
<1>6. Saved' = Saved \cup Batch(t)
  <2>1. Batch(t)' = Batch(t)
    BY <1>4 DEF Batch
  <2> QED
    BY <1>2, <1>3, <1>4, <2>1, SavedGrows
<1>7. Taken' = Taken
  BY <1>2 DEF Taken
<1>8. PICK n \in 0..Taken :
         /\ Saved = 1..n
         /\ Consecutive(thread[t].batch, n) /\ n + Len(thread[t].batch) = Taken
  BY <1>2 DEF InOrder, InTurn, Trying
<1>9. n \in Nat /\ Taken \in Nat
  BY TakenTyped
<1>10. thread[t].seen = history
  BY <1>2 DEF InOrder, ReadsHold, Trying
<1>11. HistoryIsInOrder'
  <2> DEFINE a == Answered(t)
  <2>1. /\ Saved \cup Batch(t) = {a[i].n : i \in {j \in DOMAIN a : IsHuman(a[j])}}
        /\ \A i, j \in DOMAIN a : IsHuman(a[i]) /\ IsHuman(a[j]) /\ i < j => a[i].n < a[j].n
        /\ a # <<>> => ~IsHuman(a[Len(a)])
    BY <1>8, <1>9, <1>10, InOrderAnswer DEF InOrder
  <2>2. history' = a
    BY <1>2
  <2> HIDE DEF a
  <2> QED
    BY <1>6, <2>1, <2>2 DEF HistoryIsInOrder
<1>12. Saved' = 1..Taken
  <2>1. Batch(t) = {n + m : m \in 1..Len(thread[t].batch)} /\ Len(thread[t].batch) \in Nat
    <3>1. DOMAIN thread[t].batch = 1..Len(thread[t].batch) /\ Len(thread[t].batch) \in Nat
      BY AnsweredPointwise
    <3> QED
      BY <1>8, <3>1 DEF Batch, Range, Consecutive
  <2>2. Batch(t) = (n + 1)..Taken
    <3> DEFINE b == Len(thread[t].batch)
    <3>1. b \in Nat /\ n + b = Taken /\ Batch(t) = {n + m : m \in 1..b}
      BY <1>8, <2>1
    <3> HIDE DEF b
    <3>2. \A m \in 1..b : n + m \in (n + 1)..Taken
      BY <1>9, <3>1
    <3>3. \A m \in (n + 1)..Taken : m - n \in 1..b /\ m = n + (m - n)
      BY <1>9, <3>1
    <3> QED
      BY <3>1, <3>2, <3>3
  <2> QED
    BY <1>6, <1>8, <1>9, <2>2
<1>13. InTurn'
  BY <1>4, <1>5, <1>7, <1>9, <1>12 DEF InTurn, Stage, Trying, Running
<1>14. Alone'
  BY <1>5 DEF Alone, Stage
<1>15. ReadsHold'
  BY <1>4, <1>5 DEF ReadsHold, Stage, Running, Trying
<1>16. ToldOnce'
  <2>1. \A u \in Messages : ~Announcing(u)
    BY <1>2, <1>5 DEF Announcing, Running, Trying
  <2> QED
    BY <1>2, <2>1 DEF InOrder, ToldOnce
<1> QED
  BY <1>11, <1>13, <1>14, <1>15, <1>16 DEF InOrder

LEMMA InOrderSends ==
    ASSUME IInv, InOrder, NEW t \in Messages, SendReply(t)
    PROVE  InOrder'
<1>1. PICK w \in Thread :
         /\ Moves(t, w) /\ w.stage = "done" /\ w.batch = thread[t].batch
  BY GoMoves DEF SendReply, Stages
<1>2. /\ Stage(t) = "saved" /\ UNCHANGED <<history, received, buffer, lead, notices>>
  BY DEF SendReply, At, Stage, inbox, stored
<1>3. \A u \in Messages \ {t} : thread'[u] = thread[u]
  BY <1>1 DEF Moves
<1>4. thread'[t].stage = "done" /\ thread'[t].batch = thread[t].batch
  BY <1>1 DEF Moves
<1>5. \A u \in Messages : thread'[u].stage \notin Running
  BY <1>2, <1>3, <1>4 DEF InOrder, Alone, Stage, Running, Trying
<1>6. \A u \in Messages : Stage(u) \notin Trying /\ ~Announcing(u)
  <2>1. \A u \in Messages \ {t} : Stage(u) \notin Running
    BY <1>2 DEF InOrder, Alone, Running
  <2> QED
    BY <1>2, <2>1 DEF Running, Trying, Announcing
<1>7. Saved' = Saved /\ Taken' = Taken
  <2>1. \A u \in Messages :
           /\ Batch(u)' = Batch(u)
           /\ thread'[u].stage \in {"saved", "done"} <=> Stage(u) \in {"saved", "done"}
    BY <1>2, <1>3, <1>4 DEF Batch, Stage
  <2> QED
    BY <1>2, <2>1 DEF Saved, Stage, Taken
<1>8. InTurn'
  BY <1>5, <1>6, <1>7 DEF InOrder, InTurn, Stage, Running
<1>9. Alone' /\ ReadsHold'
  BY <1>5 DEF Alone, ReadsHold, Stage, Running, Trying
<1>10. ToldOnce' /\ HistoryIsInOrder'
  BY <1>2, <1>6, <1>7 DEF InOrder, ToldOnce, HistoryIsInOrder
<1> QED
  BY <1>8, <1>9, <1>10 DEF InOrder


LEMMA OrderlyInit == Init => BufferIsInOrder /\ Orderly
<1> SUFFICES ASSUME Init PROVE BufferIsInOrder /\ InOrder
  BY DEF Orderly
<1>1. /\ received = 0 /\ buffer = <<>> /\ history = <<>> /\ notices = 0
      /\ \A t \in Messages : Stage(t) = "none"
  BY DEF Init, NoThread, Stage
<1>2. Saved = {}
  BY <1>1 DEF Saved
<1>3. Taken = 0
  <2>1. Len(buffer) \in {0} /\ received \in {0}
    BY <1>1
  <2>2. received - Len(buffer) = 0
    BY <2>1
  <2> QED
    BY <2>2 DEF Taken
<1>4. BufferIsInOrder
  BY <1>1 DEF BufferIsInOrder, Consecutive
<1>5. Alone /\ ReadsHold
  <2>1. \A t \in Messages : Stage(t) \notin Running
    BY <1>1 DEF Running, Trying
  <2> QED
    BY <2>1 DEF Alone, ReadsHold, Running, Trying
<1>6. InTurn
  <2>1. 0 \in 0..Taken /\ Saved = 1..0 /\ 0 = Taken
    BY <1>2, <1>3
  <2>2. \A t \in Messages : Stage(t) \notin Trying
    BY <1>1 DEF Trying
  <2> QED
    BY <2>1, <2>2 DEF InTurn
<1>7. ToldOnce /\ HistoryIsInOrder
  BY <1>1, <1>2 DEF ToldOnce, HistoryIsInOrder
<1> QED
  BY <1>4, <1>5, <1>6, <1>7 DEF InOrder

LEMMA OrderlyStep ==
    ASSUME IInv, BufferIsInOrder, Orderly, [Next]_vars
    PROVE  Orderly'
<1> SUFFICES ASSUME undisturbed' PROVE InOrder'
  BY DEF Orderly
<1>1. CASE Receive
  BY <1>1, InOrderReceives DEF Orderly, Receive
<1>2. ASSUME NEW t \in Messages, Pop(t) PROVE InOrder'
  <2>1. InOrder /\ (buffer = <<>> \/ \A u \in Messages : Stage(u) \notin Running)
    BY <1>2 DEF Orderly, Pop, Stage
  <2> QED
    BY <1>2, <2>1, InOrderFindsNothing, InOrderTakes
<1>3. ASSUME NEW t \in Messages, Fire(t) PROVE InOrder'
  BY <1>3, InOrderFires DEF Orderly, Fire
<1>4. ASSUME NEW t \in Messages, Work(t) PROVE InOrder'
  <2>1. undisturbed => InOrder
    BY DEF Orderly
  <2>2. CASE LoadHistory(t)
    BY <2>1, <2>2, InOrderLoads DEF LoadHistory
  <2>3. CASE ReadLead(t)
    BY <2>1, <2>3, InOrderReads DEF ReadLead
  <2>4. CASE Invoke(t)
    BY <2>1, <2>4, InOrderInvokes DEF Invoke
  <2>5. CASE SaveLead(t) \/ MarkNotified(t)
    BY <2>1, <2>5, InOrderMarks DEF SaveLead, MarkNotified
  <2>6. CASE SaveHistory(t)
    BY <2>1, <2>6, InOrderSaves DEF SaveHistory
  <2>7. CASE SendReply(t)
    BY <2>1, <2>7, InOrderSends DEF SendReply
  <2>8. CASE Fail(t)
    BY <2>8 DEF Fail
  <2> QED
    BY <1>4, <2>2, <2>3, <2>4, <2>5, <2>6, <2>7, <2>8 DEF Work
<1>5. CASE Crash
  BY <1>5 DEF Crash
<1>6. CASE UNCHANGED vars
  <2>1. InOrder /\ UNCHANGED <<history, lead, notices>> /\ Taken' = Taken /\ thread' = thread
    BY <1>6 DEF Orderly, vars, Taken
  <2> QED
    BY <2>1, QuietStep DEF Stage
<1> QED
  BY <1>1, <1>2, <1>3, <1>4, <1>5, <1>6 DEF Next

\* While nobody overlapped, failed or restarted, the operator is notified at most
\* once, and the stored conversation is what was said, in order, each batch with its
\* answer (server.py _process, app/conversation save_messages).
THEOREM UndisturbedChatsAreOrderly == Spec => []OrderlyUnlessDisturbed
<1>1. IInv /\ BufferIsInOrder /\ Orderly => OrderlyUnlessDisturbed
  <2> SUFFICES ASSUME IInv, BufferIsInOrder, Orderly, undisturbed
               PROVE  OrderlyUnlessDisturbed
    BY DEF OrderlyUnlessDisturbed
  <2>1. InOrder
    BY DEF Orderly
  <2>2. Saved = UNION {Range(thread[t].batch) :
                          t \in {u \in Messages : thread[u].stage \in {"saved", "done"}}}
    BY DEF Saved, Batch, Stage
  <2>3. \E n \in 0..received : Saved = 1..n
    BY <2>1, TakenTyped DEF InOrder, InTurn
  <2>4. notices <= 1
    BY <2>1 DEF InOrder, ToldOnce
  <2>5. HistoryIsInOrder
    BY <2>1 DEF InOrder
  <2> HIDE DEF Saved
  <2>6. /\ Saved = {history[i].n : i \in {j \in DOMAIN history : history[j].from = "human"}}
        /\ \A i, j \in DOMAIN history :
              history[i].from = "human" /\ history[j].from = "human" /\ i < j =>
                 history[i].n < history[j].n
        /\ history # <<>> => history[Len(history)].from # "human"
    BY <2>5 DEF HistoryIsInOrder, IsHuman
  <2>7. history # <<>> => history[Len(history)].from = "ai"
    <3>1. history # <<>> => history[Len(history)] \in Entries
      BY DEF IInv, TypeOK
    <3> QED
      BY <2>6, <3>1 DEF Entries
  <2> QED
    BY <2>2, <2>3, <2>4, <2>6, <2>7 DEF OrderlyUnlessDisturbed
<1>2. IInv /\ BufferIsInOrder /\ Orderly /\ [Next]_vars => BufferIsInOrder' /\ Orderly'
  BY BufferStep, OrderlyStep
<1> QED
  BY <1>1, <1>2, OrderlyInit, Invariant, PTL DEF Spec

=============================================================================
