----------------------------- MODULE Conversation -----------------------------
(***************************************************************************)
(* One WhatsApp conversation: the webhook that buffers inbound texts and   *)
(* restarts a ten-second timer, and the timer threads that take the buffer *)
(* and answer it (server.py, app/conversation).                            *)
(*                                                                         *)
(* Everything is keyed by phone, so one phone is enough: phones share only *)
(* the lock, which is held for the two short critical sections and never   *)
(* across a call.  Messages are numbered as they arrive.  Every message    *)
(* starts a timer, so timers, and the threads they run in, have the same   *)
(* numbers.  Processing happens after the lock is released: two threads    *)
(* may process the same phone at once, each with what it read.             *)
(***************************************************************************)
EXTENDS Integers, Sequences, FiniteSets, Functions

CONSTANTS
    MaxMessages,   \* bound on the messages received
    MaxCrashes     \* bound on the restarts of the server

ASSUME BoundsAssumption == MaxMessages \in Nat \ {0} /\ MaxCrashes \in Nat

VARIABLES
    received,      \* how many messages have arrived
    buffer,        \* _buffers[phone]
    registered,    \* _timers[phone], 0 if there is none
    thread,        \* the timer threads
    history,       \* conversations.messages of the phone
    lead,          \* leads.is_hot and leads.juan_notified of the phone
    notices,       \* notifications sent to the operator
    answered,      \* messages whose sender got an answer (or the apology)
    lost,          \* messages that a crash found unanswered
    crashes,       \* how often the server restarted
    undisturbed    \* history variable: no overlap, failure or crash so far

vars == <<received, buffer, registered, thread, history, lead, notices,
          answered, lost, crashes, undisturbed>>

inbox == <<received, buffer, registered>>
stored == <<history, lead>>
sent == <<notices, answered>>
crashed == <<lost, crashes>>

Messages == 1..MaxMessages

-----------------------------------------------------------------------------
(***************************************************************************)
(* Timer threads.  A thread is "waiting" until its ten seconds are over or *)
(* it is cancelled; from "fired" on cancel() comes too late.  "batch" is   *)
(* what it took from the buffer, "seen" the history it loaded, "notified"  *)
(* juan_already_notified, "hot" the verdict of the graph.                  *)
(***************************************************************************)
Human(m) == [from |-> "human", n |-> m]
Reply(t) == [from |-> "ai", n |-> t]

Entries == [from : {"human", "ai"}, n : Messages]

\* Stages in which _process is inside its try block, in program order.
Trying == {"popped", "loaded", "read", "invoked", "lead_saved", "marked"}

Running == Trying \cup {"saved"}

Stages == {"none", "waiting", "cancelled", "fired", "done"} \cup Running

Thread == [stage : Stages, batch : Seq(Messages), seen : Seq(Entries),
           notified : BOOLEAN, hot : BOOLEAN]

NoThread == [stage |-> "none", batch |-> <<>>, seen |-> <<>>,
             notified |-> FALSE, hot |-> FALSE]

Init ==
    /\ received = 0
    /\ buffer = <<>>
    /\ registered = 0
    /\ thread = [t \in Messages |-> NoThread]
    /\ history = <<>>
    /\ lead = [hot |-> FALSE, notified |-> FALSE]
    /\ notices = 0
    /\ answered = {}
    /\ lost = {}
    /\ crashes = 0
    /\ undisturbed = TRUE

\* Timer.cancel(): effective only while the thread still waits.
Cancelled(t) ==
    [thread EXCEPT ![t].stage = IF @ = "waiting" THEN "cancelled" ELSE @]

\* webhook(), under the lock: cancel the registered timer, append, start anew.
Receive ==
    LET m == received + 1
        others == IF registered = 0 THEN thread ELSE Cancelled(registered)
    IN /\ received < MaxMessages
       /\ received' = m
       /\ buffer' = Append(buffer, m)
       /\ registered' = m
       /\ thread' = [others EXCEPT ![m].stage = "waiting"]
       /\ UNCHANGED <<stored, sent, crashed, undisturbed>>

At(t, stage) == thread[t].stage = stage

Go(t, stage) == thread' = [thread EXCEPT ![t].stage = stage]

\* The ten seconds are over and cancel() was not called.
Fire(t) ==
    /\ At(t, "waiting")
    /\ Go(t, "fired")
    /\ UNCHANGED <<inbox, stored, sent, crashed, undisturbed>>

\* Mutant: the buffer is read and not taken.
Pop_KeepsBuffer(t) ==
    /\ At(t, "fired")
    /\ registered' = 0
    /\ thread' = [thread EXCEPT ![t].stage = IF buffer = <<>> THEN "done" ELSE "popped",
                                ![t].batch = buffer]
    /\ undisturbed' =
          (undisturbed /\ (buffer = <<>> \/ \A u \in Messages : thread[u].stage \notin Running))
    /\ UNCHANGED <<received, buffer, stored, sent, crashed>>

\* _process, under the lock: take the buffer, and unregister whatever timer is
\* registered, this one or a newer one.
Pop(t) ==
    /\ At(t, "fired")
    /\ buffer' = <<>>
    /\ registered' = 0
    /\ thread' = [thread EXCEPT ![t].stage = IF buffer = <<>> THEN "done" ELSE "popped",
                                ![t].batch = buffer]
    /\ undisturbed' =
          (undisturbed /\ (buffer = <<>> \/ \A u \in Messages : thread[u].stage \notin Running))
    /\ UNCHANGED <<received, stored, sent, crashed>>

\* load_messages
LoadHistory(t) ==
    /\ At(t, "popped")
    /\ thread' = [thread EXCEPT ![t].stage = "loaded", ![t].seen = history]
    /\ UNCHANGED <<inbox, stored, sent, crashed, undisturbed>>

\* load_lead (whose profile only shapes the prompt) and is_juan_notified
ReadLead(t) ==
    /\ At(t, "loaded")
    /\ thread' = [thread EXCEPT ![t].stage = "read", ![t].notified = lead.notified]
    /\ UNCHANGED <<inbox, stored, sent, crashed, undisturbed>>

\* Mutant: the graph does not look at juan_notified.
Invoke_AlwaysNotifies(t) ==
    /\ At(t, "read")
    /\ \E hot \in BOOLEAN :
          /\ thread' = [thread EXCEPT ![t].stage = "invoked", ![t].hot = hot]
          /\ notices' = IF hot THEN notices + 1 ELSE notices
    /\ UNCHANGED <<inbox, stored, answered, crashed, undisturbed>>

\* orvo_app.invoke: the bot answers, the lead is judged, and the operator is
\* notified of a hot lead he was not told of (should_notify_juan).
Invoke(t) ==
    /\ At(t, "read")
    /\ \E hot \in BOOLEAN :
          /\ thread' = [thread EXCEPT ![t].stage = "invoked", ![t].hot = hot]
          /\ notices' = IF hot /\ ~thread[t].notified THEN notices + 1 ELSE notices
    /\ UNCHANGED <<inbox, stored, answered, crashed, undisturbed>>

\* Mutant: the upsert takes the latest verdict instead of the maximum.
SaveLead_Overwrites(t) ==
    /\ At(t, "invoked")
    /\ Go(t, "lead_saved")
    /\ lead' = [lead EXCEPT !.hot = thread[t].hot]
    /\ UNCHANGED <<inbox, history, sent, crashed, undisturbed>>

\* save_lead: is_hot = MAX(excluded.is_hot, leads.is_hot)
SaveLead(t) ==
    /\ At(t, "invoked")
    /\ Go(t, "lead_saved")
    /\ lead' = [lead EXCEPT !.hot = @ \/ thread[t].hot]
    /\ UNCHANGED <<inbox, history, sent, crashed, undisturbed>>

\* mark_juan_notified, if the graph found a hot lead and had to notify
MarkNotified(t) ==
    /\ At(t, "lead_saved")
    /\ Go(t, "marked")
    /\ lead' = [lead EXCEPT !.notified = @ \/ (thread[t].hot /\ ~thread[t].notified)]
    /\ UNCHANGED <<inbox, history, sent, crashed, undisturbed>>

\* What the thread saves: the history it loaded, its batch, its answer.
Answered(t) ==
    thread[t].seen \o [i \in DOMAIN thread[t].batch |-> Human(thread[t].batch[i])]
                   \o <<Reply(t)>>

\* save_messages overwrites the stored conversation.
SaveHistory(t) ==
    /\ At(t, "marked")
    /\ Go(t, "saved")
    /\ history' = Answered(t)
    /\ UNCHANGED <<inbox, lead, sent, crashed, undisturbed>>

\* _send of the answer; what WhatsApp does with it is only logged.
SendReply(t) ==
    /\ At(t, "saved")
    /\ Go(t, "done")
    /\ answered' = answered \cup Range(thread[t].batch)
    /\ UNCHANGED <<inbox, stored, notices, crashed, undisturbed>>

\* Mutant: an exception ends the thread silently.
Fail_Silently(t) ==
    /\ thread[t].stage \in Trying
    /\ Go(t, "done")
    /\ undisturbed' = FALSE
    /\ UNCHANGED <<inbox, stored, sent, crashed>>

\* An exception (the model's API, SQLite): apologise and forget the batch.
Fail(t) ==
    /\ thread[t].stage \in Trying
    /\ Go(t, "done")
    /\ answered' = answered \cup Range(thread[t].batch)
    /\ undisturbed' = FALSE
    /\ UNCHANGED <<inbox, stored, notices, crashed>>

\* The server restarts: buffers, timers and threads are gone, the database stays.
Crash ==
    /\ crashes < MaxCrashes
    /\ crashes' = crashes + 1
    /\ buffer' = <<>>
    /\ registered' = 0
    /\ thread' = [t \in Messages |->
                     IF At(t, "none") THEN thread[t]
                     ELSE [thread[t] EXCEPT !.stage = "done"]]
    /\ lost' = (1..received) \ answered
    /\ undisturbed' = FALSE
    /\ UNCHANGED <<received, stored, sent>>

Work(t) ==
    \/ LoadHistory(t) \/ ReadLead(t) \/ Invoke(t) \/ SaveLead(t)
    \/ MarkNotified(t) \/ SaveHistory(t) \/ SendReply(t) \/ Fail(t)

Next ==
    \/ Receive
    \/ \E t \in Messages : Fire(t) \/ Pop(t) \/ Work(t)
    \/ Crash

Spec == Init /\ [][Next]_vars

\* Timers run out, threads get the lock and are scheduled, and calls to the
\* model, WhatsApp and SQLite return or raise.  Nobody is obliged to write, and
\* the server need not crash.
Fairness == \A t \in Messages : WF_vars(Fire(t)) /\ WF_vars(Pop(t)) /\ WF_vars(Work(t))

FairSpec == Spec /\ Fairness

-----------------------------------------------------------------------------
(***************************************************************************)
(* Correctness.                                                            *)
(***************************************************************************)
\* Every variable has its type.
TypeOK ==
    /\ received \in 0..MaxMessages
    /\ buffer \in Seq(Messages)
    /\ registered \in 0..received
    /\ thread \in [Messages -> Thread]
    /\ history \in Seq(Entries)
    /\ lead \in [hot : BOOLEAN, notified : BOOLEAN]
    /\ notices \in Nat
    /\ answered \subseteq 1..received
    /\ lost \subseteq 1..received
    /\ crashes \in 0..MaxCrashes
    /\ undisturbed \in BOOLEAN

\* The messages the thread is responsible for.
InHand(t) == IF thread[t].stage \in Running THEN Range(thread[t].batch) ELSE {}

\* A message is in one place only: in the buffer, with one thread, or answered.
\* It is never handled by two threads, nor answered twice, and it is stored at
\* most once.
HandledOnce ==
    /\ \A t \in Messages : InHand(t) \cap (Range(buffer) \cup answered) = {}
    /\ \A t, u \in Messages : t # u => InHand(t) \cap InHand(u) = {}
    /\ IsInjective(buffer)
    /\ IsInjective(history)

\* No message disappears but in a crash: it is answered, in hand, or buffered,
\* and then, whatever races there are between a message, the cancellation of a
\* timer and the firing of an older one, some timer still waits or is about to pop.
NothingForgotten ==
    \A m \in 1..received :
       \/ m \in answered \cup lost
       \/ \E t \in Messages : m \in InHand(t)
       \/ /\ m \in Range(buffer)
          /\ \E t \in Messages : thread[t].stage \in {"waiting", "fired"}

\* The operator is never marked as told of a lead the table does not call hot:
\* a later, cooler verdict does not take back what was announced.
NotifiedLeadsAreHot == lead.notified => lead.hot

\* As long as no two threads overlapped and nothing failed, the operator is
\* notified at most once, and the stored conversation holds the messages of all
\* threads that have saved, in the order they arrived, each followed by an answer.
OrderlyUnlessDisturbed ==
    undisturbed =>
       /\ notices <= 1
       /\ LET saved == UNION {Range(thread[t].batch) :
                                 t \in {u \in Messages : thread[u].stage \in {"saved", "done"}}}
              IsHuman(i) == history[i].from = "human"
          IN /\ \E n \in 0..received : saved = 1..n
             /\ saved = {history[i].n : i \in {j \in DOMAIN history : IsHuman(j)}}
             /\ \A i, j \in DOMAIN history :
                   IsHuman(i) /\ IsHuman(j) /\ i < j => history[i].n < history[j].n
             /\ history # <<>> => history[Len(history)].from = "ai"

\* Everyone who writes gets an answer (or an apology), unless the server crashes
\* first: the debounce does not postpone a message for ever once the sender stops.
EveryMessageIsAnswered ==
    \A m \in Messages : received >= m ~> m \in answered \cup lost
=============================================================================
