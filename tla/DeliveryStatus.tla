----------------------------- MODULE DeliveryStatus -----------------------------
(***************************************************************************)
(* What WhatsApp tells of the messages sent: webhooks carry batches of     *)
(* status entries, and perhaps an inbound message, which the server stores *)
(* one by one and hands to the conversation (server.py,                    *)
(* delivery_status.py).  WhatsApp repeats a webhook until it is answered,  *)
(* and several requests may handle the same one at a time.                 *)
(*                                                                         *)
(* An entry is a record of a message id, a status and a time, None where   *)
(* the payload has none; a webhook is a record of its entries and of       *)
(* whether it has an inbound message, and of what shape.                   *)
(***************************************************************************)
EXTENDS Naturals, Sequences, FiniteSets, Functions

CONSTANTS
    Webhooks,    \* records [statuses, message]
    Handlers,    \* the threads that serve requests
    MaxTries,    \* bound on the deliveries of one webhook
    None

\* Each entry of a payload is a record of the three fields that are looked at.
ASSUME StatusAssumption ==
    /\ \A w \in Webhooks : \A i \in DOMAIN w.statuses :
          LET e == w.statuses[i] IN e = [id |-> e.id, status |-> e.status, time |-> e.time]
    /\ IsFiniteSet(Handlers)
    /\ MaxTries \in Nat

VARIABLES
    tries,       \* how often each webhook was delivered
    answered,    \* webhooks whose answer reached WhatsApp
    handler,     \* what each thread is doing
    events,      \* whatsapp_delivery_status_events, in the order of insertion
    handed,      \* webhooks whose message the conversation got, per delivery
    excused      \* history: webhooks answered although storing them had failed

statusVars == <<tries, answered, handler, events, handed, excused>>

-----------------------------------------------------------------------------
\* parse_meta_status_payload skips entries without id or status; the others are
\* named by their places in the payload.
Parsed(webhook) ==
    {i \in DOMAIN webhook.statuses :
        webhook.statuses[i].id # None /\ webhook.statuses[i].status # None}

\* Mutant: the key of an event is the message.
build_event_key_Message(e) == <<e.id>>

build_event_key(e) == <<e.id, e.status, e.time>>

Free == [pc |-> "free"]

StatusInit ==
    /\ tries = [w \in Webhooks |-> 0]
    /\ answered = {}
    /\ handler = [h \in Handlers |-> Free]
    /\ events = <<>>
    /\ handed = [w \in Webhooks |-> 0]
    /\ excused = {}

\* The webhook is delivered, for the first time or because no answer came, and its
\* entries are parsed.
Deliver(h, w) ==
    /\ handler[h] = Free
    /\ w \notin answered
    /\ tries[w] < MaxTries
    /\ tries' = [tries EXCEPT ![w] = @ + 1]
    /\ handler' = [handler EXCEPT ![h] =
           [pc |-> "storing", webhook |-> w, todo |-> Parsed(w), failed |-> FALSE]]
    /\ UNCHANGED <<answered, events, handed, excused>>

Stored(e) == \E i \in DOMAIN events : build_event_key(events[i]) = build_event_key(e)

\* record_event of the first entry that is left: INSERT OR IGNORE and commit.
Store(h) ==
    /\ handler[h].pc = "storing"
    /\ \E i \in handler[h].todo :
          LET e == handler[h].webhook.statuses[i]
          IN /\ \A j \in handler[h].todo : i <= j
             /\ events' = IF Stored(e) THEN events ELSE Append(events, e)
             /\ handler' = [handler EXCEPT ![h].todo = @ \ {i}]
    /\ UNCHANGED <<tries, answered, handed, excused>>

\* The database cannot be opened, or is locked: logged, and the rest is skipped.
StoreRaises(h) ==
    /\ handler[h].pc = "storing"
    /\ handler[h].todo # {}
    /\ handler' = [handler EXCEPT ![h].todo = {}, ![h].failed = TRUE]
    /\ UNCHANGED <<tries, answered, events, handed, excused>>

\* _first_inbound_message; of a text the rest is Conversation's Receive, others are
\* answered that only text is understood, and a message of another shape is logged.
HandOver(h) ==
    /\ handler[h].pc = "storing"
    /\ handler[h].todo = {}
    /\ handler' = [handler EXCEPT ![h].pc = "answering"]
    /\ handed' = [handed EXCEPT ![handler[h].webhook] =
                     IF handler[h].webhook.message = "text" THEN @ + 1 ELSE @]
    /\ UNCHANGED <<tries, answered, events, excused>>

\* 200, whatever happened; the answer may be lost, or come too late.
Answer(h) ==
    /\ handler[h].pc = "answering"
    /\ \/ /\ answered' = answered \cup {handler[h].webhook}
          /\ excused' = excused \cup {w \in {handler[h].webhook} : handler[h].failed}
       \/ UNCHANGED <<answered, excused>>
    /\ handler' = [handler EXCEPT ![h] = Free]
    /\ UNCHANGED <<tries, events, handed>>

\* The server restarts: the requests in progress get no answer.
Restart ==
    /\ \E h \in Handlers : handler[h] # Free
    /\ handler' = [h \in Handlers |-> Free]
    /\ UNCHANGED <<tries, answered, events, handed, excused>>

StatusNext ==
    \/ \E h \in Handlers :
          \/ \E w \in Webhooks : Deliver(h, w)
          \/ Store(h) \/ StoreRaises(h) \/ HandOver(h) \/ Answer(h)
    \/ Restart

StatusSpec == StatusInit /\ [][StatusNext]_statusVars
-----------------------------------------------------------------------------
\* Repeated, overlapping and interrupted deliveries add up to each status once: no
\* event is in the table twice, nor one that no webhook reported; and WhatsApp does
\* not stop repeating a webhook before all its events are in the table (unless
\* storing them failed, which is answered like success) and its message is handed
\* over, whatever became of its statuses.
StatusesSurviveRetries ==
    /\ \A i, j \in DOMAIN events : events[i] = events[j] => i = j
    /\ Range(events) \subseteq UNION {Range(w.statuses) : w \in Webhooks}
    /\ \A w \in answered :
          /\ \/ w \in excused
             \/ \A i \in Parsed(w) : w.statuses[i] \in Range(events)
          /\ w.message = "text" => handed[w] \in 1..tries[w]
=============================================================================
