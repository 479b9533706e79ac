------------------------ MODULE NotificationPipeline ------------------------
(***************************************************************************)
(* The path of a notification: the notification_outbox row a producer      *)
(* commits with its business change, the relays that drain the table       *)
(* (internal/events/outbox.go, offer-service app/events.py), RabbitMQ, and *)
(* the consumers of notification-service (app/events.py, app/service.py).  *)
(* Any process may die between two steps, the broker may go away, and a    *)
(* publish may fail after the broker took the message.                     *)
(***************************************************************************)
EXTENDS Naturals, Sequences, FiniteSets, Functions

CONSTANTS
  Events,       \* outbox rows, by their event_id
  Undecodable,  \* rows whose payload a Go relay cannot decode
  Malformed,    \* events the consumer's envelope refuses
  Relays,       \* one per replica of a producer
  Consumers,    \* messages handled at once
  BatchSize,    \* relayBatchSize
  Confirms,     \* the publisher waits for the broker's confirm (aio_pika: yes, Go: no)
  MaxCopies,    \* bound: copies of one event waiting in the queue
  None

ASSUME PipelineConstants ==
  /\ Undecodable \subseteq Events /\ Malformed \subseteq Events
  /\ BatchSize \in Nat \ {0} /\ MaxCopies \in Nat /\ Confirms \in BOOLEAN
  \* Only the Go relays decode the payload they send, and they wait for no confirm.
  /\ Confirms => Undecodable = {}
  /\ IsFiniteSet(Consumers)
  /\ None \notin Events

VARIABLES
  outbox,     \* rows in created_at order
  published,  \* rows whose published_at is set
  relay,      \* each relay's transaction: the rows it locked, those left and those marked
  up,         \* the broker is reachable
  queue,      \* copies of each event waiting in notification.events
  dlq,        \* events in notification.events.dlq
  handler,    \* each consumer's delivery
  processed,  \* processed_event
  inbox       \* notifications stored for each event

relayVars == <<outbox, published, relay>>
consumerVars == <<handler, processed, inbox>>
pipelineVars == <<outbox, published, relay, up, queue, dlq, handler, processed, inbox>>

\* A transaction that found nothing to do is over at once, so one under way holds rows.
NoDrain == [locked |-> {}, batch |-> {}, marked |-> {}]
\* owned: the broker still waits for this delivery to be acked.
NoDelivery == [pc |-> "idle", event |-> None, owned |-> FALSE]

PipelineInit ==
  /\ outbox = <<>> /\ published = {}
  /\ relay = [r \in Relays |-> NoDrain]
  /\ up = TRUE
  /\ queue = [e \in Events |-> 0]
  /\ dlq = {}
  /\ handler = [c \in Consumers |-> NoDelivery]
  /\ processed = {}
  /\ inbox = [e \in Events |-> 0]

-----------------------------------------------------------------------------
\* Enqueue, committed with the business change it announces.
Enqueue(e) ==
  /\ e \notin Range(outbox)
  /\ outbox' = Append(outbox, e)
  /\ UNCHANGED <<published, relay, up, queue, dlq, consumerVars>>

\* Rows another relay's transaction holds FOR UPDATE.
Locked(r) == UNION {relay[q].locked : q \in Relays \ {r}}

\* ORDER BY created_at
Place(e) == CHOOSE i \in DOMAIN outbox : outbox[i] = e
Oldest(rows) == CHOOSE e \in rows : \A f \in rows : Place(e) <= Place(f)

\* LIMIT
FirstOf(rows) == {e \in rows : Cardinality({f \in rows : Place(f) <= Place(e)}) <= BatchSize}

\* Mutant: FOR UPDATE forgotten.
PendingShared(r) == FirstOf(Range(outbox) \ published)

\* Mutant: LIMIT forgotten.
PendingUnlimited(r) == Range(outbox) \ (published \cup Locked(r))

\* The oldest unpublished rows nobody else holds: SKIP LOCKED and LIMIT.
Pending(r) == FirstOf(Range(outbox) \ (published \cup Locked(r)))

\* drain begins: the batch is read and locked.
BeginDrain(r) ==
  /\ relay[r].locked = {}
  /\ Pending(r) # {}
  /\ relay' = [relay EXCEPT ![r] = [locked |-> Pending(r), batch |-> Pending(r), marked |-> {}]]
  /\ UNCHANGED <<outbox, published, up, queue, dlq, consumerVars>>

\* The row a drain comes to next is dealt with.
Mark(r) ==
  LET e == Oldest(relay[r].batch)
  IN  relay' = [relay EXCEPT ![r].batch = @ \ {e}, ![r].marked = @ \cup {e}]

\* An undecodable row is retired: marked, and never published.
RetireRow(r) ==
  /\ relay[r].batch # {} /\ Oldest(relay[r].batch) \in Undecodable
  /\ Mark(r)
  /\ UNCHANGED <<outbox, published, up, queue, dlq, consumerVars>>

\* PublishEvent tries twice, and an attempt that fails may have reached the broker.
Publish(r, copies) ==
  LET e == Oldest(relay[r].batch)
  IN  /\ relay[r].batch # {} /\ e \notin Undecodable
      /\ copies > 0 => up
      /\ queue[e] + copies <= MaxCopies
      /\ queue' = [queue EXCEPT ![e] = @ + copies]
      /\ UNCHANGED <<outbox, published, up, dlq, consumerVars>>

\* The event is published and its row marked.  Without confirms success only means that
\* the frame was written to a socket, which the broker may have left already.
PublishRow(r, copies) ==
  /\ Publish(r, copies)
  /\ copies = 0 => ~Confirms /\ ~up
  /\ Mark(r)

\* The broker is out of reach: the row stays pending and the rest of the batch is left,
\* locked until the transaction ends.
FailPublish(r, copies) ==
  /\ Publish(r, copies)
  /\ relay' = [relay EXCEPT ![r].batch = {}]

\* COMMIT of the relay's transaction.
CommitDrain(r) ==
  /\ relay[r].locked # {} /\ relay[r].batch = {}
  /\ published' = published \cup relay[r].marked
  /\ relay' = [relay EXCEPT ![r] = NoDrain]
  /\ UNCHANGED <<outbox, up, queue, dlq, consumerVars>>

\* The relay dies or a statement fails: nothing it marked is kept, what it sent is sent.
\* With no row marked and none left there is nothing to lose, and CommitDrain is the step.
LoseDrain(r) ==
  /\ relay[r].locked # {} /\ (relay[r].batch # {} \/ relay[r].marked # {})
  /\ relay' = [relay EXCEPT ![r] = NoDrain]
  /\ UNCHANGED <<outbox, published, up, queue, dlq, consumerVars>>

-----------------------------------------------------------------------------
\* RabbitMQ.  The queue is durable and its messages persistent; a delivery whose channel
\* closes before the ack goes back to the queue.
Requeued(e) == Cardinality({c \in Consumers : handler[c].owned /\ handler[c].event = e})

BrokerDown ==
  /\ up
  /\ up' = FALSE
  /\ queue' = [e \in Events |-> queue[e] + Requeued(e)]
  /\ handler' = [c \in Consumers |-> [handler[c] EXCEPT !.owned = FALSE]]
  /\ UNCHANGED <<relayVars, dlq, processed, inbox>>

BrokerUp ==
  /\ ~up
  /\ up' = TRUE
  /\ UNCHANGED <<relayVars, queue, dlq, consumerVars>>

\* Mutant: the message settled before its transaction.
DeliverAcked(c, e) ==
  /\ up /\ queue[e] > 0
  /\ handler[c].pc = "idle"
  /\ queue' = [queue EXCEPT ![e] = @ - 1]
  /\ handler' = [handler EXCEPT ![c] = [pc |-> "handle", event |-> e, owned |-> FALSE]]
  /\ UNCHANGED <<relayVars, up, dlq, processed, inbox>>

Deliver(c, e) ==
  /\ up /\ queue[e] > 0
  /\ handler[c].pc = "idle"
  /\ queue' = [queue EXCEPT ![e] = @ - 1]
  /\ handler' = [handler EXCEPT ![c] = [pc |-> "handle", event |-> e, owned |-> TRUE]]
  /\ UNCHANGED <<relayVars, up, dlq, processed, inbox>>

Settle(c, how) == handler' = [handler EXCEPT ![c].pc = how]

\* Mutant: record_event without the primary key of processed_event.
RecordEventUnkeyed(c) ==
  LET e == handler[c].event
  IN  /\ handler[c].pc = "handle" /\ e \notin Malformed
      /\ processed' = processed \cup {e}
      /\ inbox' = [inbox EXCEPT ![e] = @ + 1]
      /\ Settle(c, "ack")
      /\ UNCHANGED <<relayVars, up, queue, dlq>>

\* record_event: the notifications and the processed_event row in one commit.
RecordEvent(c) ==
  LET e == handler[c].event
  IN  /\ handler[c].pc = "handle" /\ e \notin Malformed
      /\ e \notin processed
      /\ processed' = processed \cup {e}
      /\ inbox' = [inbox EXCEPT ![e] = @ + 1]
      /\ Settle(c, "ack")
      /\ UNCHANGED <<relayVars, up, queue, dlq>>

\* DuplicateEvent: the primary key refuses, the transaction rolls back, the event is acked.
RefuseDuplicate(c) ==
  /\ handler[c].pc = "handle" /\ handler[c].event \in processed \ Malformed
  /\ Settle(c, "ack")
  /\ UNCHANGED <<relayVars, up, queue, dlq, processed, inbox>>

\* Mutant: the envelope read outside the try, its message neither acked nor rejected.
RefuseEventUnanswered(c) ==
  /\ handler[c].pc = "handle" /\ handler[c].event \notin Malformed
  /\ Settle(c, "reject")
  /\ UNCHANGED <<relayVars, up, queue, dlq, processed, inbox>>

\* A malformed envelope, or any other failure of the transaction, is for the dead letters.
RefuseEvent(c) ==
  /\ handler[c].pc = "handle"
  /\ Settle(c, "reject")
  /\ UNCHANGED <<relayVars, up, queue, dlq, processed, inbox>>

\* ack or reject(requeue=False) reaches the broker, if it still waits for one.
Answer(c) ==
  /\ handler[c].pc \in {"ack", "reject"}
  /\ dlq' = IF handler[c].pc = "reject" /\ handler[c].owned
            THEN dlq \cup {handler[c].event} ELSE dlq
  /\ handler' = [handler EXCEPT ![c] = NoDelivery]
  /\ UNCHANGED <<relayVars, up, queue, processed, inbox>>

\* The consumer dies: an unsettled delivery goes back to the queue.  One that only had an
\* answer left for a broker that no longer waits for it loses nothing.
LoseConsumer(c) ==
  /\ handler[c].pc = "handle" \/ handler[c].owned
  /\ queue' = IF handler[c].owned THEN [queue EXCEPT ![handler[c].event] = @ + 1] ELSE queue
  /\ handler' = [handler EXCEPT ![c] = NoDelivery]
  /\ UNCHANGED <<relayVars, up, dlq, processed, inbox>>

Handle(c) == RecordEvent(c) \/ RefuseDuplicate(c) \/ RefuseEvent(c)

PipelineNext ==
  \/ \E e \in Events : Enqueue(e)
  \/ \E r \in Relays :
       \/ BeginDrain(r) \/ RetireRow(r) \/ CommitDrain(r) \/ LoseDrain(r)
       \/ \E copies \in 0..2 : PublishRow(r, copies) \/ FailPublish(r, copies)
  \/ BrokerDown \/ BrokerUp
  \/ \E c \in Consumers :
       \/ \E e \in Events : Deliver(c, e)
       \/ Handle(c) \/ Answer(c) \/ LoseConsumer(c)

PipelineSpec == PipelineInit /\ [][PipelineNext]_pipelineVars

\* The relay polls for ever, the broker comes back, RabbitMQ delivers what waits and the
\* consumer handles what it is given.
PipelineFairness ==
  /\ WF_pipelineVars(BrokerUp)
  /\ \A r \in Relays :
       /\ WF_pipelineVars(BeginDrain(r))
       /\ WF_pipelineVars(RetireRow(r) \/ \E copies \in 0..2 : PublishRow(r, copies))
       /\ WF_pipelineVars(CommitDrain(r))
  /\ \A c \in Consumers :
       /\ WF_pipelineVars(\E e \in Events : Deliver(c, e))
       /\ WF_pipelineVars(Handle(c) \/ Answer(c))

PipelineFairSpec == PipelineSpec /\ PipelineFairness

\* What the network, the broker and crashes do to the pipeline.
Fault ==
  \/ BrokerDown
  \/ \E r \in Relays : LoseDrain(r) \/ \E copies \in 0..2 : FailPublish(r, copies)
  \/ \E c \in Consumers : LoseConsumer(c)

-----------------------------------------------------------------------------
(* Properties *)

\* Type correctness of the outbox, the broker and the consumers; a batch is bounded.
PipelineTypeOK ==
  /\ outbox \in Seq(Events) /\ IsInjective(outbox)
  /\ published \subseteq Events
  /\ relay \in [Relays ->
       [locked : SUBSET Events, batch : SUBSET Events, marked : SUBSET Events]]
  /\ \A r \in Relays : Cardinality(relay[r].batch) <= BatchSize
  /\ up \in BOOLEAN
  /\ queue \in [Events -> Nat]
  /\ dlq \subseteq Events
  /\ handler \in [Consumers -> [pc    : {"idle", "handle", "ack", "reject"},
                                event : Events \cup {None}, owned : BOOLEAN]]
  /\ processed \subseteq Events
  /\ inbox \in [Events -> Nat]

\* At-least-once relaying stays exactly-once in effect: however often an event is sent,
\* delivered and redelivered, its notifications are stored once (record_event).
StoredOnce == \A e \in Events : inbox[e] = IF e \in processed THEN 1 ELSE 0

\* Two relays never work on the same row (FOR UPDATE SKIP LOCKED).
RowsAreNotShared ==
  \A r, q \in Relays :
    r # q => (relay[r].batch \cup relay[r].marked) \cap (relay[q].batch \cup relay[q].marked) = {}

\* Where an event may be once its row says it was sent.
Accounted(e) ==
  \/ e \in Undecodable \cup processed \cup dlq
  \/ queue[e] > 0
  \/ \E c \in Consumers : handler[c].owned /\ handler[c].event = e

\* Where the publisher waits for confirms (offer-service), a row marked sent is at the
\* broker, in a consumer's hands, handled, or dead-lettered: an outage costs latency rather
\* than the notification (_drain, _handle).  The Go relays give no such guarantee.
PublishedIsNotLost == \A e \in published : Accounted(e)

\* Where the publisher waits for confirms (offer-service): once outages and crashes end,
\* every event that was enqueued, before or during them, is in the end stored or
\* dead-lettered, with nobody restarting anything, and a poison message does not come back
\* for ever (Relay._run, Consumer._handle).  A Go relay that marked a row during an outage,
\* having written its frame to a dead connection, never sends it again.
EventuallyHandled ==
  <>[][~Fault]_pipelineVars =>
    \A e \in Events : e \in Range(outbox) ~> e \in processed \cup dlq
=============================================================================
