------------------------- MODULE NotificationProofs -------------------------
(***************************************************************************)
(* Proofs about NotificationPipeline, for every set of events, every       *)
(* number of relays and consumers and every batch size.                    *)
(***************************************************************************)
EXTENDS NotificationPipeline, FiniteSetTheorems, WellFoundedInduction, TLAPS

Drain == [locked : SUBSET Events, batch : SUBSET Events, marked : SUBSET Events]

Delivery == [pc : {"idle", "handle", "ack", "reject"}, event : Events \cup {None},
             owned : BOOLEAN]

\* A relay works on rows of the outbox that it locked.
DrainFits(d) ==
  /\ d.batch \cup d.marked \subseteq d.locked
  /\ d.locked \subseteq Range(outbox)
  /\ IsFiniteSet(d.batch)

\* What a consumer holds: an event while it has a delivery, recorded before it is acked.
DeliveryFits(h) ==
  /\ h.pc = "idle" => ~h.owned
  /\ h.pc # "idle" => h.event \in Events
  /\ h.pc = "ack" => h.event \in processed

\* Rows locked by one relay are locked by no other.
LocksApart == \A r, q \in Relays : r # q => relay[r].locked \cap relay[q].locked = {}

\* What the relays have marked is sent, like what is published.
MarkedIsNotLost == \A r \in Relays : \A e \in relay[r].marked : Accounted(e)

\* The inductive invariant of the pipeline.
PipelineInv ==
  /\ PipelineTypeOK
  /\ \A r \in Relays : DrainFits(relay[r])
  /\ \A c \in Consumers : DeliveryFits(handler[c])
  /\ LocksApart
  /\ StoredOnce

\* With the broker's confirms, what is marked or published is accounted for.
ConfirmedInv ==
  /\ PipelineInv
  /\ MarkedIsNotLost
  /\ PublishedIsNotLost

-----------------------------------------------------------------------------
(* The operators *)

\* A set of natural numbers has a least element.
LEMMA LeastNatural ==
  ASSUME NEW T \in SUBSET Nat, T # {}
  PROVE  \E x \in T : \A y \in T : x <= y
<1> DEFINE R == OpToRel(<, Nat)
<1>1. IsWellFoundedOn(R, Nat)
  BY NatLessThanWellFounded
<1>2. \A x, y \in Nat : x < y => <<x, y>> \in R
  BY DEF OpToRel
<1> HIDE DEF R
<1>3. PICK x \in T : \A y \in T : ~(<<y, x>> \in R)
  BY <1>1, WFMin
<1>4. \A y \in T : ~(y < x)
  BY <1>2, <1>3
<1>5. QED
  BY <1>4

\* A bounded one has a greatest.
LEMMA GreatestNatural ==
  ASSUME NEW n \in Nat, NEW T \in SUBSET (1..n), T # {}
  PROVE  \E x \in T : \A y \in T : y <= x
<1> DEFINE U == {n - i : i \in T}
<1>1. U \in SUBSET Nat
  OBVIOUS
<1>2. U # {}
  OBVIOUS
<1>3. PICK u \in U : \A v \in U : u <= v
  BY <1>1, <1>2, LeastNatural
<1>4. PICK x \in T : u = n - x
  OBVIOUS
<1>5. \A y \in T : u <= n - y
  BY <1>3
<1>6. QED
  BY <1>4, <1>5

LEMMA PlaceIs ==
  ASSUME outbox \in Seq(Events), NEW e \in Range(outbox)
  PROVE  Place(e) \in 1..Len(outbox) /\ outbox[Place(e)] = e
<1>1. \E i \in DOMAIN outbox : outbox[i] = e
  BY DEF Range
<1>2. Place(e) \in DOMAIN outbox /\ outbox[Place(e)] = e
  BY <1>1 DEF Place
<1>3. QED
  BY <1>2

\* A drain that has rows left has one to come to next.
LEMMA OldestIn ==
  ASSUME outbox \in Seq(Events), NEW rows \in SUBSET Range(outbox), rows # {}
  PROVE  Oldest(rows) \in rows
<1> DEFINE T == {Place(e) : e \in rows}
<1>1. \A e \in rows : Place(e) \in Nat
  BY PlaceIs
<1>2. T \in SUBSET Nat
  BY <1>1
<1>3. T # {}
  OBVIOUS
<1>4. PICK x \in T : \A y \in T : x <= y
  BY <1>2, <1>3, LeastNatural
<1>5. PICK e \in rows : x = Place(e)
  OBVIOUS
<1>6. \A f \in rows : Place(e) <= Place(f)
  BY <1>4, <1>5
<1>7. QED
  BY <1>6 DEF Oldest

\* LIMIT: the rows taken are rows offered, and no more than a batch.
LEMMA FirstOfBounded ==
  ASSUME outbox \in Seq(Events), NEW rows \in SUBSET Range(outbox)
  PROVE  /\ FirstOf(rows) \subseteq rows
         /\ IsFiniteSet(FirstOf(rows)) /\ Cardinality(FirstOf(rows)) <= BatchSize
<1> DEFINE n == Len(outbox)
           first == FirstOf(rows)
           place == [e \in rows |-> Place(e)]
<1>1. n \in Nat
  OBVIOUS
<1>2. \A e \in rows : Place(e) \in 1..n /\ outbox[Place(e)] = e
  BY PlaceIs
<1>3. place \in Injection(rows, 1..n)
  BY <1>2 DEF Injection, IsInjective
<1>4. IsFiniteSet(rows)
  <2>1. IsFiniteSet(1..n)
    BY <1>1, FS_Interval
  <2>2. QED
    BY <1>3, <2>1, FS_Injection
<1>5. first \in SUBSET rows
  BY DEF FirstOf
<1>6. IsFiniteSet(first)
  BY <1>4, <1>5, FS_Subset
<1>7. CASE first = {}
  BY <1>5, <1>6, <1>7, FS_EmptySet, PipelineConstants
<1>8. CASE first # {}
  <2> DEFINE T == {Place(e) : e \in first}
  <2>1. T \in SUBSET (1..n) /\ T # {}
    BY <1>2, <1>5, <1>8
  <2>2. PICK x \in T : \A y \in T : y <= x
    BY <1>1, <2>1, GreatestNatural
  <2>3. PICK e \in first : x = Place(e)
    OBVIOUS
  <2> DEFINE upTo == {f \in rows : Place(f) <= Place(e)}
  <2>4. Cardinality(upTo) <= BatchSize
    BY <2>3 DEF FirstOf
  <2>5. first \in SUBSET upTo
    BY <1>5, <2>2, <2>3
  <2>6. IsFiniteSet(upTo)
    BY <1>4, FS_Subset
  <2>7. Cardinality(first) <= Cardinality(upTo)
    BY <2>5, <2>6, FS_Subset
  <2>8. Cardinality(first) \in Nat /\ Cardinality(upTo) \in Nat
    BY <1>6, <2>6, FS_CardinalityType
  <2>9. QED
    BY <1>5, <1>6, <2>4, <2>7, <2>8, PipelineConstants
<1>9. QED
  BY <1>7, <1>8

LEMMA RequeuedIs ==
  ASSUME NEW e
  PROVE  /\ Requeued(e) \in Nat
         /\ (\E c \in Consumers : handler[c].owned /\ handler[c].event = e) => Requeued(e) > 0
<1> DEFINE S == {c \in Consumers : handler[c].owned /\ handler[c].event = e}
<1>1. IsFiniteSet(S)
  BY FS_Subset, PipelineConstants
<1>2. Cardinality(S) \in Nat /\ (S # {} => Cardinality(S) # 0)
  BY <1>1, FS_CardinalityType, FS_EmptySet
<1>3. QED
  BY <1>2 DEF Requeued

-----------------------------------------------------------------------------
(* Preservation *)

\* A step of one relay's transaction.
LEMMA RelayStep ==
  ASSUME PipelineInv, NEW r \in Relays, NEW d \in Drain,
         relay' = [relay EXCEPT ![r] = d],
         DrainFits(d), Cardinality(d.batch) <= BatchSize,
         \A q \in Relays \ {r} : d.locked \cap relay[q].locked = {},
         published' \subseteq Events, queue' \in [Events -> Nat],
         UNCHANGED <<outbox, up, dlq, handler, processed, inbox>>
  PROVE  PipelineInv'
<1>1. relay \in [Relays -> Drain]
  BY DEF PipelineInv, PipelineTypeOK, Drain
<1>2. relay'[r] = d /\ \A q \in Relays \ {r} : relay'[q] = relay[q]
  BY <1>1
<1>3. relay' \in [Relays -> Drain]
  BY <1>1
<1>4. \A q \in Relays : Cardinality(relay'[q].batch) <= BatchSize
  BY <1>2 DEF PipelineInv, PipelineTypeOK
<1>5. PipelineTypeOK'
  BY <1>3, <1>4 DEF PipelineInv, PipelineTypeOK, Drain, Range, IsInjective
<1>6. (\A q \in Relays : DrainFits(relay[q]))'
  BY <1>2 DEF PipelineInv, DrainFits, Range
<1>7. (\A c \in Consumers : DeliveryFits(handler[c]))'
  BY DEF PipelineInv, DeliveryFits
<1>8. LocksApart'
  BY <1>2 DEF PipelineInv, LocksApart
<1>9. StoredOnce'
  BY DEF PipelineInv, StoredOnce
<1>10. QED
  BY <1>5, <1>6, <1>7, <1>8, <1>9 DEF PipelineInv

LEMMA NoDrainFits == NoDrain \in Drain /\ DrainFits(NoDrain) /\ Cardinality(NoDrain.batch) <= BatchSize
BY FS_EmptySet, PipelineConstants DEF NoDrain, Drain, DrainFits

LEMMA EnqueueStep ==
  ASSUME PipelineInv, NEW e \in Events, Enqueue(e)
  PROVE  PipelineInv'
<1> DEFINE n == Len(outbox)
<1>1. outbox \in Seq(Events) /\ IsInjective(outbox) /\ e \notin Range(outbox)
  BY DEF PipelineInv, PipelineTypeOK, Enqueue
<1>2. outbox' \in Seq(Events) /\ Len(outbox') = n + 1
  BY <1>1 DEF Enqueue
<1>3. (\A i \in 1..n : outbox'[i] = outbox[i]) /\ outbox'[n + 1] = e
  BY <1>1 DEF Enqueue
<1>4. DOMAIN outbox = 1..n /\ DOMAIN outbox' = 1..(n + 1) /\ n \in Nat
  BY <1>1, <1>2
<1> HIDE DEF n
<1>5. IsInjective(outbox')
  BY <1>1, <1>3, <1>4 DEF IsInjective, Range
<1>6. Range(outbox) \subseteq Range(outbox')
  BY <1>3, <1>4 DEF Range
<1>7. UNCHANGED <<published, relay, up, queue, dlq, handler, processed, inbox>>
  BY DEF Enqueue, consumerVars
<1>8. PipelineTypeOK'
  BY <1>2, <1>5, <1>7 DEF PipelineInv, PipelineTypeOK, IsInjective
<1>9. (\A r \in Relays : DrainFits(relay[r]))'
  <2>1. \A r \in Relays : DrainFits(relay[r])
    BY DEF PipelineInv
  <2>2. QED
    BY <1>6, <1>7, <2>1 DEF DrainFits, Range
<1>10. (\A c \in Consumers : DeliveryFits(handler[c]))' /\ LocksApart' /\ StoredOnce'
  BY <1>7 DEF PipelineInv, DeliveryFits, LocksApart, StoredOnce
<1>11. QED
  BY <1>8, <1>9, <1>10 DEF PipelineInv

LEMMA BeginDrainStep ==
  ASSUME PipelineInv, NEW r \in Relays, BeginDrain(r)
  PROVE  PipelineInv'
<1> DEFINE rows == Range(outbox) \ (published \cup Locked(r))
           batch == FirstOf(rows)
           d == [locked |-> batch, batch |-> batch, marked |-> {}]
<1>1. outbox \in Seq(Events)
  BY DEF PipelineInv, PipelineTypeOK
<1>2. batch \subseteq rows /\ IsFiniteSet(batch) /\ Cardinality(batch) <= BatchSize
  BY <1>1, FirstOfBounded
<1>3. relay' = [relay EXCEPT ![r] = d]
  BY DEF BeginDrain, Pending
<1>4. /\ published' \subseteq Events /\ queue' \in [Events -> Nat]
      /\ UNCHANGED <<outbox, up, dlq, handler, processed, inbox>>
  BY DEF BeginDrain, consumerVars, PipelineInv, PipelineTypeOK
<1> HIDE DEF batch
<1>5. Range(outbox) \subseteq Events
  BY <1>1 DEF Range
<1>6. d \in Drain /\ DrainFits(d) /\ Cardinality(d.batch) <= BatchSize
  BY <1>2, <1>5 DEF Drain, DrainFits
<1>7. \A q \in Relays \ {r} : d.locked \cap relay[q].locked = {}
  BY <1>2 DEF Locked
<1> HIDE DEF d
<1>8. QED
  BY <1>3, <1>4, <1>6, <1>7, RelayStep

\* A row is marked, whatever became of it.
LEMMA MarkStep ==
  ASSUME PipelineInv, NEW r \in Relays, relay[r].batch # {}, Mark(r),
         queue' \in [Events -> Nat],
         UNCHANGED <<outbox, published, up, dlq, handler, processed, inbox>>
  PROVE  PipelineInv'
<1> DEFINE e == Oldest(relay[r].batch)
           d == [relay[r] EXCEPT !.batch = @ \ {e}, !.marked = @ \cup {e}]
<1>1. relay[r] \in Drain /\ DrainFits(relay[r]) /\ outbox \in Seq(Events)
  BY DEF PipelineInv, PipelineTypeOK, Drain
<1>2. e \in relay[r].batch
  BY <1>1, OldestIn DEF DrainFits
<1>3. relay' = [relay EXCEPT ![r].batch = @ \ {e}, ![r].marked = @ \cup {e}]
  BY DEF Mark
<1> HIDE DEF e
<1>4. /\ d \in Drain /\ d.locked = relay[r].locked
      /\ d.batch = relay[r].batch \ {e} /\ d.marked = relay[r].marked \cup {e}
  BY <1>1, <1>2 DEF Drain
<1>5. relay' = [relay EXCEPT ![r] = d]
  BY <1>3 DEF PipelineInv, PipelineTypeOK
<1> HIDE DEF d
<1>6. IsFiniteSet(d.batch) /\ Cardinality(d.batch) = Cardinality(relay[r].batch) - 1
  BY <1>1, <1>2, <1>4, FS_RemoveElement DEF DrainFits
<1>7. Cardinality(relay[r].batch) \in Nat /\ Cardinality(relay[r].batch) <= BatchSize
  BY <1>1, FS_CardinalityType DEF DrainFits, PipelineInv, PipelineTypeOK
<1>8. Cardinality(d.batch) <= BatchSize
  BY <1>6, <1>7, PipelineConstants
<1>9. DrainFits(d)
  BY <1>1, <1>2, <1>4, <1>6 DEF DrainFits
<1>10. \A q \in Relays \ {r} : d.locked \cap relay[q].locked = {}
  BY <1>4 DEF PipelineInv, LocksApart
<1>11. published' \subseteq Events
  BY DEF PipelineInv, PipelineTypeOK
<1>12. QED
  BY <1>4, <1>5, <1>8, <1>9, <1>10, <1>11, RelayStep

\* The transaction ends.
LEMMA EndDrainStep ==
  ASSUME PipelineInv, NEW r \in Relays, relay' = [relay EXCEPT ![r] = NoDrain],
         published' \subseteq Events,
         UNCHANGED <<outbox, up, queue, dlq, handler, processed, inbox>>
  PROVE  PipelineInv'
<1>1. \A q \in Relays \ {r} : NoDrain.locked \cap relay[q].locked = {}
  BY DEF NoDrain
<1>2. queue' \in [Events -> Nat]
  BY DEF PipelineInv, PipelineTypeOK
<1>3. QED
  BY <1>1, <1>2, NoDrainFits, RelayStep

\* What PublishEvent leaves at the broker.
LEMMA PublishSends ==
  ASSUME PipelineInv, NEW r \in Relays, NEW copies \in 0..2, Publish(r, copies)
  PROVE  LET e == Oldest(relay[r].batch)
         IN  /\ e \in relay[r].batch /\ e \in Events
             /\ queue' \in [Events -> Nat]
             /\ queue'[e] = queue[e] + copies /\ queue[e] \in Nat
             /\ \A f \in Events \ {e} : queue'[f] = queue[f]
             /\ UNCHANGED <<outbox, published, up, dlq, handler, processed, inbox>>
<1> DEFINE e == Oldest(relay[r].batch)
<1>1. relay[r] \in Drain /\ DrainFits(relay[r]) /\ outbox \in Seq(Events) /\ relay[r].batch # {}
  BY DEF PipelineInv, PipelineTypeOK, Drain, Publish
<1>2. e \in relay[r].batch
  BY <1>1, OldestIn DEF DrainFits
<1>3. e \in Events
  BY <1>1, <1>2 DEF Drain
<1>4. queue \in [Events -> Nat] /\ queue' = [queue EXCEPT ![e] = @ + copies]
  BY DEF PipelineInv, PipelineTypeOK, Publish
<1>5. UNCHANGED <<outbox, published, up, dlq, handler, processed, inbox>>
  BY DEF Publish, consumerVars
<1> HIDE DEF e
<1>6. /\ queue' \in [Events -> Nat] /\ queue'[e] = queue[e] + copies /\ queue[e] \in Nat
      /\ \A f \in Events \ {e} : queue'[f] = queue[f]
  BY <1>3, <1>4
<1>7. QED
  BY <1>2, <1>3, <1>5, <1>6 DEF e

LEMMA FailPublishStep ==
  ASSUME PipelineInv, NEW r \in Relays, NEW copies \in 0..2, FailPublish(r, copies)
  PROVE  PipelineInv'
<1> DEFINE d == [relay[r] EXCEPT !.batch = {}]
<1>1. relay[r] \in Drain /\ DrainFits(relay[r])
  BY DEF PipelineInv, PipelineTypeOK, Drain
<1>2. d \in Drain /\ d.locked = relay[r].locked /\ d.batch = {} /\ d.marked = relay[r].marked
  BY <1>1 DEF Drain
<1>3. relay' = [relay EXCEPT ![r] = d]
  BY DEF FailPublish, PipelineInv, PipelineTypeOK
<1> HIDE DEF d
<1>4. DrainFits(d) /\ Cardinality(d.batch) <= BatchSize
  BY <1>1, <1>2, FS_EmptySet, PipelineConstants DEF DrainFits
<1>5. \A q \in Relays \ {r} : d.locked \cap relay[q].locked = {}
  BY <1>2 DEF PipelineInv, LocksApart
<1>6. /\ queue' \in [Events -> Nat]
      /\ UNCHANGED <<outbox, published, up, dlq, handler, processed, inbox>>
  BY PublishSends DEF FailPublish
<1>7. published' \subseteq Events
  BY <1>6 DEF PipelineInv, PipelineTypeOK
<1>8. QED
  BY <1>2, <1>3, <1>4, <1>5, <1>6, <1>7, RelayStep

LEMMA DrainStep ==
  ASSUME PipelineInv, NEW r \in Relays,
         \/ BeginDrain(r) \/ RetireRow(r) \/ CommitDrain(r) \/ LoseDrain(r)
         \/ \E copies \in 0..2 : PublishRow(r, copies) \/ FailPublish(r, copies)
  PROVE  PipelineInv'
<1>1. relay[r] \in Drain /\ published \subseteq Events /\ queue \in [Events -> Nat]
  BY DEF PipelineInv, PipelineTypeOK, Drain
<1>2. CASE RetireRow(r)
  BY <1>1, <1>2, MarkStep DEF RetireRow, consumerVars
<1>3. CASE CommitDrain(r)
  <2>1. published' \subseteq Events
    BY <1>1, <1>3 DEF CommitDrain, Drain
  <2>2. QED
    BY <1>3, <2>1, EndDrainStep DEF CommitDrain, consumerVars
<1>4. CASE LoseDrain(r)
  BY <1>1, <1>4, EndDrainStep DEF LoseDrain, consumerVars
<1>5. ASSUME NEW copies \in 0..2, PublishRow(r, copies)
      PROVE  PipelineInv'
  <2>1. /\ queue' \in [Events -> Nat]
        /\ UNCHANGED <<outbox, published, up, dlq, handler, processed, inbox>>
    BY <1>5, PublishSends DEF PublishRow
  <2>2. relay[r].batch # {} /\ Mark(r)
    BY <1>5 DEF PublishRow, Publish
  <2>3. QED
    BY <2>1, <2>2, MarkStep
<1>6. QED
  BY <1>2, <1>3, <1>4, <1>5, BeginDrainStep, FailPublishStep

\* What the consumers' steps leave of the relays.
LEMMA RelaysRest ==
  ASSUME PipelineInv, UNCHANGED <<outbox, published, relay>>
  PROVE  /\ (\A r \in Relays : DrainFits(relay[r]))' /\ LocksApart'
         /\ outbox' \in Seq(Events) /\ IsInjective(outbox') /\ published' \subseteq Events
         /\ relay' \in [Relays -> Drain]
         /\ \A r \in Relays : Cardinality(relay'[r].batch) <= BatchSize
BY DEF PipelineInv, PipelineTypeOK, Drain, DrainFits, LocksApart, Range, IsInjective

\* A step of one consumer.
LEMMA ConsumerStep ==
  ASSUME PipelineInv, NEW c \in Consumers, NEW h \in Delivery,
         handler' = [handler EXCEPT ![c] = h], DeliveryFits(h)',
         UNCHANGED <<outbox, published, relay, up>>,
         queue' \in [Events -> Nat], dlq' \subseteq Events,
         processed \subseteq processed', processed' \subseteq Events,
         inbox' \in [Events -> Nat], StoredOnce'
  PROVE  PipelineInv'
<1>1. handler \in [Consumers -> Delivery]
  BY DEF PipelineInv, PipelineTypeOK, Delivery
<1>2. handler'[c] = h /\ \A b \in Consumers \ {c} : handler'[b] = handler[b]
  BY <1>1
<1>3. handler' \in [Consumers -> Delivery] /\ up' \in BOOLEAN
  BY <1>1 DEF PipelineInv, PipelineTypeOK
<1>4. PipelineTypeOK'
  BY <1>3, RelaysRest DEF PipelineTypeOK, Drain, Delivery
<1>5. (\A b \in Consumers : DeliveryFits(handler[b]))'
  BY <1>2 DEF PipelineInv, DeliveryFits
<1>6. QED
  BY <1>4, <1>5, RelaysRest DEF PipelineInv

\* The delivery is over.
LEMMA EndDeliveryStep ==
  ASSUME PipelineInv, NEW c \in Consumers, handler' = [handler EXCEPT ![c] = NoDelivery],
         UNCHANGED <<outbox, published, relay, up, processed, inbox>>,
         queue' \in [Events -> Nat], dlq' \subseteq Events
  PROVE  PipelineInv'
<1>1. NoDelivery \in Delivery /\ DeliveryFits(NoDelivery)'
  BY DEF NoDelivery, Delivery, DeliveryFits
<1>2. StoredOnce' /\ processed' \subseteq Events /\ inbox' \in [Events -> Nat]
  BY DEF PipelineInv, PipelineTypeOK, StoredOnce
<1>3. QED
  BY <1>1, <1>2, ConsumerStep

LEMMA DeliverStep ==
  ASSUME PipelineInv, NEW c \in Consumers, NEW e \in Events, Deliver(c, e)
  PROVE  PipelineInv'
<1> DEFINE h == [pc |-> "handle", event |-> e, owned |-> TRUE]
<1>1. h \in Delivery /\ DeliveryFits(h)'
  BY DEF Delivery, DeliveryFits
<1>2. handler' = [handler EXCEPT ![c] = h]
  BY DEF Deliver
<1> HIDE DEF h
<1>3. UNCHANGED <<outbox, published, relay, up, dlq, processed, inbox>>
  BY DEF Deliver, relayVars
<1>4. queue' \in [Events -> Nat]
  BY DEF Deliver, PipelineInv, PipelineTypeOK
<1>5. /\ StoredOnce' /\ processed' \subseteq Events /\ inbox' \in [Events -> Nat]
      /\ dlq' \subseteq Events
  BY <1>3 DEF PipelineInv, PipelineTypeOK, StoredOnce
<1>6. QED
  BY <1>1, <1>2, <1>3, <1>4, <1>5, ConsumerStep

LEMMA HandleStep ==
  ASSUME PipelineInv, NEW c \in Consumers, Handle(c)
  PROVE  PipelineInv'
<1>1. /\ handler[c] \in Delivery /\ DeliveryFits(handler[c])
      /\ handler[c].pc = "handle" /\ handler[c].event \in Events
      /\ handler \in [Consumers -> Delivery]
  BY DEF PipelineInv, PipelineTypeOK, Delivery, DeliveryFits, Handle, RecordEvent,
     RefuseDuplicate, RefuseEvent
<1>2. UNCHANGED <<outbox, published, relay, up, queue, dlq>>
  BY DEF Handle, RecordEvent, RefuseDuplicate, RefuseEvent, relayVars
<1>3. queue' \in [Events -> Nat] /\ dlq' \subseteq Events
  BY <1>2 DEF PipelineInv, PipelineTypeOK
<1>4. PICK e \in Events : e = handler[c].event
  BY <1>1
<1>5. ASSUME NEW how \in {"ack", "reject"}, Settle(c, how), how = "ack" => e \in processed',
             processed \subseteq processed', processed' \subseteq Events,
             inbox' \in [Events -> Nat], StoredOnce'
      PROVE  PipelineInv'
  <2>1. PICK h \in Delivery : h = [handler[c] EXCEPT !.pc = how]
    BY <1>1 DEF Delivery
  <2>2. h.pc = how /\ h.event = e /\ handler' = [handler EXCEPT ![c] = h]
    BY <1>1, <1>4, <1>5, <2>1 DEF Delivery, Settle
  <2>3. DeliveryFits(h)'
    BY <1>5, <2>2 DEF DeliveryFits
  <2>4. QED
    BY <1>2, <1>3, <1>5, <2>2, <2>3, ConsumerStep
<1>6. CASE RecordEvent(c)
  <2>1. /\ processed' = processed \cup {e} /\ e \notin processed
        /\ inbox' = [inbox EXCEPT ![e] = @ + 1] /\ Settle(c, "ack")
    BY <1>4, <1>6 DEF RecordEvent
  <2>2. processed \subseteq Events /\ inbox \in [Events -> Nat] /\ StoredOnce
    BY DEF PipelineInv, PipelineTypeOK
  <2>3. processed' \subseteq Events /\ inbox' \in [Events -> Nat]
    BY <2>1, <2>2
  <2>4. inbox'[e] = inbox[e] + 1 /\ \A f \in Events \ {e} : inbox'[f] = inbox[f]
    BY <2>1, <2>2
  <2>5. StoredOnce'
    BY <2>1, <2>2, <2>4 DEF StoredOnce
  <2>6. QED
    BY <1>5, <2>1, <2>3, <2>5
<1>7. CASE RefuseDuplicate(c) \/ RefuseEvent(c)
  <2>1. UNCHANGED <<processed, inbox>>
    BY <1>7 DEF RefuseDuplicate, RefuseEvent
  <2>2. processed' \subseteq Events /\ inbox' \in [Events -> Nat] /\ StoredOnce'
    BY <2>1 DEF PipelineInv, PipelineTypeOK, StoredOnce
  <2>3. (Settle(c, "ack") /\ e \in processed') \/ Settle(c, "reject")
    BY <1>4, <1>7, <2>1 DEF RefuseDuplicate, RefuseEvent
  <2>4. QED
    BY <1>5, <2>1, <2>2, <2>3
<1>8. QED
  BY <1>6, <1>7 DEF Handle

LEMMA AnswerStep ==
  ASSUME PipelineInv, NEW c \in Consumers, Answer(c)
  PROVE  PipelineInv'
<1>1. handler[c].event \in Events /\ dlq \subseteq Events /\ queue \in [Events -> Nat]
  BY DEF PipelineInv, PipelineTypeOK, DeliveryFits, Answer
<1>2. dlq' \subseteq Events
  BY <1>1 DEF Answer
<1>3. QED
  BY <1>1, <1>2, EndDeliveryStep DEF Answer, relayVars

LEMMA LoseConsumerStep ==
  ASSUME PipelineInv, NEW c \in Consumers, LoseConsumer(c)
  PROVE  PipelineInv'
<1>1. handler[c].event \in Events /\ dlq \subseteq Events /\ queue \in [Events -> Nat]
  BY DEF PipelineInv, PipelineTypeOK, DeliveryFits, LoseConsumer
<1>2. queue' \in [Events -> Nat]
  BY <1>1 DEF LoseConsumer
<1>3. QED
  BY <1>1, <1>2, EndDeliveryStep DEF LoseConsumer, relayVars

LEMMA BrokerDownStep ==
  ASSUME PipelineInv, BrokerDown
  PROVE  PipelineInv'
<1>1. UNCHANGED <<outbox, published, relay, dlq, processed, inbox>> /\ up' \in BOOLEAN
  BY DEF BrokerDown, relayVars
<1>2. handler \in [Consumers -> Delivery] /\ queue \in [Events -> Nat]
  BY DEF PipelineInv, PipelineTypeOK, Delivery
<1>3. queue' \in [Events -> Nat]
  BY <1>2, RequeuedIs DEF BrokerDown
<1>4. handler' \in [Consumers -> Delivery]
  BY <1>2 DEF BrokerDown, Delivery
<1>5. \A c \in Consumers : /\ handler'[c].pc = handler[c].pc
                           /\ handler'[c].event = handler[c].event
                           /\ ~handler'[c].owned
  BY <1>2 DEF BrokerDown, Delivery
<1>6. (\A c \in Consumers : DeliveryFits(handler[c]))'
  BY <1>1, <1>5 DEF PipelineInv, DeliveryFits
<1>7. StoredOnce' /\ dlq' \subseteq Events /\ processed' \subseteq Events /\ inbox' \in [Events -> Nat]
  BY <1>1 DEF PipelineInv, PipelineTypeOK, StoredOnce
<1>8. PipelineTypeOK'
  BY <1>1, <1>3, <1>4, <1>7, RelaysRest DEF PipelineTypeOK, Drain, Delivery
<1>9. QED
  BY <1>1, <1>6, <1>7, <1>8, RelaysRest DEF PipelineInv

LEMMA RestStep ==
  ASSUME PipelineInv, up' \in BOOLEAN,
         UNCHANGED <<outbox, published, relay, queue, dlq, handler, processed, inbox>>
  PROVE  PipelineInv'
<1>1. /\ (\A c \in Consumers : DeliveryFits(handler[c]))'
      /\ StoredOnce' /\ dlq' \subseteq Events /\ processed' \subseteq Events
      /\ inbox' \in [Events -> Nat] /\ queue' \in [Events -> Nat]
      /\ handler' \in [Consumers -> Delivery]
  BY DEF PipelineInv, PipelineTypeOK, StoredOnce, DeliveryFits, Delivery
<1>2. PipelineTypeOK'
  BY <1>1, RelaysRest DEF PipelineTypeOK, Drain, Delivery
<1>3. QED
  BY <1>1, <1>2, RelaysRest DEF PipelineInv

\* The invariant is inductive.
LEMMA PipelineInvStep == PipelineInv /\ [PipelineNext]_pipelineVars => PipelineInv'
<1> SUFFICES ASSUME PipelineInv, [PipelineNext]_pipelineVars PROVE PipelineInv'
  OBVIOUS
<1>1. CASE UNCHANGED pipelineVars \/ BrokerUp
  <2>1. /\ up' \in BOOLEAN
        /\ UNCHANGED <<outbox, published, relay, queue, dlq, handler, processed, inbox>>
    BY <1>1 DEF BrokerUp, pipelineVars, relayVars, consumerVars, PipelineInv, PipelineTypeOK
  <2>2. QED
    BY <2>1, RestStep
<1>2. QED
  BY <1>1, EnqueueStep, DrainStep, BrokerDownStep, DeliverStep, HandleStep, AnswerStep,
     LoseConsumerStep DEF PipelineNext

LEMMA PipelineInvInit == PipelineInit => PipelineInv
<1> SUFFICES ASSUME PipelineInit PROVE PipelineInv
  OBVIOUS
<1>1. outbox \in Seq(Events) /\ IsInjective(outbox)
  BY DEF PipelineInit, IsInjective
<1>2. \A r \in Relays : relay[r] = NoDrain
  BY DEF PipelineInit
<1>3. relay \in [Relays -> Drain] /\ \A r \in Relays : Cardinality(relay[r].batch) <= BatchSize
  BY <1>2, NoDrainFits DEF PipelineInit
<1>4. handler \in [Consumers -> Delivery] /\ \A c \in Consumers : DeliveryFits(handler[c])
  BY DEF PipelineInit, NoDelivery, Delivery, DeliveryFits
<1>5. PipelineTypeOK
  BY <1>1, <1>3, <1>4 DEF PipelineInit, PipelineTypeOK, Drain, Delivery
<1>6. LocksApart
  BY <1>2 DEF LocksApart, NoDrain
<1>7. StoredOnce
  BY DEF PipelineInit, StoredOnce
<1>8. QED
  BY <1>2, <1>4, <1>5, <1>6, <1>7, NoDrainFits DEF PipelineInv

\* The pipeline keeps its invariant, with or without confirms, whatever dies.
THEOREM PipelineSafety == PipelineSpec => []PipelineInv
BY PipelineInvInit, PipelineInvStep, PTL DEF PipelineSpec

-----------------------------------------------------------------------------
(* The properties *)

\* The outbox, the relays' transactions, the broker and the consumers stay within their
\* types, and a batch within its limit (drain's LIMIT).
THEOREM PipelineTypeCorrect == PipelineSpec => []PipelineTypeOK
<1>1. PipelineInv => PipelineTypeOK
  BY DEF PipelineInv
<1>2. QED
  BY <1>1, PipelineSafety, PTL

\* However often an event is sent and delivered, its notifications are stored once
\* (record_event and the primary key of processed_event).
THEOREM ExactlyOnce == PipelineSpec => []StoredOnce
<1>1. PipelineInv => StoredOnce
  BY DEF PipelineInv
<1>2. QED
  BY <1>1, PipelineSafety, PTL

\* Two relays never work on the same row (drain: FOR UPDATE SKIP LOCKED).
THEOREM RowsNotShared == PipelineSpec => []RowsAreNotShared
<1>1. PipelineInv => RowsAreNotShared
  BY DEF PipelineInv, DrainFits, LocksApart, RowsAreNotShared
<1>2. QED
  BY <1>1, PipelineSafety, PTL

-----------------------------------------------------------------------------
(* Nothing marked sent is lost, when the publisher waits for confirms *)

\* Accounted stays true when the broker only gains.
LEMMA AccountedGains ==
  ASSUME NEW e \in Events, Accounted(e), queue[e] \in Nat, queue'[e] \in Nat, queue'[e] >= queue[e],
         processed \subseteq processed', dlq \subseteq dlq',
         \A c \in Consumers : handler[c].owned /\ handler[c].event = e =>
                                handler'[c].owned /\ handler'[c].event = e
  PROVE  Accounted(e)'
BY DEF Accounted

\* The relays' steps only add to the queue.
LEMMA DrainGains ==
  ASSUME PipelineInv, NEW r \in Relays,
         \/ BeginDrain(r) \/ RetireRow(r) \/ CommitDrain(r) \/ LoseDrain(r)
         \/ \E copies \in 0..2 : PublishRow(r, copies) \/ FailPublish(r, copies),
         NEW e \in Events, Accounted(e)
  PROVE  Accounted(e)'
<1>1. queue \in [Events -> Nat]
  BY DEF PipelineInv, PipelineTypeOK
<1>2. UNCHANGED <<dlq, handler, processed>>
  BY DEF BeginDrain, RetireRow, CommitDrain, LoseDrain, PublishRow, FailPublish, Publish,
     consumerVars
<1>3. CASE UNCHANGED queue
  BY <1>1, <1>2, <1>3, AccountedGains
<1>4. ASSUME NEW copies \in 0..2, Publish(r, copies)
      PROVE  Accounted(e)'
  <2>1. queue'[e] \in Nat /\ queue'[e] >= queue[e] /\ queue[e] \in Nat
    BY <1>1, <1>4, PublishSends
  <2>2. QED
    BY <1>2, <2>1, AccountedGains
<1>5. QED
  BY <1>3, <1>4 DEF BeginDrain, RetireRow, CommitDrain, LoseDrain, PublishRow, FailPublish

LEMMA AccountedKept ==
  ASSUME PipelineInv, [PipelineNext]_pipelineVars, NEW e \in Events, Accounted(e)
  PROVE  Accounted(e)'
<1>1. /\ queue \in [Events -> Nat] /\ queue[e] \in Nat
      /\ handler \in [Consumers -> Delivery]
      /\ \A c \in Consumers : DeliveryFits(handler[c])
  BY DEF PipelineInv, PipelineTypeOK, Delivery
<1>2. CASE UNCHANGED pipelineVars \/ BrokerUp \/ \E f \in Events : Enqueue(f)
  <2>1. UNCHANGED <<queue, dlq, handler, processed>>
    BY <1>2 DEF pipelineVars, BrokerUp, Enqueue, consumerVars
  <2>2. QED
    BY <1>1, <2>1, AccountedGains
<1>3. CASE BrokerDown
  <2>1. queue'[e] = queue[e] + Requeued(e) /\ UNCHANGED <<dlq, processed>>
    BY <1>3 DEF BrokerDown
  <2>2. QED
    BY <1>1, <2>1, RequeuedIs DEF Accounted
<1>4. ASSUME NEW c \in Consumers, NEW f \in Events, Deliver(c, f)
      PROVE  Accounted(e)'
  <2>1. /\ handler'[c].owned /\ handler'[c].event = f
        /\ \A b \in Consumers \ {c} : handler'[b] = handler[b]
        /\ ~handler[c].owned
        /\ \A g \in Events \ {f} : queue'[g] = queue[g]
        /\ UNCHANGED <<dlq, processed>>
    BY <1>1, <1>4 DEF Deliver, DeliveryFits
  <2>2. CASE e = f
    BY <2>1, <2>2 DEF Accounted
  <2>3. CASE e # f
    BY <1>1, <2>1, <2>3, AccountedGains
  <2>4. QED
    BY <2>2, <2>3
<1>5. ASSUME NEW c \in Consumers, Handle(c)
      PROVE  Accounted(e)'
  <2>1. /\ UNCHANGED <<queue, dlq>> /\ processed \subseteq processed'
        /\ Settle(c, "ack") \/ Settle(c, "reject")
    BY <1>5 DEF Handle, RecordEvent, RefuseDuplicate, RefuseEvent
  <2>2. \A b \in Consumers : /\ handler'[b].owned = handler[b].owned
                             /\ handler'[b].event = handler[b].event
    BY <1>1, <2>1 DEF Settle, Delivery
  <2>3. QED
    BY <1>1, <2>1, <2>2, AccountedGains
<1>6. ASSUME NEW c \in Consumers, Answer(c)
      PROVE  Accounted(e)'
  <2>1. /\ \A b \in Consumers \ {c} : handler'[b] = handler[b]
        /\ UNCHANGED <<queue, processed>> /\ dlq \subseteq dlq'
    BY <1>1, <1>6 DEF Answer
  <2>2. CASE handler[c].owned /\ handler[c].event = e
    <3>1. e \in processed \/ e \in dlq'
      BY <1>1, <1>6, <2>2 DEF Answer, DeliveryFits
    <3>2. QED
      BY <2>1, <3>1 DEF Accounted
  <2>3. CASE ~(handler[c].owned /\ handler[c].event = e)
    BY <1>1, <2>1, <2>3, AccountedGains
  <2>4. QED
    BY <2>2, <2>3
<1>7. ASSUME NEW c \in Consumers, LoseConsumer(c)
      PROVE  Accounted(e)'
  <2>1. /\ \A b \in Consumers \ {c} : handler'[b] = handler[b]
        /\ UNCHANGED <<dlq, processed>>
        /\ queue'[e] \in Nat /\ queue'[e] >= queue[e]
        /\ handler[c].owned /\ handler[c].event = e => queue'[e] > 0
    BY <1>1, <1>7 DEF LoseConsumer, DeliveryFits
  <2>2. CASE handler[c].owned /\ handler[c].event = e
    BY <2>1, <2>2 DEF Accounted
  <2>3. CASE ~(handler[c].owned /\ handler[c].event = e)
    BY <1>1, <2>1, <2>3, AccountedGains
  <2>4. QED
    BY <2>2, <2>3
<1>8. QED
  BY <1>2, <1>3, <1>4, <1>5, <1>6, <1>7, DrainGains DEF PipelineNext

\* A row is marked only when the broker has it, or nobody could publish it.
LEMMA MarkedIsAccounted ==
  ASSUME Confirms, PipelineInv, [PipelineNext]_pipelineVars, NEW q \in Relays,
         NEW e \in relay'[q].marked, e \notin relay[q].marked
  PROVE  Accounted(e)'
<1>1. relay \in [Relays -> Drain] /\ queue \in [Events -> Nat]
  BY DEF PipelineInv, PipelineTypeOK, Drain
<1>2. relay'[q] # relay[q]
  OBVIOUS
<1>3. PICK r \in Relays :
        \/ BeginDrain(r) \/ RetireRow(r) \/ CommitDrain(r) \/ LoseDrain(r)
        \/ \E copies \in 0..2 : PublishRow(r, copies) \/ FailPublish(r, copies)
  BY <1>2 DEF PipelineNext, pipelineVars, Enqueue, BrokerDown, BrokerUp, Deliver, Handle,
     RecordEvent, RefuseDuplicate, RefuseEvent, Answer, LoseConsumer, relayVars
<1>4. ASSUME Mark(r)
      PROVE  e = Oldest(relay[r].batch)
  BY <1>1, <1>4 DEF Mark, Drain
<1>5. RetireRow(r) \/ \E copies \in 0..2 : PublishRow(r, copies)
  BY <1>1, <1>3 DEF BeginDrain, CommitDrain, LoseDrain, FailPublish, NoDrain, Drain
<1>6. CASE RetireRow(r)
  BY <1>4, <1>6 DEF RetireRow, Accounted
<1>7. ASSUME NEW copies \in 0..2, PublishRow(r, copies)
      PROVE  Accounted(e)'
  <2>1. Publish(r, copies) /\ copies > 0 /\ e = Oldest(relay[r].batch)
    BY <1>4, <1>7 DEF PublishRow
  <2>2. queue'[e] = queue[e] + copies /\ queue[e] \in Nat
    BY <2>1, PublishSends
  <2>3. QED
    BY <2>1, <2>2 DEF Accounted
<1>8. QED
  BY <1>5, <1>6, <1>7

LEMMA ConfirmedInvStep ==
  ASSUME Confirms
  PROVE  ConfirmedInv /\ [PipelineNext]_pipelineVars => ConfirmedInv'
<1> SUFFICES ASSUME ConfirmedInv, [PipelineNext]_pipelineVars PROVE ConfirmedInv'
  OBVIOUS
<1>1. PipelineInv /\ PipelineInv'
  BY PipelineInvStep DEF ConfirmedInv
<1>2. \A q \in Relays : relay[q].marked \subseteq Events /\ relay'[q].marked \subseteq Events
  BY <1>1 DEF PipelineInv, PipelineTypeOK
<1>3. MarkedIsNotLost'
  <2>1. SUFFICES ASSUME NEW q \in Relays, NEW e \in relay'[q].marked PROVE Accounted(e)'
    BY DEF MarkedIsNotLost
  <2>2. CASE e \in relay[q].marked
    BY <1>1, <1>2, <2>2, AccountedKept DEF ConfirmedInv, MarkedIsNotLost
  <2>3. CASE e \notin relay[q].marked
    BY <1>1, <2>3, MarkedIsAccounted
  <2>4. QED
    BY <2>2, <2>3
<1>4. PublishedIsNotLost'
  <2>1. \A e \in published' : e \in published \/ \E q \in Relays : e \in relay[q].marked
    BY DEF PipelineNext, pipelineVars, Enqueue, BrokerDown, BrokerUp, Deliver, Handle,
       RecordEvent, RefuseDuplicate, RefuseEvent, Answer, LoseConsumer, relayVars,
       BeginDrain, RetireRow, CommitDrain, LoseDrain, PublishRow, FailPublish, Publish
  <2>2. published \subseteq Events
    BY <1>1 DEF PipelineInv, PipelineTypeOK
  <2>3. \A e \in published' : e \in Events /\ Accounted(e)
    BY <1>2, <2>1, <2>2 DEF ConfirmedInv, MarkedIsNotLost, PublishedIsNotLost
  <2>4. QED
    BY <1>1, <2>3, AccountedKept DEF PublishedIsNotLost
<1>5. QED
  BY <1>1, <1>3, <1>4 DEF ConfirmedInv

\* Where the publisher waits for the broker's confirm (offer-service), a row marked sent is
\* at the broker, in a consumer's hands, handled or dead-lettered, whatever dies (drain,
\* _handle).
THEOREM PublishedNotLost ==
  ASSUME Confirms
  PROVE  PipelineSpec => []PublishedIsNotLost
<1>1. PipelineInit => ConfirmedInv
  BY PipelineInvInit DEF PipelineInit, ConfirmedInv, MarkedIsNotLost, PublishedIsNotLost, NoDrain
<1>2. ConfirmedInv /\ [PipelineNext]_pipelineVars => ConfirmedInv'
  BY ConfirmedInvStep
<1>3. ConfirmedInv => PublishedIsNotLost
  BY DEF ConfirmedInv
<1>4. QED
  BY <1>1, <1>2, <1>3, PTL DEF PipelineSpec
=============================================================================
