---------------------------- MODULE StreamsProofs ---------------------------
(***************************************************************************)
(* Proofs about Collector and Hub, for every set of exchanges, every burst *)
(* and every interval; the collector's for every size of batch, the hub's  *)
(* for all subscribers and every size of queue.                            *)
(***************************************************************************)
EXTENDS Collector, Hub, SequenceTheorems, TLAPS

----------------------------------------------------------------------------
(* The collector. *)

Steps == {"get", "flush?", "write", "stopped"}

\* The types of the clients' state; no symbol is listed in the future.
StreamsType ==
  /\ now \in Nat
  /\ conn \in [Exchanges -> States]
  /\ timer \in [Exchanges -> Nat]
  /\ deadline \in [Exchanges -> Nat]
  /\ listed \in Nat \cup {Never} /\ listed <= now

\* A client that reads wakes up in time, and began its last wait before the
\* deadline; one that does not know the new symbol connected before the listing.
StreamsInv ==
  /\ StreamsType
  /\ \A e \in Resubscribing :
       /\ conn[e] = "reading" => now <= timer[e] /\ timer[e] < deadline[e] + IdleTimeout
       /\ conn[e] \in {"connecting", "reading"} => deadline[e] <= now + ResubInterval
       /\ conn[e] \in {"connecting", "reading"} /\ listed # Never /\ e \notin knows
            => deadline[e] <= listed + ResubInterval

\* The types of the consumer's state.
ConsumerType ==
  /\ received \in Nat
  /\ step \in Steps
  /\ queue \in Seq(Nat) /\ batch \in Seq(Nat) /\ written \in Seq(Nat)
  /\ lastFlush \in Nat /\ waitSince \in Nat

\* The consumer wakes up in time, it began to wait with a batch that was not due,
\* and it writes no empty batch.  Nothing runs in a process that has stopped.
ConsumerInv ==
  /\ ConsumerType
  /\ step = "get" => now <= waitSince + FlushInterval
  /\ step = "get" /\ batch # <<>> => waitSince - lastFlush < FlushInterval
  /\ step = "write" => batch # <<>>
  /\ step = "stopped" => batch = <<>> /\ queue = <<>>
                         /\ \A e \in Exchanges : conn[e] = "cancelled"

Inv == StreamsInv /\ ConsumerInv

\* What the clients, the exchange and the clock may do in a step.
StreamStep ==
  \/ \E e \in Exchanges : Connection(e)
  \/ \E e \in Exchanges, k \in Nat : Message(e, k)
  \/ List
  \/ Tick
  \/ Cancel
  \/ StartStreams

----------------------------------------------------------------------------
(* The streams. *)

\* The client's reading on keeps the invariant of the clients, whatever led to it.
LEMMA ReadingOn ==
  ASSUME StreamsInv, NEW e \in Exchanges, conn[e] \in {"connecting", "reading"},
         ReadsOn(e), UNCHANGED <<now, knows, listed>>
  PROVE  StreamsInv'
<1> USE StreamAssumption DEF StreamsInv, StreamsType, States, Never
<1>1. CASE Delays(e)
  BY <1>1 DEF Delays
<1>2. CASE Awaits(e) /\ ~(e \in Resubscribing /\ now >= deadline[e])
  <2>1. /\ conn' = [conn EXCEPT ![e] = "reading"]
        /\ timer' = [timer EXCEPT ![e] = IF e \in Selective THEN now + IdleTimeout ELSE 0]
        /\ deadline' = deadline
    BY <1>2 DEF Awaits
  <2>2. StreamsType'
    BY <2>1
  <2>3. ASSUME NEW f \in Resubscribing
        PROVE  /\ (conn[f] = "reading" => now <= timer[f] /\ timer[f] < deadline[f] + IdleTimeout)'
               /\ (conn[f] \in {"connecting", "reading"} => deadline[f] <= now + ResubInterval)'
               /\ (conn[f] \in {"connecting", "reading"} /\ listed # Never /\ f \notin knows
                     => deadline[f] <= listed + ResubInterval)'
    <3>1. CASE f = e
      BY <1>2, <2>1, <3>1
    <3>2. CASE f # e
      BY <2>1, <3>2
    <3> QED BY <3>1, <3>2
  <2> QED BY <2>2, <2>3
<1> QED BY <1>1, <1>2 DEF ReadsOn

\* Every step of the clients, the exchanges and the clock keeps their invariant.
LEMMA StreamsStep ==
  ASSUME StreamsInv, StreamStep
  PROVE  StreamsInv'
<1> USE StreamAssumption
<1>1. ASSUME NEW e \in Exchanges, Connection(e)
      PROVE  StreamsInv'
  <2>1. CASE Begin(e)
    <3>1. /\ conn' = [conn EXCEPT ![e] = "connecting"]
          /\ deadline' = [deadline EXCEPT ![e] =
               IF e \in Resubscribing THEN now + ResubInterval ELSE 0]
          /\ UNCHANGED <<now, timer, listed>>
      BY <2>1 DEF Begin
    <3>2. StreamsType'
      BY <3>1 DEF StreamsInv, StreamsType, States, Never
    <3>3. /\ listed # Never => knows' = knows \cup ({e} \cap Selective)
          /\ listed = Never => knows' = knows
      BY <2>1 DEF Begin
    <3>4. ASSUME NEW f \in Resubscribing
          PROVE  /\ (conn[f] = "reading" => now <= timer[f] /\ timer[f] < deadline[f] + IdleTimeout)'
                 /\ (conn[f] \in {"connecting", "reading"} => deadline[f] <= now + ResubInterval)'
                 /\ (conn[f] \in {"connecting", "reading"} /\ listed # Never /\ f \notin knows
                       => deadline[f] <= listed + ResubInterval)'
      <4>1. CASE f = e
        BY <3>1, <3>3, <4>1 DEF StreamsInv, StreamsType, States, Never
      <4>2. CASE f # e
        BY <3>1, <3>3, <4>2 DEF StreamsInv, StreamsType, States, Never
      <4> QED BY <4>1, <4>2
    <3> QED BY <3>2, <3>4 DEF StreamsInv
  <2>2. CASE Connected(e)
    BY <2>2, ReadingOn DEF Connected
  <2>3. CASE Ping(e)
    BY <2>3, ReadingOn DEF Ping
  <2>4. CASE Drop(e)
    BY <2>4 DEF Drop, Delays, StreamsInv, StreamsType, States, Never
  <2>5. CASE Die(e)
    BY <2>5 DEF Die, StreamsInv, StreamsType, States, Never
  <2>6. CASE DelayOver(e)
    BY <2>6 DEF DelayOver, StreamsInv, StreamsType, States, Never
  <2> QED BY <1>1, <2>1, <2>2, <2>3, <2>4, <2>5, <2>6 DEF Connection
<1>2. ASSUME NEW e \in Exchanges, NEW k \in Nat, Message(e, k)
      PROVE  StreamsInv'
  BY <1>2, ReadingOn DEF Message
<1>3. CASE List
  BY <1>3 DEF List, StreamsInv, StreamsType, States, Never
<1>4. CASE Tick
  <2>1. ASSUME NEW e \in Resubscribing, conn[e] = "reading"
        PROVE  now < timer[e]
    BY <1>4, <2>1 DEF Tick, Due, StreamsInv, StreamsType
  <2> QED BY <1>4, <2>1 DEF Tick, StreamsInv, StreamsType, States, Never
<1>5. CASE Cancel
  BY <1>5 DEF Cancel, StreamsInv, StreamsType, States, Never
<1>6. CASE StartStreams
  BY <1>6 DEF StartStreams, StreamsInv, StreamsType, States, Never
<1> QED BY <1>1, <1>2, <1>3, <1>4, <1>5, <1>6 DEF StreamStep

\* Only Tick moves the clock.
LEMMA ClockStands ==
  ASSUME NEW e \in Exchanges, NEW k \in Nat,
         Connection(e) \/ Message(e, k) \/ List \/ Cancel \/ StartStreams
  PROVE  now' = now
BY DEF Connection, Begin, Connected, Ping, Drop, Die, DelayOver, Message, List, Cancel, StartStreams

----------------------------------------------------------------------------
(* The consumer. *)

\* A step of the collector is a step of the streams or leaves them alone.
LEMMA CollectorStreams ==
  ASSUME Inv, CollectorNext
  PROVE  StreamStep \/ UNCHANGED streamVars
BY DEF CollectorNext, StreamStep, Drain, Consume, Take, TimesOut, Decide, Write, Stop, Start,
       Inv, ConsumerInv, ConsumerType

\* A write leaves a sequence of events in the database.
LEMMA RowsStored ==
  ASSUME ConsumerType
  PROVE  \A w \in Stored : w \in Seq(Nat)
BY ConcatProperties DEF ConsumerType, Stored

\* The invariant holds of the collector, step by step.
LEMMA ConsumerStep ==
  ASSUME Inv, [CollectorNext]_vars
  PROVE  ConsumerInv'
<1> USE CollectorAssumption DEF Inv, ConsumerInv
<1>0. now \in Nat
  BY DEF StreamsInv, StreamsType
<1>1. ASSUME NEW e \in Exchanges, Drain(e)
      PROVE  ConsumerInv'
  <2>1. PICK k \in 0 .. MaxEvents - received :
          Message(e, k) /\ received' = received + k /\ queue' = queue \o Numbered(received, k)
    BY <1>1 DEF Drain
  <2>2. Numbered(received, k) \in Seq(Nat)
    BY <2>1 DEF Numbered, ConsumerType
  <2>3. queue' \in Seq(Nat) /\ received' \in Nat
    BY <2>1, <2>2, ConcatProperties, SMTT(30) DEF ConsumerType
  <2>4. now' = now /\ UNCHANGED <<step, batch, lastFlush, waitSince, written>>
    BY <1>1, <2>1 DEF Drain, Message
  <2>5. step # "stopped"
    BY <2>1 DEF Message
  <2> QED BY <2>3, <2>4, <2>5 DEF ConsumerType
<1>2. CASE Take
  <2>1. Head(queue) \in Nat /\ Tail(queue) \in Seq(Nat)
    BY <1>2, HeadTailProperties DEF Take, ConsumerType
  <2> QED BY <1>0, <1>2, <2>1, AppendProperties DEF Take, ConsumerType, Steps, streamVars
<1>3. CASE TimesOut
  BY <1>0, <1>3 DEF TimesOut, ConsumerType, Steps, streamVars
<1>4. CASE Decide
  BY <1>0, <1>4 DEF Decide, FlushDue, ConsumerType, Steps, streamVars
<1>5. CASE Write
  <2>1. written' \in Seq(Nat)
    BY <1>5, RowsStored DEF Write
  <2> QED BY <1>0, <1>5, <2>1 DEF Write, ConsumerType, Steps, streamVars
<1>6. ASSUME NEW e \in Exchanges, Connection(e), UNCHANGED collectorVars
      PROVE  ConsumerInv'
  BY <1>0, <1>6, ClockStands DEF collectorVars, ConsumerType,
     Connection, Begin, Connected, Ping, Drop, Die, DelayOver
<1>7. CASE List /\ UNCHANGED collectorVars
  BY <1>0, <1>7 DEF List, collectorVars, ConsumerType
<1>8. CASE ~Busy /\ Tick /\ UNCHANGED collectorVars
  BY <1>0, <1>8 DEF Busy, Tick, collectorVars, ConsumerType
<1>9. CASE Stop
  <2>1. written' \in Seq(Nat)
    BY <1>9, RowsStored DEF Stop, ConsumerType
  <2> QED BY <1>0, <1>9, <2>1 DEF Stop, Cancel, ConsumerType, Steps
<1>10. CASE Start
  BY <1>0, <1>10 DEF Start, StartStreams, ConsumerType, Steps
<1>11. CASE UNCHANGED vars
  BY <1>0, <1>11 DEF vars, streamVars, collectorVars, ConsumerType
<1> QED BY <1>1, <1>2, <1>3, <1>4, <1>5, <1>6, <1>7, <1>8, <1>9, <1>10, <1>11
        DEF CollectorNext, Consume

\* The collector keeps its invariant.
THEOREM CollectorInvariant == CollectorSpec => []Inv
<1>1. StreamsInit /\ CollectorInit => Inv
  BY StreamAssumption, CollectorAssumption
  DEF StreamsInit, CollectorInit, Inv, StreamsInv, StreamsType, States, Never, ConsumerInv, ConsumerType, Steps
<1>2. Inv /\ [CollectorNext]_vars => Inv'
  <2> SUFFICES ASSUME Inv, [CollectorNext]_vars PROVE Inv'
    OBVIOUS
  <2>1. StreamStep \/ UNCHANGED streamVars
    BY CollectorStreams DEF vars
  <2>2. StreamsInv'
    <3>1. CASE StreamStep
      BY <3>1, StreamsStep DEF Inv
    <3>2. CASE UNCHANGED streamVars
      BY <3>2 DEF Inv, StreamsInv, StreamsType, streamVars
    <3> QED BY <2>1, <3>1, <3>2
  <2> QED BY <2>2, ConsumerStep DEF Inv
<1> QED BY <1>1, <1>2, PTL DEF CollectorSpec

\* Between two writes, a batch waits for less than two intervals.
THEOREM BatchesAreRecent == CollectorSpec => []BatchIsRecent
<1>1. Inv => BatchIsRecent
  BY CollectorAssumption DEF Inv, StreamsInv, StreamsType, ConsumerInv, ConsumerType, BatchIsRecent
<1> QED BY <1>1, CollectorInvariant, PTL

\* A client that reconnects on purpose learns of a listing within an interval and
\* a silence.
THEOREM ListingsAreSeen == CollectorSpec => []NewListingsSeen
<1>1. Inv => NewListingsSeen
  BY StreamAssumption DEF Inv, StreamsInv, StreamsType, Never, NewListingsSeen
<1> QED BY <1>1, CollectorInvariant, PTL

----------------------------------------------------------------------------
(* Refinement. *)

\* The batch of a writer is the head of what is pending, the queue the rest.
LEMMA PendingSplits ==
  ASSUME ConsumerType
  PROVE  /\ batch \o queue \in Seq(Nat)
         /\ Len(batch) \in 0 .. Len(batch \o queue)
         /\ SubSeq(batch \o queue, 1, Len(batch)) = batch
         /\ SubSeq(batch \o queue, Len(batch) + 1, Len(batch \o queue)) = queue
<1>1. /\ batch \o queue \in Seq(Nat) /\ Len(batch \o queue) = Len(batch) + Len(queue)
      /\ \A i \in 1 .. Len(batch) + Len(queue) :
           (batch \o queue)[i] = IF i <= Len(batch) THEN batch[i] ELSE queue[i - Len(batch)]
  BY ConcatProperties DEF ConsumerType
<1>2. Len(batch) \in Nat /\ Len(queue) \in Nat
  BY LenProperties DEF ConsumerType
<1>3. SubSeq(batch \o queue, 1, Len(batch)) = batch
  <2> DEFINE s == SubSeq(batch \o queue, 1, Len(batch))
  <2>1. \A i \in 1 .. Len(batch) : (batch \o queue)[i] \in Nat
    BY <1>1, <1>2, ElementOfSeq DEF ConsumerType
  <2>2. /\ s \in Seq(Nat) /\ Len(s) = Len(batch)
        /\ \A i \in 1 .. Len(batch) : s[i] = batch[i]
    BY <1>1, <1>2, <2>1, SubSeqProperties
  <2>3. s = batch
    <3> HIDE DEF s
    <3> QED BY <2>2, SeqEqual DEF ConsumerType
  <2> QED BY <2>3
<1>4. SubSeq(batch \o queue, Len(batch) + 1, Len(batch \o queue)) = queue
  <2> DEFINE s == SubSeq(batch \o queue, Len(batch) + 1, Len(batch \o queue))
  <2>1. \A i \in Len(batch) + 1 .. Len(batch \o queue) : (batch \o queue)[i] \in Nat
    BY <1>1, <1>2, ElementOfSeq DEF ConsumerType
  <2>2. /\ s \in Seq(Nat) /\ Len(s) = Len(queue)
        /\ \A i \in 1 .. Len(queue) : s[i] = queue[i]
    BY <1>1, <1>2, <2>1, SubSeqProperties
  <2>3. s = queue
    <3> HIDE DEF s
    <3> QED BY <2>2, SeqEqual DEF ConsumerType
  <2> QED BY <2>3
<1> QED BY <1>1, <1>2, <1>3, <1>4

\* An event moves from the queue to the batch behind those that are there.
LEMMA TakingKeepsOrder ==
  ASSUME ConsumerType, queue # <<>>
  PROVE  Append(batch, Head(queue)) \o Tail(queue) = batch \o queue
<1>1. Head(queue) \in Nat /\ Tail(queue) \in Seq(Nat)
  BY HeadTailProperties DEF ConsumerType
<1>2. <<Head(queue)>> \o Tail(queue) = queue
  <2>1. /\ Len(Tail(queue)) = Len(queue) - 1 /\ Len(queue) \in Nat
        /\ \A i \in 1 .. Len(Tail(queue)) : Tail(queue)[i] = queue[i + 1]
    BY HeadTailProperties, LenProperties DEF ConsumerType
  <2>2. <<Head(queue)>> \in Seq(Nat) /\ Len(<<Head(queue)>>) = 1 /\ <<Head(queue)>>[1] = queue[1]
    BY <1>1 DEF ConsumerType
  <2> DEFINE s == <<Head(queue)>> \o Tail(queue)
  <2>3. /\ s \in Seq(Nat) /\ Len(s) = Len(queue)
        /\ \A i \in 1 .. Len(queue) : s[i] = IF i <= 1 THEN queue[1] ELSE Tail(queue)[i - 1]
    BY <1>1, <2>1, <2>2, ConcatProperties
  <2>4. \A i \in 1 .. Len(queue) : s[i] = queue[i]
    BY <2>1, <2>3
  <2> HIDE DEF s
  <2> QED BY <2>3, <2>4, SeqEqual DEF ConsumerType
<1>3. Append(batch, Head(queue)) = batch \o <<Head(queue)>>
  BY <1>1, AppendIsConcat DEF ConsumerType
<1>4. (batch \o <<Head(queue)>>) \o Tail(queue) = batch \o (<<Head(queue)>> \o Tail(queue))
  BY <1>1, ConcatAssociative, SMTT(30) DEF ConsumerType
<1> QED BY <1>2, <1>3, <1>4

\* The collector implements module Delivery: whatever fails, is cancelled or
\* restarted, no event is stored twice or out of order.
THEOREM CollectorDelivers == CollectorSpec => ImplementsDelivery
<1>1. StreamsInit /\ CollectorInit => DeliveryOf!DeliveryInit
  BY ConcatEmptySeq, EmptySeq DEF CollectorInit, DeliveryOf!DeliveryInit
<1>2. Inv /\ [CollectorNext]_vars => [DeliveryOf!DeliveryNext]_(DeliveryOf!deliveryVars)
  <2> SUFFICES ASSUME Inv, [CollectorNext]_vars
               PROVE  DeliveryOf!DeliveryNext \/ UNCHANGED <<batch \o queue, written, received>>
    BY DEF DeliveryOf!deliveryVars
  <2>0. ConsumerType /\ ConsumerInv
    BY DEF Inv, ConsumerInv
  <2>1. ASSUME NEW e \in Exchanges, Drain(e)
        PROVE  DeliveryOf!DeliveryNext
    <3>1. PICK k \in 0 .. MaxEvents - received :
            received' = received + k /\ queue' = queue \o Numbered(received, k)
      BY <2>1 DEF Drain
    <3>2. k \in Nat /\ received \in Nat
      BY <2>0, CollectorAssumption DEF ConsumerType
    <3>3. Numbered(received, k) \in Seq(Nat)
      BY <3>2 DEF Numbered
    <3>4. batch \o (queue \o Numbered(received, k)) = (batch \o queue) \o Numbered(received, k)
      <4>1. batch \in Seq(Nat) /\ queue \in Seq(Nat)
        BY <2>0 DEF ConsumerType
      <4>2. ASSUME NEW n \in Seq(Nat)
            PROVE  batch \o (queue \o n) = (batch \o queue) \o n
        BY <4>1, ConcatAssociative, SMTT(30)
      <4> QED BY <3>3, <4>2, Zenon
    <3>5. received' - received = k /\ received' \in Nat /\ received' >= received
      BY <3>1, <3>2
    <3>6. batch' \o queue' = (batch \o queue) \o [i \in 1 .. received' - received |-> received + i]
      BY <2>1, <3>1, <3>4, <3>5 DEF Drain, Numbered
    <3>7. DeliveryOf!Accept
      BY <2>1, <3>5, <3>6 DEF Drain, DeliveryOf!Accept
    <3> QED BY <3>7 DEF DeliveryOf!DeliveryNext
  <2>2. CASE Take
    BY <2>0, <2>2, TakingKeepsOrder DEF Take
  <2>3. CASE TimesOut \/ Decide
    BY <2>3 DEF TimesOut, Decide
  <2>4. CASE Write
    <3>1. batch' \o queue' = queue
      BY <2>0, <2>4, ConcatEmptySeq DEF Write, ConsumerType
    <3>2. Len(batch) \in 1 .. Len(batch \o queue)
      BY <2>0, <2>4, PendingSplits, EmptySeq, LenProperties DEF Write, ConsumerInv, ConsumerType
    <3>3. DeliveryOf!Settle(Len(batch))
      BY <2>0, <2>4, <3>1, PendingSplits DEF Write, Stored, DeliveryOf!Settle
    <3> QED BY <3>2, <3>3 DEF DeliveryOf!DeliveryNext
  <2>5. CASE Stop
    <3>1. batch' \o queue' = <<>>
      BY <2>5, ConcatEmptySeq, EmptySeq DEF Stop
    <3>2. DeliveryOf!Abandon(Len(batch))
      BY <2>0, <2>5, <3>1, PendingSplits DEF Stop, Stored, DeliveryOf!Abandon
    <3> QED BY <2>0, <3>2, PendingSplits DEF DeliveryOf!DeliveryNext
  <2>6. CASE Start
    BY <2>6 DEF Start
  <2>7. CASE UNCHANGED collectorVars
    BY <2>7 DEF collectorVars
  <2> QED BY <2>1, <2>2, <2>3, <2>4, <2>5, <2>6, <2>7 DEF CollectorNext, Consume, vars
<1> QED BY <1>1, <1>2, CollectorInvariant, PTL DEF CollectorSpec, ImplementsDelivery, DeliveryOf!DeliverySpec

----------------------------------------------------------------------------
(* The hub. *)

\* Queues, bounded, and what has been taken from them hold event numbers.
HubInv ==
  /\ offered \in Nat
  /\ inbox \in [Subscribers -> Seq(Nat)]
  /\ \A s \in Subscribers : Len(inbox[s]) <= QueueSize
  /\ carried \in [Subscribers -> Seq(Nat)]
  /\ shown \in [Subscribers -> Seq(Nat)]

\* Events that fit into a queue go behind what is in it, all of them.
LEMMA OfferedFits ==
  ASSUME NEW q \in Seq(Nat), NEW events \in Seq(Nat), Len(q) + Len(events) <= QueueSize,
         HubAssumption
  PROVE  Offered(q, events) = q \o events
  BY DEF Offered, HubAssumption

\* What is offered to a queue leaves event numbers in it, and no more than it holds.
LEMMA OfferedTyped ==
  ASSUME NEW q \in Seq(Nat), NEW events \in Seq(Nat), Len(q) <= QueueSize, HubAssumption
  PROVE  Offered(q, events) \in Seq(Nat) /\ Len(Offered(q, events)) <= QueueSize
  <1> DEFINE room == QueueSize - Len(q)
  <1>1. room \in Nat
    BY DEF HubAssumption
  <1>2. CASE Len(events) <= room
    BY <1>1, <1>2, ConcatProperties DEF Offered, HubAssumption
  <1>3. CASE ~ Len(events) <= room
    <2>1. SubSeq(events, 1, room) \in Seq(Nat) /\ Len(SubSeq(events, 1, room)) = room
      BY <1>1, <1>3
    <2> QED
      BY <1>1, <1>3, <2>1, ConcatProperties DEF Offered, HubAssumption
  <1> QED
    BY <1>2, <1>3

\* The events of a message, by their numbers.
LEMMA NumberedTyped ==
  ASSUME NEW n \in Nat, NEW k \in Nat
  PROVE  Numbered(n, k) \in Seq(Nat) /\ Len(Numbered(n, k)) = k
  BY DEF Numbered

\* What a message does: the numbers go on, and every subscriber is offered its events.
LEMMA PumpOffers ==
  ASSUME HubAssumption, StreamAssumption, HubInv, NEW e \in Exchanges, Pump(e)
  PROVE  \E k \in Nat : /\ offered' = offered + k
                        /\ inbox' = Broadcast(Numbered(offered, k))
                        /\ UNCHANGED <<handler, carried, shown>>
  <1>1. PICK k \in 0 .. MaxOffers - offered :
          offered' = offered + k /\ inbox' = Broadcast(Numbered(offered, k))
    BY DEF Pump
  <1> QED
    BY <1>1 DEF Pump

\* Only a message brings events: no other step of the hub counts any.
LEMMA OthersOfferNothing ==
  ASSUME [HubNext]_<<streamVars, hubVars>>, \A e \in Exchanges : ~ Pump(e)
  PROVE  offered' = offered
  BY DEF HubNext, Handle, Subscribe, Get, HangUp, Send, SendFails, StopHub, hubVars

\* Every step of the hub keeps the queues within their bound.
LEMMA HubStep ==
  ASSUME HubAssumption, StreamAssumption, HubInv, [HubNext]_<<streamVars, hubVars>>
  PROVE  HubInv'
  <1>1. ASSUME NEW e \in Exchanges, Pump(e)
        PROVE  HubInv'
    <2>1. PICK k \in Nat : /\ offered' = offered + k
                           /\ inbox' = Broadcast(Numbered(offered, k))
                           /\ UNCHANGED <<handler, carried, shown>>
      BY <1>1, PumpOffers
    <2>2. Numbered(offered, k) \in Seq(Nat)
      BY NumberedTyped DEF HubInv
    <2>3. \A s \in Subscribers : /\ inbox'[s] \in Seq(Nat)
                                 /\ Len(inbox'[s]) <= QueueSize
      BY <2>1, <2>2, OfferedTyped DEF Broadcast, HubInv
    <2>4. inbox' = [s \in Subscribers |-> inbox'[s]]
      BY <2>1 DEF Broadcast
    <2> QED
      BY <2>1, <2>3, <2>4 DEF HubInv
  <1>2. ASSUME NEW s \in Subscribers, Subscribe(s)
        PROVE  HubInv'
    BY <1>2 DEF Subscribe, HubInv, HubAssumption
  <1>3. ASSUME NEW s \in Subscribers, Get(s)
        PROVE  HubInv'
    <2>1. /\ Head(inbox[s]) \in Nat /\ Tail(inbox[s]) \in Seq(Nat)
          /\ Len(Tail(inbox[s])) <= QueueSize
      BY <1>3 DEF Get, HubInv, HubAssumption
    <2> QED
      BY <1>3, <2>1 DEF Get, HubInv
  <1>4. ASSUME NEW s \in Subscribers, Send(s)
        PROVE  HubInv'
    <2>1. shown[s] \o carried[s] \in Seq(Nat)
      BY ConcatProperties DEF HubInv
    <2> QED
      BY <1>4, <2>1 DEF Send, HubInv
  <1>5. ASSUME NEW s \in Subscribers, SendFails(s)
        PROVE  HubInv'
    BY <1>5 DEF SendFails, HubInv
  <1>6. ASSUME NEW s \in Subscribers, HangUp(s)
        PROVE  HubInv'
    BY <1>6 DEF HangUp, HubInv
  <1>7. CASE StopHub \/ UNCHANGED hubVars
    BY <1>7 DEF StopHub, hubVars, HubInv
  <1> QED
    BY <1>1, <1>2, <1>3, <1>4, <1>5, <1>6, <1>7 DEF HubNext, Handle

\* The queues of the hub are bounded, and hold event numbers.
THEOREM HubInvariant == HubSpec => []HubInv
  <1>1. HubInit => HubInv
    BY HubAssumption DEF HubInit, HubInv, HubAssumption
  <1>2. HubInv /\ [HubNext]_<<streamVars, hubVars>> => HubInv'
    BY HubStep, HubAssumption, StreamAssumption
  <1> QED
    BY <1>1, <1>2, PTL DEF HubSpec

\* What comes behind the last of two sequences comes behind both.
LEMMA BehindBoth ==
  ASSUME NEW got \in Seq(Nat), NEW ahead \in Seq(Nat), NEW events \in Seq(Nat)
  PROVE  got \o (ahead \o events) = (got \o ahead) \o events
  BY ConcatAssociative, SMTT(30)

\* One subscriber with room, one message: all of it arrives behind what is on its way.
LEMMA MessageArrives ==
  ASSUME HubAssumption, StreamAssumption, HubInv, [HubNext]_<<streamVars, hubVars>>,
         NEW s \in Subscribed, offered' # offered,
         Len(inbox[s]) + (offered' - offered) <= QueueSize
  PROVE  OnItsWay(s)' = OnItsWay(s) \o Numbered(offered, offered' - offered)
  <1>1. PICK e \in Exchanges : Pump(e)
    BY OthersOfferNothing
  <1>2. PICK k \in Nat : /\ offered' = offered + k
                         /\ inbox' = Broadcast(Numbered(offered, k))
                         /\ UNCHANGED <<handler, carried, shown>>
    BY <1>1, PumpOffers
  <1>3. offered' - offered = k
    BY <1>2 DEF HubInv
  <1> DEFINE events == Numbered(offered, k)
  <1>4. events \in Seq(Nat) /\ Len(events) = k
    BY NumberedTyped DEF HubInv
  <1>5. s \in Subscribers /\ inbox[s] \in Seq(Nat) /\ carried[s] \in Seq(Nat) /\ shown[s] \in Seq(Nat)
    BY DEF Subscribed, HubInv
  <1>6. inbox'[s] = inbox[s] \o events
    BY <1>2, <1>3, <1>4, <1>5, OfferedFits DEF Broadcast
  <1> DEFINE got == shown[s] \o carried[s]
  <1>7. got \in Seq(Nat)
    BY <1>5
  <1> DEFINE ahead == inbox[s]
  <1>8. ahead \in Seq(Nat)
    BY <1>5
  <1> HIDE DEF got, ahead, events
  <1>9. got \o (ahead \o events) = (got \o ahead) \o events
    BY <1>4, <1>7, <1>8, BehindBoth, Zenon
  <1> QED
    BY <1>2, <1>3, <1>6, <1>9 DEF OnItsWay, got, ahead, events

\* A subscriber loses events for its own full queue only, however many there are and
\* however slow the others (LiquidationHub._broadcast).
THEOREM FastLoseNothing == HubSpec => OnlyTheSlowLose
  <1>1. HubInv /\ [HubNext]_<<streamVars, hubVars>> =>
          [\A s \in Subscribed :
             offered' # offered /\ Len(inbox[s]) + (offered' - offered) <= QueueSize
               => OnItsWay(s)' = OnItsWay(s) \o Numbered(offered, offered' - offered)]_<<streamVars, hubVars>>
    BY MessageArrives, HubAssumption, StreamAssumption
  <1> QED
    BY <1>1, HubInvariant, PTL DEF HubSpec, OnlyTheSlowLose

=============================================================================
