----------------------------- MODULE Collector ------------------------------
(***************************************************************************)
(* The collector (run_collector): a producer for each exchange puts the    *)
(* events of its stream into one queue, and the consumer writes them to    *)
(* the research database in batches.                                       *)
(*                                                                         *)
(* A write may take any time, and events go on arriving meanwhile.  It may *)
(* fail, which record_liquidations logs and swallows.  The process may be  *)
(* cancelled anywhere and started again.                                   *)
(***************************************************************************)
EXTENDS ExchangeStreams

CONSTANTS
  BatchSize,      \* LIQUIDATION_BATCH_SIZE
  FlushInterval,  \* LIQUIDATION_FLUSH_INTERVAL_S
  MaxEvents       \* bound on the events that arrive

ASSUME CollectorAssumption ==
  {BatchSize, FlushInterval} \subseteq Nat \ {0} /\ MaxEvents \in Nat

VARIABLES
  received,   \* how many events have arrived
  step,       \* of the consumer: "get", "flush?", "write" or "stopped"
  queue,      \* the asyncio.Queue
  batch,      \* batch of _consume
  lastFlush,  \* last_flush of _consume
  waitSince,  \* when wait_for began
  written     \* the rows of liquidation_event, in the order of their writing

collectorVars == <<received, step, queue, batch, lastFlush, waitSince, written>>
vars == <<streamVars, collectorVars>>

CollectorInit ==
  /\ received = 0
  /\ step = "get"
  /\ queue = <<>> /\ batch = <<>> /\ written = <<>>
  /\ lastFlush = 0 /\ waitSince = 0

\* _drain: the events of a message go to the queue, which has no bound.
Drain(e) ==
  /\ \E k \in 0 .. MaxEvents - received :
       /\ Message(e, k)
       /\ received' = received + k
       /\ queue' = queue \o Numbered(received, k)
  /\ UNCHANGED <<step, batch, lastFlush, waitSince, written>>

\* wait_for(queue.get()) returns an event.
Take ==
  /\ step = "get" /\ queue # <<>>
  /\ batch' = Append(batch, Head(queue))
  /\ queue' = Tail(queue)
  /\ step' = "flush?"
  /\ UNCHANGED <<streamVars, received, lastFlush, waitSince, written>>

\* It times out.
TimesOut ==
  /\ step = "get" /\ queue = <<>> /\ now >= waitSince + FlushInterval
  /\ step' = "flush?"
  /\ UNCHANGED <<streamVars, received, queue, batch, lastFlush, waitSince, written>>

FlushDue == now - lastFlush >= FlushInterval

\* Fault variant: a timer looks at the clock only when the queue is empty.
DecideWhenQuiet ==
  /\ step = "flush?"
  /\ IF batch # <<>> /\ (Len(batch) >= BatchSize \/ now >= waitSince + FlushInterval)
     THEN step' = "write" /\ UNCHANGED waitSince
     ELSE step' = "get" /\ waitSince' = now
  /\ UNCHANGED <<streamVars, received, queue, batch, lastFlush, written>>

\* The batch is written if it is full or its time has come; else the next get.
Decide ==
  /\ step = "flush?"
  /\ IF batch # <<>> /\ (Len(batch) >= BatchSize \/ FlushDue)
     THEN step' = "write" /\ UNCHANGED waitSince
     ELSE step' = "get" /\ waitSince' = now
  /\ UNCHANGED <<streamVars, received, queue, batch, lastFlush, written>>

\* record_liquidations: the rows of a batch are committed together or not at all;
\* the batch is dropped either way.
Stored == {written, written \o batch}

\* Fault variant: the batch is kept to be tried again, whatever became of it.
WriteKeepsBatch ==
  /\ step = "write"
  /\ written' \in Stored
  /\ lastFlush' = now
  /\ step' = "get" /\ waitSince' = now
  /\ UNCHANGED <<streamVars, received, queue, batch>>

Write ==
  /\ step = "write"
  /\ written' \in Stored
  /\ batch' = <<>>
  /\ lastFlush' = now
  /\ step' = "get" /\ waitSince' = now
  /\ UNCHANGED <<streamVars, received, queue>>

\* Cancelled: what is in memory is lost; a write on its way may have committed.
Stop ==
  /\ step # "stopped"
  /\ Cancel
  /\ written' \in IF step = "write" THEN Stored ELSE {written}
  /\ step' = "stopped" /\ queue' = <<>> /\ batch' = <<>>
  /\ UNCHANGED <<received, lastFlush, waitSince>>

Start ==
  /\ step = "stopped"
  /\ StartStreams
  /\ step' = "get" /\ lastFlush' = now /\ waitSince' = now
  /\ UNCHANGED <<received, queue, batch, written>>

\* The consumer has something to do: only a write lets the clock pass it by.
Busy ==
  \/ step = "flush?"
  \/ step = "get" /\ (queue # <<>> \/ now >= waitSince + FlushInterval)

Consume == Take \/ TimesOut \/ Decide \/ Write

CollectorNext ==
  \/ \E e \in Exchanges : Drain(e)
  \/ Consume
  \/ (\E e \in Exchanges : Connection(e)) /\ UNCHANGED collectorVars
  \/ List /\ UNCHANGED collectorVars
  \/ ~Busy /\ Tick /\ UNCHANGED collectorVars
  \/ Stop
  \/ Start

CollectorSpec == StreamsInit /\ CollectorInit /\ [][CollectorNext]_vars

----------------------------------------------------------------------------
\* An event waits in the batch for less than two intervals before it is written,
\* however the events are spaced: the consumer's clock starts with the last write
\* and is read when an event comes or when none has come for an interval, so a
\* batch that was not due at an event may be an interval older at the next look.
BatchIsRecent ==
  batch # <<>> /\ step = "get" => now - lastFlush < 2 * FlushInterval

\* The batch of a full consumer, the queue behind it and the database, together:
\* no event is stored twice or out of order by the flushes, the events that come
\* during a write, failed writes, cancellations and restarts.
DeliveryOf == INSTANCE Delivery
  WITH pending <- batch \o queue, stored <- written, count <- received

ImplementsDelivery == DeliveryOf!DeliverySpec

=============================================================================
