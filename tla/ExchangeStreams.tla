-------------------------- MODULE ExchangeStreams ---------------------------
(***************************************************************************)
(* The websocket streams of liquidations (stream_liquidations of the       *)
(* Binance, OKX and Bybit clients): a client for each exchange connects,   *)
(* reads, loses the connection, waits, and connects again, for ever.  The  *)
(* process that drains the streams, the collector or the API, says what    *)
(* becomes of the events: the actions here leave that open, and those of   *)
(* Collector and Hub complete them.                                        *)
(*                                                                         *)
(* Time is counted in ticks.                                               *)
(***************************************************************************)
EXTENDS Integers, Sequences

CONSTANTS
  Exchanges,
  Selective,       \* those that take the list of symbols when they connect
  Resubscribing,   \* of those, the ones that connect again after an interval
  Burst,           \* the most events one message of the exchange carries
  ReconnectDelay,  \* LIQUIDATION_RECONNECT_DELAY_S
  ResubInterval,   \* LIQUIDATION_BYBIT_RESUB_INTERVAL_S
  IdleTimeout,     \* _IDLE_PING_TIMEOUT_S, silence after which a ping is due
  MaxTime          \* bound on the clock

ASSUME StreamAssumption ==
  /\ Resubscribing \subseteq Selective /\ Selective \subseteq Exchanges
  /\ Burst \in [Exchanges -> Nat]
  /\ {ReconnectDelay, ResubInterval, IdleTimeout} \subseteq Nat \ {0}
  /\ MaxTime \in Nat

VARIABLES
  now,       \* time.monotonic()
  conn,      \* what the client of the exchange does
  timer,     \* when the client stops waiting, 0 if it waits for no clock
  deadline,  \* when the client is to leave its connection, 0 if it has none
  knows,     \* the selective exchanges whose client has seen the new symbol listed
  listed     \* when the new symbol was listed, Never if it is not yet

streamVars == <<now, conn, timer, deadline, knows, listed>>

States == {"idle", "connecting", "reading", "delay", "dead", "cancelled"}
Never == -1

StreamsInit ==
  /\ now = 0
  /\ conn = [e \in Exchanges |-> "idle"]
  /\ timer = [e \in Exchanges |-> 0]
  /\ deadline = [e \in Exchanges |-> 0]
  /\ knows = {}
  /\ listed = Never

----------------------------------------------------------------------------
(* One client. *)

\* asyncio.sleep(RECONNECT_DELAY) after the end of a connection.
Delays(e) ==
  /\ conn' = [conn EXCEPT ![e] = "delay"]
  /\ timer' = [timer EXCEPT ![e] = now + ReconnectDelay]
  /\ deadline' = [deadline EXCEPT ![e] = 0]

Awaits(e) ==
  /\ conn' = [conn EXCEPT ![e] = "reading"]
  /\ timer' = [timer EXCEPT ![e] = IF e \in Selective THEN now + IdleTimeout ELSE 0]
  /\ UNCHANGED deadline

\* Fault variant: the connection is read for as long as it stands.
ReadsForEver(e) == Awaits(e)

\* The loop of _read, at its top: with the deadline behind it the generator ends
\* and the client reconnects.
ReadsOn(e) ==
  IF e \in Resubscribing /\ now >= deadline[e] THEN Delays(e) ELSE Awaits(e)

\* The markets are loaded, for the clients that need them, and the clock of the
\* new connection starts.
Begin(e) ==
  /\ conn[e] = "idle"
  /\ conn' = [conn EXCEPT ![e] = "connecting"]
  /\ knows' = IF listed # Never THEN knows \cup ({e} \cap Selective) ELSE knows
  /\ deadline' = [deadline EXCEPT ![e] = IF e \in Resubscribing THEN now + ResubInterval ELSE 0]
  /\ UNCHANGED <<now, timer, listed>>

\* The socket opens and the subscriptions are sent.
Connected(e) ==
  /\ conn[e] = "connecting"
  /\ ReadsOn(e)
  /\ UNCHANGED <<now, knows, listed>>

\* A message with k events arrives.  Messages of other kinds, pongs, rows that do
\* not validate and rows of unknown symbols carry none.
Message(e, k) ==
  /\ conn[e] = "reading"
  /\ k \in 0 .. Burst[e]
  /\ ReadsOn(e)
  /\ UNCHANGED <<now, knows, listed>>

\* The events are known by the number of their arrival: k come after the first n.
Numbered(n, k) == [i \in 1 .. k |-> n + i]

\* Silence: a ping is sent.
Ping(e) ==
  /\ conn[e] = "reading" /\ e \in Selective /\ now >= timer[e]
  /\ ReadsOn(e)
  /\ UNCHANGED <<now, knows, listed>>

\* The exchange is out of reach, breaks the connection, or sends a message that
\* is not of the shape the parser walks through.
Drop(e) ==
  /\ conn[e] \in {"idle", "connecting", "reading"}
  /\ Delays(e)
  /\ UNCHANGED <<now, knows, listed>>

\* Binance's client is closed in a finally outside of the handler: if closing
\* fails too, the generator ends with the error and so does the task.
Die(e) ==
  /\ conn[e] \in {"connecting", "reading"} /\ e \notin Selective
  /\ conn' = [conn EXCEPT ![e] = "dead"]
  /\ UNCHANGED <<now, timer, deadline, knows, listed>>

DelayOver(e) ==
  /\ conn[e] = "delay" /\ now >= timer[e]
  /\ conn' = [conn EXCEPT ![e] = "idle"]
  /\ timer' = [timer EXCEPT ![e] = 0]
  /\ UNCHANGED <<now, deadline, knows, listed>>

\* The tasks are cancelled at shutdown.
Cancel ==
  /\ conn' = [e \in Exchanges |-> "cancelled"]
  /\ timer' = [e \in Exchanges |-> 0]
  /\ deadline' = [e \in Exchanges |-> 0]
  /\ UNCHANGED <<now, knows, listed>>

\* The process is started again.
StartStreams ==
  /\ \A e \in Exchanges : conn[e] = "cancelled"
  /\ conn' = [e \in Exchanges |-> "idle"]
  /\ UNCHANGED <<now, timer, deadline, knows, listed>>

\* What a client does that brings no event.
Connection(e) == Begin(e) \/ Connected(e) \/ Ping(e) \/ Drop(e) \/ Die(e) \/ DelayOver(e)

----------------------------------------------------------------------------
(* The exchange and the clock. *)

List ==
  /\ listed = Never
  /\ listed' = now
  /\ UNCHANGED <<now, conn, timer, deadline, knows>>

\* A task that is due runs before the clock moves.
Due(e) ==
  \/ conn[e] = "delay" /\ now >= timer[e]
  \/ conn[e] = "reading" /\ e \in Selective /\ now >= timer[e]

Tick ==
  /\ now < MaxTime
  /\ \A e \in Exchanges : ~Due(e)
  /\ now' = now + 1
  /\ UNCHANGED <<conn, timer, deadline, knows, listed>>

\* A client that reconnects on purpose has a new symbol on its list soon after
\* the interval: the docstring of the Bybit stream, "чтобы подхватить новые
\* листинги".  The clock of a connection is looked at between messages only, and
\* a connection is left while the other exchanges go on.
NewListingsSeen ==
  \A e \in Resubscribing :
    conn[e] = "reading" /\ listed # Never /\ e \notin knows
      => now < listed + ResubInterval + IdleTimeout

=============================================================================
