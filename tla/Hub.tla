-------------------------------- MODULE Hub ---------------------------------
(***************************************************************************)
(* The liquidations of the API (LiquidationHub and the /ws/liquidations    *)
(* endpoint): each exchange's pump offers the events of its stream to the  *)
(* queues of all the subscribers, and for each websocket a handler takes   *)
(* from its own queue and sends.                                           *)
(***************************************************************************)
EXTENDS ExchangeStreams

CONSTANTS
  Subscribers,
  QueueSize,    \* _SUBSCRIBER_QUEUE_MAXSIZE
  MaxOffers     \* bound on the events that arrive

ASSUME HubAssumption == QueueSize \in Nat \ {0} /\ MaxOffers \in Nat

VARIABLES
  offered,   \* how many events have arrived
  handler,   \* of a websocket: "none", "get" or "send"
  socket,    \* whether the client is there: BOOLEAN
  inbox,     \* the queue of the subscriber
  carried,   \* the event on its way to the client, <<>> or a singleton
  shown,     \* the events the client has got on this connection
  running    \* whether the hub's tasks are up

hubVars == <<offered, handler, socket, inbox, carried, shown, running>>

HubInit ==
  /\ offered = 0
  /\ handler = [s \in Subscribers |-> "none"]
  /\ socket = [s \in Subscribers |-> FALSE]
  /\ inbox = [s \in Subscribers |-> <<>>]
  /\ carried = [s \in Subscribers |-> <<>>]
  /\ shown = [s \in Subscribers |-> <<>>]
  /\ running = TRUE

Subscribed == {s \in Subscribers : handler[s] # "none"}

\* put_nowait for each event, for one queue: what does not fit is dropped.
Offered(q, events) ==
  LET room == QueueSize - Len(q)
  IN  q \o IF Len(events) <= room THEN events ELSE SubSeq(events, 1, room)

\* Fault variant: the first full queue ends the round.
BroadcastUntilFull(events) ==
  [s \in Subscribers |->
     IF s \in Subscribed /\ \A t \in Subscribed : Len(inbox[t]) < QueueSize
     THEN Offered(inbox[s], events) ELSE inbox[s]]

\* _broadcast of the events of a message.
Broadcast(events) ==
  [s \in Subscribers |-> IF s \in Subscribed THEN Offered(inbox[s], events) ELSE inbox[s]]

Pump(e) ==
  /\ \E k \in 0 .. MaxOffers - offered :
       /\ Message(e, k)
       /\ offered' = offered + k
       /\ inbox' = Broadcast(Numbered(offered, k))
  /\ UNCHANGED <<handler, socket, carried, shown, running>>

\* accept and subscribe.
Subscribe(s) ==
  /\ handler[s] = "none"
  /\ handler' = [handler EXCEPT ![s] = "get"]
  /\ socket' = [socket EXCEPT ![s] = TRUE]
  /\ inbox' = [inbox EXCEPT ![s] = <<>>]
  /\ shown' = [shown EXCEPT ![s] = <<>>]
  /\ UNCHANGED <<streamVars, offered, carried, running>>

Get(s) ==
  /\ handler[s] = "get" /\ inbox[s] # <<>>
  /\ handler' = [handler EXCEPT ![s] = "send"]
  /\ carried' = [carried EXCEPT ![s] = <<Head(inbox[s])>>]
  /\ inbox' = [inbox EXCEPT ![s] = Tail(@)]
  /\ UNCHANGED <<streamVars, offered, socket, shown, running>>

\* The client is gone: only the next send tells the handler, which unsubscribes.
HangUp(s) ==
  /\ socket[s]
  /\ socket' = [socket EXCEPT ![s] = FALSE]
  /\ UNCHANGED <<streamVars, offered, handler, inbox, carried, shown, running>>

Send(s) ==
  /\ handler[s] = "send" /\ socket[s]
  /\ handler' = [handler EXCEPT ![s] = "get"]
  /\ shown' = [shown EXCEPT ![s] = @ \o carried[s]]
  /\ carried' = [carried EXCEPT ![s] = <<>>]
  /\ UNCHANGED <<streamVars, offered, socket, inbox, running>>

SendFails(s) ==
  /\ handler[s] = "send" /\ ~socket[s]
  /\ handler' = [handler EXCEPT ![s] = "none"]
  /\ carried' = [carried EXCEPT ![s] = <<>>]
  /\ UNCHANGED <<streamVars, offered, socket, inbox, shown, running>>

\* stop of the hub, in the finally of _lifespan.
StopHub ==
  /\ running /\ running' = FALSE
  /\ Cancel
  /\ UNCHANGED <<offered, handler, socket, inbox, carried, shown>>

Handle(s) == Subscribe(s) \/ Get(s) \/ HangUp(s) \/ Send(s) \/ SendFails(s)

HubNext ==
  \/ \E e \in Exchanges : Pump(e)
  \/ \E s \in Subscribers : Handle(s)
  \/ (\E e \in Exchanges : Connection(e)) /\ UNCHANGED hubVars
  \/ List /\ UNCHANGED hubVars
  \/ Tick /\ UNCHANGED hubVars
  \/ StopHub

HubSpec == StreamsInit /\ HubInit /\ [][HubNext]_<<streamVars, hubVars>>

----------------------------------------------------------------------------
\* What a client has been shown, what is on its way and what waits for it.
OnItsWay(s) == shown[s] \o carried[s] \o inbox[s]

\* A subscriber loses events for no other reason than its own full queue: each
\* message reaches, complete and behind all that it got before, every subscriber
\* that has room for it, however slow the others are and whether or not they have
\* hung up (the docstring of LiquidationHub).
OnlyTheSlowLose ==
  [][\A s \in Subscribed :
       offered' # offered /\ Len(inbox[s]) + (offered' - offered) <= QueueSize
         => OnItsWay(s)' = OnItsWay(s) \o Numbered(offered, offered' - offered)]_<<streamVars, hubVars>>

=============================================================================
