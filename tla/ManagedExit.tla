----------------------------- MODULE ManagedExit -----------------------------
(***************************************************************************)
(* The managed exit of one position, one candle per step: the loops of     *)
(* walk_managed_exit and current_managed_stop run side by side over the    *)
(* candles since the entry, as the watcher runs them one after the other   *)
(* over the same list.                                                     *)
(***************************************************************************)
EXTENDS ExitRules

CONSTANT Candles  \* the candles the exchange may report

ASSUME CandlesAssumption == Candles \subseteq CandleType

VARIABLES
  position, \* the position being managed
  walk,     \* the locals of walk_managed_exit and its outcome
  monitor,  \* the locals of current_managed_stop
  candle    \* the candle of the last step, <<>> before the first

walkVars == <<position, walk, monitor, candle>>

WalkInit ==
  /\ position \in Positions
  /\ walk = WalkStart(position)
  /\ monitor = MonitorStart(position)
  /\ candle = <<>>

\* The watcher asks for the current stop only while the walk found no exit.
Observe(c) ==
  /\ walk.exit = NoExit
  /\ walk' = WalkCandle(position, walk, c)
  /\ monitor' = IF walk'.exit = NoExit THEN MonitorCandle(position, monitor, c) ELSE monitor
  /\ candle' = <<c>>
  /\ position' = position

WalkNext == \E c \in Candles : Observe(c)

WalkSpec == WalkInit /\ [][WalkNext]_walkVars

----------------------------------------------------------------------------
(* Properties. *)

\* The values the loops' locals range over.
WalkTypeOK ==
  /\ position \in Positions
  /\ walk \in WalkType
  /\ monitor \in [stop : Int, best : Int]
  /\ candle \in {<<>>} \cup {<<c>> : c \in Candles}

\* The level the settings assign to a best price, whatever path led there.
LevelOf(p, best) ==
  IF p.half = 0 THEN p.stop
  ELSE Further(p.side, p.stop, TrailedStop(p, p.stop, best, Excursion(p, best)))

\* The ratchet of the loop computes a function of the best price alone: two
\* histories with the same best price have the same stop, so a restart that
\* replays a coarser or longer history cannot end with another stop.  Holds
\* when the trail is not wider than the excursion that activates it.
StopTracksBestPrice ==
  TrailDistance <= TrailActivation => walk.stop = LevelOf(position, walk.best)

\* The two loops agree while the position is held: the stage that is stored
\* and announced belongs to the stop that the exit test will use.
MonitorAgrees ==
  walk.exit = NoExit => monitor.stop = walk.stop /\ monitor.best = walk.best

\* The reason written to the position says what the price means: a breakeven
\* exit is at the entry, a trailing exit keeps the profit between activation and
\* trail, a target exit is at the target, and none is worse than the initial stop.
ReasonTellsPrice ==
  /\ walk.exit.reason = "BREAKEVEN" => walk.exit.price = position.entry
  /\ walk.exit.reason = "TARGET" => walk.exit.price = position.target
  /\ walk.exit.reason = "STOP" => walk.exit.price = position.stop
  /\ walk.exit.reason = "TRAILING_STOP" /\ TrailDistance <= TrailActivation =>
       Excursion(position, walk.exit.price) >= (TrailActivation - TrailDistance) * position.half
  /\ walk.exit.reason \notin {"NONE", "TARGET"} =>
       AtLeast(position.side, walk.exit.price, position.stop)

\* The stop only moves in the favourable direction, on every candle.
StopNeverLoosens ==
  [][AtLeast(position.side, walk'.stop, walk.stop)
     /\ AtLeast(position.side, monitor'.stop, monitor.stop)]_walkVars

\* No look-ahead, and the conservative reading of a candle that touches both
\* levels: a candle is tested against the stop of the earlier candles, a stop exit
\* happens at that stop and only on a candle that touches it, and a target exit
\* only on one that does not.
NoLookAhead ==
  [][/\ walk'.exit.reason \in Reasons \ {"TARGET"} =>
          walk'.exit.price = walk.stop /\ TouchesStop(position, walk.stop, candle'[1])
     /\ walk'.exit.reason = "TARGET" => ~ TouchesStop(position, walk.stop, candle'[1])]_walkVars

=============================================================================
