----------------------------- MODULE ExitReplay ------------------------------
(***************************************************************************)
(* One position, a moving market and a position manager that looks at it   *)
(* only now and then: PositionWatcher._find_exit and _update_stop_stage    *)
(* (app/services/positions/watcher.py) over the candles that exist at the  *)
(* moment of the cycle.  The last candle is still forming: it grows after  *)
(* the manager has looked at it.  Between two cycles any number of candles *)
(* may pass (an interval, a failed fetch, a restart).                      *)
(*                                                                         *)
(* The manager keeps nothing but the stored stop stage; at each cycle it   *)
(* replays the candles later than entry_ts, of which the exchange returns  *)
(* the last Window.                                                        *)
(***************************************************************************)
EXTENDS ExitRules, Sequences, SequencesExt

CONSTANTS
  Prices,        \* the prices the market may trade at
  Window,        \* settings.EXIT_CANDLE_LIMIT
  ValidCandles,  \* valid_hours of the setup of each position, in candles; 0 if the
                 \* signal stores no setup, and the position does not expire
  Origins,       \* who opens the position: "pipeline", whose entry_ts is the open of
                 \* the bar, or "manual", whose entry_ts is the moment of the command
  MaxCandles     \* bound of the model: candles the market produces

ASSUME ReplayAssumption ==
  /\ Prices \subseteq Int
  /\ Window \in Nat \ {0}
  /\ ValidCandles \in [Positions -> Nat]
  /\ Origins \subseteq {"pipeline", "manual"}
  /\ MaxCandles \in Nat \ {0}

VARIABLES
  candles,   \* the candles of the exit timeframe since the bar opened; the last one forms
  price,     \* the last traded price, the close of the forming candle
  pos,       \* the position
  state,     \* "PENDING" before the entry, then PositionState
  entryAt,   \* index of the last candle that the filter ts <= entry_ts drops
  stage,     \* VirtualPosition.stop_stage, as stored
  exit,      \* the outcome the position was closed with, and its candle
  touched,   \* history: whether the market traded at the initial stop since the entry
  eager,     \* history: the first exit of the walk a manager that never sleeps finds
  reported,  \* history: the stop computed by the last cycle, and its candle
  crossed    \* history: whether the market went through the reported stop since,
             \* in the same candle or in a later one

vars == <<candles, price, pos, state, entryAt, stage, exit, touched, eager,
          reported, crossed>>

NoOutcome == [reason |-> "NONE", price |-> 0, at |-> 0]

----------------------------------------------------------------------------
(* The replay. *)

\* The exit of walk_managed_exit over the candles cs.
Walked(p, cs) ==
  FoldLeft(LAMBDA w, c : IF w.exit # NoExit THEN w ELSE WalkCandle(p, w, c),
           WalkStart(p), cs)

\* The result of current_managed_stop over the candles cs.
CurrentStop(p, cs) == FoldLeft(LAMBDA m, c : MonitorCandle(p, m, c), MonitorStart(p), cs).stop

\* Fault variant: only the forming candle is replayed.
Replayed_Last(cs, from) ==
  SubSeq(cs, IF from + 1 > Len(cs) THEN from + 1 ELSE Len(cs), Len(cs))

\* Fault variant: the entry filter keeps the candle of the entry.
Replayed_KeepsEntry(cs, from) ==
  SubSeq(cs, IF from > 0 THEN from ELSE 1, Len(cs))

\* Fault variant: the forming candle is left out.
Replayed_Complete(cs, from) ==
  SubSeq(cs, from + 1, Len(cs) - 1)

\* The candles a cycle replays: those the exchange returns, later than entry_ts.
Replayed(cs, from) ==
  LET first == IF Len(cs) > Window THEN Len(cs) - Window + 1 ELSE 1
  IN SubSeq(cs, IF from + 1 > first THEN from + 1 ELSE first, Len(cs))

\* The outcome of the walk over the candles cs, of which the last is the candle
\* number n, with the number of the candle it happened in.
WalkOutcome(p, cs, n) ==
  LET w == Walked(p, cs)
  IN IF w.exit = NoExit THEN NoOutcome
     ELSE LET used == CHOOSE k \in 1..Len(cs) :
                        /\ Walked(p, SubSeq(cs, 1, k)).exit # NoExit
                        /\ k = 1 \/ Walked(p, SubSeq(cs, 1, k - 1)).exit = NoExit
          IN [reason |-> w.exit.reason, price |-> w.exit.price,
              at |-> n - Len(cs) + used]

StageOf(reason) ==
  CASE reason = "BREAKEVEN" -> "BREAKEVEN"
    [] reason = "TRAILING_STOP" -> "TRAILING"
    [] OTHER -> "INITIAL"

Expired(cs, from) == ValidCandles[pos] > 0 /\ Len(cs) - from >= ValidCandles[pos]

\* Fault variant: the other exits are looked at before the walk.
FindExit_ExpiryFirst(cs, delisted, extreme) ==
  LET n == Len(cs)
      last == [reason |-> "EXPIRED", price |-> price, at |-> n]
  IN IF delisted THEN [last EXCEPT !.reason = "DELISTED"]
     ELSE IF extreme THEN [last EXCEPT !.reason = "EXTREME_FUNDING"]
     ELSE IF Expired(cs, entryAt) THEN last
     ELSE WalkOutcome(pos, Replayed(cs, entryAt), n)

\* _find_exit: the walk first, then delisting, extreme funding and expiry, all
\* three at the last price.
FindExit(cs, delisted, extreme) ==
  LET n == Len(cs)
      walked == WalkOutcome(pos, Replayed(cs, entryAt), n)
      last == [reason |-> "EXPIRED", price |-> price, at |-> n]
  IN IF walked # NoOutcome THEN walked
     ELSE IF delisted THEN [last EXCEPT !.reason = "DELISTED"]
     ELSE IF extreme THEN [last EXCEPT !.reason = "EXTREME_FUNDING"]
     ELSE IF Expired(cs, entryAt) THEN last
     ELSE NoOutcome

----------------------------------------------------------------------------
(* The market. *)

Lower(a, b) == IF a <= b THEN a ELSE b
Higher(a, b) == IF a >= b THEN a ELSE b

\* A trade at x passes the reported stop.
PassesReported(x) ==
  reported.at # 0 /\ TouchesStop(pos, reported.stop, [low |-> x, high |-> x])

\* What the histories learn from a trade at x that makes the candles cs.
Learn(x, cs) ==
  LET n == Len(cs)
  IN IF state # "OPEN" THEN UNCHANGED <<touched, eager, crossed>>
     ELSE
       /\ touched' = (touched \/ TouchesStop(pos, pos.stop, [low |-> x, high |-> x]))
       /\ eager' = IF eager # NoOutcome THEN eager
                   ELSE WalkOutcome(pos, SubSeq(cs, entryAt + 1, n), n)
       /\ crossed' = IF PassesReported(x) /\ crossed # "later"
                     THEN IF n = reported.at THEN "same" ELSE "later"
                     ELSE crossed

\* A trade in the forming candle; a larger move is a run of such trades.  The
\* extremes of the first candle are not kept: the entry filter always drops it.
Tick(x) ==
  /\ x \in {price - 1, price + 1}
  /\ state # "CLOSED"
  /\ LET n == Len(candles)
         c == candles[n]
     IN candles' = IF n = 1 THEN candles
                   ELSE [candles EXCEPT ![n] = [low |-> Lower(c.low, x),
                                                high |-> Higher(c.high, x)]]
  /\ price' = x
  /\ Learn(x, candles')
  /\ UNCHANGED <<pos, state, entryAt, stage, exit, reported>>

\* The candle completes and the next one opens at x.
Roll(x) ==
  /\ Len(candles) < MaxCandles
  /\ state # "CLOSED"
  /\ candles' = Append(candles, [low |-> x, high |-> x])
  /\ price' = x
  /\ Learn(x, candles')
  /\ UNCHANGED <<pos, state, entryAt, stage, exit, reported>>

----------------------------------------------------------------------------
(* The manager. *)

\* The pipeline opens at the live price and records the open of the bar as
\* entry_ts, which only the first candle does not exceed.  The manual command takes
\* the entry as it is given, wherever the market trades, and records the current
\* time, which no existing candle exceeds.
Open(p) ==
  /\ state = "PENDING"
  /\ state' = "OPEN"
  /\ pos' = p
  /\ \E origin \in Origins :
       /\ origin = "pipeline" => p.entry = price
       /\ entryAt' = IF origin = "pipeline" THEN 1 ELSE Len(candles)
  /\ eager' = WalkOutcome(p, SubSeq(candles, entryAt' + 1, Len(candles)), Len(candles))
  /\ UNCHANGED <<candles, price, stage, exit, touched, reported, crossed>>

\* One cycle that fetched its candles: the position is closed, or its stop
\* stage is recomputed and stored.
Poll ==
  /\ state = "OPEN"
  /\ \E delisted, extreme \in BOOLEAN :
       LET outcome == FindExit(candles, delisted, extreme)
           stop == CurrentStop(pos, Replayed(candles, entryAt))
       IN IF outcome # NoOutcome
            THEN /\ state' = "CLOSED"
                 /\ exit' = outcome
                 /\ UNCHANGED <<stage, reported, crossed>>
            ELSE /\ stage' = StageOf(StopReason(pos, stop))
                 /\ reported' = [stop |-> stop, at |-> Len(candles)]
                 /\ crossed' = "no"
                 /\ UNCHANGED <<state, exit>>
  /\ UNCHANGED <<candles, price, pos, entryAt, touched, eager>>

Init ==
  /\ price \in Prices
  /\ candles = <<[low |-> price, high |-> price]>>
  /\ pos \in Positions
  /\ state = "PENDING"
  /\ entryAt = 0
  /\ stage = "INITIAL"
  /\ exit = NoOutcome
  /\ touched = FALSE
  /\ eager = NoOutcome
  /\ reported = [stop |-> 0, at |-> 0]
  /\ crossed = "no"

Next ==
  \/ \E x \in Prices : Tick(x)
  \/ \E x \in Prices : Roll(x)
  \/ Open(pos)
  \/ Poll

Spec == Init /\ [][Next]_vars

----------------------------------------------------------------------------
(* Properties. *)

WalkReasons == {"STOP", "BREAKEVEN", "TRAILING_STOP", "TARGET"}

\* The manager may be down for any number of candles and still closes the
\* position in the candle, and by the walk, in which a manager that never
\* sleeps would have closed it, at the same price or a less favourable one (the
\* stop of a candle that had only touched the target when it was first seen).
LateExitIsTheSame ==
  exit.reason \in WalkReasons =>
    /\ eager # NoOutcome
    /\ exit.at = eager.at
    /\ AtLeast(pos.side, eager.price, exit.price)

\* However long the manager was down, a cycle that does not close the position
\* by the walk comes before any exit of the walk: no stop, trail or target that
\* the market reached is lost, nor replaced by delisting, funding or expiry.
MissedExitIsCaught ==
  [][Poll /\ exit'.reason \notin WalkReasons => eager = NoOutcome]_vars

\* The stored stage never goes back, whatever the forming candles looked like
\* when the stage was stored and however many cycles were missed.
StageNeverRegresses ==
  [][/\ stage = "TRAILING" => stage' = "TRAILING"
     /\ stage = "BREAKEVEN" => stage' # "INITIAL"]_stage

\* A stop that was reported for one candle is enforced in every later candle:
\* once the market went through it there, the next cycle closes the position.
ReportedStopHoldsLater ==
  [][Poll /\ crossed = "later" => state' = "CLOSED"]_vars

\* watcher.py:51-52: exits are tested on the candles since the entry.  A stop
\* exit means that the market traded at the stop after the position was opened.
ExitAfterEntry == exit.reason = "STOP" => touched
=============================================================================
