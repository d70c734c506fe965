------------------------------ MODULE ExitRules ------------------------------
(***************************************************************************)
(* The rules of the managed exit of a virtual position:                    *)
(* app/domain/risk/exits.py.                                               *)
(*                                                                         *)
(* walk_managed_exit replays the candles since the entry.  On each candle  *)
(* it first tests the stop computed from the EARLIER candles, then the     *)
(* target, and only then lets the candle pull the stop towards the price:  *)
(* to the entry (breakeven) and later to a trail behind the best price.    *)
(* current_managed_stop replays the same candles without the exit tests,   *)
(* for the stop stage that is stored and announced.                        *)
(*                                                                         *)
(* The loop body of each is an operator (WalkCandle, MonitorCandle).       *)
(* Prices are integer ticks.  R, the initial risk |entry - stop|, is twice *)
(* the field "half", and the thresholds of core/settings.py are given in   *)
(* halves of R, so that the default 0.5R is a whole number and nothing is  *)
(* rounded.                                                                *)
(***************************************************************************)
EXTENDS Integers

CONSTANTS
  Positions,         \* the positions that may be opened
  BreakevenTrigger,  \* settings.BREAKEVEN_TRIGGER_R, in halves of R
  TrailActivation,   \* settings.TRAIL_ACTIVATION_R,  in halves of R
  TrailDistance      \* settings.TRAIL_DISTANCE_R,    in halves of R

Sides == {"long", "short"}
Reasons == {"STOP", "BREAKEVEN", "TRAILING_STOP", "TARGET"}

PositionType ==
  {p \in [side : Sides, entry : Int, stop : Int, target : Int, half : Nat] :
     \/ p.entry - p.stop = 2 * p.half
     \/ p.stop - p.entry = 2 * p.half}

ASSUME PositionsAssumption == Positions \subseteq PositionType

CandleType == {c \in [low : Int, high : Int] : c.low <= c.high}

\* The settings are declared with gt=0.0.
ASSUME SettingsAssumption ==
  /\ BreakevenTrigger \in Nat \ {0}
  /\ TrailActivation \in Nat \ {0}
  /\ TrailDistance \in Nat \ {0}

NoExit == [reason |-> "NONE", price |-> 0]
ExitType == [reason : Reasons \cup {"NONE"}, price : Int]

----------------------------------------------------------------------------
(* Prices seen from the side of the position. *)

\* max() for a long, min() for a short: the more favourable of two prices.
Further(side, a, b) ==
  IF side = "long" THEN IF a >= b THEN a ELSE b
                   ELSE IF a <= b THEN a ELSE b

\* a is at least as favourable as b.
AtLeast(side, a, b) == IF side = "long" THEN a >= b ELSE a <= b

\* The price d ticks behind the price a.
Behind(side, a, d) == IF side = "long" THEN a - d ELSE a + d

\* How far the price a is from the entry, in the favourable direction.
Excursion(p, a) == IF p.side = "long" THEN a - p.entry ELSE p.entry - a

TouchesStop(p, stop, c) ==
  IF p.side = "long" THEN c.low <= stop ELSE c.high >= stop

TouchesTarget(p, c) ==
  IF p.side = "long" THEN c.high >= p.target ELSE c.low <= p.target

BestOf(p, c) == IF p.side = "long" THEN c.high ELSE c.low

----------------------------------------------------------------------------
(* The helpers and the two loops. *)

\* Fault variant: the reason of the initial stop is not told apart.
StopReason_NoInitial(p, stop) ==
  IF stop = p.entry THEN "BREAKEVEN" ELSE "TRAILING_STOP"

StopReason(p, stop) ==
  IF stop = p.stop THEN "STOP"
  ELSE IF stop = p.entry THEN "BREAKEVEN"
  ELSE "TRAILING_STOP"

\* Where the stop is pulled to when the best price is "best" and the largest
\* excursion "mfe"; the stop itself while it is too early to pull it.
TrailedStop(p, stop, best, mfe) ==
  IF mfe >= TrailActivation * p.half
    THEN Behind(p.side, best, TrailDistance * p.half)
  ELSE IF mfe >= BreakevenTrigger * p.half THEN p.entry
  ELSE stop

WalkType == [stop : Int, best : Int, mfe : Nat, exit : ExitType]

WalkStart(p) == [stop |-> p.stop, best |-> p.entry, mfe |-> 0, exit |-> NoExit]

\* Fault variant: the best price is the one of the last candle only.
PullStop_ForgetsBest(p, w, c) ==
  LET best == BestOf(p, c)
      mfe  == IF Excursion(p, best) >= w.mfe THEN Excursion(p, best) ELSE w.mfe
  IN [w EXCEPT !.best = best, !.mfe = mfe,
               !.stop = Further(p.side, w.stop, TrailedStop(p, w.stop, best, mfe))]

\* Fault variant: the stop trails the last candle, without a ratchet.
PullStop_NoRatchet(p, w, c) ==
  LET best == BestOf(p, c)
      mfe  == IF Excursion(p, best) >= w.mfe THEN Excursion(p, best) ELSE w.mfe
  IN [w EXCEPT !.best = best, !.mfe = mfe,
               !.stop = TrailedStop(p, w.stop, best, mfe)]

\* The part of the loop body that follows the exit tests.  With r <= 0 the
\* code only follows the best price.
PullStop(p, w, c) ==
  LET best == Further(p.side, w.best, BestOf(p, c))
      mfe  == IF p.half = 0 THEN w.mfe
              ELSE IF Excursion(p, best) >= w.mfe THEN Excursion(p, best) ELSE w.mfe
      stop == IF p.half = 0 THEN w.stop
              ELSE Further(p.side, w.stop, TrailedStop(p, w.stop, best, mfe))
  IN [stop |-> stop, best |-> best, mfe |-> mfe, exit |-> w.exit]

\* Fault variant: the candle pulls the stop before it is tested against it.
WalkCandle_LookAhead(p, w, c) ==
  LET v == PullStop(p, w, c)
  IN IF TouchesStop(p, v.stop, c)
       THEN [v EXCEPT !.exit = [reason |-> StopReason(p, v.stop), price |-> v.stop]]
     ELSE IF TouchesTarget(p, c)
       THEN [v EXCEPT !.exit = [reason |-> "TARGET", price |-> p.target]]
     ELSE v

\* One candle of walk_managed_exit: the stop has priority over the target.
WalkCandle(p, w, c) ==
  IF TouchesStop(p, w.stop, c)
    THEN [w EXCEPT !.exit = [reason |-> StopReason(p, w.stop), price |-> w.stop]]
  ELSE IF TouchesTarget(p, c)
    THEN [w EXCEPT !.exit = [reason |-> "TARGET", price |-> p.target]]
  ELSE PullStop(p, w, c)

MonitorStart(p) == [stop |-> p.stop, best |-> p.entry]

\* Fault variant: no test for a degenerate R.
MonitorCandle_NoGuard(p, m, c) ==
  LET best == Further(p.side, m.best, BestOf(p, c))
  IN [best |-> best,
      stop |-> Further(p.side, m.stop,
                       TrailedStop(p, m.stop, best, Excursion(p, best)))]

\* One candle of current_managed_stop, which keeps no running maximum of the
\* excursion and tests no exit.
MonitorCandle(p, m, c) ==
  LET best == Further(p.side, m.best, BestOf(p, c))
  IN [best |-> best,
      stop |-> IF p.half = 0 THEN m.stop
               ELSE Further(p.side, m.stop,
                            TrailedStop(p, m.stop, best, Excursion(p, best)))]
=============================================================================
