------------------------------ MODULE MCEntry -------------------------------
(***************************************************************************)
(* Model checking of Entry.  The charts lie around 200000: a drift within  *)
(* the limit, one beyond it, an ATR of ten percent, one of zero.  The      *)
(* intents combine anchors and multiples that are near, far, negative and  *)
(* left out.                                                               *)
(***************************************************************************)
EXTENDS Entry

Vote(m, d, s, t) == [macro |-> m, derivatives |-> d, sentiment |-> s, technical |-> t]

\* Full agreement, a majority either way, the thresholds, indifference.
MCVotes ==
  {Vote(1, 1, 1, 1), Vote(-1, -1, -1, -1), Vote(1, 1, 0, 1), Vote(1, -1, 1, -1),
   Vote(1, -1, 1, 0), Vote(-1, 0, 0, 1), Vote(0, 0, 0, 0)}

Chart(close, atr, near, deep, prevHigh, prevLow) ==
  [close |-> close, atr |-> atr,
   high |-> [near |-> close + near, deep |-> close + deep],
   low |-> [near |-> close - near, deep |-> close - deep],
   prevHigh |-> prevHigh, prevLow |-> prevLow]

MCMarkets ==
  {Chart(200000, 200, 4000, 15000, 210000, NoLevel),
   Chart(201000, 200, 5000, 15000, 210000, NoLevel),
   Chart(199000, 2000, 3000, 12000, 190000, 194000),
   Chart(206000, 0, 2000, 9000, 190000, 220000)}

Made(dir, type, aggression, stop, stopAtr, offset, target, targetAtr, hours) ==
  [direction |-> dir, type |-> type, aggression |-> aggression, stop |-> stop,
   stopBack |-> "near", stopAtr |-> stopAtr, offset |-> offset,
   target |-> target, targetBack |-> "deep", targetAtr |-> targetAtr, hours |-> hours]

MCRates == {-300, 0, 60}

MCIntents ==
  {Made("long", "trend_continuation", "aggressive", "atr_distance", 90, 1, "atr_distance", 150, 24),
   Made("long", "breakout", "aggressive", "swing_low", Unset, 10, "prev_day_high", Unset, 8),
   Made("long", "reversal", "conservative", "atr_distance", Unset, 1, "atr_distance", Unset, 168),
   Made("long", "breakout", "moderate", "swing_low", Unset, 30, "swing_high", Unset, 8),
   Made("long", "reversal", "moderate", "swing_high", Unset, 1, "swing_high", Unset, 8),
   Made("short", "trend_continuation", "aggressive", "atr_distance", -10, 1, "atr_distance", 150, 24),
   Made("short", "trend_continuation", "conservative", "atr_distance", 90, 1, "prev_day_low", Unset, 24),
   Made("short", "breakout", "aggressive", "swing_high", Unset, 10, "swing_low", Unset, 8),
   Made("short", "reversal", "aggressive", "atr_distance", Unset, 1, "atr_distance", -20, 168)}
=============================================================================
