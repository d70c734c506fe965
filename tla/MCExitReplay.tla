---------------------------- MODULE MCExitReplay ----------------------------
(***************************************************************************)
(* Model checking of ExitReplay: one long and one short position, stop two *)
(* ticks away, breakeven after one tick and a trail of one tick from two.  *)
(***************************************************************************)
EXTENDS ExitReplay

MCPositions == {
  [side |-> "long",  entry |-> 2, stop |-> 0, target |-> 5, half |-> 1],
  [side |-> "short", entry |-> 3, stop |-> 5, target |-> 0, half |-> 1]}

\* The short position expires after two candles, the long one never.
MCValidCandles == [p \in MCPositions |-> IF p.side = "short" THEN 2 ELSE 0]

MCPrices == 0..5
=============================================================================
