------------------------- MODULE MCPositionManager -------------------------
(***************************************************************************)
(* Model checking of PositionManager: positions that win or lose, one or   *)
(* two faults.                                                             *)
(***************************************************************************)
EXTENDS PositionManager

MCPnl == {-2, 3}

\* One amount, where the question is not about money.
MCOnePnl == {3}
=============================================================================
