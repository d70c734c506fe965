----------------------------- MODULE MCTradingDB -----------------------------
(***************************************************************************)
(* Model checking of TradingDB: which processes run at the same time is a  *)
(* matter of each configuration.                                           *)
(***************************************************************************)
EXTENDS TradingDB, TLC

MCPnl == {-2, 3}
MCOnePnl == {3}

\* All pipelines are for one bar, or each is for a bar of its own.
SameBar == [p \in Pipelines |-> "bar"]
OwnBar == [p \in Pipelines |-> p]
=============================================================================
