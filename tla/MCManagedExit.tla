--------------------------- MODULE MCManagedExit ---------------------------
(***************************************************************************)
(* Model checking of ManagedExit: every candle over a small price range    *)
(* for long and short positions as resolve_setup builds them, for a        *)
(* degenerate R and for a stop on the wrong side of the entry, which the   *)
(* manual-signal command accepts.                                          *)
(***************************************************************************)
EXTENDS ManagedExit

CONSTANT MaxPrice

MCCandles == {c \in [low : 0..MaxPrice, high : 0..MaxPrice] : c.low <= c.high}

MCPositions == {
  [side |-> "long",  entry |-> 4, stop |-> 2, target |-> 8, half |-> 1],
  [side |-> "short", entry |-> 6, stop |-> 8, target |-> 2, half |-> 1],
  [side |-> "long",  entry |-> 4, stop |-> 0, target |-> 10, half |-> 2],
  [side |-> "short", entry |-> 6, stop |-> 10, target |-> 0, half |-> 2],
  [side |-> "long",  entry |-> 5, stop |-> 5, target |-> 8, half |-> 0],
  [side |-> "long",  entry |-> 3, stop |-> 5, target |-> 10, half |-> 1],
  [side |-> "short", entry |-> 6, stop |-> 4, target |-> 0, half |-> 1]}
=============================================================================
