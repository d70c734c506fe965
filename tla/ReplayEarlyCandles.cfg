\* A pipeline entry some candles after the bar opened.
SPECIFICATION Spec
CONSTANTS
  BreakevenTrigger = 1
  TrailActivation = 2
  TrailDistance = 1
  Window = 2
  ValidCandles <- MCValidCandles
  Origins = {"pipeline"}
  MaxCandles = 3
  Positions <- MCPositions
  Prices <- MCPrices
\* The model stops with the position closed.
CHECK_DEADLOCK FALSE
INVARIANT
  ExitAfterEntry
