\* Entries of the pipeline and of the command; their history just fits into the window of the exchange.
SPECIFICATION Spec
CONSTANTS
  BreakevenTrigger = 1
  TrailActivation = 2
  TrailDistance = 1
  Window = 2
  ValidCandles <- MCValidCandles
  Origins = {"pipeline", "manual"}
  MaxCandles = 3
  Positions <- MCPositions
  Prices <- MCPrices
\* The model stops with the position closed.
CHECK_DEADLOCK FALSE
INVARIANTS
  LateExitIsTheSame
PROPERTIES
  MissedExitIsCaught
  StageNeverRegresses
  ReportedStopHoldsLater
