\* The default settings: breakeven at 0.5R, trailing from 1R at a distance of 0.5R.
SPECIFICATION WalkSpec
CONSTANTS
  BreakevenTrigger = 1
  TrailActivation = 2
  TrailDistance = 1
  MaxPrice = 10
  Positions <- MCPositions
  Candles <- MCCandles
\* A closed position is not walked any further.
CHECK_DEADLOCK FALSE
INVARIANTS
  StopTracksBestPrice
  MonitorAgrees
  ReasonTellsPrice
PROPERTIES
  StopNeverLoosens
  NoLookAhead
