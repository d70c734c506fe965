SPECIFICATION Spec
CONSTANTS
  a = a
  b = b
  c = c
  Symbols = {a, b, c}
  settings <- MCSettings
  periods <- MCPeriods
  NextBars <- MCNextBars
  MaxBars = 6
  Outages <- MCOutages
  Coins <- MCCoins
  Topics <- MCTopics
  TimeSeries <- MCTimeSeries
  Axis <- MCAxis
INVARIANTS
  MirrorImage
  OutageNeverPromotes
  TopStands
  RiskErrsOneWay
