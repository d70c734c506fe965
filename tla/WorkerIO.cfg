SPECIFICATION Spec
CONSTANTS
  Requests = {r1, r2, r3, r4}
  Unpaid = {r4}
  MaxConcurrent = 2
  Interval = 2
  Pause = 3
  MaxRetries = 2
  Cycle = 4
  Lag = 1
  MaxClock = 14
INVARIANTS
  RateKept
  SkipsOnlyWhenBusy
PROPERTIES
  PauseRespected
  EveryRequestEnds
CHECK_DEADLOCK FALSE
