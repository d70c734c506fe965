SPECIFICATION FairSpec
CONSTANTS
  Ids = {p1, p2}
  InitialBalance = 5
  MaxFaults = 2
  PnlValues <- MCPnl
INVARIANTS
  EventsMatchPositions
  EquityCountsOpenOnly
  AnnouncedOnce
PROPERTIES
  ImplementsLedger
  ExitEventuallyExecuted
