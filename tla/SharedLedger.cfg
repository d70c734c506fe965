SPECIFICATION Spec
CONSTANTS
  Symbols = {btc}
  Shorts = {}
  Pipelines = {worker, command}
  Bar <- SameBar
  Serial = FALSE
  Manuals = {manual}
  Managers = {manager}
  Closers = {force}
  PnlValues <- MCPnl
  InitialBalance = 5
  MaxConcurrent = 2
  MaxSameDirection = 2
  ConflictAborts = TRUE
INVARIANTS
  BalanceAccountsForEvents
  OneEntryPerBar
PROPERTIES
  ImplementsLedger
