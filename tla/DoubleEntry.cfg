SPECIFICATION Spec
CONSTANTS
  Symbols = {btc, eth}
  Shorts = {eth}
  Pipelines = {worker}
  Bar <- SameBar
  Serial = FALSE
  Manuals = {manual}
  Managers = {manager}
  Closers = {}
  PnlValues <- MCOnePnl
  InitialBalance = 5
  MaxConcurrent = 2
  MaxSameDirection = 2
  ConflictAborts = TRUE
INVARIANTS
  OneOpenPerSymbol
