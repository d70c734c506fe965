SPECIFICATION Spec
CONSTANTS
  Symbols = {btc, eth, sol, xrp}
  Shorts = {eth}
  Pipelines = {tick1, tick2}
  Bar <- OwnBar
  Serial = TRUE
  Manuals = {}
  Managers = {manager}
  Closers = {}
  PnlValues <- MCOnePnl
  InitialBalance = 5
  MaxConcurrent = 3
  MaxSameDirection = 2
  ConflictAborts = TRUE
INVARIANTS
  CapsHold
  OneOpenPerSymbol
PROPERTIES
  PipelineRespectsHalt
