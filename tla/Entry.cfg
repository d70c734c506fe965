SPECIFICATION EntrySpec

CONSTANTS
  MaxFundingCost = 1000
  MaxLeverage = 10
  Gate = 10000
  MinMargin = 900
  MaxMargin = 1800
  VotesHeard <- MCVotes
  Convictions = {59, 100}
  RsiLevels = {"oversold", "none", "overbought"}
  Backs = {"near", "deep"}
  IntentsMade <- MCIntents
  Markets <- MCMarkets
  Rates <- MCRates
  Shrinkage = 85
  MinReward = 3
  MaxDrift = 6
  KillSwitch = 250
  MaxOpen = 5
  MaxSameSide = 2

INVARIANTS
  LevelsSound
  NeverAgainstAnalysts
  StopLossCovered
  OneStopIsNoHalt
