SPECIFICATION Spec
CONSTANTS
  binance = binance
  bybit = bybit
  Exchanges = {binance, bybit}
  Selective = {bybit}
  Resubscribing = {bybit}
  Burst <- MCBurst
  ReconnectDelay = 1
  ResubInterval = 3
  IdleTimeout = 2
  MaxTime = 6
  BatchSize = 2
  FlushInterval = 2
  MaxEvents = 4
  Subscribers = {s1, s2}
  QueueSize = 2
  MaxOffers = 3
  ApiTime = 2
INVARIANTS
  BatchIsRecent
  NewListingsSeen
PROPERTIES
  ImplementsDelivery
  OnlyTheSlowLose
CHECK_DEADLOCK FALSE
