CONSTANTS
  NullValue = NullValue
  AmbientMode = AmbientMode
  NoSender = NoSender
  NoCall = NoCall
  NoEntry = NoEntry
  risk = risk
  decision = decision
  c1 = c1
  c2 = c2
  Calls <- MCCalls
  Asks <- MCAsks
  Ttl = 3
  Skew = 2
  Timeout = 1
  Drift = 1
  Horizon = 3
  Grants = {0, 3}
SPECIFICATION FairSpec
INVARIANTS TypeOK HitsAreAccepted SingleFlight TokensMatchAsks
PROPERTIES JoinsOnlyLiveRequests CacheMovesForward EveryCallReturns
CHECK_DEADLOCK FALSE
