CONSTANTS
  Instances = {i1, i2}
  Requests = {r1, r2}
  TTL = 1
  RedisTTL = 2
  CallTimeout = 1
  Backoff = 1
  MaxRetries = 2
  MaxSkew = 1
  Horizon = 1
  Offset <- SkewedClocks
SPECIFICATION FairSpec
INVARIANTS TypeOK FreshAnswer UpstreamBudget
PROPERTIES QuotesFreshRates EveryRequestEnds
