SPECIFICATION Spec
CONSTANTS
  Period = 2
  Workers = {w1, w2}
  Tiers <- SteadyTiers
  MaxCap <- ClassicCap
  Costs <- ClassicCosts
  Actuals = {}
  BorrowSpecs = {}
  Returns = {}
  Ids = {i1, i2}
  FailOpen = FALSE
  TTL = 2
  CallTime = 1
  MaxTime = 3
  MaxFaults = 0
  MaxCalls = 2
INVARIANT RedisMatching
CHECK_DEADLOCK FALSE
