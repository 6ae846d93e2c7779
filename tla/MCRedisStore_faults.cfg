SPECIFICATION Spec
CONSTANTS
  Period = 2
  Workers = {w1, w2}
  Tiers <- MixedTiers
  MaxCap <- MixedCap
  Costs <- MixedCosts
  Actuals <- MixedActuals
  BorrowSpecs <- MixedBorrows
  Returns <- MixedReturns
  Ids = {i1, i2}
  FailOpen = FALSE
  TTL = 2
  CallTime = 1
  MaxTime = 4
  MaxFaults = 2
  MaxCalls = 3
SYMMETRY IdSymmetry
INVARIANTS TypeOK RateBound NoTokenLost Vouched MatchesMemory
PROPERTY ImplementsLedger
CHECK_DEADLOCK FALSE
