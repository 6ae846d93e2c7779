SPECIFICATION Spec
CONSTANTS
  Period = 2
  Keys = {k1}
  Tiers <- MixedTiers
  MaxCap <- MixedCap
  Costs <- MixedCosts
  Actuals <- MixedActuals
  BorrowSpecs <- MixedBorrows
  Returns <- MixedReturns
  Ids = {i1, i2}
  TTL = 1
  MaxTime = 3
  MaxStepBack = 0
SYMMETRY IdSymmetry
INVARIANT NoTokenLost
PROPERTY WindowBound
