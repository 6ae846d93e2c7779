SPECIFICATION Spec
CONSTANTS
  Period = 2
  Keys = {k1}
  Tiers <- ClassicTier
  MaxCap <- ClassicCap
  Costs <- ClassicCosts
  Actuals <- ClassicActuals
  BorrowSpecs <- ClassicBorrows
  Returns <- ClassicReturns
  Ids = {i1, i2}
  TTL = 1
  MaxTime = 3
  MaxStepBack = 1
SYMMETRY IdSymmetry
INVARIANTS TypeOK RateBound NoTokenLost RetryAfterExact
PROPERTIES WindowBound ReservationLifecycle ImplementsLedger
