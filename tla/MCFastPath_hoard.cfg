SPECIFICATION Spec
CONSTANTS
  Period = 2
  p1 = p1
  p2 = p2
  w1 = w1
  w2 = w2
  Workers = {w1, w2}
  Chunk <- Chunks
  Pods = {p1}
  Limits <- Classic
  Costs <- SmallCosts
  Actuals <- PlainActuals
  PodOf <- Together
  Ids = {i1, i2}
  LeaseTTL = 2
  ResTTL = 2
  FailOpen <- FirstOpen
  MaxTime = 2
  MaxFaults = 0
  MaxCrashes = 0
CHECK_DEADLOCK FALSE
INVARIANT HoardBound
