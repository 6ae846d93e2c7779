SPECIFICATION Spec
CONSTANTS
  Period = 2
  p1 = p1
  p2 = p2
  w1 = w1
  w2 = w2
  Workers = {w1, w2}
  Chunk <- Chunks
  Pods = {p1, p2}
  Limits <- Classic
  Costs <- PlainCosts
  Actuals <- PlainActuals
  PodOf <- Apart
  Ids = {i1, i2}
  LeaseTTL = 1
  ResTTL = 2
  FailOpen <- FirstOpen
  MaxTime = 3
  MaxFaults = 1
  MaxCrashes = 1
CHECK_DEADLOCK FALSE
SYMMETRY IdSymmetry
INVARIANTS TypeOK LeaseBacked GlobalAllow
