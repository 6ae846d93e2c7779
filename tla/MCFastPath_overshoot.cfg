SPECIFICATION FairSpec
CONSTANTS
  Period = 2
  p1 = p1
  p2 = p2
  w1 = w1
  w2 = w2
  Workers = {w1, w2}
  Chunk <- Chunks
  Pods = {p1}
  Limits <- SplitIO
  Costs <- SplitCosts
  Actuals <- SplitActuals
  PodOf <- Together
  Ids = {i1, i2}
  LeaseTTL = 1
  ResTTL = 1
  FailOpen <- FirstOpen
  MaxTime = 3
  MaxFaults = 0
  MaxCrashes = 0
CHECK_DEADLOCK FALSE
INVARIANTS TypeOK RequestsBacked
PROPERTIES LocalLifecycle CallsFinish
