SPECIFICATION FairSpec
CONSTANTS
  Jobs = {j1, j2}
  Workers = {w1, w2}
  MaxRetry = 2
  ReclaimCount = 2
  Overrun = FALSE
  MaxFaults = 1
  MaxStops = 1
INVARIANTS
  TypeOK
  NoJobIsLost
  RetryLimitHolds
PROPERTIES
  ImplementsJobDelivery
  EveryJobEnds
CHECK_DEADLOCK FALSE
