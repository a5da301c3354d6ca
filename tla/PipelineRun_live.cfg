SPECIFICATION FairSpec
CONSTANTS
  Topics = {t1, t2}
  NumStages = 3
  MaxFaults = 0
  MaxStops = 2
PROPERTIES
  EveryRunEnds
CHECK_DEADLOCK FALSE
