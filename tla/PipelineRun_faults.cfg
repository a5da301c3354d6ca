\* The program's seven stages, one topic, faults and stops combined.
SPECIFICATION Spec
CONSTANTS
  Topics = {t1}
  NumStages <- MCStages
  MaxFaults = 3
  MaxStops = 2
INVARIANTS
  TypeOK
  CheckpointsArePrefix
  CompletedShownMeansStagesDone
  LogsMatchRuns
PROPERTIES
  ShownEndIsFinal
  ImplementsDurableRun
CHECK_DEADLOCK FALSE
