\* Two processes at a time, two generations, one failure.
SPECIFICATION Spec
CONSTANTS
  Contents = {c1, c2}
  Procs = {p1, p2}
  MaxGenerations = 2
  MaxFaults = 1
SYMMETRY Symmetry
INVARIANTS
  TypeOK
  AliasIsActiveAlone
  CompletedIsServedAlone
PROPERTIES
  ActivationMissesNoChunk
CHECK_DEADLOCK FALSE
