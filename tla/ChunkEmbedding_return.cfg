SPECIFICATION Spec
CONSTANTS
  w1 = w1
  w2 = w2
  a = a
  b = b
  None = None
  Workers = {w1}
  Contents = {a, b}
  Documents <- OneDocument
  Abstracts = {a, b}
  MaxStarts = 3
  MaxFaults = 1
  MaxCrashes = 0
INVARIANT EnsureMakesQueryable
CHECK_DEADLOCK FALSE
