SPECIFICATION Spec
CONSTANTS
  w1 = w1
  w2 = w2
  a = a
  b = b
  None = None
  Workers = {w1, w2}
  Contents = {a, b}
  Documents <- TwoDocuments
  Abstracts = {a, b}
  MaxStarts = 3
  MaxFaults = 1
  MaxCrashes = 1
SYMMETRY WorkerSymmetry
INVARIANTS CompletedWasStored CompletedHasOwnPoint NoOrphan
CHECK_DEADLOCK FALSE
