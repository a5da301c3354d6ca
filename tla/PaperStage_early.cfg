\* A batch that is done before Index has registered every PDF job.
SPECIFICATION Spec
CONSTANTS
  NumPapers = 2
  WithPDF = {1, 2}
  Cap = 2
  Chunks = 1
  MaxAttempts = 1
  MaxStarts = 1
INVARIANTS
  NeverClosedTwice
CHECK_DEADLOCK FALSE
