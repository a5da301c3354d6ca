\* One paper at a time, with a second attempt of its PDF job and a second process.
SPECIFICATION Spec
CONSTANTS
  NumPapers = 2
  WithPDF = {1, 2}
  Cap = 1
  Chunks = 1
  MaxAttempts = 2
  MaxStarts = 2
INVARIANTS
  OkMeansAnalyzed
CHECK_DEADLOCK FALSE
