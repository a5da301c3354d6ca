\* Two papers indexed and analysed together in one process.
SPECIFICATION FairSpec
CONSTANTS
  NumPapers = 2
  WithPDF = {1, 2}
  Cap = 2
  Chunks = 1
  MaxAttempts = 1
  MaxStarts = 1
INVARIANTS
  BatchesCountTheirJobs
PROPERTIES
  DoneMeansNothingToCome
  StageEnds
CHECK_DEADLOCK FALSE
