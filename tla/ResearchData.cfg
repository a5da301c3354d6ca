SPECIFICATION Spec
CONSTANTS
  g1 = g1
  g2 = g2
  a1 = a1
  a2 = a2
  None = None
  Failed = Failed
  Offers <- OneWorkAndAnother
  Queries <- TwoTwoOne
  MaxPapers = 2
  MinPapers = 1
  Cap = 1
  Analyses = {a1, a2}
  Titles = {g1, g2}
  MaxGaps = 2
  MaxFaults = 1
  MaxCrashes = 2
SYMMETRY Symmetry
INVARIANTS PapersAreDistinct CitationsResolve ReportIsComplete
PROPERTIES DiscoveryKeepsItsPapers ReportsAgree
CHECK_DEADLOCK FALSE
