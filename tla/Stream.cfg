\* Two clients, one of which may stall, and channels of one event.
SPECIFICATION Spec
CONSTANTS
  Clients = {c1, c2}
  Stalled = {c2}
  Workers = {w1}
  Run = Run
  Last = 2
  Analysis = 1
  Papers = 2
  Capacity = 1
INVARIANTS
  OnlyOpenChannels
  ShownIsCurrent
PROPERTIES
  EndIsShown
  RunEnds
  StreamsEnd
CHECK_DEADLOCK FALSE
