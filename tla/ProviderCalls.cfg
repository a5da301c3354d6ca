SPECIFICATION Spec
CONSTANTS
  Callers = {c1, c2}
  Clients = {generator, docling}
  Docling = docling
  None = None
  Concurrency = 1
  MaxConcurrent = 1
  FailureThreshold = 2
  SuccessThreshold = 2
  MaxRetries = 1
  Burst = 1
  RPM = 1
  RPD = 2
INVARIANTS
  TypeOK
  PermitsAreHeld
  MinuteHolds
  OneProbe
PROPERTIES
  ClosedIsEarned
  CancelledCallEnds
  BreakerRecovers
