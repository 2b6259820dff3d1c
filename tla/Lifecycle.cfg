SPECIFICATION Spec
CONSTANTS
  Request = {r1, r2}
  Grace = 2
  Horizon = 2
INVARIANTS
  CleanExitMeansDrained
  BackendOutlivesHandlers
  SuccessSwallowsNoError
  ShutdownBounded
PROPERTIES
  CauseEndsProcess
