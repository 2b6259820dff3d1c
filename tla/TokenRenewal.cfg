SPECIFICATION Spec
CONSTANTS
  LeaseTTL = 3
  MaxTTL = 6
  RenewEvery = 2
  Horizon = 9
INVARIANT
  RenewedUntilClosed
CHECK_DEADLOCK FALSE
