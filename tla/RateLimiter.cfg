SPECIFICATION Spec
CONSTANTS
  IP = {"ip1", "ip2"}
  Request = {r1, r2}
  Rate = 1
  ConfiguredBurst = 2
  MaxIdle = 3
  MaxStall = 1
  Limiter = {1, 2, 3, 4}
  Horizon = 6
INVARIANTS
  OneBucketPerAddress
PROPERTIES
  ImplementsContract
