SPECIFICATION Spec
CONSTANTS
  Token = {t1, t2, t3}
  Namespace = {n1}
  ServiceAccount = {s1, s2}
  Role = {r1, r2}
  TTL = {1, 2}
  MaxTokensPerIdentity = 2
  Horizon = 4
INVARIANTS
  TypeOK
  CountsMatchTokens
  QuotaRespected
PROPERTIES
  ImplementsLease
  QuotaFreed
