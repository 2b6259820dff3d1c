SPECIFICATION LoginSpec
CONSTANTS
  Request = {r1, r2}
  JWT = {"app", "batch", "node", "odd", "expired", ""}
  Username <- MCUsername
  RoleName = {"app", "any", "nosuch", ""}
  roles <- MCRoles
  RoleTTL <- MCRoleTTL
  DefaultTTL = 1
  Token = {t1, t2}
  Role = {"app", "any"}
  TTL = {1, 2}
  Namespace = {"ns"}
  ServiceAccount = {"app", "batch"}
  MaxTokensPerIdentity = 1
  Forbidden = {}
  Width <- MCWidth
  MaxLength = 8
  Horizon = 3
INVARIANTS
  TokensAreEarned
PROPERTIES
  GaugeConverges
