SPECIFICATION Spec
CONSTANTS
  Request = {r1, r2}
  Path <- MCPath
  Used <- MCUsed
  Value = {v1, v2}
  Obj <- SixObjs
  Absent = Absent
  Scrubbed = Scrubbed
  Token = {t1}
  Namespace = {"n"}
  ServiceAccount = {"s"}
  roles <- MCRoles
  TokenTTL = 1
  MaxTokensPerIdentity = 1
  TTL = 1
  NegativeTTL = 1
  MaxEntries = 1
  Forbidden <- MCForbidden
  Width <- MCWidth
  MaxLength = 8
  MaxFetch = 1
  MaxChanges = 2
  Horizon = 3
INVARIANTS
  NoSharedMaps
  ServedIntact
  BoundedStaleness
  OnlyAllowedPathsReachTheCache
SYMMETRY Symmetry
