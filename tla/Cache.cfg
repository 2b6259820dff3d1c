SPECIFICATION SpecRecency
CONSTANTS
  Path = {p1, p2, p3}
  Value = {v1, v2}
  NoValue = NoValue
  Enabled = TRUE
  TTL = 2
  NegativeTTL = 1
  MaxEntries = 2
  Horizon = 4
INVARIANTS
  LruMatchesItems
  SizeBounded
  KeepsMostRecent
PROPERTIES
  ImplementsContract
