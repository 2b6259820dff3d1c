SPECIFICATION Spec
CONSTANTS
  Request = {r1, r2}
  Paths <- MCPaths
  Keys <- MCKeys
  Backends = {"aws", "azure flat", "azure json", "gcp"}
  InFlight <- MCInFlight
  SecretPrefix <- MCPrefix
  MaxID = 3
  MaxChanges <- MCMaxChanges
INVARIANTS
  EveryKeyWasSo
  OwnKeysOnly
  AnsweredFromOwnSecrets
SYMMETRY Symmetry
