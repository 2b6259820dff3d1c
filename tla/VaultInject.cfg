SPECIFICATION Spec
CONSTANTS
  Settings <- MCSettings
  Keys <- MCKeys
  LoginTimeout = 4
  ReadTimeout = 2
  ClientTimeout = 3
  MaxAttempts = 3
  Base = 1
  MaxChanges = 2
INVARIANTS
  StartsResolved
  VariablesKept
  OneVersionPerPath
  StartupBounded
PROPERTIES
  StartupEnds
