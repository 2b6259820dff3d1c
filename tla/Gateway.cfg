SPECIFICATION Spec
CHECK_DEADLOCK FALSE
CONSTANTS
  Malformed = Malformed
  NotANumber = NotANumber
  Padded <- MCPadded
  Existing <- MCExisting
  Files <- MCFiles
  Envs <- MCEnvs
  BadPatterns = {"metrics"}
  AllowedOrigins <- MCOrigins
  Requests <- MCRequests
INVARIANTS
  Precedence
  ValidatedConfigsConstruct
  ServesWithUsableParameters
  IdOnEveryAnswer
  OneTrueRecord
  HandlersAnswersAreProtected
