SPECIFICATION DecisionSpec
CHECK_DEADLOCK FALSE
CONSTANTS
  Forbidden <- MCForbidden
  Width <- MCWidth
  MaxLength <- MCMaxLength
  Patterns <- BindingPatterns
  RawPaths <- BindingPaths
  NamespaceLists <- BindingLists
  AccountLists <- BindingAccountLists
  Callers <- BindingCallers
INVARIANT
  WildcardMeansAny
