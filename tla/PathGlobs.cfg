SPECIFICATION DecisionSpec
CHECK_DEADLOCK FALSE
CONSTANTS
  Forbidden <- MCForbidden
  Width <- MCWidth
  MaxLength <- MCMaxLength
  Patterns <- MCPatterns
  RawPaths <- MCRawPaths
  NamespaceLists <- OneList
  AccountLists <- OneAccountList
  Callers <- OneCaller
INVARIANTS
  GlobIsCover
  AuthorizedPathIsFetched
