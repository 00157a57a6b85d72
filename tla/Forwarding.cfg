SPECIFICATION Spec
CONSTANTS
  Strings <- MCStrings
  SortedDomains <- MCSortedDomains
  Normal <- MCNormal
  Folded <- MCFolded
  Trimmed <- MCTrimmed
  Configs <- MCConfigs
  Requests <- MCRequests
  Ports = {80, 443}
  Paths <- MCPaths
  NoRoute = NoRoute
  Failed = Failed
INVARIANT TypeOK
INVARIANT AnswersAsConfigured
INVARIANT RoutedIsDecrypted
INVARIANT PassedToTarget
INVARIANT PathCarriedOver
