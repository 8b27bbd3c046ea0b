CONSTANTS
  N = 5
  Uri <- TwoUris
  Addr <- TwoServers
  Symbolic = {1}
  Bytes <- MCBytes
  Call = "grouping"
  ElimAlias = TRUE
  Eager = FALSE
  MayFail = {0, 1, 2}
SPECIFICATION FairSpec
INVARIANT TypeOK
INVARIANT MapExact
INVARIANT OneRepPerGroup
INVARIANT BuffersFit
PROPERTY ImplementsGrouping
PROPERTY Terminates
CHECK_DEADLOCK FALSE
