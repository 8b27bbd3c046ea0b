CONSTANTS
  N = 3
  Uri <- ThreeUris
  Addr <- AliasedTail
  Symbolic = {2}
  Bytes <- MCBytes
  Call = "mapReduce"
  ElimAlias = TRUE
  Eager = TRUE
  MayFail = {}
SPECIFICATION Spec
INVARIANT IInv
INVARIANT NothingLost
