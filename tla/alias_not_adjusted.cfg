CONSTANTS
  N = 2
  Uri <- TwoUris
  Addr <- OneServer
  Symbolic = {1}
  Bytes <- MCBytes
  Call = "grouping"
  ElimAlias = TRUE
  Eager = TRUE
  MayFail = {}
SPECIFICATION Spec
INVARIANT GroupingFilled

