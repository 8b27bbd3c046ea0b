CONSTANTS
  host = host
  BackEnd <- TwoLeaves
  CommNode = {host}
  Parent <- DeepTree
  Script <- Distinct
  MayFail <- AnyoneMayFail
  NoMemory = {}
  FilterBytes = 4
  Uri <- TwoUris
  Addr <- TwoServers
  Symbolic = {}
  Bytes <- MCBytes
SPECIFICATION Spec
INVARIANT RightOrFalse
INVARIANT OneTagPerWave
CHECK_DEADLOCK FALSE
