CONSTANTS
  N = 2
  Uri <- TwoUris
  Addr <- TwoServers
  Symbolic = {}
  Bytes <- MCBytes
  Path <- TwoPaths
  Remote = {2}
  Speed <- Ascending
  Scal <- Ascending
  Room <- RoomValues
  Need <- NeedValues
  Word = 16
  Threshold = 1
  Sax <- Odd
  Sdbm <- Even
  MaxDegree = 0
  WordBits = 32
  File <- TwoFiles
  Above <- Nested
  NprocToSaturate = 2
  BaseSpeed = 1
  BaseScal = 1
  Criteria <- NothingAsked
SPECIFICATION Spec
INVARIANT GroupsKept
