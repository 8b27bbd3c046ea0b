CONSTANTS
  N = 2
  Uri <- TwoUris
  Addr <- TwoServers
  Symbolic = {}
  Bytes <- MCBytes
  Path <- TwoPaths
  Remote = {2}
  Speed <- Ascending
  Scal <- Ascending
  Room <- RoomValues
  Need <- NeedValues
  Word = 16
  Threshold = 2
  Sax <- Odd
  Sdbm <- Even
  MaxDegree = 0
  WordBits = 32
  File <- TwoFiles
  Above <- Nested
  NprocToSaturate = 2
  BaseSpeed = 1
  BaseScal = 1
  Criteria <- Asked
SPECIFICATION JobSpec
INVARIANT TypeOK
INVARIANT Agreement
INVARIANT MatchedEverywhere
INVARIANT SpaceRight
INVARIANT NotWithheld
INVARIANT MeetsCriteria
INVARIANT AsyncAgreement
INVARIANT AsyncRight
PROPERTY Terminates
