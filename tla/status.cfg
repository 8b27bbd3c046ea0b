CONSTANTS
  N = 3
  Uri <- ThreeUris
  Addr <- ThreeServers
  Symbolic = {}
  Bytes <- MCBytes
  Threshold = 2
  NprocToSaturate = 3
  Sax <- OddCollide
  Sdbm <- EvenCollide
  MaxDegree = 0
  WordBits = 32
  Sig = {1, 2}
  Health = {"ok"}
  Scripts <- JobPrograms
SPECIFICATION JobSpec
INVARIANT TypeOK
INVARIANT SameCollective
INVARIANT Agreement
INVARIANT UniqueRight
INVARIANT SignitureRight
INVARIANT UniqueImpliesConsistent
INVARIANT UniqueImpliesPoorly
INVARIANT NoFalseNo
INVARIANT FullyImpliesWell
INVARIANT EstimateDefined
INVARIANT NoNeedlessError
PROPERTY ImplementsSurvey
PROPERTY Terminates
