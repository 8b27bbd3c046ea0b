CONSTANTS
  N = 2
  Uri <- TwoUris
  Addr <- OneServer
  Symbolic = {1}
  Bytes <- MCBytes
  Threshold = 1
  NprocToSaturate = 3
  Sax <- Odd
  Sdbm <- Even
  MaxDegree = 0
  WordBits = 32
  Sig = {1}
  Health = {"ok"}
  Scripts <- SignPrograms
SPECIFICATION Spec
INVARIANT SignitureRight
