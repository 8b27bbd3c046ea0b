CONSTANTS
  N = 3
  Uri <- TwoUris
  Addr <- TwoServers
  Symbolic = {}
  Bytes <- MCBytes
  Threshold = 1
  NprocToSaturate = 3
  Sax <- Odd
  Sdbm <- Even
  MaxDegree = 0
  WordBits = 32
  Sig = {1, 2}
  Health = {"ok", "lookup", "open"}
  Scripts <- FailurePrograms
SPECIFICATION Spec
INVARIANT NoFalseYes
INVARIANT StatErrorSeen
CHECK_DEADLOCK FALSE
