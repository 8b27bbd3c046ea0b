CONSTANTS
  host = host
  BackEnd <- ThreeLeaves
  CommNode = {host}
  Parent <- MixedTree
  Script <- AllKinds
  MayFail = {}
  NoMemory <- BorWithoutMemory
  FilterBytes = 4
  Uri <- TwoUris
  Addr <- OneServer
  Symbolic = {1}
  Bytes <- MCBytes
SPECIFICATION TreeSpec
INVARIANT TypeOK
INVARIANT SameResult
INVARIANT GroupsRight
INVARIANT ProctableComplete
PROPERTY ImplementsCollectives
PROPERTY Terminates
