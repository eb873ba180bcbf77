CONSTANTS
  n1 = n1
  n2 = n2
  n3 = n3
  x3 = x3
  None = None
  Node = {n1, n2, n3}
  Endpoint = {n1, n2, n3, x3}
  Owner <- MCOwnerTwice
  Peers <- MCPeersTwice
  GenesisValSet <- MCGenesis
  ActiveSets <- MCShifting
  SyncBatch = 2
  Crashable = {n1, n2, n3}
  MaxHeight = 2
  MaxCrashes = 1
  MaxErrors = 1
SPECIFICATION Spec
INVARIANTS
  TypeOK
  Agreement
  StoresFit
  CertificatesProve
PROPERTIES
  BlocksAreFinal
