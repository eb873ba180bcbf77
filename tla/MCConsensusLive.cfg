CONSTANTS
  n1 = n1
  n2 = n2
  n3 = n3
  x3 = x3
  None = None
  Node = {n1, n2, n3}
  Endpoint = {n1, n2, n3}
  Owner <- MCOwner
  Peers <- MCPeers
  GenesisValSet <- MCGenesis
  ActiveSets <- MCSteady
  SyncBatch = 1
  Crashable = {n3}
  MaxHeight = 3
  MaxCrashes = 1
  MaxErrors = 0
SPECIFICATION FairSpec
PROPERTIES
  SteadyNodesAdvance
