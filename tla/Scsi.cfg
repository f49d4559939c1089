\* Free host, one disk of one block of two bytes.
SPECIFICATION Spec
CONSTANTS
  IDs = {0, 1}
  Present = {0}
  ReadOnly = {}
  BlockSize = 2
  LbaModulus = 65536
  Blocks <- MCBlocks
  InitialMedium <- MCMedium
  CDBs <- MCCdbs
  HostBytes <- MCHostBytes
  IcrWrites <- MCIcr
  ModeWrites <- MCMode
  TcrWrites <- MCTcr
INVARIANTS
  TypeOK
  BusOwnership
  TransferBounds
  CheckHasSense
PROPERTIES
  ImplementsTarget
