\* Two disks and an absent target, sequences of two jobs, a restart at any
\* step of them.
SPECIFICATION HostSpec
CONSTANTS
  IDs = {0, 1, 2}
  Present = {0, 1}
  ReadOnly = {1}
  BlockSize = 2
  LbaModulus = 65536
  Blocks <- MCBlocks
  InitialMedium <- MCMedium
  CDBs <- MCCdbs
  HostBytes = {1}
  IcrWrites = {}
  ModeWrites = {}
  TcrWrites = {}
  Jobs <- MCJobs
  DataBytes = {7, 8}
  MaxJobs = 2
  MaxRestarts = 1
INVARIANTS
  ReadDelivers
  WriteStores
  CleanHandover
  AnswersIfPresent
PROPERTIES
  CommandsComplete
\* After MaxJobs jobs the host stops.
CHECK_DEADLOCK FALSE
