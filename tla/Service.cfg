CONSTANTS
  MaxKey = 2
  v1 = v1
  Value <- MCValue
  Tombstone = Tombstone
  Reader = {r1, scanner}
  Scanner = scanner
  Batches <- MCBatches
  Thresholds = {1, 2}
  MaxSeq = 4
  BaseLevelTargetBytes = 2
  FileSize <- MCFileSize
  Requests <- MCRequests
  MaxBatchOperations = 2
  MaxBatchBytes = 4
  OperationSize <- MCOperationSize
  KeyBytes <- MCKeyBytes
  KeyPrefixes <- MCPrefixes
  MaxByte = 1
SPECIFICATION ServiceSpec
INVARIANTS
  TypeOK LevelOrder NonOverlappingRuns VersionsUnique
  IteratorReturnsSnapshot PagesCoverRange PrefixScanExact
PROPERTIES
  WritesAllOrNothing
CHECK_DEADLOCK FALSE
