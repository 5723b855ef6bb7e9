CONSTANTS
  MaxKey = 2
  v1 = v1
  v2 = v2
  r1 = r1
  r2 = r2
  Value <- MCValue
  Tombstone = Tombstone
  BaseLevelTargetBytes = 4
  FileSize <- MCFileSize
  Reader = {r1, r2}
  Batches <- OneKey
  MaxMemtableSize = 1
  CompactionThreshold = 1
  MaxCalls = 2
  MaxSeq = 3
  MaxRestarts = 0
  Crashes = FALSE
  Faults = {}
  MaxFaults = 0
SPECIFICATION Spec
INVARIANT ReadersCounted
PROPERTIES ImplementsKVStore ImplementsLeveling
CHECK_DEADLOCK FALSE
