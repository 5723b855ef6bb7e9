CONSTANTS
  MaxKey = 2
  v1 = v1
  v2 = v2
  r1 = r1
  r2 = r2
  Value <- MCValue
  Tombstone = Tombstone
  BaseLevelTargetBytes = 4
  FileSize <- MCFileSize
  Reader = {}
  Batches <- WithBatches
  MaxMemtableSize = 2
  CompactionThreshold = 1
  MaxCalls = 2
  MaxSeq = 5
  MaxRestarts = 1
  Crashes = FALSE
  Faults = {}
  MaxFaults = 0
SPECIFICATION Spec
INVARIANTS TypeOK RecoversWrites NoDanglingTable UniqueTableIDs TombstoneDropSafe
PROPERTY ImplementsLeveling
CHECK_DEADLOCK FALSE
