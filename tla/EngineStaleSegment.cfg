CONSTANTS
  MaxKey = 2
  v1 = v1
  v2 = v2
  r1 = r1
  r2 = r2
  Value <- MCValue
  Tombstone = Tombstone
  BaseLevelTargetBytes = 4
  FileSize <- MCFileSize
  Reader = {}
  Batches <- OneKey
  MaxMemtableSize = 1
  CompactionThreshold = 2
  MaxCalls = 2
  MaxSeq = 4
  MaxRestarts = 1
  Crashes = TRUE
  Faults = {}
  MaxFaults = 0
SPECIFICATION Spec
INVARIANT TombstoneDropSafe
CHECK_DEADLOCK FALSE
