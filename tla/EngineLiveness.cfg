CONSTANTS
  MaxKey = 2
  v1 = v1
  v2 = v2
  r1 = r1
  r2 = r2
  Value <- MCValue
  Tombstone = Tombstone
  BaseLevelTargetBytes = 4
  FileSize <- MCFileSize
  Reader = {}
  Batches <- OnePut
  MaxMemtableSize = 1
  CompactionThreshold = 1
  MaxCalls = 0
  MaxSeq = 5
  MaxRestarts = 1
  Crashes = FALSE
  Faults = {"rotate", "create", "flushManifest"}
  MaxFaults = 1
SPECIFICATION FairSpec
PROPERTIES EventuallyFlushed CloseTerminates EventuallyCompacted
CHECK_DEADLOCK FALSE
