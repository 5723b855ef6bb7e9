CONSTANTS
  MaxKey = 2
  v1 = v1
  v2 = v2
  r1 = r1
  r2 = r2
  Value <- MCValue
  Tombstone = Tombstone
  BaseLevelTargetBytes = 4
  FileSize <- MCFileSize
  Reader = {}
  Batches <- Overwrites
  MaxMemtableSize = 1
  CompactionThreshold = 2
  MaxCalls = 2
  MaxSeq = 4
  MaxRestarts = 1
  Crashes = TRUE
  Faults = {"walClose", "flushPublish", "walRemove", "merge", "compactManifest", "compactPublish", "remove"}
  MaxFaults = 1
SPECIFICATION Spec
INVARIANTS RecoversWrites ReadsWrites NoDanglingTable UniqueTableIDs
CHECK_DEADLOCK FALSE
