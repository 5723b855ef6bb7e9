CONSTANTS
  MaxKey = 2
  v1 = v1
  Value <- MCValue
  Tombstone = Tombstone
  Batches <- Writes
  MaxMemtableSize = 2
  MaxSeq = 4
  MaxRestarts = 1
  Faults = {"write", "short", "sync"}
  MaxFaults = 1
SPECIFICATION Spec
INVARIANTS TypeOK ReplayAtomic AcknowledgedSurviveWholeFrames SyncedSurvive
CHECK_DEADLOCK FALSE
