CONSTANTS
  MaxKey = 2
  v1 = v1
  Value <- MCValue
  Tombstone = Tombstone
  Batches <- Writes
  MaxMemtableSize = 2
  MaxSeq = 4
  MaxRestarts = 1
  Faults = {"short"}
  MaxFaults = 1
SPECIFICATION Spec
INVARIANT AcknowledgedSurvive
CHECK_DEADLOCK FALSE
