SPECIFICATION Spec
CONSTANTS
  MaxKey = 1
  x = x
  Value = {x}
  Tombstone = Tombstone
  MaxLevel = 2
  KeyLength <- MCKeyLength
  ValueLength <- MCValueLength
  HashPair <- MCHashPair
  HashCount = 3
  BitCount = 8
  WordSize = 16
  MaxPuts = 3
  MaxTables = 2
  Options <- MCOptions
  MaxReads = 2
  ReadSeq = {2}
  Getter = {g1}
  Scanner = {s1}
INVARIANTS
  TypeOK MemtableCorrect WrittenTablesOpen IterationCorrect LookupCorrect
  ReadersReadTheirTable CacheCoherent
PROPERTIES
  UsedBlockIsKept
CHECK_DEADLOCK FALSE
