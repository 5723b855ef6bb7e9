# A TLA+ verification of HyphaDB

HyphaDB is an embedded key-value store in Go, built as a log-structured merge
tree: writes go to a write-ahead log (WAL) and a memtable, full memtables are
flushed to SSTables by a goroutine, and a second goroutine merges SSTables into
three levels. A service with pages and a gRPC front end serve it to clients. This
directory models the system from the service down to the blocks of its files,
checks the models with TLC and proves the central facts with TLAPS.

## The system and what models it

| Part | Source | Module |
|---|---|---|
| records and reads by sequence | `internal/record`, `db.getAt` | `Records` |
| choice of tables to merge, retention of versions | `internal/compaction` | `Compaction` |
| what clients are promised | `hyphadb.go`, `README.md` | `KVStore` |
| memtables, levels and readers, each operation atomic | `internal/db` | `Leveling` |
| service, batches, merging iterator, scans | `service.go`, `grpc_service.go`, `db/iterator.go`, `db/batch.go` | `Service` |
| threads, locks, files, Open and Close, failing calls | `internal/db`, `internal/manifest` | `Engine` |
| frames of WAL segments, replay, sync, power loss | `internal/wal`, `db/batch.go` | `WAL` |
| the ordered list of a memtable | `internal/skiplist`, `internal/memtable` | `SkipList` |
| layout of table files, lookup, bloom filter | `internal/sstable`, `internal/bloom` | `SSTable` |
| cache of blocks | `internal/blockcache` | `BlockCache` |
| memtable to file to reader, through the cache | the three above, `compaction.go` | `TableReads` |

The modules are views of one system at different grain.

* `Engine` implements `Leveling` (`ImplementsLeveling`, model-checked), and
  `Leveling` implements `KVStore` (proved). `ImplementsKVStore` checks the
  composition of the two on `Engine`, in `engine_readers`.
* `Service` extends `Leveling`: scans and batches on top of a store whose
  flushes, merges and restarts are those of `Leveling`.
* `WAL` looks at segments frame by frame, where `Engine` takes a write to a
  segment as one step. `ReplayAtomic` is what allows that.
* `TableReads` composes `SkipList`, `SSTable` and `BlockCache` with the merge of
  `Compaction`. The other modules take a memtable or a table for a set of
  records; `MemtableCorrect`, `LookupCorrect` and `IterationCorrect` are what
  allows that.

**Records, Compaction.** Keys are ranks in the byte order, rank 0 being the empty
key, which `validateKey` accepts and which makes a table's bounds look absent
(`hasKeyRange`). `PickCompaction`, `overlapsCombinedRange`, `MergeSSTables` and
the rest keep their names. Sizes are natural numbers; the saturation of uint64
sums is left out.

**Leveling.** `ApplyBatch` (Put, Delete, Commit), `Flush`, `Compact`,
`NewSnapshot`, `NewSnapshotIterator`, `CloseReader`, `Reopen`. A flush takes
the records of memory up to some sequence, as rotation cuts them.

**Engine.** One step is what a thread does under `DB.mu`, or between two
acquisitions. `flush` and `comp` hold the positions of the flusher and of whoever
compacts. Files are functions from paths to record sets; `diskManifest` is the
file `MANIFEST`, replaced by a rename. `written` is a history variable, the map
the clients' writes add up to. `Faults` names the calls that may fail:

| Fault | Call |
|---|---|
| `rotate`, `walClose` | creating the new segment, closing the old one |
| `create`, `flushManifest`, `flushPublish`, `walRemove` | flush: the table, the manifest before its rename, the directory sync after it, removing the segment |
| `merge`, `compactManifest`, `compactPublish`, `remove` | the same for a merge, and removing its inputs |

Assumptions of `Engine`: a stop of the process keeps what was written to files
(power loss is in `WAL` only); `Compact` may be called while `Close` waits, but not
after `Close` has returned; the flush of a memtable that is still active after a
failed rotation reads it in one step, although the code would read a list that is
being changed.

**WAL.** A segment is a sequence of frames, the last of which may be torn.
`synced` says how many a power loss keeps; of the rest any prefix may survive,
possibly with a torn frame behind it, in every segment on its own. `Rotated`
closes the segment of a full memtable without a sync, as `rotateMemtable` does.
`FlushSegment` turns the oldest immutable memtable into a table and removes its
segment, in one step. A torn frame with others behind it is replayed as the end of
the file (`Open`) or refused (`OpenCorrupt`), depending on a length field that is
not modelled.

**Service.** `AddOperation` and `WriteBatch` build and commit a request within the
limits of a batch. An iterator is a set of sources, each the sequence of its
records to come; `advanceSource`, `resolveNextKey` and `Remaining` are
`advanceSource`, `resolveNextKey` and `Next`. A scan is a client that asks for
page after page (`OpenPage`, `ReadPage`), may have a call cancelled (`CancelPage`)
and keeps its token across a `Restart`; or a stream over a prefix
(`OpenPrefixScan`, `OpenSnapshotScan`, `CloseStream`). Reading an open iterator is
one step, since its sources no longer change. Prefixes are byte sequences, and
`Rank` turns them into bounds in key order.

**SkipList, SSTable, BlockCache.** Operators on values: a list with its pointers, a
file with its blocks, index, filter and footer, a cache with its order. Sizes and
offsets are in bytes as in the code, with the block contents kept as records.
The height of a node is a parameter. The bloom filter is a set of bit positions,
with the probe recurrence and its wrap-around.

**TableReads.** `Put` brings sequences in ascending order or, as a replay after a
failed sync of a batch does, goes back to one given out before (`NextSeqs`).
`Put`, `Flush` and `Compact` build tables, with `Compact` reading its
inputs through the cache and purging them. A lookup (`StartGet`) holds the read
lock until it returns, which excludes merges; an iterator (`OpenIterator`) does
not, and goes on after its table was removed. Tables are numbered without reuse,
which for `Engine` is the subject of `UniqueTableIDs`. Each block is one or two steps:
`CacheGet`, and `Fill` after a miss.

## Runs

| Run | Properties | Bounds |
|---|---|---|
| `service` | `TypeOK`, `LevelOrder`, `NonOverlappingRuns`, `VersionsUnique`, `IteratorReturnsSnapshot`, `PagesCoverRange`, `PrefixScanExact`, `WritesAllOrNothing` | 3 keys, one empty; a scan and a snapshot; pages of one entry; batches of up to 2 operations and 4 bytes; `nextSeq` up to 4 |
| `engine_threads` | `TypeOK`, `RecoversWrites`, `NoDanglingTable`, `UniqueTableIDs`, `TombstoneDropSafe`, `ImplementsLeveling` | batches of 0 to 2, memtable of 2, 1 clean restart, `nextSeq` up to 5 |
| `engine_readers` | `ReadersCounted`, `ImplementsKVStore`, `ImplementsLeveling` | 2 handles, one key, `nextSeq` up to 3 |
| `engine_liveness` | `EventuallyFlushed`, `CloseTerminates`, `EventuallyCompacted` | one fault, 1 clean restart, `nextSeq` up to 5 |
| `engine_crash` | `RecoversWrites`, `ReadsWrites`, `NoDanglingTable`, `UniqueTableIDs` | 2 stops or crashes |
| `engine_faults` | the same | 1 stop or crash, 1 fault |
| `wal` | `TypeOK`, `ReplayAtomic`, `AcknowledgedSurviveWholeFrames`, `SyncedSurvive` | memtable of 2, `nextSeq` up to 4, 1 stop or power loss, 1 failed write, short write or sync |
| `table_reads` | `TypeOK`, `MemtableCorrect`, `WrittenTablesOpen`, `IterationCorrect`, `LookupCorrect`, `ReadersReadTheirTable`, `CacheCoherent`, `UsedBlockIsKept` | 2 keys, 3 records, 2 levels, 2 tables, so that a merge has one input; one lookup and one iterator at a time, 2 reads; two choices of block size, filter and cache |

The bounds leave room for the cases in question. Four sequences with a memtable
of one record make four tables, which with thresholds of 1 or 2 pass through L1
into L2, where tombstones are dropped. Two restarts let files left by the first
meet those of the second; in `wal` one is enough, because its properties speak of
what a further restart would find. In `table_reads` three records make blocks of
one, two and three records, versions of a key on both sides of a block boundary
and of a restart point, blocks larger than the cache, and evictions; merges of several tables are left to
`service` and the engine runs. In `service`
the byte 1 stands for 0xff, so that one prefix has an end shorter than itself and
one has none. What the bounds exclude: larger batches, more than one fault, and
long histories. The proofs have no such bounds.

The passing runs leave out what is known to break their properties.
`engine_crash` uses a threshold of 2 and no calls of `Compact`, so that its
deletes stay above L2. `engine_faults` has no deletes and none of `rotate`,
`create` and `flushManifest`. The properties of `wal` name their exceptions:
`ReplayAtomic` a failed sync, `AcknowledgedSurviveWholeFrames` and `SyncedSurvive`
a short write. `PagesCoverRange` excepts a page that ends at the empty key. The
next section says why.

**Fairness.** Liveness assumes weak fairness of the flusher, of the compactor and
of the end of `Close`: goroutines are scheduled, and a goroutine waiting for
`DB.mu` gets it. Nothing is assumed of clients. `EventuallyFlushed` and
`EventuallyCompacted` hold up to the first failed call, since a failed flush is
retried only at the next rotation or at `Close`. `CloseTerminates` holds also
with failed rotations and flushes.

## Findings

Four runs show a disagreement between the code and what a comment or the
repository's README says of it.

* `engine_stale_segment`. `Open` replays all segments into one memtable, but the
  flush of it removes only the last segment. A merge into L2 then drops a
  tombstone while an old segment still holds the value it hides, and the next
  `Open` brings the value back. A segment kept after a failed directory sync
  (`db.go:839`) has the same effect.
* `engine_identifier_reuse`. A flush that fails sets `NextSSTableID` back although
  a compaction has meanwhile published a higher one (`db.go:792`). A later merge
  writes over one of its own inputs and removes it.
* `engine_lost_write`. `rotateMemtable` lists the memtable as immutable before it
  creates the new segment. If that fails, the flusher removes the segment still
  in use, and later acknowledged writes are in no file.
* `wal_short_write`. A short write leaves part of a frame, and writes
  acknowledged after it cannot be replayed.

Two more behaviours are known and have no run.

The page token of the empty key is the empty string, which `Scan` takes for no
token (`service.go:108`). A page that ends at the empty key while more entries
follow therefore looks like the last page, although `service.go:52` says
"PageToken resumes strictly after the key returned in the previous page."

When `Sync` fails after the commit
frame, the batch is reported as failed, but it is replayed at the next `Open`.
Its sequences are given out again, so a later write of one of its keys replaces
that record and not the others: with `"sync"` among the faults and a second value
for a key, `ReplayAtomic` does not hold. The batch was never acknowledged.

## Proofs

`CompactionProofs`, `LevelingProofs` and `EngineProofs` are checked by TLAPS for all
keys, values, batches, readers, thresholds and file sizes.

* `MergePreservesReads`: a merge changes no current read and no read of a
  registered reader, provided that, where it drops tombstones, what is left out
  is newer for each key. The argument takes the newest visible version of a key
  and follows it through `MergeSSTables`.
* `Invariance`: `IInv`, the conjunction of `TypeOK`, `VersionsUnique`,
  `LevelOrder` and `NonOverlappingRuns`, is inductive. None of the last three is
  inductive alone: `LevelOrder` after a merge of one L1 table needs that no other
  L1 table holds the key, which is `NonOverlappingRuns`; that new records are
  newer than stored ones is `VersionsUnique`.
* `TypeCorrect`, `LevelsOrdered`, `RunsDisjoint`, `VersionsIdentified` follow.
* `Refinement`: `Leveling` implements `KVStore`. A batch maps to a batch; a flush
  or a merge maps to a stutter, by `MergePreservesReads`; a restart closes the
  handles.

* `ReadersAlwaysCounted`: in `Engine`, `activeReaders` counts at each sequence exactly
  the open handles that read at it. The inductive invariant `ReaderInv` is needed
  because `ReadersCounted` alone does not say that finitely many handles are open
  or that `at` is a function on the handles; it equates `activeReaders` with the
  counts as a whole, so that it has no entry of count 0, which would make the
  oldest reader too old. Opening and closing a handle change one cardinality by
  one; a stop closes them all; the other actions leave the readers alone.

The assumptions are `RecordAssumption` and those on constants in `Compaction`,
`Leveling` and `Engine`. Only model-checked: the rest of `Engine`, `WAL`, `Service`
and `TableReads`. `UniqueTableIDs` and `NoDanglingTable` rest on what filtering the
table list does, and the correctness of lookups, replay and paging on folds and
recursive definitions; both need induction over sequences. Liveness is out of the
prover's reach as well.

## Not modelled

* `Compact` after `Close` has returned, when another process may own the
  directory. The code has no check for it; a model would restate that.
* An immutable memtable that is still written to after a failed rotation while an
  iterator reads it. `Service` takes rotation as successful, and `engine_lost_write`
  is about the failed one.
* Loading a table's metadata on first use, which is guarded by a lock of its own,
  and the reference count of a table, which nothing waits for: a removed file stays
  readable while it is open.
* A torn WAL file header: it is synced before the segment is used.
* Byte encodings, checksums, compression, format versions, the hash function and
  the sizing of the bloom filter: data conversions, covered by unit tests.
* Checks of the block reader that no file of the writer fails: blocks of the old
  format, bytes behind the last record of a block.
* Validation of options, mapping of errors to status codes, generated code and
  benchmarks.

`PROJECT.json` lists the components, the runs, the lines each definition models,
the hazards of the code and the properties that watch over them.
