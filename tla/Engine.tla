------------------------------- MODULE Engine -------------------------------
(***************************************************************************)
(* internal/db: the engine with its threads and its files.                 *)
(*                                                                         *)
(* Clients write, open and close readers, call Compact and Close; the      *)
(* flush goroutine and the compaction goroutine work in the background;    *)
(* the process may stop at any point and be opened again.  A step is what  *)
(* one of them does under DB.mu, or between two acquisitions of it.        *)
(* Compaction keeps DB.mu while it merges, publishes and cleans up; these  *)
(* are separate steps because the flusher writes its table without the     *)
(* lock, and because the process may stop between them.                    *)
(*                                                                         *)
(* A stop loses what is in memory and keeps what was written to files.     *)
(* I/O errors are injected: Faults names the calls that may fail, and      *)
(* MaxFaults bounds how often.                                             *)
(***************************************************************************)
EXTENDS Compaction, SequencesExt

CONSTANTS Reader,               \* snapshot and iterator handles
          Batches,              \* the batches clients commit
          MaxMemtableSize,      \* db.maxMemtableSize
          CompactionThreshold,  \* db.compactionThreshold
          MaxCalls,             \* bound on calls of Compact
          MaxSeq,               \* bound on allocated sequences
          MaxRestarts,          \* bound on stops of the process
          Crashes,              \* whether a stop may be a crash
          Faults,               \* the calls that may fail
          MaxFaults             \* bound on failed calls

Operation == [key: Key, val: Value \cup {Tombstone}]

FaultKind == {"rotate", "walClose",
              "create", "flushManifest", "flushPublish", "walRemove",
              "merge", "compactManifest", "compactPublish", "remove"}

ASSUME EngineAssumption ==
  /\ Batches \subseteq Seq(Operation)
  /\ MaxMemtableSize \in Nat \ {0} /\ CompactionThreshold \in Nat \ {0}
  /\ Crashes \in BOOLEAN
  /\ MaxCalls \in Nat /\ MaxSeq \in Nat /\ MaxRestarts \in Nat /\ MaxFaults \in Nat
  /\ Faults \subseteq FaultKind

VARIABLES
  status,            \* "down", "open", "closing" (db.closed is set)
  memtable,          \* records of db.memtable
  memTableSize,      \* db.memTableSize
  immutables,        \* db.immutableMemtables
  walID,             \* db.wal.ID
  nextSeq,           \* db.nextSeq
  tables,            \* db.manifest.SSTables, and db.sstables in lockstep
  nextSST,           \* db.manifest.NextSSTableID
  nextWAL,           \* db.manifest.NextWALSegmentID
  open, at,          \* the open handles and the sequences they read at
  activeReaders,     \* db.activeReaders, a bag of sequences
  flushSignal,       \* a signal waits in db.flushSignal
  compactionSignal,  \* a signal waits in db.compactionSignal
  flush,             \* the flush goroutine
  comp,              \* the holder of DB.mu that compacts
  walFiles,          \* wal-<id>.log: records and highest sequence named
  tableFiles,        \* data-<id>.sst and compact-<id>.sst
  diskManifest,      \* the MANIFEST file
  restarts,          \* stops of the process so far
  faults,            \* failed calls so far
  calls,             \* calls of Compact so far
  written            \* history: the map the clients' writes add up to

memVars == <<memtable, memTableSize, immutables, walID, nextSeq>>
manifestVars == <<tables, nextSST, nextWAL>>
readerVars == <<open, at, activeReaders>>
signals == <<flushSignal, compactionSignal>>
disk == <<walFiles, tableFiles, diskManifest>>
ghosts == <<restarts, faults, calls, written>>
vars == <<status, memVars, manifestVars, readerVars, signals, flush, comp,
          disk, ghosts>>
-----------------------------------------------------------------------------
(* Tables, files and the records they hold.                                *)

\* manifest.SSTableMetadata; kind and id make the path.
Metadata(kind, id, level, recs) ==
  [kind |-> kind, id |-> id, level |-> level, size |-> FileSize(recs),
   smallest |-> SmallestKey(recs), largest |-> LargestKey(recs)]

Path(t) == <<t.kind, t.id>>

Contents(t) ==
  IF Path(t) \in DOMAIN tableFiles THEN tableFiles[Path(t)] ELSE {}

Without(f, x) == Restrict(f, DOMAIN f \ {x})
With(f, x, v) == [y \in DOMAIN f \cup {x} |-> IF y = x THEN v ELSE f[y]]

\* After a failed rotation the last immutable memtables are db.memtable
\* itself, still written to (live).
RecordsOf(imm) == IF imm.live THEN memtable ELSE imm.recs

InMemory == memtable \cup UNION {RecordsOf(imm) : imm \in Range(immutables)}
InTables(ts) == UNION {Contents(t) : t \in Range(ts)}
\* Variant: only the last segment is replayed.
LastSegmentOnly ==
  UNION {walFiles[id].recs : id \in {i \in DOMAIN walFiles :
                                        \A j \in DOMAIN walFiles : j <= i}}

\* The records of all WAL segments.
InWAL == UNION {walFiles[id].recs : id \in DOMAIN walFiles}

Fails(kind) ==
  /\ kind \in Faults /\ faults < MaxFaults
  /\ faults' = faults + 1
  /\ UNCHANGED <<restarts, calls, written>>

\* DB.mu is not held by a compaction.
MuFree == comp.pc \in {"idle", "done"}

IdleFlush == [pc |-> "idle", id |-> 0, walID |-> 0, final |-> FALSE]
NoPlan == [target |-> L0, inputs |-> {}]
IdleComp == [pc |-> "idle", by |-> "loop", plan |-> NoPlan, id |-> 0,
             obsolete |-> {}, failed |-> FALSE]
-----------------------------------------------------------------------------
(* Starting and stopping.                                                  *)

\* An empty directory.
Init ==
  /\ status = "down"
  /\ memtable = {} /\ memTableSize = 0 /\ immutables = <<>> /\ walID = 0
  /\ nextSeq = 1 /\ tables = <<>> /\ nextSST = 0 /\ nextWAL = 0
  /\ open = {} /\ at = [r \in Reader |-> 0] /\ activeReaders = EmptyBag
  /\ flushSignal = FALSE /\ compactionSignal = FALSE
  /\ flush = IdleFlush /\ comp = IdleComp
  /\ walFiles = <<>> /\ tableFiles = <<>>
  /\ diskManifest = [tables |-> <<>>, nextSST |-> 0, nextWAL |-> 0]
  /\ restarts = 0 /\ faults = 0 /\ calls = 0
  /\ written = [k \in Key |-> {}]

\* manifest.Read never hands out the identifier of a listed table.
ensureSafeNextSSTableID(m) == Max({m.nextSST} \cup {t.id + 1 : t \in Range(m.tables)})

\* wal.NewSegmentInDir opens a segment and creates it when it is missing.
NewSegment(files, id) ==
  IF id \in DOMAIN files THEN files ELSE With(files, id, [recs |-> {}, max |-> 0])

\* Variant: sequences restart at the highest one instead of after it.
RecoveredSeqNotAdvanced ==
  Max({0} \cup {r.seq : r \in InTables(diskManifest.tables) \cup InWAL})

\* Variant: the sequences in the WAL are forgotten.
RecoveredSeqTablesOnly ==
  1 + Max({0} \cup {r.seq : r \in InTables(diskManifest.tables)})

\* The sequence after the highest one found in the tables, in the replayed
\* records and in the headers of replayed batches.
RecoveredSeq ==
  1 + Max({0} \cup {r.seq : r \in InTables(diskManifest.tables) \cup InWAL}
              \cup {walFiles[id].max : id \in DOMAIN walFiles})

\* Open replays every segment into one memtable and appends to the last one.
\* It fails when a listed table has no file.
Open ==
  /\ status = "down"
  /\ \A t \in Range(diskManifest.tables) : Path(t) \in DOMAIN tableFiles
  /\ status' = "open"
  /\ memtable' = InWAL
  /\ memTableSize' = Cardinality({r.key : r \in InWAL})
  /\ tables' = diskManifest.tables
  /\ nextSST' = ensureSafeNextSSTableID(diskManifest)
  /\ nextWAL' = Max({diskManifest.nextWAL} \cup DOMAIN walFiles)
  /\ walID' = nextWAL'
  /\ walFiles' = NewSegment(walFiles, nextWAL')
  /\ nextSeq' = RecoveredSeq
  /\ UNCHANGED <<immutables, readerVars, signals, flush, comp, tableFiles,
                 diskManifest, ghosts>>

\* Close sets db.closed and closes db.flushSignal, then waits for the flusher,
\* closes db.compactionSignal, waits for the compactor and releases the lock.
CloseBegin ==
  /\ status = "open" /\ MuFree /\ restarts < MaxRestarts
  /\ status' = "closing"
  /\ UNCHANGED <<memVars, manifestVars, readerVars, signals, flush, comp,
                 disk, ghosts>>

\* Stopping loses everything that is not in a file.
Stop ==
  /\ status' = "down"
  /\ memtable' = {} /\ memTableSize' = 0 /\ immutables' = <<>> /\ walID' = 0
  /\ nextSeq' = 1 /\ tables' = <<>> /\ nextSST' = 0 /\ nextWAL' = 0
  /\ open' = {} /\ at' = [r \in Reader |-> 0] /\ activeReaders' = EmptyBag
  /\ flushSignal' = FALSE /\ compactionSignal' = FALSE
  /\ flush' = IdleFlush /\ comp' = IdleComp
  /\ restarts' = restarts + 1
  /\ UNCHANGED <<disk, faults, calls, written>>

CloseEnd == flush.pc = "done" /\ comp.pc = "done" /\ Stop

\* The process is killed.
Crash == Crashes /\ status # "down" /\ restarts < MaxRestarts /\ Stop
-----------------------------------------------------------------------------
(* Writes.                                                                 *)

\* Variant: every operation of a batch carries the sequence of the batch.
BatchRecordsOneSeq(ops, seq) ==
  {[key |-> ops[i].key, seq |-> seq, val |-> ops[i].val] : i \in 1..Len(ops)}

\* Consecutive sequences for the operations of a batch; an empty batch still
\* consumes the sequence that names it.
BatchRecords(ops, seq) ==
  {[key |-> ops[i].key, seq |-> seq + i - 1, val |-> ops[i].val]
     : i \in 1..Len(ops)}
Consumed(ops) == IF Len(ops) = 0 THEN 1 ELSE Len(ops)

\* WriteRecord, WriteBatch.  A removed segment is written to in vain.
Append2WAL(ops) ==
  IF walID \in DOMAIN walFiles
  THEN [walFiles EXCEPT ![walID] =
          [recs |-> @.recs \cup BatchRecords(ops, nextSeq),
           max |-> nextSeq + Consumed(ops) - 1]]
  ELSE walFiles

\* What clients may expect to read after a batch: its last operation on a key
\* wins.
AfterBatch(ops) ==
  [k \in Key |->
     LET writes == {i \in 1..Len(ops) : ops[i].key = k}
     IN IF writes = {} THEN written[k]
        ELSE {ops[Max(writes)].val} \ {Tombstone}]

\* The common part of Put, Delete and applyBatch: log, apply, count.
Logged(ops) ==
  /\ status = "open" /\ MuFree
  /\ nextSeq + Consumed(ops) <= MaxSeq
  /\ nextSeq' = nextSeq + Consumed(ops)
  /\ written' = AfterBatch(ops)
  /\ UNCHANGED <<status, tables, nextSST, readerVars, compactionSignal, flush,
                 comp, tableFiles, diskManifest, restarts, calls>>

Applied(ops) == memtable \cup BatchRecords(ops, nextSeq)
Full(ops) == memTableSize + Len(ops) >= MaxMemtableSize

Write(ops) ==
  /\ Logged(ops) /\ ~Full(ops)
  /\ walFiles' = Append2WAL(ops)
  /\ memtable' = Applied(ops)
  /\ memTableSize' = memTableSize + Len(ops)
  /\ UNCHANGED <<immutables, walID, nextWAL, flushSignal, faults>>

\* rotateMemtable: the full memtable joins the immutable ones, a new segment
\* and a new memtable take its place.  When closing the old segment fails the
\* flusher is not signalled.
WriteAndRotate(ops) ==
  /\ Logged(ops) /\ Full(ops)
  /\ immutables' = Append([i \in DOMAIN immutables |->
                             [walID |-> immutables[i].walID, live |-> FALSE,
                              recs |-> IF immutables[i].live THEN Applied(ops)
                                       ELSE immutables[i].recs]],
                          [walID |-> walID, live |-> FALSE, recs |-> Applied(ops)])
  /\ nextWAL' = nextWAL + 1
  /\ walID' = nextWAL + 1
  /\ walFiles' = NewSegment(Append2WAL(ops), nextWAL + 1)
  /\ memtable' = {}
  /\ memTableSize' = 0
  /\ \/ flushSignal' = TRUE /\ UNCHANGED faults
     \/ /\ "walClose" \in Faults /\ faults < MaxFaults
        /\ faults' = faults + 1
        /\ UNCHANGED flushSignal

\* rotateMemtable when the new segment cannot be created: the memtable is
\* already listed as immutable, and stays the active one.
WriteRotationFails(ops) ==
  /\ Logged(ops) /\ Full(ops)
  /\ "rotate" \in Faults /\ faults < MaxFaults
  /\ faults' = faults + 1
  /\ immutables' = Append(immutables, [walID |-> walID, live |-> TRUE, recs |-> {}])
  /\ nextWAL' = nextWAL + 1
  /\ walFiles' \in {Append2WAL(ops), NewSegment(Append2WAL(ops), nextWAL + 1)}
  /\ memtable' = Applied(ops)
  /\ memTableSize' = memTableSize + Len(ops)
  /\ UNCHANGED <<walID, flushSignal>>
-----------------------------------------------------------------------------
(* The flush goroutine.                                                    *)

FlushUnchanged ==
  UNCHANGED <<status, memtable, memTableSize, walID, nextSeq, nextWAL,
              readerVars, comp>>

\* flushUntilEmpty returns: wait for the next signal, or, on the last round,
\* signal the compactor and end.
FlushReturns ==
  IF flush.final
  THEN flush' = [IdleFlush EXCEPT !.pc = "done"] /\ compactionSignal' = TRUE
  ELSE flush' = IdleFlush /\ UNCHANGED compactionSignal

\* Variant: the closed channel does not wake the flusher.
FlushReceiveSignalOnly ==
  /\ status # "down" /\ flush.pc = "idle"
  /\ flushSignal
  /\ flushSignal' = FALSE
  /\ flush' = [flush EXCEPT !.pc = "loop"]
  /\ FlushUnchanged
  /\ UNCHANGED <<immutables, tables, nextSST, compactionSignal, disk, ghosts>>

\* for range db.flushSignal: a signal sent before Close is still received.
FlushReceive ==
  /\ status # "down" /\ flush.pc = "idle"
  /\ flushSignal \/ status = "closing"
  /\ flushSignal' = FALSE
  /\ flush' = [flush EXCEPT !.pc = "loop", !.final = ~flushSignal]
  /\ FlushUnchanged
  /\ UNCHANGED <<immutables, tables, nextSST, compactionSignal, disk, ghosts>>

FlushEmpty ==
  /\ flush.pc = "loop" /\ MuFree /\ immutables = <<>>
  /\ FlushReturns
  /\ FlushUnchanged
  /\ UNCHANGED <<immutables, tables, nextSST, flushSignal, disk, ghosts>>

\* Variant: the identifier is read and not consumed.
FlushAllocateNoIncrement ==
  /\ flush.pc = "loop" /\ MuFree /\ immutables # <<>>
  /\ flush' = [flush EXCEPT !.pc = "create", !.id = nextSST,
                            !.walID = Head(immutables).walID]
  /\ FlushUnchanged
  /\ UNCHANGED <<immutables, tables, nextSST, signals, disk, ghosts>>

\* Take the oldest immutable memtable and allocate an identifier.
FlushAllocate ==
  /\ flush.pc = "loop" /\ MuFree /\ immutables # <<>>
  /\ flush' = [flush EXCEPT !.pc = "create", !.id = nextSST,
                            !.walID = Head(immutables).walID]
  /\ nextSST' = nextSST + 1
  /\ FlushUnchanged
  /\ UNCHANGED <<immutables, tables, signals, disk, ghosts>>

\* Without DB.mu: write data-<id>.sst to a temporary file and rename it.
WithFlushed ==
  With(tableFiles, <<"data", flush.id>>, RecordsOf(Head(immutables)))

FlushCreate ==
  /\ flush.pc = "create"
  /\ tableFiles' = WithFlushed
  /\ flush' = [flush EXCEPT !.pc = "publish"]
  /\ FlushUnchanged
  /\ UNCHANGED <<immutables, tables, nextSST, signals, walFiles, diskManifest, ghosts>>

\* Give the identifier back; the file stays when only the directory sync
\* after the rename has failed.
FlushCreateFails ==
  /\ flush.pc = "create" /\ MuFree
  /\ Fails("create")
  /\ nextSST' = flush.id
  /\ tableFiles' \in {tableFiles, WithFlushed}
  /\ FlushReturns
  /\ FlushUnchanged
  /\ UNCHANGED <<immutables, tables, flushSignal, walFiles, diskManifest>>

FlushedTable ==
  Metadata("data", flush.id, L0, tableFiles[<<"data", flush.id>>])

\* Publish the table in the manifest and drop the memtable.
FlushPublish ==
  /\ flush.pc = "publish" /\ MuFree
  /\ tables' = Append(tables, FlushedTable)
  /\ diskManifest' = [tables |-> tables', nextSST |-> nextSST, nextWAL |-> nextWAL]
  /\ immutables' = Tail(immutables)
  /\ \/ flush' = [flush EXCEPT !.pc = "remove"] /\ UNCHANGED <<compactionSignal, ghosts>>
     \/ Fails("flushPublish") /\ FlushReturns  \* PublishError: keep the segment
  /\ FlushUnchanged
  /\ UNCHANGED <<nextSST, flushSignal, walFiles, tableFiles>>

\* The manifest cannot be written: restore it and try to remove the
\* table.
FlushPublishFails ==
  /\ flush.pc = "publish" /\ MuFree
  /\ Fails("flushManifest")
  /\ nextSST' = flush.id
  /\ tableFiles' \in {tableFiles, Without(tableFiles, <<"data", flush.id>>)}
  /\ FlushReturns
  /\ FlushUnchanged
  /\ UNCHANGED <<immutables, tables, flushSignal, walFiles, diskManifest>>

\* Variant: the active segment is removed.
FlushRemoveActiveSegment ==
  /\ flush.pc = "remove"
  /\ walFiles' = Without(walFiles, walID)
  /\ flush' = [IdleFlush EXCEPT !.pc = "loop", !.final = flush.final]
  /\ compactionSignal' = TRUE
  /\ FlushUnchanged
  /\ UNCHANGED <<immutables, tables, nextSST, flushSignal, tableFiles,
                 diskManifest, ghosts>>

\* Variant: one memtable is flushed per signal.
FlushOnePerSignal ==
  /\ flush.pc = "remove"
  /\ walFiles' = Without(walFiles, flush.walID)
  /\ FlushReturns
  /\ FlushUnchanged
  /\ UNCHANGED <<immutables, tables, nextSST, flushSignal, tableFiles,
                 diskManifest, ghosts>>

\* Without DB.mu: the flushed records are no longer needed in the WAL.
FlushRemoveSegment ==
  /\ flush.pc = "remove"
  /\ \/ /\ walFiles' = Without(walFiles, flush.walID)
        /\ flush' = [IdleFlush EXCEPT !.pc = "loop", !.final = flush.final]
        /\ compactionSignal' = TRUE
        /\ UNCHANGED ghosts
     \/ /\ Fails("walRemove")
        /\ walFiles' \in {walFiles, Without(walFiles, flush.walID)}
        /\ FlushReturns
  /\ FlushUnchanged
  /\ UNCHANGED <<immutables, tables, nextSST, flushSignal, tableFiles, diskManifest>>
-----------------------------------------------------------------------------
(* Compaction, in its goroutine ("loop") and in Compact ("call").          *)

CompUnchanged ==
  UNCHANGED <<status, memVars, nextWAL, readerVars, flushSignal, flush, walFiles>>

Threshold == IF comp.by = "call" THEN 1 ELSE CompactionThreshold

CompactReceive ==
  /\ status # "down" /\ comp.pc = "idle" /\ compactionSignal
  /\ compactionSignal' = FALSE
  /\ comp' = [IdleComp EXCEPT !.pc = "check"]
  /\ CompUnchanged
  /\ UNCHANGED <<tables, nextSST, tableFiles, diskManifest, ghosts>>

\* The goroutine ends once Close has closed db.compactionSignal.
CompactLoopEnds ==
  /\ flush.pc = "done" /\ comp.pc = "idle" /\ ~compactionSignal
  /\ comp' = [IdleComp EXCEPT !.pc = "done"]
  /\ CompUnchanged
  /\ UNCHANGED <<tables, nextSST, compactionSignal, tableFiles, diskManifest, ghosts>>

\* DB.Compact does not look at db.closed: it also runs while Close waits.
CompactCall ==
  /\ status # "down" /\ comp.pc = "idle"
  /\ calls < MaxCalls
  /\ calls' = calls + 1
  /\ comp' = [IdleComp EXCEPT !.pc = "check", !.by = "call"]
  /\ CompUnchanged
  /\ UNCHANGED <<tables, nextSST, compactionSignal, tableFiles, diskManifest,
                 restarts, faults, written>>

CompactNothing ==
  /\ comp.pc = "check" /\ ~hasCompactionWork(Range(tables), Threshold)
  /\ comp' = IdleComp
  /\ CompUnchanged
  /\ UNCHANGED <<tables, nextSST, compactionSignal, tableFiles, diskManifest, ghosts>>

\* An input is the first table in db.sstables with the identifier.
TableByID(id) == tables[Min({i \in DOMAIN tables : tables[i].id = id})]
InputTables(plan) == {TableByID(t.id) : t \in plan.inputs}

Openable(plan) == \A t \in InputTables(plan) : Path(t) \in DOMAIN tableFiles

WithMerged(plan) ==
  With(tableFiles, <<"compact", nextSST>>,
       MergeSSTables(UNION {Contents(t) : t \in InputTables(plan)},
                     BagToSet(activeReaders),
                     plan.target = HighestSupportedLevel))

\* compactLocked up to the merged file compact-<id>.sst.
CompactMerge ==
  /\ comp.pc = "check"
  /\ \E plan \in Plans(Range(tables), Threshold) :
       /\ Openable(plan)
       /\ tableFiles' = WithMerged(plan)
       /\ comp' = [comp EXCEPT !.pc = "publish", !.plan = plan, !.id = nextSST]
  /\ CompUnchanged
  /\ UNCHANGED <<tables, nextSST, compactionSignal, diskManifest, ghosts>>

\* The output cannot be written, or its directory entry cannot be synced.
CompactMergeFails ==
  /\ comp.pc = "check"
  /\ \E plan \in Plans(Range(tables), Threshold) :
       /\ Openable(plan)
       /\ Fails("merge")
       /\ tableFiles' \in {tableFiles, WithMerged(plan)}
  /\ comp' = IdleComp
  /\ CompUnchanged
  /\ UNCHANGED <<tables, nextSST, compactionSignal, diskManifest>>

\* An input has lost its file.
CompactInputMissing ==
  /\ comp.pc = "check"
  /\ \E plan \in Plans(Range(tables), Threshold) : ~Openable(plan)
  /\ comp' = IdleComp
  /\ CompUnchanged
  /\ UNCHANGED <<tables, nextSST, compactionSignal, tableFiles, diskManifest, ghosts>>

Selected(t) == t.id \in {u.id : u \in comp.plan.inputs}

\* Variant: the inputs stay listed.
ReplaceSelectedKeepsInputs(ts, merged) == Append(ts, merged)

\* The merged table takes the place of the first selected one.
ReplaceSelected(ts, merged) ==
  LET first == Min({i \in DOMAIN ts : Selected(ts[i])})
      kept(s) == SelectSeq(s, LAMBDA t : ~Selected(t))
  IN kept(SubSeq(ts, 1, first)) \o <<merged>> \o kept(SubSeq(ts, first, Len(ts)))

\* Publish the new manifest; after a PublishError the old files are kept.
CompactPublish ==
  /\ comp.pc = "publish"
  /\ tables' = ReplaceSelected(tables,
                 Metadata("compact", comp.id, comp.plan.target,
                          tableFiles[<<"compact", comp.id>>]))
  /\ nextSST' = nextSST + 1
  /\ diskManifest' = [tables |-> tables', nextSST |-> nextSST', nextWAL |-> nextWAL]
  /\ \/ /\ comp' = [comp EXCEPT !.pc = "clean", !.plan = NoPlan,
                       !.obsolete = {Path(t) : t \in {u \in Range(tables) : Selected(u)}}]
        /\ UNCHANGED ghosts
     \/ Fails("compactPublish") /\ comp' = IdleComp
  /\ CompUnchanged
  /\ UNCHANGED <<compactionSignal, tableFiles>>

\* Variant: the inputs are removed although the merge was not published.
CompactPublishFailsRemovesInputs ==
  /\ comp.pc = "publish"
  /\ Fails("compactManifest")
  /\ tableFiles' = Restrict(tableFiles, DOMAIN tableFiles \
                       {Path(t) : t \in {u \in Range(tables) : Selected(u)}})
  /\ comp' = IdleComp
  /\ CompUnchanged
  /\ UNCHANGED <<tables, nextSST, compactionSignal, diskManifest>>

\* The manifest cannot be written: restore it and try to remove the
\* merged file.
CompactPublishFails ==
  /\ comp.pc = "publish"
  /\ Fails("compactManifest")
  /\ tableFiles' \in {tableFiles, Without(tableFiles, <<"compact", comp.id>>)}
  /\ comp' = IdleComp
  /\ CompUnchanged
  /\ UNCHANGED <<tables, nextSST, compactionSignal, diskManifest>>

\* Remove the merged files one by one; a file that stays makes the goroutine
\* leave its loop.  A directory sync that fails after the removals does the
\* same and is not told apart.
CompactRemove ==
  /\ comp.pc = "clean"
  /\ \E path \in comp.obsolete :
       \/ /\ tableFiles' = Without(tableFiles, path)
          /\ comp' = [comp EXCEPT !.obsolete = @ \ {path}]
          /\ UNCHANGED ghosts
       \/ /\ Fails("remove")
          /\ comp' = [comp EXCEPT !.obsolete = @ \ {path}, !.failed = TRUE]
          /\ UNCHANGED tableFiles
  /\ CompUnchanged
  /\ UNCHANGED <<tables, nextSST, compactionSignal, diskManifest>>

CompactReturns ==
  /\ comp.pc = "clean" /\ comp.obsolete = {}
  /\ comp' = IF comp.by = "loop" /\ ~comp.failed
             THEN [IdleComp EXCEPT !.pc = "check"] ELSE IdleComp
  /\ CompUnchanged
  /\ UNCHANGED <<tables, nextSST, compactionSignal, tableFiles, diskManifest, ghosts>>
-----------------------------------------------------------------------------
(* Readers.                                                                *)

ReaderUnchanged ==
  UNCHANGED <<status, memVars, manifestVars, signals, flush, comp, disk, ghosts>>

\* Variant: the reader is not registered.
RegisterNothing(r, seq) ==
  /\ r \notin open
  /\ open' = open \cup {r}
  /\ at' = [at EXCEPT ![r] = seq]
  /\ UNCHANGED activeReaders

\* registerReaderLocked
Register(r, seq) ==
  /\ r \notin open
  /\ open' = open \cup {r}
  /\ at' = [at EXCEPT ![r] = seq]
  /\ activeReaders' = activeReaders (+) SetToBag({seq})

\* DB.NewSnapshot and DB.NewIterator read at currentSequenceLocked.
NewSnapshot(r) ==
  /\ status = "open" /\ MuFree
  /\ Register(r, nextSeq - 1)
  /\ ReaderUnchanged

\* Snapshot.NewIterator
NewSnapshotIterator(r, from) ==
  /\ status = "open" /\ MuFree /\ from \in open
  /\ Register(r, at[from])
  /\ ReaderUnchanged

\* Variant: closing one reader unregisters its sequence altogether.
CloseReaderNoCount(r) ==
  /\ MuFree /\ r \in open
  /\ open' = open \ {r}
  /\ at' = [at EXCEPT ![r] = 0]
  /\ activeReaders' = Without(activeReaders, at[r])
  /\ ReaderUnchanged

\* Snapshot.Close and Iterator.Close, also while the database closes.
CloseReader(r) ==
  /\ MuFree /\ r \in open
  /\ open' = open \ {r}
  /\ at' = [at EXCEPT ![r] = 0]
  /\ activeReaders' = activeReaders (-) SetToBag({at[r]})
  /\ ReaderUnchanged
-----------------------------------------------------------------------------
Flusher ==
  \/ FlushReceive \/ FlushEmpty \/ FlushAllocate
  \/ FlushCreate \/ FlushCreateFails
  \/ FlushPublish \/ FlushPublishFails
  \/ FlushRemoveSegment

Compactor ==
  \/ CompactReceive \/ CompactLoopEnds \/ CompactNothing
  \/ CompactMerge \/ CompactMergeFails \/ CompactInputMissing
  \/ CompactPublish \/ CompactPublishFails
  \/ CompactRemove \/ CompactReturns

Next ==
  \/ Open \/ CloseBegin \/ CloseEnd \/ Crash
  \/ \E ops \in Batches :
       Write(ops) \/ WriteAndRotate(ops) \/ WriteRotationFails(ops)
  \/ Flusher
  \/ Compactor \/ CompactCall
  \/ \E r \in Reader : NewSnapshot(r) \/ CloseReader(r)
  \/ \E r, from \in Reader : NewSnapshotIterator(r, from)

Spec == Init /\ [][Next]_vars

\* The goroutines run as long as the process does, a client blocked on DB.mu
\* gets it, and Close, once begun, is carried through.
FairSpec ==
  /\ Spec
  /\ WF_vars(Flusher) /\ WF_vars(Compactor)
  /\ WF_vars(CloseEnd)
-----------------------------------------------------------------------------
(* Correctness.                                                            *)

\* Types of the fields of DB, of the goroutines' positions and of the files; a
\* sequence given out by Open or by a write is never 0.
TypeOK ==
  /\ status \in {"down", "open", "closing"}
  /\ memtable \subseteq Record /\ memTableSize \in Nat
  /\ \A imm \in Range(immutables) :
       imm.walID \in Nat /\ imm.live \in BOOLEAN /\ imm.recs \subseteq Record
  /\ walID \in Nat /\ nextSeq \in Nat \ {0} /\ nextSST \in Nat /\ nextWAL \in Nat
  /\ \A t \in Range(tables) \cup Range(diskManifest.tables) :
       t.kind \in {"data", "compact"} /\ t.id \in Nat /\ t.level \in Level
  /\ open \subseteq Reader /\ at \in [Reader -> Nat] /\ IsABag(activeReaders)
  /\ flushSignal \in BOOLEAN /\ compactionSignal \in BOOLEAN
  /\ flush.pc \in {"idle", "loop", "create", "publish", "remove", "done"}
  /\ comp.pc \in {"idle", "check", "publish", "clean", "done"}
  /\ \A id \in DOMAIN walFiles : walFiles[id].recs \subseteq Record
  /\ \A path \in DOMAIN tableFiles : tableFiles[path] \subseteq Record
  /\ written \in [Key -> SUBSET Value]

\* What a process that is running, or one opened from the files as they are
\* now, finds for a key.
Read(k) == Get(InMemory \cup InTables(tables), k)
Recovered(k) == Get(InWAL \cup InTables(diskManifest.tables), k)

\* "Writes are appended to the WAL before being applied" (README.md): whatever
\* the flusher and the compactor are in the middle of, a process that stops
\* now is opened again with exactly the writes of its clients.
RecoversWrites == \A k \in Key : Recovered(k) = written[k]

\* A running database answers Get with the last write, whatever was rotated,
\* flushed, merged or recovered in the meantime (getAt).
ReadsWrites == status # "down" => \A k \in Key : Read(k) = written[k]

\* Every table in the manifest, in memory or on disk, has its file: a merge
\* publishes before it removes its inputs, a flush creates before it publishes
\* (flushImmutableMemtable, compactLocked).
NoDanglingTable ==
  \A t \in Range(tables) \cup Range(diskManifest.tables) :
    Path(t) \in DOMAIN tableFiles

\* compactLocked finds tables, and Remove and PurgeTable address them, by
\* identifier: no two tables share one, and none is handed out again.
UniqueTableIDs ==
  /\ \A i, j \in DOMAIN tables : tables[i].id = tables[j].id => i = j
  /\ \A i \in DOMAIN tables : tables[i].id < nextSST

\* "A tombstone may only be dropped when all older versions of its key are
\* known to be included in the merge" (MergeOptions): once the merged file is
\* written, no version older than a tombstone that it lost is left in memory,
\* in a WAL segment or in a table outside the merge, unless the tombstone is
\* there too.
TombstoneDropSafe ==
  comp.pc = "publish" =>
    LET inputs == UNION {Contents(t) : t \in InputTables(comp.plan)}
        lost == {r \in inputs \ tableFiles[<<"compact", comp.id>>] :
                   r.val = Tombstone /\ newestOf(r, inputs)}
        others == InMemory \cup InWAL
                    \cup InTables(SelectSeq(tables, LAMBDA t : ~Selected(t)))
    IN \A d \in lost \ others, r \in others : r.key = d.key => d.seq <= r.seq

\* db.activeReaders counts exactly the open handles, so that no merge drops a
\* version one of them needs and none is retained for a closed one.
ReadersCounted ==
  /\ BagToSet(activeReaders) = {at[r] : r \in open}
  /\ \A s \in BagToSet(activeReaders) :
       activeReaders[s] = Cardinality({r \in open : at[r] = s})

\* Seen through DB.mu, and as long as the process is only ever stopped by
\* Close, the engine is the leveled store of Leveling.tla.
LV == INSTANCE Leveling WITH
        Thresholds <- {1, CompactionThreshold},
        mem <- IF status = "down" THEN InWAL ELSE InMemory,
        tables <- {[level |-> t.level, recs |-> Contents(t), size |-> t.size,
                    smallest |-> t.smallest, largest |-> t.largest]
                     : t \in Range(IF status = "down" THEN diskManifest.tables
                                   ELSE tables)},
        nextSeq <- IF status = "down" THEN RecoveredSeq ELSE nextSeq

ImplementsLeveling == LV!Spec

\* To its clients the engine is the map of KVStore.tla: whatever its threads
\* have got to, a read, of the store or of an open snapshot or iterator, is
\* that of a map to which whole batches were applied in order.
KV == INSTANCE KVStore WITH
        store <- [k \in Key |-> Get(LV!Stored, k)],
        view <- [r \in Reader |-> [k \in Key |->
                   IF r \in open THEN GetAt(LV!Stored, k, at[r]) ELSE {}]]

ImplementsKVStore == KV!Spec

\* A rotated memtable is eventually flushed, as long as no call fails: no
\* wakeup of the flusher is lost, though signalFlush drops a signal when one is
\* waiting (flushLoop).
EventuallyFlushed == immutables # <<>> ~> immutables = <<>> \/ faults > 0

\* Close waits for the flusher and the compactor, and they end, whatever calls
\* fail: neither waits for the other, and the compactor's loop runs out of work
\* or leaves on an error (Close).
CloseTerminates == status = "closing" ~> status = "down"

\* A level over its limit is eventually compacted, as long as no call fails:
\* the signal is sent after the table is published (flushImmutableMemtable).
EventuallyCompacted ==
  status = "open" /\ hasCompactionWork(Range(tables), CompactionThreshold)
    ~> ~hasCompactionWork(Range(tables), CompactionThreshold) \/ faults > 0
=============================================================================
