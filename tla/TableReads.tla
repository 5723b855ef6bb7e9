----------------------------- MODULE TableReads -----------------------------
(***************************************************************************)
(* From a memtable to a file and back: records are put into the skip list, *)
(* flushed to SSTables and merged, while lookups and iterators read the    *)
(* tables block by block through the shared cache.                         *)
(*                                                                         *)
(* A lookup runs under DB.mu.RLock and a merge under DB.mu.Lock, so they   *)
(* exclude each other.  An iterator holds its file open and no lock: it    *)
(* goes on reading after its table was removed and purged from the cache.  *)
(***************************************************************************)
EXTENDS SkipList, SSTable, BlockCache

CONSTANTS MaxPuts,     \* bound: records put into memtables
          MaxTables,   \* bound: tables written
          MaxReads,    \* bound: lookups and iterations
          ReadSeq,     \* bound: the sequences lookups are made at
          Options,     \* the write options and cache capacities a DB may have
          Getter,      \* goroutines that look keys up
          Scanner      \* goroutines that iterate

VARIABLES options, memtable, tables, live, cache, reader,
          puts,     \* history: the records put into the current memtable
          nputs,    \* history: how many were put at all
          nreads,   \* history: how many reads were started
          content   \* history: table -> the records it was written from

vars == <<options, memtable, tables, live, cache, reader, puts, nputs, nreads, content>>

NoSize(S) == 0
Merge == INSTANCE Compaction WITH BaseLevelTargetBytes <- 0, FileSize <- NoSize

Infinity == MaxPuts + 1
LastSeq == Max({0} \cup {r.seq : r \in puts} \cup {r.seq : r \in UNION Range(content)})
Reader == Getter \cup Scanner
Idle == [kind |-> "idle"]

Init ==
  /\ options \in Options
  /\ memtable = EmptyList /\ tables = <<>> /\ live = {}
  /\ cache = EmptyCache(options.cacheSize)
  /\ reader = [r \in Reader |-> Idle]
  /\ puts = {} /\ nputs = 0 /\ nreads = 0 /\ content = <<>>
-----------------------------------------------------------------------------
(* The memtable and the tables.                                            *)

\* The sequences the next record may have.  They ascend, except in a replay: the
\* batch whose sync had failed is followed by the writes that were given its
\* sequences again, from its first one on.
NextSeqs == Min({LastSeq + 1} \cup {r.seq : r \in puts})..(LastSeq + 1)

\* MemTable.Put
Put(rec, newLevel) ==
  /\ rec.seq \in NextSeqs
  /\ nputs' = nputs + 1
  /\ puts' = {r \in puts : Node(r) # Node(rec)} \cup {rec}
  /\ memtable' = SkipListPut(memtable, rec, newLevel)
  /\ UNCHANGED <<options, tables, live, cache, reader, nreads, content>>

\* A new table with the records of the iterator, unless they are out of order.
Create(recs, removed) ==
  /\ Len(tables) < MaxTables
  /\ \E f \in CreateFromIterator(recs, options) : tables' = Append(tables, f)
  /\ live' = (live \ removed) \cup {Len(tables) + 1}

\* CreateFromMemTable
Flush ==
  /\ memtable.keyCount > 0
  /\ Create(ListRecords(memtable), {})
  /\ content' = Append(content, puts)
  /\ memtable' = EmptyList /\ puts' = {}
  /\ UNCHANGED <<options, cache, reader, nputs, nreads>>

\* readLogicalBlock: what reading block i of table t leaves in the cache.
ReadBlock(c, t, i) ==
  LET key == <<t, tables[t].index[i].offset>>
  IN IF Cached(c, key) THEN Touched(c, key)
     ELSE Stored(c, key, tables[t].blocks[i], LogicalSize(tables[t].blocks[i]))

\* The blocks of the inputs in the order in which the merge reads them: the
\* first of each, and another when the last record of the one before is popped.
MergeReads(inputs) ==
  LET order(a, b) ==
        LET last(x) == Node(Last(tables[x[1]].blocks[x[2] - 1].recs))
        IN IF a[2] = 1 \/ b[2] = 1
           THEN a[2] = 1 /\ (b[2] = 1 => a[1] < b[1])
           ELSE less(last(a), last(b))
  IN SetToSortSeq({<<t, i>> \in inputs \X (1..MaxPuts) : i <= Len(tables[t].blocks)}, order)

Registered == {reader[r].maxSeq : r \in {r \in Reader : reader[r].kind = "iterator"}}

\* The files of the inputs are removed and their blocks dropped from the cache.
Purged(c, inputs) == FoldSet(LAMBDA t, d : PurgeTable(d, t), c, inputs)

\* MergeSSTables and the removal of its inputs.
Compact(inputs, dropTombstones) ==
  /\ \A r \in Reader : reader[r].kind # "get"
  /\ LET merged(f) == Merge!MergeSSTables(UNION {f[t] : t \in inputs}, Registered,
                                          dropTombstones)
         files == [t \in inputs |-> Range(IteratorReads(tables[t]))]
         read == FoldLeft(LAMBDA c, x : ReadBlock(c, x[1], x[2]), cache, MergeReads(inputs))
     IN /\ Create(SetToSortSeq(merged(files), LAMBDA a, b : less(Node(a), Node(b))), inputs)
        /\ content' = Append(content, merged(content))
        /\ cache' = Purged(read, inputs)
  /\ UNCHANGED <<options, memtable, reader, puts, nputs, nreads>>
-----------------------------------------------------------------------------
(* The readers.                                                            *)

Reading(r) == reader[r].kind # "idle" /\ ~reader[r].done

\* GetRecordAt up to its first block, under RLock from the start.
StartGet(r, t, key, maxSeq) ==
  LET none == RuledOut(tables[t], key)
  IN /\ reader[r] = Idle /\ nreads < MaxReads /\ nreads' = nreads + 1
     /\ reader' = [reader EXCEPT ![r] =
          [kind |-> "get", table |-> t, key |-> key, maxSeq |-> maxSeq, done |-> none,
           block |-> IF none THEN 0 ELSE firstPossibleBlock(tables[t].index, key),
           missed |-> FALSE, out |-> <<>>]]
     /\ UNCHANGED <<options, memtable, tables, live, cache, puts, nputs, content>>

\* SSTable.Iterator and Seek up to its first block.
OpenIterator(r, t, key) ==
  LET none == tables[t].index = <<>>
  IN /\ reader[r] = Idle /\ nreads < MaxReads /\ nreads' = nreads + 1
     /\ reader' = [reader EXCEPT ![r] =
          [kind |-> "iterator", table |-> t, key |-> key, maxSeq |-> LastSeq, done |-> none,
           block |-> IF none THEN 0 ELSE firstPossibleBlock(tables[t].index, key),
           missed |-> FALSE, out |-> <<>>]]
     /\ UNCHANGED <<options, memtable, tables, live, cache, puts, nputs, content>>

\* Variants: a lookup does not go on to the next block, or goes past the last.
EndsLookupAtOnce(look, last) == TRUE
EndsLookupPastEnd(look, last) == look.done

\* The block is decisive for a lookup, or the last.
EndsLookup(look, last) == look.done \/ last

\* What a reader makes of a block: the loop of GetRecordAt, or Next (after
\* Seek in the first block).
Consumed(rd, b) ==
  LET look == LookInBlock(b, rd.key, rd.maxSeq)
      last == rd.block = Len(tables[rd.table].blocks)
      first == rd.block = firstPossibleBlock(tables[rd.table].index, rd.key)
  IN IF rd.kind = "get"
     THEN [rd EXCEPT !.out = SetToSeq(look.found), !.done = EndsLookup(look, last),
                     !.block = @ + 1, !.missed = FALSE]
     ELSE [rd EXCEPT !.out = @ \o (IF first THEN SeekInBlock(b, rd.key)
                                   ELSE CursorReads(b, [offset |-> CountSize, index |-> 0])),
                     !.done = last, !.block = @ + 1, !.missed = FALSE]

CacheKey(r) == <<reader[r].table, tables[reader[r].table].index[reader[r].block].offset>>

\* The cache answers, or the reader has missed.
CacheGet(r) ==
  /\ Reading(r) /\ ~reader[r].missed
  /\ IF Cached(cache, CacheKey(r))
     THEN /\ reader' = [reader EXCEPT ![r] = Consumed(@, cache.entries[CacheKey(r)].block)]
          /\ cache' = Touched(cache, CacheKey(r))
     ELSE /\ reader' = [reader EXCEPT ![r].missed = TRUE]
          /\ UNCHANGED cache
  /\ UNCHANGED <<options, memtable, tables, live, puts, nputs, nreads, content>>

\* readLogicalBlockMiss: read the file and put the block into the cache.
Fill(r) ==
  LET rd == reader[r]
      b == tables[rd.table].blocks[rd.block]
  IN /\ Reading(r) /\ rd.missed
     /\ cache' = Stored(cache, CacheKey(r), b, LogicalSize(b))
     /\ reader' = [reader EXCEPT ![r] = Consumed(rd, b)]
     /\ UNCHANGED <<options, memtable, tables, live, puts, nputs, nreads, content>>

\* The lookup returns, or the iterator is closed.
Finish(r) ==
  /\ reader[r].kind # "idle" /\ reader[r].done
  /\ reader' = [reader EXCEPT ![r] = Idle]
  /\ UNCHANGED <<options, memtable, tables, live, cache, puts, nputs, nreads, content>>

Next ==
  \/ /\ nputs < MaxPuts
     /\ \E key \in Key, seq \in NextSeqs, val \in Value \cup {Tombstone},
          level \in 1..MaxLevel : Put([key |-> key, seq |-> seq, val |-> val], level)
  \/ Flush
  \/ \E inputs \in SUBSET live \ {{}}, drop \in BOOLEAN : Compact(inputs, drop)
  \/ \E r \in Getter, t \in live, key \in Key, s \in ReadSeq : StartGet(r, t, key, s)
  \/ \E r \in Scanner, t \in live, key \in Key : OpenIterator(r, t, key)
  \/ \E r \in Reader : CacheGet(r) \/ Fill(r) \/ Finish(r)

Spec == Init /\ [][Next]_vars
-----------------------------------------------------------------------------
(* Properties.                                                             *)

\* What does not concern the readers is checked where none is at work, which
\* every memtable and every table reaches.
Quiet == \A r \in Reader : reader[r] = Idle

\* The records of S that key and sequence s select, in table order.
Visible(S, key, s) == Newest({r \in S : r.key = key /\ r.seq <= s})
InOrder(S) == SetToSortSeq(S, LAMBDA a, b : less(Node(a), Node(b)))

\* Type invariant; a reader that is not done stands at a block of its table.
TypeOK ==
  /\ options \in Options
  /\ live \subseteq DOMAIN tables /\ Len(tables) = Len(content)
  /\ \A r \in Reader :
       /\ reader[r] # Idle => reader[r].table \in DOMAIN tables
       /\ Reading(r) => reader[r].block \in DOMAIN tables[reader[r].table].blocks
  /\ cache.capacity = options.cacheSize

\* Whatever heights SkipList.Put draws, every level stays a sorted sublist of
\* the one below, Len counts the distinct keys, the list holds the last record
\* put under each key and sequence in an order the table writer accepts, and
\* GetAt finds the newest one visible.
MemtableCorrect ==
  Quiet =>
    /\ WellLinked(memtable)
    /\ memtable.keyCount = Cardinality({r.key : r \in puts})
    /\ ListRecords(memtable) = InOrder(puts)
    /\ CreateFromIterator(ListRecords(memtable), options) # {}
    /\ \A key \in Key, s \in 0..MaxPuts :
         SkipListGetAt(memtable, key, s, Infinity) = Visible(puts, key, s)

\* readFooter and the block cursor accept every file the writer produced, the
\* index gives each block the place it was written to, and the bounds that go
\* to the manifest are those of the records.
WrittenTablesOpen ==
  Quiet => \A t \in DOMAIN tables :
    LET f == tables[t]
    IN /\ FooterAccepted(f)
       /\ Len(f.index) = Len(f.blocks)
       /\ \A i \in DOMAIN f.blocks :
            /\ CursorAccepted(f.blocks[i])
            /\ f.index[i].firstKey = Head(f.blocks[i].recs).key
            /\ f.index[i].offset + f.index[i].length
                 = IF i < Len(f.index) THEN f.index[i + 1].offset ELSE f.indexOffset
       /\ f.smallest = {Min({x.key : x \in content[t]}) : r \in content[t]}
       /\ f.largest = {Max({x.key : x \in content[t]}) : r \in content[t]}

\* A lookup at any sequence finds the newest visible version of its key, also
\* when the versions span restart points and blocks and when the filter is
\* consulted first (GetRecordAt).
LookupCorrect ==
  Quiet => \A t \in DOMAIN tables, key \in Key, s \in 0..MaxPuts :
    GetRecordAt(tables[t], key, s) = Visible(content[t], key, s)

\* An iterator that was positioned by Seek returns the records from the key on,
\* each once and in order, and an iterator that was not returns all of them.
IterationCorrect ==
  Quiet => \A t \in DOMAIN tables :
    /\ IteratorReads(tables[t]) = InOrder(content[t])
    /\ \A key \in Key :
         SeekReads(tables[t], key) = InOrder({r \in content[t] : r.key >= key})

\* Readers that share the cache with each other, with merges and with the
\* purge of removed tables return what their own table holds.
ReadersReadTheirTable ==
  \A r \in Reader :
    LET rd == reader[r]
    IN rd # Idle /\ rd.done =>
         rd.out = IF rd.kind = "get"
                  THEN SetToSeq(Visible(content[rd.table], rd.key, rd.maxSeq))
                  ELSE InOrder({x \in content[rd.table] : x.key >= rd.key})

\* The cache accounts for exactly the blocks it holds, stays within its
\* capacity, and holds each block under the table and offset it came from.
CacheCoherent ==
  /\ Accounted(cache)
  /\ \A k \in DOMAIN cache.entries :
       \E i \in DOMAIN tables[k[1]].blocks :
         /\ tables[k[1]].index[i].offset = k[2]
         /\ cache.entries[k] = [block |-> tables[k[1]].blocks[i],
                                size |-> LogicalSize(tables[k[1]].blocks[i])]

\* A block that fits is in the cache after the reader that missed has read it,
\* and a block used by the latest step is never the one evicted (Set, evictLocked).
UsedBlockIsKept ==
  [][\A r \in Reader :
       Reading(r) /\ reader'[r] # Idle /\ reader'[r].block # reader[r].block =>
         \/ CacheKey(r) \in DOMAIN cache'.entries
         \/ LogicalSize(tables[reader[r].table].blocks[reader[r].block]) > cache.capacity]_vars
=============================================================================
