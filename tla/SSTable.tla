------------------------------ MODULE SSTable ------------------------------
(***************************************************************************)
(* internal/sstable and internal/bloom: how the writer lays records out in *)
(* blocks, an index, a filter and a footer, and how lookups and iterators  *)
(* find them again.                                                        *)
(*                                                                         *)
(* Sizes and offsets are counted in bytes, as in the code.  What a block   *)
(* holds is a sequence of records rather than its bytes: checksums and     *)
(* compression are left out, offsets are not.                              *)
(***************************************************************************)
EXTENDS Records, SequencesExt

CONSTANTS KeyLength(_),    \* len(key)
          ValueLength(_),  \* len(value), 0 for a tombstone
          HashPair(_),     \* the two halves of the hash of a key
          HashCount,       \* Filter.hashCount
          BitCount,        \* Filter.bitCount
          WordSize         \* 2^64: positions wrap

ASSUME SSTableAssumption ==
  HashCount \in Nat /\ BitCount \in Nat \ {0} /\ WordSize \in Nat \ {0}

HeaderSize == 17     \* in front of a record
CountSize == 4       \* the record count in front of a block
RestartSize == 4     \* an entry of the restart array
TrailerSize == 8     \* restart interval and restart count
StoredOverhead == 9  \* header and checksum around a stored block
FooterSize == 40

EncodedSize(rec) == HeaderSize + KeyLength(rec.key) + ValueLength(rec.val)
FilterSize == 12 + BitCount \div 8
IndexSize(index) == FoldLeft(LAMBDA n, e : n + 16 + KeyLength(e.firstKey), 4, index)
-----------------------------------------------------------------------------
(* The bloom filter: a set of bit positions.                               *)

\* Enhanced double hashing: <<position, increment>> before each probe.
Probe(key) ==
  LET probe[i \in 0..HashCount] ==
        IF i = 0 THEN HashPair(key)
        ELSE <<(probe[i - 1][1] + probe[i - 1][2]) % WordSize,
               (probe[i - 1][2] + i) % WordSize>>
  IN probe

Bits(key) == {Probe(key)[i][1] % BitCount : i \in 0..(HashCount - 1)}

FilterAdd(bits, key) == bits \cup Bits(key)

\* Variant: the increment is not advanced between probes.
MayContainLinear(bits, key) ==
  \A i \in 0..(HashCount - 1) :
    ((HashPair(key)[1] + i * HashPair(key)[2]) % WordSize) % BitCount \in bits

MayContain(bits, key) ==
  \A i \in 0..(HashCount - 1) : Probe(key)[i][1] % BitCount \in bits
-----------------------------------------------------------------------------
(* The writer.                                                             *)

startBlock(key, opts) ==
  [firstKey |-> key, recs |-> <<>>, restarts |-> <<>>,
   interval |-> opts.restartInterval, len |-> CountSize]

\* The length of the block with its restart array.
LogicalSize(b) == b.len + RestartSize * Len(b.restarts) + TrailerSize

NewWriter(opts) ==
  [blocks |-> <<>>, index |-> <<>>, end |-> 0, bits |-> {}, all |-> <<>>,
   cur |-> startBlock(EmptyKey, opts), unsorted |-> FALSE]

flushBlock(w, opts) ==
  IF w.cur.recs = <<>> THEN w
  ELSE [w EXCEPT
          !.blocks = Append(@, w.cur),
          !.index = Append(@, [firstKey |-> w.cur.firstKey, offset |-> w.end,
                               length |-> LogicalSize(w.cur) + StoredOverhead]),
          !.end = @ + LogicalSize(w.cur) + StoredOverhead,
          !.cur = startBlock(EmptyKey, opts)]

\* A key that goes back, or a version newer than the one before it.
OutOfOrder(w, rec) ==
  /\ w.all # <<>>
  /\ \/ Last(w.all).key > rec.key
     \/ Last(w.all).key = rec.key /\ Last(w.all).seq < rec.seq

\* The record does not fit behind the others with its restart entry.
Exceeds(b, rec, opts) ==
  /\ b.recs # <<>>
  /\ LogicalSize(b) + EncodedSize(rec)
       + (IF Len(b.recs) % b.interval = 0 THEN RestartSize ELSE 0) > opts.blockSize

\* Variant: the restart entry is not recorded when a block is opened for a
\* record that did not fit.
appendRecordNoRestart(b, rec) ==
  [b EXCEPT !.restarts = IF Len(b.recs) % b.interval = 0 /\ b.recs # <<>>
                         THEN Append(@, b.len) ELSE @,
            !.recs = Append(@, rec),
            !.len = @ + EncodedSize(rec)]

appendRecord(b, rec) ==
  [b EXCEPT !.restarts = IF Len(b.recs) % b.interval = 0
                         THEN Append(@, b.len) ELSE @,
            !.recs = Append(@, rec),
            !.len = @ + EncodedSize(rec)]

\* One turn of the writer's loop.
writeRecord(w, rec, opts) ==
  LET started == IF w.cur.recs = <<>>
                 THEN [w EXCEPT !.cur = startBlock(rec.key, opts)] ELSE w
      placed == IF Exceeds(started.cur, rec, opts)
                THEN [flushBlock(started, opts) EXCEPT !.cur = startBlock(rec.key, opts)]
                ELSE started
  IN IF w.unsorted \/ OutOfOrder(w, rec) THEN [w EXCEPT !.unsorted = TRUE]
     ELSE [placed EXCEPT
             !.cur = appendRecord(@, rec),
             !.bits = IF opts.bloom THEN FilterAdd(@, rec.key) ELSE @,
             !.all = Append(@, rec)]

\* The index, the filter and the footer behind the blocks.
Finished(w0, opts) ==
  LET w == flushBlock(w0, opts)
      indexEnd == w.end + IndexSize(w.index)
      filterLength == IF opts.bloom /\ w.all # <<>> THEN FilterSize ELSE 0
  IN [blocks |-> w.blocks, index |-> w.index, bits |-> w.bits,
      indexOffset |-> w.end, indexLength |-> IndexSize(w.index),
      filterOffset |-> IF filterLength = 0 THEN 0 ELSE indexEnd,
      filterLength |-> filterLength,
      size |-> indexEnd + filterLength + FooterSize,
      smallest |-> {Head(w.all).key : i \in 1..Min({1, Len(w.all)})},
      largest |-> {Last(w.all).key : i \in 1..Min({1, Len(w.all)})}]

Written(recs, opts) ==
  FoldLeft(LAMBDA w, rec : writeRecord(w, rec, opts), NewWriter(opts), recs)

\* CreateFromIteratorWithOptions; {} stands for ErrUnsortedRecords.
CreateFromIterator(recs, opts) ==
  IF Written(recs, opts).unsorted THEN {} ELSE {Finished(Written(recs, opts), opts)}
-----------------------------------------------------------------------------
(* The reader.                                                             *)

\* readFooter: the regions follow one another without gaps.
FooterAccepted(file) ==
  LET dataEnd == file.size - FooterSize
      indexEnd == file.indexOffset + file.indexLength
  IN /\ file.size >= FooterSize
     /\ file.indexOffset <= dataEnd
     /\ file.indexLength <= dataEnd - file.indexOffset
     /\ \/ /\ file.filterLength = 0
           /\ file.filterOffset = 0 /\ indexEnd = dataEnd
        \/ /\ file.filterLength > 0
           /\ file.filterOffset = indexEnd
           /\ file.filterLength = dataEnd - file.filterOffset

\* newLogicalBlockCursorForVersion: one restart per interval, at increasing
\* offsets within the records, the first at the first record.
CursorAccepted(b) ==
  /\ b.interval > 0
  /\ Len(b.restarts) = (Len(b.recs) + b.interval - 1) \div b.interval
  /\ \A i \in DOMAIN b.restarts :
       /\ b.restarts[i] \in CountSize..(b.len - 1)
       /\ i = 1 => b.restarts[i] = CountSize
       /\ i > 1 => b.restarts[i - 1] < b.restarts[i]
  /\ Len(b.recs) <= (b.len - CountSize) \div HeaderSize

\* sort.Search on 1..n: the first of the indices that qualify, else n + 1.
Search(n, hits) == Min(hits \cup {n + 1})

\* The block before the first one that starts at or after key: the versions of
\* key may begin in it.
firstPossibleBlock(index, key) ==
  LET i == Search(Len(index), {j \in DOMAIN index : index[j].firstKey >= key})
  IN IF i > 1 THEN i - 1 ELSE Min({i, Len(index)})

\* The record that starts at an offset of a block.
OffsetOf(b, i) ==
  CountSize + FoldLeft(LAMBDA n, r : n + EncodedSize(r), 0, SubSeq(b.recs, 1, i - 1))
RecordAt(b, offset) == CHOOSE i \in DOMAIN b.recs : OffsetOf(b, i) = offset

\* Variant: the restart found is used, not the one before it.
seekNoStepBack(b, key) ==
  LET n == Len(b.restarts)
      i == Search(n, {j \in 1..n : b.recs[RecordAt(b, b.restarts[j])].key >= key})
      restart == Min({i, n})
  IN [offset |-> b.restarts[restart], index |-> (restart - 1) * b.interval]

\* logicalBlockCursor.seek: the last restart before the first one at or after
\* key, as an offset and as the number of records before it.
seek(b, key) ==
  LET n == Len(b.restarts)
      i == Search(n, {j \in 1..n : b.recs[RecordAt(b, b.restarts[j])].key >= key})
      restart == IF i > 1 THEN i - 1 ELSE i
  IN [offset |-> b.restarts[restart], index |-> (restart - 1) * b.interval]

\* What next returns from a position on: the records from its offset on, until
\* index has reached the record count.
CursorReads(b, c) ==
  LET from == RecordAt(b, c.offset)
  IN SubSeq(b.recs, from, Min({Len(b.recs), from + Len(b.recs) - c.index - 1}))

\* The loop of GetRecordAt over one block: done when a version was found or
\* the key was passed.
LookInBlock(b, key, maxSeq) ==
  LET recs == CursorReads(b, seek(b, key))
      i == SelectInSeq(recs, LAMBDA r : r.key > key \/ (r.key = key /\ r.seq <= maxSeq))
  IN IF i = 0 THEN [done |-> FALSE, found |-> {}]
     ELSE [done |-> TRUE, found |-> {r \in {recs[i]} : r.key = key}]

\* The filter or an empty index rules the key out.
RuledOut(file, key) ==
  \/ file.filterLength > 0 /\ ~MayContain(file.bits, key)
  \/ file.index = <<>>

\* GetRecordAt: from the first possible block on until a block is decisive.
GetRecordAt(file, key, maxSeq) ==
  LET n == Len(file.blocks)
      look[i \in 1..(n + 1)] ==
        IF i > n THEN {}
        ELSE LET l == LookInBlock(file.blocks[i], key, maxSeq)
             IN IF l.done THEN l.found ELSE look[i + 1]
  IN IF RuledOut(file, key) THEN {} ELSE look[firstPossibleBlock(file.index, key)]

\* Iterator.Seek in its first block: the records from the first one at or
\* after key on.
SeekInBlock(b, key) ==
  LET recs == CursorReads(b, seek(b, key))
      i == SelectInSeq(recs, LAMBDA r : r.key >= key)
  IN IF i = 0 THEN <<>> ELSE SubSeq(recs, i, Len(recs))

\* Iterator.Next from the first block on, or from where Seek has put it.
IteratorReads(file) == FlattenSeq([i \in DOMAIN file.blocks |-> file.blocks[i].recs])
SeekReads(file, key) ==
  LET first == firstPossibleBlock(file.index, key)
  IN IF file.index = <<>> THEN <<>>
     ELSE SeekInBlock(file.blocks[first], key) \o
          FlattenSeq([i \in 1..(Len(file.blocks) - first) |-> file.blocks[first + i].recs])
=============================================================================
