------------------------------ MODULE Service ------------------------------
(***************************************************************************)
(* The service in front of the store (service.go, grpc_service.go), the    *)
(* merging iterator it scans with (internal/db/iterator.go) and the write  *)
(* batches (internal/db/batch.go), on top of Leveling.                     *)
(*                                                                         *)
(* A scan opens its iterator under DB.mu.  Its sources cannot change after *)
(* that: a copy of the memtable, memtables no longer written to, and files *)
(* it holds open.  Reading them is therefore one step, and what lies       *)
(* between the steps of a scan are the writes, flushes, compactions,       *)
(* snapshots and restarts of Leveling.  The client follows one scan, page  *)
(* by page, and asks for a page again when a call was cancelled or the     *)
(* server restarted.                                                       *)
(***************************************************************************)
EXTENDS Leveling, SequencesExt

CONSTANTS Scanner,             \* the handle of the scan's iterator
          Requests,            \* the pages clients ask for: start, end, limit
          MaxBatchOperations,  \* limits.MaxBatchOperations
          MaxBatchBytes,       \* limits.MaxBatchBytes
          OperationSize(_),    \* len(key) + len(value)
          KeyBytes,            \* the bytes of each key
          KeyPrefixes,         \* the prefixes clients scan
          MaxByte              \* 0xff

ASSUME ServiceAssumption ==
  /\ Scanner \in Reader /\ \A q \in Requests : q.limit \in Nat
  /\ MaxBatchOperations \in Nat /\ MaxBatchBytes \in Nat
  /\ MaxByte \in Nat /\ KeyBytes \in [Key -> Seq(0..MaxByte)]

VARIABLE scan

serviceVars == <<vars, scan>>

Present == {k \in Key : Get(Stored, k) # {}}

Idle == [phase |-> "idle"]

ServiceInit == Init /\ scan = Idle
-----------------------------------------------------------------------------
(* Batches.                                                                *)

\* Variant: an operation that does not fit is left out of the batch.
AddOperationSkips(b, op) ==
  IF \/ Len(b.ops) >= MaxBatchOperations
     \/ OperationSize(op) > MaxBatchBytes - b.size
  THEN b
  ELSE [b EXCEPT !.ops = Append(@, op), !.size = @ + OperationSize(op)]

\* Batch.Put and Batch.Delete with reserveOperation.
AddOperation(b, op) ==
  IF \/ Len(b.ops) >= MaxBatchOperations
     \/ OperationSize(op) > MaxBatchBytes - b.size
  THEN [b EXCEPT !.refused = TRUE]
  ELSE [b EXCEPT !.ops = Append(@, op), !.size = @ + OperationSize(op)]

\* GRPCServer.WriteBatch, Service.Put and Service.Delete: the batch is
\* cancelled at the first operation that is refused, else committed.
WriteBatch(mutations) ==
  LET batch == FoldLeft(AddOperation, [ops |-> <<>>, size |-> 0, refused |-> FALSE], mutations)
  IN ~batch.refused /\ ApplyBatch(batch.ops)
-----------------------------------------------------------------------------
(* The merging iterator.  A source is the sequence of its records that are *)
(* still to come; its head is what the source has in the merge heap.       *)

InOrder(S) ==
  SetToSortSeq(S, LAMBDA a, b : a.key < b.key \/ (a.key = b.key /\ a.seq > b.seq))

beforeStart(key, it) == it.start # EmptyKey /\ key < it.start
atOrPastEnd(key, it) == it.end # EmptyKey /\ key >= it.end

\* Variant: versions newer than the iterator are not skipped.
visibleAnySeq(r, it) == TRUE

visible(r, it) == r.seq <= it.maxSeq

\* advanceSource: to the next record the iterator may see.
advanceSource(source, it) ==
  LET seen == {i \in DOMAIN source : /\ visible(source[i], it)
                                     /\ ~beforeStart(source[i].key, it)}
  IN IF seen = {} \/ atOrPastEnd(source[Min(seen)].key, it) THEN <<>>
     ELSE SubSeq(source, Min(seen), Len(source))

\* newIteratorLocked: the memtables and each table are sources; all of them
\* are advanced to their first record.
newIterator(start, end, maxSeq) ==
  LET it == [start |-> start, end |-> end, maxSeq |-> maxSeq]
      sources == {InOrder(mem)} \cup {InOrder(t.recs) : t \in tables}
  IN [start |-> start, end |-> end, maxSeq |-> maxSeq,
      sources |-> {advanceSource(s, it) : s \in sources} \ {<<>>}]

\* resolveNextKey: the smallest key of the heap, the newest of its versions,
\* and the iterator once all of them are consumed.
resolveNextKey(it) ==
  LET key == Min({s[1].key : s \in it.sources})
      versions == {r \in UNION {Range(s) : s \in it.sources} :
                     r.key = key /\ visible(r, it)}
      consumed(s) == advanceSource(SelectSeq(s, LAMBDA r : r.key # key), it)
  IN [best |-> CHOOSE r \in versions : \A x \in versions : x.seq <= r.seq,
      it |-> [it EXCEPT !.sources = {consumed(s) : s \in @} \ {<<>>}]]

\* Iterator.Next called until it returns false: deleted keys are passed over.
RECURSIVE Remaining(_)
Remaining(it) ==
  IF it.sources = {} THEN <<>>
  ELSE LET next == resolveNextKey(it)
       IN (IF next.best.val = Tombstone THEN <<>>
           ELSE <<[key |-> next.best.key, val |-> next.best.val]>>) \o Remaining(next.it)
-----------------------------------------------------------------------------
(* Scans.                                                                  *)

\* Variant: a last byte 0xff is not carried.
PrefixEndNoCarry(prefix) ==
  IF prefix = <<>> \/ Last(prefix) = MaxByte THEN <<>>
  ELSE [prefix EXCEPT ![Len(prefix)] = @ + 1]

\* The first string behind those with the prefix; "" when there is none.
PrefixEnd(prefix) ==
  LET i == SelectLastInSeq(prefix, LAMBDA b : b # MaxByte)
  IN IF i = 0 THEN <<>> ELSE [SubSeq(prefix, 1, i) EXCEPT ![i] = @ + 1]

BytesBelow(s, t) ==
  \/ IsStrictPrefix(s, t)
  \/ \E i \in 1..Min({Len(s), Len(t)}) :
       SubSeq(s, 1, i - 1) = SubSeq(t, 1, i - 1) /\ s[i] < t[i]

\* A string as a bound: the keys at or behind it are those from its rank on.
Rank(s) == Cardinality({k \in Key : BytesBelow(KeyBytes[k], s)})

FirstOf(entries, limit) ==
  IF limit = 0 THEN entries ELSE SubSeq(entries, 1, Min({limit, Len(entries)}))

\* Variant: the token names the entry that was looked ahead at.
NextPageTokenAhead(entries, page) ==
  IF Len(entries) > Len(page) /\ Last(page).key # EmptyKey
  THEN {entries[Len(page) + 1].key} ELSE {}

\* encodePageToken for the last key of the page when another entry follows.
\* The token of the empty key is the empty string, which is no token.
NextPageToken(entries, page) ==
  IF Len(entries) > Len(page) /\ Last(page).key # EmptyKey
  THEN {Last(page).key} ELSE {}

\* An open iterator.  map: history, what its sequence makes visible.
Opened(start, end, maxSeq) ==
  [it |-> newIterator(start, end, maxSeq), map |-> [k \in Key |-> GetAt(Stored, k, maxSeq)]]

\* The client asks for the pages of a range.  kept: history, the keys that have
\* been present ever since; got: history, what the pages have returned.
StartScan(request) ==
  /\ scan = Idle
  /\ scan' = [phase |-> "waiting", token |-> {}, got |-> <<>>, kept |-> Present] @@ request
  /\ UNCHANGED vars

\* Service.Scan up to its loop.
OpenPage ==
  LET start == IF scan.token = {} THEN scan.start ELSE CHOOSE k \in scan.token : TRUE
  IN /\ scan.phase = "waiting"
     /\ NewSnapshot(Scanner)
     /\ scan' = [scan EXCEPT !.phase = "reading"] @@ Opened(start, scan.end, nextSeq - 1)

\* DB.ScanPrefix; GRPCServer.Scan opens its iterator like this, too.
OpenPrefixScan(prefix) ==
  /\ scan = Idle
  /\ NewSnapshot(Scanner)
  /\ scan' = [phase |-> "streaming", prefix |-> prefix] @@
               Opened(Rank(prefix), Rank(PrefixEnd(prefix)), nextSeq - 1)

\* Snapshot.ScanPrefix, on Snapshot.NewIterator.
OpenSnapshotScan(from, prefix) ==
  /\ scan = Idle
  /\ NewSnapshotIterator(Scanner, from)
  /\ scan' = [phase |-> "streaming", prefix |-> prefix] @@
               Opened(Rank(prefix), Rank(PrefixEnd(prefix)), at[from])

\* The client's part of a scan whose call is over.
Waiting == [f \in DOMAIN scan \ {"it", "map"} |-> IF f = "phase" THEN "waiting" ELSE scan[f]]

\* The loop of Service.Scan, which passes over the key of its token.
Entries == SelectSeq(Remaining(scan.it), LAMBDA e : e.key \notin scan.token)

\* The loop and the deferred Close.  Without a token the scan is over.
ReadPage ==
  LET entries == Entries
      page == FirstOf(entries, scan.limit)
      token == NextPageToken(entries, page)
  IN /\ scan.phase = "reading"
     /\ CloseReader(Scanner)
     /\ scan' = IF token = {} THEN Idle
                ELSE [Waiting EXCEPT !.token = token, !.got = @ \o page]

\* The iterator of a stream is read as far as its client likes, and closed.
CloseStream ==
  /\ scan.phase = "streaming"
  /\ CloseReader(Scanner)
  /\ scan' = Idle

\* The call ends with an error (contextError), or with the server: the client
\* keeps its request and its token.
CancelPage ==
  /\ scan.phase = "reading"
  /\ CloseReader(Scanner)
  /\ scan' = Waiting

Restart(seq) ==
  /\ Reopen(seq)
  /\ scan' = IF scan.phase = "reading" THEN Waiting
             ELSE IF scan.phase = "streaming" THEN Idle ELSE scan

\* The steps of Leveling while a scan goes on.
Kept == IF scan.phase \in {"idle", "streaming"} THEN scan
        ELSE [scan EXCEPT !.kept = {k \in @ : Get(Stored', k) # {}}]

Meanwhile ==
  /\ \/ \E mutations \in Batches : WriteBatch(mutations)
     \/ \E upTo \in 1..(nextSeq - 1) : Flush(upTo)
     \/ \E threshold \in Thresholds : Compact(threshold)
     \/ \E r \in Reader \ {Scanner} : NewSnapshot(r) \/ CloseReader(r)
  /\ scan' = Kept

ServiceNext ==
  \/ Meanwhile
  \/ \E seq \in 1..nextSeq : Restart(seq)
  \/ \E request \in Requests : StartScan(request)
  \/ OpenPage \/ ReadPage \/ CancelPage
  \/ \E prefix \in KeyPrefixes : OpenPrefixScan(prefix)
  \/ \E from \in Reader, prefix \in KeyPrefixes : OpenSnapshotScan(from, prefix)
  \/ CloseStream

ServiceSpec == ServiceInit /\ [][ServiceNext]_serviceVars
-----------------------------------------------------------------------------
(* Correctness.                                                            *)

Scanning == scan.phase \in {"reading", "streaming"}

\* What an open iterator will return is the map at its sequence, restricted to
\* its range and in key order, whatever was flushed, merged, overwritten or
\* deleted before or after it was opened (newIteratorLocked, Next).
IteratorReturnsSnapshot ==
  Scanning =>
    LET seen == {k \in Key : /\ scan.map[k] # {}
                             /\ ~beforeStart(k, scan.it) /\ ~atOrPastEnd(k, scan.it)}
        entries == Remaining(scan.it)
    IN /\ {<<e.key, {e.val}>> : e \in Range(entries)} = {<<k, scan.map[k]>> : k \in seen}
       /\ \A i \in 1..(Len(entries) - 1) : entries[i].key < entries[i + 1].key

\* A prefix scan returns the keys that have the prefix and no others, also where
\* the prefix ends in bytes 0xff, so that its end is shorter than the prefix or
\* there is none (ScanPrefix, PrefixEnd).
PrefixScanExact ==
  scan.phase = "streaming" =>
    {e.key : e \in Range(Remaining(scan.it))} =
      {k \in Key : scan.map[k] # {} /\ IsPrefix(scan.prefix, KeyBytes[k])}

InRange(k) == (scan.start = EmptyKey \/ k >= scan.start)
                /\ (scan.end = EmptyKey \/ k < scan.end)

\* "PageToken resumes strictly after the key returned in the previous page":
\* no key is returned twice, and when the pages are over, no key of the range
\* that was there all along is missing, however the store changed in between.
\* A page that ends at the empty key is the exception: its token is empty, and
\* the scan ends there.
PagesCoverRange ==
  scan.phase = "reading" =>
    LET entries == Entries
        page == FirstOf(entries, scan.limit)
        got == scan.got \o page
    IN /\ \A i \in 1..(Len(got) - 1) : got[i].key < got[i + 1].key
       /\ NextPageToken(entries, page) = {} /\ ~(got # <<>> /\ Last(got).key = EmptyKey) =>
            \A k \in scan.kept : InRange(k) => \E e \in Range(got) : e.key = k

\* A request of the write service takes effect with all its operations, in
\* their order, or not at all; one beyond the limits of a batch never does.
WritesAllOrNothing ==
  [][nextSeq' > nextSeq =>
       \E ops \in Batches :
         /\ Len(ops) <= MaxBatchOperations
         /\ FoldLeft(LAMBDA n, op : n + OperationSize(op), 0, ops) <= MaxBatchBytes
         /\ mem' \ mem = BatchRecords(ops, nextSeq)]_serviceVars
=============================================================================
