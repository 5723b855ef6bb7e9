------------------------------ MODULE Leveling ------------------------------
(***************************************************************************)
(* The leveled store as its readers see it: records in memory, tables on   *)
(* three levels, and the sequences registered by snapshots and iterators.  *)
(*                                                                         *)
(* DB.mu makes each of these operations atomic for readers.  mem holds the *)
(* active memtable and the immutable ones together: rotation does not      *)
(* change it, and since memtables are filled and flushed in order, what a  *)
(* flush moves to L0 is always the part of mem up to some sequence.        *)
(* Engine.tla models the memtables, files and threads one by one and is    *)
(* checked to implement this module.                                       *)
(***************************************************************************)
EXTENDS Compaction, Sequences

CONSTANTS Reader,       \* snapshot and iterator handles
          Batches,      \* the batches clients commit
          Thresholds,   \* table counts at which a compaction is tried
          MaxSeq        \* bound on allocated sequences, for model checking

Operation == [key: Key, val: Value \cup {Tombstone}]

ASSUME LevelingAssumption ==
  /\ Batches \subseteq Seq(Operation)
  /\ Thresholds \subseteq Nat
  /\ MaxSeq \in Nat

VARIABLES mem,      \* records of the active and the immutable memtables
          tables,   \* db.sstables with db.manifest.SSTables
          nextSeq,  \* db.nextSeq
          open,     \* the handles registered in db.activeReaders
          at        \* the sequence each of them reads at

vars == <<mem, tables, nextSeq, open, at>>

Stored == mem \cup AllRecords(tables)
ActiveReaders == {at[r] : r \in open}

TypeOK ==
  /\ mem \subseteq Record
  /\ \A t \in tables : IsTable(t)
  /\ nextSeq \in Nat \ {0}
  /\ open \subseteq Reader
  /\ at \in [Reader -> Nat]

Init ==
  /\ mem = {}
  /\ tables = {}
  /\ nextSeq = 1
  /\ open = {}
  /\ at = [r \in Reader |-> 0]

\* Variant: every operation of a batch carries the sequence of the batch.
BatchRecordsOneSeq(ops, seq) ==
  {[key |-> ops[i].key, seq |-> seq, val |-> ops[i].val] : i \in 1..Len(ops)}

\* Consecutive sequences for the operations of a batch.
BatchRecords(ops, seq) ==
  {[key |-> ops[i].key, seq |-> seq + i - 1, val |-> ops[i].val]
     : i \in 1..Len(ops)}

\* An empty batch still consumes the sequence that names it.
Consumed(ops) == IF Len(ops) = 0 THEN 1 ELSE Len(ops)

\* Put, Delete and applyBatch.
ApplyBatch(ops) ==
  /\ nextSeq + Consumed(ops) <= MaxSeq
  /\ mem' = mem \cup BatchRecords(ops, nextSeq)
  /\ nextSeq' = nextSeq + Consumed(ops)
  /\ UNCHANGED <<tables, open, at>>

\* flushImmutableMemtable, as readers see it.
Flush(upTo) ==
  LET flushed == {r \in mem : r.seq <= upTo}
  IN /\ flushed # {}
     /\ mem' = mem \ flushed
     /\ tables' = tables \cup {NewTable(L0, flushed)}
     /\ UNCHANGED <<nextSeq, open, at>>

\* compactLocked
Compact(threshold) ==
  /\ \E plan \in Plans(tables, threshold) :
       tables' = (tables \ plan.inputs) \cup {MergedTable(plan, ActiveReaders)}
  /\ UNCHANGED <<mem, nextSeq, open, at>>

\* DB.NewSnapshot and DB.NewIterator: read at currentSequenceLocked.
NewSnapshot(r) ==
  /\ r \notin open
  /\ open' = open \cup {r}
  /\ at' = [at EXCEPT ![r] = nextSeq - 1]
  /\ UNCHANGED <<mem, tables, nextSeq>>

\* Snapshot.NewIterator
NewSnapshotIterator(r, from) ==
  /\ r \notin open /\ from \in open
  /\ open' = open \cup {r}
  /\ at' = [at EXCEPT ![r] = at[from]]
  /\ UNCHANGED <<mem, tables, nextSeq>>

\* Snapshot.Close and Iterator.Close
CloseReader(r) ==
  /\ r \in open
  /\ open' = open \ {r}
  /\ at' = [at EXCEPT ![r] = 0]
  /\ UNCHANGED <<mem, tables, nextSeq>>

\* Close followed by Open.  Sequences restart after the highest one that is
\* still stored or still named in the WAL, so they may step back when a merge
\* has dropped the highest ones.
Reopen(seq) ==
  /\ \A r \in Stored : r.seq < seq
  /\ nextSeq' = seq
  /\ open' = {}
  /\ at' = [r \in Reader |-> 0]
  /\ UNCHANGED <<mem, tables>>

Next ==
  \/ \E ops \in Batches : ApplyBatch(ops)
  \/ \E upTo \in 1..(nextSeq - 1) : Flush(upTo)
  \/ \E threshold \in Thresholds : Compact(threshold)
  \/ \E r \in Reader : NewSnapshot(r) \/ CloseReader(r)
  \/ \E r, from \in Reader : NewSnapshotIterator(r, from)
  \/ \E seq \in 1..nextSeq : Reopen(seq)

Spec == Init /\ [][Next]_vars
-----------------------------------------------------------------------------
(* Correctness.                                                            *)

\* Levels are ordered in time: a version on a lower-numbered level, or in
\* memory, is newer than every version of its key on a higher-numbered one.
\* Dropping a tombstone on the way into L2 relies on it: what the merge does
\* not contain can only be newer than the tombstone (compactLocked).
LevelOrder ==
  /\ \A r \in mem, x \in AllRecords(tables) : x.seq < r.seq
  /\ \A t, u \in tables : t.level < u.level =>
       \A r \in t.recs, x \in u.recs : r.key = x.key => x.seq < r.seq

\* "Higher levels are maintained as non-overlapping runs" (PickCompaction):
\* the key ranges of two tables on L1, or on L2, are disjoint.
NonOverlappingRuns ==
  \A t, u \in tables :
    /\ t # u /\ t.level = u.level /\ t.level > L0
    /\ t.recs # {} /\ u.recs # {}
    => t.largest < u.smallest \/ u.largest < t.smallest

\* A stored version is identified by its key and sequence, and every version
\* and every registered reader is older than the next allocation.
VersionsUnique ==
  /\ \A r, x \in Stored : r.key = x.key /\ r.seq = x.seq => r = x
  /\ \A r \in Stored : r.seq < nextSeq
  /\ \A r \in open : at[r] < nextSeq

\* The store is the map KVStore describes.  In particular flushes and
\* compactions change no read: not a current one, and not one of a snapshot
\* or iterator opened at any earlier time (compactLocked with oldestReader).
KV == INSTANCE KVStore WITH
        store <- [k \in Key |-> Get(Stored, k)],
        view <- [r \in Reader |-> [k \in Key |->
                   IF r \in open THEN GetAt(Stored, k, at[r]) ELSE {}]]

ImplementsKVStore == KV!Spec
=============================================================================
