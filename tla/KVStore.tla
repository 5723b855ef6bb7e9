------------------------------ MODULE KVStore ------------------------------
(***************************************************************************)
(* What HyphaDB promises its clients: a map from keys to values, batches   *)
(* that take effect at once and in order, and snapshots that keep the map  *)
(* as it was.  store[k] is {} when k is absent, else {value}.              *)
(***************************************************************************)
EXTENDS Records, Sequences

CONSTANTS Reader,    \* snapshot and iterator handles
          Batches    \* the batches clients commit; Put and Delete are
                     \* batches of one operation

VARIABLES store,     \* the current map
          open,      \* the handles in use
          view       \* what each open handle reads

kvVars == <<store, open, view>>

Map == [Key -> SUBSET Value]
EmptyMap == [k \in Key |-> {}]

TypeOK ==
  /\ store \in Map
  /\ open \subseteq Reader
  /\ view \in [Reader -> Map]

Init ==
  /\ store = EmptyMap
  /\ open = {}
  /\ view = [r \in Reader |-> EmptyMap]

\* The positions of a batch that write key k.
Writes(ops, k) == {i \in 1..Len(ops) : ops[i].key = k}

\* The map after a batch: the last operation on a key wins.
Applied(map, ops) ==
  [k \in Key |-> IF Writes(ops, k) = {} THEN map[k]
                 ELSE {ops[Max(Writes(ops, k))].val} \ {Tombstone}]

ApplyBatch(ops) ==
  /\ store' = Applied(store, ops)
  /\ UNCHANGED <<open, view>>

NewSnapshot(r) ==
  /\ r \notin open
  /\ open' = open \cup {r}
  /\ view' = [view EXCEPT ![r] = store]
  /\ UNCHANGED store

\* An iterator of an open snapshot reads what the snapshot reads, also after
\* the snapshot is closed.
NewSnapshotIterator(r, from) ==
  /\ r \notin open /\ from \in open
  /\ open' = open \cup {r}
  /\ view' = [view EXCEPT ![r] = view[from]]
  /\ UNCHANGED store

CloseReader(r) ==
  /\ r \in open
  /\ open' = open \ {r}
  /\ view' = [view EXCEPT ![r] = EmptyMap]
  /\ UNCHANGED store

\* Close and Open again: the map survives, the handles do not.
Reopen ==
  /\ open' = {}
  /\ view' = [r \in Reader |-> EmptyMap]
  /\ UNCHANGED store

Next ==
  \/ \E ops \in Batches : ApplyBatch(ops)
  \/ \E r \in Reader : NewSnapshot(r) \/ CloseReader(r)
  \/ \E r, from \in Reader : NewSnapshotIterator(r, from)
  \/ Reopen

Spec == Init /\ [][Next]_kvVars
=============================================================================
