------------------------------ MODULE MCEngine ------------------------------
(* Instance of Engine for TLC. *)
EXTENDS Engine

CONSTANTS v1, v2, r1, r2

Put(k, v) == [key |-> k, val |-> v]
Del(k) == [key |-> k, val |-> Tombstone]

MCValue == {v1, v2}

\* Writes of one key; keys are not empty.
OnePut == {<<Put(1, v1)>>}
OneKey == {<<Put(1, v1)>>, <<Del(1)>>}
Overwrites == {<<Put(1, v1)>>, <<Put(1, v2)>>}
OverwritesDeletes == Overwrites \cup OneKey

\* With a batch of two keys that fills a memtable, and the empty batch.
WithBatches == OneKey \cup {<<Put(1, v2), Put(2, v1)>>, <<>>}

\* Every record takes one unit of space.
MCFileSize(recs) == Cardinality(recs)
=============================================================================
