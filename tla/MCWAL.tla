------------------------------- MODULE MCWAL -------------------------------
(* Instance of WAL for TLC. *)
EXTENDS WAL

CONSTANT v1

MCValue == {v1}

\* A single write, a batch of two keys, and the empty batch.
Writes ==
  {<<[key |-> 1, val |-> v1]>>,
   <<[key |-> 1, val |-> v1], [key |-> 2, val |-> Tombstone]>>, <<>>}
=============================================================================
