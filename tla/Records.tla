------------------------------ MODULE Records ------------------------------
(***************************************************************************)
(* Versioned records and reads over a set of them (internal/record,        *)
(* DB.getAt).                                                              *)
(*                                                                         *)
(* Keys are strings of bounded length under the byte order, so they are    *)
(* finitely many and totally ordered: a key is named by its rank, and the  *)
(* empty string, which DB.validateKey accepts, is rank 0.                  *)
(***************************************************************************)
EXTENDS Integers, FiniteSetsExt

CONSTANTS MaxKey,     \* rank of the largest key
          Value,      \* the values clients write
          Tombstone   \* what a record carries when Entry.Deleted is set

ASSUME RecordAssumption == MaxKey \in Nat /\ Tombstone \notin Value

Key == 0..MaxKey
EmptyKey == 0

Record == [key: Key, seq: Nat, val: Value \cup {Tombstone}]

\* What a read returns when it may see the versions V of one key: the value
\* of the version with the highest sequence.  {} stands for ErrNotFound.
Newest(V) == {x \in V : \A y \in V : y.seq <= x.seq}
Result(V) == {r.val : r \in Newest(V)} \ {Tombstone}

\* DB.Get and, for a reader at sequence s, DB.getAt.
Get(S, k) == Result({r \in S : r.key = k})
GetAt(S, k, s) == Result({r \in S : r.key = k /\ r.seq <= s})
=============================================================================
