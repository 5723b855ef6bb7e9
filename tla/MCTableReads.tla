---------------------------- MODULE MCTableReads ----------------------------
(***************************************************************************)
(* TableReads with two keys, the empty one and one of one byte, values of  *)
(* one byte, and blocks that hold one, two or three records.               *)
(***************************************************************************)
EXTENDS TableReads

CONSTANT x

MCKeyLength(key) == key
MCValueLength(val) == IF val = Tombstone THEN 0 ELSE 1
MCHashPair(key) == <<13 + 5 * key, 6 + 7 * key>>

\* Blocks of two of the smaller records or one of the larger ones, and of
\* three; caches for two blocks of one record, and for one.
MCOptions ==
  {[blockSize |-> 52, restartInterval |-> 2, bloom |-> TRUE, cacheSize |-> 70],
   [blockSize |-> 80, restartInterval |-> 2, bloom |-> FALSE, cacheSize |-> 36]}
=============================================================================
