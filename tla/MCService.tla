----------------------------- MODULE MCService -----------------------------
(* Instance of Service, and of Leveling under it, for TLC. *)
EXTENDS Service

CONSTANTS v1

Put(k, v) == [key |-> k, val |-> v]
Del(k) == [key |-> k, val |-> Tombstone]

MCValue == {v1}

\* Writes of every key, the empty one included, a batch that writes one key
\* twice, and two that are too large, by operations and by bytes.
MCBatches ==
  {<<Put(k, v1)>> : k \in Key} \cup
  {<<Del(1)>>, <<Put(1, v1), Del(1)>>, 
   <<Del(1), Put(1, v1), Del(2)>>, <<Put(1, v1), Put(2, v1)>>}

MCRequests == {[start |-> 0, end |-> 0, limit |-> 1]}

\* The byte 1 stands for 0xff: the end of the first prefix carries, and the
\* second prefix has none.
MCKeyBytes == [k \in Key |-> << <<>>, <<0, 1>>, <<1>> >>[k + 1]]
MCPrefixes == {<<0, 1>>, <<1>>}

MCOperationSize(op) == op.key + IF op.val = Tombstone THEN 0 ELSE 1

\* Every record takes one unit of space.
MCFileSize(recs) == Cardinality(recs)
=============================================================================
