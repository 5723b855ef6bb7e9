------------------------------ MODULE SkipList ------------------------------
(***************************************************************************)
(* internal/skiplist and internal/memtable: the ordered list behind a      *)
(* memtable, with its pointers.                                            *)
(*                                                                         *)
(* A node is named by the key and the sequence of its record.  next[n][i]  *)
(* is the successor of node n on level i; the height of a node is drawn at *)
(* random when it is inserted, so Put takes it as a parameter.             *)
(***************************************************************************)
EXTENDS Records, SequencesExt

CONSTANT MaxLevel   \* maxLevel

ASSUME SkipListAssumption == MaxLevel \in Nat \ {0}

HeadNode == <<>>
Nil == <<"nil">>
Node(rec) == <<rec.key, rec.seq>>

EmptyList ==
  [next |-> [n \in {HeadNode} |-> [i \in 1..MaxLevel |-> Nil]],
   val |-> <<>>, level |-> 1, keyCount |-> 0]

\* Keys ascend and the sequences of a key descend.
less(a, b) == a[1] < b[1] \/ (a[1] = b[1] /\ a[2] > b[2])

\* The last node before target on level i, from node x on.
RECURSIVE Walk(_, _, _, _)
Walk(next, x, i, target) ==
  LET y == next[x][i]
  IN IF y # Nil /\ less(y, target) THEN Walk(next, y, i, target) ELSE x

\* The nodes at which a search for target leaves the levels of the list.
Path(list, target) ==
  LET path[i \in 1..list.level] ==
        Walk(list.next, IF i = list.level THEN HeadNode ELSE path[i + 1], i, target)
  IN path

\* Where the new node is linked on each of its levels: at the head on those the
\* list did not have.
UpdatePath(list, new, newLevel) ==
  [i \in 1..newLevel |-> IF i <= list.level THEN Path(list, new)[i] ELSE HeadNode]

\* Variant: the oldest version of a key does not see the newer ones.
KeyExistsAfter(before, after, key) == after # Nil /\ after[1] = key

\* Another version of the key stands on either side of the new one.
KeyExists(before, after, key) ==
  \/ before # HeadNode /\ before[1] = key
  \/ after # Nil /\ after[1] = key

\* SkipList.Put: replace the record with the same key and sequence, or insert a
\* node of height newLevel.
SkipListPut(list, rec, newLevel) ==
  LET new == Node(rec)
      update == UpdatePath(list, new, newLevel)
      before == Path(list, new)[1]
      after == list.next[before][1]
      linked(n) == [i \in DOMAIN list.next[n] |->
                      IF i <= newLevel /\ update[i] = n THEN new ELSE list.next[n][i]]
  IN IF after = new
     THEN [list EXCEPT !.val[new] = rec.val]
     ELSE [next |-> (new :> [i \in 1..newLevel |-> list.next[update[i]][i]])
                      @@ [n \in DOMAIN list.next |-> linked(n)],
           val |-> (new :> rec.val) @@ list.val,
           level |-> Max({newLevel, list.level}),
           keyCount |-> IF KeyExists(before, after, rec.key)
                        THEN list.keyCount ELSE list.keyCount + 1]

\* The first node whose key is not below key; no sequence is above infinity.
lowerBound(list, key, infinity) ==
  list.next[Path(list, <<key, infinity>>)[1]][1]

\* Iterator.Next to the end, from node n on.
RECURSIVE RecordsFrom(_, _)
RecordsFrom(list, n) ==
  IF n = Nil THEN <<>>
  ELSE <<[key |-> n[1], seq |-> n[2], val |-> list.val[n]]>>
         \o RecordsFrom(list, list.next[n][1])

\* SkipList.Records
ListRecords(list) == RecordsFrom(list, list.next[HeadNode][1])

\* GetAt walks the versions of the key, newest first.
SkipListGetAt(list, key, maxSeq, infinity) ==
  LET from == RecordsFrom(list, lowerBound(list, key, infinity))
      i == SelectInSeq(from, LAMBDA r : r.key # key \/ r.seq <= maxSeq)
  IN IF i # 0 /\ from[i].key = key THEN {from[i]} ELSE {}

\* Every level is the part of the bottom level that is tall enough.
WellLinked(list) ==
  \A i \in 1..list.level :
    LET tall == {n \in DOMAIN list.val : Len(list.next[n]) >= i}
        chain[n \in tall \cup {HeadNode}] ==
          LET m == list.next[n][i]
          IN IF m = Nil THEN {} ELSE {m} \cup chain[m]
    IN /\ chain[HeadNode] = tall
       /\ \A n \in tall : list.next[n][i] # Nil => less(n, list.next[n][i])
=============================================================================
