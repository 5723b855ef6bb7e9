--------------------------- MODULE LevelingProofs ---------------------------
(***************************************************************************)
(* Leveling implements KVStore, for every number of keys, readers and      *)
(* sequences, every threshold and every distribution of file sizes.        *)
(***************************************************************************)
EXTENDS Leveling, CompactionProofs, SequenceTheorems

\* The inductive invariant.  LevelOrder needs NonOverlappingRuns: a merge of
\* one L1 table into L2 must not leave an older version behind on L1.
IInv == TypeOK /\ VersionsUnique /\ LevelOrder /\ NonOverlappingRuns

LEMMA ReadersNat ==
  ASSUME TypeOK
  PROVE  ActiveReaders \subseteq Nat
BY DEF TypeOK, ActiveReaders

LEMMA StoredRecords ==
  ASSUME TypeOK
  PROVE  Stored \subseteq Record /\ AllRecords(tables) \subseteq Record
BY DEF TypeOK, Stored, AllRecords, IsTable

\* The records of a batch are fresh, distinct and well typed.
LEMMA BatchFacts ==
  ASSUME NEW ops \in Batches, NEW seq \in Nat
  PROVE  /\ Len(ops) \in Nat
         /\ BatchRecords(ops, seq) \subseteq Record
         /\ \A r \in BatchRecords(ops, seq) :
              seq <= r.seq /\ r.seq < seq + Consumed(ops)
         /\ \A r, x \in BatchRecords(ops, seq) : r.seq = x.seq => r = x
         /\ Consumed(ops) \in Nat \ {0}
<1>1. ops \in Seq(Operation)
  BY LevelingAssumption
<1>2. Len(ops) \in Nat /\ \A i \in 1..Len(ops) : ops[i] \in Operation
  BY <1>1, LenProperties, ElementOfSeq
<1>3. QED
  BY <1>2 DEF BatchRecords, Consumed, Operation, Record

LEMMA InitInv == Init => IInv
BY DEF Init, IInv, TypeOK, VersionsUnique, LevelOrder, NonOverlappingRuns,
       Stored, AllRecords

LEMMA ApplyBatchInv ==
  ASSUME IInv, NEW ops \in Batches, ApplyBatch(ops)
  PROVE  IInv'
<1> DEFINE new == BatchRecords(ops, nextSeq)
<1>1. nextSeq \in Nat
  BY DEF IInv, TypeOK
<1>2. /\ new \subseteq Record
      /\ \A r \in new : nextSeq <= r.seq /\ r.seq < nextSeq + Consumed(ops)
      /\ \A r, x \in new : r.seq = x.seq => r = x
      /\ Consumed(ops) \in Nat \ {0}
  BY <1>1, BatchFacts
<1>3. Stored' = Stored \cup new
  BY DEF ApplyBatch, Stored
<1>4. \A r \in Stored : r.seq \in Nat /\ r.seq < nextSeq
  BY StoredRecords DEF IInv, VersionsUnique, Record
<1>5. TypeOK'
  BY <1>1, <1>2 DEF IInv, TypeOK, ApplyBatch
<1> HIDE DEF new
<1>6. VersionsUnique'
  <2>1. \A r, x \in Stored' : r.key = x.key /\ r.seq = x.seq => r = x
    BY <1>1, <1>2, <1>3, <1>4 DEF IInv, VersionsUnique, Record
  <2>2. \A r \in Stored' : r.seq < nextSeq'
    BY <1>1, <1>2, <1>3, <1>4 DEF ApplyBatch, Record
  <2>3. \A r \in open' : at'[r] < nextSeq'
    BY <1>1, <1>2 DEF ApplyBatch, IInv, VersionsUnique, TypeOK
  <2>4. QED
    BY <2>1, <2>2, <2>3 DEF VersionsUnique
<1>7. LevelOrder'
  <2>1. ASSUME NEW r \in mem', NEW x \in AllRecords(tables) PROVE x.seq < r.seq
    <3>1. x \in Stored
      BY DEF Stored
    <3>2. CASE r \in mem
      BY <3>2 DEF IInv, LevelOrder
    <3>3. CASE r \in new
      BY <3>1, <3>3, <1>1, <1>2, <1>4 DEF Record
    <3>4. QED
      BY <3>2, <3>3 DEF ApplyBatch, new
  <2>2. QED
    BY <2>1 DEF IInv, LevelOrder, ApplyBatch
<1>8. NonOverlappingRuns'
  BY DEF IInv, NonOverlappingRuns, ApplyBatch
<1>9. QED
  BY <1>5, <1>6, <1>7, <1>8 DEF IInv

LEMMA FlushInv ==
  ASSUME IInv, NEW upTo \in Nat, Flush(upTo)
  PROVE  IInv' /\ Stored' = Stored
<1> DEFINE flushed == {r \in mem : r.seq <= upTo}
           N == NewTable(L0, flushed)
<1>1. mem' = mem \ flushed /\ tables' = tables \cup {N}
  BY DEF Flush
<1>2. IsTable(N) /\ N.level = 0 /\ N.recs = flushed
  BY NewTableIsTable DEF IInv, TypeOK, Level, L0, HighestSupportedLevel
<1>3. mem \subseteq Record /\ \A t \in tables : IsTable(t)
  BY DEF IInv, TypeOK
<1>4. AllRecords(tables') = AllRecords(tables) \cup flushed
  <2> HIDE DEF N, flushed
  <2> QED BY <1>1, <1>2 DEF AllRecords
<1>5. Stored' = Stored
  BY <1>1, <1>4 DEF Stored
<1> HIDE DEF N
<1>6. TypeOK'
  BY <1>1, <1>2 DEF Flush, IInv, TypeOK
<1>7. VersionsUnique'
  BY <1>5 DEF Flush, IInv, VersionsUnique
<1>8. LevelOrder'
  <2>1. ASSUME NEW r \in mem', NEW x \in AllRecords(tables')
        PROVE  x.seq < r.seq
    <3>1. r \in mem /\ r.seq \in Nat /\ ~(r.seq <= upTo)
      BY <1>1, <1>3 DEF Record
    <3>2. CASE x \in AllRecords(tables)
      BY <3>1, <3>2 DEF IInv, LevelOrder
    <3>3. CASE x \in flushed
      BY <3>1, <3>3, <1>3 DEF Record
    <3>4. QED
      BY <3>2, <3>3, <1>4
  <2>2. ASSUME NEW t \in tables', NEW u \in tables', t.level < u.level,
               NEW r \in t.recs, NEW x \in u.recs, r.key = x.key
        PROVE  x.seq < r.seq
    <3>1. u \in tables
      <4> SUFFICES ASSUME u = N PROVE FALSE
        BY <1>1
      <4>1. t.level \in Nat
        BY <1>1, <1>2, <1>3 DEF IsTable, Level, L0, HighestSupportedLevel
      <4> QED BY <4>1, <2>2, <1>2
    <3>2. CASE t \in tables
      BY <3>1, <3>2, <2>2 DEF IInv, LevelOrder
    <3>3. CASE t = N
      <4>1. r \in mem /\ x \in AllRecords(tables)
        BY <3>1, <3>3, <1>2 DEF AllRecords
      <4> QED BY <4>1 DEF IInv, LevelOrder
    <3>4. QED
      BY <3>2, <3>3, <1>1
  <2>3. QED
    BY <2>1, <2>2 DEF LevelOrder
<1>9. NonOverlappingRuns'
  BY <1>1, <1>2 DEF IInv, NonOverlappingRuns, L0
<1>10. QED
  BY <1>5, <1>6, <1>7, <1>8, <1>9 DEF IInv

\* Tables of one run share no key.
LEMMA RunsShareNoKey ==
  ASSUME IInv, NEW t \in tables, NEW u \in tables, t # u,
         t.level = u.level, t.level > L0,
         NEW r \in t.recs, NEW x \in u.recs
  PROVE  r.key # x.key
<1>1. t.largest < u.smallest \/ u.largest < t.smallest
  BY DEF IInv, NonOverlappingRuns
<1>2. IsTable(t) /\ IsTable(u)
  BY DEF IInv, TypeOK
<1>3. r.key \in Nat /\ x.key \in Nat
  BY <1>2 DEF IsTable, Record, Key
<1>4. QED
  BY <1>1, <1>2, <1>3, TableBounds

\* What a compaction removes and what it adds.
LEMMA CompactShape ==
  ASSUME IInv, NEW threshold, Compact(threshold)
  PROVE  \E l \in {0, 1} : \E selected \in SUBSET AtLevel(tables, l) :
         \E inputs \in SUBSET tables : \E N :
           /\ inputs = selected \cup overlapping(tables, selected, l + 1)
           /\ l = 0 => selected = AtLevel(tables, l)
           /\ tables' = (tables \ inputs) \cup {N}
           /\ IsTable(N) /\ N.level = l + 1
           /\ N.recs = MergeSSTables(AllRecords(inputs), ActiveReaders, l = 1)
           /\ N.recs \subseteq AllRecords(inputs)
           /\ \A t \in inputs : t \in selected \/ t.level = l + 1
<1>1. PICK plan \in Plans(tables, threshold) :
        tables' = (tables \ plan.inputs) \cup {MergedTable(plan, ActiveReaders)}
  BY DEF Compact
<1>2. PICK l \in {0, 1} : \E selected \in SUBSET AtLevel(tables, l) :
           /\ plan.target = l + 1
           /\ plan.inputs = selected \cup overlapping(tables, selected, l + 1)
           /\ l = 0 => selected = AtLevel(tables, l)
  BY PlanShape
<1>3. PICK selected \in SUBSET AtLevel(tables, l) :
           /\ plan.target = l + 1
           /\ plan.inputs = selected \cup overlapping(tables, selected, l + 1)
           /\ l = 0 => selected = AtLevel(tables, l)
  BY <1>2
<1> DEFINE inputs == plan.inputs
           recs == MergeSSTables(AllRecords(inputs), ActiveReaders, l = 1)
           N == NewTable(l + 1, recs)
<1>4. inputs \subseteq tables
  BY <1>3 DEF overlapping, AtLevel
<1>5. recs \subseteq AllRecords(inputs) /\ AllRecords(inputs) \subseteq Record
  <2>1. recs \subseteq AllRecords(inputs)
    BY MergeSubset
  <2>2. AllRecords(inputs) \subseteq AllRecords(tables)
    BY <1>4 DEF AllRecords
  <2>3. QED
    BY <2>1, <2>2, StoredRecords DEF IInv
<1>6. MergedTable(plan, ActiveReaders) = N
  <2>1. (plan.target = HighestSupportedLevel) = (l = 1)
    BY <1>3 DEF HighestSupportedLevel, L0
  <2>2. QED
    BY <2>1, <1>3 DEF MergedTable
<1>7. l + 1 \in Level
  BY DEF Level, L0, HighestSupportedLevel
<1>8. IsTable(N) /\ N.level = l + 1 /\ N.recs = recs
  <2>1. recs \subseteq Record
    BY <1>5
  <2> HIDE DEF recs
  <2>2. QED
    BY <2>1, <1>7, NewTableIsTable
<1>9. \A t \in inputs : t \in selected \/ t.level = l + 1
  BY <1>3 DEF overlapping, AtLevel
<1> HIDE DEF N, recs
<1>10. /\ inputs = selected \cup overlapping(tables, selected, l + 1)
       /\ l = 0 => selected = AtLevel(tables, l)
       /\ tables' = (tables \ inputs) \cup {N}
  BY <1>1, <1>3, <1>6
<1>11. N.recs = MergeSSTables(AllRecords(inputs), ActiveReaders, l = 1)
  BY <1>8 DEF recs
<1> HIDE DEF inputs
<1>12. QED
  BY <1>4, <1>5, <1>8, <1>9, <1>10, <1>11

\* compactLocked keeps the levels ordered and their runs disjoint, and what
\* it leaves outside the merge is newer when tombstones are dropped.
LEMMA CompactInv ==
  ASSUME IInv, NEW threshold, Compact(threshold)
  PROVE  /\ IInv'
         /\ Stored' \subseteq Stored
         /\ \A k \in Key, q \in Nat : q \in ActiveReaders \/ q >= nextSeq
              => GetAt(Stored', k, q) = GetAt(Stored, k, q)
<1>1. PICK l \in {0, 1} : \E selected \in SUBSET AtLevel(tables, l) :
         \E inputs \in SUBSET tables : \E N :
           /\ inputs = selected \cup overlapping(tables, selected, l + 1)
           /\ l = 0 => selected = AtLevel(tables, l)
           /\ tables' = (tables \ inputs) \cup {N}
           /\ IsTable(N) /\ N.level = l + 1
           /\ N.recs = MergeSSTables(AllRecords(inputs), ActiveReaders, l = 1)
           /\ N.recs \subseteq AllRecords(inputs)
           /\ \A t \in inputs : t \in selected \/ t.level = l + 1
  BY CompactShape
<1>2. PICK selected \in SUBSET AtLevel(tables, l), inputs \in SUBSET tables, N \in tables' :
           /\ inputs = selected \cup overlapping(tables, selected, l + 1)
           /\ l = 0 => selected = AtLevel(tables, l)
           /\ tables' = (tables \ inputs) \cup {N}
           /\ IsTable(N) /\ N.level = l + 1
           /\ N.recs = MergeSSTables(AllRecords(inputs), ActiveReaders, l = 1)
           /\ N.recs \subseteq AllRecords(inputs)
           /\ \A t \in inputs : t \in selected \/ t.level = l + 1
  BY <1>1
<1> DEFINE S == AllRecords(inputs)
           kept == AllRecords(tables \ inputs)
           rest == mem \cup kept
<1>3. /\ UNCHANGED <<mem, nextSeq, open, at>>
      /\ Stored = rest \cup S
      /\ Stored' = rest \cup N.recs
      /\ AllRecords(tables') = kept \cup N.recs
      /\ AllRecords(tables) = kept \cup S
  <2>1. UNCHANGED <<mem, nextSeq, open, at>>
    BY DEF Compact
  <2>2. AllRecords(tables') = kept \cup N.recs
    <3>1. tables' = (tables \ inputs) \cup {N}
      BY <1>2
    <3>2. QED
      BY <3>1 DEF AllRecords
  <2>3. AllRecords(tables) = kept \cup S
    BY inputs \in SUBSET tables DEF AllRecords
  <2>4. QED
    BY <2>1, <2>2, <2>3 DEF Stored
<1>4. Stored' \subseteq Stored
  BY <1>2, <1>3
<1>5. \A t \in tables : IsTable(t)
  BY DEF IInv, TypeOK
<1>6. TypeOK'
  BY <1>2, <1>3 DEF IInv, TypeOK
<1>7. VersionsUnique'
  BY <1>3, <1>4 DEF IInv, VersionsUnique
<1>8. \A t \in inputs : t.level \in {l, l + 1}
  BY <1>2 DEF AtLevel
<1>9. ASSUME NEW t \in tables \ inputs, NEW w \in inputs, t.level < l + 1,
             NEW r \in t.recs, NEW x \in w.recs, r.key = x.key
      PROVE  x.seq < r.seq
  <2>1. t.level \in {0, 1, 2}
    BY <1>5 DEF IsTable, Level, L0, HighestSupportedLevel
  <2>2. CASE t.level < w.level
    BY <2>2, <1>9 DEF IInv, LevelOrder
  <2>3. CASE ~(t.level < w.level)
    <3>1. l = 1 /\ t.level = 1 /\ w.level = 1
      BY <2>1, <2>3, <1>2, <1>8, <1>9 DEF AtLevel
    <3>2. t # w
      BY <1>9
    <3>3. QED
      BY <3>1, <3>2, <1>2, <1>9, RunsShareNoKey DEF L0
  <2>4. QED
    BY <2>2, <2>3
<1>10. LevelOrder'
  <2>1. ASSUME NEW r \in mem', NEW x \in AllRecords(tables')
        PROVE  x.seq < r.seq
    BY <2>1, <1>2, <1>3 DEF IInv, LevelOrder
  <2>2. ASSUME NEW t \in tables', NEW u \in tables', t.level < u.level,
               NEW r \in t.recs, NEW x \in u.recs, r.key = x.key
        PROVE  x.seq < r.seq
    <3>1. CASE t \in tables \ inputs /\ u \in tables \ inputs
      BY <3>1, <2>2 DEF IInv, LevelOrder
    <3>2. CASE t \in tables \ inputs /\ u = N
      <4>1. PICK w \in inputs : x \in w.recs
        BY <3>2, <1>2, <2>2 DEF AllRecords
      <4>2. QED
        BY <4>1, <3>2, <1>2, <1>9, <2>2
    <3>3. CASE t = N /\ u \in tables \ inputs
      <4>1. PICK w \in inputs : r \in w.recs
        BY <3>3, <1>2, <2>2 DEF AllRecords
      <4>2. u.level \in {0, 1, 2}
        BY <3>3, <1>5 DEF IsTable, Level, L0, HighestSupportedLevel
      <4>3. w.level < u.level /\ u \in tables /\ w \in tables
        BY <4>2, <3>3, <1>2, <1>8, <2>2
      <4>4. QED
        BY <4>1, <4>3, <2>2 DEF IInv, LevelOrder
    <3>4. CASE t = N /\ u = N
      BY <3>4, <2>2, <1>2
    <3>5. QED
      BY <3>1, <3>2, <3>3, <3>4, <1>2
  <2>3. QED
    BY <2>1, <2>2 DEF LevelOrder
<1>11. ASSUME NEW u \in tables \ inputs, u.level = l + 1,
              u.recs # {}, N.recs # {}
       PROVE  N.largest < u.smallest \/ u.largest < N.smallest
  <2>1. u \in AtLevel(tables, l + 1)
        /\ u \notin overlapping(tables, selected, l + 1)
    BY <1>2, <1>11 DEF AtLevel
  <2>2. /\ \/ \A s \in selected : u.largest < s.smallest
           \/ \A s \in selected : s.largest < u.smallest
        /\ \A s \in selected \cup AtLevel(tables, l + 1) : hasKeyRange(s)
    BY <2>1, <1>5, LeftOutIsDisjoint
  <2>3. ASSUME NEW w \in inputs PROVE
             /\ IsTable(w) /\ w.recs # {}
             /\ w.smallest \in Nat /\ w.largest \in Nat
             /\ \A r \in w.recs : /\ r.key \in Nat
                                  /\ w.smallest <= r.key /\ r.key <= w.largest
             /\ w.smallest <= w.largest
    <3>1. IsTable(w) /\ hasKeyRange(w)
      BY <1>2, <1>5, <2>2, <2>3 DEF AtLevel
    <3>2. \A r \in w.recs : r.key \in Nat
      BY <3>1 DEF IsTable, Record, Key
    <3>3. /\ w.smallest \in Nat /\ w.largest \in Nat /\ w.recs # {}
          /\ \A r \in w.recs : w.smallest <= r.key /\ r.key <= w.largest
      BY <3>1, TableBounds
    <3>4. QED
      BY <3>1, <3>2, <3>3
  <2>4. u.smallest \in Nat /\ u.largest \in Nat /\ u.smallest <= u.largest
    <3>1. PICK r \in u.recs : TRUE
      BY <1>11
    <3>2. IsTable(u) /\ r.key \in Nat
      BY <1>5 DEF IsTable, Record, Key
    <3>3. QED
      BY <3>2, TableBounds
  <2>5. /\ N.smallest \in Nat /\ N.largest \in Nat
        /\ \E r \in N.recs : r.key = N.smallest
        /\ \E r \in N.recs : r.key = N.largest
    BY <1>2, <1>11, TableBounds
  <2>6. ASSUME NEW w \in inputs, w \notin selected
        PROVE  w.largest < u.smallest \/ u.largest < w.smallest
    <3>1. w \in tables /\ w # u /\ w.level = l + 1 /\ w.recs # {}
      BY <1>2, <2>3, <2>6, <1>11
    <3>2. QED
      BY <3>1, <1>11 DEF IInv, NonOverlappingRuns, L0
  <2>7. ASSUME NEW w \in inputs, w \notin selected
        PROVE  overlapsCombinedRange(selected, w)
    <3>1. w \in overlapping(tables, selected, l + 1)
      BY <1>2, <2>7
    <3>2. QED
      BY <3>1, <2>2 DEF overlapping
  <2>8. selected \subseteq inputs
    BY <1>2
  <2>9. CASE \A s \in selected : u.largest < s.smallest
    <3>1. ASSUME NEW w \in inputs PROVE u.largest < w.smallest
      <4>1. CASE w \in selected
        BY <4>1, <2>9
      <4>2. CASE w \notin selected
        <5>1. PICK s \in selected : s.smallest <= w.largest
          BY <4>2, <2>7 DEF overlapsCombinedRange
        <5>2. u.largest < w.largest
          BY <5>1, <2>3, <2>4, <2>8, <2>9
        <5>3. QED
          BY <5>2, <2>3, <2>4, <2>6, <4>2
      <4>3. QED
        BY <4>1, <4>2
    <3>2. \A r \in N.recs : u.largest < r.key
      BY <3>1, <2>3, <2>4, <1>2 DEF AllRecords
    <3>3. QED
      BY <3>2, <2>5
  <2>10. CASE \A s \in selected : s.largest < u.smallest
    <3>1. ASSUME NEW w \in inputs PROVE w.largest < u.smallest
      <4>1. CASE w \in selected
        BY <4>1, <2>10
      <4>2. CASE w \notin selected
        <5>1. PICK s \in selected : w.smallest <= s.largest
          BY <4>2, <2>7 DEF overlapsCombinedRange
        <5>2. w.smallest < u.smallest
          BY <5>1, <2>3, <2>4, <2>8, <2>10
        <5>3. QED
          BY <5>2, <2>3, <2>4, <2>6, <4>2
      <4>3. QED
        BY <4>1, <4>2
    <3>2. \A r \in N.recs : r.key < u.smallest
      BY <3>1, <2>3, <2>4, <1>2 DEF AllRecords
    <3>3. QED
      BY <3>2, <2>5
  <2>11. QED
    BY <2>2, <2>9, <2>10
<1>12. NonOverlappingRuns'
  <2> SUFFICES ASSUME NEW t \in tables', NEW u \in tables',
                      t # u, t.level = u.level, t.level > L0,
                      t.recs # {}, u.recs # {}
               PROVE  t.largest < u.smallest \/ u.largest < t.smallest
    BY DEF NonOverlappingRuns
  <2>1. CASE t \in tables \ inputs /\ u \in tables \ inputs
    BY <2>1 DEF IInv, NonOverlappingRuns
  <2>2. CASE t = N /\ u \in tables \ inputs
    BY <2>2, <1>2, <1>11
  <2>3. CASE t \in tables \ inputs /\ u = N
    BY <2>3, <1>2, <1>11
  <2>4. QED
    BY <2>1, <2>2, <2>3, <1>2
<1>13. l = 1 => \A r \in S, x \in rest : r.key = x.key => r.seq < x.seq
  <2> SUFFICES ASSUME l = 1, NEW r \in S, NEW x \in rest, r.key = x.key
               PROVE  r.seq < x.seq
    OBVIOUS
  <2>1. CASE x \in mem
    <3>1. r \in AllRecords(tables)
      BY <1>3
    <3>2. QED
      BY <2>1, <3>1 DEF IInv, LevelOrder
  <2>2. CASE x \in kept
    <3>1. PICK t \in tables \ inputs : x \in t.recs
      BY <2>2 DEF AllRecords
    <3>2. PICK w \in inputs : r \in w.recs
      BY DEF AllRecords
    <3>3. t.level \in {0, 1, 2}
      BY <1>5 DEF IsTable, Level, L0, HighestSupportedLevel
    <3>4. CASE t.level < 2
      BY <3>1, <3>2, <3>4, <1>9
    <3>5. CASE t.level = 2
      <4>1. CASE w.level = 2
        <5>1. t # w /\ w \in tables
          BY <3>2
        <5>2. QED
          BY <3>1, <3>2, <3>5, <4>1, <5>1, RunsShareNoKey DEF L0
      <4>2. CASE w.level = 1
        <5>1. \/ \A s \in selected : t.largest < s.smallest
              \/ \A s \in selected : s.largest < t.smallest
          <6>1. t \in AtLevel(tables, 2)
            BY <3>5 DEF AtLevel
          <6>2. inputs = selected \cup overlapping(tables, selected, 2)
            BY <1>2
          <6>3. t \notin overlapping(tables, selected, 2)
            BY <6>2
          <6>4. QED
            BY <1>5, <6>1, <6>3, LeftOutIsDisjoint
        <5>2. w \in selected
          BY <4>2, <1>2
        <5>3. IsTable(t) /\ IsTable(w)
          BY <1>5
        <5>4. x.key \in Nat /\ r.key \in Nat
          BY <5>3, <3>1, <3>2 DEF IsTable, Record, Key
        <5>5. QED
          BY <5>1, <5>2, <5>3, <5>4, <3>1, <3>2, TableBounds
      <4>3. QED
        BY <4>1, <4>2, <1>8
    <3>6. QED
      BY <3>3, <3>4, <3>5
  <2>3. QED
    BY <2>1, <2>2
<1>14. \A k \in Key, q \in Nat : q \in ActiveReaders \/ q >= nextSeq
              => GetAt(Stored', k, q) = GetAt(Stored, k, q)
  <2>1. S \subseteq Record /\ rest \subseteq Record
    BY <1>3, StoredRecords DEF IInv
  <2>2. /\ \A r, x \in rest \cup S : r.key = x.key /\ r.seq = x.seq => r = x
        /\ \A r \in rest \cup S : r.seq < nextSeq
    BY <1>3 DEF IInv, VersionsUnique
  <2>3. nextSeq \in Nat /\ ActiveReaders \subseteq Nat
    BY ReadersNat DEF IInv, TypeOK
  <2>4. N.recs = MergeSSTables(S, ActiveReaders, l = 1)
    BY <1>2
  <2> SUFFICES ASSUME NEW k \in Key, NEW q \in Nat,
                      q \in ActiveReaders \/ q >= nextSeq
               PROVE  GetAt(rest \cup N.recs, k, q) = GetAt(rest \cup S, k, q)
    BY <1>3
  <2> DEFINE drop == l = 1
  <2>6. drop \in BOOLEAN /\ N.recs = MergeSSTables(S, ActiveReaders, drop)
    BY <2>4
  <2>7. drop => \A r \in S, x \in rest : r.key = x.key => r.seq < x.seq
    BY <1>13
  <2> HIDE DEF S, rest, drop
  <2>8. SafeMerge(S, rest, nextSeq, ActiveReaders, drop)
    BY <2>1, <2>2, <2>3, <2>6, <2>7 DEF SafeMerge
  <2>9. GetAt(rest \cup MergeSSTables(S, ActiveReaders, drop), k, q)
          = GetAt(rest \cup S, k, q)
    BY <2>8, MergePreservesReads
  <2>10. QED
    BY <2>6, <2>9
<1>15. QED
  BY <1>4, <1>6, <1>7, <1>10, <1>12, <1>14 DEF IInv

LEMMA ReadersInv ==
  ASSUME IInv, NEW r \in Reader, NEW from \in Reader,
         NewSnapshot(r) \/ CloseReader(r) \/ NewSnapshotIterator(r, from)
  PROVE  IInv'
<1>1. UNCHANGED <<mem, tables, nextSeq>>
  BY DEF NewSnapshot, CloseReader, NewSnapshotIterator
<1>2. Stored' = Stored
  BY <1>1 DEF Stored
<1>3. TypeOK' /\ \A x \in open' : at'[x] < nextSeq
  <2>1. nextSeq - 1 \in Nat /\ nextSeq - 1 < nextSeq /\ 0 < nextSeq
    BY DEF IInv, TypeOK
  <2>2. QED
    BY <1>1, <2>1 DEF NewSnapshot, CloseReader, NewSnapshotIterator, IInv,
                      TypeOK, VersionsUnique
<1>4. VersionsUnique'
  BY <1>1, <1>2, <1>3 DEF IInv, VersionsUnique
<1>5. LevelOrder' /\ NonOverlappingRuns'
  BY <1>1 DEF IInv, LevelOrder, NonOverlappingRuns
<1>6. QED
  BY <1>3, <1>4, <1>5 DEF IInv

LEMMA ReopenInv ==
  ASSUME IInv, NEW seq \in 1..nextSeq, Reopen(seq)
  PROVE  IInv'
<1>1. UNCHANGED <<mem, tables>> /\ Stored' = Stored
  BY DEF Reopen, Stored
<1>2. seq \in Nat \ {0}
  BY DEF IInv, TypeOK
<1>3. TypeOK'
  BY <1>1, <1>2 DEF Reopen, IInv, TypeOK
<1>4. VersionsUnique'
  BY <1>1 DEF Reopen, IInv, VersionsUnique
<1>5. LevelOrder' /\ NonOverlappingRuns'
  BY <1>1 DEF IInv, LevelOrder, NonOverlappingRuns
<1>6. QED
  BY <1>3, <1>4, <1>5 DEF IInv

LEMMA NextInv == IInv /\ [Next]_vars => IInv'
<1> SUFFICES ASSUME IInv, [Next]_vars PROVE IInv'
  OBVIOUS
<1>1. ASSUME NEW ops \in Batches, ApplyBatch(ops) PROVE IInv'
  BY <1>1, ApplyBatchInv
<1>2. ASSUME NEW upTo \in 1..(nextSeq - 1), Flush(upTo) PROVE IInv'
  BY <1>2, FlushInv
<1>3. ASSUME NEW threshold \in Thresholds, Compact(threshold) PROVE IInv'
  BY <1>3, CompactInv
<1>4. ASSUME NEW r \in Reader, NEW from \in Reader,
             NewSnapshot(r) \/ CloseReader(r) \/ NewSnapshotIterator(r, from)
      PROVE  IInv'
  BY <1>4, ReadersInv
<1>5. ASSUME NEW seq \in 1..nextSeq, Reopen(seq) PROVE IInv'
  BY <1>5, ReopenInv
<1>6. CASE UNCHANGED vars
  BY <1>6 DEF vars, IInv, TypeOK, VersionsUnique, LevelOrder,
              NonOverlappingRuns, Stored
<1>7. QED
  BY <1>1, <1>2, <1>3, <1>4, <1>5, <1>6 DEF Next

\* The inductive invariant holds in every reachable state.
THEOREM Invariance == Spec => []IInv
BY InitInv, NextInv, PTL DEF Spec

\* State stays well typed and the metadata of every table describes its file.
THEOREM TypeCorrect == Spec => []TypeOK
<1>1. IInv => TypeOK
  BY DEF IInv
<1>2. QED
  BY <1>1, Invariance, PTL

\* compactLocked and flushImmutableMemtable keep newer versions above older
\* ones, whatever the interleaving with writers and readers.
THEOREM LevelsOrdered == Spec => []LevelOrder
<1>1. IInv => LevelOrder
  BY DEF IInv
<1>2. QED
  BY <1>1, Invariance, PTL

\* PickCompaction keeps L1 and L2 free of overlapping ranges, also when keys
\* are empty strings or tables have no records.
THEOREM RunsDisjoint == Spec => []NonOverlappingRuns
<1>1. IInv => NonOverlappingRuns
  BY DEF IInv
<1>2. QED
  BY <1>1, Invariance, PTL

\* Sequences identify versions and are never reallocated while stored.
THEOREM VersionsIdentified == Spec => []VersionsUnique
<1>1. IInv => VersionsUnique
  BY DEF IInv
<1>2. QED
  BY <1>1, Invariance, PTL
-----------------------------------------------------------------------------
\* Reading without a bound is reading at any sequence not yet allocated.
LEMMA GetIsGetAt ==
  ASSUME NEW S, S \subseteq Record, NEW k, NEW b \in Int,
         \A r \in S : r.seq <= b
  PROVE  Get(S, k) = GetAt(S, k, b)
<1>1. {r \in S : r.key = k} = {r \in S : r.key = k /\ r.seq <= b}
  OBVIOUS
<1>2. QED
  BY <1>1 DEF Get, GetAt

\* The empty database is the empty map.
LEMMA InitRefines == Init => KV!Init
<1> SUFFICES ASSUME Init PROVE KV!Init
  OBVIOUS
<1>1. Stored = {} /\ open = {}
  BY DEF Init, Stored, AllRecords
<1>2. \A k \in Key : Get(Stored, k) = {}
  BY <1>1 DEF Get, Result, Newest
<1>3. QED
  BY <1>1, <1>2 DEF KV!Init, KV!EmptyMap, KV!Key, Key

\* A batch becomes visible to current reads at once, the last operation on a
\* key winning, and to no snapshot.
LEMMA ApplyBatchRefines ==
  ASSUME IInv, NEW ops \in Batches, ApplyBatch(ops)
  PROVE  KV!ApplyBatch(ops)
<1> DEFINE new == BatchRecords(ops, nextSeq)
<1>1. nextSeq \in Nat
  BY DEF IInv, TypeOK
<1>2. /\ new \subseteq Record
      /\ \A r \in new : nextSeq <= r.seq
      /\ Len(ops) \in Nat
  BY <1>1, BatchFacts
<1>3. Stored' = Stored \cup new /\ UNCHANGED <<open, at>>
  BY DEF ApplyBatch, Stored
<1>4. Stored \subseteq Record /\ \A r \in Stored : r.seq \in Nat /\ r.seq < nextSeq
  BY StoredRecords DEF IInv, VersionsUnique, Record
<1>5. ASSUME NEW k \in Key
      PROVE  Get(Stored', k) = IF KV!Writes(ops, k) = {} THEN Get(Stored, k)
                 ELSE {ops[Max(KV!Writes(ops, k))].val} \ {Tombstone}
  <2> DEFINE Wk == KV!Writes(ops, k)
             V == {r \in Stored' : r.key = k}
  <2>1. Wk = {i \in 1..Len(ops) : ops[i].key = k}
    BY DEF KV!Writes
  <2>2. CASE Wk = {}
    <3>1. \A r \in new : r.key # k
      BY <2>1, <2>2 DEF BatchRecords
    <3>2. V = {r \in Stored : r.key = k}
      BY <3>1, <1>3
    <3>3. QED
      BY <3>2, <2>2 DEF Get
  <2>3. CASE Wk # {}
    <3>1. \E m \in Wk : \A i \in Wk : m >= i
      <4>1. Wk \subseteq Nat /\ \A i \in Wk : i <= Len(ops)
        BY <2>1, <1>2
      <4> HIDE DEF Wk
      <4>2. \E m \in Wk : \A i \in Wk : i <= m
        BY <4>1, <2>3, <1>2, MaximumExists
      <4>3. QED
        BY <4>1, <4>2
    <3> DEFINE m == Max(Wk)
    <3>2. m \in Wk /\ \A i \in Wk : m >= i
      BY <3>1 DEF Max
    <3> HIDE DEF m
    <3> DEFINE last == [key |-> ops[m].key, seq |-> nextSeq + m - 1,
                        val |-> ops[m].val]
    <3>3. last \in new /\ last.key = k
      BY <2>1, <3>2 DEF BatchRecords
    <3>4. ASSUME NEW y \in V PROVE y.seq <= last.seq /\ (y.seq = last.seq => y = last)
      <4>1. m \in Nat \ {0}
        BY <2>1, <3>2, <1>2
      <4>2. CASE y \in Stored
        BY <4>1, <4>2, <1>1, <1>4
      <4>3. CASE y \in new
        <5>1. PICK i \in 1..Len(ops) : y = [key |-> ops[i].key,
                          seq |-> nextSeq + i - 1, val |-> ops[i].val]
          BY <4>3 DEF BatchRecords
        <5>2. i \in Wk
          BY <5>1, <2>1, <3>4
        <5>3. i <= m
          BY <5>2, <4>1, <3>2, <1>2
        <5>4. QED
          BY <5>1, <5>3, <4>1, <1>1, <1>2
      <4>4. QED
        BY <4>2, <4>3, <1>3
    <3>5. last \in V
      BY <3>3, <1>3
    <3>6. Newest(V) = {last}
      <4>1. last \in Newest(V)
        BY <3>4, <3>5 DEF Newest
      <4>2. ASSUME NEW y \in Newest(V) PROVE y = last
        <5>1. y \in V /\ last.seq <= y.seq
          BY <3>5 DEF Newest
        <5>2. y.seq \in Nat /\ last.seq \in Nat
          BY <5>1, <3>5, <1>2, <1>3, <1>4 DEF Record
        <5>3. QED
          BY <5>1, <5>2, <3>4
      <4>3. QED
        BY <4>1, <4>2
    <3>7. Get(Stored', k) = {ops[m].val} \ {Tombstone}
      <4>1. Get(Stored', k) = Result(V)
        BY DEF Get
      <4>2. last.val = ops[m].val
        OBVIOUS
      <4> HIDE DEF V, last
      <4>3. {r.val : r \in Newest(V)} = {last.val}
        BY <3>6
      <4>4. QED
        BY <4>1, <4>2, <4>3 DEF Result
    <3>8. QED
      BY <3>7, <2>3 DEF m
  <2>4. QED
    BY <2>2, <2>3
<1>6. ASSUME NEW r \in open, NEW k \in Key
      PROVE  GetAt(Stored', k, at[r]) = GetAt(Stored, k, at[r])
  <2>1. at[r] \in Nat /\ at[r] < nextSeq
    BY DEF IInv, TypeOK, VersionsUnique
  <2>2. {x \in Stored' : x.key = k /\ x.seq <= at[r]}
          = {x \in Stored : x.key = k /\ x.seq <= at[r]}
    BY <2>1, <1>1, <1>2, <1>3 DEF Record
  <2>3. QED
    BY <2>2 DEF GetAt
<1> HIDE DEF new
<1>7. \A k \in Key : KV!Max(KV!Writes(ops, k)) = Max(KV!Writes(ops, k))
  BY DEF KV!Max, Max
<1>8. KV!Applied([k \in Key |-> Get(Stored, k)], ops)
        = [k \in Key |-> Get(Stored', k)]
  BY <1>5, <1>7 DEF KV!Applied, KV!Key, Key
<1>9. [r \in Reader |-> [k \in Key |->
         IF r \in open THEN GetAt(Stored, k, at[r]) ELSE {}]]'
        = [r \in Reader |-> [k \in Key |->
             IF r \in open THEN GetAt(Stored, k, at[r]) ELSE {}]]
  BY <1>3, <1>6
<1>10. QED
  BY <1>3, <1>8, <1>9 DEF KV!ApplyBatch

\* Flushes and compactions are invisible.
LEMMA BackgroundRefines ==
  ASSUME IInv,
         \/ \E upTo \in 1..(nextSeq - 1) : Flush(upTo)
         \/ \E threshold \in Thresholds : Compact(threshold)
  PROVE  UNCHANGED KV!kvVars
<1>1. UNCHANGED <<open, at, nextSeq>>
  BY DEF Flush, Compact
<1>2. /\ Stored' \subseteq Stored
      /\ \A k \in Key, q \in Nat : q \in ActiveReaders \/ q >= nextSeq
           => GetAt(Stored', k, q) = GetAt(Stored, k, q)
  <2>1. CASE \E upTo \in 1..(nextSeq - 1) : Flush(upTo)
    BY <2>1, FlushInv
  <2>2. CASE \E threshold \in Thresholds : Compact(threshold)
    BY <2>2, CompactInv
  <2>3. QED
    BY <2>1, <2>2
<1>3. nextSeq \in Nat /\ Stored \subseteq Record
      /\ \A r \in Stored : r.seq <= nextSeq
  BY StoredRecords DEF IInv, TypeOK, VersionsUnique, Record
<1>4. \A k \in Key : Get(Stored', k) = Get(Stored, k)
  <2> SUFFICES ASSUME NEW k \in Key PROVE Get(Stored', k) = Get(Stored, k)
    OBVIOUS
  <2>1. Get(Stored, k) = GetAt(Stored, k, nextSeq)
    BY <1>3, GetIsGetAt
  <2>2. Get(Stored', k) = GetAt(Stored', k, nextSeq)
    <3>1. Stored' \subseteq Record /\ \A r \in Stored' : r.seq <= nextSeq
      BY <1>2, <1>3
    <3> DEFINE T == Stored'
    <3> HIDE DEF T
    <3>2. Get(T, k) = GetAt(T, k, nextSeq)
      BY <1>3, <3>1, GetIsGetAt DEF T
    <3>3. QED
      BY <3>2 DEF T
  <2>3. QED
    BY <2>1, <2>2, <1>2, <1>3
<1>5. \A r \in open, k \in Key : GetAt(Stored', k, at[r]) = GetAt(Stored, k, at[r])
  BY <1>2 DEF ActiveReaders, IInv, TypeOK
<1>6. QED
  BY <1>1, <1>4, <1>5 DEF KV!kvVars

\* Opening and closing handles, and reopening the database.
LEMMA ReadersRefine ==
  ASSUME IInv, NEW r \in Reader, NEW from \in Reader
  PROVE  /\ NewSnapshot(r) => KV!NewSnapshot(r)
         /\ CloseReader(r) => KV!CloseReader(r)
         /\ NewSnapshotIterator(r, from) => KV!NewSnapshotIterator(r, from)
<1>1. ASSUME UNCHANGED <<mem, tables>> PROVE Stored' = Stored
  BY <1>1 DEF Stored
<1>2. ASSUME NEW k \in Key PROVE GetAt(Stored, k, nextSeq - 1) = Get(Stored, k)
  <2>1. /\ nextSeq - 1 \in Int /\ Stored \subseteq Record
        /\ \A x \in Stored : x.seq <= nextSeq - 1
    BY StoredRecords DEF IInv, TypeOK, VersionsUnique, Record
  <2>2. QED
    BY <2>1, GetIsGetAt
<1>3. at \in [Reader -> Nat]
  BY DEF IInv, TypeOK
<1>4. NewSnapshot(r) => KV!NewSnapshot(r)
  <2> HAVE NewSnapshot(r)
  <2>1. /\ r \notin open /\ open' = open \cup {r} /\ Stored' = Stored
        /\ at'[r] = nextSeq - 1
        /\ \A x \in open : at'[x] = at[x]
    BY <1>1, <1>3 DEF NewSnapshot, IInv, TypeOK
  <2>2. [k \in Key |-> GetAt(Stored, k, nextSeq - 1)]
          = [k \in Key |-> Get(Stored, k)]
    BY <1>2
  <2> DEFINE now == [k \in Key |-> Get(Stored, k)]
             view(x) == [k \in Key |-> IF x \in open THEN GetAt(Stored, k, at[x]) ELSE {}]
             after(x) == [k \in Key |-> IF x \in open' THEN GetAt(Stored', k, at'[x]) ELSE {}]
  <2>3. ASSUME NEW x \in Reader PROVE after(x) = IF x = r THEN now ELSE view(x)
    <3>1. CASE x = r
      <4>1. after(x) = [k \in Key |-> GetAt(Stored, k, nextSeq - 1)]
        BY <2>1, <3>1
      <4>2. QED
        BY <2>2, <3>1, <4>1
    <3>2. CASE x # r
      <4>1. /\ x \in open' <=> x \in open
            /\ x \in open => at'[x] = at[x]
        BY <2>1, <3>2
      <4>2. QED
        BY <2>1, <3>2, <4>1
    <3>3. QED
      BY <3>1, <3>2
  <2>4. [x \in Reader |-> after(x)] = [[x \in Reader |-> view(x)] EXCEPT ![r] = now]
    <3> HIDE DEF now, view, after
    <3>1. QED
      BY <2>3
  <2>5. UNCHANGED now
    BY <2>1
  <2>6. QED
    BY <2>1, <2>4, <2>5 DEF KV!NewSnapshot
<1>5. CloseReader(r) => KV!CloseReader(r)
  BY <1>1, <1>3 DEF CloseReader, KV!CloseReader, KV!EmptyMap, KV!Key, Key
<1>6. NewSnapshotIterator(r, from) => KV!NewSnapshotIterator(r, from)
  BY <1>1, <1>3 DEF NewSnapshotIterator, KV!NewSnapshotIterator
<1>7. QED
  BY <1>4, <1>5, <1>6

LEMMA ReopenRefines ==
  ASSUME IInv, NEW seq, Reopen(seq)
  PROVE  KV!Reopen
<1>1. Stored' = Stored /\ open' = {}
  BY DEF Reopen, Stored
<1>2. QED
  BY <1>1 DEF KV!Reopen, KV!EmptyMap, KV!Key, Key

LEMMA NextRefines == IInv /\ [Next]_vars => [KV!Next]_KV!kvVars
<1> SUFFICES ASSUME IInv, [Next]_vars PROVE [KV!Next]_KV!kvVars
  OBVIOUS
<1>1. ASSUME NEW ops \in Batches, ApplyBatch(ops) PROVE KV!Next
  BY <1>1, ApplyBatchRefines DEF KV!Next
<1>2. ASSUME \/ \E upTo \in 1..(nextSeq - 1) : Flush(upTo)
             \/ \E threshold \in Thresholds : Compact(threshold)
      PROVE  UNCHANGED KV!kvVars
  BY <1>2, BackgroundRefines
<1>3. ASSUME NEW r \in Reader, NEW from \in Reader,
             NewSnapshot(r) \/ CloseReader(r) \/ NewSnapshotIterator(r, from)
      PROVE  KV!Next
  BY <1>3, ReadersRefine DEF KV!Next
<1>4. ASSUME NEW seq \in 1..nextSeq, Reopen(seq) PROVE KV!Next
  BY <1>4, ReopenRefines DEF KV!Next
<1>5. CASE UNCHANGED vars
  BY <1>5 DEF vars, KV!kvVars, Stored
<1>6. QED
  BY <1>1, <1>2, <1>3, <1>4, <1>5 DEF Next

\* The leveled store implements the map with snapshots that KVStore
\* specifies: no flush, compaction or reopening changes what Get or any
\* registered snapshot or iterator returns.
THEOREM Refinement == Spec => ImplementsKVStore
<1>1. Spec => KV!Init
  BY InitRefines, PTL DEF Spec
<1>2. Spec => [][KV!Next]_KV!kvVars
  BY Invariance, NextRefines, PTL DEF Spec
<1>3. QED
  BY <1>1, <1>2, PTL DEF ImplementsKVStore, KV!Spec
=============================================================================
