-------------------------- MODULE CompactionProofs --------------------------
(***************************************************************************)
(* Facts about the picker and the merge, for every key space, every set of *)
(* values and every file size.                                             *)
(***************************************************************************)
EXTENDS Compaction, WellFoundedInduction, TLAPS

\* A nonempty set of naturals has a least element.
LEMMA MinimumExists ==
  ASSUME NEW S, S \subseteq Nat, S # {}
  PROVE  \E m \in S : \A x \in S : m <= x
<1> DEFINE LT == {p \in Nat \X Nat : p[1] < p[2]}
<1>1. IsWellFoundedOn(OpToRel(<, Nat), Nat)
  BY NatLessThanWellFounded
<1>2. IsWellFoundedOn(LT, Nat)
  BY <1>1 DEF OpToRel
<1> HIDE DEF LT
<1>3. PICK m \in S : \A x \in S : ~(<<x, m>> \in LT)
  BY <1>2, WFMin
<1>4. ASSUME NEW x \in S, x < m PROVE <<x, m>> \in LT
  BY <1>4 DEF LT
<1>5. \A x \in S : ~(x < m)
  BY <1>3, <1>4, Zenon
<1>6. m \in S /\ \A x \in S : m <= x
  BY <1>3, <1>5
<1>7. QED
  BY <1>6

\* A nonempty bounded set of naturals has a greatest element.
LEMMA MaximumExists ==
  ASSUME NEW S, S \subseteq Nat, S # {}, NEW b \in Nat, \A x \in S : x <= b
  PROVE  \E m \in S : \A x \in S : x <= m
<1> DEFINE D == {d \in Nat : \E x \in S : d = b - x}
<1>1. D \subseteq Nat /\ D # {}
  <2>1. PICK x \in S : TRUE
    OBVIOUS
  <2>2. b - x \in Nat
    BY <2>1
  <2>3. QED
    BY <2>1, <2>2
<1>2. PICK d \in D : \A e \in D : d <= e
  <2> HIDE DEF D
  <2> QED BY <1>1, MinimumExists
<1>3. PICK m \in S : d = b - m
  BY <1>2
<1>4. ASSUME NEW x \in S PROVE x <= m
  <2>1. b - x \in D
    BY <1>4
  <2>2. d <= b - x
    BY <1>2, <2>1
  <2>3. QED
    BY <1>3, <2>2
<1>5. QED
  BY <1>4

\* The bounds of a nonempty file enclose its keys and are keys of it.
LEMMA Bounds ==
  ASSUME NEW recs, recs \subseteq Record, recs # {}
  PROVE  /\ \A r \in recs : /\ SmallestKey(recs) <= r.key
                            /\ r.key <= LargestKey(recs)
         /\ \E r \in recs : r.key = SmallestKey(recs)
         /\ \E r \in recs : r.key = LargestKey(recs)
         /\ SmallestKey(recs) \in Key /\ LargestKey(recs) \in Key
<1> DEFINE K == {r.key : r \in recs}
<1>1. K \subseteq Nat /\ K # {} /\ K \subseteq Key /\ \A k \in K : k <= MaxKey
  BY RecordAssumption DEF Record, Key
<1>2. \E k \in K : \A j \in K : k <= j
  <2> HIDE DEF K
  <2> QED BY <1>1, MinimumExists
<1>3. \E k \in K : \A j \in K : k >= j
  <2> HIDE DEF K
  <2>1. \E k \in K : \A j \in K : j <= k
    BY <1>1, MaximumExists, RecordAssumption
  <2> QED BY <2>1, <1>1
<1>4. Min(K) \in K /\ \A j \in K : Min(K) <= j
  BY <1>2 DEF Min
<1>5. Max(K) \in K /\ \A j \in K : Max(K) >= j
  BY <1>3 DEF Max
<1>6. SmallestKey(recs) = Min(K) /\ LargestKey(recs) = Max(K)
  BY DEF SmallestKey, LargestKey
<1>7. \A r \in recs : r.key \in K
  OBVIOUS
<1>8. \A k \in K : \E r \in recs : r.key = k
  OBVIOUS
<1> HIDE DEF K
<1>9. QED
  BY <1>1, <1>4, <1>5, <1>6, <1>7, <1>8, RecordAssumption DEF Key

LEMMA NewTableIsTable ==
  ASSUME NEW level \in Level, NEW recs, recs \subseteq Record
  PROVE  /\ IsTable(NewTable(level, recs))
         /\ NewTable(level, recs).level = level
         /\ NewTable(level, recs).recs = recs
BY DEF IsTable, NewTable

\* A table with known bounds holds records, and its bounds are the extreme
\* keys of its records.
LEMMA TableBounds ==
  ASSUME NEW t, IsTable(t)
  PROVE  /\ t.smallest \in Nat /\ t.largest \in Nat
         /\ hasKeyRange(t) => t.recs # {}
         /\ \A r \in t.recs : t.smallest <= r.key /\ r.key <= t.largest
         /\ t.recs # {} => /\ \E r \in t.recs : r.key = t.smallest
                           /\ \E r \in t.recs : r.key = t.largest
<1>1. t.recs \subseteq Record /\ t = NewTable(t.level, t.recs)
  BY DEF IsTable
<1>2. t.smallest = SmallestKey(t.recs) /\ t.largest = LargestKey(t.recs)
  BY <1>1 DEF NewTable
<1>3. CASE t.recs = {}
  BY <1>2, <1>3 DEF SmallestKey, LargestKey, hasKeyRange, EmptyKey
<1>4. CASE t.recs # {}
  BY <1>1, <1>2, <1>4, Bounds, RecordAssumption DEF Key
<1>5. QED
  BY <1>3, <1>4

\* A plan takes tables from one level, all of them when that level is L0, and
\* adds the ones that overlap on the next level (compactLocked).
LEMMA PlanShape ==
  ASSUME NEW tables, NEW threshold, NEW plan \in Plans(tables, threshold)
  PROVE  \E l \in {0, 1} : \E selected \in SUBSET AtLevel(tables, l) :
           /\ plan.target = l + 1
           /\ plan.inputs = selected \cup overlapping(tables, selected, l + 1)
           /\ l = 0 => selected = AtLevel(tables, l)
<1>1. PICK l \in {0, 1} : plan \in PickCompaction(tables, l, threshold)
  BY DEF Plans, L0
<1> DEFINE source == AtLevel(tables, l)
           selections == IF l = L0 THEN {source}
                         ELSE {{t} : t \in largestTables(source)}
<1>2. PICK selected \in selections :
        plan = [target |-> l + 1,
                inputs |-> selected \cup overlapping(tables, selected, l + 1)]
  BY <1>1, Zenon DEF PickCompaction
<1>3. selected \subseteq source
  BY <1>2 DEF largestTables
<1>4. l = 0 => selected = source
  BY <1>2 DEF L0
<1>5. QED
  BY <1>2, <1>3, <1>4

\* A target-level table that a plan leaves out lies on one side of all the
\* selected tables, and no bound involved is missing.
LEMMA LeftOutIsDisjoint ==
  ASSUME NEW tables, \A t \in tables : IsTable(t),
         NEW level, NEW target,
         NEW selected \in SUBSET AtLevel(tables, level),
         NEW u \in AtLevel(tables, target),
         u \notin overlapping(tables, selected, target)
  PROVE  /\ \/ \A s \in selected : u.largest < s.smallest
            \/ \A s \in selected : s.largest < u.smallest
         /\ \A s \in selected \cup AtLevel(tables, target) : hasKeyRange(s)
<1>1. \A s \in selected \cup AtLevel(tables, target) : hasKeyRange(s)
  BY DEF overlapping
<1>2. ~overlapsCombinedRange(selected, u)
  BY DEF overlapping
<1>3. \A s \in selected \cup {u} : s.smallest \in Nat /\ s.largest \in Nat
  BY TableBounds DEF AtLevel
<1>4. QED
  BY <1>1, <1>2, <1>3 DEF overlapsCombinedRange

\* The merge adds nothing.
LEMMA MergeSubset ==
  ASSUME NEW S, NEW readers, NEW drop
  PROVE  MergeSSTables(S, readers, drop) \subseteq S
BY DEF MergeSSTables

\* A merge of the records S, while rest stays where it is, all sequences being
\* below bound.  When tombstones are dropped, rest has to be newer than S.
SafeMerge(S, rest, bound, readers, drop) ==
  /\ S \subseteq Record /\ rest \subseteq Record
  /\ \A r, x \in rest \cup S : r.key = x.key /\ r.seq = x.seq => r = x
  /\ bound \in Nat /\ \A r \in rest \cup S : r.seq < bound
  /\ readers \subseteq Nat
  /\ drop \in BOOLEAN
  /\ drop => \A r \in S, x \in rest : r.key = x.key => r.seq < x.seq

\* Replacing the inputs of a merge by its output changes no read: not of a
\* registered reader, and not of a read that sees every sequence.
THEOREM MergePreservesReads ==
  ASSUME NEW S, NEW rest, NEW bound, NEW readers, NEW drop,
         SafeMerge(S, rest, bound, readers, drop),
         NEW k, NEW s \in Nat, s \in readers \/ s >= bound
  PROVE  GetAt(rest \cup MergeSSTables(S, readers, drop), k, s)
           = GetAt(rest \cup S, k, s)
<1> USE DEF SafeMerge
<1> DEFINE M == MergeSSTables(S, readers, drop)
           V == {r \in rest \cup S : r.key = k /\ r.seq <= s}
           W == {r \in rest \cup M : r.key = k /\ r.seq <= s}
<1>1. W \subseteq V
  BY MergeSubset
<1>2. \A r \in V : r.seq \in Nat /\ r.seq < bound /\ r.key = k /\ r.seq <= s
  BY DEF Record
<1>3. V # {} => Newest(V) # {}
  <2> HAVE V # {}
  <2> DEFINE Q == {r.seq : r \in V}
  <2>1. Q \subseteq Nat /\ Q # {} /\ \A q \in Q : q <= bound
    BY <1>2
  <2>2. PICK q \in Q : \A p \in Q : p <= q
    <3> HIDE DEF Q
    <3> QED BY <2>1, MaximumExists
  <2>3. PICK r \in V : r.seq = q
    BY <2>2
  <2>4. \A y \in V : y.seq <= r.seq
    BY <2>2, <2>3
  <2>5. QED
    BY <2>3, <2>4 DEF Newest
<1>4. ASSUME NEW r \in Newest(V), r \notin W
      PROVE  /\ readers = {} /\ drop /\ r.val = Tombstone
             /\ W = {}
  <2>1. r \in V /\ \A y \in V : y.seq <= r.seq
    BY <1>4 DEF Newest
  <2>2. r \in S /\ r \notin M /\ r.key = k /\ r.seq <= s
    BY <2>1, <1>4
  <2>3. readers = {}
    <3> SUFFICES ASSUME readers # {} PROVE FALSE
      OBVIOUS
    <3>1. ~newerThanOldest(r, readers)
      BY <2>2 DEF MergeSSTables
    <3>2. PICK x \in S : /\ ~newerThanOldest(x, readers)
                         /\ x.key = r.key /\ ~(x.seq <= r.seq)
      BY <2>2 DEF MergeSSTables, newestOf
    <3>3. x.seq \in Nat /\ r.seq \in Nat /\ x.seq < bound
      BY <2>2, <3>2 DEF Record
    <3>4. x.seq <= s
      BY <3>2, <3>3 DEF newerThanOldest
    <3>5. x \in V
      BY <3>2, <3>4, <2>2
    <3>6. QED
      BY <3>2, <3>5, <2>1
  <2>4. s >= bound
    BY <2>3
  <2>5. newestOf(r, S)
    <3> SUFFICES ASSUME NEW x \in S, x.key = r.key PROVE x.seq <= r.seq
      BY DEF newestOf
    <3>1. x.seq \in Nat /\ x.seq < bound
      BY DEF Record
    <3>2. x \in V
      BY <3>1, <2>2, <2>4
    <3>3. QED
      BY <3>2, <2>1
  <2>6. drop /\ r.val = Tombstone
    BY <2>2, <2>3, <2>5 DEF MergeSSTables
  <2>7. ASSUME NEW x \in W PROVE FALSE
    <3>1. x \in V /\ x.key = r.key /\ x.seq <= r.seq
      BY <1>1, <1>2, <2>1, <2>2, <2>7
    <3>2. x.seq \in Nat /\ r.seq \in Nat
      BY <1>2, <2>1, <3>1
    <3>3. x \notin rest
      BY <2>2, <2>6, <3>1, <3>2
    <3>4. x \in M
      BY <3>3, <2>7
    <3>5. x \in S /\ newestOf(x, S) /\ x.val # Tombstone
      BY <3>4, <2>3, <2>6 DEF MergeSSTables
    <3>6. r.seq <= x.seq
      BY <3>5, <3>1, <2>2 DEF newestOf
    <3>7. x = r
      BY <3>1, <3>2, <3>5, <3>6, <2>2
    <3>8. QED
      BY <3>5, <3>7, <2>6
  <2>8. QED
    BY <2>3, <2>6, <2>7
<1>5. CASE Newest(V) \subseteq W
  <2>1. Newest(V) \subseteq Newest(W)
    BY <1>1, <1>5 DEF Newest
  <2>2. Newest(W) \subseteq Newest(V)
    <3> SUFFICES ASSUME NEW x \in Newest(W) PROVE x \in Newest(V)
      OBVIOUS
    <3>1. x \in W /\ x \in V
      BY <1>1 DEF Newest
    <3>2. PICK r \in Newest(V) : TRUE
      BY <1>3, <3>1
    <3>3. r \in W /\ r \in V /\ \A y \in V : y.seq <= r.seq
      BY <3>2, <1>5 DEF Newest
    <3>4. r.seq <= x.seq
      BY <3>3 DEF Newest
    <3>5. \A y \in V : y.seq <= x.seq
      BY <1>2, <3>1, <3>3, <3>4
    <3>6. QED
      BY <3>1, <3>5 DEF Newest
  <2>3. Newest(W) = Newest(V)
    BY <2>1, <2>2
  <2>4. QED
    BY <2>3 DEF GetAt, Result
<1>6. CASE ~(Newest(V) \subseteq W)
  <2>1. PICK r \in Newest(V) : r \notin W
    BY <1>6
  <2>2. r.val = Tombstone /\ W = {}
    BY <1>4, <2>1
  <2>3. \A x \in Newest(V) : x = r
    <3> SUFFICES ASSUME NEW x \in Newest(V) PROVE x = r
      OBVIOUS
    <3>1. x \in V /\ r \in V /\ x.seq <= r.seq /\ r.seq <= x.seq
      BY <2>1 DEF Newest
    <3>2. x.seq = r.seq /\ x.key = r.key
      BY <3>1, <1>2
    <3>3. QED
      BY <3>1, <3>2
  <2>4. Result(V) = {}
    BY <2>2, <2>3 DEF Result
  <2>5. Result(W) = {}
    BY <2>2 DEF Result, Newest
  <2>6. QED
    BY <2>4, <2>5 DEF GetAt
<1>7. QED
  BY <1>5, <1>6
=============================================================================
