---------------------------- MODULE Compaction ----------------------------
(***************************************************************************)
(* The pure part of internal/compaction: which tables a compaction merges  *)
(* (picker.go) and which records the merge keeps (compaction.go).          *)
(*                                                                         *)
(* A table is its manifest metadata together with the records of its file. *)
(* The order of the tables in the manifest only breaks ties: between       *)
(* tables of equal size, where PickCompaction below allows every choice,   *)
(* and between two records with the same key and sequence, which are the   *)
(* same record.  Tables are therefore kept in sets.                        *)
(***************************************************************************)
EXTENDS Records

CONSTANTS BaseLevelTargetBytes,  \* size at which L1 is compacted
          FileSize(_)            \* bytes of the file that holds a record set

L0 == 0
HighestSupportedLevel == L0 + 2
Level == L0..HighestSupportedLevel

\* A file without records has "" as both its bounds.
SmallestKey(recs) == IF recs = {} THEN EmptyKey ELSE Min({r.key : r \in recs})
LargestKey(recs) == IF recs = {} THEN EmptyKey ELSE Max({r.key : r \in recs})

NewTable(level, recs) ==
  [level |-> level, recs |-> recs, size |-> FileSize(recs),
   smallest |-> SmallestKey(recs), largest |-> LargestKey(recs)]

\* The metadata of a table describes the file it names.
IsTable(t) ==
  t.level \in Level /\ t.recs \subseteq Record /\ t = NewTable(t.level, t.recs)

AllRecords(tables) == UNION {t.recs : t \in tables}
-----------------------------------------------------------------------------
(* The picker.                                                             *)

hasKeyRange(t) == t.smallest # EmptyKey /\ t.largest # EmptyKey

\* Variant: ranges that share only an end point do not overlap.
overlapsStrictly(selected, t) ==
  /\ \E s \in selected : s.smallest < t.largest
  /\ \E s \in selected : t.smallest < s.largest

\* combinedRange and rangesOverlap: the interval spanned by the tables of
\* selected meets the interval of t.
overlapsCombinedRange(selected, t) ==
  /\ \E s \in selected : s.smallest <= t.largest
  /\ \E s \in selected : t.smallest <= s.largest

levelTargetBytes(level) ==
  IF level = L0 THEN 0 ELSE BaseLevelTargetBytes * 10^(level - 1)

totalTableBytes(tables) == MapThenSumSet(LAMBDA t : t.size, tables)

largestTables(tables) == {t \in tables : \A u \in tables : u.size <= t.size}

AtLevel(tables, level) == {t \in tables : t.level = level}

levelReady(source, level, threshold) ==
  \/ Cardinality(source) >= threshold
  \/ level > L0 /\ totalTableBytes(source) >= levelTargetBytes(level)

\* The target-level tables that join the selected ones.  A missing bound, on
\* either side, brings in the whole target level.
overlapping(tables, selected, target) ==
  {t \in AtLevel(tables, target) :
     \/ \E u \in selected \cup AtLevel(tables, target) : ~hasKeyRange(u)
     \/ overlapsCombinedRange(selected, t)}

\* The plans PickCompaction may return; {} when it returns false.
PickCompaction(tables, level, threshold) ==
  LET source == AtLevel(tables, level)
      selections == IF level = L0 THEN {source}
                    ELSE {{t} : t \in largestTables(source)}
  IN IF threshold > 0 /\ levelReady(source, level, threshold)
     THEN {[target |-> level + 1,
            inputs |-> selected \cup overlapping(tables, selected, level + 1)]
             : selected \in selections}
     ELSE {}

\* compactLocked drains L0 first and turns to L1 when L0 has no work.
Plans(tables, threshold) ==
  LET l0 == PickCompaction(tables, L0, threshold)
  IN IF l0 # {} THEN l0 ELSE PickCompaction(tables, L0 + 1, threshold)

hasCompactionWork(tables, threshold) ==
  \/ PickCompaction(tables, L0, threshold) # {}
  \/ PickCompaction(tables, L0 + 1, threshold) # {}
-----------------------------------------------------------------------------
(* The merge.  readers is the set of registered read sequences; only its   *)
(* minimum matters to the code.                                            *)

\* Variant: versions are kept for the newest reader instead of the oldest.
newerThanNewest(r, readers) == \A s \in readers : s < r.seq

newerThanOldest(r, readers) == \E s \in readers : s < r.seq

newestOf(r, S) == \A x \in S : x.key = r.key => x.seq <= r.seq

MergeSSTables(S, readers, dropTombstones) ==
  IF readers = {}
  THEN {r \in S : newestOf(r, S) /\ (r.val # Tombstone \/ ~dropTombstones)}
  ELSE {r \in S : \/ newerThanOldest(r, readers)
                  \/ newestOf(r, {x \in S : ~newerThanOldest(x, readers)})}

\* Variant: the bounds are those of the inputs.
MergedTableInputBounds(plan, readers) ==
  [NewTable(plan.target,
            MergeSSTables(AllRecords(plan.inputs), readers,
                          plan.target = HighestSupportedLevel))
     EXCEPT !.smallest = SmallestKey(AllRecords(plan.inputs)),
            !.largest = LargestKey(AllRecords(plan.inputs))]

\* The table a plan produces.  Tombstones go only on the way into the last
\* level.
MergedTable(plan, readers) ==
  NewTable(plan.target,
           MergeSSTables(AllRecords(plan.inputs), readers,
                         plan.target = HighestSupportedLevel))
=============================================================================
