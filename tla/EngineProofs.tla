---------------------------- MODULE EngineProofs ----------------------------
(***************************************************************************)
(* db.activeReaders counts the open handles, for every set of handles and  *)
(* every schedule of the clients, the goroutines, stops and faults.        *)
(***************************************************************************)
EXTENDS Engine, FiniteSetTheorems, TLAPS

\* The handles open at a sequence, and the bag that counts them.
OpenAt(s) == {r \in open : at[r] = s}
Counted == [s \in {at[r] : r \in open} |-> Cardinality(OpenAt(s))]

\* The inductive invariant.  A count is only meaningful because finitely many
\* handles are open, which needs no bound on Reader: one step opens one handle.
ReaderInv ==
  /\ open \subseteq Reader /\ IsFiniteSet(open)
  /\ at = [r \in Reader |-> at[r]]
  /\ activeReaders = Counted

LEMMA OpenAtFinite ==
  ASSUME ReaderInv
  PROVE  \A s : IsFiniteSet(OpenAt(s)) /\ Cardinality(OpenAt(s)) \in Nat
<1> TAKE s
<1>1. OpenAt(s) \in SUBSET open
  BY DEF OpenAt
<1>2. IsFiniteSet(OpenAt(s))
  BY <1>1, FS_Subset DEF ReaderInv
<1>3. QED
  BY <1>2, FS_CardinalityType

LEMMA CountIsCardinality ==
  ASSUME ReaderInv
  PROVE  \A s : (IF s \in DOMAIN activeReaders THEN activeReaders[s] ELSE 0)
                  = Cardinality(OpenAt(s))
<1> TAKE s
<1>1. CASE s \in DOMAIN activeReaders
  BY <1>1 DEF ReaderInv, Counted
<1>2. CASE s \notin DOMAIN activeReaders
  <2>1. OpenAt(s) = {}
    BY <1>2 DEF ReaderInv, Counted, OpenAt
  <2>2. QED
    BY <1>2, <2>1, FS_EmptySet
<1>3. QED
  BY <1>1, <1>2

LEMMA InitReaders == Init => ReaderInv
<1> SUFFICES ASSUME Init PROVE ReaderInv
  OBVIOUS
<1>1. open = {} /\ at = [r \in Reader |-> 0] /\ activeReaders = EmptyBag
  BY DEF Init
<1>2. EmptyBag = Counted
  BY <1>1 DEF EmptyBag, SetToBag, Counted
<1>3. QED
  BY <1>1, <1>2, FS_EmptySet DEF ReaderInv

LEMMA StopReaders ==
  ASSUME Stop
  PROVE  ReaderInv'
<1>1. open' = {} /\ at' = [r \in Reader |-> 0] /\ activeReaders' = EmptyBag
  BY DEF Stop
<1>2. EmptyBag = Counted'
  BY <1>1 DEF EmptyBag, SetToBag, Counted
<1>3. QED
  BY <1>1, <1>2, FS_EmptySet DEF ReaderInv

\* registerReaderLocked adds one to the count of the sequence.
LEMMA RegisterReaders ==
  ASSUME ReaderInv, NEW r \in Reader, NEW seq, Register(r, seq)
  PROVE  ReaderInv'
<1>1. /\ r \notin open /\ open' = open \cup {r}
      /\ at' = [at EXCEPT ![r] = seq]
      /\ activeReaders' = activeReaders (+) SetToBag({seq})
  BY DEF Register
<1>2. /\ at' = [x \in Reader |-> at'[x]]
      /\ at'[r] = seq
      /\ \A x \in open : at'[x] = at[x]
  BY <1>1 DEF ReaderInv
<1>3. open' \subseteq Reader /\ IsFiniteSet(open')
  BY <1>1, FS_AddElement DEF ReaderInv
<1>4. OpenAt(seq)' = OpenAt(seq) \cup {r} /\ r \notin OpenAt(seq)
  BY <1>1, <1>2 DEF OpenAt
<1>5. Cardinality(OpenAt(seq)') = Cardinality(OpenAt(seq)) + 1
  BY <1>4, OpenAtFinite, FS_AddElement
<1>6. \A s : s # seq => OpenAt(s)' = OpenAt(s)
  BY <1>1, <1>2 DEF OpenAt
<1>7. {at'[x] : x \in open'} = {at[x] : x \in open} \cup {seq}
  BY <1>1, <1>2
<1>8. activeReaders' = Counted'
  <2> DEFINE count(s) == IF s \in DOMAIN activeReaders THEN activeReaders[s] ELSE 0
  <2>1. activeReaders' = [s \in DOMAIN activeReaders \cup {seq} |->
                            count(s) + (IF s = seq THEN 1 ELSE 0)]
    <3>1. /\ DOMAIN SetToBag({seq}) = {seq}
          /\ \A s \in {seq} : SetToBag({seq})[s] = 1
      BY DEF SetToBag
    <3>2. QED
      BY <1>1, <3>1 DEF (+)
  <2>2. \A s : count(s) = Cardinality(OpenAt(s))
    BY CountIsCardinality
  <2>3. \A s : count(s) + (IF s = seq THEN 1 ELSE 0) = Cardinality(OpenAt(s)')
    BY <2>2, <1>5, <1>6, OpenAtFinite
  <2>4. DOMAIN activeReaders = {at[x] : x \in open}
    BY DEF ReaderInv, Counted
  <2> HIDE DEF count
  <2>5. QED
    BY <2>1, <2>3, <2>4, <1>7 DEF Counted
<1>9. QED
  BY <1>2, <1>3, <1>8 DEF ReaderInv

\* unregisterReaderLocked takes one off, and forgets a sequence only when its
\* last handle closes.
LEMMA CloseReaders ==
  ASSUME ReaderInv, NEW r \in Reader, NEW seq, seq = at[r], CloseReader(r)
  PROVE  ReaderInv'
<1>1. /\ r \in open /\ open' = open \ {r}
      /\ at' = [at EXCEPT ![r] = 0]
      /\ activeReaders' = activeReaders (-) SetToBag({seq})
  BY DEF CloseReader
<1>2. /\ at' = [x \in Reader |-> at'[x]]
      /\ \A x \in open' : at'[x] = at[x]
  BY <1>1 DEF ReaderInv
<1>3. open' \subseteq Reader /\ IsFiniteSet(open')
  BY <1>1, FS_RemoveElement DEF ReaderInv
<1>4. OpenAt(seq)' = OpenAt(seq) \ {r} /\ r \in OpenAt(seq)
  BY <1>1, <1>2 DEF OpenAt
<1>5. Cardinality(OpenAt(seq)') = Cardinality(OpenAt(seq)) - 1
  BY <1>4, OpenAtFinite, FS_RemoveElement
<1>6. \A s : s # seq => OpenAt(s)' = OpenAt(s)
  BY <1>1, <1>2 DEF OpenAt
<1>7. \A s : /\ (s \in {at[x] : x \in open} <=> Cardinality(OpenAt(s)) > 0)
             /\ (s \in {at'[x] : x \in open'} <=> Cardinality(OpenAt(s)') > 0)
  <2> TAKE s
  <2>1. /\ s \in {at[x] : x \in open} <=> OpenAt(s) # {}
        /\ s \in {at'[x] : x \in open'} <=> OpenAt(s)' # {}
    BY DEF OpenAt
  <2>2. IsFiniteSet(OpenAt(s)) /\ Cardinality(OpenAt(s)) \in Nat
    BY OpenAtFinite
  <2>3. IsFiniteSet(OpenAt(s)') /\ Cardinality(OpenAt(s)') \in Nat
    <3>1. CASE s = seq
      BY <3>1, <1>4, <2>2, FS_RemoveElement, FS_CardinalityType
    <3>2. CASE s # seq
      BY <3>2, <1>6, <2>2
    <3>3. QED
      BY <3>1, <3>2
  <2>4. QED
    BY <2>1, <2>2, <2>3, FS_EmptySet
<1>8. activeReaders' = Counted'
  <2> DEFINE left == [s \in DOMAIN activeReaders |->
                        IF s = seq THEN activeReaders[s] - 1 ELSE activeReaders[s]]
  <2>1. activeReaders' = [s \in {d \in DOMAIN left : left[d] > 0} |-> left[s]]
    <3>1. /\ DOMAIN SetToBag({seq}) = {seq}
          /\ \A s \in {seq} : SetToBag({seq})[s] = 1
      BY DEF SetToBag
    <3>2. QED
      BY <1>1, <3>1 DEF (-)
  <2>2. /\ DOMAIN left = {at[x] : x \in open}
        /\ \A s \in DOMAIN left : left[s] = Cardinality(OpenAt(s)')
    BY <1>5, <1>6 DEF ReaderInv, Counted
  <2> HIDE DEF left
  <2>3. {at'[x] : x \in open'} \subseteq {at[x] : x \in open}
    BY <1>1, <1>2
  <2>4. {d \in DOMAIN left : left[d] > 0} = {at'[x] : x \in open'}
    BY <2>2, <2>3, <1>7
  <2>5. QED
    BY <2>1, <2>2, <2>4 DEF Counted
<1>9. QED
  BY <1>2, <1>3, <1>8 DEF ReaderInv

LEMMA UnchangedReaders ==
  ASSUME ReaderInv, UNCHANGED readerVars
  PROVE  ReaderInv'
BY DEF ReaderInv, readerVars, Counted, OpenAt

\* Writes, the goroutines and Compact leave the readers alone.
LEMMA OthersKeepReaders ==
  ASSUME \/ Open \/ CloseBegin \/ Flusher \/ Compactor \/ CompactCall
         \/ \E ops \in Batches :
              Write(ops) \/ WriteAndRotate(ops) \/ WriteRotationFails(ops)
  PROVE  UNCHANGED readerVars
<1>1. CASE Open \/ CloseBegin
  BY <1>1 DEF Open, CloseBegin
<1>2. CASE Flusher
  BY <1>2 DEF Flusher, FlushReceive, FlushEmpty, FlushAllocate, FlushCreate,
              FlushCreateFails, FlushPublish, FlushPublishFails,
              FlushRemoveSegment, FlushUnchanged
<1>3. CASE Compactor \/ CompactCall
  BY <1>3 DEF Compactor, CompactCall, CompactReceive, CompactLoopEnds,
              CompactNothing, CompactMerge, CompactMergeFails,
              CompactInputMissing, CompactPublish, CompactPublishFails,
              CompactRemove, CompactReturns, CompUnchanged
<1>4. CASE \E ops \in Batches :
             Write(ops) \/ WriteAndRotate(ops) \/ WriteRotationFails(ops)
  BY <1>4 DEF Write, WriteAndRotate, WriteRotationFails, Logged
<1>5. QED
  BY <1>1, <1>2, <1>3, <1>4

LEMMA NextReaders == ReaderInv /\ [Next]_vars => ReaderInv'
<1> SUFFICES ASSUME ReaderInv, [Next]_vars PROVE ReaderInv'
  OBVIOUS
<1>1. CASE CloseEnd \/ Crash
  BY <1>1, StopReaders DEF CloseEnd, Crash
<1>2. ASSUME NEW r \in Reader, NewSnapshot(r) PROVE ReaderInv'
  BY <1>2, RegisterReaders DEF NewSnapshot
<1>3. ASSUME NEW r \in Reader, NEW from \in Reader, NewSnapshotIterator(r, from)
      PROVE  ReaderInv'
  BY <1>3, RegisterReaders DEF NewSnapshotIterator
<1>4. ASSUME NEW r \in Reader, CloseReader(r) PROVE ReaderInv'
  BY <1>4, CloseReaders
<1>5. CASE UNCHANGED vars
  BY <1>5, UnchangedReaders DEF vars, readerVars
<1>6. QED
  BY <1>1, <1>2, <1>3, <1>4, <1>5, OthersKeepReaders, UnchangedReaders DEF Next

LEMMA InvCounts == ReaderInv => ReadersCounted
BY DEF ReaderInv, ReadersCounted, Counted, OpenAt, BagToSet

\* registerReaderLocked and unregisterReaderLocked keep db.activeReaders equal
\* to the count of open snapshots and iterators at each sequence, however many
\* there are and whatever the other threads do.
THEOREM ReadersAlwaysCounted == Spec => []ReadersCounted
<1>1. Spec => []ReaderInv
  BY InitReaders, NextReaders, PTL DEF Spec
<1>2. QED
  BY <1>1, InvCounts, PTL
=============================================================================
