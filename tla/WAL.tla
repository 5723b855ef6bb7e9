-------------------------------- MODULE WAL --------------------------------
(***************************************************************************)
(* internal/wal: the segments, frame by frame, under the writers of        *)
(* internal/db.                                                            *)
(*                                                                         *)
(* A frame is whole, or it is the torn end of a write that was cut short.  *)
(* A stop of the process keeps what was written; a power loss keeps, of    *)
(* each segment, what was synced and any prefix of the rest.  DB.mu makes  *)
(* writers take turns, so there is one write in progress at most.          *)
(* Engine.tla relies on what is shown here: a write is replayed completely *)
(* or not at all.                                                          *)
(***************************************************************************)
EXTENDS Records, SequencesExt

CONSTANTS Batches,          \* the batches clients commit
          MaxMemtableSize,  \* operations that fill a memtable
          MaxSeq,           \* bound on allocated sequences
          MaxRestarts,      \* bound on stops and power losses
          Faults,           \* the ways an I/O call may fail here
          MaxFaults         \* bound on failed calls

Operation == [key: Key, val: Value \cup {Tombstone}]

ASSUME WALAssumption ==
  /\ Batches \subseteq Seq(Operation)
  /\ MaxMemtableSize \in Nat \ {0}
  /\ MaxSeq \in Nat /\ MaxRestarts \in Nat /\ MaxFaults \in Nat
  /\ Faults \subseteq {"write", "short", "sync"}

VARIABLES status,        \* "open", "down", or "corrupt" when Open refuses a file
          segs,          \* the segments: their frames, and how many of them a
                         \* power loss keeps
          writing,       \* the write in progress
          memtable,      \* the records of the active memtable
          memTableSize,  \* operations in it, or keys after Open
          immutables,    \* the full memtables that wait for the flusher; their
                         \* segments are the last ones before the active one
          nextSeq,       \* db.nextSeq
          flushed,       \* the records of flushed memtables, in synced tables
          acked,         \* history: acknowledged records a power loss has not cut
          durable,       \* history: those a Sync of their segment has covered
          begun,         \* history: the record sets of all writes begun
          restarts,
          faults         \* history: the ways calls have failed so far

memory == <<memtable, memTableSize, immutables>>
vars == <<status, segs, writing, memory, nextSeq, flushed, durable, acked,
          begun, restarts, faults>>

NoRecord == [key |-> EmptyKey, seq |-> 0, val |-> Tombstone]
Frame(kind, id, rec) == [kind |-> kind, id |-> id, rec |-> rec]
Torn == Frame("torn", 0, NoRecord)

Idle == [left |-> <<>>, recs |-> {}, next |-> 0, sync |-> FALSE, busy |-> FALSE]
NewSegment == [frames |-> <<>>, synced |-> 0]
-----------------------------------------------------------------------------
(* Replay.                                                                 *)

\* mt.Put replaces the record with the same key and sequence.
PutInto(mt, recs) ==
  {r \in mt : \A x \in recs : r.key # x.key \/ r.seq # x.seq} \cup recs

\* pending maps the identifier of a batch begun and not yet committed to the
\* records seen of it.
Pending(st, id) == UNION {p.recs : p \in {q \in st.pending : q.id = id}}
Without(st, id) == {p \in st.pending : p.id # id}
IsPending(st, id) == \E p \in st.pending : p.id = id

\* Variant of ReplayFrame: a begin frame does not forget the abandoned batch
\* of that identifier.
ReplayFrameKeepsPending(st0, f) ==
  LET st == [st0 EXCEPT !.max = Max({@, f.id, f.rec.seq})]
  IN CASE f.kind = "none" ->
            [st EXCEPT !.mt = PutInto(@, {f.rec})]
       [] f.kind = "begin" ->
            [st EXCEPT !.pending = Without(st, f.id)
                    \cup {[id |-> f.id, recs |-> Pending(st, f.id)]}]
       [] f.kind = "operation" ->
            IF IsPending(st, f.id)
            THEN [st EXCEPT !.pending = Without(st, f.id)
                    \cup {[id |-> f.id, recs |-> Pending(st, f.id) \cup {f.rec}]}]
            ELSE st
       [] f.kind = "commit" ->
            [st EXCEPT !.mt = PutInto(@, Pending(st, f.id)),
                       !.pending = Without(st, f.id)]

\* One turn of the loop in ReplayIntoWithStats.  BatchKind selects the case;
\* MaxSequence counts the frames of unfinished batches too.
ReplayFrame(st0, f) ==
  LET st == [st0 EXCEPT !.max = Max({@, f.id, f.rec.seq})]
  IN CASE f.kind = "none" ->
            [st EXCEPT !.mt = PutInto(@, {f.rec})]
       [] f.kind = "begin" ->
            [st EXCEPT !.pending = Without(st, f.id) \cup {[id |-> f.id, recs |-> {}]}]
       [] f.kind = "operation" ->
            IF IsPending(st, f.id)
            THEN [st EXCEPT !.pending = Without(st, f.id)
                    \cup {[id |-> f.id, recs |-> Pending(st, f.id) \cup {f.rec}]}]
            ELSE st
       [] f.kind = "commit" ->
            [st EXCEPT !.mt = PutInto(@, Pending(st, f.id)),
                       !.pending = Without(st, f.id)]

\* Replay ends at a torn frame and cuts the file off there.
IsTorn(f) == f = Torn
WholeFrames(frames) ==
  LET i == SelectInSeq(frames, IsTorn)
  IN IF i = 0 THEN frames ELSE SubSeq(frames, 1, i - 1)

\* ReplayIntoWithStats on one segment: unfinished batches are forgotten at its
\* end.
ReplaySegment(st, frames) ==
  FoldLeft(ReplayFrame, [st EXCEPT !.pending = {}], WholeFrames(frames))

\* Open replays all segments, oldest first, into one memtable.
Replayed(ss) ==
  FoldLeft(LAMBDA st, seg : ReplaySegment(st, seg.frames),
           [mt |-> {}, pending |-> {}, max |-> 0], ss)

Keys(recs) == {r.key : r \in recs}
MaxSeqOf(recs) == Max({0} \cup {r.seq : r \in recs})
-----------------------------------------------------------------------------
Init ==
  /\ status = "down" /\ segs = <<>> /\ writing = Idle
  /\ memtable = {} /\ memTableSize = 0 /\ immutables = <<>>
  /\ nextSeq = 1 /\ flushed = {}
  /\ durable = {} /\ acked = {} /\ begun = {}
  /\ restarts = 0 /\ faults = {}

Cut(seg) ==
  LET whole == WholeFrames(seg.frames)
  IN [frames |-> whole, synced |-> Min({seg.synced, Len(whole)})]

\* Variant of Open: the torn end stays in the file.
OpenKeepsTornFrame ==
  /\ status = "down"
  /\ status' = "open"
  /\ segs' = IF segs = <<>> THEN <<NewSegment>> ELSE segs
  /\ memtable' = Replayed(segs).mt
  /\ memTableSize' = Cardinality(Keys(memtable'))
  /\ nextSeq' = 1 + Max({Replayed(segs).max, MaxSeqOf(flushed)})
  /\ UNCHANGED <<writing, immutables, flushed, durable, acked, begun, restarts, faults>>

\* Variant of Open: the highest sequence is given out again.
OpenReusesSequence ==
  /\ status = "down"
  /\ status' = "open"
  /\ segs' = IF segs = <<>> THEN <<NewSegment>> ELSE [i \in DOMAIN segs |-> Cut(segs[i])]
  /\ memtable' = Replayed(segs).mt
  /\ memTableSize' = Cardinality(Keys(memtable'))
  /\ nextSeq' = Max({Replayed(segs).max, MaxSeqOf(flushed)})
  /\ UNCHANGED <<writing, immutables, flushed, durable, acked, begun, restarts, faults>>

\* Open: replay, cut the torn ends off and append to the last segment.
Open ==
  /\ status = "down"
  /\ status' = "open"
  /\ segs' = IF segs = <<>> THEN <<NewSegment>> ELSE [i \in DOMAIN segs |-> Cut(segs[i])]
  /\ memtable' = Replayed(segs).mt
  /\ memTableSize' = Cardinality(Keys(memtable'))
  /\ nextSeq' = 1 + Max({Replayed(segs).max, MaxSeqOf(flushed)})
  /\ UNCHANGED <<writing, immutables, flushed, durable, acked, begun, restarts, faults>>

\* With frames behind a torn one, its length field decides whether replay runs
\* into the end of the file (Open) or into a checksum that does not match.
OpenCorrupt ==
  /\ status = "down"
  /\ \E seg \in Range(segs) : Len(WholeFrames(seg.frames)) + 1 < Len(seg.frames)
  /\ status' = "corrupt"
  /\ UNCHANGED <<segs, writing, memory, nextSeq, flushed, durable, acked,
                 begun, restarts, faults>>

Active == Last(segs)
WithActive(seg) == [segs EXCEPT ![Len(segs)] = seg]

BatchRecords(ops) ==
  {[key |-> ops[i].key, seq |-> nextSeq + i - 1, val |-> ops[i].val]
     : i \in 1..Len(ops)}

OperationFrame(kind, op, seq) ==
  Frame(kind, IF kind = "none" THEN 0 ELSE nextSeq,
        [key |-> op.key, seq |-> seq, val |-> op.val])

\* DB.mu is taken, the database is open, the sequences are chosen.
Start(recs, frames, next, sync) ==
  /\ status = "open" /\ ~writing.busy /\ next <= MaxSeq
  /\ writing' = [left |-> frames, recs |-> recs, next |-> next, sync |-> sync,
                 busy |-> TRUE]
  /\ begun' = begun \cup {recs}
  /\ UNCHANGED <<status, segs, memory, nextSeq, flushed, durable, acked,
                 restarts, faults>>

\* Put and Delete: one frame outside any batch.
StartRecord(ops) ==
  /\ Len(ops) = 1
  /\ Start(BatchRecords(ops), <<OperationFrame("none", ops[1], nextSeq)>>,
           nextSeq + 1, FALSE)

\* WriteBatch: a begin frame, the operations, a commit frame.
BatchFrames(ops) ==
  <<Frame("begin", nextSeq, NoRecord)>>
    \o [i \in 1..Len(ops) |-> OperationFrame("operation", ops[i], nextSeq + i - 1)]
    \o <<Frame("commit", nextSeq, NoRecord)>>

StartBatch(ops, sync) ==
  Start(BatchRecords(ops), BatchFrames(ops),
        nextSeq + (IF Len(ops) = 0 THEN 1 ELSE Len(ops)), sync)

Appended(frame) == WithActive([Active EXCEPT !.frames = Append(@, frame)])

WriteFrame ==
  /\ writing.busy /\ writing.left # <<>>
  /\ segs' = Appended(Head(writing.left))
  /\ writing' = [writing EXCEPT !.left = Tail(@)]
  /\ UNCHANGED <<status, memory, nextSeq, flushed, durable, acked, begun,
                 restarts, faults>>

\* An I/O call of the write fails: the caller gets the error, the frames stay,
\* the memtable is not touched and the sequences are not consumed.
Fails(kind) ==
  /\ writing.busy /\ kind \in Faults \ faults /\ Cardinality(faults) < MaxFaults
  /\ faults' = faults \cup {kind}
  /\ writing' = Idle
  /\ UNCHANGED <<status, memory, nextSeq, flushed, durable, acked, begun,
                 restarts>>

WriteFails == writing.left # <<>> /\ Fails("write") /\ UNCHANGED segs

\* file.Write stores a part of the frame and reports an error.
ShortWrite == writing.left # <<>> /\ Fails("short") /\ segs' = Appended(Torn)

SyncFails == writing.left = <<>> /\ writing.sync /\ Fails("sync") /\ UNCHANGED segs

\* The records of the active segment a power loss can no longer cut: those
\* acknowledged by the time it is synced.
RecordsIn(seg) == {f.rec : f \in {g \in Range(seg.frames) : g.kind \in {"none", "operation"}}}
Covered == acked' \cap RecordsIn(Active)

\* rotateMemtable: the full memtable waits for the flusher with its segment,
\* which is closed and not synced, and a new segment takes its place.
Rotated(ss, mt, size) ==
  LET full == size >= MaxMemtableSize
  IN /\ segs' = IF full THEN Append(ss, NewSegment) ELSE ss
     /\ memtable' = IF full THEN {} ELSE mt
     /\ memTableSize' = IF full THEN 0 ELSE size
     /\ immutables' = IF full THEN Append(immutables, mt) ELSE immutables

SyncedUpTo(n) == WithActive([Active EXCEPT !.synced = IF writing.sync THEN n ELSE @])

\* Variant of Acknowledge: Sync comes before the commit frame.
AcknowledgeSyncsEarly ==
  /\ writing.busy /\ writing.left = <<>>
  /\ Rotated(SyncedUpTo(Len(Active.frames) - 1), PutInto(memtable, writing.recs),
             memTableSize + Cardinality(writing.recs))
  /\ nextSeq' = writing.next
  /\ acked' = acked \cup writing.recs
  /\ durable' = IF writing.sync THEN durable \cup Covered ELSE durable
  /\ writing' = Idle
  /\ UNCHANGED <<status, flushed, begun, restarts, faults>>

\* Sync if asked to, apply to the memtable, rotate it when it is full, and
\* acknowledge.
Acknowledge ==
  /\ writing.busy /\ writing.left = <<>>
  /\ Rotated(SyncedUpTo(Len(Active.frames)), PutInto(memtable, writing.recs),
             memTableSize + Cardinality(writing.recs))
  /\ nextSeq' = writing.next
  /\ acked' = acked \cup writing.recs
  /\ durable' = IF writing.sync THEN durable \cup Covered ELSE durable
  /\ writing' = Idle
  /\ UNCHANGED <<status, flushed, begun, restarts, faults>>

\* The oldest immutable memtable becomes a synced table and its segment goes,
\* but not the older ones that Open may have found and replayed with it.
\* Engine.tla takes these steps apart.
FlushSegment ==
  /\ status = "open" /\ immutables # <<>>
  /\ flushed' = PutInto(flushed, Head(immutables))
  /\ segs' = RemoveAt(segs, Len(segs) - Len(immutables))
  /\ immutables' = Tail(immutables)
  /\ UNCHANGED <<status, writing, memtable, memTableSize, nextSeq, durable, acked,
                 begun, restarts, faults>>

Stopped ==
  /\ status = "open" /\ restarts < MaxRestarts
  /\ status' = "down"
  /\ restarts' = restarts + 1
  /\ writing' = Idle /\ nextSeq' = 1
  /\ memtable' = {} /\ memTableSize' = 0 /\ immutables' = <<>>
  /\ UNCHANGED <<flushed, durable, begun, faults>>

\* The process is killed; a write under way may be cut short.
Crash ==
  /\ Stopped
  /\ segs' \in {segs} \cup (IF writing.left = <<>> THEN {} ELSE {Appended(Torn)})
  /\ UNCHANGED acked

\* What a power loss may leave of a segment: what was synced, a prefix of the
\* rest, and a part of the next frame.
Survivors(seg, cut) ==
  {[frames |-> SubSeq(seg.frames, 1, n), synced |-> n]
     : n \in seg.synced..Len(seg.frames)}
  \cup {[frames |-> Append(SubSeq(seg.frames, 1, n), Torn), synced |-> n]
     : n \in seg.synced..(IF cut THEN Len(seg.frames) ELSE Len(seg.frames) - 1)}

\* The machine stops: every segment is cut on its own.
PowerLoss ==
  /\ Stopped
  /\ segs' \in {ss \in [DOMAIN segs -> UNION {Survivors(segs[i], writing.left # <<>>)
                                                : i \in DOMAIN segs}] :
                 \A i \in DOMAIN segs :
                   ss[i] \in Survivors(segs[i], i = Len(segs) /\ writing.left # <<>>)}
  /\ acked' = durable \cup (acked \cap flushed)

Next ==
  \/ Open \/ OpenCorrupt \/ WriteFrame \/ Acknowledge \/ FlushSegment
  \/ WriteFails \/ ShortWrite \/ SyncFails \/ Crash \/ PowerLoss
  \/ \E ops \in Batches : StartRecord(ops)
  \/ \E ops \in Batches, sync \in BOOLEAN : StartBatch(ops, sync)

Spec == Init /\ [][Next]_vars
-----------------------------------------------------------------------------
Recs == [key: Key, seq: 0..MaxSeq, val: Value \cup {Tombstone}]
FrameSet == [kind: {"none", "begin", "operation", "commit", "torn"},
             id: 0..MaxSeq, rec: Recs]

\* Types; a sequence is never 0, no more is synced than was written, and in an
\* open database each memtable has a segment of its own.
TypeOK ==
  /\ status \in {"open", "down", "corrupt"}
  /\ \A seg \in Range(segs) :
       seg.frames \in Seq(FrameSet) /\ seg.synced \in 0..Len(seg.frames)
  /\ status = "open" => Len(segs) > Len(immutables)
  /\ writing.left \in Seq(FrameSet) /\ writing.recs \subseteq Recs
  /\ writing.next \in 0..MaxSeq
  /\ writing.sync \in BOOLEAN /\ writing.busy \in BOOLEAN
  /\ memtable \subseteq Recs /\ memTableSize \in Nat
  /\ \A mt \in Range(immutables) : mt \subseteq Recs
  /\ nextSeq \in 1..(MaxSeq + 1)
  /\ durable \subseteq acked /\ acked \subseteq Recs /\ flushed \subseteq Recs
  /\ begun \subseteq SUBSET Recs
  /\ restarts \in 0..MaxRestarts /\ faults \subseteq Faults

\* What is found after a restart.
Recovered == flushed \cup Replayed(segs).mt

\* A write is recovered whole or not at all, wherever the files were cut and
\* whatever abandoned batches they contain: every record that
\* ReplayIntoWithStats puts into the memtable belongs to a Put, Delete or
\* batch that it puts there completely ("WriteBatch applies a batch of
\* mutations atomically", storage.proto).  A failed Sync is excepted: it leaves
\* a committed batch in the file whose sequences are given out again.
ReplayAtomic ==
  "sync" \notin faults =>
    LET found == Recovered
    IN found = UNION {w \in begun : w \subseteq found}

\* "Writes are appended to the WAL before being applied to the active
\* memtable.  When the database is opened, WAL segments are replayed": at any
\* moment, and across any number of stops of the process, Open can replay the
\* files and finds every write that returned without an error.
AcknowledgedSurvive == status # "corrupt" /\ acked \subseteq Recovered

\* The same for a log in which no file.Write was cut short; a short write is
\* the subject of the run that refutes AcknowledgedSurvive.
AcknowledgedSurviveWholeFrames == "short" \notin faults => AcknowledgedSurvive

\* A batch committed with Sync outlives a power loss, and so does every write
\* of its segment that was acknowledged before it, also after the segment was
\* rotated or flushed (rotateMemtable closes a segment without a sync).
SyncedSurvive ==
  "short" \notin faults =>
    durable \subseteq flushed \cup
      Replayed([i \in DOMAIN segs |->
        [segs[i] EXCEPT !.frames = SubSeq(@, 1, segs[i].synced)]]).mt
=============================================================================
