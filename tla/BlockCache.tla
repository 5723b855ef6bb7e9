----------------------------- MODULE BlockCache -----------------------------
(***************************************************************************)
(* internal/blockcache: the LRU cache of blocks.  LRU.mu makes every       *)
(* operation atomic, so an operation is a function from a cache to a cache.*)
(*                                                                         *)
(* entries maps a key <<table, offset>> to the block stored under it;      *)
(* order lists the keys from the most to the least recently used.          *)
(***************************************************************************)
EXTENDS Integers, SequencesExt

EmptyCache(capacity) ==
  [capacity |-> capacity, used |-> 0, entries |-> <<>>, order |-> <<>>]

Drop(f, keys) == [x \in DOMAIN f \ keys |-> f[x]]
ToFront(order, key) == <<key>> \o SelectSeq(order, LAMBDA k : k # key)

\* Get moves the entry to the front; Cached tells whether it was a hit.
Cached(c, key) == key \in DOMAIN c.entries
Touched(c, key) == [c EXCEPT !.order = ToFront(@, key)]

\* deleteLocked
Deleted(c, key) ==
  IF ~Cached(c, key) THEN c
  ELSE [c EXCEPT !.used = @ - c.entries[key].size,
                 !.entries = Drop(@, {key}),
                 !.order = SelectSeq(@, LAMBDA k : k # key)]

\* Variant: the bytes of purged blocks stay accounted for.
PurgeTableKeepsBytes(c, table) ==
  LET keys == {k \in DOMAIN c.entries : k[1] = table}
  IN [c EXCEPT !.entries = Drop(@, keys),
               !.order = SelectSeq(@, LAMBDA k : k \notin keys)]

\* PurgeTable
PurgeTable(c, table) ==
  LET keys == {k \in DOMAIN c.entries : k[1] = table}
  IN [c EXCEPT !.used = @ - MapThenSumSet(LAMBDA k : c.entries[k].size, keys),
               !.entries = Drop(@, keys),
               !.order = SelectSeq(@, LAMBDA k : k \notin keys)]

\* Variant: the front of the list is evicted first.
EvictedFromFront(c) ==
  LET size(k) == c.entries[k].size
      first(n) == SubSeq(c.order, 1, n)
      bytes(n) == FoldLeft(LAMBDA sum, k : sum + size(k), 0, first(n))
      n == Min({m \in 0..Len(c.order) : c.used - bytes(m) <= c.capacity}
                 \cup {Len(c.order)})
  IN [c EXCEPT !.used = @ - bytes(n),
               !.entries = Drop(@, Range(first(n))),
               !.order = SubSeq(@, n + 1, Len(@))]

\* evictLocked: drop from the back until the rest fits.
Evicted(c) ==
  LET size(k) == c.entries[k].size
      last(n) == SubSeq(c.order, Len(c.order) - n + 1, Len(c.order))
      bytes(n) == FoldLeft(LAMBDA sum, k : sum + size(k), 0, last(n))
      n == Min({m \in 0..Len(c.order) : c.used - bytes(m) <= c.capacity}
                 \cup {Len(c.order)})
  IN [c EXCEPT !.used = @ - bytes(n),
               !.entries = Drop(@, Range(last(n))),
               !.order = SubSeq(@, 1, Len(@) - n)]

\* Set: a block that can never fit only drops what was stored under its key.
Stored(c, key, block, size) ==
  LET old == IF Cached(c, key) THEN c.entries[key].size ELSE 0
  IN IF size = 0 THEN c
     ELSE IF c.capacity = 0 \/ size > c.capacity THEN Deleted(c, key)
     ELSE Evicted([c EXCEPT
            !.used = @ - old + size,
            !.entries = (key :> [block |-> block, size |-> size]) @@ @,
            !.order = ToFront(@, key)])
-----------------------------------------------------------------------------
\* The accounting of a cache: order lists the entries once each, used is the
\* sum of their sizes and never above the capacity.
Accounted(c) ==
  /\ Range(c.order) = DOMAIN c.entries /\ IsInjective(c.order)
  /\ c.used = MapThenSumSet(LAMBDA k : c.entries[k].size, DOMAIN c.entries)
  /\ c.used <= c.capacity
=============================================================================
