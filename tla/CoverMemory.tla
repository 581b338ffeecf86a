---------------------------- MODULE CoverMemory -----------------------------
(***************************************************************************)
(* CoverMemCache of crates/gashuu/src/cover_loader.rs: the decoded covers  *)
(* kept in memory, least recently used first, within a budget of bytes.    *)
(* The cover workers use it under one lock, an operation at a time.        *)
(***************************************************************************)
EXTENDS Integers, Sequences, SequencesExt

NoCovers == [lru |-> <<>>, total_bytes |-> 0]

HasCover(c, key) == \E i \in DOMAIN c.lru : c.lru[i].key = key
Unlisted(c, key) == SelectSeq(c.lru, LAMBDA e : e.key # key)
CoverAt(c, key) == c.lru[SelectInSeq(c.lru, LAMBDA e : e.key = key)]

\* CoverMemCache::get: a hit becomes the most recently used.
touch_cover(c, key) ==
  IF HasCover(c, key) THEN [c EXCEPT !.lru = Append(Unlisted(c, key), CoverAt(c, key))] ELSE c

\* pop_lru until the total is within the budget or one cover is left.
Trimmed(c, budget) ==
  FoldLeft(LAMBDA left, e :
             IF left.total_bytes > budget /\ Len(left.lru) > 1
               THEN [lru |-> Tail(left.lru), total_bytes |-> left.total_bytes - e.bytes]
               ELSE left,
           c, c.lru)

\* CoverMemCache::insert: a replaced cover's bytes are taken off first.
insert_cover(c, key, bytes, budget) ==
  LET freed == IF HasCover(c, key) THEN CoverAt(c, key).bytes ELSE 0
  IN  Trimmed([lru |-> Append(Unlisted(c, key), [key |-> key, bytes |-> bytes]),
               total_bytes |-> c.total_bytes - freed + bytes], budget)
=============================================================================
