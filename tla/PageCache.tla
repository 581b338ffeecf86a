----------------------------- MODULE PageCache -----------------------------
(***************************************************************************)
(* The decoded-page cache of crates/gashuu-core/src/cache.rs: an LRU with  *)
(* a count ceiling and a byte budget behind one mutex, page-decode workers *)
(* that run CacheDispatch::decode_and_cache, and the background prefetch   *)
(* tasks on the rayon pool with their in-flight markers behind a second    *)
(* mutex.  A step is one critical section of the cache mutex, or of both;  *)
(* reads and decodes happen between steps and show only in what the next   *)
(* step finds.  A read or a decode may fail, and two decodes of one page   *)
(* may differ in size (a folder's file can be replaced on disk).           *)
(***************************************************************************)
EXTENDS Integers, Sequences, SequencesExt

CONSTANTS
  SourceLength,    \* Inner::len
  Capacity,     \* CacheConfig::capacity
  MaxBytes,     \* CacheConfig::max_bytes
  Radius,       \* CacheConfig::radius; 0 disables prefetch
  Sizes,        \* decoded sizes a page may have
  Workers,      \* page-decode jobs that can be under way at once (a bound)
  Tasks         \* prefetch tasks queued or running at once (a bound)

ASSUME SourceLengthAssumption == SourceLength \in Nat
ASSUME CapacityAssumption == Capacity \in Nat \ {0}
ASSUME MaxBytesAssumption == MaxBytes \in Nat
ASSUME RadiusAssumption == Radius \in Nat
ASSUME SizesAssumption == Sizes \subseteq Nat \ {0}

VARIABLES
  store,        \* PageStore: entries from least to most recently used, total_bytes
  in_flight,    \* pages some prefetch task has reserved
  dispatch,     \* per worker: the progress of a decode_and_cache call
  prefetch      \* per task: the progress of a prefetch_blocking call

cacheVars == <<store, in_flight, dispatch, prefetch>>

PageIndexes == 0 .. SourceLength - 1
Entries == [page : PageIndexes, bytes : Sizes]

-----------------------------------------------------------------------------
(* PageStore. *)

contains(st, i) == \E k \in DOMAIN st.lru : st.lru[k].page = i
PositionOf(st, i) == CHOOSE k \in DOMAIN st.lru : st.lru[k].page = i
EntryOf(st, i) == st.lru[PositionOf(st, i)]
Without(st, i) == IF contains(st, i) THEN RemoveAt(st.lru, PositionOf(st, i)) ELSE st.lru

\* What the buffers of a run of entries take together.
Bytes(lru) ==
  LET sum[n \in 0 .. Len(lru)] == IF n = 0 THEN 0 ELSE sum[n - 1] + lru[n].bytes
  IN  sum[Len(lru)]

\* LruCache::get: a hit becomes the most recently used entry.
get(st, i) == [st EXCEPT !.lru = Append(Without(st, i), EntryOf(st, i))]

\* After n calls of pop_lru, whose bytes are subtracted one by one.
popped(st, n) ==
  [lru |-> SubSeq(st.lru, n + 1, Len(st.lru)),
   total |-> st.total - Bytes(SubSeq(st.lru, 1, n))]
pop_lru(st) == popped(st, 1)

\* A plausible slip: the floor of one entry is forgotten.
evict_to_budget_NoFloor(st) ==
  LET fits(n) == popped(st, n).total <= MaxBytes
  IN  popped(st, CHOOSE n \in 0 .. Len(st.lru) : fits(n) /\ \A m \in 0 .. n - 1 : ~fits(m))

\* Pop least recently used entries while over budget, down to one entry.
evict_to_budget(st) ==
  LET stops(n) == popped(st, n).total <= MaxBytes \/ Len(st.lru) - n <= 1
  IN  popped(st, CHOOSE n \in 0 .. Len(st.lru) : stops(n) /\ \A m \in 0 .. n - 1 : ~stops(m))

\* A plausible slip: LruCache's own eviction is left to drop the displaced entry.
put_SilentEviction(st, i, b) ==
  LET kept == IF ~contains(st, i) /\ Len(st.lru) = Capacity THEN Tail(st.lru)
              ELSE Without(st, i)
      old == IF contains(st, i) THEN EntryOf(st, i).bytes ELSE 0
  IN  evict_to_budget([lru |-> Append(kept, [page |-> i, bytes |-> b]),
                       total |-> st.total - old + b])

\* PageStore::put.
put(st, i, b) ==
  LET room == IF ~contains(st, i) /\ Len(st.lru) = Capacity THEN pop_lru(st) ELSE st
      old == IF contains(room, i) THEN EntryOf(room, i).bytes ELSE 0
  IN  evict_to_budget([lru |-> Append(Without(room, i), [page |-> i, bytes |-> b]),
                       total |-> room.total - old + b])

\* The neighbours of `center` within the radius, clamped to the book.
prefetch_indices(center) ==
  {i \in PageIndexes : i # center /\ i >= center - Radius /\ i <= center + Radius}

-----------------------------------------------------------------------------
(* Tasks and workers. *)

IdleWorker == [pc |-> "idle", page |-> 0]
NoTask == [pc |-> "none", center |-> 0, keys |-> {}]

CacheTypeOK ==
  /\ store \in [lru : Seq(Entries), total : Int]
  /\ in_flight \in SUBSET PageIndexes
  /\ dispatch \in [Workers -> [pc : {"idle", "reading", "decoding"}, page : Nat]]
  /\ prefetch \in [Tasks -> [pc : {"none", "queued", "decoding", "clearing"},
                             center : Nat, keys : SUBSET PageIndexes]]

CacheInit ==
  /\ store = [lru |-> << >>, total |-> 0]
  /\ in_flight = {}
  /\ dispatch = [w \in Workers |-> IdleWorker]
  /\ prefetch = [t \in Tasks |-> NoTask]

\* spawn_prefetch: fire and forget; nothing at all when the radius is 0.
spawn_prefetch(center) ==
  IF Radius = 0 THEN prefetch' = prefetch
  ELSE \E t \in Tasks :
         /\ prefetch[t].pc = "none"
         /\ prefetch' = [prefetch EXCEPT
              ![t] = [pc |-> "queued", center |-> center, keys |-> {}]]

\* ImageCache::get_cached on a hit; a miss changes nothing.
GetCached(i) ==
  /\ contains(store, i)
  /\ store' = get(store, i)
  /\ spawn_prefetch(i)
  /\ UNCHANGED <<in_flight, dispatch>>

Hit(w, i) ==
  /\ contains(store, i)
  /\ store' = get(store, i)
  /\ spawn_prefetch(i)
  /\ dispatch' = [dispatch EXCEPT ![w] = IdleWorker]
  /\ UNCHANGED in_flight

\* decode_and_cache, up to the read.
DecodeBegin(w, i) ==
  /\ dispatch[w].pc = "idle"
  /\ \/ Hit(w, i)
     \/ /\ ~contains(store, i)
        /\ dispatch' = [dispatch EXCEPT ![w] = [pc |-> "reading", page |-> i]]
        /\ UNCHANGED <<store, in_flight, prefetch>>

\* read_bytes returned: an error ends the call, otherwise the second look-up.
DecodeRead(w) ==
  /\ dispatch[w].pc = "reading"
  /\ \/ Hit(w, dispatch[w].page)
     \/ /\ dispatch' = [dispatch EXCEPT ![w] = IdleWorker]
        /\ UNCHANGED <<store, in_flight, prefetch>>
     \/ /\ ~contains(store, dispatch[w].page)
        /\ dispatch' = [dispatch EXCEPT ![w].pc = "decoding"]
        /\ UNCHANGED <<store, in_flight, prefetch>>

\* cache_decoded: the first writer wins.
cache_decoded(w, b) ==
  LET i == dispatch[w].page
  IN  store' = IF contains(store, i) THEN get(store, i) ELSE put(store, i, b)

\* decode returned: an error ends the call, otherwise insert and prefetch.
DecodeEnd(w) ==
  /\ dispatch[w].pc = "decoding"
  /\ dispatch' = [dispatch EXCEPT ![w] = IdleWorker]
  /\ \/ UNCHANGED <<store, prefetch>>
     \/ \E b \in Sizes : cache_decoded(w, b) /\ spawn_prefetch(dispatch[w].page)
  /\ UNCHANGED in_flight

\* A plausible slip: pages another task is decoding are reserved again.
Candidates_Twice(center) == {i \in prefetch_indices(center) : ~contains(store, i)}

Candidates(center) ==
  {i \in prefetch_indices(center) : ~contains(store, i) /\ i \notin in_flight}

\* prefetch_blocking, the reservation under both locks.
PrefetchReserve(t) ==
  /\ prefetch[t].pc = "queued"
  /\ LET keys == Candidates(prefetch[t].center)
     IN  /\ in_flight' = in_flight \cup keys
         /\ prefetch' = [prefetch EXCEPT ![t].pc = "decoding", ![t].keys = keys]
  /\ UNCHANGED <<store, dispatch>>

\* The pages of ok with their bytes b, in ascending order as par_iter collects them.
PutAll(st, ok, b) ==
  LET after[n \in 0 .. SourceLength] ==
        IF n = 0 THEN st
        ELSE IF n - 1 \in ok THEN put(after[n - 1], n - 1, b[n - 1]) ELSE after[n - 1]
  IN  after[SourceLength]

\* prefetch_blocking, the insertion: failed decodes are dropped.
PrefetchInsert(t) ==
  /\ prefetch[t].pc = "decoding"
  /\ \E ok \in SUBSET prefetch[t].keys, b \in [prefetch[t].keys -> Sizes] :
       store' = PutAll(store, ok, b)
  /\ prefetch' = [prefetch EXCEPT ![t].pc = "clearing"]
  /\ UNCHANGED <<in_flight, dispatch>>

\* A plausible slip: markers are cleared only for pages that were cached.
PrefetchClear_OnlyCached(t) ==
  /\ prefetch[t].pc = "clearing"
  /\ in_flight' = in_flight \ {i \in prefetch[t].keys : contains(store, i)}
  /\ prefetch' = [prefetch EXCEPT ![t] = NoTask]
  /\ UNCHANGED <<store, dispatch>>

\* InFlightGuard::drop, after the cache lock was released.
PrefetchClear(t) ==
  /\ prefetch[t].pc = "clearing"
  /\ in_flight' = in_flight \ prefetch[t].keys
  /\ prefetch' = [prefetch EXCEPT ![t] = NoTask]
  /\ UNCHANGED <<store, dispatch>>

Worker(w) == (\E i \in PageIndexes : DecodeBegin(w, i)) \/ DecodeRead(w) \/ DecodeEnd(w)
Task(t) == PrefetchReserve(t) \/ PrefetchInsert(t) \/ PrefetchClear(t)

CacheNext ==
  \/ \E i \in PageIndexes : GetCached(i)
  \/ \E w \in Workers : Worker(w)
  \/ \E t \in Tasks : Task(t)

CacheSpec == CacheInit /\ [][CacheNext]_cacheVars

\* The rayon pool runs every spawned task to its end.
CacheFairness == \A t \in Tasks : WF_cacheVars(Task(t))
CacheLiveSpec == CacheSpec /\ CacheFairness

-----------------------------------------------------------------------------
(* Properties. *)

\* Whatever order hits, worker insertions, prefetch overwrites and evictions
\* come in: no page has two entries, total_bytes is the sum of what is cached,
\* and both ceilings hold, with the floor of one page over the budget by itself.
BudgetsHold ==
  /\ \A k, m \in DOMAIN store.lru : store.lru[k].page = store.lru[m].page => k = m
  /\ store.total = Bytes(store.lru)
  /\ Len(store.lru) <= Capacity
  /\ store.total <= MaxBytes \/ Len(store.lru) = 1

Reserved(t) == prefetch[t].keys

\* The in-flight markers are exactly the pages running tasks hold, and no page
\* is held by two tasks: nothing is prefetched twice at once, and nothing is
\* cleared that another task still decodes.
InFlightExact ==
  /\ in_flight = UNION {Reserved(t) : t \in Tasks}
  /\ \A s, t \in Tasks : s # t => Reserved(s) \cap Reserved(t) = {}

\* A page that was inserted is cached when its critical section ends: eviction
\* never takes the page just decoded, and an insertion never empties the cache.
InsertedPageSurvives ==
  [][ /\ \A w \in Workers :
           (dispatch[w].pc = "decoding" /\ store' # store /\ dispatch'[w].pc = "idle")
             => contains(store', dispatch[w].page)
      /\ store'.lru = << >> => store.lru = << >> ]_cacheVars

\* A marker never outlives its task, whether its pages decoded or failed: a
\* leaked one would disable prefetch of that page for the cache's lifetime.
MarkersAreCleared ==
  \A i \in PageIndexes : (i \in in_flight) ~> (i \notin in_flight)
=============================================================================
