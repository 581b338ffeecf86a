------------------------- MODULE DecodedPagesProofs -------------------------
(***************************************************************************)
(* Decoded pages, from the cache to the screen, for every value of the     *)
(* constants.  PageCache: the in-flight markers of the prefetches are      *)
(* exact, the byte count is right, both ceilings hold and a decoded page   *)
(* is cached.  PageLoader: a result that was overtaken never paints.       *)
(***************************************************************************)
EXTENDS PageCache, PageLoader, FiniteSetTheorems, SequenceTheorems, NaturalsInduction,
        WellFoundedInduction, TLAPS

-----------------------------------------------------------------------------
(* The in-flight markers. *)

\* What the markers' exactness rests on: a task holds pages only between its
\* reservation and its clearing.
PrefetchType ==
  prefetch \in [Tasks -> [pc : {"none", "queued", "decoding", "clearing"},
                          center : Nat, keys : SUBSET PageIndexes]]

HoldsOnlyWhileRunning ==
  \A t \in Tasks : prefetch[t].pc \in {"none", "queued"} => prefetch[t].keys = {}

MarkerInv == PrefetchType /\ HoldsOnlyWhileRunning /\ InFlightExact

\* Replacing one task by another that holds the same pages disturbs nothing.
LEMMA SameKeys ==
  ASSUME MarkerInv, NEW t \in Tasks,
         NEW r \in [pc : {"none", "queued", "decoding", "clearing"},
                    center : Nat, keys : SUBSET PageIndexes],
         r.keys = prefetch[t].keys,
         r.pc \in {"none", "queued"} => r.keys = {},
         prefetch' = [prefetch EXCEPT ![t] = r],
         in_flight' = in_flight
  PROVE  MarkerInv'
  <1>1. PrefetchType'
    BY DEF MarkerInv, PrefetchType
  <1>2. \A s \in Tasks : prefetch'[s].keys = prefetch[s].keys
    BY DEF MarkerInv, PrefetchType
  <1>3. HoldsOnlyWhileRunning'
    BY DEF MarkerInv, PrefetchType, HoldsOnlyWhileRunning
  <1>4. InFlightExact'
    BY <1>2 DEF MarkerInv, InFlightExact, Reserved
  <1>5. QED
    BY <1>1, <1>3, <1>4 DEF MarkerInv

\* spawn_prefetch gives a free task a centre and no page.
LEMMA SpawnKeepsMarkers ==
  ASSUME MarkerInv, NEW i \in Nat, spawn_prefetch(i), in_flight' = in_flight
  PROVE  MarkerInv'
  <1>1. CASE Radius = 0
    BY <1>1 DEF spawn_prefetch, MarkerInv, PrefetchType, HoldsOnlyWhileRunning,
                InFlightExact, Reserved
  <1>2. CASE Radius # 0
    <2>1. PICK t \in Tasks :
            /\ prefetch[t].pc = "none"
            /\ prefetch' = [prefetch EXCEPT
                 ![t] = [pc |-> "queued", center |-> i, keys |-> {}]]
      BY <1>2 DEF spawn_prefetch
    <2>2. prefetch[t].keys = {}
      BY <2>1 DEF MarkerInv, HoldsOnlyWhileRunning
    <2>3. QED
      BY <2>1, <2>2, SameKeys
  <1>3. QED
    BY <1>1, <1>2

LEMMA UnchangedKeepsMarkers ==
  ASSUME MarkerInv, UNCHANGED <<in_flight, prefetch>> PROVE MarkerInv'
  BY DEF MarkerInv, PrefetchType, HoldsOnlyWhileRunning, InFlightExact, Reserved

LEMMA ReserveKeepsMarkers ==
  ASSUME MarkerInv, NEW t \in Tasks, PrefetchReserve(t) PROVE MarkerInv'
  <1> DEFINE keys == Candidates(prefetch[t].center)
  <1>1. /\ prefetch[t].pc = "queued"
        /\ in_flight' = in_flight \cup keys
        /\ prefetch' = [prefetch EXCEPT ![t].pc = "decoding", ![t].keys = keys]
    BY DEF PrefetchReserve
  <1>2. keys \subseteq PageIndexes /\ keys \cap in_flight = {}
    BY DEF Candidates, prefetch_indices
  <1>3. prefetch[t].keys = {}
    BY <1>1 DEF MarkerInv, HoldsOnlyWhileRunning
  <1> HIDE DEF keys
  <1>4. PrefetchType'
    BY <1>1, <1>2 DEF MarkerInv, PrefetchType
  <1>5. /\ prefetch'[t].keys = keys
        /\ \A s \in Tasks \ {t} : prefetch'[s] = prefetch[s]
    BY <1>1 DEF MarkerInv, PrefetchType
  <1>6. HoldsOnlyWhileRunning'
    BY <1>1, <1>5 DEF MarkerInv, PrefetchType, HoldsOnlyWhileRunning
  <1>7. in_flight' = UNION {prefetch'[s].keys : s \in Tasks}
    <2>1. ASSUME NEW i \in in_flight PROVE \E s \in Tasks : i \in prefetch'[s].keys
      <3>1. PICK s \in Tasks : i \in prefetch[s].keys
        BY <2>1 DEF MarkerInv, InFlightExact, Reserved
      <3>2. s # t
        BY <3>1, <1>3
      <3>3. QED
        BY <3>1, <3>2, <1>5
    <2>2. ASSUME NEW s \in Tasks, NEW i \in prefetch'[s].keys PROVE i \in in_flight \cup keys
      <3>1. CASE s = t
        BY <2>2, <3>1, <1>5
      <3>2. CASE s # t
        BY <2>2, <3>2, <1>5 DEF MarkerInv, InFlightExact, Reserved
      <3>3. QED
        BY <3>1, <3>2
    <2>3. \A i \in keys : i \in prefetch'[t].keys
      BY <1>5
    <2>4. QED
      BY <1>1, <2>1, <2>2, <2>3
  <1>8. \A s \in Tasks : prefetch[s].keys \subseteq in_flight
    BY DEF MarkerInv, InFlightExact, Reserved
  <1>9. \A s, u \in Tasks : s # u => prefetch'[s].keys \cap prefetch'[u].keys = {}
    BY <1>2, <1>5, <1>8 DEF MarkerInv, InFlightExact, Reserved
  <1>10. QED
    BY <1>4, <1>6, <1>7, <1>9 DEF MarkerInv, InFlightExact, Reserved

LEMMA InsertKeepsMarkers ==
  ASSUME MarkerInv, NEW t \in Tasks, PrefetchInsert(t) PROVE MarkerInv'
  <1> DEFINE r == [prefetch[t] EXCEPT !.pc = "clearing"]
  <1>1. prefetch' = [prefetch EXCEPT ![t] = r] /\ in_flight' = in_flight
    BY DEF PrefetchInsert, MarkerInv, PrefetchType
  <1>2. /\ r \in [pc : {"none", "queued", "decoding", "clearing"},
                  center : Nat, keys : SUBSET PageIndexes]
        /\ r.keys = prefetch[t].keys
        /\ r.pc = "clearing"
    BY DEF MarkerInv, PrefetchType
  <1> HIDE DEF r
  <1>3. QED
    BY <1>1, <1>2, SameKeys

LEMMA ClearKeepsMarkers ==
  ASSUME MarkerInv, NEW t \in Tasks, PrefetchClear(t) PROVE MarkerInv'
  <1>1. /\ in_flight' = in_flight \ prefetch[t].keys
        /\ prefetch' = [prefetch EXCEPT ![t] = NoTask]
    BY DEF PrefetchClear
  <1>2. /\ prefetch'[t].keys = {}
        /\ \A s \in Tasks \ {t} : prefetch'[s] = prefetch[s]
    BY <1>1 DEF MarkerInv, PrefetchType, NoTask
  <1>3. PrefetchType'
    BY <1>1 DEF MarkerInv, PrefetchType, NoTask
  <1>4. HoldsOnlyWhileRunning'
    BY <1>2 DEF MarkerInv, HoldsOnlyWhileRunning
  <1>5. in_flight' = UNION {prefetch'[s].keys : s \in Tasks}
    BY <1>1, <1>2 DEF MarkerInv, InFlightExact, Reserved
  <1>6. \A s, u \in Tasks : s # u => prefetch'[s].keys \cap prefetch'[u].keys = {}
    BY <1>2 DEF MarkerInv, InFlightExact, Reserved
  <1>7. QED
    BY <1>3, <1>4, <1>5, <1>6 DEF MarkerInv, InFlightExact, Reserved

-----------------------------------------------------------------------------
\* A worker always has a page number, also for the prefetch it spawns.
DispatchType ==
  dispatch \in [Workers -> [pc : {"idle", "reading", "decoding"}, page : Nat]]

LEMMA InitDispatch == CacheInit => DispatchType
  BY DEF CacheInit, DispatchType, IdleWorker

LEMMA NextDispatch == DispatchType /\ [CacheNext]_cacheVars => DispatchType'
  <1> SUFFICES ASSUME DispatchType, [CacheNext]_cacheVars PROVE DispatchType'
    OBVIOUS
  <1> USE DEF DispatchType, IdleWorker
  <1>1. ASSUME NEW i \in PageIndexes, GetCached(i) PROVE DispatchType'
    BY <1>1 DEF GetCached
  <1>2. ASSUME NEW w \in Workers, NEW i, Hit(w, i) PROVE DispatchType'
    BY <1>2 DEF Hit
  <1>3. ASSUME NEW w \in Workers, NEW i \in PageIndexes, DecodeBegin(w, i)
        PROVE  DispatchType'
    BY <1>2, <1>3, SourceLengthAssumption DEF DecodeBegin, PageIndexes
  <1>4. ASSUME NEW w \in Workers, DecodeRead(w) PROVE DispatchType'
    BY <1>2, <1>4 DEF DecodeRead
  <1>5. ASSUME NEW w \in Workers, DecodeEnd(w) PROVE DispatchType'
    BY <1>5 DEF DecodeEnd
  <1>6. ASSUME NEW t \in Tasks, Task(t) PROVE DispatchType'
    BY <1>6 DEF Task, PrefetchReserve, PrefetchInsert, PrefetchClear
  <1>7. CASE UNCHANGED cacheVars
    BY <1>7 DEF cacheVars
  <1>8. QED
    BY <1>1, <1>3, <1>4, <1>5, <1>6, <1>7 DEF CacheNext, Worker

LEMMA InitMarkers == CacheInit => MarkerInv
  BY DEF CacheInit, MarkerInv, PrefetchType, HoldsOnlyWhileRunning, InFlightExact,
         Reserved, NoTask

\* Every step keeps the markers exact; UI hits and workers only ever spawn.
LEMMA NextMarkers == DispatchType /\ MarkerInv /\ [CacheNext]_cacheVars => MarkerInv'
  <1> SUFFICES ASSUME DispatchType, MarkerInv, [CacheNext]_cacheVars PROVE MarkerInv'
    OBVIOUS
  <1>0. PageIndexes \subseteq Nat /\ \A w \in Workers : dispatch[w].page \in Nat
    BY SourceLengthAssumption DEF PageIndexes, DispatchType
  <1>1. ASSUME NEW i \in PageIndexes, GetCached(i) PROVE MarkerInv'
    BY <1>0, <1>1, SpawnKeepsMarkers DEF GetCached
  <1>2. ASSUME NEW w \in Workers, NEW i \in Nat, Hit(w, i) PROVE MarkerInv'
    BY <1>2, SpawnKeepsMarkers DEF Hit
  <1>3. ASSUME NEW w \in Workers, NEW i \in PageIndexes, DecodeBegin(w, i)
        PROVE  MarkerInv'
    BY <1>0, <1>2, <1>3, UnchangedKeepsMarkers DEF DecodeBegin
  <1>4. ASSUME NEW w \in Workers, DecodeRead(w) PROVE MarkerInv'
    <2>1. CASE Hit(w, dispatch[w].page)
      BY <1>0, <1>2, <2>1
    <2>2. CASE UNCHANGED <<in_flight, prefetch>>
      BY <2>2, UnchangedKeepsMarkers
    <2>3. QED
      BY <1>4, <2>1, <2>2 DEF DecodeRead
  <1>5. ASSUME NEW w \in Workers, DecodeEnd(w) PROVE MarkerInv'
    BY <1>0, <1>5, SpawnKeepsMarkers, UnchangedKeepsMarkers DEF DecodeEnd
  <1>6. ASSUME NEW t \in Tasks, Task(t) PROVE MarkerInv'
    BY <1>6, ReserveKeepsMarkers, InsertKeepsMarkers, ClearKeepsMarkers DEF Task
  <1>7. CASE UNCHANGED cacheVars
    BY <1>7, UnchangedKeepsMarkers DEF cacheVars
  <1>8. QED
    BY <1>1, <1>3, <1>4, <1>5, <1>6, <1>7 DEF CacheNext, Worker

THEOREM MarkersExact == CacheSpec => []InFlightExact
  <1>1. MarkerInv => InFlightExact
    BY DEF MarkerInv
  <1>2. QED
    BY InitDispatch, NextDispatch, InitMarkers, NextMarkers, <1>1, PTL DEF CacheSpec

-----------------------------------------------------------------------------
(* Counting steps. *)

LEMMA LeastOf ==
  ASSUME NEW S \in SUBSET Nat, S # {}
  PROVE  \E n \in S : \A m \in S : n <= m
  <1>1. PICK R : R = {ss \in Nat \X Nat : ss[1] < ss[2]}
    OBVIOUS
  <1>2. IsWellFoundedOn(R, Nat)
    BY <1>1, NatLessThanWellFounded, Zenon DEF OpToRel
  <1>3. PICK n \in S : \A m \in S : ~ (<<m, n>> \in R)
    BY <1>2, WFMin
  <1>4. ASSUME NEW m \in S PROVE n <= m
    <2>1. PICK pair : pair = <<m, n>>
      OBVIOUS
    <2>2. pair \in Nat \X Nat /\ pair[1] = m /\ pair[2] = n
      BY <2>1
    <2>3. ~ (pair[1] < pair[2])
      BY <1>1, <1>3, <2>1, <2>2
    <2> QED
      BY <2>2, <2>3
  <1> QED
    BY <1>4

\* A set of numbers that has 0 and with each number the next one up to N has all.
LEMMA UpTo ==
  ASSUME NEW N \in Nat, NEW S, 0 \in S, \A n \in 1 .. N : n - 1 \in S => n \in S
  PROVE  0 .. N \subseteq S
<1> SUFFICES ASSUME (0 .. N) \ S # {} PROVE FALSE
  OBVIOUS
<1>1. PICK n \in (0 .. N) \ S : \A m \in (0 .. N) \ S : n <= m
  <2>1. (0 .. N) \ S \in SUBSET Nat
    OBVIOUS
  <2> QED
    BY <2>1, LeastOf
<1>2. n \in 1 .. N /\ n - 1 \in 0 .. N
  BY <1>1
<1>3. n - 1 \in S
  BY <1>1, <1>2
<1> QED
  BY <1>1, <1>2, <1>3

\* f records a value of X carried from x through n steps.
Carries(f, n, X, x, step) ==
  /\ f \in [0 .. n -> X] /\ f[0] = x
  /\ \A m \in 1 .. n : f[m] = step[m][f[m - 1]]

\* There is such a record for any number of steps.
LEMMA IterationExists ==
  ASSUME NEW N \in Nat, NEW X, NEW x \in X, NEW step \in [1 .. N -> [X -> X]]
  PROVE  \E f : Carries(f, N, X, x, step)
<1> DEFINE Upto(n, f) == Carries(f, n, X, x, step)
           S == {n \in 0 .. N : \E f : Upto(n, f)}
<1>1. 0 \in S
  <2>1. PICK f : f = [m \in 0 .. 0 |-> x]
    OBVIOUS
  <2>2. Upto(0, f)
    BY <2>1 DEF Carries
  <2> HIDE DEF Upto
  <2> QED
    BY <2>2
<1>2. ASSUME NEW n \in 1 .. N, n - 1 \in S PROVE n \in S
  <2>1. PICK f : Upto(n - 1, f)
    BY <1>2
  <2>2. step[n][f[n - 1]] \in X
    BY <2>1 DEF Carries
  <2>3. PICK g : g = [m \in 0 .. n |-> IF m = n THEN step[n][f[n - 1]] ELSE f[m]]
    OBVIOUS
  <2>4. g \in [0 .. n -> X] /\ g[0] = x /\ g[n] = step[n][f[n - 1]] /\ g[n - 1] = f[n - 1]
    BY <2>1, <2>2, <2>3 DEF Carries
  <2>5. ASSUME NEW m \in 1 .. n PROVE g[m] = step[m][g[m - 1]]
    <3>1. CASE m = n
      BY <2>4, <3>1
    <3>2. CASE m # n
      <4>1. m \in 1 .. n - 1 /\ m - 1 \in 0 .. n /\ m - 1 # n
        BY <3>2
      <4> QED
        BY <2>1, <2>3, <4>1 DEF Carries
    <3> QED
      BY <3>1, <3>2
  <2>6. Upto(n, g)
    BY <2>4, <2>5 DEF Carries
  <2> HIDE DEF Upto
  <2> QED
    BY <2>6
<1> HIDE DEF S
<1>3. N \in S
  <2>1. \A n \in 1 .. N : n - 1 \in S => n \in S
    BY <1>2
  <2>2. 0 .. N \subseteq S
    BY <1>1, <2>1, UpTo
  <2> QED
    BY <2>2
<1> QED
  BY <1>3 DEF S

-----------------------------------------------------------------------------
(* The bytes of a run of entries, as a set of numbered bytes. *)

Distinct(lru) == \A k, m \in DOMAIN lru : lru[k].page = lru[m].page => k = m

Lrus == {lru \in Seq(Entries) : Distinct(lru)}

Held(E) == UNION {{e.page} \X (1 .. e.bytes) : e \in E}

LEMMA BytesOfEntry ==
  ASSUME NEW e \in Entries
  PROVE  /\ e.page \in Nat /\ e.bytes \in Nat
         /\ IsFiniteSet({e.page} \X (1 .. e.bytes)) /\ Cardinality({e.page} \X (1 .. e.bytes)) = e.bytes
<1>1. e.page \in Nat /\ e.bytes \in Nat
  <2>1. e.page \in PageIndexes /\ e.bytes \in Sizes
    BY DEF Entries
  <2>2. e.page \in Nat
    BY <2>1, SourceLengthAssumption DEF PageIndexes
  <2>3. e.bytes \in Nat
    BY <2>1, SizesAssumption
  <2> QED
    BY <2>2, <2>3
<1>2. IsFiniteSet(1 .. e.bytes) /\ Cardinality(1 .. e.bytes) = e.bytes
  <2>1. PICK b \in Nat : b = e.bytes
    BY <1>1
  <2>2. IsFiniteSet(1 .. b) /\ Cardinality(1 .. b) = b
    BY FS_Interval
  <2> QED
    BY <2>1, <2>2
<1>3. IsFiniteSet({e.page}) /\ Cardinality({e.page}) = 1
  BY FS_Singleton
<1>4. /\ IsFiniteSet({e.page} \X (1 .. e.bytes))
      /\ Cardinality({e.page} \X (1 .. e.bytes)) = 1 * e.bytes
  <2>1. PICK S, T : S = {e.page} /\ T = 1 .. e.bytes
    OBVIOUS
  <2>2. IsFiniteSet(S \X T) /\ Cardinality(S \X T) = Cardinality(S) * Cardinality(T)
    BY <1>2, <1>3, <2>1, FS_Product
  <2> QED
    BY <1>2, <1>3, <2>1, <2>2
<1> QED
  BY <1>1, <1>4

\* An entry of another page adds its own bytes.
LEMMA HeldAdd ==
  ASSUME NEW E \in SUBSET Entries, IsFiniteSet(Held(E)), NEW e \in Entries,
         \A d \in E : d.page # e.page
  PROVE  /\ IsFiniteSet(Held(E \cup {e}))
         /\ Cardinality(Held(E \cup {e})) = Cardinality(Held(E)) + e.bytes
<1> DEFINE own == {e.page} \X (1 .. e.bytes)
<1>1. IsFiniteSet(own) /\ Cardinality(own) = e.bytes
  BY BytesOfEntry
<1>2. Held(E \cup {e}) = Held(E) \cup own
  BY DEF Held
<1>3. Held(E) \cap own = {}
  BY DEF Held
<1> HIDE DEF own
<1>4. Cardinality(Held(E) \cap own) = 0
  BY <1>3, FS_EmptySet
<1>5. Cardinality(Held(E)) \in Nat /\ e.bytes \in Nat
  BY FS_CardinalityType, BytesOfEntry
<1>6. /\ IsFiniteSet(Held(E) \cup own)
      /\ Cardinality(Held(E) \cup own) = Cardinality(Held(E)) + Cardinality(own) - Cardinality(Held(E) \cap own)
  BY <1>1, FS_Union
<1>7. /\ IsFiniteSet(Held(E) \cup own)
      /\ Cardinality(Held(E) \cup own) = Cardinality(Held(E)) + e.bytes
  BY <1>1, <1>4, <1>5, <1>6
<1> QED
  BY <1>2, <1>7

First(lru, n) == {lru[k] : k \in 1 .. n}

LEMMA BytesAreHeld ==
  ASSUME NEW lru \in Lrus
  PROVE  IsFiniteSet(Held(Range(lru))) /\ Bytes(lru) = Cardinality(Held(Range(lru)))
<1> DEFINE N == Len(lru)
           next(sum) == [n \in 0 .. N |-> IF n = 0 THEN 0 ELSE sum[n - 1] + lru[n].bytes]
<1>1. lru \in Seq(Entries) /\ N \in Nat /\ DOMAIN lru = 1 .. N /\ Distinct(lru)
  BY DEF Lrus
<1>2. ASSUME NEW n \in 1 .. N PROVE lru[n] \in Entries /\ lru[n].bytes \in Nat
  <2>1. lru[n] \in Entries
    BY <1>1
  <2> QED
    BY <2>1, BytesOfEntry
<1> HIDE DEF N
<1>3. PICK sum : sum = next(sum) /\ Bytes(lru) = sum[N]
  <2>1. PICK step : step = [n \in 1 .. N |-> [x \in Nat |-> x + lru[n].bytes]]
    OBVIOUS
  <2>2. step \in [1 .. N -> [Nat -> Nat]]
    BY <1>2, <2>1
  <2>3. PICK f \in [0 .. N -> Nat] : f[0] = 0 /\ \A n \in 1 .. N : f[n] = step[n][f[n - 1]]
    <3>1. PICK f : Carries(f, N, Nat, 0, step)
      BY <1>1, <2>2, IterationExists
    <3> QED
      BY <3>1 DEF Carries
  <2>4. ASSUME NEW n \in 1 .. N PROVE f[n] = f[n - 1] + lru[n].bytes
    <3>1. n - 1 \in 0 .. N
      BY <1>1
    <3>2. f[n - 1] \in Nat
      BY <2>3, <3>1
    <3> QED
      BY <2>1, <2>3, <3>2
  <2>5. f = next(f)
    BY <2>3, <2>4
  <2>6. Bytes(lru) = (CHOOSE sum : sum = next(sum))[N]
    BY DEF Bytes, N
  <2> HIDE DEF next
  <2> QED
    BY <2>5, <2>6
<1>4. sum[0] = 0 /\ \A n \in 1 .. N : sum[n] = sum[n - 1] + lru[n].bytes
  BY <1>1, <1>3
<1> DEFINE S == {n \in 0 .. N : IsFiniteSet(Held(First(lru, n))) /\ sum[n] = Cardinality(Held(First(lru, n)))}
<1>5. 0 \in S
  <2>1. First(lru, 0) = {}
    BY DEF First
  <2>2. Held(First(lru, 0)) = {}
    BY <2>1 DEF Held
  <2>3. IsFiniteSet(Held(First(lru, 0))) /\ sum[0] = Cardinality(Held(First(lru, 0)))
    BY <1>4, <2>2, FS_EmptySet
  <2> QED
    BY <1>1, <2>3
<1>6. ASSUME NEW n \in 1 .. N, n - 1 \in S PROVE n \in S
  <2>1. /\ IsFiniteSet(Held(First(lru, n - 1))) /\ sum[n - 1] = Cardinality(Held(First(lru, n - 1)))
    BY <1>6
  <2>2. First(lru, n) = First(lru, n - 1) \cup {lru[n]}
    BY <1>6 DEF First
  <2>3. First(lru, n - 1) \in SUBSET Entries
    <3>1. \A k \in 1 .. n - 1 : k \in 1 .. N
      BY <1>1
    <3> QED
      BY <1>2, <3>1 DEF First
  <2>4. \A d \in First(lru, n - 1) : d.page # lru[n].page
    BY <1>1 DEF First, Distinct
  <2>5. /\ IsFiniteSet(Held(First(lru, n)))
        /\ Cardinality(Held(First(lru, n))) = Cardinality(Held(First(lru, n - 1))) + lru[n].bytes
    BY <1>2, <2>1, <2>2, <2>3, <2>4, HeldAdd
  <2> QED
    BY <1>4, <2>1, <2>5
<1> HIDE DEF S
<1>7. N \in S
  BY <1>1, <1>5, <1>6, UpTo
<1>8. First(lru, N) = Range(lru)
  BY <1>1 DEF First, Range
<1> QED
  BY <1>3, <1>7, <1>8 DEF S

LEMMA RangeInEntries ==
  ASSUME NEW lru \in Lrus
  PROVE  /\ lru \in Seq(Entries) /\ Len(lru) \in Nat /\ DOMAIN lru = 1 .. Len(lru)
         /\ Distinct(lru) /\ Range(lru) \in SUBSET Entries
  BY DEF Lrus, Range

\* Two runs without a page in common take together what their union takes.
LEMMA BytesSplit ==
  ASSUME NEW s \in Lrus, NEW t \in Lrus, NEW u \in Lrus,
         Range(u) = Range(s) \cup Range(t),
         \A d \in Range(s), e \in Range(t) : d.page # e.page
  PROVE  Bytes(u) = Bytes(s) + Bytes(t) /\ Bytes(s) \in Nat /\ Bytes(t) \in Nat
<1>1. PICK S, T : S = Held(Range(s)) /\ T = Held(Range(t))
  OBVIOUS
<1>2. /\ IsFiniteSet(S) /\ IsFiniteSet(T)
      /\ Bytes(s) = Cardinality(S) /\ Bytes(t) = Cardinality(T)
      /\ Bytes(u) = Cardinality(Held(Range(u)))
  BY <1>1, BytesAreHeld
<1>3. Held(Range(u)) = S \cup T
  BY <1>1 DEF Held
<1>4. S \cap T = {}
  BY <1>1 DEF Held
<1>5. Cardinality(S \cup T) = Cardinality(S) + Cardinality(T) - Cardinality(S \cap T)
  BY <1>2, FS_Union
<1>6. Cardinality(S \cap T) = 0 /\ Cardinality(S) \in Nat /\ Cardinality(T) \in Nat
  BY <1>2, <1>4, FS_EmptySet, FS_CardinalityType
<1>7. Cardinality(S \cup T) = Cardinality(S) + Cardinality(T)
  BY <1>5, <1>6
<1>8. Bytes(u) = Cardinality(S \cup T)
  BY <1>2, <1>3
<1> QED
  BY <1>2, <1>6, <1>7, <1>8

LEMMA BytesOfOne ==
  ASSUME NEW e \in Entries
  PROVE  <<e>> \in Lrus /\ Range(<<e>>) = {e} /\ Bytes(<<e>>) = e.bytes
<1>1. <<e>> \in Lrus /\ Range(<<e>>) = {e}
  BY DEF Lrus, Distinct, Range
<1>2. Held({e}) = {e.page} \X (1 .. e.bytes)
  BY DEF Held
<1> QED
  BY <1>1, <1>2, BytesAreHeld, BytesOfEntry

\* An entry of a new page at the end.
LEMMA AppendIs ==
  ASSUME NEW lru \in Lrus, NEW e \in Entries, \A d \in Range(lru) : d.page # e.page
  PROVE  /\ Append(lru, e) \in Lrus /\ Len(Append(lru, e)) = Len(lru) + 1
         /\ Append(lru, e)[Len(lru) + 1] = e
         /\ Range(Append(lru, e)) = Range(lru) \cup {e}
         /\ Bytes(Append(lru, e)) = Bytes(lru) + e.bytes /\ Bytes(lru) \in Nat
<1>1. lru \in Seq(Entries) /\ Len(lru) \in Nat /\ DOMAIN lru = 1 .. Len(lru) /\ Distinct(lru)
  BY RangeInEntries
<1>2. PICK u : u = Append(lru, e)
  OBVIOUS
<1>3. /\ u \in Seq(Entries) /\ Len(u) = Len(lru) + 1 /\ DOMAIN u = 1 .. Len(lru) + 1
      /\ u[Len(lru) + 1] = e /\ \A k \in 1 .. Len(lru) : u[k] = lru[k]
  BY <1>1, <1>2
<1>4. Range(u) = Range(lru) \cup {e}
  BY <1>1, <1>3 DEF Range
<1>5. \A k \in 1 .. Len(lru) : u[k].page # e.page
  BY <1>1, <1>3 DEF Range
<1>6. Distinct(u)
  BY <1>1, <1>3, <1>5 DEF Distinct
<1>7. u \in Lrus
  BY <1>3, <1>6 DEF Lrus
<1>8. Bytes(u) = Bytes(lru) + Bytes(<<e>>) /\ Bytes(lru) \in Nat
  BY <1>4, <1>7, BytesOfOne, BytesSplit
<1> QED
  BY <1>2, <1>3, <1>4, <1>7, <1>8, BytesOfOne

\* Taking the entry of a page out.
LEMMA WithoutIs ==
  ASSUME NEW st, st.lru \in Lrus, NEW i
  PROVE  /\ Without(st, i) \in Lrus
         /\ Range(Without(st, i)) = {e \in Range(st.lru) : e.page # i}
         /\ Len(Without(st, i)) = IF contains(st, i) THEN Len(st.lru) - 1 ELSE Len(st.lru)
         /\ contains(st, i) => EntryOf(st, i) \in Range(st.lru) /\ EntryOf(st, i).page = i
<1>1. PICK lru \in Lrus : lru = st.lru
  OBVIOUS
<1>2. lru \in Seq(Entries) /\ Len(lru) \in Nat /\ DOMAIN lru = 1 .. Len(lru) /\ Distinct(lru)
  BY RangeInEntries
<1>3. CASE ~contains(st, i)
  BY <1>1, <1>3 DEF contains, Without, Range
<1>4. CASE contains(st, i)
  <2>1. PICK k \in DOMAIN lru : k = PositionOf(st, i)
    BY <1>1, <1>4 DEF contains, PositionOf
  <2>2. lru[k].page = i
    BY <1>1, <1>4, <2>1 DEF contains, PositionOf
  <2>3. \A m \in DOMAIN lru : lru[m].page = i => m = k
    BY <1>2, <2>2 DEF Distinct
  <2>4. PICK a, z : a = SubSeq(lru, 1, k - 1) /\ z = SubSeq(lru, k + 1, Len(lru))
    OBVIOUS
  <2>5. /\ a \in Seq(Entries) /\ Len(a) = k - 1 /\ \A m \in 1 .. k - 1 : a[m] = lru[m]
        /\ z \in Seq(Entries) /\ Len(z) = Len(lru) - k /\ \A m \in 1 .. Len(lru) - k : z[m] = lru[k + m]
    <3>1. k - 1 \in Int /\ k + 1 \in Int /\ Len(lru) \in Int /\ k \in 1 .. Len(lru)
      BY <1>2
    <3>2. \A m \in 1 .. k - 1 : lru[m] \in Entries
      BY <1>2, <3>1
    <3>3. \A m \in k + 1 .. Len(lru) : lru[m] \in Entries
      BY <1>2, <3>1
    <3>4. /\ a \in Seq(Entries) /\ Len(a) = IF 1 <= k - 1 THEN (k - 1) - 1 + 1 ELSE 0
          /\ \A m \in 1 .. (k - 1) - 1 + 1 : a[m] = lru[1 + m - 1]
      BY <2>4, <3>1, <3>2, SubSeqProperties
    <3>5. /\ z \in Seq(Entries) /\ Len(z) = IF k + 1 <= Len(lru) THEN Len(lru) - (k + 1) + 1 ELSE 0
          /\ \A m \in 1 .. Len(lru) - (k + 1) + 1 : z[m] = lru[(k + 1) + m - 1]
      BY <2>4, <3>1, <3>3, SubSeqProperties
    <3>6. Len(a) = k - 1 /\ \A m \in 1 .. k - 1 : a[m] = lru[m]
      BY <3>1, <3>4
    <3>7. Len(z) = Len(lru) - k
      <4>1. CASE k + 1 <= Len(lru)
        BY <1>2, <3>1, <3>5, <4>1
      <4>2. CASE ~(k + 1 <= Len(lru))
        <5>1. Len(z) = 0 /\ Len(lru) = k
          BY <1>2, <3>1, <3>5, <4>2
        <5> QED
          BY <1>2, <5>1
      <4> QED
        BY <4>1, <4>2
    <3>8. ASSUME NEW m \in 1 .. Len(lru) - k PROVE z[m] = lru[k + m]
      <4>1. m \in 1 .. Len(lru) - (k + 1) + 1 /\ (k + 1) + m - 1 = k + m
        BY <1>2, <3>1
      <4> QED
        BY <3>5, <4>1
    <3> QED
      BY <3>4, <3>5, <3>6, <3>7, <3>8
  <2>6. PICK rest : rest = a \o z
    OBVIOUS
  <2>7. /\ rest \in Seq(Entries) /\ Len(rest) = Len(lru) - 1
        /\ \A m \in 1 .. Len(lru) - 1 : rest[m] = IF m < k THEN lru[m] ELSE lru[m + 1]
    <3>1. /\ rest \in Seq(Entries) /\ Len(rest) = Len(a) + Len(z)
          /\ \A m \in 1 .. Len(a) + Len(z) : rest[m] = IF m <= Len(a) THEN a[m] ELSE z[m - Len(a)]
      BY <2>5, <2>6, ConcatProperties
    <3>2. k \in 1 .. Len(lru) /\ Len(a) + Len(z) = Len(lru) - 1
      BY <1>2, <2>5
    <3>3. ASSUME NEW m \in 1 .. Len(lru) - 1
          PROVE  rest[m] = IF m < k THEN lru[m] ELSE lru[m + 1]
      <4>1. CASE m < k
        <5>1. m <= Len(a) /\ m \in 1 .. k - 1
          BY <2>5, <3>2, <4>1
        <5> QED
          BY <2>5, <3>1, <3>2, <4>1, <5>1
      <4>2. CASE ~(m < k)
        <5>1. ~(m <= Len(a)) /\ m - Len(a) \in 1 .. Len(lru) - k /\ k + (m - Len(a)) = m + 1
          BY <1>2, <2>5, <3>2, <4>2
        <5> QED
          BY <2>5, <3>1, <3>2, <4>2, <5>1
      <4> QED
        BY <4>1, <4>2
    <3> QED
      BY <3>1, <3>2, <3>3
  <2>8. DOMAIN rest = 1 .. Len(lru) - 1
    BY <2>7
  <2>9. Without(st, i) = rest /\ EntryOf(st, i) = lru[k]
    BY <1>1, <1>4, <2>1, <2>4, <2>6 DEF Without, RemoveAt, EntryOf
  <2>10. Range(rest) = {e \in Range(lru) : e.page # i}
    <3>1. ASSUME NEW m \in DOMAIN rest PROVE rest[m] \in Range(lru) /\ rest[m].page # i
      BY <1>2, <2>3, <2>7, <2>8 DEF Range
    <3>2. ASSUME NEW m \in DOMAIN lru, lru[m].page # i PROVE lru[m] \in Range(rest)
      <4>1. CASE m < k
        <5>1. m \in 1 .. Len(lru) - 1 /\ rest[m] = lru[m]
          BY <1>2, <2>7, <4>1
        <5> QED
          BY <2>8, <5>1 DEF Range
      <4>2. CASE m > k
        <5>1. m - 1 \in 1 .. Len(lru) - 1 /\ rest[m - 1] = lru[m]
          BY <1>2, <2>7, <4>2
        <5> QED
          BY <2>8, <5>1 DEF Range
      <4>3. m # k
        BY <2>2, <3>2
      <4> QED
        BY <1>2, <4>1, <4>2, <4>3
    <3> QED
      BY <3>1, <3>2 DEF Range
  <2>11. Distinct(rest)
    <3> SUFFICES ASSUME NEW m \in DOMAIN rest, NEW n \in DOMAIN rest, rest[m].page = rest[n].page
                 PROVE  m = n
      BY DEF Distinct
    <3> DEFINE from(j) == IF j < k THEN j ELSE j + 1
    <3>1. \A j \in DOMAIN rest : from(j) \in DOMAIN lru /\ rest[j] = lru[from(j)]
      BY <1>2, <2>7, <2>8
    <3>2. from(m) = from(n)
      BY <1>2, <3>1 DEF Distinct
    <3> QED
      BY <1>2, <2>8, <3>2
  <2>12. rest \in Lrus /\ lru[k] \in Range(lru)
    BY <2>7, <2>11 DEF Lrus, Range
  <2> QED
    BY <1>1, <1>4, <2>2, <2>7, <2>9, <2>10, <2>12
<1> QED
  BY <1>3, <1>4

-----------------------------------------------------------------------------
(* The operations of the store. *)

\* The byte count is right.
Counted == {st \in [lru : Lrus, total : Int] : st.total = Bytes(st.lru)}

\* And both ceilings hold.
Stores == {st \in Counted : /\ Len(st.lru) <= Capacity
                            /\ st.total <= MaxBytes \/ Len(st.lru) = 1}

LEMMA StoreIs ==
  ASSUME NEW lru \in Lrus, NEW total \in Int, total = Bytes(lru)
  PROVE  [lru |-> lru, total |-> total] \in Counted
  BY DEF Counted

LEMMA PoppedIs ==
  ASSUME NEW st \in Counted, NEW n \in 0 .. Len(st.lru)
  PROVE  /\ popped(st, n) \in Counted
         /\ Len(popped(st, n).lru) = Len(st.lru) - n
         /\ \A k \in 1 .. Len(st.lru) - n : popped(st, n).lru[k] = st.lru[n + k]
         /\ popped(st, n).total \in Int
<1>1. PICK lru \in Lrus : lru = st.lru /\ st.total = Bytes(lru) /\ st.total \in Int
  BY DEF Counted
<1>2. lru \in Seq(Entries) /\ Len(lru) \in Nat /\ DOMAIN lru = 1 .. Len(lru) /\ Distinct(lru)
  BY RangeInEntries
<1>3. PICK a, z : a = SubSeq(lru, 1, n) /\ z = SubSeq(lru, n + 1, Len(lru))
  OBVIOUS
<1>4. n \in Nat /\ n <= Len(lru)
  BY <1>1, <1>2
<1>5. a \in Seq(Entries) /\ Len(a) = n /\ \A k \in 1 .. n : a[k] = lru[k]
  <2>1. \A k \in 1 .. n : lru[k] \in Entries
    BY <1>2, <1>4
  <2>2. /\ a \in Seq(Entries) /\ Len(a) = IF 1 <= n THEN n - 1 + 1 ELSE 0
        /\ \A k \in 1 .. n - 1 + 1 : a[k] = lru[1 + k - 1]
    BY <1>3, <1>4, <2>1, SubSeqProperties
  <2> QED
    BY <1>4, <2>2
<1>6. z \in Seq(Entries) /\ Len(z) = Len(lru) - n /\ \A k \in 1 .. Len(lru) - n : z[k] = lru[n + k]
  <2>1. \A k \in n + 1 .. Len(lru) : lru[k] \in Entries
    BY <1>2, <1>4
  <2>2. /\ z \in Seq(Entries) /\ Len(z) = IF n + 1 <= Len(lru) THEN Len(lru) - (n + 1) + 1 ELSE 0
        /\ \A k \in 1 .. Len(lru) - (n + 1) + 1 : z[k] = lru[(n + 1) + k - 1]
    BY <1>2, <1>3, <1>4, <2>1, SubSeqProperties
  <2>3. Len(z) = Len(lru) - n
    <3>1. CASE n + 1 <= Len(lru)
      BY <1>2, <1>4, <2>2, <3>1
    <3>2. CASE ~(n + 1 <= Len(lru))
      <4>1. Len(z) = 0
        BY <2>2, <3>2
      <4>2. Len(lru) = n
        <5>1. PICK L \in Nat : L = Len(lru)
          BY <1>2
        <5>2. n \in Nat /\ n <= L /\ ~(n + 1 <= L)
          BY <1>4, <3>2, <5>1
        <5>3. L = n
          BY <5>2
        <5> QED
          BY <5>1, <5>3
      <4> QED
        BY <1>4, <4>1, <4>2
    <3> QED
      BY <3>1, <3>2
  <2>4. ASSUME NEW k \in 1 .. Len(lru) - n PROVE z[k] = lru[n + k]
    <3>1. k \in 1 .. Len(lru) - (n + 1) + 1 /\ (n + 1) + k - 1 = n + k
      BY <1>2, <1>4
    <3> QED
      BY <2>2, <3>1
  <2> QED
    BY <2>2, <2>3, <2>4
<1>7. DOMAIN a = 1 .. n /\ DOMAIN z = 1 .. Len(lru) - n
  BY <1>5, <1>6
<1>8. Distinct(a)
  BY <1>2, <1>4, <1>5, <1>7 DEF Distinct
<1>9. ASSUME NEW k \in DOMAIN z PROVE n + k \in DOMAIN lru /\ n + k > n /\ z[k] = lru[n + k]
  BY <1>2, <1>4, <1>6, <1>7
<1>10. Distinct(z)
  <2> SUFFICES ASSUME NEW k \in DOMAIN z, NEW m \in DOMAIN z, z[k].page = z[m].page PROVE k = m
    BY DEF Distinct
  <2>1. n + k = n + m
    BY <1>2, <1>9 DEF Distinct
  <2> QED
    BY <1>4, <1>7, <2>1
<1>11. a \in Lrus /\ z \in Lrus
  BY <1>5, <1>6, <1>8, <1>10 DEF Lrus
<1>12. Range(lru) = Range(a) \cup Range(z)
  <2>1. Range(a) \subseteq Range(lru)
    BY <1>2, <1>4, <1>5, <1>7 DEF Range
  <2>2. Range(z) \subseteq Range(lru)
    BY <1>9 DEF Range
  <2>3. ASSUME NEW k \in DOMAIN lru PROVE lru[k] \in Range(a) \cup Range(z)
    <3>1. CASE k <= n
      <4>1. k \in DOMAIN a /\ a[k] = lru[k]
        BY <1>2, <1>4, <1>5, <1>7, <3>1
      <4> QED
        BY <4>1 DEF Range
    <3>2. CASE k > n
      <4>1. k - n \in DOMAIN z /\ n + (k - n) = k
        BY <1>2, <1>4, <1>7, <3>2
      <4>2. z[k - n] = lru[k]
        BY <1>9, <4>1
      <4> QED
        BY <4>1, <4>2 DEF Range
    <3> QED
      BY <1>2, <1>4, <3>1, <3>2
  <2> QED
    BY <2>1, <2>2, <2>3 DEF Range
<1>13. ASSUME NEW d \in Range(a), NEW e \in Range(z) PROVE d.page # e.page
  <2>1. PICK k \in 1 .. n : d = lru[k]
    BY <1>5, <1>7 DEF Range
  <2>2. PICK m \in DOMAIN lru : e = lru[m] /\ m > n
    BY <1>9 DEF Range
  <2>3. k \in DOMAIN lru /\ k # m
    BY <1>2, <1>4, <2>2
  <2> QED
    BY <1>2, <2>1, <2>2, <2>3 DEF Distinct
<1>14. Bytes(lru) = Bytes(a) + Bytes(z) /\ Bytes(a) \in Nat /\ Bytes(z) \in Nat
  BY <1>11, <1>12, <1>13, BytesSplit
<1>15. popped(st, n) = [lru |-> z, total |-> Bytes(z)]
  <2>1. Bytes(lru) - Bytes(a) = Bytes(z)
    BY <1>14
  <2> QED
    BY <1>1, <1>3, <2>1 DEF popped
<1>16. popped(st, n) \in Counted
  BY <1>11, <1>14, <1>15, StoreIs
<1> QED
  BY <1>1, <1>6, <1>14, <1>15, <1>16

\* Eviction ends within both ceilings, and never takes the newest entry.
LEMMA EvictIs ==
  ASSUME NEW st \in Counted, Len(st.lru) >= 1, Len(st.lru) <= Capacity
  PROVE  /\ evict_to_budget(st) \in Stores
         /\ \E k \in DOMAIN evict_to_budget(st).lru : evict_to_budget(st).lru[k] = st.lru[Len(st.lru)]
<1> DEFINE L == Len(st.lru)
           stops(n) == popped(st, n).total <= MaxBytes \/ L - n <= 1
           S == {n \in 0 .. L : stops(n)}
<1>1. L \in Nat /\ L >= 1
  BY RangeInEntries DEF Counted
<1> HIDE DEF L
<1>2. L - 1 \in S
  BY <1>1
<1>3. PICK n \in S : \A m \in S : n <= m
  <2>1. S \in SUBSET Nat /\ S # {}
    <3> HIDE DEF stops
    <3> QED
      BY <1>1, <1>2
  <2> HIDE DEF S
  <2> QED
    BY <2>1, LeastOf
<1>4. n \in 0 .. L /\ stops(n) /\ \A m \in 0 .. n - 1 : ~stops(m)
  <2>1. n \in 0 .. L /\ stops(n)
    OBVIOUS
  <2>2. ASSUME NEW m \in 0 .. n - 1, stops(m) PROVE FALSE
    <3>1. m \in S /\ ~(n <= m)
      BY <1>1, <2>1, <2>2
    <3> QED
      BY <1>3, <3>1
  <2> QED
    BY <2>1, <2>2
<1>5. n <= L - 1
  BY <1>2, <1>3
<1> DEFINE first(j) == j \in 0 .. L /\ stops(j) /\ \A m \in 0 .. j - 1 : ~stops(m)
<1>6. PICK j : j = CHOOSE i \in 0 .. L : stops(i) /\ \A m \in 0 .. i - 1 : ~stops(m)
  OBVIOUS
<1>7. j \in 0 .. L /\ stops(j) /\ \A m \in 0 .. j - 1 : ~stops(m)
  <2> HIDE DEF stops, S
  <2> QED
    BY <1>4, <1>6
<1>8. j <= n
  <2>1. CASE j > n
    <3>1. n \in 0 .. j - 1
      BY <1>1, <1>4, <1>7, <2>1
    <3> HIDE DEF stops, S
    <3> QED
      BY <1>4, <1>7, <3>1
  <2> QED
    BY <1>4, <1>7, <2>1
<1>9. evict_to_budget(st) = popped(st, j)
  BY <1>6 DEF evict_to_budget, L
<1>10. PICK out : out = popped(st, j)
  OBVIOUS
<1>11. /\ out \in Counted /\ Len(out.lru) = L - j
       /\ \A k \in 1 .. L - j : out.lru[k] = st.lru[j + k]
  BY <1>7, <1>10, PoppedIs DEF L
<1>12. j \in Nat /\ j <= L - 1
  BY <1>1, <1>4, <1>5, <1>7, <1>8
<1>13. Len(out.lru) <= Capacity
  BY <1>1, <1>11, <1>12, CapacityAssumption DEF L
<1>14. out.total <= MaxBytes \/ Len(out.lru) = 1
  BY <1>1, <1>7, <1>10, <1>11, <1>12
<1>15. out \in Stores
  BY <1>11, <1>13, <1>14 DEF Stores
<1>16. L - j \in DOMAIN out.lru /\ out.lru[L - j] = st.lru[L]
  <2>1. L - j \in 1 .. L - j /\ j + (L - j) = L
    BY <1>1, <1>12
  <2>2. DOMAIN out.lru = 1 .. Len(out.lru)
    BY <1>11, RangeInEntries DEF Counted
  <2> QED
    BY <1>11, <2>1, <2>2
<1> QED
  BY <1>9, <1>10, <1>15, <1>16 DEF L

\* What is left without the entry of a page, and what the entry took.
LEMMA TakenOut ==
  ASSUME NEW st \in Counted, NEW i, contains(st, i)
  PROVE  /\ EntryOf(st, i) \in Entries /\ EntryOf(st, i).page = i
         /\ st.total = Bytes(Without(st, i)) + EntryOf(st, i).bytes
<1>1. PICK rest \in Lrus : rest = Without(st, i) /\ Range(rest) = {e \in Range(st.lru) : e.page # i}
  BY WithoutIs DEF Counted
<1>2. PICK e : e = EntryOf(st, i) /\ e \in Range(st.lru) /\ e.page = i
  BY WithoutIs DEF Counted
<1>3. st.lru \in Lrus /\ Distinct(st.lru) /\ e \in Entries
  BY <1>2, RangeInEntries DEF Counted
<1>4. \A d \in Range(st.lru) : d.page = i => d = e
  BY <1>2, <1>3 DEF Range, Distinct
<1>5. Range(st.lru) = Range(rest) \cup Range(<<e>>)
  BY <1>1, <1>2, <1>3, <1>4, BytesOfOne
<1>6. Bytes(st.lru) = Bytes(rest) + Bytes(<<e>>)
  <2>1. PICK one \in Lrus : one = <<e>> /\ Range(one) = {e}
    BY <1>3, BytesOfOne
  <2>2. \A d \in Range(rest), f \in Range(one) : d.page # f.page
    BY <1>1, <1>2, <2>1
  <2>3. Range(st.lru) = Range(rest) \cup Range(one)
    BY <1>5, <2>1
  <2> QED
    BY <1>3, <2>1, <2>2, <2>3, BytesSplit
<1> QED
  BY <1>1, <1>2, <1>3, <1>6, BytesOfOne DEF Counted

LEMMA GetIs ==
  ASSUME NEW st \in Stores, NEW i, contains(st, i)
  PROVE  get(st, i) \in Stores /\ contains(get(st, i), i)
<1>1. PICK rest \in Lrus : /\ rest = Without(st, i)
                         /\ Range(rest) = {d \in Range(st.lru) : d.page # i}
                         /\ Len(rest) = Len(st.lru) - 1
  BY WithoutIs DEF Stores, Counted
<1>2. PICK e \in Entries : e = EntryOf(st, i) /\ e.page = i /\ st.total = Bytes(rest) + e.bytes
  BY <1>1, TakenOut DEF Stores
<1>3. PICK u : u = Append(rest, e)
  OBVIOUS
<1>4. /\ u \in Lrus /\ Len(u) = Len(rest) + 1 /\ u[Len(rest) + 1] = e
      /\ Bytes(u) = Bytes(rest) + e.bytes
  BY <1>1, <1>2, <1>3, AppendIs
<1>5. st = [lru |-> st.lru, total |-> st.total] /\ st.total \in Int
  BY DEF Stores, Counted
<1>6. get(st, i) = [lru |-> u, total |-> st.total]
  <2>1. get(st, i) = [st EXCEPT !.lru = u]
    BY <1>1, <1>2, <1>3 DEF get
  <2>2. st \in [lru : Lrus, total : Int]
    BY DEF Stores, Counted
  <2> QED
    BY <2>1, <2>2
<1>7. Len(st.lru) \in Nat /\ Len(rest) \in Nat /\ Len(u) = Len(st.lru) /\ DOMAIN u = 1 .. Len(u)
  BY <1>1, <1>4, RangeInEntries DEF Stores, Counted
<1>8. st.total = Bytes(u)
  BY <1>2, <1>4
<1>9. get(st, i) \in Counted
  BY <1>4, <1>5, <1>6, <1>8, StoreIs
<1>10. get(st, i) \in Stores
  BY <1>6, <1>7, <1>9 DEF Stores
<1>11. Len(rest) + 1 \in DOMAIN u
  BY <1>4, <1>7
<1> QED
  BY <1>2, <1>4, <1>6, <1>10, <1>11 DEF contains

LEMMA PutIs ==
  ASSUME NEW st \in Stores, NEW i \in PageIndexes, NEW b \in Sizes
  PROVE  put(st, i, b) \in Stores /\ contains(put(st, i, b), i)
<1>1. PICK room : room = IF ~contains(st, i) /\ Len(st.lru) = Capacity THEN pop_lru(st) ELSE st
  OBVIOUS
<1>2. st \in Counted /\ Len(st.lru) \in Nat /\ Len(st.lru) <= Capacity /\ DOMAIN st.lru = 1 .. Len(st.lru)
  BY RangeInEntries DEF Stores, Counted
<1>3. /\ room \in Counted /\ Len(room.lru) \in Nat
      /\ contains(room, i) => Len(room.lru) <= Capacity
      /\ ~contains(room, i) => Len(room.lru) <= Capacity - 1
  <2>1. CASE ~contains(st, i) /\ Len(st.lru) = Capacity
    <3>1. 1 \in 0 .. Len(st.lru) /\ Capacity \in Nat
      BY <1>2, <2>1, CapacityAssumption
    <3>2. room = popped(st, 1)
      BY <1>1, <2>1 DEF pop_lru
    <3>3. /\ room \in Counted /\ Len(room.lru) = Len(st.lru) - 1
      BY <1>2, <3>1, <3>2, PoppedIs
    <3> QED
      BY <1>2, <2>1, <3>1, <3>3
  <2>2. CASE ~(~contains(st, i) /\ Len(st.lru) = Capacity)
    <3>1. room = st /\ Capacity \in Nat
      BY <1>1, <2>2, CapacityAssumption
    <3> QED
      BY <1>2, <2>2, <3>1
  <2> QED
    BY <2>1, <2>2
<1>4. PICK old : old = IF contains(room, i) THEN EntryOf(room, i).bytes ELSE 0
  OBVIOUS
<1>5. PICK rest \in Lrus : /\ rest = Without(room, i)
                         /\ Range(rest) = {d \in Range(room.lru) : d.page # i}
                         /\ Len(rest) = IF contains(room, i) THEN Len(room.lru) - 1 ELSE Len(room.lru)
  BY <1>3, WithoutIs DEF Counted
<1>6. Len(rest) \in Nat /\ Len(rest) + 1 <= Capacity
  <2>1. Len(rest) \in Nat /\ Capacity \in Nat
    BY RangeInEntries, CapacityAssumption
  <2> QED
    BY <1>3, <1>5, <2>1
<1>7. room.total - old = Bytes(rest) /\ Bytes(rest) \in Nat
  <2>1. Bytes(rest) \in Nat
    BY BytesAreHeld, FS_CardinalityType
  <2>2. CASE contains(room, i)
    <3>1. /\ EntryOf(room, i) \in Entries /\ old = EntryOf(room, i).bytes
          /\ room.total = Bytes(rest) + EntryOf(room, i).bytes
      BY <1>3, <1>4, <1>5, <2>2, TakenOut
    <3>2. old \in Nat
      BY <3>1, BytesOfEntry
    <3> QED
      BY <2>1, <3>1, <3>2
  <2>3. CASE ~contains(room, i)
    <3>1. rest = room.lru /\ old = 0 /\ room.total = Bytes(room.lru)
      BY <1>3, <1>4, <1>5, <2>3 DEF Without, Counted
    <3> QED
      BY <2>1, <3>1
  <2> QED
    BY <2>2, <2>3
<1>8. PICK e : e = [page |-> i, bytes |-> b]
  OBVIOUS
<1>9. e \in Entries /\ e.page = i /\ e.bytes = b /\ b \in Nat
  BY <1>8, SizesAssumption DEF Entries
<1>10. PICK u : u = Append(rest, e)
  OBVIOUS
<1>11. /\ u \in Lrus /\ Len(u) = Len(rest) + 1 /\ u[Len(rest) + 1] = e
       /\ Bytes(u) = Bytes(rest) + b
  BY <1>5, <1>9, <1>10, AppendIs
<1>12. PICK grown : grown = [lru |-> u, total |-> room.total - old + b]
  OBVIOUS
<1>13. room.total - old + b = Bytes(u) /\ room.total - old + b \in Int
  BY <1>7, <1>9, <1>11
<1>14. grown \in Counted /\ grown.lru = u
  BY <1>11, <1>12, <1>13, StoreIs
<1>15. put(st, i, b) = evict_to_budget(grown)
  BY <1>1, <1>4, <1>5, <1>8, <1>10, <1>12 DEF put
<1>16. Len(grown.lru) >= 1 /\ Len(grown.lru) <= Capacity
  BY <1>6, <1>11, <1>14
<1>17. /\ put(st, i, b) \in Stores
       /\ \E k \in DOMAIN put(st, i, b).lru : put(st, i, b).lru[k] = u[Len(u)]
  BY <1>14, <1>15, <1>16, EvictIs
<1>18. u[Len(u)].page = i
  BY <1>9, <1>11
<1> QED
  BY <1>17, <1>18 DEF contains

\* A prefetch that inserts its pages one after the other.
LEMMA PutAllIs ==
  ASSUME NEW st \in Stores, NEW ok \in SUBSET PageIndexes, NEW D, ok \subseteq D,
         NEW b \in [D -> Sizes]
  PROVE  PutAll(st, ok, b) \in Stores /\ (PutAll(st, ok, b).lru = << >> => st.lru = << >>)
<1> DEFINE X == {s \in Stores : s.lru = << >> => st.lru = << >>}
           next(after) == [n \in 0 .. SourceLength |->
                             IF n = 0 THEN st
                             ELSE IF n - 1 \in ok THEN put(after[n - 1], n - 1, b[n - 1]) ELSE after[n - 1]]
<1>1. st \in X
  OBVIOUS
<1>2. ASSUME NEW s \in X, NEW i \in ok PROVE put(s, i, b[i]) \in X
  <2>1. i \in PageIndexes /\ b[i] \in Sizes /\ s \in Stores
    OBVIOUS
  <2>2. put(s, i, b[i]) \in Stores /\ contains(put(s, i, b[i]), i)
    BY <2>1, PutIs
  <2>3. put(s, i, b[i]).lru # << >>
    BY <2>2 DEF contains
  <2> QED
    BY <2>2, <2>3
<1> HIDE DEF X
<1>3. PICK step : step = [n \in 1 .. SourceLength |-> [s \in X |->
                            IF n - 1 \in ok THEN put(s, n - 1, b[n - 1]) ELSE s]]
  OBVIOUS
<1>4. step \in [1 .. SourceLength -> [X -> X]]
  BY <1>2, <1>3
<1>5. PICK f : Carries(f, SourceLength, X, st, step)
  BY <1>1, <1>4, SourceLengthAssumption, IterationExists
<1>6. f = next(f)
  <2>1. f \in [0 .. SourceLength -> X] /\ f[0] = st /\ \A n \in 1 .. SourceLength : f[n] = step[n][f[n - 1]]
    BY <1>5 DEF Carries
  <2>2. ASSUME NEW n \in 1 .. SourceLength
        PROVE  f[n] = IF n - 1 \in ok THEN put(f[n - 1], n - 1, b[n - 1]) ELSE f[n - 1]
    <3>1. n - 1 \in 0 .. SourceLength
      BY SourceLengthAssumption
    <3>2. f[n - 1] \in X
      BY <2>1, <3>1
    <3> QED
      BY <1>3, <2>1, <3>2
  <2>3. f = [n \in 0 .. SourceLength |-> f[n]]
    BY <2>1
  <2>4. \A n \in 0 .. SourceLength : n = 0 \/ n \in 1 .. SourceLength
    BY SourceLengthAssumption
  <2> QED
    BY <2>1, <2>2, <2>3, <2>4
<1>7. PICK after : after = next(after) /\ PutAll(st, ok, b) = after[SourceLength]
  <2>1. PutAll(st, ok, b) = (CHOOSE after : after = next(after))[SourceLength]
    BY DEF PutAll
  <2> HIDE DEF next
  <2> QED
    BY <1>6, <2>1
<1>8. /\ after[0] = st
      /\ \A n \in 1 .. SourceLength :
           after[n] = IF n - 1 \in ok THEN put(after[n - 1], n - 1, b[n - 1]) ELSE after[n - 1]
  BY <1>7, SourceLengthAssumption
<1> HIDE DEF next
<1> DEFINE S == {n \in 0 .. SourceLength : after[n] \in X}
<1>9. 0 \in S
  BY <1>1, <1>8, SourceLengthAssumption
<1>10. \A n \in 1 .. SourceLength : n - 1 \in S => n \in S
  BY <1>2, <1>8
<1> HIDE DEF S
<1>11. SourceLength \in S
  <2>1. 0 .. SourceLength \subseteq S
    BY <1>9, <1>10, SourceLengthAssumption, UpTo
  <2> QED
    BY <2>1, SourceLengthAssumption
<1> QED
  BY <1>7, <1>11 DEF S, X

-----------------------------------------------------------------------------
(* The store under concurrent readers, workers and prefetches. *)

\* A worker that is past its first look-up has a page of the book.
WorkerHasPage ==
  \A w \in Workers : dispatch[w].pc # "idle" => dispatch[w].page \in PageIndexes

StoreInv == store \in Stores /\ WorkerHasPage

\* What a step does to the store: the entries keep both ceilings, and stay unless
\* others came.
Sound(st) == st \in Stores /\ (st.lru = << >> => store.lru = << >>)

LEMMA HitIsSound ==
  ASSUME store \in Stores, NEW i, contains(store, i)
  PROVE  Sound(get(store, i))
<1>1. get(store, i) \in Stores /\ contains(get(store, i), i)
  BY GetIs
<1> QED
  BY <1>1 DEF Sound, contains

LEMMA DecodedIsSound ==
  ASSUME StoreInv, NEW w \in Workers, dispatch[w].pc = "decoding", NEW b \in Sizes, cache_decoded(w, b)
  PROVE  Sound(store') /\ contains(store', dispatch[w].page)
<1>1. PICK i \in PageIndexes : i = dispatch[w].page
  BY DEF StoreInv, WorkerHasPage
<1>2. store' = IF contains(store, i) THEN get(store, i) ELSE put(store, i, b)
  BY <1>1 DEF cache_decoded
<1>3. store' \in Stores /\ contains(store', i)
  BY <1>1, <1>2, GetIs, PutIs DEF StoreInv
<1> QED
  BY <1>1, <1>3 DEF Sound, contains

\* Every step leaves the store sound, and a worker's page in it.
LEMMA StepIsSound ==
  ASSUME DispatchType, PrefetchType, StoreInv, [CacheNext]_cacheVars
  PROVE  /\ Sound(store') /\ WorkerHasPage'
         /\ \A w \in Workers :
              (dispatch[w].pc = "decoding" /\ store' # store /\ dispatch'[w].pc = "idle")
                => contains(store', dispatch[w].page)
<1> DEFINE Goal == /\ Sound(store') /\ WorkerHasPage'
                   /\ \A w \in Workers :
                        (dispatch[w].pc = "decoding" /\ store' # store /\ dispatch'[w].pc = "idle")
                          => contains(store', dispatch[w].page)
<1>1. Sound(store)
  BY DEF Sound, StoreInv
<1>2. ASSUME dispatch' = dispatch, Sound(store') PROVE Goal
  BY <1>2 DEF StoreInv, WorkerHasPage
<1>3. ASSUME NEW w \in Workers, dispatch[w].pc # "decoding", Sound(store'),
             NEW r, dispatch' = [dispatch EXCEPT ![w] = r],
             r.pc # "idle" => r.page \in PageIndexes
      PROVE  Goal
  <2>1. dispatch'[w] = r /\ \A v \in Workers \ {w} : dispatch'[v] = dispatch[v]
    BY <1>3 DEF DispatchType
  <2> QED
    BY <1>3, <2>1 DEF StoreInv, WorkerHasPage
<1>4. ASSUME NEW w \in Workers, NEW i, Hit(w, i), dispatch[w].pc # "decoding" PROVE Goal
  <2>1. Sound(store') /\ dispatch' = [dispatch EXCEPT ![w] = IdleWorker]
    BY <1>4, HitIsSound DEF Hit, StoreInv
  <2> QED
    BY <1>3, <1>4, <2>1 DEF IdleWorker
<1>5. ASSUME NEW i \in PageIndexes, GetCached(i) PROVE Goal
  <2>1. Sound(store')
    BY <1>5, HitIsSound DEF GetCached, StoreInv
  <2> QED
    BY <1>2, <1>5, <2>1 DEF GetCached
<1>6. ASSUME NEW w \in Workers, NEW i \in PageIndexes, DecodeBegin(w, i) PROVE Goal
  <2>1. dispatch[w].pc # "decoding"
    BY <1>6 DEF DecodeBegin
  <2>2. CASE Hit(w, i)
    BY <1>4, <2>1, <2>2
  <2>3. CASE dispatch' = [dispatch EXCEPT ![w] = [pc |-> "reading", page |-> i]] /\ store' = store
    BY <1>1, <1>3, <2>1, <2>3
  <2> QED
    BY <1>6, <2>2, <2>3 DEF DecodeBegin
<1>7. ASSUME NEW w \in Workers, DecodeRead(w) PROVE Goal
  <2>1. dispatch[w].pc = "reading" /\ dispatch[w].page \in PageIndexes
    BY <1>7 DEF DecodeRead, StoreInv, WorkerHasPage
  <2>2. CASE Hit(w, dispatch[w].page)
    BY <1>4, <2>1, <2>2
  <2>3. CASE dispatch' = [dispatch EXCEPT ![w] = IdleWorker] /\ store' = store
    BY <1>1, <1>3, <2>1, <2>3 DEF IdleWorker
  <2>4. CASE dispatch' = [dispatch EXCEPT ![w].pc = "decoding"] /\ store' = store
    <3>1. PICK r : r = [dispatch[w] EXCEPT !.pc = "decoding"]
      OBVIOUS
    <3>2. dispatch' = [dispatch EXCEPT ![w] = r] /\ r.page = dispatch[w].page
      BY <2>4, <3>1 DEF DispatchType
    <3> QED
      BY <1>1, <1>3, <2>1, <2>4, <3>2
  <2> QED
    BY <1>7, <2>2, <2>3, <2>4 DEF DecodeRead
<1>8. ASSUME NEW w \in Workers, DecodeEnd(w) PROVE Goal
  <2>1. dispatch[w].pc = "decoding" /\ dispatch' = [dispatch EXCEPT ![w] = IdleWorker]
    BY <1>8 DEF DecodeEnd
  <2>2. Sound(store') /\ (store' # store => contains(store', dispatch[w].page))
    BY <1>1, <1>8, <2>1, DecodedIsSound DEF DecodeEnd
  <2>3. dispatch'[w] = IdleWorker /\ \A v \in Workers \ {w} : dispatch'[v] = dispatch[v]
    BY <2>1 DEF DispatchType
  <2>4. WorkerHasPage'
    BY <2>3 DEF StoreInv, WorkerHasPage, IdleWorker
  <2> QED
    BY <2>2, <2>3, <2>4
<1>9. ASSUME NEW t \in Tasks, Task(t) PROVE Goal
  <2>1. CASE PrefetchInsert(t)
    <3>1. PICK ok \in SUBSET prefetch[t].keys, b \in [prefetch[t].keys -> Sizes] :
            store' = PutAll(store, ok, b)
      BY <2>1 DEF PrefetchInsert
    <3>2. ok \in SUBSET PageIndexes
      BY <3>1 DEF PrefetchType
    <3>3. Sound(store')
      BY <3>1, <3>2, PutAllIs DEF Sound, StoreInv
    <3> QED
      BY <1>2, <2>1, <3>3 DEF PrefetchInsert
  <2>2. CASE PrefetchReserve(t) \/ PrefetchClear(t)
    BY <1>1, <1>2, <2>2 DEF PrefetchReserve, PrefetchClear
  <2> QED
    BY <1>9, <2>1, <2>2 DEF Task
<1>10. CASE UNCHANGED cacheVars
  BY <1>1, <1>2, <1>10 DEF cacheVars
<1> QED
  BY <1>5, <1>6, <1>7, <1>8, <1>9, <1>10 DEF CacheNext, Worker

LEMMA InitStore == CacheInit => StoreInv
<1> SUFFICES ASSUME CacheInit PROVE StoreInv
  OBVIOUS
<1>1. PICK empty : empty = << >>
  OBVIOUS
<1>2. empty \in Lrus /\ Range(empty) = {} /\ Len(empty) = 0
  BY <1>1 DEF Lrus, Distinct, Range
<1>3. Held(Range(empty)) = {}
  BY <1>2 DEF Held
<1>4. Bytes(empty) = 0
  BY <1>2, <1>3, BytesAreHeld, FS_EmptySet
<1>5. store = [lru |-> empty, total |-> 0]
  BY <1>1 DEF CacheInit
<1>6. store \in Counted
  BY <1>2, <1>4, <1>5, StoreIs
<1>7. store \in Stores
  BY <1>2, <1>5, <1>6, CapacityAssumption, MaxBytesAssumption DEF Stores
<1> QED
  BY <1>7 DEF CacheInit, StoreInv, WorkerHasPage, IdleWorker

LEMMA NextStore == DispatchType /\ MarkerInv /\ StoreInv /\ [CacheNext]_cacheVars => StoreInv'
<1> SUFFICES ASSUME DispatchType, MarkerInv, StoreInv, [CacheNext]_cacheVars PROVE StoreInv'
  OBVIOUS
<1>1. Sound(store') /\ WorkerHasPage'
  BY StepIsSound DEF MarkerInv
<1> QED
  BY <1>1 DEF Sound, StoreInv

\* The byte count is exact and both ceilings hold, for any sizes of pages and
\* whatever order hits, insertions, overwrites and evictions come in.
THEOREM BudgetsAlwaysHold == CacheSpec => [](CacheTypeOK /\ BudgetsHold)
<1>1. ASSUME DispatchType, MarkerInv, StoreInv PROVE CacheTypeOK /\ BudgetsHold
  <2>1. /\ store \in [lru : Lrus, total : Int] /\ store.total = Bytes(store.lru)
        /\ Len(store.lru) <= Capacity /\ (store.total <= MaxBytes \/ Len(store.lru) = 1)
    BY <1>1 DEF StoreInv, Stores, Counted
  <2>2. store.lru \in Seq(Entries) /\ Distinct(store.lru)
    BY <2>1, RangeInEntries
  <2>3. store \in [lru : Seq(Entries), total : Int]
    BY <2>1, <2>2
  <2>4. BudgetsHold
    BY <2>1, <2>2 DEF BudgetsHold, Distinct
  <2>5. in_flight \in SUBSET PageIndexes
    BY <1>1 DEF MarkerInv, PrefetchType, InFlightExact, Reserved
  <2> QED
    BY <1>1, <2>3, <2>4, <2>5 DEF CacheTypeOK, DispatchType, MarkerInv, PrefetchType
<1> QED
  BY <1>1, InitDispatch, NextDispatch, InitMarkers, NextMarkers, InitStore, NextStore, PTL DEF CacheSpec

\* A page that was decoded is cached when its insertion ends, and no insertion
\* empties the cache.
THEOREM DecodedPageSurvives == CacheSpec => InsertedPageSurvives
<1>1. ASSUME DispatchType, MarkerInv, StoreInv, [CacheNext]_cacheVars
      PROVE  [ /\ \A w \in Workers :
                    (dispatch[w].pc = "decoding" /\ store' # store /\ dispatch'[w].pc = "idle")
                      => contains(store', dispatch[w].page)
               /\ store'.lru = << >> => store.lru = << >> ]_cacheVars
  BY <1>1, StepIsSound DEF MarkerInv, Sound
<1> QED
  BY <1>1, InitDispatch, NextDispatch, InitMarkers, NextMarkers, InitStore, NextStore, PTL
  DEF CacheSpec, InsertedPageSurvives

-----------------------------------------------------------------------------
(* The viewer.  The invariant says what the generation number means:       *)
(* whatever is still on its way and carries the live number was asked for  *)
(* by the open book for the spread it stands on.                           *)

Controllers == [epoch : Nat, target : Spreads \cup {NoTarget}, dispatched : SUBSET Pages]
Images == [source : 0 .. MaxSources, page : Pages \cup {NoPage}]

\* What the live generation number promises of a job or a message.
Overtaken(work) ==
  /\ work.epoch <= controller.epoch
  /\ source # 0 /\ work.epoch = controller.epoch
       => work.source = source /\ work.spread = controller.target

Generations ==
  /\ source # 0 => controller.target \in Spreads
  /\ \A j \in 1 .. MaxJobs : jobs[j] # Idle => Overtaken(jobs[j])
  /\ \A i \in 1 .. Len(queue) : Overtaken(queue[i])

Inv == TypeOK /\ Generations /\ DisplayedIsCurrent

LEMMA SpreadFacts ==
  /\ NoPage \notin Pages
  /\ NoTarget \notin Spreads
  /\ \A spread \in Spreads :
       /\ Slots(spread) \subseteq Pages
       /\ spread.leading \in Pages
       /\ spread.trailing \in Pages \cup {NoPage}
BY PageCountAssumption DEF NoPage, Pages, NoTarget, Spreads, Slots

LEMMA ImageType ==
  ASSUME NEW s \in 1 .. MaxSources, NEW page \in Pages \cup {NoPage}
  PROVE  Image(s, page) \in Images
BY BoundsAssumption DEF Image, Images, Blank

LEMMA EmptyViewType == EmptyView.leading \in Images /\ EmptyView.trailing \in Images
BY BoundsAssumption DEF EmptyView, Images, Blank

LEMMA BeginStep ==
  ASSUME NEW c \in Controllers, NEW target \in Spreads \cup {NoTarget}
  PROVE  begin_generation([c EXCEPT !.target = target])
           = [epoch |-> c.epoch + 1, target |-> target, dispatched |-> {}]
<1> DEFINE d == [c EXCEPT !.target = target]
<1>1. d = [epoch |-> c.epoch, target |-> target, dispatched |-> c.dispatched]
  BY DEF Controllers
<1>2. begin_generation(d) = [d EXCEPT !.epoch = d.epoch + 1, !.dispatched = {}]
  BY DEF begin_generation
<1> HIDE DEF d
<1>3. begin_generation(d)
        = [epoch |-> d.epoch + 1, target |-> d.target, dispatched |-> {}]
  BY <1>1, <1>2
<1>4. d.epoch = c.epoch /\ d.target = target
  BY <1>1
<1> QED BY <1>3, <1>4 DEF d

LEMMA TargetStep ==
  ASSUME NEW c \in Controllers, NEW spread \in Spreads
  PROVE  LET next == set_target(c, spread)
         IN  /\ next \in Controllers
             /\ next.target = spread
             /\ next.epoch >= c.epoch
             /\ next.epoch = c.epoch => c.target = spread
<1>1. CASE c.target = spread
  BY <1>1 DEF set_target, Controllers
<1>2. CASE c.target # spread
  <2>1. set_target(c, spread)
          = [epoch |-> c.epoch + 1, target |-> spread, dispatched |-> {}]
    BY <1>2, BeginStep DEF set_target
  <2>2. c.epoch \in Nat
    BY DEF Controllers
  <2> QED BY <2>1, <2>2 DEF Controllers
<1> QED BY <1>1, <1>2

LEMMA ResetStep ==
  ASSUME NEW c \in Controllers
  PROVE  /\ reset_for_source(c) \in Controllers
         /\ reset_for_source(c).epoch = c.epoch + 1
<1>1. reset_for_source(c) = [epoch |-> c.epoch + 1, target |-> NoTarget, dispatched |-> {}]
  BY BeginStep DEF reset_for_source
<1>2. c.epoch \in Nat
  BY DEF Controllers
<1> QED BY <1>1, <1>2 DEF Controllers

LEMMA ReleaseStep ==
  ASSUME NEW c \in Controllers, NEW spread
  PROVE  /\ clear_dispatched_spread(c, spread) \in Controllers
         /\ clear_dispatched_spread(c, spread).epoch = c.epoch
         /\ clear_dispatched_spread(c, spread).target = c.target
BY DEF clear_dispatched_spread, Controllers

\* What a refresh of any spread, on any source, does.
LEMMA RefreshStep ==
  ASSUME NEW c \in Controllers, NEW s \in 1 .. MaxSources, NEW spread \in Spreads,
         NEW hits, jobs \in [1 .. MaxJobs -> Job \cup {Idle}],
         RefreshFrom(c, s, spread, hits)
  PROVE  /\ controller' \in Controllers
         /\ controller'.target = spread
         /\ controller'.epoch >= c.epoch
         /\ controller'.epoch = c.epoch => c.target = spread
         /\ view'.leading \in {Blank, Image(s, spread.leading)}
         /\ view'.trailing \in {Blank, Image(s, spread.trailing)}
         /\ view' \in [leading : Images, trailing : Images, loading : SUBSET Pages]
         /\ jobs' \in [1 .. MaxJobs -> Job \cup {Idle}]
         /\ \A j \in 1 .. MaxJobs :
              jobs'[j] = jobs[j]
                \/ /\ jobs'[j].epoch = controller'.epoch
                   /\ jobs'[j].source = s /\ jobs'[j].spread = spread
<1> DEFINE next == set_target(c, spread)
           missing == Missing(spread, hits)
           reserved == missing \ next.dispatched
           job == [source |-> s, epoch |-> next.epoch, spread |-> spread,
                   missing |-> missing]
<1>1. /\ next \in Controllers /\ next.target = spread /\ next.epoch >= c.epoch
      /\ next.epoch = c.epoch => c.target = spread
  BY TargetStep
<1>2. missing \subseteq Pages
  BY SpreadFacts DEF Missing
<1>3. next.epoch \in Nat
  BY <1>1 DEF Controllers
<1>4. job \in Job
  BY <1>2, <1>3 DEF Job
<1>5. Image(s, spread.leading) \in Images /\ Image(s, spread.trailing) \in Images
  BY SpreadFacts, ImageType
<1> HIDE DEF next, missing, job
<1>6. CASE missing = {}
  <2>1. /\ controller' = clear_dispatched_spread(next, spread)
        /\ view' = [leading |-> Image(s, spread.leading),
                    trailing |-> Image(s, spread.trailing), loading |-> {}]
        /\ jobs' = jobs
    BY <1>6 DEF RefreshFrom, next, missing
  <2>2. /\ controller' \in Controllers
        /\ controller'.epoch = next.epoch /\ controller'.target = next.target
    BY <1>1, <2>1, ReleaseStep
  <2> QED BY <1>1, <1>5, <2>1, <2>2
<1>7. CASE missing # {}
  <2>1. /\ controller' = [next EXCEPT !.dispatched = @ \cup reserved]
        /\ view' = [EmptyView EXCEPT !.loading = missing]
        /\ jobs' = jobs \/ Dispatch(job)
    BY <1>7 DEF RefreshFrom, next, missing, job
  <2>2. /\ controller' \in Controllers
        /\ controller'.epoch = next.epoch /\ controller'.target = next.target
    BY <1>1, <1>2, <2>1 DEF Controllers
  <2>3. /\ view'.leading = Blank /\ view'.trailing = Blank
        /\ view' \in [leading : Images, trailing : Images, loading : SUBSET Pages]
    BY <1>2, <2>1, EmptyViewType DEF EmptyView
  <2>4. /\ jobs' \in [1 .. MaxJobs -> Job \cup {Idle}]
        /\ \A j \in 1 .. MaxJobs : jobs'[j] = jobs[j] \/ jobs'[j] = job
    BY <1>4, <2>1 DEF Dispatch
  <2>5. job.epoch = next.epoch /\ job.source = s /\ job.spread = spread
    BY DEF job
  <2> QED BY <1>1, <2>2, <2>3, <2>4, <2>5
<1> QED BY <1>6, <1>7

LEMMA InitInv == Init => Inv
BY SpreadFacts, EmptyViewType, BoundsAssumption
DEF Init, Inv, TypeOK, Generations, Overtaken, DisplayedIsCurrent, EmptyView, Images, Blank,
    Idle, Pages, NoPage

\* A refresh keeps the invariant: either the target stays, and with it the
\* generation, or every job and message becomes one of an earlier generation.
LEMMA RefreshInv ==
  ASSUME Inv, NEW spread \in Spreads, Refresh(spread)
  PROVE  Inv'
<1>1. /\ controller \in Controllers /\ source \in 1 .. MaxSources
      /\ jobs \in [1 .. MaxJobs -> Job \cup {Idle}]
      /\ queue \in Seq(Message)
  BY BoundsAssumption DEF Inv, TypeOK, Refresh, Controllers
<1>2. RefreshFrom(controller, source, spread, cached)
  BY DEF Refresh
<1>3. UNCHANGED <<source, opened, cached, queue>>
  BY DEF Refresh
<1>4. /\ controller' \in Controllers
      /\ controller'.target = spread
      /\ controller'.epoch >= controller.epoch
      /\ controller'.epoch = controller.epoch => controller.target = spread
      /\ view'.leading \in {Blank, Image(source, spread.leading)}
      /\ view'.trailing \in {Blank, Image(source, spread.trailing)}
      /\ view' \in [leading : Images, trailing : Images, loading : SUBSET Pages]
      /\ jobs' \in [1 .. MaxJobs -> Job \cup {Idle}]
      /\ \A j \in 1 .. MaxJobs :
           jobs'[j] = jobs[j]
             \/ /\ jobs'[j].epoch = controller'.epoch
                /\ jobs'[j].source = source /\ jobs'[j].spread = spread
  BY <1>1, <1>2, RefreshStep
<1>5. TypeOK'
  BY <1>3, <1>4 DEF Inv, TypeOK, Controllers, Images
<1>6. controller.epoch \in Nat /\ controller'.epoch \in Nat
  BY <1>1, <1>4 DEF Controllers
<1>7. ASSUME NEW work, work.epoch \in Nat, Overtaken(work)
      PROVE  Overtaken(work)'
  BY <1>3, <1>4, <1>6, <1>7 DEF Overtaken
<1>8. ASSUME NEW j \in 1 .. MaxJobs, jobs'[j] # Idle
      PROVE  Overtaken(jobs[j])' 
  <2>1. CASE jobs'[j] = jobs[j]
    <3>1. jobs[j].epoch \in Nat /\ Overtaken(jobs[j])
      BY <1>1, <1>8, <2>1 DEF Job, Inv, Generations
    <3> QED BY <1>7, <2>1, <3>1 DEF Overtaken
  <2>2. CASE /\ jobs'[j].epoch = controller'.epoch
             /\ jobs'[j].source = source /\ jobs'[j].spread = spread
    BY <1>3, <1>4, <1>6, <2>2 DEF Overtaken
  <2> QED BY <1>4, <2>1, <2>2
<1>9. ASSUME NEW i \in 1 .. Len(queue)
      PROVE  Overtaken(queue[i])'
  <2>1. queue[i] \in Message
    BY <1>1
  <2>2. queue[i].epoch \in Nat /\ Overtaken(queue[i])
    BY <2>1 DEF Message, Inv, Generations
  <2> QED BY <1>3, <1>7, <2>2 DEF Overtaken
<1>10. Generations'
  BY <1>3, <1>4, <1>8, <1>9 DEF Generations
<1>11. DisplayedIsCurrent'
  BY <1>3, <1>4 DEF DisplayedIsCurrent
<1> QED BY <1>5, <1>10, <1>11 DEF Inv

\* A new book starts a generation nothing on its way belongs to.
LEMMA OpenInv ==
  ASSUME Inv, NEW spread \in Spreads, OpenBook(spread)
  PROVE  Inv'
<1> DEFINE fresh == reset_for_source(controller)
<1>1. /\ controller \in Controllers /\ opened + 1 \in 1 .. MaxSources
      /\ jobs \in [1 .. MaxJobs -> Job \cup {Idle}]
      /\ queue \in Seq(Message)
  BY BoundsAssumption DEF Inv, TypeOK, OpenBook, Controllers
<1>2. RefreshFrom(fresh, opened + 1, spread, {})
  BY DEF OpenBook
<1>3. /\ source' = opened + 1 /\ opened' = opened + 1 /\ cached' = {}
      /\ queue' = queue
  BY DEF OpenBook
<1>4. fresh \in Controllers /\ fresh.epoch = controller.epoch + 1
  BY <1>1, ResetStep
<1> HIDE DEF fresh
<1>5. /\ controller' \in Controllers
      /\ controller'.target = spread
      /\ controller'.epoch >= fresh.epoch
      /\ view'.leading \in {Blank, Image(opened + 1, spread.leading)}
      /\ view'.trailing \in {Blank, Image(opened + 1, spread.trailing)}
      /\ view' \in [leading : Images, trailing : Images, loading : SUBSET Pages]
      /\ jobs' \in [1 .. MaxJobs -> Job \cup {Idle}]
      /\ \A j \in 1 .. MaxJobs :
           jobs'[j] = jobs[j]
             \/ /\ jobs'[j].epoch = controller'.epoch
                /\ jobs'[j].source = opened + 1 /\ jobs'[j].spread = spread
  BY <1>1, <1>2, <1>4, RefreshStep
<1>6. TypeOK'
  BY <1>1, <1>3, <1>5, BoundsAssumption DEF Inv, TypeOK, Controllers, Images
<1>7. controller.epoch \in Nat /\ controller'.epoch \in Nat
      /\ controller'.epoch > controller.epoch
  BY <1>1, <1>4, <1>5 DEF Controllers
<1>8. ASSUME NEW work, work.epoch \in Nat, Overtaken(work)
      PROVE  /\ work.epoch <= controller'.epoch
             /\ work.epoch # controller'.epoch
  BY <1>7, <1>8 DEF Overtaken
<1>9. ASSUME NEW j \in 1 .. MaxJobs, jobs'[j] # Idle
      PROVE  Overtaken(jobs[j])'
  <2>1. CASE jobs'[j] = jobs[j]
    <3>1. jobs[j].epoch \in Nat /\ Overtaken(jobs[j])
      BY <1>1, <1>9, <2>1 DEF Job, Inv, Generations
    <3> QED BY <1>8, <2>1, <3>1 DEF Overtaken
  <2>2. CASE /\ jobs'[j].epoch = controller'.epoch
             /\ jobs'[j].source = opened + 1 /\ jobs'[j].spread = spread
    BY <1>3, <1>5, <1>7, <2>2 DEF Overtaken
  <2> QED BY <1>5, <2>1, <2>2
<1>10. ASSUME NEW i \in 1 .. Len(queue)
       PROVE  Overtaken(queue[i])'
  <2>1. queue[i] \in Message
    BY <1>1
  <2>2. queue[i].epoch \in Nat /\ Overtaken(queue[i])
    BY <2>1 DEF Message, Inv, Generations
  <2> QED BY <1>3, <1>8, <2>2 DEF Overtaken
<1>11. Generations'
  BY <1>3, <1>5, <1>9, <1>10 DEF Generations
<1>12. DisplayedIsCurrent'
  BY <1>3, <1>5 DEF DisplayedIsCurrent
<1> QED BY <1>6, <1>11, <1>12 DEF Inv

\* Without an open book the generation may grow, and promises nothing.
LEMMA ClosedInv ==
  ASSUME Inv, RefreshNothing \/ RejectEmptyBook \/ RemoveOpenBook
  PROVE  Inv'
<1>1. controller \in Controllers /\ queue \in Seq(Message)
  BY DEF Inv, TypeOK, Controllers
<1>2. /\ source' = 0 /\ opened' = opened /\ jobs' = jobs /\ queue' = queue
      /\ cached' \in SUBSET Pages
      /\ view' \in {view, EmptyView}
  BY DEF Inv, TypeOK, RefreshNothing, RejectEmptyBook, RemoveOpenBook
<1>3. controller' \in Controllers /\ controller'.epoch >= controller.epoch
  <2>1. CASE RefreshNothing
    <3>1. CASE controller.target # NoTarget
      <4>1. controller' = [epoch |-> controller.epoch + 1, target |-> NoTarget,
                           dispatched |-> {}]
        BY <1>1, <2>1, <3>1, BeginStep DEF RefreshNothing, clear_target
      <4> QED BY <1>1, <4>1 DEF Controllers
    <3>2. CASE controller.target = NoTarget
      BY <1>1, <2>1, <3>2 DEF RefreshNothing, clear_target, Controllers
    <3> QED BY <3>1, <3>2
  <2>2. CASE RejectEmptyBook
    <3>1. controller' \in Controllers /\ controller'.epoch = controller.epoch + 1
      BY <1>1, <2>2, ResetStep DEF RejectEmptyBook
    <3> QED BY <1>1, <3>1 DEF Controllers
  <2>3. CASE RemoveOpenBook
    BY <1>1, <2>3 DEF RemoveOpenBook, Controllers
  <2> QED BY <2>1, <2>2, <2>3
<1>4. TypeOK'
  BY <1>2, <1>3, EmptyViewType, BoundsAssumption
  DEF Inv, TypeOK, Controllers, Images, EmptyView
<1>5. controller.epoch \in Nat /\ controller'.epoch \in Nat
  BY <1>1, <1>3 DEF Controllers
<1>6. ASSUME NEW j \in 1 .. MaxJobs, jobs[j] # Idle
      PROVE  Overtaken(jobs[j])'
  <2>1. jobs[j].epoch \in Nat /\ jobs[j].epoch <= controller.epoch
    BY <1>6 DEF Inv, TypeOK, Job, Generations, Overtaken
  <2> QED BY <1>2, <1>3, <1>5, <2>1 DEF Overtaken
<1>7. ASSUME NEW i \in 1 .. Len(queue)
      PROVE  Overtaken(queue[i])'
  <2>1. queue[i] \in Message
    BY <1>1
  <2>2. queue[i].epoch \in Nat /\ queue[i].epoch <= controller.epoch
    BY <2>1 DEF Inv, Message, Generations, Overtaken
  <2> QED BY <1>2, <1>3, <1>5, <2>2 DEF Overtaken
<1>8. Generations' /\ DisplayedIsCurrent'
  BY <1>2, <1>6, <1>7 DEF Generations, DisplayedIsCurrent
<1> QED BY <1>4, <1>8 DEF Inv

LEMMA CacheInv ==
  ASSUME Inv, NEW page \in Pages, Prefetched(page) \/ Evicted(page)
  PROVE  Inv'
<1>1. UNCHANGED <<source, opened, controller, view, jobs, queue>> /\ cached' \in SUBSET Pages
  BY DEF Inv, TypeOK, Prefetched, Evicted
<1> QED BY <1>1 DEF Inv, TypeOK, Generations, Overtaken, DisplayedIsCurrent

\* What a job posts is of the job's source, spread and generation.
LEMMA PostedStep ==
  ASSUME NEW job \in Job, NEW bad \in SUBSET Pages
  PROVE  /\ Posted(job, bad) \in Seq(Message)
         /\ \A i \in 1 .. Len(Posted(job, bad)) :
              /\ Posted(job, bad)[i].epoch = job.epoch
              /\ Posted(job, bad)[i].source = job.source
              /\ Posted(job, bad)[i].spread = job.spread
<1> DEFINE message(kind, page) == [kind |-> kind, source |-> job.source, epoch |-> job.epoch,
                                   spread |-> job.spread, page |-> page]
           trailing == job.spread.trailing
           leading == job.spread.leading
<1>1. ASSUME NEW kind \in {"spread", "error"}, NEW page \in Pages \cup {NoPage}
      PROVE  /\ message(kind, page) \in Message
             /\ message(kind, page).epoch = job.epoch
             /\ message(kind, page).source = job.source
             /\ message(kind, page).spread = job.spread
  BY <1>1 DEF Job, Message
<1>2. leading \in Pages /\ trailing \in Pages \cup {NoPage}
  BY SpreadFacts DEF Job
<1>3. Posted(job, bad) \in
        {<<message("spread", trailing)>>, <<message("spread", NoPage)>>,
         <<message("error", trailing)>> \o <<message("error", leading)>>,
         <<>> \o <<message("error", leading)>>}
  BY DEF Posted
<1> HIDE DEF message, trailing, leading
<1>4. CASE Posted(job, bad) = <<message("spread", trailing)>>
  BY <1>1, <1>2, <1>4
<1>5. CASE Posted(job, bad) = <<message("spread", NoPage)>>
  BY <1>1, <1>5
<1>6. CASE Posted(job, bad) = <<message("error", trailing)>> \o <<message("error", leading)>>
  BY <1>1, <1>2, <1>6
<1>7. CASE Posted(job, bad) = <<>> \o <<message("error", leading)>>
  BY <1>1, <1>2, <1>7
<1> QED BY <1>3, <1>4, <1>5, <1>6, <1>7

LEMMA FinishInv ==
  ASSUME Inv, NEW j \in 1 .. MaxJobs, NEW bad \in SUBSET Pages, Finish(j, bad)
  PROVE  Inv'
<1> DEFINE job == jobs[j]
           posted == Posted(job, bad)
<1>1. job \in Job /\ job # Idle /\ Overtaken(job) /\ queue \in Seq(Message)
  BY DEF Inv, TypeOK, Finish, Generations
<1>2. /\ UNCHANGED <<source, opened, controller, view>>
      /\ jobs' = [jobs EXCEPT ![j] = Idle]
      /\ queue' = queue \o posted
      /\ cached' \in {cached, cached \cup (job.missing \ bad)}
  BY DEF Finish
<1>3. /\ posted \in Seq(Message)
      /\ \A i \in 1 .. Len(posted) :
           /\ posted[i].epoch = job.epoch /\ posted[i].source = job.source
           /\ posted[i].spread = job.spread
  BY <1>1, PostedStep
<1>4. job.missing \subseteq Pages
  BY <1>1 DEF Job
<1> HIDE DEF job, posted
<1>5. TypeOK'
  BY <1>1, <1>2, <1>3, <1>4 DEF Inv, TypeOK
<1>6. ASSUME NEW i \in 1 .. Len(queue')
      PROVE  Overtaken(queue'[i])
  <2>1. CASE i \in 1 .. Len(queue)
    BY <1>1, <1>2, <1>3, <2>1 DEF Inv, Generations
  <2>2. CASE i \notin 1 .. Len(queue)
    <3>1. i - Len(queue) \in 1 .. Len(posted) /\ queue'[i] = posted[i - Len(queue)]
      BY <1>1, <1>2, <1>3, <1>6, <2>2
    <3> QED BY <1>1, <1>3, <3>1 DEF Overtaken
  <2> QED BY <2>1, <2>2
<1>7. \A k \in 1 .. MaxJobs : jobs'[k] # Idle => jobs'[k] = jobs[k]
  BY <1>2 DEF Inv, TypeOK
<1>8. Generations'
  BY <1>2, <1>6, <1>7 DEF Inv, Generations, Overtaken
<1>9. DisplayedIsCurrent'
  BY <1>2 DEF Inv, DisplayedIsCurrent
<1> QED BY <1>5, <1>8, <1>9 DEF Inv

\* Only a closure of the live generation changes the view.
LEMMA DeliverInv ==
  ASSUME Inv, Deliver
  PROVE  Inv'
<1> DEFINE message == Head(queue)
<1>1. /\ queue \in Seq(Message) /\ queue # <<>> /\ queue' = Tail(queue)
      /\ UNCHANGED <<source, opened, cached, jobs>>
  BY DEF Inv, TypeOK, Deliver, DeliverStale, DeliverSpread, DeliverError
<1>2. message \in Message /\ Overtaken(message)
  BY <1>1 DEF Inv, Generations
<1>3. queue' \in Seq(Message)
      /\ \A i \in 1 .. Len(queue') : i + 1 \in 1 .. Len(queue) /\ queue'[i] = queue[i + 1]
  BY <1>1
<1>4. controller \in Controllers
  BY DEF Inv, TypeOK, Controllers
<1>5. /\ controller' \in Controllers
      /\ controller'.epoch = controller.epoch /\ controller'.target = controller.target
  <2>1. CASE DeliverStale
    BY <1>4, <2>1 DEF DeliverStale
  <2>2. CASE DeliverSpread
    BY <1>4, <2>2, ReleaseStep DEF DeliverSpread
  <2>3. CASE DeliverError
    BY <1>4, <2>3 DEF DeliverError, Controllers
  <2> QED BY <2>1, <2>2, <2>3 DEF Deliver
<1>6. /\ view' \in [leading : Images, trailing : Images, loading : SUBSET Pages]
      /\ DisplayedIsCurrent'
  <2>1. CASE DeliverStale
    BY <1>1, <2>1 DEF DeliverStale, Inv, TypeOK, Images, DisplayedIsCurrent
  <2>2. CASE DeliverSpread
    <3>1. /\ message.epoch = controller.epoch
          /\ view'.leading = Image(message.source, message.spread.leading)
          /\ view'.trailing \in {Blank, Image(message.source, message.spread.trailing)}
          /\ view'.loading = {}
          /\ view' = [leading |-> view'.leading, trailing |-> view'.trailing,
                      loading |-> view'.loading]
      BY <2>2 DEF DeliverSpread, IsStale
    <3>2. /\ Image(message.source, message.spread.leading) \in Images
          /\ Image(message.source, message.spread.trailing) \in Images
          /\ Blank \in Images
      BY <1>2, SpreadFacts, ImageType, EmptyViewType DEF Message, EmptyView
    <3>3. source # 0 => message.source = source /\ message.spread = controller.target
      BY <1>2, <3>1 DEF Overtaken
    <3>4. view' \in [leading : Images, trailing : Images, loading : SUBSET Pages]
      BY <3>1, <3>2
    <3>5. DisplayedIsCurrent'
      BY <1>1, <1>5, <3>1, <3>3 DEF DisplayedIsCurrent
    <3> QED BY <3>4, <3>5
  <2>3. CASE DeliverError
    <3>1. view' = EmptyView
      BY <2>3 DEF DeliverError
    <3> QED BY <1>1, <3>1, EmptyViewType DEF EmptyView, DisplayedIsCurrent
  <2> QED BY <2>1, <2>2, <2>3 DEF Deliver
<1>7. TypeOK'
  BY <1>1, <1>3, <1>5, <1>6 DEF Inv, TypeOK, Controllers, Images
<1>8. Generations'
  BY <1>1, <1>3, <1>5 DEF Inv, Generations, Overtaken
<1> QED BY <1>6, <1>7, <1>8 DEF Inv

LEMMA NextInv == Inv /\ [Next]_vars => Inv'
<1> SUFFICES ASSUME Inv, [Next]_vars PROVE Inv'
  OBVIOUS
<1>1. CASE UNCHANGED vars
  BY <1>1 DEF vars, Inv, TypeOK, Generations, Overtaken, DisplayedIsCurrent
<1>2. ASSUME NEW spread \in Spreads, Refresh(spread) PROVE Inv'
  BY <1>2, RefreshInv
<1>3. ASSUME NEW spread \in Spreads, OpenBook(spread) PROVE Inv'
  BY <1>3, OpenInv
<1>4. CASE RefreshNothing \/ RejectEmptyBook \/ RemoveOpenBook
  BY <1>4, ClosedInv
<1>5. ASSUME NEW page \in Pages, Prefetched(page) \/ Evicted(page) PROVE Inv'
  BY <1>5, CacheInv
<1>6. CASE FinishSome
  BY <1>6, FinishInv DEF FinishSome
<1>7. CASE Deliver
  BY <1>7, DeliverInv
<1> QED BY <1>1, <1>2, <1>3, <1>4, <1>5, <1>6, <1>7 DEF Next

\* The type invariant of PageLoader holds in every instance.
THEOREM TypeCorrect == Spec => []TypeOK
<1>1. Inv => TypeOK
  BY DEF Inv
<1> QED BY InitInv, NextInv, <1>1, PTL DEF Spec

\* No decode that was overtaken by a page turn, by another book or by a closed
\* one ever paints on the open book's view.
THEOREM OnlyCurrentIsDisplayed == Spec => []DisplayedIsCurrent
<1>1. Inv => DisplayedIsCurrent
  BY DEF Inv
<1> QED BY InitInv, NextInv, <1>1, PTL DEF Spec

\* The reports.  A page that never decodes never enters the cache, so a job or
\* a message about a spread it leads ends in an error, and a page on screen is
\* never one of them.  A spread led by a page that always decodes never does; one
\* led by a flaky page may end either way.  All of it holds with or without an open book: a book
\* taken off the shelf leaves its view and its last generation behind.

Live(work) == work.epoch = controller.epoch => work.spread = controller.target

Asked(job) ==
  Live(job) /\ (job.spread.leading \in FailingPages => job.spread.leading \in job.missing)

MayFailPages == FailingPages \cup FlakyPages

Told(message) ==
  /\ Live(message)
  /\ message.kind = "error" => message.spread.leading \in MayFailPages
  /\ message.kind = "spread" => message.spread.leading \notin FailingPages

ShownDecodes ==
  view.leading # Blank =>
    /\ view.leading.page \notin FailingPages
    /\ controller.target # NoTarget => view.leading.page = controller.target.leading

ReportInv ==
  /\ cached \cap FailingPages = {}
  /\ \A j \in 1 .. MaxJobs : jobs[j] # Idle => Asked(jobs[j])
  /\ \A i \in 1 .. Len(queue) : Told(queue[i])
  /\ ShownDecodes

LEMMA InitReport == Init => ReportInv
BY DEF Init, ReportInv, EmptyView, ShownDecodes

\* Work keeps its promise when the generation grows, or stays with its target.
LEMMA StaysLive ==
  ASSUME NEW work, work.epoch \in Nat, work.epoch <= controller.epoch, Live(work),
         controller.epoch \in Nat, controller'.epoch \in Nat,
         controller'.epoch >= controller.epoch,
         controller'.epoch = controller.epoch => controller'.target = controller.target
  PROVE  work.epoch = controller'.epoch => work.spread = controller'.target
BY DEF Live

\* What a step that leaves the queue alone, starts no more than jobs that ask
\* for their failing pages and shows no failing page keeps.
LEMMA ReportKept ==
  ASSUME Inv, ReportInv, Inv', queue' = queue,
         controller'.epoch >= controller.epoch,
         controller'.epoch = controller.epoch => controller'.target = controller.target,
         cached' \cap FailingPages = {}, ShownDecodes',
         \A j \in 1 .. MaxJobs : jobs'[j] # Idle =>
           jobs'[j] = jobs[j] \/ Asked(jobs[j])'
  PROVE  ReportInv'
<1>1. controller.epoch \in Nat /\ controller'.epoch \in Nat /\ queue \in Seq(Message)
  BY DEF Inv, TypeOK
<1>2. ASSUME NEW j \in 1 .. MaxJobs, jobs'[j] # Idle, jobs'[j] = jobs[j]
      PROVE  Asked(jobs[j])'
  <2>1. /\ jobs[j].epoch \in Nat /\ jobs[j].epoch <= controller.epoch
        /\ Asked(jobs[j])
    BY <1>2 DEF Inv, TypeOK, Job, Generations, Overtaken, ReportInv
  <2>2. jobs[j].epoch = controller'.epoch => jobs[j].spread = controller'.target
    BY <1>1, <2>1, StaysLive DEF Asked
  <2> QED BY <1>2, <2>1, <2>2 DEF Asked, Live
<1>3. ASSUME NEW i \in 1 .. Len(queue)
      PROVE  Told(queue[i])'
  <2>1. queue[i] \in Message
    BY <1>1
  <2>2. /\ queue[i].epoch \in Nat /\ queue[i].epoch <= controller.epoch
        /\ Told(queue[i])
    BY <2>1 DEF Message, Inv, Generations, Overtaken, ReportInv
  <2>3. queue[i].epoch = controller'.epoch => queue[i].spread = controller'.target
    BY <1>1, <2>2, StaysLive DEF Told
  <2> QED BY <2>2, <2>3 DEF Told, Live
<1> QED BY <1>2, <1>3 DEF ReportInv

\* A refresh shows a page that is in the cache, or starts a job that asks for it.
LEMMA RefreshShows ==
  ASSUME NEW c \in Controllers, NEW s \in 1 .. MaxSources, NEW spread \in Spreads,
         NEW hits, jobs \in [1 .. MaxJobs -> Job \cup {Idle}],
         RefreshFrom(c, s, spread, hits)
  PROVE  /\ controller'.target = spread
         /\ view'.leading = Blank
              \/ (view'.leading.page = spread.leading /\ spread.leading \in hits)
         /\ \A j \in 1 .. MaxJobs :
              jobs'[j] = jobs[j]
                \/ /\ jobs'[j].spread = spread
                   /\ jobs'[j].missing = Slots(spread) \ hits
<1> DEFINE next == set_target(c, spread)
           missing == Missing(spread, hits)
           reserved == missing \ next.dispatched
           job == [source |-> s, epoch |-> next.epoch, spread |-> spread,
                   missing |-> missing]
<1>1. controller'.target = spread
  BY RefreshStep
<1>2. spread.leading \in Slots(spread) /\ spread.leading # NoPage
  BY SpreadFacts DEF Slots
<1>3. job.spread = spread /\ job.missing = missing
  OBVIOUS
<1> HIDE DEF next, missing, job
<1>4. CASE missing = {}
  <2>1. view'.leading = Image(s, spread.leading) /\ jobs' = jobs
    BY <1>4 DEF RefreshFrom, next, missing
  <2>2. spread.leading \in hits
    BY <1>2, <1>4 DEF missing, Missing
  <2> QED BY <1>1, <1>2, <2>1, <2>2 DEF Image
<1>5. CASE missing # {}
  <2>1. /\ view' = [EmptyView EXCEPT !.loading = missing]
        /\ jobs' = jobs \/ Dispatch(job)
    BY <1>5 DEF RefreshFrom, next, missing, job
  <2>2. view'.leading = Blank
    BY <2>1 DEF EmptyView
  <2>3. \A j \in 1 .. MaxJobs : jobs'[j] = jobs[j] \/ jobs'[j] = job
    BY <2>1 DEF Dispatch
  <2>4. missing = Slots(spread) \ hits
    BY DEF missing, Missing
  <2>5. ASSUME NEW j \in 1 .. MaxJobs
        PROVE  jobs'[j] = jobs[j]
                 \/ (jobs'[j].spread = spread /\ jobs'[j].missing = missing)
    BY <1>3, <2>3
  <2> QED BY <1>1, <2>2, <2>4, <2>5
<1> QED BY <1>4, <1>5

\* A refresh, of the book that is open or of one that is being opened.
LEMMA RefreshReports ==
  ASSUME Inv, ReportInv, Inv', queue' = queue, cached' \cap FailingPages = {},
         NEW c \in Controllers, NEW s \in 1 .. MaxSources, NEW spread \in Spreads,
         NEW hits, hits \cap FailingPages = {}, RefreshFrom(c, s, spread, hits),
         c = controller \/ c.epoch = controller.epoch + 1
  PROVE  ReportInv'
<1>1. /\ controller'.target = spread
      /\ view'.leading = Blank
           \/ (view'.leading.page = spread.leading /\ spread.leading \in hits)
      /\ \A j \in 1 .. MaxJobs :
           jobs'[j] = jobs[j]
             \/ /\ jobs'[j].spread = spread
                /\ jobs'[j].missing = Slots(spread) \ hits
  BY RefreshShows DEF Inv, TypeOK
<1>2. /\ controller'.epoch >= c.epoch
      /\ controller'.epoch = c.epoch => c.target = spread
  BY RefreshStep DEF Inv, TypeOK
<1>3. controller.epoch \in Nat /\ controller'.epoch \in Nat
  BY DEF Inv, TypeOK
<1>4. /\ controller'.epoch >= controller.epoch
      /\ controller'.epoch = controller.epoch => controller'.target = controller.target
  BY <1>1, <1>2, <1>3
<1>5. ShownDecodes'
  BY <1>1 DEF ShownDecodes
<1>6. spread.leading \in Slots(spread)
  BY SpreadFacts DEF Slots
<1>7. \A j \in 1 .. MaxJobs : jobs'[j] = jobs[j] \/ Asked(jobs[j])'
  BY <1>1, <1>6 DEF Asked, Live
<1> QED BY <1>4, <1>5, <1>7, ReportKept

\* A closed book's view stays as it is or is blanked; its generation, if it
\* is still the live one, keeps its target.
LEMMA ClosedReports ==
  ASSUME Inv, ReportInv, Inv', RefreshNothing \/ RejectEmptyBook \/ RemoveOpenBook
  PROVE  ReportInv'
<1>1. controller \in Controllers
  BY DEF Inv, TypeOK, Controllers
<1>2. /\ queue' = queue /\ jobs' = jobs
      /\ cached' \in {cached, {}}
  BY DEF RefreshNothing, RejectEmptyBook, RemoveOpenBook
<1>3. controller.epoch \in Nat
  BY <1>1 DEF Controllers
<1>4. CASE RefreshNothing
  <2>1. \/ controller'.epoch = controller.epoch + 1
        \/ controller'.epoch = controller.epoch /\ controller'.target = controller.target
    <3>1. CASE controller.target # NoTarget
      <4>1. controller' = [epoch |-> controller.epoch + 1, target |-> NoTarget,
                           dispatched |-> {}]
        BY <1>1, <1>4, <3>1, BeginStep DEF RefreshNothing, clear_target
      <4> QED BY <4>1
    <3>2. CASE controller.target = NoTarget
      BY <1>1, <1>4, <3>2 DEF RefreshNothing, clear_target, Controllers
    <3> QED BY <3>1, <3>2
  <2>2. view'.leading = Blank
    BY <1>4 DEF RefreshNothing, EmptyView
  <2> QED BY <1>2, <1>3, <2>1, <2>2, ReportKept DEF ReportInv, ShownDecodes
<1>5. CASE RejectEmptyBook
  <2>1. controller'.epoch = controller.epoch + 1 /\ controller'.target = NoTarget
    <3>1. controller' = [epoch |-> controller.epoch + 1, target |-> NoTarget,
                         dispatched |-> {}]
      BY <1>1, <1>5, BeginStep DEF RejectEmptyBook, reset_for_source
    <3> QED BY <3>1
  <2>2. view' = view
    BY <1>5 DEF RejectEmptyBook
  <2>3. ShownDecodes'
    BY <2>1, <2>2 DEF ReportInv, ShownDecodes
  <2> QED BY <1>2, <1>3, <2>1, <2>3, ReportKept DEF ReportInv
<1>6. CASE RemoveOpenBook
  <2>1. controller' = controller /\ view' = view
    BY <1>6 DEF RemoveOpenBook
  <2>2. ShownDecodes'
    BY <2>1 DEF ReportInv, ShownDecodes
  <2> QED BY <1>2, <1>3, <2>1, <2>2, ReportKept DEF ReportInv
<1> QED BY <1>4, <1>5, <1>6

\* A job posts an error only when its leading page may fail, and a spread only
\* when it may decode.
LEMMA PostedReports ==
  ASSUME NEW job \in Job, NEW bad \in SUBSET Pages,
         job.spread.leading \in bad => job.spread.leading \in MayFailPages,
         job.spread.leading \in FailingPages => job.spread.leading \in bad
  PROVE  \A i \in 1 .. Len(Posted(job, bad)) :
           /\ Posted(job, bad)[i].kind = "error" => job.spread.leading \in MayFailPages
           /\ Posted(job, bad)[i].kind = "spread" => job.spread.leading \notin FailingPages
<1> DEFINE message(kind, page) == [kind |-> kind, source |-> job.source, epoch |-> job.epoch,
                                   spread |-> job.spread, page |-> page]
           trailing == job.spread.trailing
           leading == job.spread.leading
<1>1. \A kind, page : message(kind, page).kind = kind
  OBVIOUS
<1>2. CASE leading \notin bad
  <2>1. Posted(job, bad) = <<message("spread", IF trailing \in bad THEN trailing ELSE NoPage)>>
    BY <1>2 DEF Posted
  <2> HIDE DEF message, trailing
  <2> QED BY <1>1, <1>2, <2>1
<1>3. CASE leading \in bad
  <2>1. Posted(job, bad) \in
          {<<message("error", trailing)>> \o <<message("error", leading)>>,
           <<>> \o <<message("error", leading)>>}
    BY <1>3 DEF Posted
  <2> HIDE DEF message, trailing
  <2> QED BY <1>1, <1>3, <2>1
<1> QED BY <1>2, <1>3

LEMMA FinishReports ==
  ASSUME Inv, ReportInv, Inv',
         NEW j \in 1 .. MaxJobs, NEW bad \in SUBSET Pages, Finish(j, bad)
  PROVE  ReportInv'
<1> DEFINE job == jobs[j]
           posted == Posted(job, bad)
<1>1. job \in Job /\ job # Idle /\ Asked(job) /\ queue \in Seq(Message)
  BY DEF Inv, TypeOK, Finish, ReportInv
<1>2. /\ UNCHANGED <<source, opened, controller, view>>
      /\ jobs' = [jobs EXCEPT ![j] = Idle]
      /\ queue' = queue \o posted
      /\ cached' = IF job.source = source THEN cached \cup (job.missing \ bad) ELSE cached
      /\ bad \in MayFail(job)
  BY DEF Finish
<1>3. /\ posted \in Seq(Message)
      /\ \A i \in 1 .. Len(posted) :
           /\ posted[i].epoch = job.epoch /\ posted[i].spread = job.spread
  BY <1>1, PostedStep
<1>4. cached \cap FailingPages = {}
  BY DEF ReportInv
<1>5. bad \subseteq MayFailPages /\ job.missing \cap FailingPages \subseteq bad
  BY <1>2, <1>4 DEF MayFail, MayFailPages
<1>6. /\ job.spread.leading \in bad => job.spread.leading \in MayFailPages
      /\ job.spread.leading \in FailingPages => job.spread.leading \in bad
  BY <1>1, <1>5 DEF Asked
<1>7. \A i \in 1 .. Len(posted) :
        /\ posted[i].kind = "error" => job.spread.leading \in MayFailPages
        /\ posted[i].kind = "spread" => job.spread.leading \notin FailingPages
  BY <1>1, <1>6, PostedReports
<1>8. cached' \cap FailingPages = {}
  BY <1>2, <1>4, <1>5
<1> HIDE DEF job, posted
<1>9. ASSUME NEW i \in 1 .. Len(queue')
      PROVE  Told(queue'[i])
  <2>1. CASE i \in 1 .. Len(queue)
    BY <1>1, <1>2, <1>3, <2>1 DEF ReportInv
  <2>2. CASE i \notin 1 .. Len(queue)
    <3>1. i - Len(queue) \in 1 .. Len(posted) /\ queue'[i] = posted[i - Len(queue)]
      BY <1>1, <1>2, <1>3, <1>9, <2>2
    <3> QED BY <1>1, <1>3, <1>7, <3>1 DEF Told, Asked, Live
  <2> QED BY <2>1, <2>2
<1>10. \A k \in 1 .. MaxJobs : jobs'[k] # Idle => jobs'[k] = jobs[k]
  BY <1>2 DEF Inv, TypeOK
<1> QED BY <1>2, <1>8, <1>9, <1>10 DEF ReportInv, Asked, Told, Live, ShownDecodes

LEMMA DeliverReports ==
  ASSUME Inv, ReportInv, Deliver
  PROVE  ReportInv'
<1> DEFINE message == Head(queue)
<1>1. /\ queue \in Seq(Message) /\ queue # <<>> /\ queue' = Tail(queue)
      /\ UNCHANGED <<source, opened, cached, jobs>>
  BY DEF Inv, TypeOK, Deliver, DeliverStale, DeliverSpread, DeliverError
<1>2. message \in Message /\ Told(message)
  BY <1>1 DEF ReportInv
<1>3. \A i \in 1 .. Len(queue') : i + 1 \in 1 .. Len(queue) /\ queue'[i] = queue[i + 1]
  BY <1>1
<1>4. controller \in Controllers
  BY DEF Inv, TypeOK, Controllers
<1>5. controller'.epoch = controller.epoch /\ controller'.target = controller.target
  <2>1. CASE DeliverStale
    BY <2>1 DEF DeliverStale
  <2>2. CASE DeliverSpread
    BY <1>4, <2>2, ReleaseStep DEF DeliverSpread
  <2>3. CASE DeliverError
    BY <1>4, <2>3 DEF DeliverError, Controllers
  <2> QED BY <2>1, <2>2, <2>3 DEF Deliver
<1>6. ShownDecodes'
  <2>1. CASE DeliverStale
    BY <2>1 DEF DeliverStale, ReportInv, ShownDecodes
  <2>2. CASE DeliverSpread
    <3>1. /\ message.epoch = controller.epoch /\ message.kind = "spread"
          /\ view'.leading = Image(message.source, message.spread.leading)
      BY <2>2 DEF DeliverSpread, IsStale
    <3>2. /\ message.spread = controller.target
          /\ message.spread.leading \notin FailingPages
      BY <1>2, <3>1 DEF Told, Live
    <3>3. message.spread \in Spreads
      BY <1>2 DEF Message
    <3>4. view'.leading.page = message.spread.leading
      BY <3>1, <3>3, SpreadFacts DEF Image
    <3> HIDE DEF message
    <3> QED BY <1>5, <3>2, <3>4 DEF ShownDecodes
  <2>3. CASE DeliverError
    BY <2>3 DEF DeliverError, EmptyView, ShownDecodes
  <2> QED BY <2>1, <2>2, <2>3 DEF Deliver
<1> QED BY <1>1, <1>3, <1>5, <1>6 DEF ReportInv, Asked, Told, Live

LEMMA NextReport == Inv /\ ReportInv /\ [Next]_vars => ReportInv'
<1> SUFFICES ASSUME Inv, ReportInv, [Next]_vars PROVE ReportInv'
  OBVIOUS
<1>1. Inv'
  BY NextInv
<1>2. controller \in Controllers
  BY DEF Inv, TypeOK, Controllers
<1>3. CASE UNCHANGED vars
  BY <1>3 DEF vars, ReportInv, Asked, Told, Live, ShownDecodes
<1>4. ASSUME NEW spread \in Spreads, Refresh(spread) PROVE ReportInv'
  <2>1. /\ RefreshFrom(controller, source, spread, cached)
        /\ queue' = queue /\ cached' = cached /\ source \in 1 .. MaxSources
    BY <1>4, BoundsAssumption DEF Refresh, Inv, TypeOK
  <2> QED BY <1>1, <1>2, <2>1, RefreshReports DEF ReportInv
<1>5. ASSUME NEW spread \in Spreads, OpenBook(spread) PROVE ReportInv'
  <2>1. /\ RefreshFrom(reset_for_source(controller), opened + 1, spread, {})
        /\ queue' = queue /\ cached' = {} /\ opened + 1 \in 1 .. MaxSources
    BY <1>5, BoundsAssumption DEF OpenBook, Inv, TypeOK
  <2>2. /\ reset_for_source(controller) \in Controllers
        /\ reset_for_source(controller).epoch = controller.epoch + 1
    BY <1>2, ResetStep
  <2> QED BY <1>1, <2>1, <2>2, RefreshReports
<1>6. CASE RefreshNothing \/ RejectEmptyBook \/ RemoveOpenBook
  BY <1>1, <1>6, ClosedReports
<1>7. ASSUME NEW page \in Pages, Prefetched(page) \/ Evicted(page) PROVE ReportInv'
  <2>1. /\ UNCHANGED <<controller, view, jobs, queue>>
        /\ cached' \cap FailingPages = {}
    BY <1>7 DEF Prefetched, Evicted, ReportInv
  <2> QED BY <2>1 DEF ReportInv, Asked, Told, Live, ShownDecodes
<1>8. CASE FinishSome
  BY <1>1, <1>8, FinishReports DEF FinishSome
<1>9. CASE Deliver
  BY <1>9, DeliverReports
<1> QED BY <1>3, <1>4, <1>5, <1>6, <1>7, <1>8, <1>9 DEF Next

\* An error report takes away a page that is on screen only when that page is
\* flaky: one that never decodes is never on screen, and one that always does is
\* never reported.
THEOREM ErrorsSparePages == Spec => ErrorBlanksOnlyFlaky
<1>1. ASSUME Inv, ReportInv, [Next]_vars
      PROVE  [DeliverError =>
                view.leading = Blank \/ Head(queue).spread.leading \in FlakyPages]_vars
  <2> DEFINE message == Head(queue)
  <2> SUFFICES ASSUME DeliverError, message.spread.leading \notin FlakyPages
               PROVE  view.leading = Blank
    OBVIOUS
  <2>1. queue \in Seq(Message) /\ queue # <<>> /\ ~IsStale(message) /\ message.kind = "error"
    BY <1>1 DEF DeliverError, Inv, TypeOK
  <2>2. message \in Message /\ Told(message)
    BY <1>1, <2>1 DEF ReportInv
  <2>3. /\ message.spread = controller.target /\ message.spread \in Spreads
        /\ message.spread.leading \in FailingPages
    BY <2>1, <2>2 DEF Told, Live, IsStale, Message, MayFailPages
  <2>4. controller.target # NoTarget
    BY <2>3, SpreadFacts
  <2>5. ShownDecodes
    BY <1>1 DEF ReportInv
  <2> HIDE DEF message
  <2> QED BY <2>3, <2>4, <2>5 DEF ShownDecodes
<1> QED
  BY <1>1, InitInv, NextInv, InitReport, NextReport, PTL DEF Spec, ErrorBlanksOnlyFlaky

\* The placeholders.  A reservation is released by what the job that made it
\* posts, so it is covered while that is on its way.  One reservation can outlive
\* its job: a trailing page that decoded beside a leading page that failed.

\* A job of generation e, or a message of it that settles the leading page.
Settles(message, e) ==
  message.epoch = e /\ (message.kind = "spread" \/ message.page = message.spread.leading)

Underway(js, q, e) ==
  \/ \E j \in 1 .. MaxJobs : js[j] # Idle /\ js[j].epoch = e
  \/ \E i \in 1 .. Len(q) : Settles(q[i], e)

LeadingComes == Underway(jobs, queue, controller.epoch)

\* The report of a failed trailing page is followed by that of its leading page.
Paired(q) ==
  \A i \in 1 .. Len(q) :
    q[i].kind = "error" /\ q[i].page # q[i].spread.leading =>
      /\ i + 1 \in 1 .. Len(q)
      /\ q[i + 1].epoch = q[i].epoch /\ q[i + 1].kind = "error"
      /\ q[i + 1].page = q[i + 1].spread.leading

\* A spread whose leaked reservation can block a dispatch: its leading page failed
\* once and is a HIT now.
Sticks(spread) == spread.leading \in FlakyPages /\ spread.trailing # NoPage

Covered ==
  /\ controller.dispatched \subseteq Slots(controller.target)
  /\ controller.target.leading \in controller.dispatched => LeadingComes
  /\ controller.target.trailing \in controller.dispatched
       /\ controller.target.leading \notin MayFailPages => LeadingComes
  /\ controller.target # NoTarget /\ view.loading # {} =>
       LeadingComes \/ Sticks(controller.target)

ReservationInv == Paired(queue) /\ Covered

LEMMA InitReservation == Init => ReservationInv
BY DEF Init, ReservationInv, Paired, Covered, EmptyView

\* Where nothing is reserved and nothing awaited, nothing need be on its way.
LEMMA NothingAwaited ==
  ASSUME controller'.dispatched = {},
         view'.loading = {} \/ controller'.target = NoTarget
  PROVE  Covered'
BY DEF Covered

\* What a refresh reserves: nothing, as all slots are HITs; or all that is
\* missing, with a new job; or nothing new, as all that is missing is reserved.
LEMMA RefreshReserves ==
  ASSUME NEW c \in Controllers, NEW s \in 1 .. MaxSources, NEW spread \in Spreads,
         NEW hits, jobs \in [1 .. MaxJobs -> Job \cup {Idle}],
         RefreshFrom(c, s, spread, hits)
  PROVE  \/ /\ view'.loading = {}
            /\ controller'.dispatched = set_target(c, spread).dispatched \ Slots(spread)
         \/ /\ controller'.dispatched \subseteq
                 set_target(c, spread).dispatched \cup Slots(spread)
            /\ Underway(jobs', queue', controller'.epoch)
         \/ /\ Slots(spread) \ hits # {}
            /\ Slots(spread) \ hits \subseteq set_target(c, spread).dispatched
            /\ controller'.dispatched = set_target(c, spread).dispatched
            /\ controller'.epoch = set_target(c, spread).epoch
            /\ jobs' = jobs
<1> DEFINE next == set_target(c, spread)
           missing == Missing(spread, hits)
           reserved == missing \ next.dispatched
           job == [source |-> s, epoch |-> next.epoch, spread |-> spread,
                   missing |-> missing]
<1>1. next \in Controllers
  BY TargetStep
<1>2. missing = Slots(spread) \ hits
  BY DEF Missing
<1>3. job.epoch = next.epoch /\ job # Idle
  BY DEF Idle
<1>4. CASE missing = {}
  <2>1. controller' = clear_dispatched_spread(next, spread) /\ view'.loading = {}
    BY <1>4 DEF RefreshFrom
  <2> HIDE DEF next, missing
  <2>2. controller'.dispatched = next.dispatched \ Slots(spread)
    BY <1>1, <2>1 DEF clear_dispatched_spread, Controllers
  <2> QED BY <2>1, <2>2 DEF next
<1>5. CASE missing # {} /\ reserved = {}
  <2>1. controller' = [next EXCEPT !.dispatched = @ \cup reserved] /\ jobs' = jobs
    BY <1>5 DEF RefreshFrom
  <2> HIDE DEF next, missing, job
  <2>2. controller'.dispatched = next.dispatched /\ controller'.epoch = next.epoch
    BY <1>1, <1>5, <2>1 DEF Controllers
  <2>3. missing \subseteq next.dispatched
    BY <1>5
  <2> QED BY <1>2, <1>5, <2>1, <2>2, <2>3 DEF next
<1>6. CASE missing # {} /\ reserved # {}
  <2>1. controller' = [next EXCEPT !.dispatched = @ \cup reserved] /\ Dispatch(job)
    BY <1>6 DEF RefreshFrom
  <2> HIDE DEF next, missing, job
  <2>2. /\ controller'.dispatched = next.dispatched \cup reserved
        /\ controller'.epoch = next.epoch
    BY <1>1, <2>1 DEF Controllers
  <2>3. FreeJobs # {} /\ FreeJobs \subseteq 1 .. MaxJobs
    BY <2>1 DEF Dispatch, FreeJobs
  <2>4. \E j \in FreeJobs : \A k \in FreeJobs : j <= k
    BY <2>3, BoundsAssumption, LeastOf
  <2>5. PICK j : j = CHOOSE i \in FreeJobs : \A k \in FreeJobs : i <= k
    OBVIOUS
  <2>6. j \in 1 .. MaxJobs
    BY <2>3, <2>4, <2>5
  <2>7. jobs' = [jobs EXCEPT ![j] = job]
    BY <2>1, <2>5 DEF Dispatch
  <2>8. jobs'[j] = job
    BY <2>6, <2>7
  <2>9. Underway(jobs', queue', controller'.epoch)
    BY <1>3, <2>2, <2>6, <2>8 DEF Underway
  <2>10. controller'.dispatched \subseteq next.dispatched \cup Slots(spread)
    BY <1>2, <2>2
  <2> QED BY <2>9, <2>10 DEF next
<1> QED BY <1>4, <1>5, <1>6

\* A new target starts with no reservation.
LEMMA TargetReserves ==
  ASSUME NEW c \in Controllers, NEW spread \in Spreads
  PROVE  \/ c.target = spread /\ set_target(c, spread) = c
         \/ c.target # spread /\ set_target(c, spread).dispatched = {}
<1>1. CASE c.target = spread
  BY <1>1 DEF set_target
<1>2. CASE c.target # spread
  <2>1. set_target(c, spread)
          = [epoch |-> c.epoch + 1, target |-> spread, dispatched |-> {}]
    BY <1>2, BeginStep DEF set_target
  <2> QED BY <1>2, <2>1
<1> QED BY <1>1, <1>2

LEMMA RefreshCovers ==
  ASSUME Inv, ReportInv, ReservationInv, NEW spread \in Spreads, Refresh(spread)
  PROVE  Covered'
<1> DEFINE next == set_target(controller, spread)
<1>1. /\ controller \in Controllers /\ source \in 1 .. MaxSources
      /\ jobs \in [1 .. MaxJobs -> Job \cup {Idle}]
      /\ RefreshFrom(controller, source, spread, cached) /\ queue' = queue
  BY BoundsAssumption DEF Inv, TypeOK, Controllers, Refresh
<1>2. \/ controller.target = spread /\ next = controller
      \/ controller.target # spread /\ next.dispatched = {}
  BY <1>1, TargetReserves
<1>3. controller'.target = spread
  BY <1>1, RefreshStep
<1>4. next.dispatched \subseteq Slots(spread)
  BY <1>2 DEF ReservationInv, Covered
<1>5. \/ /\ view'.loading = {}
         /\ controller'.dispatched = next.dispatched \ Slots(spread)
      \/ /\ controller'.dispatched \subseteq next.dispatched \cup Slots(spread)
         /\ Underway(jobs', queue', controller'.epoch)
      \/ /\ Slots(spread) \ cached # {}
         /\ Slots(spread) \ cached \subseteq next.dispatched
         /\ controller'.dispatched = next.dispatched
         /\ controller'.epoch = next.epoch
         /\ jobs' = jobs
  BY <1>1, RefreshReserves
<1> HIDE DEF next
<1>6. CASE /\ view'.loading = {}
           /\ controller'.dispatched = next.dispatched \ Slots(spread)
  BY <1>4, <1>6, NothingAwaited
<1>7. CASE /\ controller'.dispatched \subseteq next.dispatched \cup Slots(spread)
           /\ Underway(jobs', queue', controller'.epoch)
  BY <1>3, <1>4, <1>7 DEF Covered, LeadingComes
<1>8. CASE /\ Slots(spread) \ cached # {}
           /\ Slots(spread) \ cached \subseteq next.dispatched
           /\ controller'.dispatched = next.dispatched
           /\ controller'.epoch = next.epoch
           /\ jobs' = jobs
  <2>1. next = controller /\ controller.target = spread
    BY <1>2, <1>8
  <2>2. LeadingComes \/ Sticks(spread)
    <3>1. CASE spread.leading \in controller.dispatched
      BY <2>1, <3>1 DEF ReservationInv, Covered
    <3>2. CASE spread.leading \notin controller.dispatched
      <4>1. /\ spread.leading \in cached
            /\ spread.trailing # NoPage /\ spread.trailing \in controller.dispatched
        BY <1>8, <2>1, <3>2, SpreadFacts DEF Slots
      <4>2. spread.leading \notin FailingPages
        BY <4>1 DEF ReportInv
      <4> QED BY <2>1, <4>1, <4>2 DEF ReservationInv, Covered, Sticks, MayFailPages
    <3> QED BY <3>1, <3>2
  <2>3. LeadingComes => LeadingComes'
    BY <1>1, <1>8, <2>1 DEF LeadingComes
  <2>4. controller'.dispatched = controller.dispatched
    BY <1>8, <2>1
  <2> QED BY <1>3, <2>1, <2>2, <2>3, <2>4 DEF ReservationInv, Covered, Sticks
<1> QED BY <1>5, <1>6, <1>7, <1>8

LEMMA OpenCovers ==
  ASSUME Inv, NEW spread \in Spreads, OpenBook(spread)
  PROVE  Covered'
<1> DEFINE fresh == reset_for_source(controller)
           next == set_target(fresh, spread)
<1>1. /\ controller \in Controllers /\ opened + 1 \in 1 .. MaxSources
      /\ jobs \in [1 .. MaxJobs -> Job \cup {Idle}]
      /\ RefreshFrom(fresh, opened + 1, spread, {})
  BY BoundsAssumption DEF Inv, TypeOK, Controllers, OpenBook
<1>2. fresh \in Controllers /\ fresh.target = NoTarget
  <2>1. fresh = [epoch |-> controller.epoch + 1, target |-> NoTarget, dispatched |-> {}]
    BY <1>1, BeginStep DEF reset_for_source
  <2>2. fresh \in Controllers
    BY <1>1, ResetStep
  <2>3. fresh.target = NoTarget
    BY <2>1
  <2> QED BY <2>2, <2>3
<1> HIDE DEF fresh
<1>3. next.dispatched = {}
  BY <1>2, TargetReserves, SpreadFacts
<1>4. controller'.target = spread
  BY <1>1, <1>2, RefreshStep
<1>5. \/ /\ view'.loading = {}
         /\ controller'.dispatched = next.dispatched \ Slots(spread)
      \/ /\ controller'.dispatched \subseteq next.dispatched \cup Slots(spread)
         /\ Underway(jobs', queue', controller'.epoch)
      \/ /\ Slots(spread) \ {} # {}
         /\ Slots(spread) \ {} \subseteq next.dispatched
         /\ controller'.dispatched = next.dispatched
         /\ controller'.epoch = next.epoch
         /\ jobs' = jobs
  BY <1>1, <1>2, RefreshReserves
<1> HIDE DEF next
<1>6. CASE /\ view'.loading = {}
           /\ controller'.dispatched = next.dispatched \ Slots(spread)
  BY <1>3, <1>6, NothingAwaited
<1>7. CASE /\ controller'.dispatched \subseteq next.dispatched \cup Slots(spread)
           /\ Underway(jobs', queue', controller'.epoch)
  BY <1>3, <1>4, <1>7 DEF Covered, LeadingComes
<1> QED BY <1>3, <1>5, <1>6, <1>7

LEMMA ClosedCovers ==
  ASSUME Inv, ReservationInv, RefreshNothing \/ RejectEmptyBook \/ RemoveOpenBook
  PROVE  Covered'
<1>1. controller \in Controllers
  BY DEF Inv, TypeOK, Controllers
<1>2. CASE RefreshNothing
  <2>1. controller'.dispatched = {}
    <3>1. CASE controller.target # NoTarget
      <4>1. controller' = [epoch |-> controller.epoch + 1, target |-> NoTarget,
                           dispatched |-> {}]
        BY <1>1, <1>2, <3>1, BeginStep DEF RefreshNothing, clear_target
      <4> QED BY <4>1
    <3>2. CASE controller.target = NoTarget
      BY <1>1, <1>2, <3>2 DEF RefreshNothing, clear_target, Controllers
    <3> QED BY <3>1, <3>2
  <2>2. view'.loading = {}
    BY <1>2 DEF RefreshNothing, EmptyView
  <2> QED BY <2>1, <2>2, NothingAwaited
<1>3. CASE RejectEmptyBook
  <2>1. controller' = [epoch |-> controller.epoch + 1, target |-> NoTarget,
                       dispatched |-> {}]
    BY <1>1, <1>3, BeginStep DEF RejectEmptyBook, reset_for_source
  <2>2. controller'.dispatched = {} /\ controller'.target = NoTarget
    BY <2>1
  <2> QED BY <2>2, NothingAwaited
<1>4. CASE RemoveOpenBook
  BY <1>4 DEF RemoveOpenBook, ReservationInv, Covered, LeadingComes
<1> QED BY <1>2, <1>3, <1>4

\* The last closure a job posts settles its leading page, and a report of the
\* trailing page comes before it.
LEMMA PostedSettles ==
  ASSUME NEW job \in Job, NEW bad \in SUBSET Pages
  PROVE  /\ Paired(Posted(job, bad))
         /\ \E i \in 1 .. Len(Posted(job, bad)) : Settles(Posted(job, bad)[i], job.epoch)
<1> DEFINE message(kind, page) == [kind |-> kind, source |-> job.source, epoch |-> job.epoch,
                                   spread |-> job.spread, page |-> page]
           trailing == job.spread.trailing
           leading == job.spread.leading
<1>1. \A kind, page : /\ message(kind, page).kind = kind
                      /\ message(kind, page).epoch = job.epoch
                      /\ message(kind, page).page = page
                      /\ message(kind, page).spread.leading = leading
  OBVIOUS
<1>2. CASE leading \notin bad
  <2>1. PICK page : Posted(job, bad) = <<message("spread", page)>>
    BY <1>2 DEF Posted
  <2> HIDE DEF message, leading
  <2>2. Len(Posted(job, bad)) = 1 /\ Posted(job, bad)[1] = message("spread", page)
    BY <2>1
  <2> QED BY <1>1, <2>2 DEF Paired, Settles
<1>3. CASE leading \in bad /\ trailing \in bad
  <2>1. Posted(job, bad) = <<message("error", trailing)>> \o <<message("error", leading)>>
    BY <1>3 DEF Posted
  <2> HIDE DEF message, leading, trailing
  <2>2. /\ Len(Posted(job, bad)) = 2
        /\ Posted(job, bad)[1] = message("error", trailing)
        /\ Posted(job, bad)[2] = message("error", leading)
    BY <2>1
  <2> QED BY <1>1, <2>2 DEF Paired, Settles
<1>4. CASE leading \in bad /\ trailing \notin bad
  <2>1. Posted(job, bad) = <<>> \o <<message("error", leading)>>
    BY <1>4 DEF Posted
  <2> HIDE DEF message, leading
  <2>2. /\ Len(Posted(job, bad)) = 1
        /\ Posted(job, bad)[1] = message("error", leading)
    BY <2>1
  <2> QED BY <1>1, <2>2 DEF Paired, Settles
<1> QED BY <1>2, <1>3, <1>4

LEMMA FinishCovers ==
  ASSUME Inv, ReservationInv, NEW j \in 1 .. MaxJobs, NEW bad \in SUBSET Pages, Finish(j, bad)
  PROVE  ReservationInv'
<1> DEFINE job == jobs[j]
           posted == Posted(job, bad)
<1>1. job \in Job /\ job # Idle /\ queue \in Seq(Message)
  BY DEF Inv, TypeOK, Finish
<1>2. /\ UNCHANGED <<controller, view>>
      /\ jobs' = [jobs EXCEPT ![j] = Idle]
      /\ queue' = queue \o posted
  BY DEF Finish
<1>3. posted \in Seq(Message)
  BY <1>1, PostedStep
<1>4. /\ Paired(posted)
      /\ \E i \in 1 .. Len(posted) : Settles(posted[i], job.epoch)
  BY <1>1, PostedSettles
<1> HIDE DEF posted
<1>5. PICK n \in Nat : n = Len(queue)
  BY <1>1
<1>6. PICK m \in Nat : m = Len(posted)
  BY <1>3
<1>7. /\ Len(queue') = n + m
      /\ \A i \in 1 .. n : queue'[i] = queue[i]
      /\ \A i \in 1 .. m : n + i \in 1 .. n + m /\ queue'[n + i] = posted[i]
  BY <1>1, <1>2, <1>3, <1>5, <1>6
<1>8. Paired(queue')
  <2> SUFFICES ASSUME NEW i \in 1 .. n + m,
                      queue'[i].kind = "error", queue'[i].page # queue'[i].spread.leading
               PROVE  /\ i + 1 \in 1 .. n + m
                      /\ queue'[i + 1].epoch = queue'[i].epoch /\ queue'[i + 1].kind = "error"
                      /\ queue'[i + 1].page = queue'[i + 1].spread.leading
    BY <1>7 DEF Paired
  <2>1. CASE i \in 1 .. n
    <3>1. i + 1 \in 1 .. n /\ queue'[i] = queue[i]
      BY <1>5, <1>7, <2>1 DEF ReservationInv, Paired
    <3>2. queue'[i + 1] = queue[i + 1] /\ i + 1 \in 1 .. n + m
      BY <1>7, <3>1
    <3> QED BY <1>5, <2>1, <3>1, <3>2 DEF ReservationInv, Paired
  <2>2. CASE i \notin 1 .. n
    <3>1. PICK k \in 1 .. m : i = n + k
      <4>1. i - n \in 1 .. m /\ i = n + (i - n)
        BY <2>2
      <4> QED BY <4>1
    <3>2. queue'[i] = posted[k]
      BY <1>7, <3>1
    <3>3. /\ k + 1 \in 1 .. m
          /\ posted[k + 1].epoch = posted[k].epoch /\ posted[k + 1].kind = "error"
          /\ posted[k + 1].page = posted[k + 1].spread.leading
      BY <1>4, <1>6, <3>2 DEF Paired
    <3>4. n + (k + 1) \in 1 .. n + m /\ queue'[n + (k + 1)] = posted[k + 1]
      BY <1>7, <3>3
    <3>5. n + (k + 1) = i + 1
      BY <3>1
    <3> QED BY <3>2, <3>3, <3>4, <3>5
  <2> QED BY <2>1, <2>2
<1>9. LeadingComes => LeadingComes'
  <2> SUFFICES ASSUME LeadingComes
               PROVE  Underway(jobs', queue', controller.epoch)
    BY <1>2 DEF LeadingComes
  <2>1. CASE \E i \in 1 .. Len(queue) : Settles(queue[i], controller.epoch)
    <3>1. PICK i \in 1 .. n : Settles(queue[i], controller.epoch)
      BY <1>5, <2>1
    <3>2. i \in 1 .. Len(queue') /\ queue'[i] = queue[i]
      BY <1>7, <3>1
    <3> QED BY <3>1, <3>2 DEF Underway
  <2>2. CASE \E k \in 1 .. MaxJobs : jobs[k] # Idle /\ jobs[k].epoch = controller.epoch
    <3>1. PICK k \in 1 .. MaxJobs : jobs[k] # Idle /\ jobs[k].epoch = controller.epoch
      BY <2>2
    <3>2. CASE k = j
      <4>1. PICK i \in 1 .. m : Settles(posted[i], job.epoch)
        BY <1>4, <1>6
      <4>2. n + i \in 1 .. Len(queue') /\ queue'[n + i] = posted[i]
        BY <1>7
      <4>3. Settles(queue'[n + i], controller.epoch)
        BY <3>1, <3>2, <4>1, <4>2
      <4> QED BY <4>2, <4>3 DEF Underway
    <3>3. CASE k # j
      <4>1. jobs'[k] = jobs[k]
        BY <1>2, <3>1, <3>3 DEF Inv, TypeOK
      <4> QED BY <3>1, <4>1 DEF Underway
    <3> QED BY <3>2, <3>3
  <2> QED BY <2>1, <2>2 DEF LeadingComes, Underway
<1> QED BY <1>2, <1>8, <1>9 DEF ReservationInv, Covered

LEMMA DeliverCovers ==
  ASSUME Inv, ReportInv, ReservationInv, Deliver
  PROVE  ReservationInv'
<1> DEFINE message == Head(queue)
<1>1. /\ queue \in Seq(Message) /\ queue # <<>> /\ queue' = Tail(queue)
      /\ jobs' = jobs
  BY DEF Inv, TypeOK, Deliver, DeliverStale, DeliverSpread, DeliverError
<1>2. message \in Message /\ Told(message) /\ message = queue[1] /\ 1 \in 1 .. Len(queue)
  BY <1>1 DEF ReportInv
<1>3. PICK n \in Nat : Len(queue) = n + 1
  <2>1. PICK L \in Nat : L = Len(queue)
    BY <1>1
  <2>2. L \in 1 .. L
    BY <1>2, <2>1
  <2>3. L - 1 \in Nat /\ L = (L - 1) + 1
    BY <2>2
  <2> QED BY <2>1, <2>3
<1>4. Len(queue') = n /\ \A i \in 1 .. n : i + 1 \in 1 .. n + 1 /\ queue'[i] = queue[i + 1]
  BY <1>1, <1>3
<1>5. controller \in Controllers
  BY DEF Inv, TypeOK, Controllers
<1>6. Paired(queue')
  <2> SUFFICES ASSUME NEW i \in 1 .. n,
                      queue'[i].kind = "error", queue'[i].page # queue'[i].spread.leading
               PROVE  /\ i + 1 \in 1 .. n
                      /\ queue'[i + 1].epoch = queue'[i].epoch /\ queue'[i + 1].kind = "error"
                      /\ queue'[i + 1].page = queue'[i + 1].spread.leading
    BY <1>4 DEF Paired
  <2>1. PICK k \in 1 .. n + 1 : k = i + 1
    BY <1>4
  <2>2. queue'[i] = queue[k]
    BY <1>4, <2>1
  <2>3. /\ k + 1 \in 1 .. n + 1
        /\ queue[k + 1].epoch = queue[k].epoch /\ queue[k + 1].kind = "error"
        /\ queue[k + 1].page = queue[k + 1].spread.leading
    BY <1>3, <2>2 DEF ReservationInv, Paired
  <2>4. i + 1 \in 1 .. n
    BY <2>1, <2>3
  <2>5. queue'[i + 1] = queue[k + 1]
    BY <1>4, <2>1, <2>4
  <2> QED BY <2>2, <2>3, <2>4, <2>5
<1>7. CASE DeliverStale
  <2>1. UNCHANGED <<controller, view>> /\ message.epoch # controller.epoch
    BY <1>7 DEF DeliverStale, IsStale
  <2>2. LeadingComes => LeadingComes'
    <3> SUFFICES ASSUME LeadingComes
                 PROVE  Underway(jobs, queue', controller.epoch)
      BY <1>1, <2>1 DEF LeadingComes
    <3>1. CASE \E i \in 1 .. Len(queue) : Settles(queue[i], controller.epoch)
      <4>1. PICK i \in 1 .. n + 1 : Settles(queue[i], controller.epoch)
        BY <1>3, <3>1
      <4>2. i # 1
        BY <1>2, <2>1, <4>1 DEF Settles
      <4>3. PICK k \in 1 .. n : i = k + 1
        <5>1. i - 1 \in 1 .. n /\ i = (i - 1) + 1
          BY <4>2
        <5> QED BY <5>1
      <4>4. queue'[k] = queue[i]
        BY <1>4, <4>3
      <4> QED BY <1>4, <4>1, <4>4 DEF Underway
    <3>2. CASE \E k \in 1 .. MaxJobs : jobs[k] # Idle /\ jobs[k].epoch = controller.epoch
      BY <3>2 DEF Underway
    <3> QED BY <3>1, <3>2 DEF LeadingComes, Underway
  <2> QED BY <1>6, <2>1, <2>2 DEF ReservationInv, Covered
<1>8. CASE DeliverSpread
  <2>1. /\ message.epoch = controller.epoch
        /\ controller' = clear_dispatched_spread(controller, message.spread)
        /\ view'.loading = {}
    BY <1>8 DEF DeliverSpread, IsStale
  <2>2. message.spread = controller.target
    BY <1>2, <2>1 DEF Told, Live
  <2> HIDE DEF message
  <2>3. controller'.dispatched = controller.dispatched \ Slots(controller.target)
    BY <1>5, <2>1, <2>2 DEF clear_dispatched_spread, Controllers
  <2>4. controller'.dispatched = {}
    BY <2>3 DEF ReservationInv, Covered
  <2> QED BY <1>6, <2>1, <2>4, NothingAwaited DEF ReservationInv
<1>9. CASE DeliverError
  <2>1. /\ message.epoch = controller.epoch /\ message.kind = "error"
        /\ controller' = [controller EXCEPT !.dispatched = @ \ {message.page}]
        /\ view'.loading = {}
    BY <1>9 DEF DeliverError, IsStale, EmptyView
  <2>2. message.spread = controller.target /\ message.spread.leading \in MayFailPages
    BY <1>2, <2>1 DEF Told, Live
  <2>3. /\ controller'.dispatched = controller.dispatched \ {message.page}
        /\ controller'.target = controller.target /\ controller'.epoch = controller.epoch
    BY <1>5, <2>1 DEF Controllers
  <2>4. CASE message.page = message.spread.leading
    <3> HIDE DEF message
    <3>1. Covered'
      BY <2>1, <2>2, <2>3, <2>4 DEF ReservationInv, Covered
    <3> QED BY <1>6, <3>1 DEF ReservationInv
  <2>5. CASE message.page # message.spread.leading
    <3>1. /\ 1 + 1 \in 1 .. n + 1
          /\ queue[1 + 1].epoch = message.epoch
          /\ queue[1 + 1].page = queue[1 + 1].spread.leading
      BY <1>2, <1>3, <2>1, <2>5 DEF ReservationInv, Paired
    <3>2. 1 \in 1 .. n /\ queue'[1] = queue[1 + 1]
      BY <1>4, <3>1
    <3>3. Settles(queue'[1], controller.epoch)
      BY <2>1, <3>1, <3>2 DEF Settles
    <3>4. LeadingComes'
      BY <1>4, <2>3, <3>2, <3>3 DEF LeadingComes, Underway
    <3> HIDE DEF message
    <3>5. Covered'
      BY <2>3, <3>4 DEF ReservationInv, Covered
    <3> QED BY <1>6, <3>5 DEF ReservationInv
  <2> QED BY <2>4, <2>5
<1> QED BY <1>7, <1>8, <1>9 DEF Deliver

LEMMA NextReservation == Inv /\ ReportInv /\ ReservationInv /\ [Next]_vars => ReservationInv'
<1> SUFFICES ASSUME Inv, ReportInv, ReservationInv, [Next]_vars PROVE ReservationInv'
  OBVIOUS
<1>1. ASSUME queue' = queue, Covered' PROVE ReservationInv'
  BY <1>1 DEF ReservationInv
<1>2. CASE UNCHANGED vars
  BY <1>2 DEF vars, ReservationInv, Covered, LeadingComes
<1>3. ASSUME NEW spread \in Spreads, Refresh(spread) PROVE ReservationInv'
  BY <1>1, <1>3, RefreshCovers DEF Refresh
<1>4. ASSUME NEW spread \in Spreads, OpenBook(spread) PROVE ReservationInv'
  BY <1>1, <1>4, OpenCovers DEF OpenBook
<1>5. CASE RefreshNothing \/ RejectEmptyBook \/ RemoveOpenBook
  <2>1. queue' = queue
    BY <1>5 DEF RefreshNothing, RejectEmptyBook, RemoveOpenBook
  <2> QED BY <1>1, <1>5, <2>1, ClosedCovers
<1>6. ASSUME NEW page \in Pages, Prefetched(page) \/ Evicted(page) PROVE ReservationInv'
  BY <1>6 DEF Prefetched, Evicted, ReservationInv, Covered, LeadingComes
<1>7. CASE FinishSome
  BY <1>7, FinishCovers DEF FinishSome
<1>8. CASE Deliver
  BY <1>8, DeliverCovers
<1> QED BY <1>2, <1>3, <1>4, <1>5, <1>6, <1>7, <1>8 DEF Next

\* The reservation that outlives its job, of a trailing page beside a failed
\* leading one, keeps a refresh from spawning a new job only when that leading page
\* decodes later: no other spread has a placeholder up with nothing on its way.
THEOREM OnlyFlakySpreadsStick == Spec => [](LoadingHasResult \/ Sticks(controller.target))
<1>1. ASSUME Inv, ReservationInv PROVE LoadingHasResult \/ Sticks(controller.target)
  <2> SUFFICES ASSUME source # 0, view.loading # {}, ~Sticks(controller.target)
               PROVE  Pending
    BY DEF LoadingHasResult
  <2>1. controller.target # NoTarget
    BY <1>1, SpreadFacts DEF Inv, Generations
  <2>2. Underway(jobs, queue, controller.epoch)
    BY <1>1, <2>1 DEF ReservationInv, Covered, LeadingComes
  <2>3. queue \in Seq(Message)
    BY <1>1 DEF Inv, TypeOK
  <2>4. DOMAIN queue = 1 .. Len(queue)
    BY <2>3
  <2> QED BY <2>2, <2>4 DEF Underway, Settles, Pending, IsStale
<1> QED
  BY <1>1, InitInv, NextInv, InitReport, NextReport, InitReservation, NextReservation, PTL
  DEF Spec

\* A flaky page never leads a pair: at most the last page of the book is flaky.
FlakyStandAlone == \A spread \in Spreads : ~Sticks(spread)

\* While flaky pages lead only alone, no placeholder is up with nothing on its
\* way, whatever fails and whatever enters the cache in between.
THEOREM PlaceholdersAreAwaited == FlakyStandAlone => (Spec => []LoadingHasResult)
<1> SUFFICES ASSUME FlakyStandAlone PROVE Spec => []LoadingHasResult
  OBVIOUS
<1>1. FlakyStandAlone
  OBVIOUS
<1>2. ~Sticks(NoTarget)
  BY DEF Sticks, NoTarget
<1>3. Inv /\ (LoadingHasResult \/ Sticks(controller.target)) => LoadingHasResult
  BY <1>1, <1>2 DEF FlakyStandAlone, Inv, TypeOK
<1> QED
  BY <1>3, InitInv, NextInv, OnlyFlakySpreadsStick, PTL DEF Spec
=============================================================================
