-------------------------- MODULE ThumbnailsProofs --------------------------
(***************************************************************************)
(* The thumbnail strip: for any books, pages, windows, cache limits and    *)
(* schedules, every page of a generation is decoded once, and a filled     *)
(* cell shows its own page of the open book as the file is now.            *)
(***************************************************************************)
EXTENDS Thumbnails, FiniteSetTheorems, SequenceTheorems, TLAPS

\* Epochs and flags move together, and only the last flag is not raised.
GenerationFits ==
  /\ flag = epoch /\ raised = 0 .. epoch - 1
  /\ epoch = 0 => current = NoGen
  /\ epoch > 0 => /\ current \in Generations /\ current.epoch = epoch /\ current.flag = epoch
                  /\ cells \in [Pages -> Cells]
                  /\ \A p \in Pages \ current.requested : cells[p] = Loading

\* What is under way for the live generation was requested from its book, and
\* its cell is not filled yet.
TaskFits(t) ==
  /\ t.flag = t.epoch /\ t.epoch \in 1 .. epoch
  /\ t.epoch = epoch => /\ t.book = current.book /\ t.listing = current.listing
                        /\ t.page \in current.requested /\ cells[t.page] = Loading

ClosureFits(c) ==
  /\ c.epoch \in 1 .. epoch
  /\ c.epoch = epoch => c.page \in current.requested /\ cells[c.page] = Loading

\* A page of the live generation has one task or one closure, never two.
UnderWayOnce ==
  /\ \A t, u \in tasks : t.epoch = epoch /\ u.epoch = epoch /\ t.page = u.page => t = u
  /\ \A c, d \in posted : c.epoch = epoch /\ d.epoch = epoch /\ c.page = d.page => c = d
  /\ \A t \in tasks, c \in posted : t.epoch = epoch /\ c.epoch = epoch => t.page # c.page

WorkInv ==
  /\ GenerationFits /\ UnderWayOnce
  /\ \A t \in tasks : TaskFits(t)
  /\ \A c \in posted : ClosureFits(c)

\* And when no file is replaced while it is read: the list of pages, the keys and
\* the images in cells, closures and cache are of the version they say.
Whole(book, page) ==
  [book |-> book, page |-> page, listing |-> version[book], version |-> version[book]]
Right(page, cell) == cell.state = "loaded" => cell.image = Whole(current.book, page)

Faithful(entry) ==
  entry.image = [book |-> entry.key[1], page |-> entry.key[3],
                 listing |-> entry.key[2], version |-> entry.key[2]]

ImageInv ==
  /\ epoch > 0 => /\ current.listing = version[current.book]
                  /\ \A p \in Pages : Right(p, cells[p])
                  /\ \A c \in posted : c.epoch = epoch => Right(c.page, c.cell)
  /\ \A t \in tasks : t.listing = version[t.book] /\ t.key \in {0, version[t.book]}
  /\ \A i \in DOMAIN disk : Faithful(disk[i])

-----------------------------------------------------------------------------
(* Filtering a sequence of entries. *)

Below(S, x) == {y \in S : y < x}

\* A smaller element has fewer below it.
LEMMA BelowIsStrict ==
  ASSUME NEW S \in SUBSET Nat, IsFiniteSet(S), NEW x \in S, NEW y \in S, x < y
  PROVE  Cardinality(Below(S, x)) < Cardinality(Below(S, y))
<1>1. /\ IsFiniteSet(Below(S, x)) /\ IsFiniteSet(Below(S, y))
  BY FS_Subset DEF Below
<1>2. x \notin Below(S, x)
  BY DEF Below
<1>3. Below(S, x) \cup {x} \subseteq Below(S, y)
  <2>1. x \in Nat /\ y \in Nat
    OBVIOUS
  <2>2. ASSUME NEW z \in Below(S, x) PROVE z \in S /\ z < y
    <3>1. z \in Nat /\ z < x
      BY DEF Below
    <3> QED
      BY <2>1, <3>1 DEF Below
  <2> QED
    BY <2>2 DEF Below
<1>4. /\ IsFiniteSet(Below(S, x) \cup {x})
      /\ Cardinality(Below(S, x) \cup {x}) = Cardinality(Below(S, x)) + 1
  BY <1>1, <1>2, FS_AddElement
<1>5. Cardinality(Below(S, x) \cup {x}) <= Cardinality(Below(S, y))
  BY <1>1, <1>3, FS_Subset
<1>6. Cardinality(Below(S, x)) \in Nat /\ Cardinality(Below(S, y)) \in Nat
  BY <1>1, FS_CardinalityType
<1> QED
  BY <1>4, <1>5, <1>6

LEMMA BelowIsInjective ==
  ASSUME NEW S \in SUBSET Nat, IsFiniteSet(S), NEW x \in S, NEW y \in S,
         Cardinality(Below(S, x)) = Cardinality(Below(S, y))
  PROVE  x = y
<1>1. x \in Nat /\ y \in Nat
  OBVIOUS
<1>2. \A z \in S : Cardinality(Below(S, z)) \in Nat
  BY FS_Subset, FS_CardinalityType DEF Below
<1>3. CASE x < y
  BY <1>2, <1>3, BelowIsStrict
<1>4. CASE y < x
  BY <1>2, <1>4, BelowIsStrict
<1> QED
  BY <1>1, <1>3, <1>4

\* Every position up to the size of the set is that of one element: counting
\* what is below it maps the set one to one into as many numbers.
LEMMA PositionIsTaken ==
  ASSUME NEW S \in SUBSET Nat, IsFiniteSet(S), NEW i \in 1 .. Cardinality(S)
  PROVE  \E x \in S : Cardinality(Below(S, x)) = i - 1
<1> DEFINE n == Cardinality(S)
           g == [x \in S |-> Cardinality(Below(S, x)) + 1]
<1>1. n \in Nat /\ IsFiniteSet(1 .. n) /\ Cardinality(1 .. n) = n
  BY FS_CardinalityType, FS_Interval
<1>2. ASSUME NEW x \in S
      PROVE  Cardinality(Below(S, x)) \in Nat /\ Cardinality(Below(S, x)) < n
  <2>1. IsFiniteSet(S \ {x}) /\ Cardinality(S \ {x}) = n - 1
    BY FS_RemoveElement
  <2>2. Below(S, x) \subseteq S \ {x}
    BY DEF Below
  <2>3. IsFiniteSet(Below(S, x)) /\ Cardinality(Below(S, x)) <= n - 1
    BY <2>1, <2>2, FS_Subset
  <2> QED
    BY <1>1, <2>3, FS_CardinalityType
<1>3. g \in [S -> 1 .. n]
  BY <1>1, <1>2
<1>4. IsInjective(g)
  <2> SUFFICES ASSUME NEW x \in S, NEW y \in S, g[x] = g[y]
               PROVE  x = y
    BY DEF IsInjective
  <2>1. Cardinality(Below(S, x)) = Cardinality(Below(S, y))
    BY <1>2
  <2> QED
    BY <2>1, BelowIsInjective
<1>5. g \in Injection(S, 1 .. n)
  <2> HIDE DEF g
  <2> QED
    BY <1>3, <1>4 DEF Injection
<1>6. g \in Surjection(S, 1 .. n)
  BY <1>1, <1>5, FS_Injection
<1>7. PICK x \in S : g[x] = i
  <2> HIDE DEF g
  <2> QED
    BY <1>6 DEF Surjection
<1> QED
  BY <1>2, <1>7

LEMMA KeptIn ==
  ASSUME NEW T, NEW entries \in Seq(T), NEW at \in SUBSET DOMAIN entries
  PROVE  /\ Kept(entries, at) \in Seq(T)
         /\ \A k \in DOMAIN Kept(entries, at) : \E i \in at : Kept(entries, at)[k] = entries[i]
<1> DEFINE n == Cardinality(at)
           place(k) == CHOOSE i \in at : Cardinality(Below(at, i)) = k - 1
<1>1. Len(entries) \in Nat /\ DOMAIN entries = 1 .. Len(entries)
  OBVIOUS
<1>2. IsFiniteSet(DOMAIN entries) /\ DOMAIN entries \subseteq Nat
  BY <1>1, FS_Interval
<1>3. IsFiniteSet(at) /\ at \in SUBSET Nat /\ n \in Nat
  BY <1>2, FS_Subset, FS_CardinalityType
<1>4. ASSUME NEW k \in 1 .. n
      PROVE  place(k) \in at
  <2>1. \E i \in at : Cardinality(Below(at, i)) = k - 1
    BY <1>3, PositionIsTaken
  <2> QED
    BY <2>1
<1>5. Kept(entries, at) = [k \in 1 .. n |-> entries[place(k)]]
  BY DEF Kept, Below
<1> HIDE DEF place, n
<1>6. \A k \in 1 .. n : entries[place(k)] \in T
  BY <1>1, <1>4
<1> QED
  BY <1>3, <1>4, <1>5, <1>6

LEMMA WithoutIn ==
  ASSUME NEW T, NEW entries \in Seq(T), NEW keys
  PROVE  /\ Without(entries, keys) \in Seq(T)
         /\ \A k \in DOMAIN Without(entries, keys) :
              \E i \in DOMAIN entries : Without(entries, keys)[k] = entries[i]
<1> DEFINE at == {i \in DOMAIN entries : entries[i].key \notin keys}
<1>1. Without(entries, keys) = Kept(entries, at) /\ at \in SUBSET DOMAIN entries
  BY DEF Without
<1> HIDE DEF at
<1>2. /\ Kept(entries, at) \in Seq(T)
      /\ \A k \in DOMAIN Kept(entries, at) : \E i \in at : Kept(entries, at)[k] = entries[i]
  BY <1>1, KeptIn
<1> QED
  BY <1>1, <1>2

\* What is written or touched is added to entries that were there.
LEMMA NewestIn ==
  ASSUME disk \in Seq(Entries), NEW key \in Keys, NEW image \in Images
  PROVE  /\ Newest(key, image) \in Seq(Entries)
         /\ \A k \in DOMAIN Newest(key, image) :
              \/ Newest(key, image)[k] = [key |-> key, image |-> image]
              \/ \E i \in DOMAIN disk : Newest(key, image)[k] = disk[i]
<1> DEFINE e == [key |-> key, image |-> image]
<1>1. PICK rest \in Seq(Entries) : /\ rest = Without(disk, {key})
                                  /\ \A k \in DOMAIN rest : \E i \in DOMAIN disk : rest[k] = disk[i]
  BY WithoutIn
<1>2. e \in Entries /\ Newest(key, image) = Append(rest, e)
  BY <1>1 DEF Newest, Entries
<1> HIDE DEF e
<1>3. /\ Append(rest, e) \in Seq(Entries)
      /\ \A k \in DOMAIN Append(rest, e) : Append(rest, e)[k] = e \/ (k \in DOMAIN rest /\ Append(rest, e)[k] = rest[k])
  BY <1>2
<1> QED
  BY <1>1, <1>2, <1>3 DEF e

LEMMA StoredIn ==
  ASSUME disk \in Seq(Entries), NEW key, Holds(key)
  PROVE  \E i \in DOMAIN disk : disk[i].key = key /\ Get(key) = disk[i].image /\ Get(key) \in Images
<1>1. \E i \in DOMAIN disk : disk[i].key = key
  BY DEF Holds
<1>2. PICK i \in DOMAIN disk : i = CHOOSE j \in DOMAIN disk : disk[j].key = key
  BY <1>1
<1>3. disk[i].key = key
  BY <1>1, <1>2
<1>4. disk[i] \in Entries
  OBVIOUS
<1> QED
  BY <1>2, <1>3, <1>4 DEF Get, Entries

-----------------------------------------------------------------------------
(* Requests, and one page on a worker. *)

\* Pages that were not requested before get one task each.
LEMMA RequestKeeps ==
  ASSUME TypeOK, WorkInv, NEW gen \in Generations, NEW pages, Request(gen, pages),
         gen.epoch \in Nat \ {0}, gen.flag = gen.epoch,
         cells' \in [Pages -> Cells], \A p \in Pages \ gen.requested : cells'[p] = Loading,
         epoch' = gen.epoch, flag' = epoch', raised' = 0 .. epoch' - 1,
         posted' = posted, version' = version, disk' = disk, sweep' = sweep,
         \/ epoch' = epoch /\ gen = current /\ cells' = cells
         \/ epoch' = epoch + 1
  PROVE  TypeOK' /\ WorkInv'
<1>1. PICK fresh : fresh = (pages \cap Pages) \ gen.requested
  OBVIOUS
<1>2. /\ current' = [gen EXCEPT !.requested = @ \cup fresh]
      /\ tasks' = tasks \cup {TaskFor(gen, p) : p \in fresh}
  BY <1>1 DEF Request, take_fresh
<1>3. fresh \subseteq Pages /\ fresh \cap gen.requested = {}
  BY <1>1
<1>4. /\ current' \in Generations /\ current'.epoch = gen.epoch /\ current'.flag = gen.epoch
      /\ current'.book = gen.book /\ current'.listing = gen.listing
      /\ current'.requested = gen.requested \cup fresh
  BY <1>2, <1>3 DEF Generations
<1>5. ASSUME NEW p \in fresh
      PROVE  /\ TaskFor(gen, p) \in Tasks /\ TaskFor(gen, p).page = p
             /\ TaskFor(gen, p).book = gen.book /\ TaskFor(gen, p).listing = gen.listing
             /\ TaskFor(gen, p).epoch = gen.epoch /\ TaskFor(gen, p).flag = gen.epoch
  BY <1>3, <1>5 DEF TaskFor, Tasks, Generations
<1>6. TypeOK'
  <2>1. tasks' \subseteq Tasks
    BY <1>2, <1>5 DEF TypeOK
  <2> QED
    BY <2>1, <1>4 DEF TypeOK
<1>7. GenerationFits'
  BY <1>3, <1>4 DEF GenerationFits
<1>8. epoch \in Nat /\ epoch' \in Nat
  BY DEF TypeOK
<1>9. ASSUME NEW t \in tasks
      PROVE  /\ t.flag = t.epoch /\ t.epoch \in 1 .. epoch'
             /\ t.epoch = epoch' => /\ epoch' = epoch /\ gen = current /\ cells' = cells
                                    /\ t.book = current.book /\ t.listing = current.listing
                                    /\ t.page \in current.requested /\ cells[t.page] = Loading
  BY <1>8, <1>9 DEF WorkInv, TaskFits
<1>10. ASSUME NEW c \in posted
       PROVE  /\ c.epoch \in 1 .. epoch'
              /\ c.epoch = epoch' => /\ epoch' = epoch /\ gen = current /\ cells' = cells
                                     /\ c.page \in current.requested /\ cells[c.page] = Loading
  BY <1>8, <1>10 DEF WorkInv, ClosureFits
<1>11. ASSUME NEW t \in tasks' PROVE TaskFits(t)'
  <2>1. CASE t \in tasks
    BY <1>4, <1>9, <2>1 DEF TaskFits
  <2>2. ASSUME NEW p \in fresh, t = TaskFor(gen, p) PROVE TaskFits(t)'
    BY <1>3, <1>4, <1>5, <1>8, <2>2 DEF TaskFits
  <2> QED
    BY <1>2, <2>1, <2>2
<1>12. \A c \in posted' : ClosureFits(c)'
  BY <1>4, <1>10 DEF ClosureFits
<1>13. UnderWayOnce'
  <2>1. ASSUME NEW t \in tasks', NEW u \in tasks', t.epoch = epoch', u.epoch = epoch', t.page = u.page
        PROVE  t = u
    <3>1. CASE t \in tasks /\ u \in tasks
      BY <1>9, <2>1, <3>1 DEF WorkInv, UnderWayOnce
    <3>2. ASSUME NEW v \in tasks, v.epoch = epoch', NEW p \in fresh PROVE v.page # p
      BY <1>3, <1>9, <3>2
    <3>3. CASE t \in tasks /\ u \notin tasks
      BY <1>2, <1>5, <2>1, <3>2, <3>3
    <3>4. CASE t \notin tasks /\ u \in tasks
      BY <1>2, <1>5, <2>1, <3>2, <3>4
    <3>5. CASE t \notin tasks /\ u \notin tasks
      BY <1>2, <1>5, <2>1, <3>5
    <3> QED
      BY <3>1, <3>3, <3>4, <3>5
  <2>2. \A c, d \in posted' : c.epoch = epoch' /\ d.epoch = epoch' /\ c.page = d.page => c = d
    BY <1>10 DEF WorkInv, UnderWayOnce
  <2>3. ASSUME NEW t \in tasks', NEW c \in posted', t.epoch = epoch', c.epoch = epoch'
        PROVE  t.page # c.page
    <3>1. CASE t \in tasks
      BY <1>9, <1>10, <2>3, <3>1 DEF WorkInv, UnderWayOnce
    <3>2. CASE t \notin tasks
      BY <1>2, <1>3, <1>5, <1>10, <2>3, <3>2
    <3> QED
      BY <3>1, <3>2
  <2> QED
    BY <2>1, <2>2, <2>3 DEF UnderWayOnce
<1> QED
  BY <1>6, <1>7, <1>11, <1>12, <1>13 DEF WorkInv

LEMMA VisibleKeepsWork ==
  ASSUME TypeOK, WorkInv, NEW x, NEW w, on_visible_range_changed(x, w)
  PROVE  TypeOK' /\ WorkInv'
<1>1. epoch \in Nat \ {0}
  BY DEF on_visible_range_changed, WorkInv, GenerationFits, TypeOK
<1>2. PICK pages : pages = visible_pages(x, w, PageCount)
  OBVIOUS
<1>3. Request(current, pages) /\ UNCHANGED <<version, epoch, flag, raised, cells, posted, disk, sweep>>
  BY <1>2 DEF on_visible_range_changed
<1>4. /\ current \in Generations /\ current.epoch = epoch /\ current.flag = epoch
      /\ cells \in [Pages -> Cells] /\ \A p \in Pages \ current.requested : cells[p] = Loading
      /\ flag = epoch /\ raised = 0 .. epoch - 1
  BY <1>1 DEF WorkInv, GenerationFits
<1> QED
  BY <1>1, <1>3, <1>4, RequestKeeps

LEMMA StartKeepsWork ==
  ASSUME TypeOK, WorkInv, NEW book \in Books, start(book)
  PROVE  TypeOK' /\ WorkInv'
<1>1. PICK gen : gen = [book |-> book, listing |-> version[book], epoch |-> epoch + 1,
                        flag |-> rotate_cancel, requested |-> {}]
  OBVIOUS
<1>2. PICK pages : pages = 0 .. MinOf(INITIAL_VISIBLE_PAGES, PageCount) - 1
  OBVIOUS
<1>3. /\ Request(gen, pages) /\ raised' = raised \cup {flag} /\ flag' = flag + 1
      /\ epoch' = epoch + 1 /\ cells' = [p \in Pages |-> Loading]
      /\ UNCHANGED <<version, posted, disk, sweep>>
  BY <1>1, <1>2 DEF start
<1>4. epoch \in Nat /\ flag = epoch /\ raised = 0 .. epoch - 1
  BY DEF TypeOK, WorkInv, GenerationFits
<1>5. gen \in Generations /\ gen.epoch = epoch + 1 /\ gen.flag = epoch + 1 /\ gen.requested = {}
  BY <1>1, <1>4 DEF Generations, rotate_cancel, TypeOK
<1>6. raised' = 0 .. epoch' - 1
  BY <1>3, <1>4
<1>7. cells' \in [Pages -> Cells] /\ \A p \in Pages : cells'[p] = Loading
  BY <1>3 DEF Cells, Loading, ThumbCell
<1> QED
  BY <1>3, <1>4, <1>5, <1>6, <1>7, RequestKeeps

\* A flag is raised exactly when its generation is over.
LEMMA CancelledIsStale ==
  ASSUME TypeOK, WorkInv, NEW task \in tasks
  PROVE  Cancelled(task) <=> task.epoch # epoch
<1>1. task.flag = task.epoch /\ task.epoch \in 1 .. epoch /\ epoch \in Nat /\ raised = 0 .. epoch - 1
  BY DEF WorkInv, TaskFits, GenerationFits, TypeOK
<1> QED
  BY <1>1 DEF Cancelled

LEMMA DropKeepsWork ==
  ASSUME TypeOK, WorkInv, NEW task \in tasks, Drop(task)
  PROVE  TypeOK' /\ WorkInv'
<1>1. /\ tasks' = tasks \ {task} /\ UNCHANGED <<version, posted, disk, sweep>>
      /\ epoch' = epoch /\ flag' = flag /\ raised' = raised /\ current' = current /\ cells' = cells
  BY DEF Drop, stripVars
<1>2. TypeOK'
  BY <1>1 DEF TypeOK
<1>3. GenerationFits' /\ UnderWayOnce'
  BY <1>1 DEF WorkInv, GenerationFits, UnderWayOnce
<1>4. \A t \in tasks' : TaskFits(t)'
  BY <1>1 DEF WorkInv, TaskFits
<1>5. \A c \in posted' : ClosureFits(c)'
  BY <1>1 DEF WorkInv, ClosureFits
<1> QED
  BY <1>2, <1>3, <1>4, <1>5 DEF WorkInv

LEMMA StatKeepsWork ==
  ASSUME TypeOK, WorkInv, NEW task \in tasks, Stat(task)
  PROVE  TypeOK' /\ WorkInv'
<1>1. PICK next : next = [task EXCEPT !.key = version[task.book]]
  OBVIOUS
<1>2. /\ tasks' = (tasks \ {task}) \cup {next} /\ UNCHANGED <<version, posted, disk, sweep>>
      /\ epoch' = epoch /\ flag' = flag /\ raised' = raised /\ current' = current /\ cells' = cells
  BY <1>1 DEF Stat, stripVars
<1>3. task \in Tasks /\ version \in [Books -> Versions]
  BY DEF TypeOK
<1>4. /\ next \in Tasks /\ next.book = task.book /\ next.listing = task.listing
      /\ next.epoch = task.epoch /\ next.flag = task.flag /\ next.page = task.page
  BY <1>1, <1>3 DEF Tasks
<1>5. TypeOK'
  BY <1>2, <1>4 DEF TypeOK
<1>6. GenerationFits'
  BY <1>2 DEF WorkInv, GenerationFits
<1>7. UnderWayOnce'
  <2>1. \A t, u \in tasks' : t.epoch = epoch' /\ u.epoch = epoch' /\ t.page = u.page => t = u
    BY <1>2, <1>4 DEF WorkInv, UnderWayOnce
  <2>2. \A c, d \in posted' : c.epoch = epoch' /\ d.epoch = epoch' /\ c.page = d.page => c = d
    BY <1>2 DEF WorkInv, UnderWayOnce
  <2>3. \A t \in tasks', c \in posted' : t.epoch = epoch' /\ c.epoch = epoch' => t.page # c.page
    BY <1>2, <1>4 DEF WorkInv, UnderWayOnce
  <2> QED
    BY <2>1, <2>2, <2>3 DEF UnderWayOnce
<1>8. \A t \in tasks' : TaskFits(t)'
  BY <1>2, <1>4 DEF WorkInv, TaskFits
<1>9. \A c \in posted' : ClosureFits(c)'
  BY <1>2 DEF WorkInv, ClosureFits
<1> QED
  BY <1>5, <1>6, <1>7, <1>8, <1>9 DEF WorkInv

\* A task that ends leaves its page to one closure, or to nobody when it is stale.
LEMMA FinishKeepsWork ==
  ASSUME TypeOK, WorkInv, NEW task \in tasks, NEW cell \in Cells, Finish(task, cell),
         disk' \in Seq(Entries)
  PROVE  TypeOK' /\ WorkInv'
<1>1. PICK closure : closure = [epoch |-> task.epoch, page |-> task.page, cell |-> cell]
  OBVIOUS
<1>2. /\ tasks' = tasks \ {task} /\ UNCHANGED <<version, sweep>>
      /\ epoch' = epoch /\ flag' = flag /\ raised' = raised /\ current' = current /\ cells' = cells
      /\ posted' = posted \/ (posted' = posted \cup {closure} /\ task.epoch = epoch)
  BY <1>1, CancelledIsStale DEF Finish, stripVars
<1>3. task \in Tasks /\ TaskFits(task)
  BY DEF TypeOK, WorkInv
<1>4. /\ closure \in Closures /\ closure.epoch = task.epoch /\ closure.page = task.page
  BY <1>1, <1>3 DEF Tasks, Closures
<1>5. TypeOK'
  BY <1>2, <1>4 DEF TypeOK
<1>6. GenerationFits'
  BY <1>2 DEF WorkInv, GenerationFits
<1>7. \A t \in tasks' : TaskFits(t)'
  BY <1>2 DEF WorkInv, TaskFits
<1>8. \A c \in posted' : ClosureFits(c)'
  BY <1>2, <1>3, <1>4 DEF WorkInv, ClosureFits, TaskFits
<1>9. UnderWayOnce'
  <2>1. \A t, u \in tasks' : t.epoch = epoch' /\ u.epoch = epoch' /\ t.page = u.page => t = u
    BY <1>2 DEF WorkInv, UnderWayOnce
  <2>2. \A c, d \in posted' : c.epoch = epoch' /\ d.epoch = epoch' /\ c.page = d.page => c = d
    BY <1>2, <1>4 DEF WorkInv, UnderWayOnce
  <2>3. \A t \in tasks', c \in posted' : t.epoch = epoch' /\ c.epoch = epoch' => t.page # c.page
    BY <1>2, <1>4 DEF WorkInv, UnderWayOnce
  <2> QED
    BY <2>1, <2>2, <2>3 DEF UnderWayOnce
<1> QED
  BY <1>5, <1>6, <1>7, <1>8, <1>9 DEF WorkInv

\* What a worker looks up: a key of the cache.
LEMMA KeyOfTask ==
  ASSUME TypeOK, NEW task \in tasks, task.key # 0
  PROVE  page_cache_key(task.book, task.key, task.page) \in Keys
<1>1. task.book \in Books /\ task.key \in Versions /\ task.page \in Pages
  BY DEF TypeOK, Tasks
<1> QED
  BY <1>1 DEF Keys

LEMMA LoadedCell ==
  ASSUME NEW image \in Images
  PROVE  /\ ThumbCell("loaded", image) \in Cells
         /\ ThumbCell("loaded", image).state = "loaded" /\ ThumbCell("loaded", image).image = image
  BY DEF ThumbCell, Cells

LEMMA HitKeepsWork ==
  ASSUME TypeOK, WorkInv, NEW task \in tasks, Hit(task)
  PROVE  TypeOK' /\ WorkInv'
<1>1. PICK key : key = page_cache_key(task.book, task.key, task.page)
  OBVIOUS
<1>2. /\ task.key # 0 /\ Holds(key) /\ disk' = Newest(key, Get(key))
      /\ Finish(task, ThumbCell("loaded", Get(key)))
  BY <1>1 DEF Hit
<1>3. key \in Keys /\ disk \in Seq(Entries)
  BY <1>1, <1>2, KeyOfTask DEF TypeOK
<1>4. Get(key) \in Images
  BY <1>2, <1>3, StoredIn
<1>5. disk' \in Seq(Entries)
  BY <1>2, <1>3, <1>4, NewestIn
<1> QED
  BY <1>2, <1>4, <1>5, LoadedCell, FinishKeepsWork

LEMMA MissKeepsWork ==
  ASSUME TypeOK, WorkInv, NEW task \in tasks, Miss(task)
  PROVE  TypeOK' /\ WorkInv'
<1>1. PICK key : key = page_cache_key(task.book, task.key, task.page)
  OBVIOUS
<1>2. PICK image : image = [book |-> task.book, page |-> task.page, listing |-> task.listing,
                            version |-> version[task.book]]
  OBVIOUS
<1>3. /\ task.key # 0
      /\ disk' = Newest(key, image) \/ disk' = disk
      /\ Finish(task, ThumbCell("loaded", image)) \/ Finish(task, Failed)
  BY <1>1, <1>2 DEF Miss
<1>4. key \in Keys /\ disk \in Seq(Entries) /\ task \in Tasks /\ version \in [Books -> Versions]
  BY <1>1, <1>3, KeyOfTask DEF TypeOK
<1>5. image \in Images
  BY <1>2, <1>4 DEF Images, Tasks
<1>6. disk' \in Seq(Entries)
  BY <1>3, <1>4, <1>5, NewestIn
<1>7. Failed \in Cells
  BY DEF Failed, ThumbCell, Cells
<1> QED
  BY <1>3, <1>5, <1>6, <1>7, LoadedCell, FinishKeepsWork

LEMMA DeliverKeepsWork ==
  ASSUME TypeOK, WorkInv, NEW closure \in posted, Deliver(closure)
  PROVE  TypeOK' /\ WorkInv'
<1>1. /\ posted' = posted \ {closure} /\ UNCHANGED <<version, tasks, disk, sweep>>
      /\ epoch' = epoch /\ flag' = flag /\ raised' = raised /\ current' = current
  BY DEF Deliver
<1>2. closure \in Closures /\ ClosureFits(closure) /\ epoch \in Nat
  BY DEF TypeOK, WorkInv
<1>3. CASE closure.epoch # epoch
  <2>1. cells' = cells
    BY <1>3 DEF Deliver
  <2>2. TypeOK'
    BY <1>1, <2>1 DEF TypeOK
  <2>3. GenerationFits' /\ UnderWayOnce'
    BY <1>1, <2>1 DEF WorkInv, GenerationFits, UnderWayOnce
  <2>4. \A t \in tasks' : TaskFits(t)'
    BY <1>1, <2>1 DEF WorkInv, TaskFits
  <2>5. \A c \in posted' : ClosureFits(c)'
    BY <1>1, <2>1 DEF WorkInv, ClosureFits
  <2> QED
    BY <2>2, <2>3, <2>4, <2>5 DEF WorkInv
<1>4. CASE closure.epoch = epoch
  <2>1. cells' = [cells EXCEPT ![closure.page] = closure.cell]
    BY <1>4 DEF Deliver
  <2>2. epoch > 0 /\ closure.page \in Pages /\ closure.cell \in Cells /\ closure.page \in current.requested
    BY <1>2, <1>4 DEF Closures, ClosureFits
  <2>3. cells \in [Pages -> Cells]
    BY <2>2 DEF WorkInv, GenerationFits
  <2>4. /\ cells' \in [Pages -> Cells]
        /\ \A p \in Pages : p # closure.page => cells'[p] = cells[p]
    BY <2>1, <2>2, <2>3
  <2>5. TypeOK'
    BY <1>1, <2>4 DEF TypeOK
  <2>6. GenerationFits'
    BY <1>1, <2>2, <2>4 DEF WorkInv, GenerationFits
  <2>7. UnderWayOnce'
    BY <1>1 DEF WorkInv, UnderWayOnce
  <2>8. ASSUME NEW t \in tasks' PROVE TaskFits(t)'
    <3>1. TaskFits(t) /\ t.page \in Pages
      BY <1>1, <2>8 DEF WorkInv, TypeOK, Tasks
    <3>2. t.epoch = epoch => t.page # closure.page
      BY <1>1, <1>4, <2>8 DEF WorkInv, UnderWayOnce
    <3> QED
      BY <1>1, <2>4, <3>1, <3>2 DEF TaskFits
  <2>9. ASSUME NEW c \in posted' PROVE ClosureFits(c)'
    <3>1. ClosureFits(c) /\ c.page \in Pages
      BY <1>1, <2>9 DEF WorkInv, TypeOK, Closures
    <3>2. c.epoch = epoch => c.page # closure.page
      BY <1>1, <1>4, <2>9 DEF WorkInv, UnderWayOnce
    <3> QED
      BY <1>1, <2>4, <3>1, <3>2 DEF ClosureFits
  <2> QED
    BY <2>5, <2>6, <2>7, <2>8, <2>9 DEF WorkInv
<1> QED
  BY <1>3, <1>4

\* The cache and the files change under the strip, and the strip does not.
LEMMA OutsideKeepsWork ==
  ASSUME TypeOK, WorkInv, UNCHANGED <<stripVars, tasks, posted>>,
         version' \in [Books -> Versions], disk' \in Seq(Entries),
         sweep' \in [victims : Seq(Entries), total : Nat]
  PROVE  TypeOK' /\ WorkInv'
<1>1. /\ epoch' = epoch /\ flag' = flag /\ raised' = raised /\ current' = current /\ cells' = cells
      /\ tasks' = tasks /\ posted' = posted
  BY DEF stripVars
<1>2. TypeOK'
  BY <1>1 DEF TypeOK
<1>3. GenerationFits' /\ UnderWayOnce'
  BY <1>1 DEF WorkInv, GenerationFits, UnderWayOnce
<1>4. \A t \in tasks' : TaskFits(t)'
  BY <1>1 DEF WorkInv, TaskFits
<1>5. \A c \in posted' : ClosureFits(c)'
  BY <1>1 DEF WorkInv, ClosureFits
<1> QED
  BY <1>2, <1>3, <1>4, <1>5 DEF WorkInv

LEMMA PurgeKeepsWork ==
  ASSUME TypeOK, WorkInv, NEW book \in Books, purge_pages_for(book)
  PROVE  TypeOK' /\ WorkInv'
<1>1. PICK keys : disk' = Without(disk, keys)
  BY DEF purge_pages_for
<1>2. disk' \in Seq(Entries)
  BY <1>1, WithoutIn DEF TypeOK
<1> QED
  BY <1>2, OutsideKeepsWork DEF purge_pages_for, TypeOK

LEMMA PruneKeepsWork ==
  ASSUME TypeOK, WorkInv, prune
  PROVE  TypeOK' /\ WorkInv'
<1>1. PICK key : key = Head(sweep.victims).key
  OBVIOUS
<1>2. /\ sweep.total > MaxEntries /\ sweep.victims # <<>>
      /\ UNCHANGED <<version, stripVars, tasks, posted>>
      /\ \/ /\ disk' = Without(disk, {key})
            /\ sweep' = [victims |-> Tail(sweep.victims), total |-> sweep.total - 1]
         \/ /\ disk' = disk
            /\ sweep' = [sweep EXCEPT !.victims = Tail(@)]
  BY <1>1 DEF prune
<1>3. /\ sweep.victims \in Seq(Entries) /\ sweep.total \in Nat /\ disk \in Seq(Entries)
      /\ sweep \in [victims : Seq(Entries), total : Nat] /\ version \in [Books -> Versions]
  BY DEF TypeOK
<1>4. Tail(sweep.victims) \in Seq(Entries) /\ sweep.total - 1 \in Nat
  <2>1. Tail(sweep.victims) \in Seq(Entries)
    <3>1. PICK victims \in Seq(Entries) : victims = sweep.victims /\ victims # << >>
      BY <1>2, <1>3
    <3> QED
      BY <3>1, HeadTailProperties
  <2>2. sweep.total \in Nat /\ MaxEntries \in Nat /\ sweep.total > MaxEntries
    BY <1>2, <1>3, CacheAssumption
  <2> QED
    BY <2>1, <2>2
<1>5. sweep' \in [victims : Seq(Entries), total : Nat]
  <2>1. PICK rest \in Seq(Entries), left \in Nat : rest = Tail(sweep.victims) /\ left = sweep.total - 1
    BY <1>4
  <2>2. \/ sweep' = [victims |-> rest, total |-> left]
        \/ sweep' = [sweep EXCEPT !.victims = rest]
    BY <1>2, <2>1
  <2> QED
    BY <1>3, <2>2
<1>6. disk' \in Seq(Entries)
  BY <1>2, <1>3, WithoutIn
<1> QED
  BY <1>2, <1>3, <1>5, <1>6, OutsideKeepsWork

LEMMA RestartKeepsWork ==
  ASSUME TypeOK, WorkInv, Restart
  PROVE  TypeOK' /\ WorkInv'
<1>1. /\ epoch' = 0 /\ flag' = 0 /\ raised' = {} /\ current' = NoGen /\ cells' = <<>>
      /\ tasks' = {} /\ posted' = {}
      /\ sweep' = [victims |-> disk, total |-> Len(disk)] /\ version' = version /\ disk' = disk
  BY DEF Restart
<1>2. TypeOK'
  BY <1>1 DEF TypeOK
<1> QED
  BY <1>1, <1>2 DEF WorkInv, GenerationFits, UnderWayOnce

LEMMA ReplaceKeepsWork ==
  ASSUME TypeOK, WorkInv, NEW book \in Books, Replace(book)
  PROVE  TypeOK' /\ WorkInv'
<1>1. version[book] + 1 \in Versions
  BY BoundsAssumption DEF Replace, TypeOK, Versions
<1>2. version' \in [Books -> Versions]
  BY <1>1 DEF Replace, TypeOK
<1> QED
  BY <1>2, OutsideKeepsWork DEF Replace, TypeOK

LEMMA InitWork == Init => TypeOK /\ WorkInv
<1> SUFFICES ASSUME Init PROVE TypeOK /\ WorkInv
  OBVIOUS
<1>1. TypeOK
  BY BoundsAssumption DEF Init, TypeOK, Versions
<1> QED
  BY <1>1 DEF Init, WorkInv, GenerationFits, UnderWayOnce

LEMMA NextWork == TypeOK /\ WorkInv /\ [Next]_vars => TypeOK' /\ WorkInv'
<1> SUFFICES ASSUME TypeOK, WorkInv, [Next]_vars PROVE TypeOK' /\ WorkInv'
  OBVIOUS
<1>1. ASSUME NEW task \in tasks, Worker(task) PROVE TypeOK' /\ WorkInv'
  BY <1>1, DropKeepsWork, StatKeepsWork, HitKeepsWork, MissKeepsWork DEF Worker
<1>2. CASE clear
  BY <1>2, OutsideKeepsWork DEF clear, TypeOK
<1>3. CASE \E b \in Rewritten : Replace(b)
  BY <1>3, ReplaceKeepsWork, BooksAssumption
<1>4. CASE UNCHANGED vars
  <2>1. UNCHANGED <<stripVars, tasks, posted>> /\ version' = version /\ disk' = disk /\ sweep' = sweep
    BY <1>4 DEF vars, stripVars
  <2> QED
    BY <2>1, OutsideKeepsWork DEF TypeOK
<1>5. CASE \E b \in Books : start(b)
  BY <1>5, StartKeepsWork
<1>6. CASE \E x \in FirstPixels, w \in Widths : on_visible_range_changed(x, w)
  BY <1>6, VisibleKeepsWork
<1>7. CASE \E closure \in posted : Deliver(closure)
  BY <1>7, DeliverKeepsWork
<1>8. CASE \E b \in Books : purge_pages_for(b)
  BY <1>8, PurgeKeepsWork
<1>9. CASE prune
  BY <1>9, PruneKeepsWork
<1>10. CASE Restart
  BY <1>10, RestartKeepsWork
<1> QED
  BY <1>1, <1>2, <1>3, <1>4, <1>5, <1>6, <1>7, <1>8, <1>9, <1>10 DEF Next

\* Whatever is replaced on disk, nothing is under way for a cell that is filled.
THEOREM DecodesAreSingle == Spec => [](TypeOK /\ DecodedOnce)
<1>1. ASSUME TypeOK, WorkInv PROVE DecodedOnce
  BY <1>1 DEF WorkInv, TaskFits, ClosureFits, DecodedOnce
<1> QED
  BY <1>1, InitWork, NextWork, PTL DEF Spec

-----------------------------------------------------------------------------
(* The images, when no file is replaced while it is read. *)

LEMMA RequestKeepsImages ==
  ASSUME TypeOK, WorkInv, ImageInv, NEW gen \in Generations, NEW pages, Request(gen, pages),
         gen.listing = version[gen.book],
         posted' = posted, version' = version, disk' = disk,
         \A p \in Pages : Right(p, cells[p])',
         \A c \in posted : c.epoch = epoch' => Right(c.page, c.cell)'
  PROVE  ImageInv'
<1>1. PICK fresh : fresh = (pages \cap Pages) \ gen.requested
  OBVIOUS
<1>2. /\ current' = [gen EXCEPT !.requested = @ \cup fresh]
      /\ tasks' = tasks \cup {TaskFor(gen, p) : p \in fresh}
  BY <1>1 DEF Request, take_fresh
<1>3. current'.listing = version'[current'.book]
  BY <1>2 DEF Generations
<1>4. ASSUME NEW t \in tasks' PROVE t.listing = version'[t.book] /\ t.key \in {0, version'[t.book]}
  <2>1. CASE t \in tasks
    BY <2>1 DEF ImageInv
  <2>2. ASSUME NEW p \in fresh, t = TaskFor(gen, p) PROVE t.listing = version'[t.book] /\ t.key = 0
    BY <2>2 DEF TaskFor
  <2> QED
    BY <1>2, <2>1, <2>2
<1>5. \A i \in DOMAIN disk' : Faithful(disk'[i])
  BY DEF ImageInv
<1> QED
  BY <1>3, <1>4, <1>5 DEF ImageInv

LEMMA VisibleKeepsImages ==
  ASSUME TypeOK, WorkInv, ImageInv, NEW x, NEW w, on_visible_range_changed(x, w)
  PROVE  ImageInv'
<1>1. PICK pages : pages = visible_pages(x, w, PageCount)
  OBVIOUS
<1>2. Request(current, pages) /\ UNCHANGED <<version, epoch, flag, raised, cells, posted, disk, sweep>>
  BY <1>1 DEF on_visible_range_changed
<1>3. epoch > 0 /\ current \in Generations /\ current.listing = version[current.book]
  BY DEF on_visible_range_changed, WorkInv, GenerationFits, TypeOK, ImageInv
<1>4. current'.book = current.book
  BY <1>2, <1>3 DEF Request, take_fresh, Generations
<1>5. \A p \in Pages : Right(p, cells[p])'
  BY <1>2, <1>3, <1>4 DEF ImageInv, Right, Whole
<1>6. \A c \in posted : c.epoch = epoch' => Right(c.page, c.cell)'
  BY <1>2, <1>3, <1>4 DEF ImageInv, Right, Whole
<1> QED
  BY <1>2, <1>3, <1>5, <1>6, RequestKeepsImages

LEMMA StartKeepsImages ==
  ASSUME TypeOK, WorkInv, ImageInv, NEW book \in Books, start(book)
  PROVE  ImageInv'
<1>1. PICK gen : gen = [book |-> book, listing |-> version[book], epoch |-> epoch + 1,
                        flag |-> rotate_cancel, requested |-> {}]
  OBVIOUS
<1>2. PICK pages : pages = 0 .. MinOf(INITIAL_VISIBLE_PAGES, PageCount) - 1
  OBVIOUS
<1>3. /\ Request(gen, pages) /\ epoch' = epoch + 1 /\ cells' = [p \in Pages |-> Loading]
      /\ UNCHANGED <<version, posted, disk, sweep>>
  BY <1>1, <1>2 DEF start
<1>4. epoch \in Nat /\ flag = epoch
  BY DEF TypeOK, WorkInv, GenerationFits
<1>5. gen \in Generations /\ gen.listing = version[gen.book]
  BY <1>1, <1>4 DEF Generations, rotate_cancel, TypeOK
<1>6. \A p \in Pages : Right(p, cells[p])'
  BY <1>3 DEF Right, Loading, ThumbCell
<1>7. \A c \in posted : c.epoch # epoch'
  BY <1>3, <1>4 DEF WorkInv, ClosureFits
<1> QED
  BY <1>3, <1>5, <1>6, <1>7, RequestKeepsImages

\* Fewer tasks, and the rest as it was or in entries that were there.
LEMMA LessKeepsImages ==
  ASSUME ImageInv, UNCHANGED <<version, stripVars, posted>>, tasks' \subseteq tasks,
         \A k \in DOMAIN disk' : \E i \in DOMAIN disk : disk'[k] = disk[i]
  PROVE  ImageInv'
<1>1. /\ epoch' = epoch /\ current' = current /\ cells' = cells
      /\ version' = version /\ posted' = posted
  BY DEF stripVars
<1>2. \A i \in DOMAIN disk' : Faithful(disk'[i])
  BY DEF ImageInv
<1> QED
  BY <1>1, <1>2 DEF ImageInv, Right, Whole

LEMMA StatKeepsImages ==
  ASSUME TypeOK, ImageInv, NEW task \in tasks, Stat(task)
  PROVE  ImageInv'
<1>1. PICK next : next = [task EXCEPT !.key = version[task.book]]
  OBVIOUS
<1>2. /\ tasks' = (tasks \ {task}) \cup {next} /\ UNCHANGED <<version, posted, disk>>
      /\ epoch' = epoch /\ current' = current /\ cells' = cells
  BY <1>1 DEF Stat, stripVars
<1>3. next.book = task.book /\ next.listing = task.listing /\ next.key = version[task.book]
  BY <1>1 DEF TypeOK, Tasks
<1>4. \A t \in tasks' : t.listing = version'[t.book] /\ t.key \in {0, version'[t.book]}
  BY <1>2, <1>3 DEF ImageInv
<1> QED
  BY <1>2, <1>4 DEF ImageInv, Right, Whole

\* A closure made of a page's own image, and of a cache of faithful images.
LEMMA FinishKeepsImages ==
  ASSUME TypeOK, WorkInv, ImageInv, NEW task \in tasks, NEW cell, Finish(task, cell),
         cell.state = "loaded" => cell.image = Whole(task.book, task.page),
         \A i \in DOMAIN disk' : Faithful(disk'[i])
  PROVE  ImageInv'
<1>1. PICK closure : closure = [epoch |-> task.epoch, page |-> task.page, cell |-> cell]
  OBVIOUS
<1>2. /\ tasks' = tasks \ {task} /\ version' = version
      /\ epoch' = epoch /\ current' = current /\ cells' = cells
      /\ posted' = posted \/ (posted' = posted \cup {closure} /\ task.epoch = epoch)
  BY <1>1, CancelledIsStale DEF Finish, stripVars
<1>3. task.epoch = epoch => task.book = current.book
  BY DEF WorkInv, TaskFits
<1>4. task.epoch = epoch => Right(closure.page, closure.cell)
  BY <1>1, <1>3 DEF Right
<1>5. ASSUME NEW c \in posted', c.epoch = epoch', epoch > 0 PROVE Right(c.page, c.cell)
  BY <1>2, <1>4, <1>5 DEF ImageInv
<1>6. \A c \in posted' : c.epoch = epoch' /\ epoch' > 0 => Right(c.page, c.cell)'
  BY <1>2, <1>5 DEF Right, Whole
<1> QED
  BY <1>2, <1>6 DEF ImageInv, Right, Whole

\* The image a key stands for.
LEMMA KeyedImage ==
  ASSUME NEW book, NEW mtime, NEW page, NEW entry,
         entry.key = page_cache_key(book, mtime, page)
  PROVE  Faithful(entry) <=>
           entry.image = [book |-> book, page |-> page, listing |-> mtime, version |-> mtime]
<1>1. entry.key[1] = book /\ entry.key[2] = mtime /\ entry.key[3] = page
  BY DEF page_cache_key
<1> QED
  BY <1>1 DEF Faithful

LEMMA HitKeepsImages ==
  ASSUME TypeOK, WorkInv, ImageInv, NEW task \in tasks, Hit(task)
  PROVE  ImageInv'
<1>1. PICK key : key = page_cache_key(task.book, task.key, task.page)
  OBVIOUS
<1>2. /\ task.key # 0 /\ Holds(key) /\ disk' = Newest(key, Get(key))
      /\ Finish(task, ThumbCell("loaded", Get(key)))
  BY <1>1 DEF Hit
<1>3. key \in Keys /\ disk \in Seq(Entries)
  BY <1>1, <1>2, KeyOfTask DEF TypeOK
<1>4. PICK i \in DOMAIN disk : disk[i].key = key /\ Get(key) = disk[i].image /\ Get(key) \in Images
  BY <1>2, <1>3, StoredIn
<1>5. task.key = version[task.book] /\ Faithful(disk[i])
  BY <1>2 DEF ImageInv
<1>6. Get(key) = [book |-> task.book, page |-> task.page, listing |-> task.key, version |-> task.key]
  BY <1>1, <1>4, <1>5, KeyedImage
<1>7. PICK entry : entry = [key |-> key, image |-> Get(key)]
  OBVIOUS
<1>8. Faithful(entry)
  BY <1>1, <1>6, <1>7, KeyedImage
<1>9. \A k \in DOMAIN disk' : Faithful(disk'[k])
  BY <1>2, <1>3, <1>4, <1>7, <1>8, NewestIn DEF ImageInv
<1>10. Get(key) = Whole(task.book, task.page)
  BY <1>5, <1>6 DEF Whole
<1> QED
  BY <1>2, <1>4, <1>9, <1>10, LoadedCell, FinishKeepsImages

LEMMA MissKeepsImages ==
  ASSUME TypeOK, WorkInv, ImageInv, NEW task \in tasks, Miss(task)
  PROVE  ImageInv'
<1>1. PICK key : key = page_cache_key(task.book, task.key, task.page)
  OBVIOUS
<1>2. PICK image : image = [book |-> task.book, page |-> task.page, listing |-> task.listing,
                            version |-> version[task.book]]
  OBVIOUS
<1>3. /\ task.key # 0
      /\ disk' = Newest(key, image) \/ disk' = disk
      /\ Finish(task, ThumbCell("loaded", image)) \/ Finish(task, Failed)
  BY <1>1, <1>2 DEF Miss
<1>4. key \in Keys /\ disk \in Seq(Entries) /\ task \in Tasks /\ version \in [Books -> Versions]
  BY <1>1, <1>3, KeyOfTask DEF TypeOK
<1>5. image \in Images
  BY <1>2, <1>4 DEF Images, Tasks
<1>6. task.key = version[task.book] /\ task.listing = version[task.book]
  BY <1>3 DEF ImageInv
<1>7. image = Whole(task.book, task.page)
  BY <1>2, <1>6 DEF Whole
<1>8. PICK entry : entry = [key |-> key, image |-> image]
  OBVIOUS
<1>9. Faithful(entry)
  BY <1>1, <1>2, <1>6, <1>8, KeyedImage
<1>10. \A k \in DOMAIN disk' : Faithful(disk'[k])
  BY <1>3, <1>4, <1>5, <1>8, <1>9, NewestIn DEF ImageInv
<1>11. Failed.state # "loaded"
  BY DEF Failed, ThumbCell
<1> QED
  BY <1>3, <1>5, <1>7, <1>10, <1>11, LoadedCell, FinishKeepsImages

LEMMA DeliverKeepsImages ==
  ASSUME TypeOK, WorkInv, ImageInv, NEW closure \in posted, Deliver(closure)
  PROVE  ImageInv'
<1>1. /\ posted' = posted \ {closure} /\ UNCHANGED <<version, tasks, disk>>
      /\ epoch' = epoch /\ current' = current
  BY DEF Deliver
<1>2. ASSUME epoch > 0, NEW p \in Pages PROVE Right(p, cells'[p])
  <2>1. cells \in [Pages -> Cells] /\ Right(p, cells[p])
    BY <1>2 DEF WorkInv, GenerationFits, ImageInv
  <2>2. closure.epoch = epoch => Right(closure.page, closure.cell)
    BY <1>2 DEF ImageInv
  <2> QED
    BY <2>1, <2>2 DEF Deliver
<1>3. epoch' > 0 => \A p \in Pages : Right(p, cells[p])'
  BY <1>1, <1>2 DEF Right, Whole
<1> QED
  BY <1>1, <1>3 DEF ImageInv, Right, Whole

LEMMA ReplaceKeepsImages ==
  ASSUME TypeOK, WorkInv, ImageInv, ~ReplaceOpenBooks, NEW book \in Books, Replace(book)
  PROVE  ImageInv'
<1>1. /\ version' = [version EXCEPT ![book] = @ + 1]
      /\ current.book # book /\ \A t \in tasks : t.book # book
      /\ epoch' = epoch /\ current' = current /\ cells' = cells
      /\ tasks' = tasks /\ posted' = posted /\ disk' = disk
  BY DEF Replace, Reading, stripVars
<1>2. version \in [Books -> Versions] /\ tasks \subseteq Tasks
  BY DEF TypeOK
<1>3. \A t \in tasks : version'[t.book] = version[t.book]
  BY <1>1, <1>2 DEF Tasks
<1>4. epoch > 0 => version'[current.book] = version[current.book]
  BY <1>1, <1>2 DEF WorkInv, GenerationFits, Generations
<1>5. epoch > 0 => \A p \in Pages : Right(p, cells[p])'
  BY <1>1, <1>4 DEF ImageInv, Right, Whole
<1>6. epoch > 0 => \A c \in posted : c.epoch = epoch => Right(c.page, c.cell)'
  BY <1>1, <1>4 DEF ImageInv, Right, Whole
<1>7. \A t \in tasks' : t.listing = version'[t.book] /\ t.key \in {0, version'[t.book]}
  BY <1>1, <1>3 DEF ImageInv
<1> QED
  BY <1>1, <1>4, <1>5, <1>6, <1>7 DEF ImageInv

LEMMA NextImages ==
  TypeOK /\ WorkInv /\ ImageInv /\ ~ReplaceOpenBooks /\ [Next]_vars => ImageInv'
<1> SUFFICES ASSUME TypeOK, WorkInv, ImageInv, ~ReplaceOpenBooks, [Next]_vars PROVE ImageInv'
  OBVIOUS
<1>1. CASE \E b \in Books : start(b)
  BY <1>1, StartKeepsImages
<1>2. CASE \E x \in FirstPixels, w \in Widths : on_visible_range_changed(x, w)
  BY <1>2, VisibleKeepsImages
<1>3. ASSUME NEW task \in tasks, Worker(task) PROVE ImageInv'
  <2>1. CASE Drop(task)
    BY <2>1, LessKeepsImages DEF Drop
  <2> QED
    BY <1>3, <2>1, StatKeepsImages, HitKeepsImages, MissKeepsImages DEF Worker
<1>4. CASE \E closure \in posted : Deliver(closure)
  BY <1>4, DeliverKeepsImages
<1>5. ASSUME NEW b \in Books, purge_pages_for(b) PROVE ImageInv'
  <2>1. PICK keys : disk' = Without(disk, keys)
    BY <1>5 DEF purge_pages_for
  <2>2. \A k \in DOMAIN disk' : \E i \in DOMAIN disk : disk'[k] = disk[i]
    BY <2>1, WithoutIn DEF TypeOK
  <2> QED
    BY <1>5, <2>2, LessKeepsImages DEF purge_pages_for
<1>6. CASE clear
  BY <1>6, LessKeepsImages DEF clear
<1>7. CASE prune
  <2>1. \E keys : disk' = Without(disk, keys) \/ disk' = disk
    BY <1>7 DEF prune
  <2>2. \A k \in DOMAIN disk' : \E i \in DOMAIN disk : disk'[k] = disk[i]
    BY <2>1, WithoutIn DEF TypeOK
  <2> QED
    BY <1>7, <2>2, LessKeepsImages DEF prune
<1>8. CASE Restart
  BY <1>8 DEF Restart, ImageInv
<1>9. CASE \E b \in Rewritten : Replace(b)
  BY <1>9, ReplaceKeepsImages, BooksAssumption
<1>10. CASE UNCHANGED vars
  <2>1. UNCHANGED <<version, stripVars, posted>> /\ tasks' = tasks /\ disk' = disk
    BY <1>10 DEF vars, stripVars
  <2> QED
    BY <2>1, LessKeepsImages
<1> QED
  BY <1>1, <1>2, <1>3, <1>4, <1>5, <1>6, <1>7, <1>8, <1>9, <1>10 DEF Next

\* A filled cell shows its page, of the book that is open, as the file is now.
\* The hypothesis is needed: a file replaced while it is read has its new bytes
\* shown, and stored, under the pages of the old list.
THEOREM CellsAreRight == ~ReplaceOpenBooks => (Spec => []CellsShowTheirPage)
<1> SUFFICES ASSUME ~ReplaceOpenBooks PROVE Spec => []CellsShowTheirPage
  OBVIOUS
<1>1. Init => ImageInv
  BY DEF Init, ImageInv
<1>2. TypeOK /\ WorkInv /\ ImageInv /\ [Next]_vars => ImageInv'
  BY NextImages
<1>3. ASSUME TypeOK, WorkInv, ImageInv PROVE CellsShowTheirPage
  BY <1>3 DEF TypeOK, WorkInv, GenerationFits, ImageInv, Right, Whole, CellsShowTheirPage
<1> QED
  BY InitWork, NextWork, <1>1, <1>2, <1>3, PTL DEF Spec
=============================================================================
