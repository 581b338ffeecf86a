----------------------------- MODULE Thumbnails -----------------------------
(***************************************************************************)
(* The thumbnail strip (crates/gashuu/src/thumbnail_strip.rs): a           *)
(* generation per opened book, pages requested as they come near the       *)
(* visible window, one decode per requested page on the worker pool, and   *)
(* the closures that fill the cells.  Decoded pages go through the cache   *)
(* on disk (crates/gashuu-core/src/thumbnail_cache.rs), which outlives the *)
(* process, is swept in the background at every start, emptied from the    *)
(* settings and purged when a book is removed.  Book files are replaced    *)
(* behind the program's back.                                              *)
(***************************************************************************)
EXTENDS Integers, Sequences, FiniteSets, SequencesExt

CONSTANTS
  Books,              \* files that hold a book
  Rewritten,          \* files another program may write again
  PageCount,          \* pages of every book
  CellStride,         \* pixels from one cell to the next
  VISIBLE_MARGIN,
  INITIAL_VISIBLE_PAGES,
  FirstPixels,        \* scroll positions the strip reports
  Widths,             \* widths the strip reports
  MaxEntries,         \* CoverCachePolicy.max_bytes, counted in entries
  ReplaceOpenBooks,   \* whether a file may be replaced while it is being read
  MaxStored,          \* bound: entries in the cache directory
  MaxVersion,         \* bound: times a file was written
  MaxEpoch            \* bound: books opened in one run of the program

ASSUME BooksAssumption == IsFiniteSet(Books) /\ Rewritten \subseteq Books
ASSUME PagesAssumption == PageCount \in Nat \ {0}
ASSUME StripAssumption ==
  /\ CellStride \in Nat \ {0} /\ VISIBLE_MARGIN \in Nat /\ INITIAL_VISIBLE_PAGES \in Nat
  /\ FirstPixels \subseteq Int /\ Widths \subseteq Int
ASSUME CacheAssumption == MaxEntries \in Nat /\ ReplaceOpenBooks \in BOOLEAN
ASSUME BoundsAssumption ==
  MaxStored \in Nat /\ MaxVersion \in Nat \ {0} /\ MaxEpoch \in Nat

VARIABLES
  version,    \* what each file holds now; its modification time tells versions apart
  epoch,      \* the live generation
  flag,       \* the cancel flag installed last
  raised,     \* cancel flags that are set
  current,    \* StripGen of the open book, or NoGen
  cells,      \* the strip's model
  tasks,      \* pages on the decode workers
  posted,     \* closures waiting in the event loop
  disk,       \* the cache directory, least recently written or read first
  sweep       \* the startup sweep: entries it listed and has not tried, and their sum

stripVars == <<epoch, flag, raised, current, cells>>
vars == <<version, epoch, flag, raised, current, cells, tasks, posted, disk, sweep>>

Pages == 0 .. PageCount - 1
Versions == 1 .. MaxVersion
None == "none"
NoGen == [book |-> None, listing |-> 0, epoch |-> 0, flag |-> 0, requested |-> {}]

\* A thumbnail: of which book, taken through which list of pages, from which
\* version of the file.  listing = version when the file did not change between.
Images == [book : Books, page : Pages, listing : Versions, version : Versions]
NoImage == None
Cells == [state : {"loading", "failed"}, image : {NoImage}] \cup
         [state : {"loaded"}, image : Images]
ThumbCell(state, image) == [state |-> state, image |-> image]
Loading == ThumbCell("loading", NoImage)
Failed == ThumbCell("failed", NoImage)

Init ==
  /\ version = [b \in Books |-> 1]
  /\ epoch = 0 /\ flag = 0 /\ raised = {} /\ current = NoGen /\ cells = <<>>
  /\ tasks = {} /\ posted = {}
  /\ disk = <<>> /\ sweep = [victims |-> <<>>, total |-> 0]

-----------------------------------------------------------------------------
(* Which pages to decode. *)

MaxOf(a, b) == IF a >= b THEN a ELSE b
MinOf(a, b) == IF a <= b THEN a ELSE b
CeilDiv(a, b) == (a + b - 1) \div b

\* Cells lo .. hi - 1 cover the window and its margin, cut to the strip.
visible_pages(firstPixel, width, n) ==
  IF n = 0 \/ width <= 0 THEN {}
  ELSE LET first == MaxOf(firstPixel, 0)
           lo == MaxOf((first \div CellStride) - VISIBLE_MARGIN, 0)
           hi == MinOf(CeilDiv(first + width, CellStride) + VISIBLE_MARGIN, n)
       IN  lo .. hi - 1

\* A plausible slip: pages are filtered but never recorded as requested.
take_fresh_NotRecorded(gen, pages) ==
  [fresh |-> (pages \cap Pages) \ gen.requested, gen |-> gen]

\* The pages not yet requested in this generation, now requested.
take_fresh(gen, pages) ==
  LET fresh == (pages \cap Pages) \ gen.requested
  IN  [fresh |-> fresh, gen |-> [gen EXCEPT !.requested = @ \cup fresh]]

TaskFor(gen, page) ==
  [book |-> gen.book, listing |-> gen.listing, epoch |-> gen.epoch, flag |-> gen.flag,
   page |-> page, key |-> 0]

\* request_pages and spawn_decode: every fresh page becomes a task that carries
\* the generation's source, epoch and cancel flag.
Request(gen, pages) ==
  LET taken == take_fresh(gen, pages)
  IN  /\ current' = taken.gen
      /\ tasks' = tasks \cup
           {TaskFor(gen, p) : p \in taken.fresh}

on_visible_range_changed(firstPixel, width) ==
  /\ current # NoGen
  /\ Request(current, visible_pages(firstPixel, width, PageCount))
  /\ UNCHANGED <<version, epoch, flag, raised, cells, posted, disk, sweep>>

\* A plausible slip: the new generation is handed the flag that was just raised.
rotate_cancel_ReturnsOld == flag

\* The old flag is raised and a new one installed; the new one is returned.
rotate_cancel == flag + 1

\* ThumbnailController::start, for the book finalize_open has just opened.
start(book) ==
  /\ epoch < MaxEpoch
  /\ raised' = raised \cup {flag} /\ flag' = flag + 1
  /\ epoch' = epoch + 1
  /\ cells' = [p \in Pages |-> Loading]
  /\ Request([book |-> book, listing |-> version[book], epoch |-> epoch + 1,
              flag |-> rotate_cancel, requested |-> {}],
             0 .. MinOf(INITIAL_VISIBLE_PAGES, PageCount) - 1)
  /\ UNCHANGED <<version, posted, disk, sweep>>

-----------------------------------------------------------------------------
(* The cache on disk. *)

\* A plausible slip: the key leaves the modification time out.
page_cache_key_NoMtime(book, mtime, page) == <<book, page>>

page_cache_key(book, mtime, page) == <<book, mtime, page>>

Keys == {page_cache_key(b, v, p) : b \in Books, v \in Versions, p \in Pages}
Entries == [key : Keys, image : Images]

Holds(key) == \E i \in DOMAIN disk : disk[i].key = key
Get(key) == disk[CHOOSE i \in DOMAIN disk : disk[i].key = key].image
\* The entries at the given positions, in their order: entry k has k - 1 before it.
Kept(entries, at) ==
  [k \in 1 .. Cardinality(at) |->
    entries[CHOOSE i \in at : Cardinality({j \in at : j < i}) = k - 1]]
Without(entries, keys) == Kept(entries, {i \in DOMAIN entries : entries[i].key \notin keys})
\* get touches a hit and put writes a new file: either is now the newest entry.
Newest(key, image) == Append(Without(disk, {key}), [key |-> key, image |-> image])

\* purge_pages_for, after a bulk removal: the keys of the file as it is now.
\* The open book is removed like any other; the strip is not told.
purge_pages_for(book) ==
  /\ disk' = Without(disk, {page_cache_key(book, version[book], p) : p \in Pages})
  /\ UNCHANGED <<version, stripVars, tasks, posted, sweep>>

clear ==
  /\ disk # <<>>
  /\ disk' = <<>>
  /\ UNCHANGED <<version, stripVars, tasks, posted, sweep>>

\* prune: the directory was listed once, oldest first, and its size added up; the
\* oldest of that list are unlinked, even if used since, until the sum is within
\* the limit.  A failed unlink, of an entry that is gone for one, lowers no sum.
prune ==
  LET key == Head(sweep.victims).key
  IN  /\ sweep.total > MaxEntries /\ sweep.victims # <<>>
      /\ \/ /\ Holds(key)
            /\ disk' = Without(disk, {key})
            /\ sweep' = [victims |-> Tail(sweep.victims), total |-> sweep.total - 1]
         \/ /\ UNCHANGED disk
            /\ sweep' = [sweep EXCEPT !.victims = Tail(@)]
      /\ UNCHANGED <<version, stripVars, tasks, posted>>

\* The program ends, killing its workers, and starts again: the strip is empty
\* and spawn_cache_prune lists the directory.
Restart ==
  /\ epoch > 0
  /\ epoch' = 0 /\ flag' = 0 /\ raised' = {} /\ current' = NoGen /\ cells' = <<>>
  /\ tasks' = {} /\ posted' = {}
  /\ sweep' = [victims |-> disk, total |-> Len(disk)]
  /\ UNCHANGED <<version, disk>>

-----------------------------------------------------------------------------
(* One page on a worker. *)

Cancelled(task) == task.flag \in raised

\* Skip work for a superseded generation ...
Drop(task) ==
  /\ Cancelled(task)
  /\ tasks' = tasks \ {task}
  /\ UNCHANGED <<version, stripVars, posted, disk, sweep>>

\* ... or stat the book: the modification time goes into the key.
Stat(task) ==
  /\ task.key = 0
  /\ tasks' = (tasks \ {task}) \cup {[task EXCEPT !.key = version[task.book]]}
  /\ UNCHANGED <<version, stripVars, posted, disk, sweep>>

\* page_thumbnail: a hit is the stored image; a miss reads the page through the
\* list the source made when it was opened and stores it.  The second look at the
\* cancel flag comes after the store.
Finish(task, cell) ==
  /\ tasks' = tasks \ {task}
  /\ posted' = IF Cancelled(task) THEN posted
               ELSE posted \cup {[epoch |-> task.epoch, page |-> task.page, cell |-> cell]}
  /\ UNCHANGED <<version, stripVars, sweep>>

Hit(task) ==
  LET key == page_cache_key(task.book, task.key, task.page)
  IN  /\ task.key # 0 /\ Holds(key)
      /\ disk' = Newest(key, Get(key))
      /\ Finish(task, ThumbCell("loaded", Get(key)))

Miss(task) ==
  LET key == page_cache_key(task.book, task.key, task.page)
      image == [book |-> task.book, page |-> task.page, listing |-> task.listing,
                version |-> version[task.book]]
  IN  /\ task.key # 0 /\ ~Holds(key)
      /\ \/ /\ Len(disk) < MaxStored /\ disk' = Newest(key, image)
            /\ Finish(task, ThumbCell("loaded", image))
         \* the store failed: "best-effort", the image is shown all the same
         \/ UNCHANGED disk /\ Finish(task, ThumbCell("loaded", image))
         \/ UNCHANGED disk /\ Finish(task, Failed)

\* marshal_cell: the closure of a superseded generation does nothing.
Deliver(closure) ==
  /\ posted' = posted \ {closure}
  /\ cells' = IF closure.epoch = epoch THEN [cells EXCEPT ![closure.page] = closure.cell]
              ELSE cells
  /\ UNCHANGED <<version, epoch, flag, raised, current, tasks, disk, sweep>>

-----------------------------------------------------------------------------
(* The file is written again, by another program. *)

Reading(book) == current.book = book \/ \E t \in tasks : t.book = book

Replace(book) ==
  /\ version[book] < MaxVersion
  /\ ReplaceOpenBooks \/ ~Reading(book)
  /\ version' = [version EXCEPT ![book] = @ + 1]
  /\ UNCHANGED <<stripVars, tasks, posted, disk, sweep>>

Worker(task) == Drop(task) \/ Stat(task) \/ Hit(task) \/ Miss(task)
Work(page) == \E task \in tasks : task.page = page /\ task.epoch = epoch /\ Worker(task)
Fill(page) == \E closure \in posted : closure.page = page /\ closure.epoch = epoch /\ Deliver(closure)

Next ==
  \/ \E b \in Books : start(b)
  \/ \E x \in FirstPixels, w \in Widths : on_visible_range_changed(x, w)
  \/ \E task \in tasks : Worker(task)
  \/ \E closure \in posted : Deliver(closure)
  \/ \E b \in Books : purge_pages_for(b)
  \/ clear
  \/ prune
  \/ Restart
  \/ \E b \in Rewritten : Replace(b)

Spec == Init /\ [][Next]_vars

\* The pool gets to every page of a batch and the event loop to every closure.
LiveSpec == Spec /\ \A p \in Pages : WF_vars(Work(p)) /\ WF_vars(Fill(p))

-----------------------------------------------------------------------------
(* Properties. *)

Generations == [book : Books, listing : Versions, epoch : Nat, flag : Nat,
                requested : SUBSET Pages]
Tasks == [book : Books, listing : Versions, epoch : Nat, flag : Nat, page : Pages,
          key : Versions \cup {0}]
Closures == [epoch : Nat, page : Pages, cell : Cells]

TypeOK ==
  /\ version \in [Books -> Versions]
  /\ epoch \in Nat /\ flag \in Nat /\ raised \in SUBSET Nat
  /\ current = NoGen \/ current \in Generations
  /\ cells = <<>> \/ cells \in [Pages -> Cells]
  /\ tasks \subseteq Tasks /\ posted \subseteq Closures
  /\ disk \in Seq(Entries)
  /\ sweep \in [victims : Seq(Entries), total : Nat]

\* A filled cell shows its own page of the open book as the file is now: no late
\* decode of the book before, and no image stored before the file was replaced.
CellsShowTheirPage ==
  current # NoGen =>
    \A p \in Pages : cells[p].state = "loaded" =>
      cells[p].image = [book |-> current.book, page |-> p,
                        listing |-> version[current.book], version |-> version[current.book]]

\* spawn_decode: "a page is never decoded twice" in a generation, whatever
\* windows overlap: nothing is under way for a cell that is already filled.
DecodedOnce ==
  \A work \in tasks \cup posted :
    work.epoch = epoch /\ current # NoGen => cells[work.page] = Loading

\* The page of every cell that was asked for is shown or marked failed in the
\* end, however the batches, the cancel flags and the sweeps fall, unless another
\* book is opened or the program ends.
RequestedSettles ==
  \A p \in Pages :
    p \in current.requested ~> (p \notin current.requested \/ cells[p] # Loading)
=============================================================================
