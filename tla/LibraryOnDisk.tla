--------------------------- MODULE LibraryOnDisk ---------------------------
(***************************************************************************)
(* library.json and the library the program holds: every handler that      *)
(* changes the shelf and saves it, saves that fail, a process or a machine *)
(* that dies between two steps of a save, the recovery at the next start,  *)
(* and files that move under the spellings the shelf stores.  One handler  *)
(* runs to the end of its save before the next one starts (UI thread).     *)
(***************************************************************************)
EXTENDS Library, FiniteSets

CONSTANTS
  Unreadable, Absent, Torn, NoTemp,
  MaxFaults,            \* bound on failed saves, failed or missed directory syncs
                        \* and damaged files
  QuarantineMayFail     \* whether renaming an unreadable file aside may fail

ASSUME FaultAssumption == MaxFaults \in Nat /\ QuarantineMayFail \in BOOLEAN

\* What a file may show can be told apart, and a shelf holds finitely many paths.
ASSUME ContentsAssumption ==
  /\ IsFiniteSet(Paths)
  /\ Unreadable \cap Libraries = {}
  /\ Absent \notin Libraries \cup Unreadable
  /\ NoTemp \notin Libraries \cup [doc : Libraries, stage : {"written", "synced", "renamed"}]

VARIABLES
  main, flushed, older, temp, aside,
  library,      \* the Library in memory
  running,      \* whether the program runs
  canon,        \* canonical_identity of every spelling, as the files are now
  undo,         \* what a failed save of a removal puts back
  faults

Store == INSTANCE DocumentStore WITH Documents <- Libraries

disk == <<main, flushed, older, temp, aside>>
vars == <<disk, library, running, canon, undo, faults>>

NoUndo == [books |-> [p \in {} |-> 0], last |-> NoPath]

\* The orders the titles of the shelf may give its paths.
BookOrders ==
  {r \in [Paths -> 1 .. Cardinality(Paths)] : \A p, q \in Paths : r[p] = r[q] => p = q}

\* A canonical path is its own canonical form.
Resolutions == {c \in [Paths -> Paths] : \A p \in Paths : c[c[p]] = c[p]}

TypeOK ==
  /\ library \in Libraries
  /\ \A content \in {main} \cup older :
       content \in Unreadable \cup {Absent} \/ content \in Libraries
  /\ temp = NoTemp \/ temp.doc = library
  /\ running \in BOOLEAN
  /\ canon \in Resolutions
  /\ undo \in Libraries
  /\ faults \in 0 .. MaxFaults

Init ==
  /\ Store!StoreInit(Absent)
  /\ library = EmptyLibrary
  /\ running = TRUE
  /\ canon \in Resolutions
  /\ undo = NoUndo
  /\ faults = 0

Fault == faults < MaxFaults /\ faults' = faults + 1

-----------------------------------------------------------------------------
(* Handlers. *)

Ready == running /\ Store!Idle
Quiet == UNCHANGED <<running, canon, faults>>

\* A handler stores a changed library and saves it.
Saving(lib) ==
  /\ Ready
  /\ library' = lib
  /\ Store!WriteTemp(lib)
  /\ undo' = NoUndo
  /\ Quiet

\* apply_outcomes_and_save: identities are taken when the batch is applied,
\* the probed count goes to the added books only, nothing added is not saved.
AddBooks(batch, n) ==
  LET canonicals == {canon[p] : p \in batch}
      added == canonicals \ Shelf(library)
      books == add_many(library, canonicals).books
  IN  /\ added # {}
      /\ Saving([library EXCEPT !.books = [p \in DOMAIN books |->
                   IF p \in added THEN [books[p] EXCEPT !.count = n] ELSE books[p]]])

\* register_and_resume; the identity was captured by the probe and may be stale.
OpenBook(captured, n) == Saving(register_opened(library, captured, n))

\* A leave point writes the open book's position back.
LeavePoint(p, page) == p \in Shelf(library) /\ Saving(set_resume_page(library, p, page))

\* PageCountPrefetch::apply saves when a resolved count changed something.
CountResolved(p, n) ==
  /\ set_page_count(library, p, n) # library
  /\ Saving(set_page_count(library, p, n))

\* remove_books_with_rollback keeps clones of what it removes, and the bookmark.
RemoveBooks(paths) ==
  /\ Ready
  /\ paths # {} /\ paths \subseteq Shelf(library)
  /\ library' = remove_many(library, paths)
  /\ Store!WriteTemp(library')
  /\ undo' = [books |-> [p \in paths |-> library.books[p]], last |-> library.last]
  /\ Quiet

\* An empty book found by a cover worker or an open: no rollback.
RemoveEmptyBook(p) ==
  /\ p \in Shelf(library)
  /\ Saving(remove_many(library, {p}))

ClearHistory == library # EmptyLibrary /\ Saving(EmptyLibrary)

\* The steps of the save that the running handler waits for.
ContinueSave ==
  /\ running
  /\ Store!SyncTemp \/ Store!PersistTemp \/ Store!SyncDirectory(TRUE)
  /\ UNCHANGED <<library, running, canon, undo, faults>>

DirectorySyncFails ==
  /\ running /\ Fault
  /\ Store!SyncDirectory(FALSE)
  /\ UNCHANGED <<library, running, canon, undo>>

\* The caller sees the error; a removal puts its books and bookmark back.
SaveFails ==
  /\ running /\ Fault
  /\ Store!FailSave
  /\ library' = restore(library, undo.books, undo.last)
  /\ undo' = NoUndo
  /\ UNCHANGED <<running, canon>>

-----------------------------------------------------------------------------
(* The outside, and the next start. *)

Stopped == running' = FALSE /\ library' = EmptyLibrary /\ undo' = NoUndo

\* Bounded with the faults where it leaves a rename that no sync will cover.
Crash ==
  /\ running
  /\ Store!LoseProcess
  /\ IF older = {} \/ temp = NoTemp THEN UNCHANGED faults ELSE Fault
  /\ Stopped
  /\ UNCHANGED canon

PowerLoss == running /\ Store!LosePower /\ Stopped /\ UNCHANGED <<canon, faults>>

\* Files appear, disappear or move, links are retargeted.
FilesMove(c) ==
  /\ c # canon
  /\ canon' = c
  /\ UNCHANGED <<disk, library, running, undo, faults>>

Damage(content) ==
  /\ ~running /\ Fault
  /\ Store!Replace(content)
  /\ UNCHANGED <<library, running, canon, undo>>

\* main: load, or go on with an empty shelf; nothing is saved here.
Start ==
  /\ ~running
  /\ Store!Loadable
  /\ running' = TRUE
  /\ \E order \in BookOrders :
       library' = IF main = Absent THEN EmptyLibrary ELSE from_json(main, canon, order)
  /\ UNCHANGED <<disk, canon, undo, faults>>

\* quarantine_load_failure: a rename that fails is logged and the start goes on.
Outcomes == IF QuarantineMayFail THEN BOOLEAN ELSE {TRUE}

StartAfterDamage ==
  /\ ~running
  /\ \E ok \in Outcomes : Store!Quarantine(ok)
  /\ running' = TRUE
  /\ library' = EmptyLibrary
  /\ UNCHANGED <<canon, undo, faults>>

Next ==
  \/ \E batch \in (SUBSET Paths) \ {{}}, n \in PageCounts : AddBooks(batch, n)
  \/ \E p \in Paths, n \in PageCounts :
       OpenBook(p, n) \/ LeavePoint(p, n - 1) \/ CountResolved(p, n)
  \/ \E paths \in SUBSET Paths : RemoveBooks(paths)
  \/ \E p \in Paths : RemoveEmptyBook(p)
  \/ ClearHistory
  \/ ContinueSave
  \/ DirectorySyncFails
  \/ SaveFails
  \/ Crash
  \/ PowerLoss
  \/ \E c \in Resolutions : FilesMove(c)
  \/ \E content \in Unreadable : Damage(content)
  \/ Start
  \/ StartAfterDamage

Spec == Init /\ [][Next]_vars

-----------------------------------------------------------------------------
(* Properties. *)

\* library.rs, last_opened: "if Some, the path is present in books", in memory
\* and in every document a restart can find, after merges, rollbacks, failed
\* saves and crashes.
BookmarkOnShelf ==
  \A lib \in ({library, main} \cup older) \cap Libraries : lib.last \in Shelf(lib) \cup {NoPath}

\* write_atomic: whatever fails between two of its steps, a restart finds the
\* last acknowledged document or the one being saved, never a partial file.
Readable == {main} \cup older \cup IF temp = NoTemp THEN {} ELSE {temp.doc}
Durable == INSTANCE DurableDocument WITH
  Documents <- Libraries, Foreign <- Unreadable \cup {Absent}, Nothing <- NoTemp,
  readable <- Readable, pending <- IF temp = NoTemp THEN NoTemp ELSE temp.doc
SaveIsAtomic == Durable!Spec

\* The program never destroys a file it cannot read: it is renamed aside first.
\* Only the outside may replace one unreadable content by another.
UnreadableKept ==
  [][ (main \in Unreadable /\ main' # main) =>
        main \in aside' \/ \E content \in Unreadable : Damage(content) ]_vars

\* A file that lost pages since it was last read never resumes past its end,
\* whatever merge, rollback or failed save its record went through.
OpenedResumeInBook ==
  [][ \A p \in Paths, n \in PageCounts : OpenBook(p, n) =>
        library'.books[p].resume < library'.books[p].count ]_vars

\* Loading heals divergent spellings and loses nothing: one record per file,
\* the bookmark follows its book, and no book falls behind what any of its
\* records had read, up to the pages the survivor is known to have.
LoadHeals ==
  [][ Start /\ main # Absent =>
        /\ \A p, q \in Shelf(library') : canon[p] = canon[q] => p = q
        /\ library'.last = IF main.last = NoPath THEN NoPath ELSE canon[main.last]
        /\ \A p \in Shelf(main) :
             LET survivor == library'.books[canon[p]]
             IN  survivor.resume >= Clamped(main.books[p].resume, survivor.count)
    ]_vars

\* remove_books_with_rollback: from the removal to the end of its save, whatever
\* fails gives back the shelf as it was: every record whole, and the bookmark.
GivenBack == restore(library, undo.books, undo.last)
RemovalUndone ==
  [][ /\ \A paths \in SUBSET Paths : RemoveBooks(paths) => GivenBack' = library
      /\ ContinueSave \/ DirectorySyncFails => GivenBack' = GivenBack
      /\ SaveFails => library' = GivenBack ]_vars
=============================================================================
