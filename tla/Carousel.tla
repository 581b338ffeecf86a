------------------------------- MODULE Carousel -------------------------------
(***************************************************************************)
(* The library screen: the shelf, the search projection onto carousel rows *)
(* (library_model.rs), the bulk selection, the rows bound to the view      *)
(* (carousel.rs, carousel_refresh.rs) and the workers that stream covers   *)
(* and page counts into them (cover_loader.rs, page_count_prefetch.rs).    *)
(* Everything but the workers runs on the UI thread; opens, adds and the   *)
(* workers' closures land there at any moment.  What a file holds does not *)
(* change while the model runs, so a page count is known or not.           *)
(***************************************************************************)
EXTENDS Integers, FiniteSets, Sequences, SequencesExt

CONSTANTS
  Books,       \* books as numbers, in the shelf's natural order
  EmptyBooks,  \* those whose file has no page left
  Queries,     \* a search query is the set of books it matches
  MaxMoves     \* bound: how many opens, adds, queries, ... are made

ASSUME CarouselAssumption ==
  /\ Books \subseteq Nat \ {0} /\ IsFiniteSet(Books)
  /\ EmptyBooks \subseteq Books
  /\ Queries \subseteq SUBSET Books /\ Books \in Queries
  /\ MaxMoves \in Nat

NoBook == 0

VARIABLES
  shelf,      \* the books of Library
  counted,    \* those whose page_count is known
  search,     \* LibrarySearchState
  selection,  \* LibrarySelectionState, as books
  rows,       \* the bound carousel model
  focus,      \* carousel-focused-index, from 0
  screen,
  openBook,   \* ViewerState::open_file
  opening,    \* the open in flight, see OpenController
  epoch,      \* CoverController::epoch
  jobs,       \* the cover workers and what they have posted
  pending,    \* PageCountPrefetch::pending
  emptied,    \* an empty book was dropped since a query, a delete or a clear
  moves

shelfVars == <<shelf, counted, search, selection, emptied>>
viewVars == <<rows, focus, screen>>
openVars == <<openBook, opening>>
coverVars == <<epoch, jobs, pending>>
vars == <<shelfVars, viewVars, coverVars, openVars, moves>>

Everything == Books    \* the empty query

TypeOK ==
  /\ shelf \subseteq Books /\ counted \subseteq shelf
  /\ search \in [query : Queries, forced : SUBSET Books, visible : SUBSET (1 .. Cardinality(Books))]
  /\ selection \subseteq Books
  /\ rows \in Seq([book : Books, cover : {"loading", "loaded", "failed"},
                   art : Books \cup {NoBook}, total : BOOLEAN, selected : BOOLEAN])
  /\ focus \in 0 .. Cardinality(Books)
  /\ screen \in {"library", "viewer"}
  /\ openBook \in Books \cup {NoBook} /\ opening \in Books \cup {NoBook}
  /\ epoch \in Nat \ {0}
  /\ jobs \subseteq [epoch : 1 .. epoch, row : 1 .. Cardinality(Books), book : Books,
                     needs : BOOLEAN, stage : {"queued", "counting", "posted"},
                     found : {"nothing", "cover", "counted", "failed", "empty"}]
  /\ pending \subseteq Books
  /\ emptied \in BOOLEAN
  /\ moves \in 0 .. MaxMoves

-----------------------------------------------------------------------------
(* The projection of the shelf onto rows. *)

\* S in ascending order: the element at i has i - 1 smaller ones.
Ascending(S) == [i \in 1 .. Cardinality(S) |-> CHOOSE x \in S : Cardinality({y \in S : y < x}) = i - 1]

books(S) == Ascending(S)

\* matching_indices and recompute: the shelf positions of the visible books.
visible_of(S, query, forced) ==
  {i \in 1 .. Cardinality(S) : books(S)[i] \in query \cup forced}

recompute(S) == [search EXCEPT !.visible = visible_of(S, search.query, search.forced)]
set_query(S, q) == [query |-> q, forced |-> {}, visible |-> visible_of(S, q, {})]
force_visible(S, added) ==
  [search EXCEPT !.forced = @ \cup added,
                 !.visible = visible_of(S, search.query, search.forced \cup added)]

\* A position past the end of the shelf is skipped.
Projected(S, visible) ==
  LET at == Ascending(visible \cap 1 .. Cardinality(S))
  IN  [r \in DOMAIN at |-> books(S)[at[r]]]

\* visible_index_to_path, with rows counted from 1.
visible_index_to_path(r) ==
  LET shown == Projected(shelf, search.visible)
  IN  IF r \in DOMAIN shown THEN shown[r] ELSE NoBook

\* The row of a book that is visible, counted from 0; focus falls back to row 0.
visible_focus_index_for_path(S, visible, b) ==
  LET shown == Projected(S, visible)
      at == {r \in DOMAIN shown : shown[r] = b}
  IN  IF at = {} THEN 0 ELSE (CHOOSE r \in at : TRUE) - 1

to_carousel_item(b, known, chosen) ==
  [book |-> b, cover |-> "loading", art |-> NoBook, total |-> b \in known, selected |-> b \in chosen]

\* A plausible slip: only rows that lack a count are asked for.
cover_requests_NeedsOnly(shown, known, e) ==
  {[epoch |-> e, row |-> r, book |-> shown[r], needs |-> shown[r] \notin known,
    stage |-> "queued", found |-> "nothing"] : r \in {r \in DOMAIN shown : shown[r] \notin known}}

cover_requests(shown, known, e) ==
  {[epoch |-> e, row |-> r, book |-> shown[r], needs |-> shown[r] \notin known,
    stage |-> "queued", found |-> "nothing"] : r \in DOMAIN shown}

\* A plausible slip: the rebuilt rows start unselected and stay so.
refresh_library_carousel_NoFlags(known, left) ==
  LET shown == Projected(shelf', search'.visible) IN
  /\ rows' = [r \in DOMAIN shown |-> to_carousel_item(shown[r], known, {})]
  /\ counted' = known \cup (pending \cap shelf')
  /\ pending' = {}
  /\ epoch' = epoch + 1
  /\ jobs' = {job \in left : job.stage # "queued"} \cup cover_requests(shown, known, epoch + 1)

\* Rows and requests are built first, from the counts `known` then; the start of
\* a generation applies the resolved counts and dispatches one worker per row.
\* Of the older workers `left`, the cancel flag stops those that have read nothing;
\* the others still have a count to queue or closures to land.
refresh_library_carousel(known, left) ==
  LET shown == Projected(shelf', search'.visible) IN
  /\ rows' = [r \in DOMAIN shown |-> to_carousel_item(shown[r], known, selection')]
  /\ counted' = known \cup (pending \cap shelf')
  /\ pending' = {}
  /\ epoch' = epoch + 1
  /\ jobs' = {job \in left : job.stage # "queued"} \cup cover_requests(shown, known, epoch + 1)

\* Boot: the stored shelf under the empty query, focused on any of its rows or
\* on the first (snap_carousel_focus_to_last_opened).
Init ==
  \E S \in SUBSET Books : \E known \in SUBSET S :
    LET shown == Projected(S, 1 .. Cardinality(S)) IN
    /\ shelf = S /\ counted = known
    /\ search = [query |-> Everything, forced |-> {}, visible |-> 1 .. Cardinality(S)]
    /\ selection = {} /\ emptied = FALSE
    /\ rows = [r \in DOMAIN shown |-> to_carousel_item(shown[r], known, {})]
    /\ focus \in {0} \cup {r - 1 : r \in DOMAIN shown}
    /\ screen = "library"
    /\ openBook = NoBook /\ opening = NoBook
    /\ epoch = 1 /\ jobs = cover_requests(shown, known, 1) /\ pending = {}
    /\ moves = 0

-----------------------------------------------------------------------------
(* The reader, on the library screen. *)

Move == moves < MaxMoves /\ moves' = moves + 1

\* on_library_search_changed.
SearchChanged(q) ==
  /\ screen = "library" /\ Move
  /\ search' = set_query(shelf, q)
  /\ UNCHANGED <<shelf, selection, screen, openVars>>
  /\ refresh_library_carousel(counted, jobs)
  /\ focus' = 0 /\ emptied' = FALSE

\* on_carousel_move, clamped to the visible rows.
MoveFocus(delta) ==
  LET last == Cardinality(search.visible) - 1 IN
  /\ screen = "library" /\ last >= 0 /\ Move
  /\ focus' = IF focus + delta < 0 THEN 0 ELSE IF focus + delta > last THEN last ELSE focus + delta
  /\ UNCHANGED <<shelfVars, rows, screen, coverVars, openVars>>

\* on_carousel_toggle_selection: the row's badge is flipped, nothing is rebuilt.
Toggled(r) ==
  LET b == visible_index_to_path(r) IN
  /\ b # NoBook
  /\ selection' = IF b \in selection THEN selection \ {b} ELSE selection \cup {b}
  /\ rows' = [rows EXCEPT ![r].selected = b \in selection']

\* on_carousel_cover_clicked in selection mode; the key toggles the focused row.
ToggleSelection(r) ==
  /\ screen = "library" /\ r \in DOMAIN rows /\ Move
  /\ focus' = r - 1
  /\ Toggled(r)
  /\ UNCHANGED <<shelf, counted, search, emptied, screen, coverVars, openVars>>

\* apply_selection_flags over the visible rows.
Flagged(chosen) == [r \in DOMAIN rows |-> [rows[r] EXCEPT !.selected = visible_index_to_path(r) \in chosen]]

\* selection_projection.rs: the selection joined with what the query leaves.
visible_paths == ToSet(Projected(shelf, search.visible))
all_visible_selected == visible_paths # {} /\ visible_paths \subseteq selection
select_visible == selection \cup visible_paths
deselect_visible == selection \ visible_paths

\* on_carousel_select_all.
SelectAll ==
  /\ screen = "library" /\ Move
  /\ selection' = IF all_visible_selected THEN deselect_visible ELSE select_visible
  /\ rows' = Flagged(selection')
  /\ UNCHANGED <<shelf, counted, search, emptied, focus, screen, coverVars, openVars>>

\* on_carousel_exit_selection.
ExitSelection ==
  /\ screen = "library" /\ selection # {}
  /\ selection' = {}
  /\ rows' = Flagged({})
  /\ UNCHANGED <<shelf, counted, search, emptied, focus, screen, coverVars, openVars, moves>>

clamp_focused_index(old, count) == IF count = 0 THEN 0 ELSE IF old < count THEN old ELSE count - 1

\* A plausible slip: the projection is not recomputed after the removal.
DeleteSelected_NoRecompute ==
  /\ screen = "library" /\ selection # {}
  /\ shelf' = shelf \ selection
  /\ selection' = {}
  /\ openBook' = IF openBook \in selection THEN NoBook ELSE openBook
  /\ UNCHANGED <<search, screen, opening, moves>>
  /\ refresh_library_carousel(counted \ selection, jobs)
  /\ focus' = clamp_focused_index(focus, Len(rows'))
  /\ emptied' = FALSE

\* RemoveBooksUseCase::run and finalize_remove; a failed save changes nothing.
DeleteSelected ==
  /\ screen = "library" /\ selection # {}
  /\ shelf' = shelf \ selection
  /\ search' = recompute(shelf')
  /\ selection' = {}
  /\ openBook' = IF openBook \in selection THEN NoBook ELSE openBook
  /\ UNCHANGED <<screen, opening, moves>>
  /\ refresh_library_carousel(counted \ selection, jobs)
  /\ focus' = clamp_focused_index(focus, Len(rows'))
  /\ emptied' = FALSE

\* on_clear_reading_history, from the settings dialog on either screen.
ClearHistory ==
  /\ Move
  /\ shelf' = {}
  /\ search' = set_query(shelf', Everything)
  /\ selection' = {}
  /\ UNCHANGED <<screen, openVars>>
  /\ refresh_library_carousel({}, jobs)
  /\ focus' = 0 /\ emptied' = FALSE

\* A row or the bookmark names a book; a newer request supersedes an older one.
RequestOpen(b) ==
  /\ screen = "library" /\ b \in shelf /\ opening # b /\ Move
  /\ opening' = b
  /\ UNCHANGED <<shelfVars, viewVars, coverVars, openBook>>

\* on_carousel_back.
BackToViewer ==
  /\ screen = "library" /\ openBook # NoBook
  /\ screen' = "viewer"
  /\ UNCHANGED <<shelfVars, rows, focus, coverVars, openVars, moves>>

\* go_to_library; which book was opened last is BookSession's concern.
GoToLibrary ==
  /\ screen = "viewer" /\ Move
  /\ screen' = "library"
  /\ UNCHANGED <<shelf, search, selection, emptied, openVars>>
  /\ refresh_library_carousel(counted, jobs)
  /\ focus' \in {0} \cup {r - 1 : r \in DOMAIN rows'}

-----------------------------------------------------------------------------
(* Requests that land. *)

\* remove_empty_book and finalize_empty_book_rejected: the rows are rebuilt
\* from the positions computed before the removal.
DropEmpty(b, left) ==
  /\ shelf' = shelf \ {b}
  /\ UNCHANGED <<search, selection, focus, screen, moves>>
  /\ refresh_library_carousel(counted \ {b}, left)
  /\ emptied' = (emptied \/ b \in shelf)

\* A plausible slip: the rows are not rebuilt when the open added the book.
OpenLands_NoRebuild ==
  /\ opening # NoBook /\ opening \notin EmptyBooks
  /\ shelf' = shelf \cup {opening} /\ counted' = counted \cup {opening}
  /\ search' = IF opening \in counted THEN search ELSE recompute(shelf')
  /\ screen' = "viewer"
  /\ openBook' = opening /\ opening' = NoBook
  /\ UNCHANGED <<selection, emptied, rows, coverVars, focus, moves>>

\* register_opened and the success arm of finalize_open: the rows are rebuilt
\* when the open back-filled the page count, as it does for a book it added.
OpenLands ==
  /\ opening # NoBook /\ opening \notin EmptyBooks
  /\ shelf' = shelf \cup {opening}
  /\ UNCHANGED <<selection, emptied, focus, moves>>
  /\ IF opening \in counted
     THEN UNCHANGED <<counted, search, rows, coverVars>>
     ELSE /\ search' = recompute(shelf')
          /\ refresh_library_carousel(counted \cup {opening}, jobs)
  /\ screen' = "viewer"
  /\ openBook' = opening /\ opening' = NoBook

OpenFails ==
  /\ opening # NoBook
  /\ opening' = NoBook
  /\ UNCHANGED <<shelfVars, viewVars, coverVars, openBook, moves>>

\* reject_empty closes the viewer; the screen stays.
OpenRejected ==
  /\ opening \in EmptyBooks
  /\ DropEmpty(opening, jobs)
  /\ openBook' = NoBook /\ opening' = NoBook

\* apply_add_report for a batch that adds something; the probe has refused what
\* is empty, and focus goes to the added book that was picked first.
AddLands(batch) ==
  LET added == batch \ shelf IN
  /\ added # {} /\ Move
  /\ shelf' = shelf \cup added
  /\ search' = force_visible(shelf', added)
  /\ UNCHANGED <<selection, screen, openVars>>
  /\ refresh_library_carousel(counted \cup added, jobs)
  /\ \E b \in added : focus' = visible_focus_index_for_path(shelf', search'.visible, b)
  /\ emptied' = FALSE

-----------------------------------------------------------------------------
(* The cover workers. *)

\* What a worker may find: a source that cannot be opened or decoded, a source
\* without pages, a cover, or a cover and a count still to be resolved.  A cached
\* cover may come without the count when the source cannot be opened.  The
\* closures one worker posts land together.
Findings(job) ==
  {"failed", "cover"}
  \cup (IF job.book \in EmptyBooks THEN {"empty"} ELSE IF job.needs THEN {"counted"} ELSE {})

Became(job, next) == jobs' = (jobs \ {job}) \cup {next}

\* A source is read.  With a count, the worker is then past the generation check
\* of push_and_marshal_count, and queues the count in a step of its own.
ReadSource(job) ==
  /\ job.stage = "queued"
  /\ \E found \in Findings(job) :
       Became(job, [job EXCEPT !.found = found,
                               !.stage = IF found = "counted" THEN "counting" ELSE "posted"])
  /\ UNCHANGED <<epoch, pending>>

PushCount(job) ==
  /\ job.stage = "counting"
  /\ pending' = pending \cup {job.book}
  /\ Became(job, [job EXCEPT !.stage = "posted"])
  /\ UNCHANGED epoch

CoverWork(job) ==
  /\ ReadSource(job) \/ PushCount(job)
  /\ UNCHANGED <<shelfVars, viewVars, openVars, moves>>

\* A plausible slip: only a row past the end of the model is refused.
IsStale_RowOnly(job) == job.row > Len(rows)

\* The epoch guard of marshal_to_ui.
IsStale(job) == job.epoch # epoch

\* What is stale stays stale, so a worker's closures are dropped together.
DropStale(job) ==
  /\ job.stage = "posted" /\ IsStale(job)
  /\ jobs' = jobs \ {job}
  /\ UNCHANGED <<shelfVars, viewVars, epoch, pending, openVars, moves>>

\* update_carousel_row bounds the row by the current model.
DeliverToRow(job) ==
  /\ job.stage = "posted" /\ ~IsStale(job) /\ job.found # "empty"
  /\ rows' = IF job.row > Len(rows) THEN rows
             ELSE IF job.found = "failed" THEN [rows EXCEPT ![job.row].cover = "failed"]
             ELSE [rows EXCEPT ![job.row].cover = "loaded", ![job.row].art = job.book,
                               ![job.row].total = @ \/ job.found = "counted"]
  /\ jobs' = jobs \ {job}
  /\ UNCHANGED <<shelfVars, focus, screen, epoch, pending, openVars, moves>>

\* on_empty_book_detected.
DeliverEmpty(job) ==
  /\ job.stage = "posted" /\ ~IsStale(job) /\ job.found = "empty"
  /\ DropEmpty(job.book, jobs \ {job})
  /\ UNCHANGED openVars

Deliver(job) == DropStale(job) \/ DeliverToRow(job) \/ DeliverEmpty(job)

CoverStep == \E job \in jobs : CoverWork(job) \/ Deliver(job)

Next ==
  \/ \E q \in Queries : SearchChanged(q)
  \/ \E delta \in {-1, 1} : MoveFocus(delta)
  \/ \E r \in DOMAIN rows : ToggleSelection(r)
  \/ SelectAll \/ ExitSelection \/ DeleteSelected \/ ClearHistory
  \/ \E b \in Books : RequestOpen(b)
  \/ BackToViewer \/ GoToLibrary
  \/ OpenLands \/ OpenFails \/ OpenRejected
  \/ \E batch \in SUBSET (Books \ EmptyBooks) : AddLands(batch)
  \/ CoverStep

\* The pool runs every worker it was given and the event loop runs every closure
\* posted to it; the reader owes nothing.
Spec == Init /\ [][Next]_vars /\ WF_vars(CoverStep)

-----------------------------------------------------------------------------
(* Properties. *)

\* A row shows the cover of its own book, whatever workers of earlier rows at
\* that position still post (cover_loader.rs marshal_cover, the epoch guard).
CoverOnItsRow == \A r \in DOMAIN rows : rows[r].cover = "loaded" => rows[r].art = rows[r].book

\* What a row shows is what opening, or selecting, that row acts on, although the
\* row is mapped through the projection and the shelf as they are at the click
\* (visible_index_to_path).
RowOpensItsBook ==
  LET shown == Projected(shelf, search.visible)
  IN  [r \in DOMAIN rows |-> rows[r].book] = shown

\* The badges are the selection: kept by book, it follows books through a query,
\* an add, a removal and a rebuild (LibrarySelectionState).
BadgesMatchSelection == \A r \in DOMAIN rows : rows[r].selected <=> rows[r].book \in selection

\* carousel_refresh.rs:256-259 and 189-192: every rebuild shows the books of the
\* shelf the active filter lets through.
ActiveFilterPreserved ==
  {rows[r].book : r \in DOMAIN rows} = shelf \cap (search.query \cup search.forced)

\* The same, apart from the removal of an empty book, which rebuilds the rows
\* without recomputing the projection.
ProjectionIsCurrent == emptied \/ ActiveFilterPreserved

\* No row waits for its cover for ever: it gets one, or is marked failed, or its
\* book leaves the shelf.
CoversSettle == []<>(\A r \in DOMAIN rows : rows[r].cover # "loading")
=============================================================================
