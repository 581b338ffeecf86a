---------------------------- MODULE BookSession ----------------------------
(***************************************************************************)
(* One reading session: the viewer's open book, the per-book view          *)
(* overrides and their global fallback (ADR-0007), the settings-dialog     *)
(* session, the library and what of it is on disk.  Each action is one     *)
(* handler on the UI thread, with every synchronous save it makes:         *)
(*   open_book.rs, view_sync.rs, dialog_session.rs, remove_books.rs,       *)
(*   handlers/library.rs, handlers/settings.rs, handlers/viewer.rs and     *)
(*   main.rs of crates/gashuu/src, and library.rs of crates/gashuu-core.   *)
(* The four view preferences are treated alike by this code; the one that  *)
(* is kept here is the spread mode, because it also moves the position.    *)
(***************************************************************************)
EXTENDS SpreadPairing, FiniteSets

CONSTANTS
  Books,            \* canonical identities
  NoBook,           \* open_file or last_opened is None
  PageCounts        \* page counts a probe may find; 0 is an empty source

ASSUME NoBookAssumption == NoBook \notin Books
ASSUME PageCountsAssumption == PageCounts \subseteq Nat

VARIABLES
  library,      \* Library: the shelf, per book its record, last_opened
  settings,     \* the global view default
  disk,         \* library.json and settings.json
  viewer,       \* ViewerState: open_file, page count, index, runtime view
  dialog,       \* the settings dialog (shown, settings-per-book), and DialogSession
                \* behind it
  screen,
  opening       \* the book of the live open generation, if it has not landed

vars == <<library, settings, disk, viewer, dialog, screen, opening>>

Views == Layouts
Inherit == "inherit"        \* an override field that is None
NoView == "none"            \* no pending reset
NoSnapshot == [view |-> NoView, pending |-> NoView]
Fresh == [resume |-> 0, count |-> 0, override |-> Inherit]

MaxIndex == {0} \cup UNION {0 .. n - 1 : n \in PageCounts}
Shelves ==
  [shelf : SUBSET Books,
   book : [Books -> [resume : MaxIndex, count : PageCounts \cup {0},
                     override : Views \cup {Inherit}]],
   last : Books \cup {NoBook}]

TypeOK ==
  /\ library \in Shelves
  /\ settings \in Views
  /\ disk \in [library : Shelves, settings : Views]
  /\ viewer \in [open : Books \cup {NoBook}, total : PageCounts \cup {0},
                 index : MaxIndex, view : Views]
  /\ dialog \in [shown : BOOLEAN, per_book : BOOLEAN,
                 scope : {"none", "library", "viewer"},
                 snapshot : [view : Views \cup {NoView}, pending : Views \cup {NoView}],
                 pending : Views \cup {NoView}]
  /\ screen \in {"library", "viewer"}
  /\ opening \in Books \cup {NoBook}

EmptyLibrary == [shelf |-> {}, book |-> [b \in Books |-> Fresh], last |-> NoBook]
Closed(view) == [open |-> NoBook, total |-> 0, index |-> 0, view |-> view]
NoDialog == [shown |-> FALSE, per_book |-> FALSE, scope |-> "none",
             snapshot |-> NoSnapshot, pending |-> NoView]

\* The state main.rs builds from what is on disk.
Boot(stored) ==
  /\ library' = stored.library
  /\ settings' = stored.settings
  /\ disk' = stored
  /\ viewer' = Closed(stored.settings)
  /\ dialog' = NoDialog
  /\ screen' = "library"
  /\ opening' = NoBook

Init ==
  /\ library = EmptyLibrary
  /\ settings \in Views
  /\ disk = [library |-> library, settings |-> settings]
  /\ viewer = Closed(settings)
  /\ dialog = NoDialog
  /\ screen = "library"
  /\ opening = NoBook

\* Every handler saves what it changed before it returns.  A save is one step
\* here that succeeds; its own steps and failures are those of LibraryOnDisk.
LibrarySaved == disk' = [disk EXCEPT !.library = library']
BothSaved == disk' = [library |-> library', settings |-> settings']

-----------------------------------------------------------------------------
(* Library. *)

\* remove and remove_many; the records of absent books are Fresh.
Without(lib, gone) ==
  [shelf |-> lib.shelf \ gone,
   book |-> [b \in Books |-> IF b \in gone THEN Fresh ELSE lib.book[b]],
   last |-> IF lib.last \in gone THEN NoBook ELSE lib.last]

\* register_opened: add, set_page_count with its resume repair, last_opened.
register_opened(lib, b, n) ==
  [shelf |-> lib.shelf \cup {b},
   book |-> [lib.book EXCEPT ![b].count = n, ![b].resume = AtMost(@, n - 1)],
   last |-> b]

\* ViewOverride::resolve and its inverse, differences_from.
resolve(override, global) == IF override = Inherit THEN global ELSE override
differences_from(view, global) == IF view = global THEN Inherit ELSE view

-----------------------------------------------------------------------------
(* The viewer and the dialog session. *)

\* apply_resolved_view: a changed layout re-normalises the position.
Applied(v, view) ==
  [v EXCEPT !.view = view,
            !.index = IF view = v.view \/ v.total = 0 THEN @
                      ELSE normalize_leading(v.total, view, "standalone", @)]

\* SpreadNavigation::jump_to.
Jumped(v, page) ==
  IF v.total = 0 THEN v
  ELSE [v EXCEPT !.index = normalize_leading(v.total, v.view, "standalone", page)]

\* A plausible slip: a finished book is stored one page past its end.
resume_index_to_persist_PastEnd(v) ==
  IF v.total > 0 /\ v.total - 1 \in Pages(spread_at(v.total, v.view, "standalone", v.index))
    THEN v.total ELSE v.index

resume_index_to_persist(v) ==
  IF v.total > 0 /\ v.total - 1 \in Pages(spread_at(v.total, v.view, "standalone", v.index))
    THEN v.total - 1 ELSE v.index

\* A plausible slip: the snapshot is put back before the global edit is taken.
EndSettings_RestoreFirst ==
  IF dialog.scope # "library" THEN settings
  ELSE IF dialog.snapshot # NoSnapshot THEN dialog.snapshot.view ELSE viewer.view

\* DialogSession::end: commit the global edit, restore the open book's runtime.
EndSettings == IF dialog.scope = "library" THEN viewer.view ELSE settings

\* A plausible slip: ending the session forgets the snapshot.
EndViewer_NoRestore == viewer

EndViewer ==
  IF dialog.snapshot = NoSnapshot THEN viewer ELSE Applied(viewer, dialog.snapshot.view)

\* A plausible slip: the session ends but its snapshot stays behind.
EndDialog_KeepSnapshot == [dialog EXCEPT !.scope = "none"]

EndDialog ==
  [dialog EXCEPT !.scope = "none", !.snapshot = NoSnapshot,
                 !.pending = IF dialog.snapshot = NoSnapshot
                               THEN @ ELSE dialog.snapshot.pending]

\* stage_position_write_back and stage_view_override_write_back; both are
\* no-ops when no book is open or the open book is not on the shelf.
PositionStaged(lib, v) ==
  IF v.open \notin lib.shelf THEN lib
  ELSE [lib EXCEPT !.book[v.open].resume = resume_index_to_persist(v)]

\* While a reset is pending and no mode has changed since, the book goes on inheriting.
view_override_to_write_back(v, global, pending) ==
  IF pending = v.view THEN Inherit ELSE differences_from(v.view, global)

OverrideStaged(lib, v, global, pending) ==
  IF v.open \notin lib.shelf THEN lib
  ELSE [lib EXCEPT !.book[v.open].override = view_override_to_write_back(v, global, pending)]

\* What a leave point stages for the viewer v: position, then view modes.
Staged(lib, v, global, pending) ==
  OverrideStaged(PositionStaged(lib, v), v, global, pending)

-----------------------------------------------------------------------------
(* Handlers. *)

\* carousel_open and carousel_continue_reading: the newest request wins.
OpenStart(b) ==
  /\ screen = "library" /\ ~dialog.shown
  /\ b \in library.shelf
  /\ opening' = b
  /\ UNCHANGED <<library, settings, disk, viewer, dialog, screen>>

\* What every finalize does first: end the dialog session, then
\* persist_outgoing writes the outgoing book back and saves.
Outgoing == Staged(library, EndViewer, EndSettings, EndDialog.pending)

Land == opening # NoBook /\ opening' = NoBook

OpenFailed ==
  /\ Land
  /\ library' = Outgoing
  /\ settings' = EndSettings
  /\ viewer' = EndViewer
  /\ dialog' = EndDialog
  /\ LibrarySaved
  /\ UNCHANGED screen

\* reject_empty: the source was installed, is removed again, and the viewer closed.
OpenEmpty ==
  /\ Land
  /\ library' = Without(Outgoing, {opening})
  /\ settings' = EndSettings
  /\ viewer' = Closed(EndViewer.view)
  /\ dialog' = [EndDialog EXCEPT !.pending = NoView]
  /\ LibrarySaved
  /\ UNCHANGED screen

\* install_opened, after the probe: page 0 under the view that was in force.
install_opened(b, n, view) == [open |-> b, total |-> n, index |-> 0, view |-> view]

\* A plausible slip (#534): the resume page is taken under the outgoing view.
Resumed_JumpFirst(v, view, page) == Applied(Jumped(v, page), view)

\* register_and_resume: this book's view first, then the stored position.
Resumed(v, view, page) == Jumped(Applied(v, view), page)

\* The settings are saved only when recent sources are tracked.
OpenSucceeded(n) ==
  LET b == opening
      lib == register_opened(Outgoing, b, n)
      installed == install_opened(b, n, EndViewer.view)
  IN  /\ Land
      /\ n > 0
      /\ library' = lib
      /\ settings' = EndSettings
      /\ viewer' = Resumed(installed, resolve(lib.book[b].override, EndSettings),
                           lib.book[b].resume)
      /\ dialog' = [EndDialog EXCEPT !.pending = NoView]
      /\ screen' = "viewer"
      /\ BothSaved \/ LibrarySaved

\* The up arrow: LeaveViewer, one save, then the carousel.
LeaveViewer ==
  /\ screen = "viewer" /\ ~dialog.shown
  /\ library' = Staged(library, viewer, settings, dialog.pending)
  /\ screen' = "library"
  /\ LibrarySaved
  /\ UNCHANGED <<settings, viewer, dialog, opening>>

CarouselBack ==
  /\ screen = "library" /\ ~dialog.shown
  /\ viewer.open # NoBook
  /\ screen' = "viewer"
  /\ UNCHANGED <<library, settings, disk, viewer, dialog, opening>>

\* A page turn, a scrub or a thumbnail click.
GoToPage(page) ==
  /\ screen = "viewer" /\ ~dialog.shown
  /\ viewer.total > 0
  /\ viewer' = Jumped(viewer, page)
  /\ viewer' # viewer
  /\ UNCHANGED <<library, settings, disk, dialog, screen, opening>>

\* DialogSession::open: the library scope snapshots an open book and seeds the
\* runtime with the globals.
SessionOpened ==
  [dialog EXCEPT !.scope = screen,
                 !.snapshot = IF screen = "viewer" THEN @
                              ELSE IF viewer.open = NoBook THEN NoSnapshot
                              ELSE [view |-> viewer.view, pending |-> dialog.pending]]

OpenSettings ==
  /\ ~dialog.shown
  /\ dialog' = [SessionOpened EXCEPT !.shown = TRUE, !.per_book = (screen = "viewer")]
  /\ viewer' = IF screen = "library" THEN Applied(viewer, settings) ELSE viewer
  /\ UNCHANGED <<library, settings, disk, screen, opening>>

\* A mode set from the dialog, or toggled by key in the viewer.
SetMode(view) ==
  /\ dialog.shown \/ screen = "viewer"
  /\ view # viewer.view
  /\ viewer' = Applied(viewer, view)
  /\ UNCHANGED <<library, settings, disk, dialog, screen, opening>>

\* DialogSession::reset_to_global: the view the reset installs is the pending one.
reset_to_global ==
  /\ viewer' = Applied(viewer, settings)
  /\ dialog' = [dialog EXCEPT !.pending = viewer'.view]

\* on_reset_overrides: the button of a dialog opened over the viewer, which is
\* still there when an open has ended the session under it.
ResetOverrides ==
  /\ dialog.shown /\ dialog.per_book
  /\ library' = IF viewer.open \in library.shelf
                  THEN [library EXCEPT !.book[viewer.open].override = Inherit]
                  ELSE library
  /\ reset_to_global
  /\ IF viewer.open = NoBook THEN UNCHANGED disk ELSE LibrarySaved
  /\ UNCHANGED <<settings, screen, opening>>

\* on_close_settings routes by the recorded scope; a session that an open has
\* ended meanwhile falls back to the screen.
CloseScope ==
  IF dialog.scope # "none" THEN dialog.scope ELSE screen

CloseOnLibrary ==
  /\ dialog.shown /\ CloseScope = "library"
  /\ settings' = viewer.view
  /\ viewer' = EndViewer
  /\ dialog' = [EndDialog EXCEPT !.shown = FALSE]
  /\ UNCHANGED <<library, screen, opening>>
  /\ BothSaved

CloseOnViewer ==
  /\ dialog.shown /\ CloseScope = "viewer"
  /\ library' = OverrideStaged(library, viewer, settings, dialog.pending)
  /\ dialog' = [EndDialog EXCEPT !.shown = FALSE]
  /\ UNCHANGED <<settings, viewer, screen, opening>>
  /\ BothSaved

\* A book added from the file dialog or by a drop, with its probed count.
AddBook(b, n) ==
  /\ b \notin library.shelf
  /\ n > 0
  /\ library' = [library EXCEPT !.shelf = @ \cup {b}, !.book[b].count = n]
  /\ LibrarySaved
  /\ UNCHANGED <<settings, viewer, dialog, screen, opening>>

\* RemoveBooksUseCase::run: a failed save restores the shelf, the bookmark and
\* every record; a removed open book is closed, its view modes stay.
RemoveBooks(gone) ==
  /\ screen = "library" /\ ~dialog.shown
  /\ gone # {} /\ gone \subseteq library.shelf
  /\ library' = Without(library, gone)
  /\ disk' = [disk EXCEPT !.library = library']
  /\ IF viewer.open \in gone
       THEN /\ viewer' = Closed(viewer.view)
            /\ dialog' = [dialog EXCEPT !.pending = NoView]
       ELSE UNCHANGED <<viewer, dialog>>
  /\ UNCHANGED <<settings, screen, opening>>

\* on_empty_book_detected: no rollback, and the viewer is left alone.
EmptyBookDetected(b) ==
  /\ b \in library.shelf
  /\ library' = Without(library, {b})
  /\ LibrarySaved
  /\ UNCHANGED <<settings, viewer, dialog, screen, opening>>

\* on_clear_reading_history: the open viewer is untouched.
ClearHistory ==
  /\ dialog.shown
  /\ library' = EmptyLibrary
  /\ UNCHANGED <<settings, viewer, dialog, screen, opening>>
  /\ BothSaved

\* AppExit: per-book first, then the globals only when no book is open.
ExitSettings == IF viewer.open = NoBook THEN EndViewer.view ELSE EndSettings

\* stage_exit_state and the settings save, then the next start.
QuitAndStart ==
  Boot([library |-> Staged(library, EndViewer, EndSettings, EndDialog.pending),
        settings |-> ExitSettings])

\* The process dies between two handlers and is started again.
CrashAndStart == Boot(disk)

Next ==
  \/ \E b \in Books : OpenStart(b)
  \/ OpenFailed
  \/ OpenEmpty
  \/ \E n \in PageCounts : OpenSucceeded(n)
  \/ LeaveViewer
  \/ CarouselBack
  \/ \E page \in MaxIndex : GoToPage(page)
  \/ OpenSettings
  \/ \E view \in Views : SetMode(view)
  \/ ResetOverrides
  \/ CloseOnLibrary
  \/ CloseOnViewer
  \/ \E b \in Books, n \in PageCounts : AddBook(b, n)
  \/ \E gone \in SUBSET Books : RemoveBooks(gone)
  \/ \E b \in Books : EmptyBookDetected(b)
  \/ ClearHistory
  \/ QuitAndStart
  \/ CrashAndStart

Spec == Init /\ [][Next]_vars

-----------------------------------------------------------------------------
(* Properties. *)

\* A snapshot exists exactly while a library-scope dialog covers an open book:
\* no open, removal or exit leaves one behind to be restored onto another book.
SnapshotBelongsToSession ==
  dialog.snapshot # NoSnapshot <=>
    dialog.scope = "library" /\ viewer.open # NoBook

\* No handler leaves an unsaved change of the library behind: what a crash can
\* lose is the position and the view since the last leave point.
LibraryIsOnDisk == disk.library = library
=============================================================================
