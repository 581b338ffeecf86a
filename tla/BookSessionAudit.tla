-------------------------- MODULE BookSessionAudit --------------------------
(***************************************************************************)
(* BookSession with history variables that remember what the reader asked  *)
(* for, so that the code's bookkeeping can be compared with it.  Every     *)
(* action is the one of BookSession; a history variable never enables or   *)
(* disables it.                                                            *)
(***************************************************************************)
EXTENDS BookSession

CONSTANT Untracked    \* after a divergence listed below

VARIABLE
  asked     \* wanted: the global default last asked for
            \* own:    the open book's view as the reader last set or found it
            \* left:   per book, where the reader was at its last leave point

auditVars == <<vars, asked>>

Nowhere == [index |-> 0, total |-> 0, view |-> NoView]

AuditInit ==
  /\ Init
  /\ asked = [wanted |-> settings, own |-> settings, left |-> [b \in Books |-> Nowhere]]

Tracked == asked # Untracked
Track(record) == asked' = IF Tracked THEN record ELSE Untracked

\* Two known divergences end the record: an open that fails or is empty while
\* the settings dialog is up, and an open book closed without a successor.
Follow(diverges, record) == IF diverges THEN asked' = Untracked ELSE Track(record)

\* What a leave point of the viewer v records; nothing for a removed book.
LeftBy(v) ==
  IF v.open \notin library.shelf THEN asked.left
  ELSE [asked.left EXCEPT ![v.open] = [index |-> v.index, total |-> v.total, view |-> v.view]]

Forgotten(gone) ==
  [asked EXCEPT !.left = [b \in Books |-> IF b \in gone THEN Nowhere ELSE @[b]]]

Quietly(A) == A /\ UNCHANGED asked

AuditOpenFailed ==
  /\ OpenFailed
  /\ Follow(dialog.shown, [asked EXCEPT !.left = LeftBy(EndViewer)])

AuditOpenEmpty ==
  /\ OpenEmpty
  /\ Follow(dialog.shown \/ viewer.open # NoBook,
            [asked EXCEPT !.left = [LeftBy(EndViewer) EXCEPT ![opening] = Nowhere]])

AuditOpenSucceeded(n) ==
  /\ OpenSucceeded(n)
  /\ Track([asked EXCEPT !.own = viewer'.view,
              !.left = [LeftBy(EndViewer) EXCEPT ![opening] =
                          IF @.total = n THEN @ ELSE Nowhere]])

AuditLeaveViewer == LeaveViewer /\ Track([asked EXCEPT !.left = LeftBy(viewer)])

\* On the Library screen the reader edits the defaults, in the viewer the book.
AuditSetMode(view) ==
  /\ SetMode(view)
  /\ Track(IF screen = "library" THEN [asked EXCEPT !.wanted = view]
                                 ELSE [asked EXCEPT !.own = view])

AuditResetOverrides == ResetOverrides /\ Track([asked EXCEPT !.own = settings])

AuditRemoveBooks(gone) ==
  RemoveBooks(gone) /\ Follow(viewer.open \in gone, Forgotten(gone))

AuditEmptyBookDetected(b) == EmptyBookDetected(b) /\ Track(Forgotten({b}))

AuditClearHistory == ClearHistory /\ Track(Forgotten(Books))

AuditQuitAndStart == QuitAndStart /\ Track([asked EXCEPT !.left = LeftBy(EndViewer)])

\* A default that was only committed in memory is lost with the process.
AuditCrashAndStart ==
  CrashAndStart /\ Track([asked EXCEPT !.wanted = disk.settings])

AuditNext ==
  \/ \E b \in Books : Quietly(OpenStart(b))
  \/ AuditOpenFailed
  \/ AuditOpenEmpty
  \/ \E n \in PageCounts : AuditOpenSucceeded(n)
  \/ AuditLeaveViewer
  \/ Quietly(CarouselBack)
  \/ \E page \in MaxIndex : Quietly(GoToPage(page))
  \/ Quietly(OpenSettings)
  \/ \E view \in Views : AuditSetMode(view)
  \/ AuditResetOverrides
  \/ Quietly(CloseOnLibrary)
  \/ Quietly(CloseOnViewer)
  \/ \E b \in Books, n \in PageCounts : Quietly(AddBook(b, n))
  \/ \E gone \in SUBSET Books : AuditRemoveBooks(gone)
  \/ \E b \in Books : AuditEmptyBookDetected(b)
  \/ AuditClearHistory
  \/ AuditQuitAndStart
  \/ AuditCrashAndStart

AuditSpec == AuditInit /\ [][AuditNext]_auditVars

-----------------------------------------------------------------------------
(* Properties. *)

\* ADR-0007: one book's preference never silently overwrites the global
\* default.  Between dialogs the defaults are what the reader last asked for,
\* whatever was opened, left, reset or quit in between.
GlobalIsWhatWasAsked == Tracked /\ ~dialog.shown => settings = asked.wanted

\* Outside a Library-scope dialog the runtime shows the open book's own view:
\* the scratchpad of a global edit never leaks onto the book (issue #414, #535).
OwnViewSurvives ==
  Tracked /\ viewer.open # NoBook /\ dialog.scope # "library" => viewer.view = asked.own

\* Reopening an unchanged book in the view it was left in returns to the spread
\* it was left at, whatever books, dialogs and restarts came in between (#534).
ReopenRestores ==
  [][ \A n \in PageCounts :
        OpenSucceeded(n) /\ asked' # Untracked =>
          LET left == asked'.left[opening]
          IN  left.total = n /\ left.view = viewer'.view => viewer'.index = left.index
    ]_auditVars
=============================================================================
