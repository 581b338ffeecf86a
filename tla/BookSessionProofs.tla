-------------------------- MODULE BookSessionProofs --------------------------
(***************************************************************************)
(* Proofs about BookSession and its audit, for any set of books and any    *)
(* page counts: types, what is on disk, the dialog session's snapshot, and *)
(* that a book's view and the global default are never taken for each      *)
(* other (ADR-0007).                                                       *)
(***************************************************************************)
EXTENDS BookSessionAudit, TLAPS

USE NoBookAssumption, PageCountsAssumption

Counts == PageCounts \cup {0}
Overrides == Views \cup {Inherit}
Records == [resume : MaxIndex, count : Counts, override : Overrides]
Viewers == [open : Books \cup {NoBook}, total : Counts, index : MaxIndex, view : Views]
Snapshots == [view : Views \cup {NoView}, pending : Views \cup {NoView}]
Dialogs ==
  [shown : BOOLEAN, per_book : BOOLEAN, scope : {"none", "library", "viewer"},
   snapshot : Snapshots, pending : Views \cup {NoView}]

-----------------------------------------------------------------------------
(* Positions. *)

LEMMA Indexes ==
  /\ MaxIndex \subseteq Nat
  /\ 0 \in MaxIndex
  /\ \A n \in Counts \ {0} : \A i \in 0 .. n - 1 : i \in MaxIndex
  /\ Counts \subseteq Nat
<1>1. MaxIndex \subseteq Nat
  BY DEF MaxIndex
<1>2. \A n \in Counts \ {0} : \A i \in 0 .. n - 1 : i \in MaxIndex
  BY DEF MaxIndex, Counts
<1> QED
  BY <1>1, <1>2 DEF MaxIndex, Counts

\* normalize_leading stays inside the book.
LEMMA NormalizeInBook ==
  ASSUME NEW n \in Nat \ {0}, NEW layout \in Layouts, NEW i \in Nat
  PROVE  normalize_leading(n, layout, "standalone", i) \in 0 .. n - 1
  BY DEF normalize_leading, clamp_index, AtMost, Monus, Layouts, last_start_standalone

\* What is stored for a position is a page of the book.
LEMMA ResumeInBook ==
  ASSUME NEW v \in Viewers
  PROVE  resume_index_to_persist(v) \in MaxIndex
<1>1. v.total \in Counts /\ v.total \in Nat /\ v.index \in MaxIndex
  BY Indexes DEF Viewers
<1>2. v.total > 0 => v.total - 1 \in MaxIndex
  BY <1>1, Indexes
<1> QED
  BY <1>1, <1>2 DEF resume_index_to_persist

-----------------------------------------------------------------------------
(* The operators keep types, and what they leave alone. *)

LEMMA AppliedType ==
  ASSUME NEW v \in Viewers, NEW view \in Views
  PROVE  /\ Applied(v, view) \in Viewers
         /\ Applied(v, view).view = view
         /\ Applied(v, view).open = v.open
         /\ Applied(v, view).total = v.total
<1>1. v.total \in Nat /\ v.index \in Nat
  BY Indexes DEF Viewers
<1>2. v.total # 0 => normalize_leading(v.total, view, "standalone", v.index) \in MaxIndex
  BY <1>1, NormalizeInBook, Indexes DEF Views, Viewers
<1> QED
  BY <1>1, <1>2 DEF Applied, Viewers

LEMMA JumpedType ==
  ASSUME NEW v \in Viewers, NEW page \in Nat
  PROVE  /\ Jumped(v, page) \in Viewers
         /\ Jumped(v, page).view = v.view
         /\ Jumped(v, page).open = v.open
         /\ Jumped(v, page).total = v.total
<1>1. v.total \in Nat
  BY Indexes DEF Viewers
<1>2. v.total # 0 => normalize_leading(v.total, v.view, "standalone", page) \in MaxIndex
  BY <1>1, NormalizeInBook, Indexes DEF Views, Viewers
<1> QED
  BY <1>1, <1>2 DEF Jumped, Viewers

LEMMA ClosedType ==
  ASSUME NEW view \in Views
  PROVE  Closed(view) \in Viewers
  BY Indexes DEF Closed, Viewers, Counts

LEMMA EmptyType == EmptyLibrary \in Shelves
  BY Indexes DEF EmptyLibrary, Fresh, Shelves

LEMMA WithoutType ==
  ASSUME NEW lib \in Shelves, NEW gone \in SUBSET Books
  PROVE  Without(lib, gone) \in Shelves
<1>1. Fresh \in Records
  BY Indexes DEF Fresh, Records, Counts, Overrides
<1>2. Shelves = [shelf : SUBSET Books, book : [Books -> Records], last : Books \cup {NoBook}]
  BY DEF Shelves, Records, Counts, Overrides
<1> QED
  BY <1>1, <1>2 DEF Without

LEMMA RegisterType ==
  ASSUME NEW lib \in Shelves, NEW b \in Books, NEW n \in PageCounts, n > 0
  PROVE  register_opened(lib, b, n) \in Shelves
<1>1. Shelves = [shelf : SUBSET Books, book : [Books -> Records], last : Books \cup {NoBook}]
  BY DEF Shelves, Records, Counts, Overrides
<1> DEFINE r == lib.book[b]
<1>2. r \in Records
  BY <1>1
<1>3. r.resume \in Nat /\ n \in Nat
  BY <1>2, Indexes DEF Records
<1>4. AtMost(r.resume, n - 1) \in MaxIndex
  BY <1>2, <1>3, Indexes DEF AtMost, Records, Counts
<1>5. [r EXCEPT !.count = n, !.resume = AtMost(@, n - 1)] \in Records
  BY <1>2, <1>4 DEF Records, Counts
<1>6. register_opened(lib, b, n).book
        = [lib.book EXCEPT ![b] = [r EXCEPT !.count = n, !.resume = AtMost(@, n - 1)]]
  BY <1>1 DEF register_opened
<1> QED
  BY <1>1, <1>5, <1>6 DEF register_opened

\* The viewer's dialog writes the open book's override back, and nothing else.
LEMMA OverrideType ==
  ASSUME NEW lib \in Shelves, NEW v \in Viewers, NEW global \in Views,
         NEW pending \in Views \cup {NoView}
  PROVE  /\ OverrideStaged(lib, v, global, pending) \in Shelves
         /\ OverrideStaged(lib, v, global, pending).shelf = lib.shelf
         /\ \A b \in Books :
              OverrideStaged(lib, v, global, pending).book[b].resume = lib.book[b].resume
<1>1. Shelves = [shelf : SUBSET Books, book : [Books -> Records], last : Books \cup {NoBook}]
  BY DEF Shelves, Records, Counts, Overrides
<1> DEFINE override == view_override_to_write_back(v, global, pending)
<1>2. override \in Overrides
  BY DEF view_override_to_write_back, differences_from, Overrides, Viewers
<1> HIDE DEF override
<1>3. CASE v.open \notin lib.shelf
  BY <1>3, <1>1 DEF OverrideStaged
<1>4. CASE v.open \in lib.shelf
  <2>1. v.open \in Books /\ lib.book[v.open] \in Records
    BY <1>4, <1>1
  <2> DEFINE r == [lib.book[v.open] EXCEPT !.override = override]
  <2>2. r \in Records /\ r.resume = lib.book[v.open].resume
    BY <2>1, <1>2 DEF Records
  <2>3. OverrideStaged(lib, v, global, pending)
          = [lib EXCEPT !.book = [lib.book EXCEPT ![v.open] = r]]
    BY <1>4 DEF OverrideStaged, override
  <2> HIDE DEF r
  <2> QED
    BY <1>1, <2>1, <2>2, <2>3
<1> QED
  BY <1>3, <1>4

\* A leave point touches one record: the open book's, and only on the shelf.
LEMMA StagedType ==
  ASSUME NEW lib \in Shelves, NEW v \in Viewers, NEW global \in Views,
         NEW pending \in Views \cup {NoView}
  PROVE  /\ Staged(lib, v, global, pending) \in Shelves
         /\ Staged(lib, v, global, pending).shelf = lib.shelf
         /\ \A b \in Books :
              Staged(lib, v, global, pending).book[b].resume
                = IF b = v.open /\ b \in lib.shelf THEN resume_index_to_persist(v)
                  ELSE lib.book[b].resume
<1>1. Shelves = [shelf : SUBSET Books, book : [Books -> Records], last : Books \cup {NoBook}]
  BY DEF Shelves, Records, Counts, Overrides
<1> DEFINE resume == resume_index_to_persist(v)
           override == view_override_to_write_back(v, global, pending)
           positioned == PositionStaged(lib, v)
<1>2. resume \in MaxIndex
  BY ResumeInBook
<1>3. override \in Overrides
  BY DEF view_override_to_write_back, differences_from, Overrides, Viewers
<1> HIDE DEF resume, override
<1>4. CASE v.open \notin lib.shelf
  BY <1>4, <1>1 DEF Staged, PositionStaged, OverrideStaged
<1>5. CASE v.open \in lib.shelf
  <2>1. v.open \in Books
    BY <1>5, <1>1
  <2>2. lib.book[v.open] \in Records
    BY <2>1, <1>1
  <2> DEFINE r1 == [lib.book[v.open] EXCEPT !.resume = resume]
             r2 == [r1 EXCEPT !.override = override]
  <2>3. r1 \in Records
    BY <2>2, <1>2 DEF Records
  <2>4. r2 \in Records /\ r2.resume = resume
    BY <2>2, <1>2, <1>3 DEF Records
  <2>5. positioned = [lib EXCEPT !.book = [lib.book EXCEPT ![v.open] = r1]]
    BY <1>5 DEF PositionStaged, resume
  <2> HIDE DEF r1, positioned
  <2>6. positioned \in Shelves /\ positioned.shelf = lib.shelf
        /\ positioned.book = [lib.book EXCEPT ![v.open] = r1]
    BY <1>1, <2>1, <2>3, <2>5
  <2>7. positioned.book[v.open] = r1
    BY <1>1, <2>1, <2>6
  <2>8. Staged(lib, v, global, pending)
          = [positioned EXCEPT !.book = [positioned.book EXCEPT ![v.open] = r2]]
    BY <1>5, <2>6, <2>7 DEF Staged, OverrideStaged, override, positioned
  <2> HIDE DEF r2
  <2>9. Staged(lib, v, global, pending)
          = [lib EXCEPT !.book = [lib.book EXCEPT ![v.open] = r2]]
    BY <1>1, <2>1, <2>5, <2>6, <2>8
  <2> QED
    BY <1>1, <1>5, <2>1, <2>4, <2>9 DEF resume
<1> QED
  BY <1>4, <1>5

\* What the types leave open: a snapshot, when there is one, holds a view.
TypeInv == TypeOK /\ (dialog.snapshot # NoSnapshot => dialog.snapshot.view \in Views)

LEMMA TypeForm ==
  TypeOK <=> /\ library \in Shelves
             /\ settings \in Views
             /\ disk \in [library : Shelves, settings : Views]
             /\ viewer \in Viewers
             /\ dialog \in Dialogs
             /\ screen \in {"library", "viewer"}
             /\ opening \in Books \cup {NoBook}
  BY DEF TypeOK, Viewers, Counts, Dialogs, Snapshots

\* DialogSession::end, whatever the session.
LEMMA EndType ==
  ASSUME TypeInv
  PROVE  /\ EndSettings \in Views
         /\ EndViewer \in Viewers
         /\ EndViewer.open = viewer.open
         /\ EndViewer.total = viewer.total
         /\ EndViewer.view = IF dialog.snapshot = NoSnapshot THEN viewer.view
                             ELSE dialog.snapshot.view
         /\ EndDialog \in Dialogs
         /\ EndDialog.scope = "none"
         /\ EndDialog.snapshot = NoSnapshot
         /\ EndDialog.shown = dialog.shown
<1>1. /\ settings \in Views /\ viewer \in Viewers /\ dialog \in Dialogs
      /\ dialog.snapshot # NoSnapshot => dialog.snapshot.view \in Views
  BY TypeForm DEF TypeInv
<1>2. EndSettings \in Views
  BY <1>1 DEF EndSettings, Viewers
<1>3. /\ EndViewer \in Viewers
      /\ EndViewer.open = viewer.open
      /\ EndViewer.total = viewer.total
      /\ EndViewer.view = IF dialog.snapshot = NoSnapshot THEN viewer.view
                          ELSE dialog.snapshot.view
  BY <1>1, AppliedType DEF EndViewer
<1>4. NoSnapshot \in Snapshots
  BY DEF NoSnapshot, Snapshots
<1>5. /\ EndDialog \in Dialogs
      /\ EndDialog.scope = "none"
      /\ EndDialog.snapshot = NoSnapshot
      /\ EndDialog.shown = dialog.shown
  BY <1>1, <1>4 DEF EndDialog, Dialogs, Snapshots
<1> QED
  BY <1>2, <1>3, <1>5

-----------------------------------------------------------------------------
(* Types. *)

\* A save of what was just changed, of the library alone or of both documents.
LEMMA SavedType ==
  ASSUME disk \in [library : Shelves, settings : Views],
         library' \in Shelves, settings' \in Views, BothSaved \/ LibrarySaved
  PROVE  disk' \in [library : Shelves, settings : Views]
  BY DEF BothSaved, LibrarySaved

LEMMA NewType ==
  ASSUME library' \in Shelves, settings' \in Views,
         disk' \in [library : Shelves, settings : Views],
         viewer' \in Viewers, dialog' \in Dialogs,
         dialog'.snapshot # NoSnapshot => dialog'.snapshot.view \in Views,
         screen' \in {"library", "viewer"}, opening' \in Books \cup {NoBook}
  PROVE  TypeInv'
  BY DEF TypeInv, TypeOK, Viewers, Counts, Dialogs, Snapshots

LEMMA BootType ==
  ASSUME NEW stored \in [library : Shelves, settings : Views], Boot(stored)
  PROVE  TypeInv'
<1>1. NoDialog \in Dialogs /\ NoDialog.snapshot = NoSnapshot
  BY DEF NoDialog, NoSnapshot, Dialogs, Snapshots
<1> QED
  BY <1>1, ClosedType, NewType DEF Boot

\* Every landing writes the outgoing book back under the ended dialog session.
LEMMA OutgoingType ==
  ASSUME TypeInv
  PROVE  /\ Outgoing \in Shelves
         /\ Outgoing.shelf = library.shelf
         /\ \A b \in Books :
              Outgoing.book[b].resume
                = IF b = viewer.open /\ b \in library.shelf
                    THEN resume_index_to_persist(EndViewer)
                    ELSE library.book[b].resume
<1>1. library \in Shelves
  BY TypeForm DEF TypeInv
<1>2. EndDialog.pending \in Views \cup {NoView}
  BY EndType DEF Dialogs
<1> QED
  BY <1>1, <1>2, EndType, StagedType DEF Outgoing

\* DialogSession::open: only over the library, and only when a book is open, is
\* there something to put back later.
LEMMA SessionOpens ==
  ASSUME TypeInv, OpenSettings
  PROVE  /\ dialog' \in Dialogs
         /\ dialog'.shown /\ dialog'.scope = screen /\ dialog'.pending = dialog.pending
         /\ dialog'.per_book <=> screen = "viewer"
         /\ dialog'.snapshot =
              IF screen = "viewer" THEN dialog.snapshot
              ELSE IF viewer.open = NoBook THEN NoSnapshot
              ELSE [view |-> viewer.view, pending |-> dialog.pending]
<1>1. dialog \in Dialogs /\ viewer \in Viewers /\ screen \in {"library", "viewer"}
  BY TypeForm DEF TypeInv
<1>2. NoSnapshot \in Snapshots
  BY DEF NoSnapshot, Snapshots
<1>3. [view |-> viewer.view, pending |-> dialog.pending] \in Snapshots
  BY <1>1 DEF Snapshots, Viewers, Dialogs
<1>4. /\ SessionOpened \in Dialogs
      /\ SessionOpened.scope = screen /\ SessionOpened.pending = dialog.pending
      /\ SessionOpened.snapshot =
           IF screen = "viewer" THEN dialog.snapshot
           ELSE IF viewer.open = NoBook THEN NoSnapshot
           ELSE [view |-> viewer.view, pending |-> dialog.pending]
  BY <1>1, <1>2, <1>3 DEF SessionOpened, Dialogs
<1>5. dialog' = [SessionOpened EXCEPT !.shown = TRUE, !.per_book = (screen = "viewer")]
  BY DEF OpenSettings
<1> HIDE DEF SessionOpened
<1> QED
  BY <1>4, <1>5 DEF Dialogs

\* register_and_resume, by its parts: the record of the opened book decides the
\* view, and its stored page the spread.
LEMMA LandsOpen ==
  ASSUME TypeInv, NEW n \in PageCounts, OpenSucceeded(n)
  PROVE  LET lib == register_opened(Outgoing, opening, n)
             view == resolve(lib.book[opening].override, EndSettings)
         IN  /\ opening \in Books /\ n \in Nat /\ n > 0
             /\ library' = lib
             /\ view \in Views
             /\ lib.book[opening].resume \in Nat
             /\ viewer' \in Viewers
             /\ viewer'.open = opening /\ viewer'.total = n /\ viewer'.view = view
             /\ viewer'.index = normalize_leading(n, view, "standalone",
                                                  lib.book[opening].resume)
<1> DEFINE lib == register_opened(Outgoing, opening, n)
           installed == install_opened(opening, n, EndViewer.view)
           view == resolve(lib.book[opening].override, EndSettings)
           page == lib.book[opening].resume
<1>1. opening \in Books /\ n > 0 /\ n \in Nat
  BY TypeForm DEF OpenSucceeded, Land, TypeInv
<1>2. lib \in Shelves
  BY <1>1, OutgoingType, RegisterType
<1>3. installed \in Viewers /\ installed.open = opening /\ installed.total = n
  BY <1>1, EndType, Indexes DEF install_opened, Viewers, Counts
<1>4. lib.book[opening] \in Records
  BY <1>1, <1>2 DEF Shelves, Records, Counts, Overrides
<1>5. view \in Views /\ page \in Nat
  BY <1>4, EndType, Indexes DEF resolve, Records, Overrides
<1>6. library' = lib /\ viewer' = Resumed(installed, view, page)
  BY DEF OpenSucceeded
<1> HIDE DEF lib, installed, view, page
<1> DEFINE applied == Applied(installed, view)
<1>7. /\ applied \in Viewers /\ applied.view = view
      /\ applied.open = opening /\ applied.total = n
  BY <1>3, <1>5, AppliedType
<1> HIDE DEF applied
<1>8. Jumped(applied, page) = [applied EXCEPT !.index = normalize_leading(n, view, "standalone", page)]
  BY <1>1, <1>7 DEF Jumped
<1>9. /\ Jumped(applied, page) \in Viewers
      /\ Jumped(applied, page).index = normalize_leading(n, view, "standalone", page)
      /\ Jumped(applied, page).open = opening /\ Jumped(applied, page).total = n
      /\ Jumped(applied, page).view = view
  BY <1>5, <1>7, <1>8, JumpedType DEF Viewers
<1>10. viewer' = Jumped(applied, page)
  BY <1>6 DEF Resumed, applied
<1> QED
  BY <1>1, <1>5, <1>6, <1>9, <1>10 DEF lib, view, page

LEMMA TypeStep ==
  ASSUME TypeInv, [Next]_vars
  PROVE  TypeInv'
<1>0. /\ library \in Shelves
      /\ settings \in Views
      /\ disk \in [library : Shelves, settings : Views]
      /\ viewer \in Viewers
      /\ dialog \in Dialogs
      /\ screen \in {"library", "viewer"}
      /\ opening \in Books \cup {NoBook}
      /\ dialog.snapshot # NoSnapshot => dialog.snapshot.view \in Views
  BY TypeForm DEF TypeInv
<1>a. NoView \notin Views /\ NoSnapshot \in Snapshots
  BY DEF NoSnapshot, Snapshots, Views, Layouts, NoView
<1>1. ASSUME NEW b \in Books, OpenStart(b) PROVE TypeInv'
  BY <1>0, <1>1, NewType DEF OpenStart
<1>2. CASE OpenFailed
  <2>1. library' \in Shelves /\ settings' \in Views /\ viewer' \in Viewers
        /\ dialog' \in Dialogs /\ dialog'.snapshot = NoSnapshot
    BY <1>2, EndType, OutgoingType DEF OpenFailed
  <2> QED
    BY <1>0, <1>2, <2>1, SavedType, NewType DEF OpenFailed, Land
<1>3. CASE OpenEmpty
  <2>1. opening \in Books /\ EndViewer.view \in Views
    BY <1>0, <1>3, EndType DEF OpenEmpty, Land, Viewers
  <2>2. library' \in Shelves /\ settings' \in Views /\ viewer' \in Viewers
        /\ dialog' \in Dialogs /\ dialog'.snapshot = NoSnapshot
    BY <1>3, <2>1, EndType, OutgoingType, WithoutType, ClosedType DEF OpenEmpty, Dialogs
  <2> QED
    BY <1>0, <1>3, <2>2, SavedType, NewType DEF OpenEmpty, Land
<1>4. ASSUME NEW n \in PageCounts, OpenSucceeded(n) PROVE TypeInv'
  <2>1. library' \in Shelves /\ viewer' \in Viewers
    BY <1>4, LandsOpen, OutgoingType, RegisterType
  <2>2. /\ settings' = EndSettings /\ dialog' = [EndDialog EXCEPT !.pending = NoView]
        /\ screen' = "viewer" /\ opening' = NoBook
        /\ BothSaved \/ LibrarySaved
    BY <1>4 DEF OpenSucceeded, Land
  <2>3. dialog' \in Dialogs /\ dialog'.snapshot = NoSnapshot
    BY <2>2, EndType DEF Dialogs
  <2> QED
    BY <1>0, <2>1, <2>2, <2>3, EndType, SavedType, NewType
<1>5. CASE LeaveViewer
  <2>1. library' \in Shelves
    BY <1>0, <1>5, StagedType DEF LeaveViewer, Dialogs
  <2> QED
    BY <1>0, <1>5, <2>1, SavedType, NewType DEF LeaveViewer
<1>6. CASE CarouselBack
  BY <1>0, <1>6, NewType DEF CarouselBack
<1>7. ASSUME NEW page \in MaxIndex, GoToPage(page) PROVE TypeInv'
  <2>1. viewer' \in Viewers
    BY <1>0, <1>7, Indexes, JumpedType DEF GoToPage
  <2> QED
    BY <1>0, <1>7, <2>1, NewType DEF GoToPage
<1>8. CASE OpenSettings
  <2>1. viewer' \in Viewers
    BY <1>0, <1>8, AppliedType DEF OpenSettings
  <2>2. dialog' \in Dialogs /\ (dialog'.snapshot # NoSnapshot => dialog'.snapshot.view \in Views)
    BY <1>0, <1>8, SessionOpens DEF Viewers
  <2> QED
    BY <1>0, <1>8, <2>1, <2>2, NewType DEF OpenSettings
<1>9. ASSUME NEW view \in Views, SetMode(view) PROVE TypeInv'
  <2>1. viewer' \in Viewers
    BY <1>0, <1>9, AppliedType DEF SetMode
  <2> QED
    BY <1>0, <1>9, <2>1, NewType DEF SetMode
<1>10. CASE ResetOverrides
  <2>1. viewer' \in Viewers /\ viewer'.view = settings
    BY <1>0, <1>10, AppliedType DEF ResetOverrides, reset_to_global
  <2>2. dialog' \in Dialogs /\ dialog'.snapshot = dialog.snapshot
    BY <1>0, <1>10, <2>1 DEF ResetOverrides, reset_to_global, Dialogs
  <2>3. library' \in Shelves
    <3>1. Shelves = [shelf : SUBSET Books, book : [Books -> Records], last : Books \cup {NoBook}]
      BY DEF Shelves, Records, Counts, Overrides
    <3>2. CASE viewer.open \in library.shelf
      <4>1. viewer.open \in Books /\ library.book[viewer.open] \in Records
        BY <1>0, <3>1, <3>2
      <4>2. [library.book[viewer.open] EXCEPT !.override = Inherit] \in Records
        BY <4>1 DEF Records, Overrides
      <4>3. library' = [library EXCEPT !.book = [library.book EXCEPT
                  ![viewer.open] = [library.book[viewer.open] EXCEPT !.override = Inherit]]]
        BY <1>10, <3>2 DEF ResetOverrides
      <4> QED
        BY <1>0, <3>1, <4>1, <4>2, <4>3
    <3> QED
      BY <1>0, <1>10, <3>2 DEF ResetOverrides
  <2> QED
    BY <1>0, <1>10, <2>1, <2>2, <2>3, SavedType, NewType DEF ResetOverrides, LibrarySaved
<1>11. CASE CloseOnLibrary
  <2>1. viewer' \in Viewers /\ settings' \in Views
    BY <1>0, <1>11, EndType DEF CloseOnLibrary, Viewers
  <2>2. dialog' \in Dialogs /\ dialog'.snapshot = NoSnapshot
    BY <1>11, EndType DEF CloseOnLibrary, Dialogs
  <2> QED
    BY <1>0, <1>11, <2>1, <2>2, SavedType, NewType DEF CloseOnLibrary
<1>12. CASE CloseOnViewer
  <2>1. library' \in Shelves
    BY <1>0, <1>12, OverrideType DEF CloseOnViewer, Dialogs
  <2>2. dialog' \in Dialogs /\ dialog'.snapshot = NoSnapshot
    BY <1>12, EndType DEF CloseOnViewer, Dialogs
  <2> QED
    BY <1>0, <1>12, <2>1, <2>2, SavedType, NewType DEF CloseOnViewer
<1>13. ASSUME NEW b \in Books, NEW n \in PageCounts, AddBook(b, n) PROVE TypeInv'
  <2>1. library' \in Shelves
    <3>1. Shelves = [shelf : SUBSET Books, book : [Books -> Records], last : Books \cup {NoBook}]
      BY DEF Shelves, Records, Counts, Overrides
    <3>2. [library.book[b] EXCEPT !.count = n] \in Records
      BY <1>0, <3>1 DEF Records, Counts
    <3>3. library' = [library EXCEPT !.shelf = library.shelf \cup {b},
                        !.book = [library.book EXCEPT
                                    ![b] = [library.book[b] EXCEPT !.count = n]]]
      BY <1>0, <1>13, <3>1 DEF AddBook
    <3> QED
      BY <1>0, <3>1, <3>2, <3>3
  <2> QED
    BY <1>0, <1>13, <2>1, SavedType, NewType DEF AddBook
<1>14. ASSUME NEW gone \in SUBSET Books, RemoveBooks(gone) PROVE TypeInv'
  <2>1. library' \in Shelves
    BY <1>0, <1>14, WithoutType DEF RemoveBooks
  <2>2. viewer' \in Viewers /\ dialog' \in Dialogs /\ dialog'.snapshot = dialog.snapshot
    BY <1>0, <1>14, ClosedType DEF RemoveBooks, Viewers, Dialogs
  <2> QED
    BY <1>0, <1>14, <2>1, <2>2, NewType DEF RemoveBooks
<1>15. ASSUME NEW b \in Books, EmptyBookDetected(b) PROVE TypeInv'
  <2>1. library' \in Shelves
    BY <1>0, <1>15, WithoutType DEF EmptyBookDetected
  <2> QED
    BY <1>0, <1>15, <2>1, SavedType, NewType DEF EmptyBookDetected
<1>16. CASE ClearHistory
  BY <1>0, <1>16, EmptyType, SavedType, NewType DEF ClearHistory
<1>17. CASE QuitAndStart
  <2>1. ExitSettings \in Views
    BY EndType DEF ExitSettings, Viewers
  <2>2. Outgoing \in Shelves
    BY OutgoingType
  <2> QED
    BY <1>17, <2>1, <2>2, BootType DEF QuitAndStart, Outgoing
<1>18. CASE CrashAndStart
  BY <1>0, <1>18, BootType DEF CrashAndStart
<1>19. CASE UNCHANGED vars
  BY <1>0, <1>19, NewType DEF vars
<1> QED
  BY <1>1, <1>2, <1>3, <1>4, <1>5, <1>6, <1>7, <1>8, <1>9, <1>10, <1>11, <1>12, <1>13,
     <1>14, <1>15, <1>16, <1>17, <1>18, <1>19 DEF Next

\* Every record, index and view stays in range, whatever is opened, removed,
\* edited, quit or lost: no handler stores a position past the largest book.
THEOREM SessionTypes == Spec => []TypeOK
<1>1. Init => TypeInv
  <2> SUFFICES ASSUME Init PROVE TypeInv
    OBVIOUS
  <2>1. NoDialog \in Dialogs /\ NoDialog.snapshot = NoSnapshot
    BY DEF NoDialog, NoSnapshot, Dialogs, Snapshots
  <2> QED
    BY <2>1, TypeForm, EmptyType, ClosedType DEF Init, TypeInv
<1>2. TypeInv /\ [Next]_vars => TypeInv'
  BY TypeStep
<1>3. TypeInv => TypeOK
  BY DEF TypeInv
<1> QED
  BY <1>1, <1>2, <1>3, PTL DEF Spec

-----------------------------------------------------------------------------
(* The disk and the dialog session. *)

\* A session names the screen it was opened from, while its dialog is up, and
\* the reset button never shows in a Library-scope session.
SessionInv ==
  /\ SnapshotBelongsToSession
  /\ dialog.scope # "none" => dialog.shown /\ dialog.scope = screen
  /\ dialog.shown /\ dialog.per_book => dialog.scope # "library"

Inv == TypeInv /\ LibraryIsOnDisk /\ SessionInv

LEMMA InvInit == Init => Inv
<1> SUFFICES ASSUME Init PROVE Inv
  OBVIOUS
<1>1. NoDialog \in Dialogs /\ NoDialog.snapshot = NoSnapshot /\ NoDialog.scope = "none"
  BY DEF NoDialog, NoSnapshot, Dialogs, Snapshots
<1>2. TypeInv
  BY <1>1, TypeForm, EmptyType, ClosedType DEF Init, TypeInv
<1> QED
  BY <1>1, <1>2 DEF Init, Inv, LibraryIsOnDisk, SessionInv, SnapshotBelongsToSession, Closed

LEMMA DiskStep ==
  ASSUME TypeInv, LibraryIsOnDisk, [Next]_vars
  PROVE  LibraryIsOnDisk'
<1>1. disk \in [library : Shelves, settings : Views] /\ disk.library = library
  BY TypeForm DEF TypeInv, LibraryIsOnDisk
<1>2. CASE UNCHANGED vars
  BY <1>1, <1>2 DEF vars, LibraryIsOnDisk
<1>3. CASE UNCHANGED <<library, disk>>
  BY <1>1, <1>3 DEF LibraryIsOnDisk
<1>4. CASE disk' = [disk EXCEPT !.library = library'] \/ BothSaved
  BY <1>1, <1>4 DEF LibraryIsOnDisk, BothSaved
<1>5. ASSUME NEW stored, Boot(stored) PROVE LibraryIsOnDisk'
  BY <1>5 DEF Boot, LibraryIsOnDisk
<1>6. CASE Next
  <2>1. \/ UNCHANGED <<library, disk>>
        \/ disk' = [disk EXCEPT !.library = library']
        \/ BothSaved
        \/ \E stored : Boot(stored)
        \/ ResetOverrides
    BY <1>6, Zenon DEF Next, OpenStart, OpenFailed, OpenEmpty, OpenSucceeded, LeaveViewer,
       CarouselBack, GoToPage, OpenSettings, SetMode, CloseOnLibrary, CloseOnViewer,
       AddBook, RemoveBooks, EmptyBookDetected, ClearHistory, QuitAndStart, CrashAndStart,
       LibrarySaved
  \* Without an open book there is nothing to reset, and nothing is saved.
  <2>2. CASE ResetOverrides
    <3>1. CASE viewer.open = NoBook
      <4>1. viewer.open \notin library.shelf
        BY <3>1, NoBookAssumption, TypeForm DEF TypeInv, Shelves
      <4> QED
        BY <1>3, <2>2, <3>1, <4>1 DEF ResetOverrides
    <3>2. CASE viewer.open # NoBook
      BY <1>4, <2>2, <3>2 DEF ResetOverrides, LibrarySaved
    <3> QED
      BY <3>1, <3>2
  <2> QED
    BY <2>1, <2>2, <1>3, <1>4, <1>5
<1> QED
  BY <1>2, <1>6

LEMMA SessionStep ==
  ASSUME TypeInv, SessionInv, [Next]_vars
  PROVE  SessionInv'
<1>0. /\ viewer \in Viewers /\ settings \in Views
      /\ dialog \in Dialogs
      /\ screen \in {"library", "viewer"}
      /\ opening \in Books \cup {NoBook}
  BY TypeForm DEF TypeInv
<1>a. /\ dialog.snapshot # NoSnapshot <=> dialog.scope = "library" /\ viewer.open # NoBook
      /\ dialog.scope # "none" => dialog.shown /\ dialog.scope = screen
      /\ dialog.shown /\ dialog.per_book => dialog.scope # "library"
  BY DEF SessionInv, SnapshotBelongsToSession
\* A session that has ended, or was never begun.
<1>b. ASSUME dialog'.scope = "none", dialog'.snapshot = NoSnapshot PROVE SessionInv'
  BY <1>b DEF SessionInv, SnapshotBelongsToSession
\* Nothing of the session changes.
<1>c. ASSUME dialog'.scope = dialog.scope, dialog'.snapshot = dialog.snapshot,
             dialog'.shown = dialog.shown, dialog'.per_book = dialog.per_book,
             screen' = screen, viewer'.open = viewer.open
      PROVE  SessionInv'
  BY <1>a, <1>c DEF SessionInv, SnapshotBelongsToSession
\* Nothing of it changes, and none is under way.
<1>d. ASSUME ~dialog.shown, dialog'.scope = dialog.scope, dialog'.snapshot = dialog.snapshot
      PROVE  SessionInv'
  BY <1>a, <1>b, <1>d
<1>1. ASSUME NEW b \in Books, OpenStart(b) PROVE SessionInv'
  BY <1>1, <1>d DEF OpenStart
<1>2. CASE OpenFailed
  BY <1>2, <1>b, EndType DEF OpenFailed
<1>3. CASE OpenEmpty
  BY <1>3, <1>b, EndType DEF OpenEmpty, Dialogs
<1>4. ASSUME NEW n \in PageCounts, OpenSucceeded(n) PROVE SessionInv'
  <2>1. dialog' = [EndDialog EXCEPT !.pending = NoView]
    BY <1>4 DEF OpenSucceeded
  <2> QED
    BY <2>1, <1>b, EndType DEF Dialogs
<1>5. CASE LeaveViewer
  BY <1>5, <1>d DEF LeaveViewer
<1>6. CASE CarouselBack
  BY <1>6, <1>d DEF CarouselBack
<1>7. ASSUME NEW page \in MaxIndex, GoToPage(page) PROVE SessionInv'
  BY <1>7, <1>d DEF GoToPage
<1>8. CASE OpenSettings
  <2>1. viewer'.open = viewer.open /\ screen' = screen /\ ~dialog.shown
    BY <1>0, <1>8, AppliedType DEF OpenSettings
  <2>2. [view |-> viewer.view, pending |-> dialog.pending] # NoSnapshot
    BY <1>0 DEF NoSnapshot, NoView, Viewers, Views, Layouts
  <2> QED
    BY <1>0, <1>8, <1>a, <2>1, <2>2, SessionOpens DEF SessionInv, SnapshotBelongsToSession
<1>9. ASSUME NEW view \in Views, SetMode(view) PROVE SessionInv'
  BY <1>0, <1>9, <1>c, AppliedType DEF SetMode
<1>10. CASE ResetOverrides
  <2>1. dialog'.scope = dialog.scope /\ dialog'.snapshot = dialog.snapshot
        /\ dialog'.shown = dialog.shown /\ dialog'.per_book = dialog.per_book
    BY <1>0, <1>10 DEF ResetOverrides, reset_to_global, Dialogs
  <2> QED
    BY <1>0, <1>10, <1>c, <2>1, AppliedType DEF ResetOverrides, reset_to_global
<1>11. CASE CloseOnLibrary
  BY <1>11, <1>b, EndType DEF CloseOnLibrary, Dialogs
<1>12. CASE CloseOnViewer
  BY <1>12, <1>b, EndType DEF CloseOnViewer, Dialogs
<1>13. ASSUME NEW b \in Books, NEW n \in PageCounts, AddBook(b, n) PROVE SessionInv'
  BY <1>13, <1>c DEF AddBook
<1>14. ASSUME NEW gone \in SUBSET Books, RemoveBooks(gone) PROVE SessionInv'
  <2>1. dialog'.scope = dialog.scope /\ dialog'.snapshot = dialog.snapshot
    BY <1>0, <1>14 DEF RemoveBooks, Dialogs
  <2> QED
    BY <1>14, <1>d, <2>1 DEF RemoveBooks
<1>15. ASSUME NEW b \in Books, EmptyBookDetected(b) PROVE SessionInv'
  BY <1>15, <1>c DEF EmptyBookDetected
<1>16. CASE ClearHistory
  BY <1>16, <1>c DEF ClearHistory
<1>17. ASSUME NEW stored, Boot(stored) PROVE SessionInv'
  BY <1>17, <1>b DEF Boot, NoDialog
<1>18. CASE UNCHANGED vars
  BY <1>18, <1>c DEF vars
<1> QED
  BY <1>1, <1>2, <1>3, <1>4, <1>5, <1>6, <1>7, <1>8, <1>9, <1>10, <1>11, <1>12, <1>13,
     <1>14, <1>15, <1>16, <1>17, <1>18 DEF Next, QuitAndStart, CrashAndStart

LEMMA InvStep == Inv /\ [Next]_vars => Inv'
  BY TypeStep, DiskStep, SessionStep DEF Inv

\* A crash between two handlers never loses a change of the library: whatever a
\* handler does to the shelf or a record, it has saved before it returns.
THEOREM LibraryStaysOnDisk == Spec => []LibraryIsOnDisk
<1>1. Inv => LibraryIsOnDisk
  BY DEF Inv
<1> QED
  BY <1>1, InvInit, InvStep, PTL DEF Spec

\* The view a Library-scope dialog put aside belongs to the book that is open:
\* an open, a removal or an exit that lands under the dialog ends the session
\* and takes the snapshot with it (issues #414 and #535).
THEOREM SnapshotStaysWithItsSession == Spec => []SnapshotBelongsToSession
<1>1. Inv => SnapshotBelongsToSession
  BY DEF Inv, SessionInv
<1> QED
  BY <1>1, InvInit, InvStep, PTL DEF Spec

-----------------------------------------------------------------------------
(* What the reader asked for. *)

LEMMA AuditIsSession == [AuditNext]_auditVars => [Next]_vars
  BY DEF AuditNext, auditVars, vars, Next, Quietly, AuditOpenFailed, AuditOpenEmpty,
     AuditOpenSucceeded, AuditLeaveViewer, AuditSetMode, AuditResetOverrides,
     AuditRemoveBooks, AuditEmptyBookDetected, AuditClearHistory, AuditQuitAndStart,
     AuditCrashAndStart

\* Where the two preferences are kept.  A Library-scope dialog edits the global
\* default on the runtime view and the book's own one waits in the snapshot; at
\* any other time the runtime is the book's and the global default is settings.
Kept(wanted, own) ==
  /\ IF dialog.scope = "library" THEN viewer.view = wanted ELSE settings = wanted
  /\ dialog.shown /\ dialog.scope = "none" => screen = "viewer"
  /\ screen = "viewer" => viewer.open # NoBook
  /\ viewer.open = NoBook /\ dialog.scope # "library" => viewer.view = settings
  /\ viewer.open # NoBook =>
       own = IF dialog.scope = "library" THEN dialog.snapshot.view ELSE viewer.view

RecordInv == asked = [wanted |-> asked.wanted, own |-> asked.own, left |-> asked.left]

Preferences == Tracked => RecordInv /\ Kept(asked.wanted, asked.own)

LEMMA PreferencesFrom ==
  ASSUME NEW wanted, NEW own, NEW left, Kept(wanted, own)',
         asked' = Untracked \/ asked' = [wanted |-> wanted, own |-> own, left |-> left]
  PROVE  Preferences'
  BY DEF Preferences, RecordInv, Tracked, Kept

LEMMA PreferencesStep ==
  ASSUME Inv, NEW w, NEW o, NEW l, Tracked,
         asked = [wanted |-> w, own |-> o, left |-> l], Kept(w, o), AuditNext
  PROVE  Preferences'
<1>0. /\ viewer \in Viewers /\ settings \in Views
      /\ dialog \in Dialogs
      /\ screen \in {"library", "viewer"}
      /\ opening \in Books \cup {NoBook}
      /\ disk \in [library : Shelves, settings : Views]
      /\ TypeInv
  BY TypeForm DEF TypeInv, Inv
<1>a. /\ dialog.snapshot # NoSnapshot <=> dialog.scope = "library" /\ viewer.open # NoBook
      /\ dialog.scope # "none" => dialog.shown /\ dialog.scope = screen
      /\ dialog.shown /\ dialog.per_book => dialog.scope # "library"
  BY DEF Inv, SessionInv, SnapshotBelongsToSession
<1>k. /\ IF dialog.scope = "library" THEN viewer.view = w ELSE settings = w
      /\ dialog.shown /\ dialog.scope = "none" => screen = "viewer"
      /\ screen = "viewer" => viewer.open # NoBook
      /\ viewer.open = NoBook /\ dialog.scope # "library" => viewer.view = settings
      /\ viewer.open # NoBook =>
           o = IF dialog.scope = "library" THEN dialog.snapshot.view ELSE viewer.view
  BY DEF Kept
<1>r. /\ \A x : [asked EXCEPT !.wanted = x] = [wanted |-> x, own |-> o, left |-> l]
      /\ \A x : [asked EXCEPT !.own = x] = [wanted |-> w, own |-> x, left |-> l]
      /\ \A x : [asked EXCEPT !.left = x] = [wanted |-> w, own |-> o, left |-> x]
  OBVIOUS
\* The library is changed and nothing the preferences are about.
<1>b. ASSUME UNCHANGED <<settings, viewer, dialog, screen>>, NEW x,
             asked' = [wanted |-> w, own |-> o, left |-> x] \/ asked' = Untracked
      PROVE  Preferences'
  BY <1>b, <1>k, PreferencesFrom DEF Kept
\* What ending the session leaves behind.
<1>e. /\ EndSettings = w
      /\ viewer.open # NoBook => EndViewer.view = o
      /\ viewer.open = NoBook => EndViewer.view = viewer.view
      /\ EndViewer.open = viewer.open
      /\ EndDialog.scope = "none" /\ EndDialog.shown = dialog.shown
  BY <1>0, <1>a, <1>k, EndType DEF EndSettings
<1>1. ASSUME NEW b \in Books, Quietly(OpenStart(b)) PROVE Preferences'
  BY <1>1, <1>b DEF Quietly, OpenStart
<1>2. CASE AuditOpenFailed
  <2>1. CASE dialog.shown
    BY <1>2, <2>1 DEF AuditOpenFailed, Follow, Preferences, Tracked
  <2>2. CASE ~dialog.shown
    <3>1. PICK x : asked' = [wanted |-> w, own |-> o, left |-> x]
      BY <1>2, <2>2, <1>r DEF AuditOpenFailed, Follow, Track
    <3>2. Kept(w, o)'
      BY <1>2, <2>2, <1>a, <1>k, <1>e DEF AuditOpenFailed, OpenFailed, Kept
    <3> QED
      BY <3>1, <3>2, PreferencesFrom
  <2> QED
    BY <2>1, <2>2
<1>3. CASE AuditOpenEmpty
  <2>1. CASE dialog.shown \/ viewer.open # NoBook
    BY <1>3, <2>1 DEF AuditOpenEmpty, Follow, Preferences, Tracked
  <2>2. CASE ~(dialog.shown \/ viewer.open # NoBook)
    <3>1. PICK x : asked' = [wanted |-> w, own |-> o, left |-> x]
      BY <1>3, <2>2, <1>r DEF AuditOpenEmpty, Follow, Track
    <3>2. dialog'.scope = "none" /\ ~dialog'.shown
      BY <1>3, <2>2, EndType, <1>0 DEF AuditOpenEmpty, OpenEmpty, Dialogs
    <3>3. Kept(w, o)'
      BY <1>3, <2>2, <3>2, <1>a, <1>k, <1>e DEF AuditOpenEmpty, OpenEmpty, Kept, Closed
    <3> QED
      BY <3>1, <3>3, PreferencesFrom
  <2> QED
    BY <2>1, <2>2
<1>4. ASSUME NEW n \in PageCounts, AuditOpenSucceeded(n) PROVE Preferences'
  <2>1. PICK x, y : x = viewer'.view /\ asked' = [wanted |-> w, own |-> x, left |-> y]
    BY <1>4 DEF AuditOpenSucceeded, Track
  <2>2. /\ settings' = EndSettings /\ screen' = "viewer" /\ opening # NoBook
        /\ dialog' = [EndDialog EXCEPT !.pending = NoView]
    BY <1>4 DEF AuditOpenSucceeded, OpenSucceeded, Land
  <2>3. dialog'.scope = "none"
    BY <2>2, EndType, <1>0 DEF Dialogs
  <2>4. viewer'.open = opening
    BY <1>0, <1>4, <2>2, LandsOpen DEF AuditOpenSucceeded
  <2>5. Kept(w, x)'
    BY <1>e, <2>1, <2>2, <2>3, <2>4 DEF Kept
  <2> QED
    BY <2>1, <2>5, PreferencesFrom
<1>5. CASE AuditLeaveViewer
  <2>1. PICK x : asked' = [wanted |-> w, own |-> o, left |-> x]
    BY <1>5, <1>r DEF AuditLeaveViewer, Track
  <2>2. Kept(w, o)'
    BY <1>5, <1>a, <1>k DEF AuditLeaveViewer, LeaveViewer, Kept
  <2> QED
    BY <2>1, <2>2, PreferencesFrom
<1>6. CASE Quietly(CarouselBack)
  <2>1. Kept(w, o)'
    BY <1>6, <1>a, <1>k DEF Quietly, CarouselBack, Kept
  <2> QED
    BY <1>6, <2>1, PreferencesFrom DEF Quietly
<1>7. ASSUME NEW page \in MaxIndex, Quietly(GoToPage(page)) PROVE Preferences'
  <2>1. viewer'.view = viewer.view /\ viewer'.open = viewer.open
    BY <1>0, <1>7, Indexes, JumpedType DEF Quietly, GoToPage
  <2>2. Kept(w, o)'
    BY <1>7, <1>k, <2>1 DEF Quietly, GoToPage, Kept
  <2> QED
    BY <1>7, <2>2, PreferencesFrom DEF Quietly
<1>8. CASE Quietly(OpenSettings)
  <2>1. OpenSettings /\ asked' = asked
    BY <1>8 DEF Quietly
  <2>2. /\ ~dialog.shown /\ UNCHANGED <<settings, screen>>
        /\ viewer'.open = viewer.open
        /\ viewer'.view = IF screen = "library" THEN settings ELSE viewer.view
    BY <1>0, <2>1, AppliedType DEF OpenSettings
  <2>3. Kept(w, o)'
    BY <1>0, <1>a, <1>k, <2>1, <2>2, SessionOpens DEF Kept
  <2> QED
    BY <2>1, <2>3, PreferencesFrom
<1>9. ASSUME NEW view \in Views, AuditSetMode(view) PROVE Preferences'
  <2>1. /\ dialog.shown \/ screen = "viewer"
        /\ UNCHANGED <<settings, dialog, screen>>
        /\ viewer'.open = viewer.open /\ viewer'.view = view
    BY <1>0, <1>9, AppliedType DEF AuditSetMode, SetMode
  <2>2. CASE screen = "library"
    <3>1. asked' = [wanted |-> view, own |-> o, left |-> l]
      BY <1>9, <1>r, <2>2 DEF AuditSetMode, Track
    <3>2. Kept(view, o)'
      BY <1>0, <1>a, <1>k, <2>1, <2>2 DEF Kept, Dialogs
    <3> QED
      BY <3>1, <3>2, PreferencesFrom
  <2>3. CASE screen = "viewer"
    <3>1. asked' = [wanted |-> w, own |-> view, left |-> l]
      BY <1>9, <1>r, <2>3 DEF AuditSetMode, Track
    <3>2. Kept(w, view)'
      BY <1>0, <1>a, <1>k, <2>1, <2>3 DEF Kept, Dialogs
    <3> QED
      BY <3>1, <3>2, PreferencesFrom
  <2> QED
    BY <1>0, <2>2, <2>3
<1>10. CASE AuditResetOverrides
  <2>1. /\ dialog.shown /\ dialog.per_book
        /\ UNCHANGED <<settings, screen>>
        /\ viewer'.open = viewer.open /\ viewer'.view = settings
        /\ dialog'.scope = dialog.scope
    BY <1>0, <1>10, AppliedType DEF AuditResetOverrides, ResetOverrides, reset_to_global, Dialogs
  <2>2. PICK x : x = settings /\ asked' = [wanted |-> w, own |-> x, left |-> l]
    BY <1>10, <1>r DEF AuditResetOverrides, Track
  <2>3. Kept(w, x)'
    BY <1>a, <1>k, <2>1, <2>2 DEF Kept
  <2> QED
    BY <2>2, <2>3, PreferencesFrom
<1>11. CASE Quietly(CloseOnLibrary)
  <2>1. /\ dialog.shown
        /\ dialog.scope = "library" \/ (dialog.scope = "none" /\ screen = "library")
        /\ settings' = viewer.view /\ viewer' = EndViewer /\ screen' = screen
        /\ asked' = asked
    BY <1>11 DEF Quietly, CloseOnLibrary, CloseScope
  <2>2. dialog'.scope = "none" /\ ~dialog'.shown
    BY <1>0, <1>11, EndType DEF Quietly, CloseOnLibrary, Dialogs
  <2>3. Kept(w, o)'
    BY <1>a, <1>k, <1>e, <2>1, <2>2 DEF Kept
  <2> QED
    BY <2>1, <2>3, PreferencesFrom
<1>12. CASE Quietly(CloseOnViewer)
  <2>1. /\ dialog.scope # "library"
        /\ UNCHANGED <<settings, viewer, screen>> /\ asked' = asked
    BY <1>12 DEF Quietly, CloseOnViewer, CloseScope
  <2>2. dialog'.scope = "none" /\ ~dialog'.shown
    BY <1>0, <1>12, EndType DEF Quietly, CloseOnViewer, Dialogs
  <2>3. Kept(w, o)'
    BY <1>a, <1>k, <2>1, <2>2 DEF Kept
  <2> QED
    BY <2>1, <2>3, PreferencesFrom
<1>13. ASSUME NEW b \in Books, NEW n \in PageCounts, Quietly(AddBook(b, n)) PROVE Preferences'
  BY <1>13, <1>b DEF Quietly, AddBook
<1>14. ASSUME NEW gone \in SUBSET Books, AuditRemoveBooks(gone) PROVE Preferences'
  <2>1. CASE viewer.open \in gone
    BY <1>14, <2>1 DEF AuditRemoveBooks, Follow, Preferences, Tracked
  <2>2. CASE viewer.open \notin gone
    <3>1. PICK x : asked' = [wanted |-> w, own |-> o, left |-> x]
      BY <1>14, <2>2, <1>r DEF AuditRemoveBooks, Follow, Track, Forgotten
    <3> QED
      BY <1>14, <2>2, <3>1, <1>b DEF AuditRemoveBooks, RemoveBooks
  <2> QED
    BY <2>1, <2>2
<1>15. ASSUME NEW b \in Books, AuditEmptyBookDetected(b) PROVE Preferences'
  <2>1. PICK x : asked' = [wanted |-> w, own |-> o, left |-> x]
    BY <1>15, <1>r DEF AuditEmptyBookDetected, Track, Forgotten
  <2> QED
    BY <1>15, <2>1, <1>b DEF AuditEmptyBookDetected, EmptyBookDetected
<1>16. CASE AuditClearHistory
  <2>1. PICK x : asked' = [wanted |-> w, own |-> o, left |-> x]
    BY <1>16, <1>r DEF AuditClearHistory, Track, Forgotten
  <2> QED
    BY <1>16, <2>1, <1>b DEF AuditClearHistory, ClearHistory
<1>17. CASE AuditQuitAndStart
  <2>1. PICK x : asked' = [wanted |-> w, own |-> o, left |-> x]
    BY <1>17, <1>r DEF AuditQuitAndStart, Track
  <2>2. ExitSettings = w
    BY <1>a, <1>k, <1>e DEF ExitSettings
  <2>3. Kept(w, o)'
    BY <1>17, <2>2 DEF AuditQuitAndStart, QuitAndStart, Boot, NoDialog, Closed, Kept
  <2> QED
    BY <2>1, <2>3, PreferencesFrom
<1>18. CASE AuditCrashAndStart
  <2>1. PICK x : x = disk.settings /\ asked' = [wanted |-> x, own |-> o, left |-> l]
    BY <1>18, <1>r DEF AuditCrashAndStart, Track
  <2>2. Kept(x, o)'
    BY <1>18, <2>1 DEF AuditCrashAndStart, CrashAndStart, Boot, NoDialog, Closed, Kept
  <2> QED
    BY <2>1, <2>2, PreferencesFrom
<1> QED
  BY <1>1, <1>2, <1>3, <1>4, <1>5, <1>6, <1>7, <1>8, <1>9, <1>10, <1>11, <1>12, <1>13,
     <1>14, <1>15, <1>16, <1>17, <1>18 DEF AuditNext

LEMMA AuditInitInv == AuditInit => Inv /\ Preferences
<1> SUFFICES ASSUME AuditInit PROVE Inv /\ Preferences
  OBVIOUS
<1>1. Inv
  BY InvInit DEF AuditInit
<1>2. Preferences
  BY DEF AuditInit, Init, Preferences, RecordInv, Kept, NoDialog, Closed
<1> QED
  BY <1>1, <1>2

LEMMA UntrackedForGood ==
  ASSUME AuditNext, asked = Untracked
  PROVE  asked' = Untracked
  BY DEF AuditNext, Quietly, AuditOpenFailed, AuditOpenEmpty, AuditOpenSucceeded,
     AuditLeaveViewer, AuditSetMode, AuditResetOverrides, AuditRemoveBooks,
     AuditEmptyBookDetected, AuditClearHistory, AuditQuitAndStart, AuditCrashAndStart,
     Follow, Track, Tracked

LEMMA PreferencesKept == Inv /\ Preferences /\ [AuditNext]_auditVars => Preferences'
<1> SUFFICES ASSUME Inv, Preferences, [AuditNext]_auditVars PROVE Preferences'
  OBVIOUS
<1>1. CASE UNCHANGED auditVars
  BY <1>1 DEF auditVars, vars, Preferences, RecordInv, Kept, Tracked
<1>2. CASE AuditNext /\ asked = Untracked
  BY <1>2, UntrackedForGood DEF Preferences, Tracked
<1>3. CASE AuditNext /\ Tracked
  BY <1>3, PreferencesStep DEF Preferences, RecordInv
<1> QED
  BY <1>1, <1>2, <1>3 DEF Tracked

\* One book's view never becomes the global default, and a default that was
\* asked for is never dropped: not by an open that lands under the dialog, not
\* by an exit, a removal or a restart (ADR-0007).
THEOREM GlobalIsKept == AuditSpec => []GlobalIsWhatWasAsked
<1>1. Inv /\ [AuditNext]_auditVars => Inv'
  BY AuditIsSession, InvStep
<1>2. Inv /\ Preferences => GlobalIsWhatWasAsked
  BY DEF Inv, SessionInv, Preferences, Kept, GlobalIsWhatWasAsked
<1> QED
  BY <1>1, <1>2, AuditInitInv, PreferencesKept, PTL DEF AuditSpec

\* The scratchpad of a global edit never reaches the open book: outside the
\* Library-scope dialog the runtime is the view the reader gave this book.
THEOREM OwnViewIsKept == AuditSpec => []OwnViewSurvives
<1>1. Inv /\ [AuditNext]_auditVars => Inv'
  BY AuditIsSession, InvStep
<1>2. Inv /\ Preferences => OwnViewSurvives
  BY DEF Preferences, Kept, OwnViewSurvives
<1> QED
  BY <1>1, <1>2, AuditInitInv, PreferencesKept, PTL DEF AuditSpec

-----------------------------------------------------------------------------
(* Reopening. *)

\* v is at a spread of its own book.
Leading(v) ==
  /\ v.total \in Nat \ {0} /\ v.view \in Views
  /\ v.index \in 0 .. v.total - 1
  /\ normalize_leading(v.total, v.view, "standalone", v.index) = v.index

\* normalize_leading is idempotent.
LEMMA NormalizeLeads ==
  ASSUME NEW n \in Nat \ {0}, NEW layout \in Layouts, NEW i \in Nat
  PROVE  LET lead == normalize_leading(n, layout, "standalone", i)
         IN  lead \in 0 .. n - 1 /\ normalize_leading(n, layout, "standalone", lead) = lead
  BY DEF normalize_leading, clamp_index, AtMost, Monus, Layouts, last_start_standalone

\* The page stored for a spread leads back to that spread, under its own view.
LEMMA ResumeReturns ==
  ASSUME NEW v, Leading(v)
  PROVE  LET page == resume_index_to_persist(v)
         IN  /\ page \in 0 .. v.total - 1
             /\ normalize_leading(v.total, v.view, "standalone", page) = v.index
<1> DEFINE n == v.total
           i == v.index
           layout == v.view
           pages == Pages(spread_at(n, layout, "standalone", i))
<1>1. n \in Nat \ {0} /\ layout \in Layouts /\ i \in 0 .. n - 1
      /\ normalize_leading(n, layout, "standalone", i) = i
  BY DEF Leading, Views
<1>2. pages = IF layout = "single" \/ i = 0 \/ i + 1 >= n THEN {i} ELSE {i, i + 1}
  BY <1>1 DEF Pages, spread_at, pair_trailing, clamp_index, AtMost, Monus, NoPage
<1>3. resume_index_to_persist(v) = IF n - 1 \in pages THEN n - 1 ELSE i
  BY <1>1 DEF resume_index_to_persist
<1> HIDE DEF n, i, layout, pages
<1>4. CASE n - 1 \notin pages
  BY <1>1, <1>3, <1>4 DEF n, i, layout
<1>5. CASE n - 1 \in pages
  <2>1. n - 1 = i \/ (layout # "single" /\ i # 0 /\ n - 1 = i + 1)
    BY <1>1, <1>2, <1>5
  <2>2. normalize_leading(n, layout, "standalone", n - 1) = i
    BY <1>1, <2>1 DEF normalize_leading, clamp_index, AtMost, Monus, Layouts,
       last_start_standalone
  <2> QED
    BY <1>1, <1>3, <1>5, <2>2 DEF n, i, layout
<1> QED
  BY <1>4, <1>5

LEMMA AppliedLeads ==
  ASSUME NEW v \in Viewers, Leading(v), NEW view \in Views
  PROVE  Leading(Applied(v, view))
<1>1. v.total \in Nat \ {0} /\ v.index \in Nat
  BY DEF Leading
<1> DEFINE lead == normalize_leading(v.total, view, "standalone", v.index)
<1>2. lead \in 0 .. v.total - 1 /\ normalize_leading(v.total, view, "standalone", lead) = lead
  BY <1>1, NormalizeLeads DEF Views
<1> HIDE DEF lead
<1>3. CASE view = v.view
  <2>1. Applied(v, view) = [v EXCEPT !.view = view, !.index = v.index]
    BY <1>3 DEF Applied
  <2> QED
    BY <1>3, <2>1 DEF Leading, Viewers
<1>4. CASE view # v.view
  <2>1. Applied(v, view) = [v EXCEPT !.view = view, !.index = lead]
    BY <1>1, <1>4 DEF Applied, lead
  <2> QED
    BY <1>1, <1>2, <2>1 DEF Leading, Viewers
<1> QED
  BY <1>3, <1>4

LEMMA JumpedLeads ==
  ASSUME NEW v \in Viewers, Leading(v), NEW page \in Nat
  PROVE  Leading(Jumped(v, page))
<1>1. v.total \in Nat \ {0} /\ v.view \in Views
  BY DEF Leading
<1> DEFINE lead == normalize_leading(v.total, v.view, "standalone", page)
<1>2. lead \in 0 .. v.total - 1 /\ normalize_leading(v.total, v.view, "standalone", lead) = lead
  BY <1>1, NormalizeLeads DEF Views
<1> HIDE DEF lead
<1>3. Jumped(v, page) = [v EXCEPT !.index = lead]
  BY <1>1 DEF Jumped, lead
<1> QED
  BY <1>1, <1>2, <1>3 DEF Leading, Viewers

\* An open book is at one of its spreads.
PositionInv == viewer.open # NoBook => Leading(viewer)

LEMMA EndLeads ==
  ASSUME TypeInv, PositionInv, viewer.open # NoBook
  PROVE  Leading(EndViewer)
<1>1. viewer \in Viewers /\ (dialog.snapshot # NoSnapshot => dialog.snapshot.view \in Views)
  BY TypeForm DEF TypeInv
<1> QED
  BY <1>1, AppliedLeads DEF PositionInv, EndViewer

LEMMA PositionStep ==
  ASSUME TypeInv, PositionInv, [Next]_vars
  PROVE  PositionInv'
<1>0. viewer \in Viewers /\ settings \in Views
  BY TypeForm DEF TypeInv
<1>a. ASSUME NEW view, viewer' = Closed(view) PROVE PositionInv'
  BY <1>a DEF PositionInv, Closed
<1>b. ASSUME NEW view \in Views, viewer' = Applied(viewer, view) PROVE PositionInv'
  BY <1>0, <1>b, AppliedType, AppliedLeads DEF PositionInv, Leading
<1>c. ASSUME viewer' = EndViewer PROVE PositionInv'
  BY <1>c, EndType, EndLeads DEF PositionInv, Leading
<1>d. ASSUME viewer' = viewer PROVE PositionInv'
  BY <1>d DEF PositionInv, Leading
<1>1. ASSUME NEW n \in PageCounts, OpenSucceeded(n) PROVE PositionInv'
  <2> DEFINE view == resolve(register_opened(Outgoing, opening, n).book[opening].override,
                             EndSettings)
             page == register_opened(Outgoing, opening, n).book[opening].resume
  <2>1. /\ n \in Nat \ {0} /\ view \in Views /\ page \in Nat
        /\ viewer'.total = n /\ viewer'.view = view
        /\ viewer'.index = normalize_leading(n, view, "standalone", page)
    BY <1>1, LandsOpen
  <2> HIDE DEF view, page
  <2> QED
    BY <2>1, NormalizeLeads DEF PositionInv, Leading, Views
<1>2. ASSUME NEW page \in MaxIndex, GoToPage(page) PROVE PositionInv'
  BY <1>0, <1>2, Indexes, JumpedType, JumpedLeads DEF GoToPage, PositionInv, Leading
<1>3. CASE \E gone \in SUBSET Books : RemoveBooks(gone)
  BY <1>3, <1>a, <1>d DEF RemoveBooks
<1>4. CASE OpenSettings
  BY <1>0, <1>4, <1>b, <1>d DEF OpenSettings
<1>5. CASE ResetOverrides \/ \E view \in Views : SetMode(view)
  BY <1>0, <1>5, <1>b DEF ResetOverrides, reset_to_global, SetMode
<1>6. CASE OpenFailed \/ CloseOnLibrary
  BY <1>6, <1>c DEF OpenFailed, CloseOnLibrary
<1>7. CASE OpenEmpty \/ QuitAndStart \/ CrashAndStart
  BY <1>7, <1>a DEF OpenEmpty, QuitAndStart, CrashAndStart, Boot
<1>8. CASE \/ \E b \in Books : OpenStart(b) \/ EmptyBookDetected(b)
           \/ \E b \in Books, n \in PageCounts : AddBook(b, n)
           \/ LeaveViewer \/ CarouselBack \/ CloseOnViewer \/ ClearHistory
           \/ UNCHANGED vars
  BY <1>8, <1>d DEF OpenStart, EmptyBookDetected, AddBook, LeaveViewer, CarouselBack,
     CloseOnViewer, ClearHistory, vars
<1> QED
  BY <1>1, <1>2, <1>3, <1>4, <1>5, <1>6, <1>7, <1>8, Zenon DEF Next

\* What is remembered of a leave point can be got back from the stored record.
Remembered(left, record) ==
  left.total # 0 => Leading(left) /\ record.resume = resume_index_to_persist(left)

AllRemembered(left, lib) ==
  /\ left = [b \in Books |-> left[b]]
  /\ \A b \in Books : Remembered(left[b], lib.book[b])

MemoryInv == Tracked => AllRemembered(asked.left, library)

\* A leave point of the viewer v remembers what it stages.
LEMMA LeaveRemembers ==
  ASSUME Inv, MemoryInv, Tracked,
         NEW v \in Viewers, v.open # NoBook => Leading(v),
         NEW global \in Views, NEW pending \in Views \cup {NoView}
  PROVE  AllRemembered(LeftBy(v), Staged(library, v, global, pending))
<1>0. library \in Shelves /\ AllRemembered(asked.left, library)
  BY TypeForm DEF TypeInv, Inv, MemoryInv
<1> DEFINE staged == Staged(library, v, global, pending)
           left == [index |-> v.index, total |-> v.total, view |-> v.view]
<1>1. \A b \in Books :
        staged.book[b].resume = IF b = v.open /\ b \in library.shelf
                                  THEN resume_index_to_persist(v) ELSE library.book[b].resume
  BY <1>0, StagedType
<1> HIDE DEF staged
<1>2. CASE v.open \notin library.shelf
  <2>1. LeftBy(v) = asked.left
    BY <1>2 DEF LeftBy
  <2>2. \A b \in Books : staged.book[b].resume = library.book[b].resume
    BY <1>1, <1>2
  <2>3. AllRemembered(asked.left, staged)
    BY <1>0, <2>2 DEF AllRemembered, Remembered
  <2> QED
    BY <2>1, <2>3 DEF staged
<1>3. CASE v.open \in library.shelf
  <2>1. v.open \in Books /\ Leading(v)
    BY <1>0, <1>3 DEF Shelves
  <2>2. left.index = v.index /\ left.total = v.total /\ left.view = v.view
    OBVIOUS
  <2> HIDE DEF left
  <2>3. Leading(left) /\ resume_index_to_persist(left) = resume_index_to_persist(v)
    BY <2>1, <2>2 DEF Leading, resume_index_to_persist
  <2>4. LeftBy(v) = [asked.left EXCEPT ![v.open] = left]
    BY <1>3 DEF LeftBy, left
  <2>5. /\ LeftBy(v) = [b \in Books |-> LeftBy(v)[b]]
        /\ \A b \in Books : LeftBy(v)[b] = IF b = v.open THEN left ELSE asked.left[b]
    BY <1>0, <2>1, <2>4 DEF AllRemembered
  <2>6. ASSUME NEW b \in Books PROVE Remembered(LeftBy(v)[b], staged.book[b])
    <3>1. CASE b = v.open
      BY <1>1, <1>3, <2>3, <2>5, <3>1 DEF Remembered
    <3>2. CASE b # v.open
      BY <1>0, <1>1, <2>5, <3>2 DEF AllRemembered, Remembered
    <3> QED
      BY <3>1, <3>2
  <2> QED
    BY <2>5, <2>6 DEF AllRemembered, staged
<1> QED
  BY <1>2, <1>3 DEF staged

\* The leave point of every landing and of the exit.
LEMMA EndRemembers ==
  ASSUME Inv, MemoryInv, Tracked, PositionInv
  PROVE  AllRemembered(LeftBy(EndViewer), Outgoing)
<1>1. TypeInv /\ EndDialog.pending \in Views \cup {NoView}
  BY EndType DEF Inv, Dialogs
<1>2. EndViewer.open # NoBook => Leading(EndViewer)
  BY <1>1, EndType, EndLeads
<1> QED
  BY <1>1, <1>2, EndType, LeaveRemembers DEF Outgoing

\* A removed book is forgotten with its record.
LEMMA Forgets ==
  ASSUME NEW left, NEW lib \in Shelves, AllRemembered(left, lib), NEW gone \in SUBSET Books
  PROVE  AllRemembered([b \in Books |-> IF b \in gone THEN Nowhere ELSE left[b]],
                       Without(lib, gone))
<1>1. Nowhere.total = 0
  BY DEF Nowhere
<1>2. ASSUME NEW b \in Books
      PROVE  Remembered(IF b \in gone THEN Nowhere ELSE left[b], Without(lib, gone).book[b])
  BY <1>1 DEF AllRemembered, Remembered, Without
<1> QED
  BY <1>2 DEF AllRemembered

\* What a landing remembers: the newly opened book only if its page count is
\* the one it was left with, and then its stored page is not cut.
LEMMA OpenRemembers ==
  ASSUME NEW left, NEW lib \in Shelves, AllRemembered(left, lib),
         NEW b \in Books, NEW n \in PageCounts, n > 0
  PROVE  AllRemembered([left EXCEPT ![b] = IF @.total = n THEN @ ELSE Nowhere],
                       register_opened(lib, b, n))
<1> DEFINE after == [left EXCEPT ![b] = IF @.total = n THEN @ ELSE Nowhere]
           registered == register_opened(lib, b, n)
<1>0. n \in Nat \ {0} /\ Nowhere.total = 0
  BY DEF Nowhere
<1>1. Shelves = [shelf : SUBSET Books, book : [Books -> Records], last : Books \cup {NoBook}]
  BY DEF Shelves, Records, Counts, Overrides
<1>2. registered.book = [lib.book EXCEPT ![b].count = n, ![b].resume = AtMost(@, n - 1)]
  BY DEF register_opened
<1>3. lib.book[b] \in Records
  BY <1>1
<1>4. registered.book[b].resume = AtMost(lib.book[b].resume, n - 1)
      /\ \A c \in Books \ {b} : registered.book[c] = lib.book[c]
  BY <1>1, <1>2, <1>3 DEF Records
<1> HIDE DEF registered
<1>5. /\ after = [c \in Books |-> after[c]]
      /\ after[b] = IF left[b].total = n THEN left[b] ELSE Nowhere
      /\ \A c \in Books \ {b} : after[c] = left[c]
  BY DEF AllRemembered
<1> HIDE DEF after
<1>6. Remembered(after[b], registered.book[b])
  <2>1. CASE left[b].total # n
    BY <1>0, <1>5, <2>1 DEF Remembered
  <2>2. CASE left[b].total = n
    <3>1. Leading(left[b]) /\ lib.book[b].resume = resume_index_to_persist(left[b])
      BY <1>0, <2>2 DEF AllRemembered, Remembered
    <3>2. lib.book[b].resume \in 0 .. n - 1
      BY <2>2, <3>1, ResumeReturns
    <3>3. registered.book[b].resume = lib.book[b].resume
      BY <1>0, <1>4, <3>2 DEF AtMost
    <3> QED
      BY <1>5, <2>2, <3>1, <3>3 DEF Remembered
  <2> QED
    BY <2>1, <2>2
<1>7. \A c \in Books \ {b} : Remembered(after[c], registered.book[c])
  BY <1>4, <1>5 DEF AllRemembered
<1> QED
  BY <1>5, <1>6, <1>7 DEF AllRemembered, after, registered

LEMMA MemoryFrom ==
  ASSUME NEW wanted, NEW own, NEW left, NEW lib, library' = lib, AllRemembered(left, lib),
         asked' = Untracked \/ asked' = [wanted |-> wanted, own |-> own, left |-> left]
  PROVE  MemoryInv'
  BY DEF MemoryInv, Tracked, AllRemembered, Remembered, Leading

LEMMA MemoryStep ==
  ASSUME Inv, PositionInv, MemoryInv, NEW w, NEW o, NEW l, Tracked,
         asked = [wanted |-> w, own |-> o, left |-> l], AuditNext
  PROVE  MemoryInv'
<1>0. /\ viewer \in Viewers /\ settings \in Views /\ library \in Shelves
      /\ dialog \in Dialogs
      /\ opening \in Books \cup {NoBook}
      /\ disk.library = library
      /\ TypeInv
  BY TypeForm DEF TypeInv, Inv, LibraryIsOnDisk
<1>a. l = asked.left /\ AllRemembered(l, library)
  BY DEF MemoryInv
<1>r. /\ \A x : [asked EXCEPT !.wanted = x] = [wanted |-> x, own |-> o, left |-> l]
      /\ \A x : [asked EXCEPT !.own = x] = [wanted |-> w, own |-> x, left |-> l]
      /\ \A x : [asked EXCEPT !.left = x] = [wanted |-> w, own |-> o, left |-> x]
  OBVIOUS
\* No stored position changes, and no leave point is passed.
<1>b. ASSUME \A b \in Books : library'.book[b].resume = library.book[b].resume,
             NEW x, NEW y,
             asked' = Untracked \/ asked' = [wanted |-> x, own |-> y, left |-> l]
      PROVE  MemoryInv'
  <2>1. PICK lib : lib = library'
    OBVIOUS
  <2>2. AllRemembered(l, lib)
    BY <1>a, <1>b, <2>1 DEF AllRemembered, Remembered
  <2> QED
    BY <1>b, <2>1, <2>2, MemoryFrom
\* Some books are removed.
<1>c. ASSUME NEW gone \in SUBSET Books, library' = Without(library, gone),
             asked' = Untracked \/ asked' = Forgotten(gone)
      PROVE  MemoryInv'
  <2>1. Forgotten(gone) = [wanted |-> w, own |-> o,
                           left |-> [b \in Books |-> IF b \in gone THEN Nowhere ELSE l[b]]]
    BY DEF Forgotten
  <2> QED
    BY <1>0, <1>a, <1>c, <2>1, Forgets, MemoryFrom
<1>e. AllRemembered(LeftBy(EndViewer), Outgoing)
  BY EndRemembers
<1>1. ASSUME NEW b \in Books, Quietly(OpenStart(b)) PROVE MemoryInv'
  BY <1>1, <1>b DEF Quietly, OpenStart
<1>2. CASE AuditOpenFailed
  <2>1. asked' = Untracked \/ asked' = [wanted |-> w, own |-> o, left |-> LeftBy(EndViewer)]
    BY <1>2, <1>r DEF AuditOpenFailed, Follow, Track
  <2> QED
    BY <1>2, <1>e, <2>1, MemoryFrom DEF AuditOpenFailed, OpenFailed
<1>3. CASE AuditOpenEmpty
  <2> DEFINE left == [LeftBy(EndViewer) EXCEPT ![opening] = Nowhere]
  <2>1. asked' = Untracked \/ asked' = [wanted |-> w, own |-> o, left |-> left]
    BY <1>3, <1>r DEF AuditOpenEmpty, Follow, Track
  <2>2. opening \in Books /\ library' = Without(Outgoing, {opening})
    BY <1>0, <1>3 DEF AuditOpenEmpty, OpenEmpty, Land
  <2>3. left = [b \in Books |-> IF b \in {opening} THEN Nowhere ELSE LeftBy(EndViewer)[b]]
    BY <1>e, <2>2 DEF AllRemembered
  <2>4. Outgoing \in Shelves
    BY <1>0, OutgoingType
  <2> HIDE DEF left
  <2>5. AllRemembered(left, Without(Outgoing, {opening}))
    BY <1>e, <2>2, <2>3, <2>4, Forgets
  <2> QED
    BY <2>1, <2>2, <2>5, MemoryFrom
<1>4. ASSUME NEW n \in PageCounts, AuditOpenSucceeded(n) PROVE MemoryInv'
  <2> DEFINE left == [LeftBy(EndViewer) EXCEPT ![opening] = IF @.total = n THEN @ ELSE Nowhere]
             lib == register_opened(Outgoing, opening, n)
  <2>1. PICK x : asked' = [wanted |-> w, own |-> x, left |-> left]
    BY <1>4 DEF AuditOpenSucceeded, Track
  <2>2. opening \in Books /\ n > 0 /\ library' = lib
    BY <1>0, <1>4, LandsOpen DEF AuditOpenSucceeded
  <2>3. Outgoing \in Shelves
    BY <1>0, OutgoingType
  <2>4. AllRemembered(left, lib)
    BY <1>e, <2>2, <2>3, OpenRemembers
  <2> HIDE DEF left, lib
  <2> QED
    BY <2>1, <2>2, <2>4, MemoryFrom
<1>5. CASE AuditLeaveViewer
  <2>1. asked' = [wanted |-> w, own |-> o, left |-> LeftBy(viewer)]
    BY <1>5, <1>r DEF AuditLeaveViewer, Track
  <2>2. AllRemembered(LeftBy(viewer), Staged(library, viewer, settings, dialog.pending))
    BY <1>0, LeaveRemembers DEF PositionInv, Dialogs
  <2> QED
    BY <1>5, <2>1, <2>2, MemoryFrom DEF AuditLeaveViewer, LeaveViewer
<1>6. CASE \/ Quietly(CarouselBack) \/ Quietly(OpenSettings)
           \/ \E page \in MaxIndex : Quietly(GoToPage(page))
  BY <1>6, <1>b DEF Quietly, CarouselBack, OpenSettings, GoToPage
<1>7. ASSUME NEW view \in Views, AuditSetMode(view) PROVE MemoryInv'
  <2>1. \E x, y : asked' = [wanted |-> x, own |-> y, left |-> l]
    BY <1>7, <1>r DEF AuditSetMode, Track
  <2> QED
    BY <1>7, <1>b, <2>1 DEF AuditSetMode, SetMode
<1>8. CASE AuditResetOverrides
  <2>1. \E x, y : asked' = [wanted |-> x, own |-> y, left |-> l]
    BY <1>8, <1>r DEF AuditResetOverrides, Track
  <2>2. \A b \in Books : library'.book[b].resume = library.book[b].resume
    <3>1. CASE viewer.open \notin library.shelf
      BY <1>8, <3>1 DEF AuditResetOverrides, ResetOverrides
    <3>2. CASE viewer.open \in library.shelf
      <4>1. library' = [library EXCEPT !.book = [library.book EXCEPT
                  ![viewer.open] = [library.book[viewer.open] EXCEPT !.override = Inherit]]]
        BY <1>8, <3>2 DEF AuditResetOverrides, ResetOverrides
      <4> QED
        BY <1>0, <3>2, <4>1 DEF Shelves
    <3> QED
      BY <3>1, <3>2
  <2> QED
    BY <1>b, <2>1, <2>2
<1>9. CASE Quietly(CloseOnLibrary)
  BY <1>9, <1>b DEF Quietly, CloseOnLibrary
<1>10. CASE Quietly(CloseOnViewer)
  BY <1>0, <1>10, <1>b, OverrideType DEF Quietly, CloseOnViewer, Dialogs
<1>11. ASSUME NEW b \in Books, NEW n \in PageCounts, Quietly(AddBook(b, n)) PROVE MemoryInv'
  <2>1. library' = [library EXCEPT !.shelf = library.shelf \cup {b},
                      !.book = [library.book EXCEPT
                                  ![b] = [library.book[b] EXCEPT !.count = n]]]
    BY <1>11 DEF Quietly, AddBook
  <2>2. \A c \in Books : library'.book[c].resume = library.book[c].resume
    BY <1>0, <2>1 DEF Shelves
  <2> QED
    BY <1>11, <1>b, <2>2 DEF Quietly
<1>12. ASSUME NEW gone \in SUBSET Books, AuditRemoveBooks(gone) PROVE MemoryInv'
  BY <1>12, <1>c DEF AuditRemoveBooks, RemoveBooks, Follow, Track
<1>13. ASSUME NEW b \in Books, AuditEmptyBookDetected(b) PROVE MemoryInv'
  BY <1>13, <1>c DEF AuditEmptyBookDetected, EmptyBookDetected, Track
<1>14. CASE AuditClearHistory
  <2>1. asked' = [wanted |-> w, own |-> o, left |-> [b \in Books |-> Nowhere]]
    BY <1>14 DEF AuditClearHistory, Track, Forgotten
  <2>2. AllRemembered([b \in Books |-> Nowhere], EmptyLibrary)
    BY DEF AllRemembered, Remembered, Nowhere
  <2> QED
    BY <1>14, <2>1, <2>2, MemoryFrom DEF AuditClearHistory, ClearHistory
<1>15. CASE AuditQuitAndStart
  <2>1. asked' = [wanted |-> w, own |-> o, left |-> LeftBy(EndViewer)]
    BY <1>15, <1>r DEF AuditQuitAndStart, Track
  <2>2. library' = Outgoing
    BY <1>15 DEF AuditQuitAndStart, QuitAndStart, Boot, Outgoing
  <2> QED
    BY <1>e, <2>1, <2>2, MemoryFrom
<1>16. CASE AuditCrashAndStart
  <2>1. \E x, y : asked' = [wanted |-> x, own |-> y, left |-> l]
    BY <1>16, <1>r DEF AuditCrashAndStart, Track
  <2> QED
    BY <1>0, <1>16, <1>b, <2>1 DEF AuditCrashAndStart, CrashAndStart, Boot
<1> QED
  BY <1>1, <1>2, <1>3, <1>4, <1>5, <1>6, <1>7, <1>8, <1>9, <1>10, <1>11, <1>12, <1>13,
     <1>14, <1>15, <1>16 DEF AuditNext

AuditInv == Inv /\ Preferences /\ PositionInv /\ MemoryInv

LEMMA AuditInvStep == AuditInv /\ [AuditNext]_auditVars => AuditInv'
<1> SUFFICES ASSUME AuditInv, [AuditNext]_auditVars PROVE AuditInv'
  OBVIOUS
<1>1. Inv /\ Preferences /\ PositionInv /\ MemoryInv
  BY DEF AuditInv
<1>2. Inv' /\ Preferences' /\ PositionInv'
  BY <1>1, AuditIsSession, InvStep, PreferencesKept, PositionStep DEF Inv
<1>3. MemoryInv'
  <2>1. CASE UNCHANGED auditVars
    BY <1>1, <2>1 DEF auditVars, vars, MemoryInv, AllRemembered, Remembered, Leading, Tracked
  <2>2. CASE AuditNext /\ asked = Untracked
    BY <2>2, UntrackedForGood DEF MemoryInv, Tracked
  <2>3. CASE AuditNext /\ Tracked
    BY <1>1, <2>3, MemoryStep DEF Preferences, RecordInv
  <2> QED
    BY <2>1, <2>2, <2>3 DEF Tracked
<1> QED
  BY <1>2, <1>3 DEF AuditInv

\* An unchanged book, reopened in the view it was left in, comes back to the
\* spread it was left at, for any page count: the stored page survives its own
\* repair, the restarts in between, and the change of view that precedes the
\* jump to it (issue #534).
THEOREM ReopenReturns == AuditSpec => ReopenRestores
<1> DEFINE Reopens ==
      \A n \in PageCounts :
        OpenSucceeded(n) /\ asked' # Untracked =>
          LET left == asked'.left[opening]
          IN  left.total = n /\ left.view = viewer'.view => viewer'.index = left.index
<1>1. AuditInit => AuditInv
  <2> SUFFICES ASSUME AuditInit PROVE AuditInv
    OBVIOUS
  <2>1. PositionInv /\ MemoryInv
    BY DEF AuditInit, Init, PositionInv, Closed, MemoryInv, AllRemembered, Remembered, Nowhere
  <2> QED
    BY <2>1, AuditInitInv DEF AuditInv
<1>2. AuditInv /\ AuditInv' => Reopens
  <2> SUFFICES ASSUME AuditInv, AuditInv', NEW n \in PageCounts, OpenSucceeded(n),
                      asked' # Untracked, asked'.left[opening].total = n,
                      asked'.left[opening].view = viewer'.view
               PROVE  viewer'.index = asked'.left[opening].index
    OBVIOUS
  <2> DEFINE page == register_opened(Outgoing, opening, n).book[opening].resume
  <2>1. TypeInv /\ MemoryInv'
    BY DEF AuditInv, Inv
  <2>2. /\ opening \in Books /\ n > 0 /\ n \in Nat
        /\ library'.book[opening].resume = page
        /\ viewer'.index = normalize_leading(n, viewer'.view, "standalone", page)
    BY <2>1, LandsOpen
  <2> HIDE DEF page
  <2>3. PICK left : left = asked'.left[opening]
    OBVIOUS
  <2>4. Leading(left) /\ page = resume_index_to_persist(left)
    BY <2>1, <2>2, <2>3 DEF MemoryInv, Tracked, AllRemembered, Remembered, Leading,
       resume_index_to_persist
  <2>5. normalize_leading(n, viewer'.view, "standalone", page) = left.index
    BY <2>3, <2>4, ResumeReturns
  <2> QED
    BY <2>2, <2>3, <2>5
<1> QED
  BY <1>1, <1>2, AuditInvStep, PTL DEF AuditSpec, ReopenRestores

=============================================================================
