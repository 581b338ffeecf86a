------------------------ MODULE MCBookSessionAudit --------------------------
(***************************************************************************)
(* The instance of the book session, and with it bounded checks of the     *)
(* algorithms around one book that keep no state: the keys and the page    *)
(* field of the viewer and the row a book has in the library, on every     *)
(* book of up to six pages.                                                *)
(***************************************************************************)
EXTENDS BookSessionAudit, ViewerInput, ShelfRow

\* No handler tells one book from another, and no run here checks liveness.
Symmetry == Permutations(Books)


-----------------------------------------------------------------------------
(* Keys and the page field. *)

\* The two arrows are opposite turns in either direction, and every other key
\* means the same in both.
ASSUME ArrowsAreOpposite ==
  \A rtl \in BOOLEAN :
    /\ {map_key("right", rtl), map_key("left", rtl)} = {"Next", "Prev"}
    /\ map_key("right", rtl) = map_key("left", ~rtl)
    /\ \A token \in DOMAIN FixedKeys : map_key(token, rtl) = map_key(token, ~rtl)

\* A typed page number is on screen after the jump, clamped into the book; the
\* text the field is left with brings the reader back to the same spread; and
\* input that is no number moves nothing.
ASSUME PageFieldRoundTrips ==
  \A total \in 1 .. 6, layout \in Layouts, cover \in CoverModes :
    \A index \in 0 .. total - 1, input \in 0 .. 9 :
      IsLeading(total, layout, cover, index) =>
        LET jump(text) == on_page_jump_request(text, total, layout, cover, index)
            typed == IF input = 0 THEN 1 ELSE IF input > total THEN total ELSE input
        IN  /\ typed - 1 \in Pages(spread_at(total, layout, cover, jump(input).index))
            /\ jump(current_page_1based(total, index)).index = index
            /\ jump(NotANumber).index = index

-----------------------------------------------------------------------------
(* A row of the library. *)

\* A book is finished exactly when its bar is full, and it is left finished
\* exactly when the last spread of a book of more than one page was on screen.
ASSUME FinishedIsFull ==
  \A total \in 0 .. 6, page \in 0 .. 7 :
    LET p == Progress(page, total)
    IN  /\ is_finished(p) <=> fraction(p).num = fraction(p).den
        /\ fraction(p).num \in 0 .. fraction(p).den

ASSUME LastSpreadFinishes ==
  \A total \in 1 .. 6, layout \in Layouts, cover \in CoverModes :
    \A index \in 0 .. total - 1 :
      IsLeading(total, layout, cover, index) =>
        LET onScreen == Pages(spread_at(total, layout, cover, index))
            stored == IF total - 1 \in onScreen THEN total - 1 ELSE index
        IN  is_finished(Progress(stored, total)) <=> total > 1 /\ total - 1 \in onScreen

\* What the debug assertions of carousel_data_for_book say, for any pair of a
\* stored page and a stored count.
ASSUME RowIsConsistent ==
  \A total \in 0 .. 6, page \in 0 .. 9 :
    LET row == carousel_data(page, total, FALSE)
    IN  row.current >= 1 /\ (row.total # 0 => row.current <= row.total)

Texts(n) == UNION {[1 .. k -> {65, 97, 98}] : k \in 0 .. n}
Paths == [parent : Texts(1), stem : Texts(2), ext : {<<>>, <<46, 66>>}, is_dir : BOOLEAN]

\* Typing one more character never brings a book back, capitals make no
\* difference, and a book is found by all of its title; no title is empty.
ASSUME QueryNarrows ==
  \A path \in Paths : \A query \in Texts(2) :
    /\ \A c \in {65, 98} : book_matches(path, Append(query, c)) => book_matches(path, query)
    /\ book_matches(path, query) <=> book_matches(path, ToLower(query))
    /\ display_title(path) # <<>> /\ book_matches(path, display_title(path))

-----------------------------------------------------------------------------
(* The four view preferences of a book. *)

V == INSTANCE BookView

\* The reader's session with one book open, under any view and any globals.
Reading(view, global) ==
  [open_file |-> "book", runtime |-> view, settings |-> global,
   overrides |-> [b \in {"book", "other"} |-> V!none], dialog |-> V!new]

\* What a leave point stores for a book resolves to the view it was left in, sets
\* no field it need not set, and follows a later change of the globals in exactly
\* the fields that agreed with them.
ASSUME WriteBackIsMinimal ==
  \A view, global \in V!ResolvedView :
    LET left == V!stage_view_modes_to_sink(Reading(view, global), "LeaveViewer")
        agreed == {f \in V!Fields : view[f] = global[f]}
        later == V!toggle_cover(V!toggle_spread(V!toggle_reading_direction(global)))
        again == V!resumed([left EXCEPT !.settings = later, !.runtime = later], "book")
    IN  /\ V!resumed(V!resumed(left, "other"), "book").runtime = view
        /\ \A f \in V!Fields : again.runtime[f] = IF f \in agreed THEN later[f] ELSE view[f]
        /\ left.settings = global

\* A global edit on the library screen is taken whole, the open book gets its own
\* view back, and a reset the book was waiting to be left with is still pending.
ASSUME LibraryDialogKeepsBook ==
  \A view, global, edited \in {v \in V!ResolvedView : v["fit_mode"] # "Actual"} :
    \A before \in {Reading(view, global), V!reset_to_global(Reading(view, global))} :
      LET session == [V!open(before, "Library") EXCEPT !.runtime = edited]
          after == V!end(V!stage_view_modes_to_sink(session, "DialogClosedOnLibrary"))
      IN  after = [before EXCEPT !.settings = edited]

\* A book reset to the globals inherits all of them when it is left; one preference
\* changed since pins that one, and changed back pins none.
ASSUME ResetPinsNothing ==
  \A view, global \in V!ResolvedView :
    LET reset == V!reset_to_global(Reading(view, global))
        stored(s) == V!overrides_for(V!stage_view_modes_to_sink(s, "LeaveViewer"), "book")
        once == [reset EXCEPT !.runtime = V!toggle_cover(@)]
    IN  /\ stored(reset) = V!none
        /\ {f \in V!Fields : stored(once)[f] # V!Inherit} = {"cover_mode"}
        /\ stored([once EXCEPT !.runtime = V!toggle_cover(@)]) = V!none

\* Whatever is open, a quit changes the globals only when no book is, and the
\* override of another book never.
ASSUME ExitTouchesOneSink ==
  \A view, global \in V!ResolvedView, b \in {"book", V!NoneOpen} :
    LET s == [Reading(view, global) EXCEPT !.open_file = b]
        left == V!stage_view_modes_to_sink(s, "AppExit")
    IN  /\ left.settings = IF b = V!NoneOpen THEN view ELSE global
        /\ V!overrides_for(left, "other") = V!none
        /\ b = V!NoneOpen => left.overrides = s.overrides

-----------------------------------------------------------------------------
(* What surrounds the pages and the shelf. *)

C == INSTANCE ReaderChrome

Navs == [total : 0 .. 6, layout : Layouts, cover : CoverModes, index : 0 .. 5]
StripOf(total, images) == [k \in 1 .. total |->
                             [loaded |-> k \in images, failed |-> FALSE, image |-> k]]

\* The popover of the scrubber shows the page under the knob, the same spread for
\* each of its pages, and never a cell of another page, whatever is decoded.
ASSUME PreviewIsThePage ==
  \A nav \in Navs : \A lead \in 0 .. nav.total - 1 : \A images \in SUBSET (1 .. nav.total) :
    LET strip == StripOf(nav.total, images)
        preview(page) == C!scrub_preview("nothing", nav, strip, page)
        spread == C!preview_spread(nav, lead)
        shown(cell, page) == cell.loaded <=> page + 1 \in images
    IN  /\ lead \in Pages(spread)
        /\ \A page \in Pages(spread) : preview(page) = preview(lead)
        /\ preview(lead).double <=> Cardinality(Pages(spread)) = 2
        /\ shown(preview(lead).a, spread.leading)
        /\ preview(lead).double => shown(preview(lead).b, spread.trailing)

\* The strip may still be the one of another book; the popover then shows an empty
\* cell and does not fail.
ASSUME PreviewOutlivesTheStrip ==
  \A nav \in Navs, cells \in 0 .. 3 :
    nav.total > 0 =>
      LET p == C!scrub_preview("nothing", nav, StripOf(cells, 1 .. cells), nav.total - 1)
      IN  nav.total > cells + 1 => p.a = C!ThumbLoading

\* The numbers on the status line are those of the pages on screen.
ASSUME StatusCountsPages ==
  \A nav \in Navs, open \in BOOLEAN :
    IsLeading(nav.total, nav.layout, nav.cover, nav.index) =>
      LET status == C!status_content(open, nav)
          n == Len(status.pages)
      IN  /\ status.kind = "Pages" <=> open /\ nav.total > 0
          /\ status.kind = "Pages" =>
               /\ status.pages[n] = nav.total
               /\ {status.pages[k] - 1 : k \in 1 .. n - 1} = Pages(C!spread(nav))

\* The toolbar: what it counts is inside or outside the search, and its label says
\* what the button does to the rows that are shown.
ASSUME ToolbarCounts ==
  \A shelf \in SUBSET (1 .. 3) : \A selection, visible \in SUBSET shelf :
    LET bar == C!push_selection_toolbar_state(selection, visible)
        after == IF bar.select_all = "deselect-all" THEN selection \ visible
                 ELSE selection \cup visible
        outside == IF bar.count_text[1] = "outside" THEN bar.count_text[3] ELSE 0
    IN  /\ outside = Cardinality(selection \ visible)
        /\ bar.has_selection <=> selection # {}
        /\ visible # {} => after # selection

\* Entering the library focuses the book last read when it is shown; the capsule
\* opens it even when the search hides it.
ASSUME LastReadIsFound ==
  \A rows \in {<<>>, <<1>>, <<2, 1>>, <<3>>}, last \in 0 .. 3 :
    LET row == C!entry_focus_index(rows, last)
        opened == C!on_carousel_continue_reading({1, 2, 3}, last)
    IN  /\ (\E k \in DOMAIN rows : rows[k] = last) => rows[row + 1] = last
        /\ opened.opens = {last} \ {0} /\ (opened.status = <<>> <=> last # 0)

\* Covers are requested once each, outwards from the focused row, ties upwards,
\* wherever a stale focus points.
ASSUME CoversOutwards ==
  \A rows \in SUBSET (0 .. 4), focus \in 0 .. 7 :
    LET requests == SetToSortSeq(rows, <)
        order == C!prioritize_by_focus(requests, focus)
    IN  /\ {order[k] : k \in DOMAIN order} = rows /\ Len(order) = Cardinality(rows)
        /\ \A j, k \in DOMAIN order : j < k =>
             LET dj == C!Distance(order[j], focus)
                 dk == C!Distance(order[k], focus)
             IN  dj < dk \/ (dj = dk /\ order[j] < order[k])

\* Files dropped together are added together, in the order they were dropped; what
\* falls on the viewer, and what is still waiting when the reader goes there, is
\* not added, and nothing waits without the timer running.
DropEvents == {"HoveredFile", "HoveredFileCancelled", "DroppedFile", "CursorMoved"}
Drops(before, events) ==
  FoldLeft(LAMBDA d, k : C!on_winit_window_event(d, events[k], k),
           [screen |-> before, overlay |-> FALSE, buffer |-> <<>>, armed |-> FALSE, added |-> <<>>],
           [k \in DOMAIN events |-> k])
ASSUME DropsAreOneAdd ==
  \A before, later \in {"library", "viewer"}, events \in [1 .. 4 -> DropEvents] :
    LET d == Drops(before, events)
        dropped == SelectSeq(<<1, 2, 3, 4>>, LAMBDA k : events[k] = "DroppedFile")
        fired == C!arm_flush([d EXCEPT !.screen = later])
    IN  /\ d.buffer = IF before = "library" THEN dropped ELSE <<>>
        /\ d.armed <=> d.buffer # <<>>
        /\ fired.added = IF later = "library" /\ d.buffer # <<>> THEN <<dropped>> ELSE <<>>
        /\ fired.buffer = <<>>
        /\ d.overlay => before = "library" /\ events[4] # "DroppedFile"
=============================================================================
