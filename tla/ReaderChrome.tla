---------------------------- MODULE ReaderChrome ----------------------------
(***************************************************************************)
(* What surrounds the pages and the shelf: the status line and the preview *)
(* of the scrubber (viewer_state.rs, handlers/viewer.rs, carousel.rs), the *)
(* toolbar of a selection (carousel_refresh.rs), the bookmark capsule      *)
(* (handlers/library.rs), the order covers are requested in                *)
(* (cover_loader.rs) and files dropped on the window (drag_drop.rs).       *)
(* A label is its message id with the numbers in it.                       *)
(***************************************************************************)
EXTENDS SpreadPairing, Sequences, FiniteSets, SequencesExt

-----------------------------------------------------------------------------
(* The viewer.  nav is [total, layout, cover, index]; open says whether      *)
(* there is a cache, that is a source.                                       *)

StatusKind == {"NoFolder", "NoImages", "Pages"}

\* SpreadNavigation::spread and preview_spread; neither is asked without pages.
spread(nav) == spread_at(nav.total, nav.layout, nav.cover, nav.index)
preview_spread(nav, page) ==
  spread_at(nav.total, nav.layout, nav.cover,
            normalize_leading(nav.total, nav.layout, nav.cover, page))

\* "2-3 / 6": the numbers of the status line, from 1.
status_content(open, nav) ==
  LET s == spread(nav)
      numbers == IF s.trailing = NoPage THEN <<s.leading + 1>> ELSE <<s.leading + 1, s.trailing + 1>>
  IN  IF ~open THEN [kind |-> "NoFolder", pages |-> <<>>]
      ELSE IF nav.total = 0 THEN [kind |-> "NoImages", pages |-> <<>>]
      ELSE [kind |-> "Pages", pages |-> Append(numbers, nav.total)]

\* A cell of the strip is [loaded, failed, image]; a page the strip has no cell
\* for, and one that is not decoded, looks as if it were still loading.
ThumbLoading == [loaded |-> FALSE, failed |-> FALSE, image |-> "blank"]
thumb_state_at(strip, page) ==
  IF page + 1 \notin DOMAIN strip THEN ThumbLoading
  ELSE LET item == strip[page + 1]
       IN  IF item.loaded THEN [item EXCEPT !.failed = FALSE]
           ELSE [ThumbLoading EXCEPT !.failed = item.failed]

\* The popover over the knob: one or two thumbnails of the spread a release
\* there would show, and nothing is decoded for it.  shown is what it showed.
scrub_preview(shown, nav, strip, lead) ==
  LET s == preview_spread(nav, lead)
  IN  IF nav.total = 0 THEN shown
      ELSE [double |-> s.trailing # NoPage,
            a |-> thumb_state_at(strip, s.leading),
            b |-> IF s.trailing = NoPage THEN ThumbLoading ELSE thumb_state_at(strip, s.trailing)]

-----------------------------------------------------------------------------
(* The library. *)

visible_selected_count(selection, visible) == Cardinality(visible \cap selection)
all_visible_selected(selection, visible) == visible # {} /\ visible \subseteq selection

selection_count_text(total, visible_selected) ==
  IF total = 0 THEN <<"mode">>
  ELSE IF total > visible_selected THEN <<"outside", total, total - visible_selected>>
  ELSE <<"count", total>>

select_all_label(all_visible) == IF all_visible THEN "deselect-all" ELSE "select-all"

push_selection_toolbar_state(selection, visible) ==
  LET total == Cardinality(selection)
  IN  [count_text |-> selection_count_text(total, visible_selected_count(selection, visible)),
       select_all |-> select_all_label(all_visible_selected(selection, visible)),
       delete_label |-> total, has_selection |-> total > 0]

\* entry_focus_index: the row of the book last read, in the rows that are shown.
entry_focus_index(rows, last_opened) ==
  LET at == SelectInSeq(rows, LAMBDA b : b = last_opened)
  IN  IF at = 0 THEN 0 ELSE at - 1

\* The capsule opens the bookmark, which is the book last read while it is on the
\* shelf, wherever the search hides it; or it answers that there is none.
on_carousel_continue_reading(shelf, last_opened) ==
  IF last_opened \in shelf THEN [opens |-> {last_opened}, status |-> <<>>]
  ELSE [opens |-> {}, status |-> <<"bookmark_none">>]

Distance(a, b) == IF a >= b THEN a - b ELSE b - a

\* Covers nearest the focused row first; requests arrive by row.
prioritize_by_focus(requests, focus_row) ==
  LET Before(i, j) ==
        LET di == Distance(requests[i], focus_row)
            dj == Distance(requests[j], focus_row)
        IN  di < dj \/ (di = dj /\ i < j)
      order == SetToSortSeq(DOMAIN requests, Before)
  IN  [k \in DOMAIN order |-> requests[order[k]]]

-----------------------------------------------------------------------------
(* Files dropped on the window.  d is [screen, overlay, buffer, armed, added]. *)

drop_action_for(event) ==
  CASE event = "HoveredFile" -> "ShowOverlay"
    [] event = "HoveredFileCancelled" -> "HideOverlay"
    [] event = "DroppedFile" -> "Buffer"
    [] OTHER -> "Ignore"

\* The closure on window events; path is what was dropped.
on_winit_window_event(d, event, path) ==
  LET action == drop_action_for(event)
  IN  CASE action = "ShowOverlay" -> [d EXCEPT !.overlay = @ \/ d.screen = "library"]
        [] action = "HideOverlay" -> [d EXCEPT !.overlay = FALSE]
        [] action = "Buffer" ->
             IF d.screen = "library"
               THEN [d EXCEPT !.overlay = FALSE, !.buffer = Append(@, path), !.armed = TRUE]
               ELSE [d EXCEPT !.overlay = FALSE]
        [] OTHER -> d

\* The debounce timer fires once the events of a drop have stopped: one add for
\* all of them, unless the reader has left the library.
arm_flush(d) ==
  LET fired == [d EXCEPT !.buffer = <<>>, !.armed = FALSE]
  IN  IF d.buffer = <<>> \/ d.screen # "library" THEN fired
      ELSE [fired EXCEPT !.added = Append(@, d.buffer)]
=============================================================================
