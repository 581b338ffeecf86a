------------------------------ MODULE BookView ------------------------------
(***************************************************************************)
(* The four view preferences of a book, field by field: the vocabulary     *)
(* (view_modes.rs), the override of one book and its resolution against    *)
(* the globals (view_override.rs), the routes that write the runtime back  *)
(* (crates/gashuu/src/view_sync.rs) and the settings-dialog session        *)
(* (dialog_session.rs).  BookSession has the handlers around them over one *)
(* preference; what only shows with several is here.                       *)
(* An operation maps the value s of the session,                           *)
(*   [open_file, runtime, settings, overrides,                             *)
(*    dialog: [scope, snapshot, pending_inherit]], to its next value.      *)
(***************************************************************************)

Inherit == "inherit"      \* an override field that is None
NoneOpen == "none open"     \* open_file is None
NoScope == "no scope"

ReadingDirection == {"Ltr", "Rtl"}
SpreadMode == {"Single", "Double", "Auto"}
CoverMode == {"Standalone", "Paired"}
FitMode == {"Whole", "Width", "Actual"}

Fields == {"reading_direction", "spread_mode", "cover_mode", "fit_mode"}
Values(f) ==
  CASE f = "reading_direction" -> ReadingDirection
    [] f = "spread_mode" -> SpreadMode
    [] f = "cover_mode" -> CoverMode
    [] f = "fit_mode" -> FitMode

AnyValue == ReadingDirection \cup SpreadMode \cup CoverMode \cup FitMode
ResolvedView == {v \in [Fields -> AnyValue] : \A f \in Fields : v[f] \in Values(f)}
ViewOverride ==
  {o \in [Fields -> AnyValue \cup {Inherit}] : \A f \in Fields : o[f] \in Values(f) \cup {Inherit}}

-----------------------------------------------------------------------------
(* The override of one book. *)

none == [f \in Fields |-> Inherit]

resolve(o, global) == [f \in Fields |-> IF o[f] = Inherit THEN global[f] ELSE o[f]]

differences_from(view, global) ==
  [f \in Fields |-> IF view[f] = global[f] THEN Inherit ELSE view[f]]

set_overrides(s, book, o) ==
  IF book \in DOMAIN s.overrides THEN [s EXCEPT !.overrides[book] = o] ELSE s

overrides_for(s, book) == IF book \in DOMAIN s.overrides THEN s.overrides[book] ELSE none

-----------------------------------------------------------------------------
(* The runtime: three modes of ViewerState and the fit of ViewportState. *)

toggle_spread(view) ==
  [view EXCEPT !["spread_mode"] = CASE @ = "Single" -> "Double"
                                    [] @ = "Double" -> "Auto"
                                    [] OTHER -> "Single"]
toggle_cover(view) ==
  [view EXCEPT !["cover_mode"] = IF @ = "Standalone" THEN "Paired" ELSE "Standalone"]
toggle_reading_direction(view) ==
  [view EXCEPT !["reading_direction"] = IF @ = "Ltr" THEN "Rtl" ELSE "Ltr"]

\* ViewerState::from_settings, and the viewport at startup.
from_settings(settings) == settings

apply_runtime_view_to_settings(s) == [s EXCEPT !.settings = s.runtime]
apply_global_view_to_runtime(s) == [s EXCEPT !.runtime = s.settings]
current_runtime_view(s) == s.runtime

-----------------------------------------------------------------------------
(* DialogSession. *)

DialogScope == {"Library", "Viewer"}
NoReset == none           \* no pending reset; no view is all Inherit

RuntimeSnapshot(s) ==
  [view |-> current_runtime_view(s), pending_inherit |-> s.dialog.pending_inherit]

\* snapshot holds at most one RuntimeSnapshot.
DialogSession(scope, snapshot, pending) ==
  [scope |-> scope, snapshot |-> snapshot, pending_inherit |-> pending]
new == DialogSession(NoScope, {}, NoReset)

open(s, scope) ==
  IF scope # "Library" THEN [s EXCEPT !.dialog.scope = scope]
  ELSE LET taken == IF s.open_file = NoneOpen THEN {} ELSE {RuntimeSnapshot(s)}
       IN  apply_global_view_to_runtime(
             [s EXCEPT !.dialog = DialogSession(scope, taken, s.dialog.pending_inherit)])

\* The global edit is taken before the book's view is put back.
end(s) ==
  LET taken == IF s.dialog.scope = "Library" THEN apply_runtime_view_to_settings(s) ELSE s
      kept == CHOOSE k \in s.dialog.snapshot : TRUE
  IN  IF s.dialog.snapshot = {}
        THEN [taken EXCEPT !.dialog = DialogSession(NoScope, {}, s.dialog.pending_inherit)]
        ELSE [taken EXCEPT !.runtime = kept.view,
                           !.dialog = DialogSession(NoScope, {}, kept.pending_inherit)]

inherit_pending(s) == s.dialog.pending_inherit = current_runtime_view(s)
clear_pending_inherit(s) == [s EXCEPT !.dialog.pending_inherit = NoReset]

\* The view the reset installs is the one it remembers.
reset_to_global(s) ==
  LET reset == apply_global_view_to_runtime(s)
  IN  [reset EXCEPT !.dialog.pending_inherit = current_runtime_view(reset)]

-----------------------------------------------------------------------------
(* The leave points. *)

ViewModeRoute ==
  {"DialogClosedOnLibrary", "DialogClosedOnViewer", "LeaveViewer", "OpenDifferentBook", "AppExit"}

\* While a reset is pending the book goes on inheriting everything.
view_override_to_write_back(s) ==
  IF inherit_pending(s) THEN none ELSE differences_from(current_runtime_view(s), s.settings)

stage_view_override_write_back(s) ==
  IF s.open_file = NoneOpen THEN s
  ELSE set_overrides(s, s.open_file, view_override_to_write_back(s))

\* The globals take the runtime only from the dialog on the library screen and
\* from an exit with no book open.
stage_view_modes_to_sink(s, route) ==
  CASE route = "DialogClosedOnLibrary" -> apply_runtime_view_to_settings(s)
    [] route = "AppExit" ->
         IF s.open_file = NoneOpen THEN apply_runtime_view_to_settings(s)
         ELSE stage_view_override_write_back(s)
    [] OTHER -> stage_view_override_write_back(s)

\* register_and_resume, the part about the view: the one this book resolves to.
resumed(s, book) ==
  clear_pending_inherit([s EXCEPT !.open_file = book,
                                  !.runtime = resolve(overrides_for(s, book), s.settings)])
=============================================================================
