----------------------------- MODULE ViewerInput -----------------------------
(***************************************************************************)
(* What the viewer makes of the keyboard and of the page field: the key    *)
(* table (keymap.rs), what each command touches (on_nav in                 *)
(* handlers/viewer.rs), and the 1-based page field (page_jump.rs and       *)
(* on_page_jump_request).  Pure: the state they act on is SpreadNavigation *)
(* and Viewport.                                                           *)
(***************************************************************************)
EXTENDS SpreadPairing, TLC

\* Tokens whose command does not depend on the reading direction.
FixedKeys ==
  "space" :> "Next" @@ "backspace" :> "Prev"
  @@ "d" :> "ToggleSpread" @@ "r" :> "ToggleReadingDirection" @@ "c" :> "ToggleCover"
  @@ "t" :> "ToggleThumbnails"
  @@ "+" :> "ZoomIn" @@ "=" :> "ZoomIn" @@ "-" :> "ZoomOut" @@ "0" :> "ResetView"
  @@ "1" :> "FitActual" @@ "f" :> "CycleFit"
  @@ "up" :> "GoToLibrary" @@ "escape" :> "GoToLibrary"

Arrows == {"right", "left"}
NoCommand == "None"

map_key(token, rtl) ==
  IF token \in Arrows THEN IF (token = "right") = rtl THEN "Prev" ELSE "Next"
  ELSE IF token \in DOMAIN FixedKeys THEN FixedKeys[token] ELSE NoCommand

\* on_nav: a turn or a layout toggle that changed the position or the modes
\* decodes and paints again; zoom and fit only move the picture; what the reader
\* set is saved on the way to the library and nowhere else.
on_nav(command, changed) ==
  [refresh |-> changed /\ command \in {"Next", "Prev", "ToggleSpread",
                                       "ToggleReadingDirection", "ToggleCover"},
   geometry |-> command \in {"ZoomIn", "ZoomOut", "ResetView", "FitActual", "CycleFit"},
   strip |-> command = "ToggleThumbnails",
   saves |-> IF command = "GoToLibrary" THEN 1 ELSE 0]

-----------------------------------------------------------------------------
(* The page field: "" and text that is no number are not Naturals here.     *)

NotANumber == -1

parse_page_jump(input, total) ==
  IF total = 0 \/ input = NotANumber THEN NoPage
  ELSE AtMost(IF input < 1 THEN 1 ELSE input, total) - 1

current_page_1based(total, index) == IF total = 0 THEN 0 ELSE index + 1

\* The jump, and the text the field is left with whatever was typed.
on_page_jump_request(input, total, layout, cover, index) ==
  LET page == parse_page_jump(input, total)
      to == IF page = NoPage THEN index ELSE normalize_leading(total, layout, cover, page)
  IN  [index |-> to, text |-> current_page_1based(total, to)]
=============================================================================
