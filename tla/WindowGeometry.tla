--------------------------- MODULE WindowGeometry ---------------------------
(***************************************************************************)
(* The window's size and position across launches:                         *)
(* crates/gashuu-core/src/window_geometry.rs and its only caller,          *)
(* crates/gashuu/src/window_state.rs.  Geometry is captured once at exit,  *)
(* normalised when the settings are loaded, and applied once at startup to *)
(* whatever monitors are connected then.                                   *)
(***************************************************************************)
EXTENDS Integers, Sequences, SequencesExt

CONSTANTS
  MIN_WINDOW_WIDTH, MIN_WINDOW_HEIGHT,
  MAX_WINDOW_WIDTH, MAX_WINDOW_HEIGHT,
  TITLE_BAR_GRAB,   \* the grab point is this far below the window's top
  I32_MAX           \* the largest coordinate; i32 arithmetic saturates here

ASSUME WindowAssumption ==
  /\ MIN_WINDOW_WIDTH \in Nat \ {0} /\ MIN_WINDOW_HEIGHT \in Nat \ {0}
  /\ MAX_WINDOW_WIDTH \in Nat /\ MAX_WINDOW_HEIGHT \in Nat
  /\ MIN_WINDOW_WIDTH <= MAX_WINDOW_WIDTH
  /\ MIN_WINDOW_HEIGHT <= MAX_WINDOW_HEIGHT
  /\ TITLE_BAR_GRAB \in Nat /\ I32_MAX \in Nat
  /\ TITLE_BAR_GRAB <= I32_MAX

\* Monitors and windows are rectangles of physical pixels.
I32 == -I32_MAX - 1 .. I32_MAX
Geometries == [width : Nat, height : Nat, x : I32, y : I32]
Screens == [width : Nat \ {0}, height : Nat \ {0}, x : I32, y : I32]

AtLeast(n, lo) == IF n < lo THEN lo ELSE n

\* Left and top inclusive, right and bottom exclusive.
contains(rect, px, py) ==
  /\ rect.x <= px /\ px < rect.x + rect.width
  /\ rect.y <= py /\ py < rect.y + rect.height

floored_size(g) ==
  [width |-> AtLeast(g.width, MIN_WINDOW_WIDTH),
   height |-> AtLeast(g.height, MIN_WINDOW_HEIGHT)]

is_size_within_max(g) ==
  g.width <= MAX_WINDOW_WIDTH /\ g.height <= MAX_WINDOW_HEIGHT

saturating_add(a, b) == IF a + b > I32_MAX THEN I32_MAX ELSE a + b

grab_point(g) ==
  [x |-> saturating_add(g.x, g.width \div 2),
   y |-> saturating_add(g.y, TITLE_BAR_GRAB)]

is_position_visible(g, monitors) ==
  \E i \in DOMAIN monitors :
    contains(monitors[i], grab_point(g).x, grab_point(g).y)

\* Half of a difference, cut towards zero and never below it.
Margin(outer, inner) == AtLeast((outer - inner) \div 2, 0)

center_in(monitor, size) ==
  [x |-> monitor.x + Margin(monitor.width, size.width),
   y |-> monitor.y + Margin(monitor.height, size.height)]

-----------------------------------------------------------------------------
(* window_state.rs and Settings::normalize. *)

\* The primary monitor first, every rectangle once.
monitor_rects(primary, available) ==
  FoldLeft(LAMBDA rects, r : IF Contains(rects, r) THEN rects ELSE Append(rects, r),
           primary, available)

\* The part of Settings::normalize about the window; NoWindow when a corrupt
\* size is thrown away.
normalize_window(g, NoWindow) ==
  IF ~is_size_within_max(g) THEN NoWindow
  ELSE [g EXCEPT !.width = floored_size(g).width,
                 !.height = floored_size(g).height]

\* Size always; the stored position when it can be grabbed there, else the
\* centre of the primary monitor, else wherever the window is.
apply_geometry(g, monitors, current) ==
  LET size == floored_size(g)
      place == IF is_position_visible(g, monitors) THEN g
               ELSE IF monitors # <<>> THEN center_in(monitors[1], size)
               ELSE current
  IN  [width |-> size.width, height |-> size.height,
       x |-> place.x, y |-> place.y]

\* capture_geometry at exit stores the window as it is.
capture_geometry(window) == window

-----------------------------------------------------------------------------
(* What a launch may rely on. *)

\* Some point of the window's title bar is on a connected monitor.
TitleBarReachable(window, monitors) ==
  \E i \in DOMAIN monitors :
    \E dx \in 0 .. window.width, dy \in 0 .. TITLE_BAR_GRAB :
      contains(monitors[i], window.x + dx, window.y + dy)

Floored(g) ==
  g.width >= MIN_WINDOW_WIDTH /\ g.height >= MIN_WINDOW_HEIGHT
=============================================================================
