------------------------------ MODULE Viewport ------------------------------
(***************************************************************************)
(* Zoom, pan and fit of the page area: the pure geometry of                *)
(* crates/gashuu-core/src/viewport.rs and the interaction state            *)
(* ViewportState of crates/gashuu/src/viewport.rs, with the handlers that  *)
(* drive it.  The state is a record; an operation maps a view to a view.   *)
(* A length is a whole number of pixels and a zoom factor a whole number   *)
(* of 1/Unit: every product and quotient rounds down where f32 rounds to   *)
(* nearest, and nothing stated here depends on the rounding.               *)
(***************************************************************************)
EXTENDS Integers

CONSTANTS
  Unit,      \* zoom factors are multiples of 1 / Unit (bound on precision)
  ZoomTop    \* ZOOM_MAX, in whole factors (8 in the source)

ASSUME UnitAssumption == Unit \in Nat \ {0}
ASSUME ZoomTopAssumption == ZoomTop \in Nat \ {0}

Axes == {"x", "y"}
FitModes == {"Whole", "Width", "Actual"}
ZOOM_MIN == Unit
ZOOM_MAX == ZoomTop * Unit

\* f32::clamp(lo, hi).
Clamp(n, lo, hi) == IF n < lo THEN lo ELSE IF n > hi THEN hi ELSE n

clamp_zoom(zoom) == Clamp(zoom, ZOOM_MIN, ZOOM_MAX)

\* The baseline scale, as a fraction; 1 when nothing can be shown.
fit_scale(content, vp, mode) ==
  LET byWidth == [num |-> vp.x, den |-> content.x]
      byHeight == [num |-> vp.y, den |-> content.y]
  IN  IF mode = "Actual" \/ (\E a \in Axes : content[a] <= 0 \/ vp[a] <= 0)
        THEN [num |-> 1, den |-> 1]
      ELSE IF mode = "Whole" /\ vp.y * content.x < vp.x * content.y
        THEN byHeight
      ELSE byWidth

centered_offset(disp, vp) == [a \in Axes |-> (vp[a] - disp[a]) \div 2]

\* A plausible slip: the range of an overflowing page is the other way round,
\* so that its edges can be pulled inside the window.
clamp_axis_Reversed(disp, vp, o) ==
  IF disp <= vp THEN (vp - disp) \div 2 ELSE Clamp(o, 0, disp - vp)

\* One axis: centred when the page fits, else covering the window.
clamp_axis(disp, vp, o) ==
  IF disp <= vp THEN (vp - disp) \div 2 ELSE Clamp(o, vp - disp, 0)

clamp_offset(disp, vp, o) ==
  [a \in Axes |-> clamp_axis(disp[a], vp[a], o[a])]

\* The point under the anchor stays put when the scale changes.
anchored_zoom(anchor, old_scale, new_scale, o) ==
  IF old_scale <= 0 THEN o
  ELSE [a \in Axes |->
          anchor[a] - ((anchor[a] - o[a]) * new_scale) \div old_scale]

-----------------------------------------------------------------------------
(* ViewportState. *)

Origin == [x |-> 0, y |-> 0]

\* ViewportState::from_settings: only the fit mode is persisted.
from_settings(mode) ==
  [fit_mode |-> mode, zoom |-> ZOOM_MIN, offset |-> Origin,
   vp_size |-> Origin, content_size |-> Origin,
   pan_origin |-> Origin, pinch_origin_zoom |-> ZOOM_MIN]

fit(v) == fit_scale(v.content_size, v.vp_size, v.fit_mode)

\* content * (clamp_zoom(zoom) * fit).
displayed(v) ==
  [a \in Axes |-> (v.content_size[a] * clamp_zoom(v.zoom) * fit(v).num)
                    \div (Unit * fit(v).den)]

\* The offset o, clamped for the box v displays.
At(v, o) == [v EXCEPT !.offset = clamp_offset(displayed(v), v.vp_size, o)]

center_and_clamp(v) == At(v, centered_offset(displayed(v), v.vp_size))
reclamp(v) == At(v, v.offset)

set_content(v, size) == center_and_clamp([v EXCEPT !.content_size = size])
resize(v, size) == reclamp([v EXCEPT !.vp_size = size])

\* The zoom becomes new_zoom around the anchor.  Old and new scale share the
\* fit baseline, so the zoom factors stand for the scales.
ZoomTo(v, new_zoom, anchor) ==
  reclamp([v EXCEPT
    !.offset = anchored_zoom(anchor, clamp_zoom(v.zoom), new_zoom, v.offset),
    !.zoom = new_zoom])

\* ZOOM_STEP is 11/10; only the sign of the wheel delta counts.
Stepped(zoom, raw_delta) ==
  IF raw_delta > 0 THEN (zoom * 11) \div 10
  ELSE IF raw_delta < 0 THEN (zoom * 10) \div 11
  ELSE zoom

zoom_at(v, anchor, raw_delta) ==
  ZoomTo(v, clamp_zoom(Stepped(v.zoom, raw_delta)), anchor)

zoom_step(v, zoom_in) ==
  zoom_at(v, [a \in Axes |-> v.vp_size[a] \div 2], IF zoom_in THEN 1 ELSE -1)

reset(v) == center_and_clamp([v EXCEPT !.zoom = ZOOM_MIN])
set_fit(v, mode) ==
  center_and_clamp([v EXCEPT !.fit_mode = mode, !.zoom = ZOOM_MIN])
cycle_fit(v) ==
  set_fit(v, CASE v.fit_mode = "Whole" -> "Width"
               [] v.fit_mode = "Width" -> "Actual"
               [] OTHER -> "Whole")

begin_pan(v) == [v EXCEPT !.pan_origin = v.offset]

\* A drag is measured from its press point, a scroll from where the page is.
pan_to(v, total) == At(v, [a \in Axes |-> v.pan_origin[a] + total[a]])
pan_by(v, delta) == At(v, [a \in Axes |-> v.offset[a] + delta[a]])

begin_pinch(v) == [v EXCEPT !.pinch_origin_zoom = v.zoom]

\* scale / Unit is the gesture's factor since it began; a degenerate frame
\* (not positive, or not finite) is dropped.
pinch_to(v, scale, anchor) ==
  IF scale <= 0 THEN v
  ELSE ZoomTo(v, clamp_zoom((v.pinch_origin_zoom * scale) \div Unit), anchor)

\* What apply_viewport hands to Slint: the offset clamped once more.
geometry(v) ==
  [offset |-> clamp_offset(displayed(v), v.vp_size, v.offset),
   size |-> displayed(v)]

-----------------------------------------------------------------------------
(* The callers. *)

\* main.rs, spread_content_size: two pages side by side, as high as the higher.
spread_content_size(leading, trailing) ==
  IF trailing = Origin THEN leading
  ELSE [x |-> leading.x + trailing.x,
        y |-> IF leading.y < trailing.y THEN trailing.y ELSE leading.y]

\* clear_page_view: no page, so nothing to show.
clear_page_view(v) == set_content(v, Origin)

\* One callback of the page area or of the keyboard, or a refresh of the page.
\* size is a window or spread size, point an anchor or a pan delta.
Handle(v, sizes, points, scales) ==
  {resize(v, s) : s \in sizes} \cup {set_content(v, s) : s \in sizes}
    \cup {zoom_at(v, p, d) : p \in points, d \in {-1, 0, 1}}
    \cup {zoom_step(v, b) : b \in BOOLEAN}
    \cup {pan_to(v, p) : p \in points} \cup {pan_by(v, p) : p \in points}
    \cup {pinch_to(v, n, p) : n \in scales, p \in points}
    \cup {set_fit(v, m) : m \in FitModes}
    \cup {reset(v), cycle_fit(v), begin_pan(v), begin_pinch(v),
          clear_page_view(v)}
=============================================================================
