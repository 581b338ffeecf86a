-------------------------- MODULE SpreadNavigation --------------------------
(***************************************************************************)
(* The reader's position in the open book: SpreadNavigation of             *)
(* crates/gashuu-core/src/spread.rs, driven by ViewerState                 *)
(* (crates/gashuu/src/viewer_state.rs), the key map and the scrubber.      *)
(* Reading direction decides only what a key or a knob position means.     *)
(***************************************************************************)
EXTENDS SpreadPairing

CONSTANTS
  MaxTotal,     \* bound: the largest page count a book is opened with
  MaxSide,      \* bound: the largest window side (in units) of a resize
  ScrubSteps    \* the scrub fractions are n / ScrubSteps

ASSUME MaxTotalAssumption == MaxTotal \in Nat
ASSUME MaxSideAssumption == MaxSide \in Nat
ASSUME ScrubStepsAssumption == ScrubSteps \in Nat \ {0}

VARIABLES
  total,              \* page count; 0 when no book is open or it has no page
  spread_mode,        \* configured mode, "auto" included
  cover_mode,
  portrait,           \* viewport_aspect < 1.0
  index,              \* leading page of the current spread
  reading_direction

vars == <<total, spread_mode, cover_mode, portrait, index, reading_direction>>

SpreadModes == Layouts \cup {"auto"}
Directions == {"ltr", "rtl"}
Tokens == {"left", "right", "space", "backspace"}

\* SpreadMode::resolve: Auto is double only in a portrait window.
resolve(mode, tall) ==
  IF mode # "auto" THEN mode ELSE IF tall THEN "double" ELSE "single"

Layout == resolve(spread_mode, portrait)

\* SpreadNavigation::spread; only meaningful when total > 0.
CurrentSpread == spread_at(total, Layout, cover_mode, index)

\* A plausible slip: a finished book stored at its last leading page stays unread.
resume_index_to_persist_LeadingOnly == index

\* SpreadNavigation::resume_index_to_persist.
resume_index_to_persist ==
  IF total > 0 /\ total - 1 \in Pages(CurrentSpread) THEN total - 1 ELSE index

TypeOK ==
  /\ total \in 0 .. MaxTotal
  /\ spread_mode \in SpreadModes
  /\ cover_mode \in CoverModes
  /\ portrait \in BOOLEAN
  /\ index \in Nat
  /\ reading_direction \in Directions

\* ViewerState::from_settings: any persisted modes, nothing open, aspect 1.0.
Init ==
  /\ total = 0
  /\ spread_mode \in SpreadModes
  /\ cover_mode \in CoverModes
  /\ portrait = FALSE
  /\ index = 0
  /\ reading_direction \in Directions

\* A plausible slip: the new index is the old one, not re-normalised.
Reposition_Stale(layout, cover) == index' = index

\* renormalize_index, for the layout and cover mode now in force.
Reposition(layout, cover) ==
  index' = IF total = 0 THEN 0 ELSE normalize_leading(total, layout, cover, index)

\* set_source (a book of n pages was installed) and close (n = 0).
SetTotal(n) ==
  /\ total' = n
  /\ index' = 0
  /\ UNCHANGED <<spread_mode, cover_mode, portrait, reading_direction>>

JumpTo(page) ==
  /\ total > 0
  /\ index' = normalize_leading(total, Layout, cover_mode, page)
  /\ UNCHANGED <<total, spread_mode, cover_mode, portrait, reading_direction>>

\* keymap::map_key for the page-turning tokens.
IsForward(token) ==
  \/ token = "space"
  \/ token = "right" /\ reading_direction = "ltr"
  \/ token = "left" /\ reading_direction = "rtl"

Turn(token) ==
  /\ total > 0
  /\ index' = IF IsForward(token)
                THEN next_leading(total, Layout, cover_mode, index)
                ELSE prev_leading(total, Layout, cover_mode, index)
  /\ UNCHANGED <<total, spread_mode, cover_mode, portrait, reading_direction>>

\* set_spread_mode and set_cover_mode return early on an unchanged mode.
SetSpreadMode(mode) ==
  /\ spread_mode # mode
  /\ spread_mode' = mode
  /\ Reposition(resolve(mode, portrait), cover_mode)
  /\ UNCHANGED <<total, cover_mode, portrait, reading_direction>>

SetCoverMode(cover) ==
  /\ cover_mode # cover
  /\ cover_mode' = cover
  /\ Reposition(Layout, cover)
  /\ UNCHANGED <<total, spread_mode, portrait, reading_direction>>

ToggleSpread ==
  SetSpreadMode(CASE spread_mode = "single" -> "double"
                  [] spread_mode = "double" -> "auto"
                  [] OTHER -> "single")

ToggleCover ==
  SetCoverMode(IF cover_mode = "standalone" THEN "paired" ELSE "standalone")

SetReadingDirection(dir) ==
  /\ reading_direction # dir
  /\ reading_direction' = dir
  /\ UNCHANGED <<total, spread_mode, cover_mode, portrait, index>>

\* width / height of a degenerate window is non-finite or not positive: 1.0.
Resize(width, height) ==
  LET tall == width > 0 /\ width < height
  IN  /\ portrait' = tall
      /\ Reposition(resolve(spread_mode, tall), cover_mode)
      /\ UNCHANGED <<total, spread_mode, cover_mode, reading_direction>>

\* A plausible slip: the knob reads the same way in both directions.
scrub_fraction_to_page_NoInversion(n, page_count, rtl) ==
  IF page_count = 0 THEN 0
  ELSE AtMost((2 * n * (page_count - 1) + ScrubSteps) \div (2 * ScrubSteps),
              page_count - 1)

\* The page under the knob at fraction n / ScrubSteps, rounded half up.
scrub_fraction_to_page(n, page_count, rtl) ==
  LET knob == IF rtl THEN ScrubSteps - n ELSE n
      last == page_count - 1
  IN  IF page_count = 0 THEN 0
      ELSE AtMost((2 * knob * last + ScrubSteps) \div (2 * ScrubSteps), last)

\* on_scrub_commit: the jump is a no-op without a book.
ScrubCommit(n) ==
  JumpTo(scrub_fraction_to_page(n, total, reading_direction = "rtl"))

Next ==
  \/ \E n \in 0 .. MaxTotal : SetTotal(n)
  \/ \E page \in 0 .. MaxTotal : JumpTo(page)
  \/ \E token \in Tokens : Turn(token)
  \/ \E mode \in SpreadModes : SetSpreadMode(mode)
  \/ \E cover \in CoverModes : SetCoverMode(cover)
  \/ ToggleSpread
  \/ ToggleCover
  \/ \E dir \in Directions : SetReadingDirection(dir)
  \/ \E width, height \in 0 .. MaxSide : Resize(width, height)
  \/ \E n \in 0 .. ScrubSteps : ScrubCommit(n)

Spec == Init /\ [][Next]_vars

-----------------------------------------------------------------------------
(* Properties. *)

\* spread.rs, "index is always a valid leading page for the current resolved
\* layout and cover mode": no order of opens, turns, jumps, scrubs, toggles
\* and window resizes leaves the position in the middle of a spread.
IndexIsLeading ==
  IF total = 0 THEN index = 0 ELSE IsLeading(total, Layout, cover_mode, index)

\* A change of layout - by key, by dialog or by a resize in Auto - keeps the
\* page the reader was looking at (the leading one) on screen.
LayoutChangeKeepsPage ==
  [][ (total' = total /\ total > 0 /\ <<Layout, cover_mode>>' # <<Layout, cover_mode>>)
        => index \in Pages(CurrentSpread') ]_vars

\* A page turn never skips and never repeats a page: forward, the new spread
\* starts right after the last page shown, or the book is at its end; backward,
\* the new spread ends right before the first page shown, or it is page 0.
TurnsAreContiguous ==
  [][ \A token \in Tokens : Turn(token) =>
        IF IsForward(token)
          THEN IF LastPage(CurrentSpread) = total - 1
                 THEN index' = index
                 ELSE index' = LastPage(CurrentSpread) + 1
          ELSE IF index = 0 THEN index' = 0
                            ELSE LastPage(CurrentSpread') = index - 1 ]_vars

\* What a leave point stores brings the reader back: jumping to the resume
\* page after a reopen in the same modes shows the same spread, and the stored
\* page is the final one (the 100% of the progress bar) exactly when the final
\* page is on screen.
ResumeRoundTrip ==
  total > 0 =>
    /\ normalize_leading(total, Layout, cover_mode, resume_index_to_persist) = index
    /\ resume_index_to_persist = total - 1 <=> total - 1 \in Pages(CurrentSpread)

\* The scrubber agrees with the arrow keys: moving the knob towards the side
\* whose arrow turns forward never moves back in the book, and the two ends of
\* the track are the two ends of the book.
ScrubFollowsDirection ==
  total > 0 =>
    LET page(n) == scrub_fraction_to_page(n, total, reading_direction = "rtl")
    IN  /\ {page(0), page(ScrubSteps)} = {0, total - 1}
        /\ \A n \in 0 .. ScrubSteps - 1 :
             IF IsForward("right") THEN page(n) <= page(n + 1)
                                   ELSE page(n) >= page(n + 1)
=============================================================================
