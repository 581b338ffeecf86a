--------------------------- MODULE SpreadPairing ---------------------------
(***************************************************************************)
(* The pure page-pairing functions of crates/gashuu-core/src/spread.rs:    *)
(* which pages of a book of `total` pages are displayed together, in       *)
(* reading order, for a resolved layout and a cover mode.  Pages are       *)
(* 0-based.  Machine words are unbounded here: no page count comes near    *)
(* usize::MAX, and the saturating operations are the truncated ones below. *)
(***************************************************************************)
EXTENDS Integers

Layouts == {"single", "double"}
CoverModes == {"standalone", "paired"}

\* "No trailing page": the None of Spread::trailing.
NoPage == -1

\* usize::saturating_sub and usize::min.
Monus(a, b) == IF a >= b THEN a - b ELSE 0
AtMost(a, b) == IF a <= b THEN a ELSE b

clamp_index(total, index) == AtMost(index, Monus(total, 1))

first_pair_start(total) == IF total > 1 THEN 1 ELSE 0

\* x & !1
RoundDownEven(x) == x - (x % 2)

last_even(total) == RoundDownEven(Monus(total, 1))

last_start_standalone(total) ==
  IF total <= 1 THEN 0
  ELSE IF (total - 1) % 2 = 1 THEN total - 1 ELSE total - 2

pair_trailing(total, leading) ==
  IF leading + 1 < total THEN leading + 1 ELSE NoPage

\* The spread whose leading page is `leading` (clamped into the book).
spread_at(total, layout, cover, leading) ==
  LET lead == clamp_index(total, leading)
      alone == layout = "single" \/ (cover = "standalone" /\ lead = 0)
  IN  [leading |-> lead,
       trailing |-> IF alone THEN NoPage ELSE pair_trailing(total, lead)]

\* A plausible slip: an odd page of a paired cover is rounded up, not down.
normalize_leading_RoundUp(total, layout, cover, index) ==
  LET idx == clamp_index(total, index)
  IN  IF layout = "single" THEN idx
      ELSE IF cover = "paired" THEN AtMost(RoundDownEven(idx + 1), last_even(total))
      ELSE AtMost(IF idx = 0 \/ idx % 2 = 1 THEN idx ELSE idx - 1,
                  last_start_standalone(total))

\* The leading page of the spread that contains page `index`.
normalize_leading(total, layout, cover, index) ==
  LET idx == clamp_index(total, index)
  IN  IF layout = "single" THEN idx
      ELSE IF cover = "paired" THEN AtMost(RoundDownEven(idx), last_even(total))
      ELSE AtMost(IF idx = 0 \/ idx % 2 = 1 THEN idx ELSE idx - 1,
                  last_start_standalone(total))

\* A plausible slip: the cover always advances by a whole pair.
next_leading_SkipFirst(total, layout, cover, leading) ==
  LET lead == clamp_index(total, leading)
  IN  IF layout = "single" THEN AtMost(lead + 1, Monus(total, 1))
      ELSE IF cover = "paired" THEN AtMost(lead + 2, last_even(total))
      ELSE AtMost(IF lead = 0 THEN 3 ELSE lead + 2, last_start_standalone(total))

\* Leading page of the next spread; the last spread is its own successor.
next_leading(total, layout, cover, leading) ==
  LET lead == clamp_index(total, leading)
      start == normalize_leading(total, layout, cover, lead)
  IN  IF layout = "single" THEN AtMost(lead + 1, Monus(total, 1))
      ELSE IF cover = "paired" THEN AtMost(start + 2, last_even(total))
      ELSE IF start = 0 THEN first_pair_start(total)
      ELSE AtMost(start + 2, last_start_standalone(total))

\* Leading page of the previous spread; the first spread is its own predecessor.
prev_leading(total, layout, cover, leading) ==
  LET lead == clamp_index(total, leading)
      start == normalize_leading(total, layout, cover, lead)
  IN  IF layout = "single" THEN Monus(lead, 1)
      ELSE IF cover = "paired" THEN Monus(start, 2)
      ELSE IF start <= 1 THEN 0 ELSE start - 2

\* The pages a spread shows, and the last of them.
Pages(spread) ==
  {spread.leading} \cup (IF spread.trailing = NoPage THEN {} ELSE {spread.trailing})

LastPage(spread) ==
  IF spread.trailing = NoPage THEN spread.leading ELSE spread.trailing

\* A leading page that normalisation leaves where it is.
IsLeading(total, layout, cover, index) ==
  /\ index \in 0 .. Monus(total, 1)
  /\ normalize_leading(total, layout, cover, index) = index
=============================================================================
