---------------------------- MODULE ViewerProofs ----------------------------
(***************************************************************************)
(* What the reader sees, for every value: which pages of a book are shown  *)
(* (SpreadNavigation), where the page area places them under any sequence  *)
(* of callbacks (Viewport), with which settings, cache configuration and   *)
(* window (AppSettings), and what a book stores of the view it was read    *)
(* with (BookView).                                                        *)
(***************************************************************************)
EXTENDS SpreadNavigation, AppSettings, Viewport, SequenceTheorems, TLAPS


\* Membership in an interval of page indices, without the interval.
LEMMA InBook ==
  ASSUME NEW n \in Nat \ {0}, NEW i \in Int
  PROVE  /\ i \in 0 .. Monus(n, 1) <=> 0 <= i /\ i <= n - 1
         /\ Monus(n, 1) = n - 1
  BY DEF Monus

\* What normalisation computes on a page of the book, case by case.
LEMMA NormalForm ==
  ASSUME NEW n \in Nat \ {0}, NEW layout \in Layouts, NEW cover \in CoverModes,
         NEW i \in Nat, i <= n - 1
  PROVE  normalize_leading(n, layout, cover, i)
           = IF layout = "single" \/ i = 0 THEN i
             ELSE IF cover = "paired" THEN i - (i % 2)
             ELSE IF i % 2 = 1 THEN i ELSE i - 1
  <1> USE DEF normalize_leading, clamp_index, AtMost, Monus, Layouts, CoverModes
  <1>1. CASE layout = "single"
    BY <1>1
  <1>2. CASE layout = "double" /\ cover = "paired"
    BY <1>2 DEF last_even, RoundDownEven
  <1>3. CASE layout = "double" /\ cover = "standalone"
    BY <1>3 DEF last_start_standalone
  <1>4. QED
    BY <1>1, <1>2, <1>3 DEF Layouts, CoverModes

\* A leading page is any page of the book (single), an even page (paired), or
\* the cover and the odd pages (standalone).
LEMMA LeadingForm ==
  ASSUME NEW n \in Nat \ {0}, NEW layout \in Layouts, NEW cover \in CoverModes,
         NEW i \in Int
  PROVE  IsLeading(n, layout, cover, i)
           <=> /\ 0 <= i /\ i <= n - 1
               /\ \/ layout = "single" \/ i = 0
                  \/ cover = "paired" /\ i % 2 = 0
                  \/ cover = "standalone" /\ i % 2 = 1
  <1>1. CASE 0 <= i /\ i <= n - 1
    <2>1. IsLeading(n, layout, cover, i)
            <=> normalize_leading(n, layout, cover, i) = i
      BY <1>1, InBook DEF IsLeading
    <2>2. QED
      BY <1>1, <2>1, NormalForm DEF CoverModes
  <1>2. CASE ~(0 <= i /\ i <= n - 1)
    BY <1>2, InBook DEF IsLeading
  <1>3. QED
    BY <1>1, <1>2

\* normalize_leading lands inside the book, on a page it leaves where it is:
\* the code may normalise as often as it likes.
LEMMA NormalizeIsLeading ==
  ASSUME NEW n \in Nat \ {0}, NEW layout \in Layouts, NEW cover \in CoverModes,
         NEW i \in Nat
  PROVE  /\ normalize_leading(n, layout, cover, i) \in Nat
         /\ IsLeading(n, layout, cover, normalize_leading(n, layout, cover, i))
  <1> DEFINE c == clamp_index(n, i)
             r == normalize_leading(n, layout, cover, c)
  <1>1. c \in Nat /\ c <= n - 1
    BY DEF clamp_index, AtMost, Monus
  <1>2. clamp_index(n, c) = c
    BY <1>1 DEF clamp_index, AtMost, Monus
  <1>3. normalize_leading(n, layout, cover, i) = r
    BY <1>2 DEF normalize_leading
  <1> HIDE DEF c
  <1>4. r = IF layout = "single" \/ c = 0 THEN c
            ELSE IF cover = "paired" THEN c - (c % 2)
            ELSE IF c % 2 = 1 THEN c ELSE c - 1
    BY <1>1, NormalForm
  <1> HIDE DEF r
  <1>5. r \in Nat /\ r <= n - 1
    BY <1>1, <1>4
  <1>6. IsLeading(n, layout, cover, r)
    BY <1>1, <1>4, <1>5, LeadingForm DEF CoverModes
  <1>7. QED
    BY <1>3, <1>5, <1>6

\* The page a reader asks for is on the spread the code normalises it to.
LEMMA NormalizeContains ==
  ASSUME NEW n \in Nat \ {0}, NEW layout \in Layouts, NEW cover \in CoverModes,
         NEW i \in 0 .. n - 1
  PROVE  i \in Pages(spread_at(n, layout, cover,
                               normalize_leading(n, layout, cover, i)))
  <1> USE DEF normalize_leading, spread_at, Pages, pair_trailing, NoPage,
              clamp_index, AtMost, Monus, Layouts, CoverModes
  <1>1. CASE layout = "single"
    BY <1>1
  <1>2. CASE layout = "double" /\ cover = "paired"
    BY <1>2 DEF last_even, RoundDownEven
  <1>3. CASE layout = "double" /\ cover = "standalone"
    BY <1>3 DEF last_start_standalone
  <1>4. QED
    BY <1>1, <1>2, <1>3

\* What the two page turns compute from a leading page.
LEMMA NextForm ==
  ASSUME NEW n \in Nat \ {0}, NEW layout \in Layouts, NEW cover \in CoverModes,
         NEW i \in Nat, IsLeading(n, layout, cover, i)
  PROVE  next_leading(n, layout, cover, i)
           = IF LastPage(spread_at(n, layout, cover, i)) = n - 1 THEN i
             ELSE LastPage(spread_at(n, layout, cover, i)) + 1
  <1> USE DEF IsLeading, normalize_leading, next_leading, spread_at, LastPage,
              pair_trailing, NoPage, clamp_index, AtMost, Monus, Layouts, CoverModes
  <1>1. CASE layout = "single"
    BY <1>1
  <1>2. CASE layout = "double" /\ cover = "paired"
    BY <1>2 DEF last_even, RoundDownEven
  <1>3. CASE layout = "double" /\ cover = "standalone"
    BY <1>3 DEF last_start_standalone, first_pair_start
  <1>4. QED
    BY <1>1, <1>2, <1>3

LEMMA PrevForm ==
  ASSUME NEW n \in Nat \ {0}, NEW layout \in Layouts, NEW cover \in CoverModes,
         NEW i \in Nat, IsLeading(n, layout, cover, i)
  PROVE  prev_leading(n, layout, cover, i)
           = IF i = 0 THEN 0
             ELSE IF layout = "single" \/ i = 1 THEN i - 1
             ELSE i - 2
  <1>1. /\ i <= n - 1
        /\ \/ layout = "single" \/ i = 0
           \/ cover = "paired" /\ i % 2 = 0
           \/ cover = "standalone" /\ i % 2 = 1
    BY LeadingForm
  <1>2. clamp_index(n, i) = i
    BY <1>1 DEF clamp_index, AtMost, Monus
  <1>3. normalize_leading(n, layout, cover, i) = i
    BY DEF IsLeading
  <1>4. QED
    BY <1>1, <1>2, <1>3 DEF prev_leading, Monus, Layouts, CoverModes

\* The last page of the spread that starts at a leading page.
LEMMA LastForm ==
  ASSUME NEW n \in Nat \ {0}, NEW layout \in Layouts, NEW cover \in CoverModes,
         NEW i \in Nat, i <= n - 1
  PROVE  LastPage(spread_at(n, layout, cover, i))
           = IF \/ layout = "single"
                \/ cover = "standalone" /\ i = 0
                \/ i = n - 1
             THEN i ELSE i + 1
  BY DEF LastPage, spread_at, pair_trailing, NoPage, clamp_index, AtMost, Monus,
         Layouts, CoverModes

\* A turn from a leading page lands on a leading page.
LEMMA NextIsLeading ==
  ASSUME NEW n \in Nat \ {0}, NEW layout \in Layouts, NEW cover \in CoverModes,
         NEW i \in Nat, IsLeading(n, layout, cover, i)
  PROVE  /\ next_leading(n, layout, cover, i) \in Nat
         /\ IsLeading(n, layout, cover, next_leading(n, layout, cover, i))
  <1> DEFINE j == next_leading(n, layout, cover, i)
  <1>1. /\ i <= n - 1
        /\ \/ layout = "single" \/ i = 0
           \/ cover = "paired" /\ i % 2 = 0
           \/ cover = "standalone" /\ i % 2 = 1
    BY LeadingForm
  <1>2. j = IF LastPage(spread_at(n, layout, cover, i)) = n - 1 THEN i
            ELSE LastPage(spread_at(n, layout, cover, i)) + 1
    BY NextForm
  <1> HIDE DEF j
  <1>3. j \in Nat /\ j <= n - 1
    BY <1>1, <1>2, LastForm
  <1>4. \/ layout = "single" \/ j = 0
        \/ cover = "paired" /\ j % 2 = 0
        \/ cover = "standalone" /\ j % 2 = 1
    BY <1>1, <1>2, LastForm DEF CoverModes
  <1>5. QED
    BY <1>3, <1>4, LeadingForm DEF j

LEMMA PrevIsLeading ==
  ASSUME NEW n \in Nat \ {0}, NEW layout \in Layouts, NEW cover \in CoverModes,
         NEW i \in Nat, IsLeading(n, layout, cover, i)
  PROVE  /\ prev_leading(n, layout, cover, i) \in Nat
         /\ IsLeading(n, layout, cover, prev_leading(n, layout, cover, i))
         /\ i # 0 => LastPage(spread_at(n, layout, cover,
                                        prev_leading(n, layout, cover, i))) = i - 1
  <1> DEFINE j == prev_leading(n, layout, cover, i)
  <1>1. /\ i <= n - 1
        /\ \/ layout = "single" \/ i = 0
           \/ cover = "paired" /\ i % 2 = 0
           \/ cover = "standalone" /\ i % 2 = 1
    BY LeadingForm
  <1>2. j = IF i = 0 THEN 0
            ELSE IF layout = "single" \/ i = 1 THEN i - 1
            ELSE i - 2
    BY PrevForm
  <1> HIDE DEF j
  <1>3. j \in Nat /\ j <= n - 1
    BY <1>1, <1>2
  <1>4. \/ layout = "single" \/ j = 0
        \/ cover = "paired" /\ j % 2 = 0
        \/ cover = "standalone" /\ j % 2 = 1
    BY <1>1, <1>2 DEF CoverModes
  <1>5. i # 0 => LastPage(spread_at(n, layout, cover, j)) = i - 1
    BY <1>1, <1>2, <1>3, LastForm DEF CoverModes
  <1>6. QED
    BY <1>3, <1>4, <1>5, LeadingForm DEF j

-----------------------------------------------------------------------------
\* The inductive invariant: types, and the position is a leading page.
NavInv == TypeOK /\ IndexIsLeading

\* The resolved layout is never "auto".
LEMMA LayoutType ==
  ASSUME TypeOK PROVE Layout \in Layouts
  BY DEF TypeOK, Layout, resolve, SpreadModes, Layouts

LEMMA InitNavInv == Init => NavInv
  <1> SUFFICES ASSUME Init PROVE NavInv
    OBVIOUS
  <1>1. TypeOK
    <2>1. portrait \in BOOLEAN
      BY Zenon DEF Init
    <2>2. total \in 0 .. MaxTotal /\ index \in Nat
      BY MaxTotalAssumption DEF Init
    <2>3. QED
      BY <2>1, <2>2, Zenon DEF Init, TypeOK
  <1>2. IndexIsLeading
    BY DEF Init, IndexIsLeading
  <1>3. QED
    BY <1>1, <1>2 DEF NavInv

\* Re-normalising in any layout re-establishes the invariant's position part.
LEMMA RepositionIsLeading ==
  ASSUME TypeOK, NEW layout \in Layouts, NEW cover \in CoverModes,
         Reposition(layout, cover)
  PROVE  /\ index' \in Nat
         /\ IF total = 0 THEN index' = 0 ELSE IsLeading(total, layout, cover, index')
  BY NormalizeIsLeading, MaxTotalAssumption DEF TypeOK, Reposition

LEMMA NextNavInv == NavInv /\ [Next]_vars => NavInv'
  <1> SUFFICES ASSUME NavInv, [Next]_vars PROVE NavInv'
    OBVIOUS
  <1> USE MaxTotalAssumption
  <1>0. TypeOK /\ IndexIsLeading /\ Layout \in Layouts
    BY LayoutType DEF NavInv
  <1>1. ASSUME NEW n \in 0 .. MaxTotal, SetTotal(n) PROVE NavInv'
    <2>1. TypeOK'
      BY <1>0, <1>1 DEF TypeOK, SetTotal
    <2>2. Layout' \in Layouts
      BY <1>0, <1>1 DEF SetTotal, Layout
    <2>3. n # 0 => IsLeading(n, Layout', cover_mode', 0)
      BY <2>1, <2>2, LeadingForm DEF TypeOK
    <2>4. QED
      BY <1>1, <2>1, <2>3 DEF NavInv, IndexIsLeading, SetTotal
  <1>2. ASSUME NEW page \in Nat, JumpTo(page) PROVE NavInv'
    <2>1. index' \in Nat /\ IsLeading(total, Layout, cover_mode, index')
      BY <1>0, <1>2, NormalizeIsLeading DEF JumpTo, TypeOK
    <2>2. QED
      BY <1>0, <1>2, <2>1 DEF NavInv, IndexIsLeading, TypeOK, JumpTo, Layout
  <1>3. ASSUME NEW token \in Tokens, Turn(token) PROVE NavInv'
    <2>1. total \in Nat \ {0} /\ IsLeading(total, Layout, cover_mode, index)
      BY <1>0, <1>3 DEF Turn, TypeOK, IndexIsLeading
    <2>2. index' \in Nat /\ IsLeading(total, Layout, cover_mode, index')
      BY <1>0, <1>3, <2>1, NextIsLeading, PrevIsLeading DEF Turn, TypeOK
    <2>3. QED
      BY <1>0, <1>3, <2>2 DEF NavInv, IndexIsLeading, TypeOK, Turn, Layout
  <1>4. ASSUME NEW mode \in SpreadModes, SetSpreadMode(mode) PROVE NavInv'
    <2>1. resolve(mode, portrait) \in Layouts
      BY DEF resolve, SpreadModes, Layouts
    <2>2. Layout' = resolve(mode, portrait)
      BY <1>4 DEF SetSpreadMode, Layout
    <2>3. /\ index' \in Nat
          /\ IF total = 0 THEN index' = 0
             ELSE IsLeading(total, Layout', cover_mode, index')
      BY <1>0, <1>4, <2>1, <2>2, RepositionIsLeading DEF SetSpreadMode, TypeOK
    <2>4. QED
      BY <1>0, <1>4, <2>3 DEF NavInv, IndexIsLeading, TypeOK, SetSpreadMode
  <1>5. ASSUME NEW cover \in CoverModes, SetCoverMode(cover) PROVE NavInv'
    <2>1. Layout' = Layout
      BY <1>5 DEF SetCoverMode, Layout
    <2>2. /\ index' \in Nat
          /\ IF total = 0 THEN index' = 0
             ELSE IsLeading(total, Layout', cover_mode', index')
      BY <1>0, <1>5, <2>1, RepositionIsLeading DEF SetCoverMode
    <2>3. QED
      BY <1>0, <1>5, <2>2 DEF NavInv, IndexIsLeading, TypeOK, SetCoverMode
  <1>6. ASSUME NEW dir \in Directions, SetReadingDirection(dir) PROVE NavInv'
    BY <1>0, <1>6 DEF NavInv, IndexIsLeading, TypeOK, SetReadingDirection, Layout
  <1>7. ASSUME NEW width \in Nat, NEW height \in Nat, Resize(width, height)
        PROVE  NavInv'
    <2> DEFINE tall == width > 0 /\ width < height
    <2>1. resolve(spread_mode, tall) \in Layouts
      BY <1>0 DEF resolve, TypeOK, SpreadModes, Layouts
    <2>2. Layout' = resolve(spread_mode, tall) /\ portrait' \in BOOLEAN
      BY <1>7 DEF Resize, Layout
    <2>3. /\ index' \in Nat
          /\ IF total = 0 THEN index' = 0
             ELSE IsLeading(total, Layout', cover_mode, index')
      BY <1>0, <1>7, <2>1, <2>2, RepositionIsLeading DEF Resize, TypeOK
    <2>4. QED
      BY <1>0, <1>7, <2>2, <2>3 DEF NavInv, IndexIsLeading, TypeOK, Resize
  <1>8. ASSUME NEW n \in 0 .. ScrubSteps, ScrubCommit(n) PROVE NavInv'
    <2>1. scrub_fraction_to_page(n, total, reading_direction = "rtl") \in Nat
      BY <1>0, ScrubStepsAssumption DEF TypeOK, scrub_fraction_to_page, AtMost
    <2>2. QED
      BY <1>2, <1>8, <2>1 DEF ScrubCommit
  <1>9. CASE UNCHANGED vars
    BY <1>0, <1>9 DEF vars, NavInv, IndexIsLeading, TypeOK, Layout
  <1>10. ToggleSpread => NavInv'
    BY <1>4 DEF ToggleSpread, SpreadModes, Layouts
  <1>11. ToggleCover => NavInv'
    BY <1>5 DEF ToggleCover, CoverModes
  <1>12. QED
    BY <1>1, <1>2, <1>3, <1>4, <1>5, <1>6, <1>7, <1>8, <1>9, <1>10, <1>11,
       MaxSideAssumption DEF Next

\* spread.rs's documented invariant, for books of every length and every order
\* of opens, turns, jumps, scrubs, mode changes and resizes: the variables keep
\* their types and the position is a leading page of the modes in force.
THEOREM NavigationInvariant == Spec => [](TypeOK /\ IndexIsLeading)
  <1>1. QED
    BY InitNavInv, NextNavInv, PTL DEF Spec, NavInv

\* Page turns skip nothing and repeat nothing, whatever the length of the book.
THEOREM TurnsContiguous == Spec => TurnsAreContiguous
  <1> DEFINE Contiguous ==
        \A token \in Tokens : Turn(token) =>
          IF IsForward(token)
            THEN IF LastPage(CurrentSpread) = total - 1
                   THEN index' = index
                   ELSE index' = LastPage(CurrentSpread) + 1
            ELSE IF index = 0 THEN index' = 0
                              ELSE LastPage(CurrentSpread') = index - 1
  <1>1. NavInv => Contiguous
    <2> SUFFICES ASSUME NavInv, NEW token \in Tokens, Turn(token)
                 PROVE  IF IsForward(token)
                          THEN IF LastPage(CurrentSpread) = total - 1
                                 THEN index' = index
                                 ELSE index' = LastPage(CurrentSpread) + 1
                          ELSE IF index = 0 THEN index' = 0
                                            ELSE LastPage(CurrentSpread') = index - 1
      OBVIOUS
    <2>1. /\ total \in Nat \ {0} /\ cover_mode \in CoverModes /\ index \in Nat
          /\ Layout \in Layouts /\ IsLeading(total, Layout, cover_mode, index)
      BY LayoutType, MaxTotalAssumption DEF NavInv, Turn, TypeOK, IndexIsLeading
    <2>2. CASE IsForward(token)
      BY <2>1, <2>2, NextForm DEF Turn, CurrentSpread
    <2>3. CASE ~IsForward(token)
      <3>1. index' = prev_leading(total, Layout, cover_mode, index)
        BY <2>3 DEF Turn
      <3>2. CurrentSpread' = spread_at(total, Layout, cover_mode, index')
        BY DEF Turn, CurrentSpread, Layout
      <3>3. CASE index = 0
        BY <2>1, <2>3, <3>1, <3>3, PrevForm
      <3>4. CASE index # 0
        BY <2>1, <2>3, <3>1, <3>2, <3>4, PrevIsLeading
      <3>5. QED
        BY <3>3, <3>4
    <2>4. QED
      BY <2>2, <2>3
  <1>2. NavInv => [Contiguous]_vars
    BY <1>1
  <1>3. QED
    BY <1>2, InitNavInv, NextNavInv, PTL DEF Spec, TurnsAreContiguous

\* A layout change keeps the page being read on screen, whatever its number.
THEOREM LayoutChangesKeepPage == Spec => LayoutChangeKeepsPage
  <1> DEFINE Keeps ==
        (total' = total /\ total > 0 /\ <<Layout, cover_mode>>' # <<Layout, cover_mode>>)
          => index \in Pages(CurrentSpread')
  <1>1. NavInv /\ NavInv' /\ [Next]_vars => [Keeps]_vars
    <2> SUFFICES ASSUME NavInv, NavInv', [Next]_vars,
                        total' = total, total > 0,
                        <<Layout, cover_mode>>' # <<Layout, cover_mode>>
                 PROVE  index \in Pages(CurrentSpread')
      OBVIOUS
    <2>1. /\ total \in Nat \ {0} /\ cover_mode' \in CoverModes /\ Layout' \in Layouts
          /\ index \in 0 .. total - 1
      <3>1. Layout' \in Layouts
        BY DEF NavInv, TypeOK, Layout, resolve, SpreadModes, Layouts
      <3>2. QED
        BY <3>1, MaxTotalAssumption, InBook DEF NavInv, TypeOK, IndexIsLeading, IsLeading
    <2>2. ASSUME index' = normalize_leading(total, Layout', cover_mode', index)
          PROVE  index \in Pages(CurrentSpread')
      BY <2>1, <2>2, NormalizeContains DEF CurrentSpread
    <2>3. ASSUME NEW mode \in SpreadModes, SetSpreadMode(mode)
          PROVE  index \in Pages(CurrentSpread')
      BY <2>2, <2>3 DEF SetSpreadMode, Reposition, Layout
    <2>4. ASSUME NEW cover \in CoverModes, SetCoverMode(cover)
          PROVE  index \in Pages(CurrentSpread')
      BY <2>2, <2>4 DEF SetCoverMode, Reposition, Layout
    <2>5. ASSUME NEW width, NEW height, Resize(width, height)
          PROVE  index \in Pages(CurrentSpread')
      BY <2>2, <2>5 DEF Resize, Reposition, Layout
    <2>6. ASSUME \/ \E n \in 0 .. MaxTotal : SetTotal(n)
                 \/ \E page \in 0 .. MaxTotal : JumpTo(page)
                 \/ \E token \in Tokens : Turn(token)
                 \/ \E dir \in Directions : SetReadingDirection(dir)
                 \/ \E n \in 0 .. ScrubSteps : ScrubCommit(n)
                 \/ UNCHANGED vars
          PROVE  <<Layout, cover_mode>>' = <<Layout, cover_mode>>
      BY <2>6 DEF SetTotal, JumpTo, Turn, SetReadingDirection, ScrubCommit, vars, Layout
    <2>7. ToggleSpread => \E mode \in SpreadModes : SetSpreadMode(mode)
      BY DEF ToggleSpread, SpreadModes, Layouts
    <2>8. ToggleCover => \E cover \in CoverModes : SetCoverMode(cover)
      BY DEF ToggleCover, CoverModes
    <2>9. QED
      BY <2>3, <2>4, <2>5, <2>6, <2>7, <2>8 DEF Next
  <1>2. QED
    BY <1>1, InitNavInv, NextNavInv, PTL DEF Spec, LayoutChangeKeepsPage
\* The resume page of a position is its last page exactly when the spread shows
\* the last page of the book.
LEMMA ResumeForm ==
  ASSUME NEW n \in Nat \ {0}, NEW layout \in Layouts, NEW cover \in CoverModes,
         NEW i \in Nat, i <= n - 1
  PROVE  n - 1 \in Pages(spread_at(n, layout, cover, i))
           <=> \/ i = n - 1
               \/ /\ i = n - 2 /\ layout = "double"
                  /\ ~(cover = "standalone" /\ i = 0)
  BY DEF Pages, spread_at, pair_trailing, NoPage, clamp_index, AtMost, Monus,
         Layouts, CoverModes

\* What a leave point stores brings the reader back, from every position the
\* reader can reach in a book of any length.
THEOREM ResumeBringsBack == Spec => []ResumeRoundTrip
  <1>1. NavInv => ResumeRoundTrip
    <2> SUFFICES ASSUME NavInv, total > 0
                 PROVE  /\ normalize_leading(total, Layout, cover_mode,
                                             resume_index_to_persist) = index
                        /\ resume_index_to_persist = total - 1
                             <=> total - 1 \in Pages(CurrentSpread)
      BY DEF ResumeRoundTrip
    <2>1. /\ total \in Nat \ {0} /\ cover_mode \in CoverModes /\ index \in Nat
          /\ Layout \in Layouts /\ IsLeading(total, Layout, cover_mode, index)
      BY LayoutType, MaxTotalAssumption DEF NavInv, TypeOK, IndexIsLeading
    <2>2. /\ index <= total - 1
          /\ \/ Layout = "single" \/ index = 0
             \/ cover_mode = "paired" /\ index % 2 = 0
             \/ cover_mode = "standalone" /\ index % 2 = 1
      BY <2>1, LeadingForm
    <2>3. normalize_leading(total, Layout, cover_mode, index) = index
      BY <2>1 DEF IsLeading
    <2>4. total - 1 \in Pages(CurrentSpread)
            <=> \/ index = total - 1
                \/ /\ index = total - 2 /\ Layout = "double"
                   /\ ~(cover_mode = "standalone" /\ index = 0)
      BY <2>1, <2>2, ResumeForm DEF CurrentSpread
    <2>5. CASE total - 1 \in Pages(CurrentSpread)
      <3>1. resume_index_to_persist = total - 1
        BY <2>1, <2>5 DEF resume_index_to_persist
      <3>2. CASE index = total - 1
        BY <2>3, <2>5, <3>1, <3>2
      <3>3. CASE index = total - 2 /\ Layout = "double"
                 /\ ~(cover_mode = "standalone" /\ index = 0)
        BY <2>1, <2>2, <2>5, <3>1, <3>3, NormalForm DEF CoverModes
      <3>4. QED
        BY <2>4, <2>5, <3>2, <3>3
    <2>6. CASE total - 1 \notin Pages(CurrentSpread)
      BY <2>1, <2>2, <2>3, <2>4, <2>6 DEF resume_index_to_persist
    <2>7. QED
      BY <2>5, <2>6
  <1>2. QED
    BY <1>1, InitNavInv, NextNavInv, PTL DEF Spec

-----------------------------------------------------------------------------
(* The scrubber: integer division by the number of steps, for every one. *)

LEMMA DivMonotone ==
  ASSUME NEW d \in Nat \ {0}, NEW a \in Nat, NEW b \in Nat, a <= b
  PROVE  a \div d \in Nat /\ a \div d <= b \div d
  OBVIOUS

\* The knob at k of ScrubSteps lands on a page of the book, later for a larger
\* k, on page 0 at the start and on the last page at the end.
LEMMA KnobPages ==
  ASSUME NEW last \in Nat
  PROVE  LET at(k) == (2 * k * last + ScrubSteps) \div (2 * ScrubSteps)
         IN  /\ at(0) = 0 /\ at(ScrubSteps) = last
             /\ \A k \in 0 .. ScrubSteps : at(k) \in 0 .. last
             /\ \A j, k \in 0 .. ScrubSteps : j <= k => at(j) <= at(k)
  <1> DEFINE at(k) == (2 * k * last + ScrubSteps) \div (2 * ScrubSteps)
  <1>0. ScrubSteps \in Nat \ {0} /\ 2 * ScrubSteps \in Nat \ {0}
    BY ScrubStepsAssumption
  <1>1. at(0) = 0
    BY <1>0
  <1>2. at(ScrubSteps) = last
    BY <1>0
  <1>3. ASSUME NEW j \in 0 .. ScrubSteps, NEW k \in 0 .. ScrubSteps, j <= k
        PROVE  at(j) \in Nat /\ at(j) <= at(k)
    <2>1. 2 * j * last + ScrubSteps \in Nat /\ 2 * k * last + ScrubSteps \in Nat
      BY <1>0
    <2>2. 2 * j * last + ScrubSteps <= 2 * k * last + ScrubSteps
      BY <1>0, <1>3
    <2>3. QED
      BY <1>0, <2>1, <2>2, DivMonotone
  <1> HIDE DEF at
  <1>4. ASSUME NEW k \in 0 .. ScrubSteps PROVE at(k) \in 0 .. last
    <2>1. ScrubSteps \in 0 .. ScrubSteps
      BY <1>0
    <2>2. at(k) \in Nat /\ at(k) <= at(ScrubSteps)
      BY <1>0, <1>3, <2>1
    <2>3. QED
      BY <1>2, <2>2
  <1>5. QED
    BY <1>1, <1>2, <1>3, <1>4 DEF at

\* The scrubber and the arrow keys agree about the direction, whatever the
\* page count and the resolution of the track.
THEOREM ScrubAgreesWithArrows == Spec => []ScrubFollowsDirection
  <1>1. NavInv => ScrubFollowsDirection
    <2> SUFFICES ASSUME NavInv, total > 0 PROVE ScrubFollowsDirection
      BY DEF ScrubFollowsDirection
    <2> DEFINE last == total - 1
               at(k) == (2 * k * last + ScrubSteps) \div (2 * ScrubSteps)
               page(n) == scrub_fraction_to_page(n, total, reading_direction = "rtl")
    <2>1. total \in Nat \ {0} /\ last \in Nat /\ ScrubSteps \in Nat \ {0}
      BY MaxTotalAssumption, ScrubStepsAssumption DEF NavInv, TypeOK
    <2>2. /\ at(0) = 0 /\ at(ScrubSteps) = last
          /\ \A k \in 0 .. ScrubSteps : at(k) \in 0 .. last
          /\ \A j, k \in 0 .. ScrubSteps : j <= k => at(j) <= at(k)
      BY <2>1, KnobPages
    <2>3. ASSUME NEW n \in 0 .. ScrubSteps
          PROVE  page(n) = AtMost(at(IF reading_direction = "rtl" THEN ScrubSteps - n ELSE n),
                                  last)
      BY <2>1, <2>3 DEF scrub_fraction_to_page
    <2> HIDE DEF at, page, last
    <2>4. ASSUME NEW n \in 0 .. ScrubSteps
          PROVE  page(n) = at(IF reading_direction = "rtl" THEN ScrubSteps - n ELSE n)
      BY <2>1, <2>2, <2>3 DEF AtMost
    <2>5. 0 \in 0 .. ScrubSteps /\ ScrubSteps \in 0 .. ScrubSteps
      BY <2>1
    <2>6. IsForward("right") <=> reading_direction = "ltr"
      BY DEF IsForward
    <2>7. reading_direction \in {"ltr", "rtl"}
      BY DEF NavInv, TypeOK, Directions
    <2>8. {page(0), page(ScrubSteps)} = {0, last}
      BY <2>1, <2>2, <2>4, <2>5, <2>7
    <2>9. ASSUME NEW n \in 0 .. ScrubSteps - 1
          PROVE  IF IsForward("right") THEN page(n) <= page(n + 1)
                                       ELSE page(n) >= page(n + 1)
      <3>1. n \in 0 .. ScrubSteps /\ n + 1 \in 0 .. ScrubSteps
        BY <2>1
      <3>2. CASE reading_direction = "ltr"
        <4>1. page(n) = at(n) /\ page(n + 1) = at(n + 1)
          BY <2>4, <3>1, <3>2
        <4>2. at(n) <= at(n + 1)
          BY <2>2, <3>1
        <4>3. QED
          BY <2>6, <3>2, <4>1, <4>2
      <3>3. CASE reading_direction = "rtl"
        <4>1. page(n) = at(ScrubSteps - n) /\ page(n + 1) = at(ScrubSteps - (n + 1))
          BY <2>4, <3>1, <3>3
        <4>2. /\ at(ScrubSteps - (n + 1)) <= at(ScrubSteps - n)
              /\ at(ScrubSteps - (n + 1)) \in Int /\ at(ScrubSteps - n) \in Int
          BY <2>1, <2>2, <3>1
        <4>3. QED
          BY <2>6, <3>3, <4>1, <4>2
      <3>4. QED
        BY <2>7, <3>2, <3>3
    <2>10. QED
      BY <2>8, <2>9 DEF ScrubFollowsDirection, page, last
  <1>2. QED
    BY <1>1, InitNavInv, NextNavInv, PTL DEF Spec
-----------------------------------------------------------------------------

V == INSTANCE BookView

-----------------------------------------------------------------------------
(* The settings, the cache configuration and the window, driven by any     *)
(* document and any dialog edit.                                           *)

VARIABLE app

CONSTANT Paths   \* the sources a reader may open

\* A parsed settings document, before it is normalised.
Documents ==
  [version : Nat, cache_capacity : Nat, prefetch_radius : Nat,
   track_recent_sources : BOOLEAN, recent_sources : Seq(Paths),
   window : Geometries \cup {NoWindow}]

SettingsInit == \E s \in Documents : app = Boot(normalize(s))
SettingsNext == app' \in Steps(app, Paths, Geometries, Int)
SettingsSpec == SettingsInit /\ [][SettingsNext]_app

\* New books are opened with what is persisted, and both are within bounds:
\* the two setters build one configuration from one new and one stored value,
\* keep the clamped result in Settings and hand the same one to ViewerState.
ConfigMirrored ==
  /\ app.settings.cache_capacity \in 1 .. MAX_CACHE_CAPACITY
  /\ app.settings.prefetch_radius \in 0 .. MAX_PREFETCH_RADIUS
  /\ app.cache_config = cache_config_of(app.settings)

-----------------------------------------------------------------------------
(* The window. *)

\* Whatever was stored and whichever monitors are gone since, the restored
\* window can be grabbed by its title bar as long as one monitor is known: a
\* position is used only when its grab point is on a screen, and a centred
\* window larger than the screen still starts at the screen's own corner.
THEOREM RestoredWindowReachable ==
  ASSUME NEW g \in Geometries, NEW monitors \in Seq(Screens),
         monitors # <<>>, NEW current
  PROVE  TitleBarReachable(apply_geometry(g, monitors, current), monitors)
<1> DEFINE w == apply_geometry(g, monitors, current)
<1>1. g.width \in Nat /\ g.height \in Nat /\ g.x \in Int /\ g.y \in Int
      /\ g.x <= I32_MAX /\ g.y <= I32_MAX
  BY WindowAssumption DEF Geometries, I32
<1>2. w.width \in Nat /\ w.width >= g.width
  BY <1>1, WindowAssumption DEF apply_geometry, floored_size, AtLeast
<1>3. CASE is_position_visible(g, monitors)
  <2>1. PICK i \in DOMAIN monitors :
          contains(monitors[i], grab_point(g).x, grab_point(g).y)
    BY <1>3 DEF is_position_visible
  <2>2. w.x = g.x /\ w.y = g.y
    BY <1>3 DEF apply_geometry
  <2> DEFINE dx == grab_point(g).x - g.x
             dy == grab_point(g).y - g.y
  <2>3. dx \in 0 .. g.width /\ g.x + dx = grab_point(g).x
    BY <1>1, WindowAssumption DEF grab_point, saturating_add
  <2>4. dy \in 0 .. TITLE_BAR_GRAB /\ g.y + dy = grab_point(g).y
    BY <1>1, WindowAssumption DEF grab_point, saturating_add
  <2>5. dx \in 0 .. w.width
    BY <1>1, <1>2, <2>3
  <2> HIDE DEF w, dx, dy
  <2>6. contains(monitors[i], w.x + dx, w.y + dy)
    BY <2>1, <2>2, <2>3, <2>4
  <2> QED
    BY <2>4, <2>5, <2>6 DEF TitleBarReachable, w
<1>4. CASE ~is_position_visible(g, monitors)
  <2>1. 1 \in DOMAIN monitors /\ monitors[1] \in Screens
    OBVIOUS
  <2> DEFINE m == monitors[1]
  <2>2. /\ m.x \in Int /\ m.y \in Int
        /\ m.width \in Nat \ {0} /\ m.height \in Nat \ {0}
    BY <2>1, WindowAssumption DEF Screens, I32
  <2>3. /\ w.x = m.x + Margin(m.width, w.width)
        /\ w.y = m.y + Margin(m.height, w.height)
        /\ w.height \in Nat
        /\ w.width > 0 /\ w.height > 0
    BY <1>1, <1>4, WindowAssumption
       DEF apply_geometry, center_in, floored_size, AtLeast
  <2> HIDE DEF w, m
  <2>4. ASSUME NEW outer \in Nat \ {0}, NEW inner \in Nat, inner > 0
        PROVE  Margin(outer, inner) \in 0 .. outer - 1
    BY DEF Margin, AtLeast
  <2>5. contains(m, w.x + 0, w.y + 0)
    <3>1. /\ Margin(m.width, w.width) \in 0 .. m.width - 1
          /\ Margin(m.height, w.height) \in 0 .. m.height - 1
      BY <1>2, <2>2, <2>3, <2>4
    <3> QED
      BY <2>2, <2>3, <3>1 DEF contains
  <2>6. 0 \in 0 .. w.width /\ 0 \in 0 .. TITLE_BAR_GRAB
    BY <1>2, WindowAssumption
  <2> QED
    BY <2>1, <2>5, <2>6 DEF TitleBarReachable, w, m
<1> QED
  BY <1>3, <1>4

LEMMA RecordForm ==
  ASSUME NEW g \in Geometries
  PROVE  g = [width |-> g.width, height |-> g.height, x |-> g.x, y |-> g.y]
BY DEF Geometries

\* Closing and reopening without touching the window, on the same monitors,
\* does not move or resize it: the geometry captured at exit is a fixed point.
\* It holds for a normalised stored size; a smaller one would be tested for
\* visibility at its stored width and shown at its floored one.
THEOREM RestoreIsStable ==
  ASSUME NEW g \in Geometries, Floored(g),
         NEW monitors, monitors # <<>>, NEW current, NEW later
  PROVE  LET window == apply_geometry(g, monitors, current)
         IN  apply_geometry(capture_geometry(window), monitors, later) = window
<1> DEFINE w == apply_geometry(g, monitors, current)
           c == center_in(monitors[1], floored_size(g))
<1>1. floored_size(g) = [width |-> g.width, height |-> g.height]
  BY WindowAssumption DEF floored_size, AtLeast, Floored, Geometries
<1>2. CASE is_position_visible(g, monitors)
  <2>1. w = [width |-> g.width, height |-> g.height, x |-> g.x, y |-> g.y]
    BY <1>1, <1>2 DEF apply_geometry
  <2>2. g = [width |-> g.width, height |-> g.height, x |-> g.x, y |-> g.y]
    BY RecordForm
  <2>3. w = g
    <3> HIDE DEF w
    <3> QED
      BY <2>1, <2>2
  <2>4. apply_geometry(g, monitors, later) = w
    BY <1>2 DEF apply_geometry
  <2>5. apply_geometry(capture_geometry(w), monitors, later) = w
    <3> HIDE DEF w
    <3> QED
      BY <2>3, <2>4 DEF capture_geometry
  <2> QED
    BY <2>5
<1>3. CASE ~is_position_visible(g, monitors)
  <2>1. w = [width |-> g.width, height |-> g.height, x |-> c.x, y |-> c.y]
    BY <1>1, <1>3 DEF apply_geometry
  <2>2. floored_size(w) = floored_size(g)
    BY <2>1 DEF floored_size
  <2>3. apply_geometry(w, monitors, later)
          = [width |-> g.width, height |-> g.height, x |-> c.x, y |-> c.y]
    <3> HIDE DEF w, c
    <3>1. CASE is_position_visible(w, monitors)
      BY <1>1, <2>1, <2>2, <3>1 DEF apply_geometry
    <3>2. CASE ~is_position_visible(w, monitors)
      BY <1>1, <2>1, <2>2, <3>2 DEF apply_geometry, c
    <3> QED
      BY <3>1, <3>2
  <2> QED
    BY <2>1, <2>3 DEF capture_geometry
<1> QED
  BY <1>2, <1>3

\* A stored geometry is normalised once: normalising it again changes nothing.
THEOREM WindowNormalized ==
  ASSUME NEW g \in Geometries, is_size_within_max(g)
  PROVE  LET n == normalize_window(g, NoWindow)
         IN  /\ n \in Geometries /\ Floored(n) /\ is_size_within_max(n)
             /\ normalize_window(n, NoWindow) = n
<1> DEFINE n == normalize_window(g, NoWindow)
<1>1. n = [g EXCEPT !.width = AtLeast(g.width, MIN_WINDOW_WIDTH),
                    !.height = AtLeast(g.height, MIN_WINDOW_HEIGHT)]
  BY DEF normalize_window, floored_size
<1>2. /\ g.width \in Nat /\ g.height \in Nat /\ g.x \in I32 /\ g.y \in I32
      /\ g.width <= MAX_WINDOW_WIDTH /\ g.height <= MAX_WINDOW_HEIGHT
  BY DEF Geometries, is_size_within_max
<1> DEFINE w == AtLeast(g.width, MIN_WINDOW_WIDTH)
           h == AtLeast(g.height, MIN_WINDOW_HEIGHT)
<1>3. /\ w \in Nat /\ MIN_WINDOW_WIDTH <= w /\ w <= MAX_WINDOW_WIDTH
      /\ h \in Nat /\ MIN_WINDOW_HEIGHT <= h /\ h <= MAX_WINDOW_HEIGHT
  BY <1>2, WindowAssumption DEF AtLeast
<1>4. n = [width |-> w, height |-> h, x |-> g.x, y |-> g.y]
  BY <1>1 DEF Geometries
<1> HIDE DEF n, w, h
<1>5. n \in Geometries
  BY <1>2, <1>3, <1>4 DEF Geometries
<1>6. n.width = w /\ n.height = h
  BY <1>4
<1>7. Floored(n) /\ is_size_within_max(n)
  BY <1>3, <1>6 DEF Floored, is_size_within_max
<1>8. floored_size(n) = [width |-> w, height |-> h]
  BY <1>3, <1>6, WindowAssumption DEF floored_size, AtLeast
<1>9. normalize_window(n, NoWindow) = [n EXCEPT !.width = w, !.height = h]
  BY <1>7, <1>8 DEF normalize_window
<1>10. [n EXCEPT !.width = w, !.height = h] = n
  BY <1>5, <1>6 DEF Geometries
<1>11. /\ n \in Geometries /\ Floored(n) /\ is_size_within_max(n)
       /\ normalize_window(n, NoWindow) = n
  BY <1>5, <1>7, <1>9, <1>10
<1> QED
  BY <1>11 DEF n

-----------------------------------------------------------------------------
(* The settings. *)

LEMMA ConfigRange ==
  ASSUME NEW c \in Int, NEW r \in Int, r >= 0
  PROVE  /\ CacheConfig(c, r).capacity \in 1 .. MAX_CACHE_CAPACITY
         /\ CacheConfig(c, r).radius \in 0 .. MAX_PREFETCH_RADIUS
BY SettingsAssumption DEF CacheConfig, Capped, AtLeast

LEMMA ConfigIdle ==
  ASSUME NEW c \in 1 .. MAX_CACHE_CAPACITY, NEW r \in 0 .. MAX_PREFETCH_RADIUS
  PROVE  CacheConfig(c, r) = [capacity |-> c, radius |-> r]
BY SettingsAssumption DEF CacheConfig, Capped, AtLeast

LEMMA TruncatedIdle ==
  ASSUME NEW S, NEW list \in Seq(S)
  PROVE  /\ Truncated(list) \in Seq(S)
         /\ Truncated(Truncated(list)) = Truncated(list)
<1>1. CASE Len(list) <= MAX_RECENT_SOURCES
  BY <1>1 DEF Truncated
<1>2. CASE ~(Len(list) <= MAX_RECENT_SOURCES)
  <2> DEFINE t == SubSeq(list, 1, MAX_RECENT_SOURCES)
  <2>1. t \in Seq(S) /\ Len(t) = MAX_RECENT_SOURCES
    BY <1>2, SettingsAssumption
  <2>2. Truncated(list) = t
    BY <1>2 DEF Truncated
  <2> HIDE DEF t
  <2>3. Truncated(t) = t
    BY <2>1, SettingsAssumption DEF Truncated
  <2> QED
    BY <2>1, <2>2, <2>3
<1> QED
  BY <1>1, <1>2

\* Settings::normalize is idempotent, as its comment says: what a repaired
\* file holds is what the next launch loads.
THEOREM NormalizeIdempotent ==
  ASSUME NEW s \in Documents
  PROVE  normalize(normalize(s)) = normalize(s)
<1> DEFINE n == normalize(s)
           cfg == cache_config_of(s)
           w == IF s.window = NoWindow THEN NoWindow
                ELSE normalize_window(s.window, NoWindow)
<1>1. n = [s EXCEPT !.version = SETTINGS_VERSION,
                    !.cache_capacity = cfg.capacity,
                    !.prefetch_radius = cfg.radius,
                    !.recent_sources = Truncated(s.recent_sources),
                    !.window = w]
  BY DEF normalize
<1>2. /\ n.version = SETTINGS_VERSION
      /\ n.cache_capacity = cfg.capacity /\ n.prefetch_radius = cfg.radius
      /\ n.recent_sources = Truncated(s.recent_sources)
      /\ n.window = w
  <2> HIDE DEF n, cfg, w
  <2> QED
    BY <1>1 DEF Documents
<1>3. cache_config_of(n) = [capacity |-> cfg.capacity, radius |-> cfg.radius]
  <2>1. s.cache_capacity \in Nat /\ s.prefetch_radius \in Nat
    BY DEF Documents
  <2>2. /\ cfg.capacity \in 1 .. MAX_CACHE_CAPACITY
        /\ cfg.radius \in 0 .. MAX_PREFETCH_RADIUS
    BY <2>1, ConfigRange DEF cache_config_of
  <2> HIDE DEF n, cfg
  <2> QED
    BY <1>2, <2>2, ConfigIdle DEF cache_config_of
<1>4. Truncated(n.recent_sources) = n.recent_sources
  <2>1. s.recent_sources \in Seq(Paths)
    BY DEF Documents
  <2> HIDE DEF n
  <2> QED
    BY <1>2, <2>1, TruncatedIdle
<1>5. (IF n.window = NoWindow THEN n.window
       ELSE normalize_window(n.window, NoWindow)) = n.window
  <2>1. CASE w = NoWindow
    <3> HIDE DEF n, w
    <3> QED
      BY <1>2, <2>1
  <2>2. CASE w # NoWindow
    <3>1. s.window \in Geometries /\ w = normalize_window(s.window, NoWindow)
      BY <2>2 DEF Documents
    <3>2. is_size_within_max(s.window)
      BY <2>2, <3>1 DEF normalize_window
    <3>3. normalize_window(w, NoWindow) = w
      <4> HIDE DEF w
      <4> QED
        BY <3>1, <3>2, WindowNormalized
    <3> HIDE DEF n, w
    <3> QED
      BY <1>2, <2>2, <3>3
  <2> QED
    BY <2>1, <2>2
<1>6. n \in [version : {SETTINGS_VERSION}, cache_capacity : {cfg.capacity},
             prefetch_radius : {cfg.radius}, track_recent_sources : BOOLEAN,
             recent_sources : {Truncated(s.recent_sources)}, window : {w}]
  <2> HIDE DEF cfg, w, n
  <2> QED
    BY <1>1 DEF Documents
<1> HIDE DEF n, cfg, w
<1>7. normalize(n) = [n EXCEPT !.version = n.version,
                               !.cache_capacity = n.cache_capacity,
                               !.prefetch_radius = n.prefetch_radius,
                               !.recent_sources = n.recent_sources,
                               !.window = n.window]
  <2>1. /\ cache_config_of(n).capacity = n.cache_capacity
        /\ cache_config_of(n).radius = n.prefetch_radius
    BY <1>2, <1>3
  <2> QED
    BY <1>2, <1>4, <1>5, <2>1 DEF normalize
<1>8. normalize(n) = n
  BY <1>6, <1>7
<1> QED
  BY <1>8 DEF n

\* What the induction needs besides: the fields are there to be updated.
SettingsFields ==
  {"version", "cache_capacity", "prefetch_radius", "track_recent_sources",
   "recent_sources", "window"}
Mirrored(a) ==
  /\ DOMAIN a = {"settings", "cache_config"}
  /\ DOMAIN a.settings = SettingsFields
  /\ a.settings.cache_capacity \in 1 .. MAX_CACHE_CAPACITY
  /\ a.settings.prefetch_radius \in 0 .. MAX_PREFETCH_RADIUS
  /\ a.cache_config = cache_config_of(a.settings)

\* A step that leaves the two fields and the configuration alone.
LEMMA SettingUntouched ==
  ASSUME NEW a, Mirrored(a), NEW f \in SettingsFields \ {"cache_capacity", "prefetch_radius"},
         NEW v, NEW b, b = [a EXCEPT !.settings = [a.settings EXCEPT ![f] = v]]
  PROVE  Mirrored(b)
<1> DEFINE t == [a.settings EXCEPT ![f] = v]
<1>1. /\ DOMAIN t = SettingsFields
      /\ t.cache_capacity = a.settings.cache_capacity
      /\ t.prefetch_radius = a.settings.prefetch_radius
  BY DEF Mirrored, SettingsFields
<1>2. b.settings = t /\ b.cache_config = a.cache_config
      /\ DOMAIN b = {"settings", "cache_config"}
  <2> HIDE DEF t
  <2> QED
    BY DEF Mirrored, t
<1> HIDE DEF t
<1> QED
  BY <1>1, <1>2 DEF Mirrored, cache_config_of

\* A setter: one field and the configuration become cfg, built from both.
LEMMA SettingConfigured ==
  ASSUME NEW a, Mirrored(a), NEW c \in Int, NEW r \in Nat,
         NEW cfg, cfg = CacheConfig(c, r),
         NEW b,
         \/ /\ r = a.settings.prefetch_radius
            /\ b = [a EXCEPT !.settings = [a.settings EXCEPT !.cache_capacity = cfg.capacity],
                             !.cache_config = cfg]
         \/ /\ c = a.settings.cache_capacity
            /\ b = [a EXCEPT !.settings = [a.settings EXCEPT !.prefetch_radius = cfg.radius],
                             !.cache_config = cfg]
  PROVE  Mirrored(b)
<1>1. /\ cfg.capacity \in 1 .. MAX_CACHE_CAPACITY
      /\ cfg.radius \in 0 .. MAX_PREFETCH_RADIUS
      /\ cfg = [capacity |-> cfg.capacity, radius |-> cfg.radius]
      /\ CacheConfig(cfg.capacity, cfg.radius) = cfg
  <2>1. /\ cfg.capacity \in 1 .. MAX_CACHE_CAPACITY
        /\ cfg.radius \in 0 .. MAX_PREFETCH_RADIUS
    BY ConfigRange
  <2>2. cfg = [capacity |-> cfg.capacity, radius |-> cfg.radius]
    BY DEF CacheConfig
  <2> QED
    BY <2>1, <2>2, ConfigIdle
<1>2. /\ DOMAIN b = {"settings", "cache_config"} /\ b.cache_config = cfg
      /\ DOMAIN b.settings = SettingsFields
  BY DEF Mirrored, SettingsFields
<1>3. b.settings.cache_capacity = cfg.capacity /\ b.settings.prefetch_radius = cfg.radius
  <2>1. CASE r = a.settings.prefetch_radius
             /\ b = [a EXCEPT !.settings = [a.settings EXCEPT !.cache_capacity = cfg.capacity],
                             !.cache_config = cfg]
    <3>1. cfg.radius = r
      BY <2>1, SettingsAssumption DEF CacheConfig, Capped, Mirrored
    <3> QED
      BY <2>1, <3>1 DEF Mirrored, SettingsFields
  <2>2. CASE c = a.settings.cache_capacity
             /\ b = [a EXCEPT !.settings = [a.settings EXCEPT !.prefetch_radius = cfg.radius],
                             !.cache_config = cfg]
    <3>1. cfg.capacity = c
      BY <2>2, SettingsAssumption DEF CacheConfig, Capped, AtLeast, Mirrored
    <3> QED
      BY <2>2, <3>1 DEF Mirrored, SettingsFields
  <2> QED
    BY <2>1, <2>2
<1> QED
  BY <1>1, <1>2, <1>3 DEF Mirrored, cache_config_of

LEMMA StepMirrors ==
  ASSUME NEW a, Mirrored(a), NEW b \in Steps(a, Paths, Geometries, Int)
  PROVE  Mirrored(b)
<1>1. a.settings.prefetch_radius \in Nat /\ a.settings.cache_capacity \in Int
  BY SettingsAssumption DEF Mirrored
<1>2. ASSUME NEW v \in Int, b = on_set_cache_size(a, v)
      PROVE  Mirrored(b)
  <2>1. AtLeast(v, 1) \in Int
    BY DEF AtLeast
  <2> QED
    BY <1>1, <1>2, <2>1, SettingConfigured DEF on_set_cache_size
<1>3. ASSUME NEW v \in Int, b = on_set_preload_pages(a, v)
      PROVE  Mirrored(b)
  <2>1. AtLeast(v, 0) \in Nat
    BY DEF AtLeast
  <2> QED
    BY <1>1, <1>3, <2>1, SettingConfigured DEF on_set_preload_pages
<1>4. ASSUME NEW v \in BOOLEAN, b = on_set_track_recent(a, v)
      PROVE  Mirrored(b)
  BY <1>4, SettingUntouched DEF on_set_track_recent, SettingsFields
<1>5. ASSUME NEW p \in Paths, b = record_recent(a, p)
      PROVE  Mirrored(b)
  <2>1. CASE ~a.settings.track_recent_sources
    BY <1>5, <2>1 DEF record_recent, push_recent, Mirrored
  <2>2. CASE a.settings.track_recent_sources
    BY <1>5, <2>2, SettingUntouched DEF record_recent, push_recent, SettingsFields
  <2> QED
    BY <2>1, <2>2
<1>6. ASSUME NEW w \in Geometries, b = capture(a, w)
      PROVE  Mirrored(b)
  BY <1>6, SettingUntouched DEF capture, SettingsFields
<1>7. ASSUME b = clear_recent(a)
      PROVE  Mirrored(b)
  BY <1>7, SettingUntouched DEF clear_recent, SettingsFields
<1> QED
  BY <1>2, <1>3, <1>4, <1>5, <1>6, <1>7 DEF Steps

\* ConfigMirrored, whatever the file held and however the dialog is used.
THEOREM CacheConfigMirrored == SettingsSpec => []ConfigMirrored
<1>1. SettingsInit => Mirrored(app)
  <2> SUFFICES ASSUME NEW s \in Documents, app = Boot(normalize(s))
               PROVE  Mirrored(app)
    BY DEF SettingsInit
  <2> DEFINE n == normalize(s)
             cfg == cache_config_of(s)
  <2>1. /\ DOMAIN n = SettingsFields
        /\ n.cache_capacity = cfg.capacity /\ n.prefetch_radius = cfg.radius
    BY DEF normalize, Documents, SettingsFields
  <2>2. /\ cfg.capacity \in 1 .. MAX_CACHE_CAPACITY
        /\ cfg.radius \in 0 .. MAX_PREFETCH_RADIUS
    <3>1. s.cache_capacity \in Int /\ s.prefetch_radius \in Int
          /\ s.prefetch_radius >= 0
      BY DEF Documents
    <3> QED
      BY <3>1, ConfigRange DEF cache_config_of
  <2> HIDE DEF n, cfg
  <2>3. app = [settings |-> n, cache_config |-> cache_config_of(n)]
    BY DEF Boot, n
  <2> QED
    BY <2>1, <2>2, <2>3 DEF Mirrored
<1>2. Mirrored(app) /\ [SettingsNext]_app => Mirrored(app)'
  <2>1. CASE SettingsNext
    BY <2>1, StepMirrors DEF SettingsNext
  <2>2. CASE UNCHANGED app
    BY <2>2
  <2> QED
    BY <2>1, <2>2
<1>3. Mirrored(app) => ConfigMirrored
  BY DEF Mirrored, ConfigMirrored
<1> QED
  BY <1>1, <1>2, <1>3, PTL DEF SettingsSpec

-----------------------------------------------------------------------------
(* The page area as a state machine: any callback of the page area, the    *)
(* keyboard or a refresh, with any size, anchor, delta or gesture scale.   *)
(* No sequence of them leaves the page misplaced.                          *)

VARIABLE view

Sizes == [Axes -> Nat]
Points == [Axes -> Int]
Views ==
  [fit_mode : FitModes, zoom : ZOOM_MIN .. ZOOM_MAX, offset : Points,
   vp_size : Sizes, content_size : Sizes,
   pan_origin : Points, pinch_origin_zoom : ZOOM_MIN .. ZOOM_MAX]

ViewInit == \E mode \in FitModes : view = from_settings(mode)
ViewNext == view' \in Handle(view, Sizes, Points, Int)
ViewSpec == ViewInit /\ [][ViewNext]_view

\* An axis is well placed when the page is centred, or covers the window.
WellPlaced(disp, vp, o) ==
  IF disp <= vp THEN o = (vp - disp) \div 2 ELSE vp - disp <= o /\ o <= 0

\* No sequence of zooms, pans, pinches, resizes and page turns pulls an edge of
\* an overflowing page inside the window or leaves a fitting page off centre,
\* and the zoom never leaves its range.
PageIsPlaced ==
  /\ view.zoom \in ZOOM_MIN .. ZOOM_MAX
  /\ \A a \in Axes :
       WellPlaced(displayed(view)[a], view.vp_size[a], view.offset[a])

\* What Slint is told is what the state holds: the clamp that geometry adds
\* "even if state mutated without an explicit clamp" never moves the page.
RenderedAsHeld == geometry(view).offset = view.offset

-----------------------------------------------------------------------------
(* The geometry. *)

LEMMA ZoomRange ==
  ASSUME NEW z \in Int
  PROVE  clamp_zoom(z) \in ZOOM_MIN .. ZOOM_MAX
BY UnitAssumption, ZoomTopAssumption
   DEF clamp_zoom, Clamp, ZOOM_MIN, ZOOM_MAX

LEMMA AxisPlaced ==
  ASSUME NEW disp \in Int, NEW vp \in Int, NEW o \in Int
  PROVE  /\ clamp_axis(disp, vp, o) \in Int
         /\ WellPlaced(disp, vp, clamp_axis(disp, vp, o))
BY DEF clamp_axis, Clamp, WellPlaced

\* Clamping a well-placed axis again changes nothing.
LEMMA AxisIdle ==
  ASSUME NEW disp \in Int, NEW vp \in Int, NEW o \in Int,
         WellPlaced(disp, vp, o)
  PROVE  clamp_axis(disp, vp, o) = o
BY DEF clamp_axis, Clamp, WellPlaced

LEMMA FitType ==
  ASSUME NEW content \in Sizes, NEW vp \in Sizes, NEW mode \in FitModes
  PROVE  /\ fit_scale(content, vp, mode).num \in Nat
         /\ fit_scale(content, vp, mode).den \in Nat \ {0}
<1>1. "x" \in Axes /\ "y" \in Axes
  BY DEF Axes
<1>2. content.x \in Nat /\ content.y \in Nat /\ vp.x \in Nat /\ vp.y \in Nat
  BY <1>1 DEF Sizes
<1>3. CASE mode = "Actual" \/ (\E a \in Axes : content[a] <= 0 \/ vp[a] <= 0)
  BY <1>3 DEF fit_scale
<1>4. CASE ~(mode = "Actual" \/ (\E a \in Axes : content[a] <= 0 \/ vp[a] <= 0))
  <2>1. content.x # 0 /\ content.y # 0
    BY <1>1, <1>2, <1>4
  <2> QED
    BY <1>2, <1>4, <2>1 DEF fit_scale
<1> QED
  BY <1>3, <1>4

LEMMA DisplayedType ==
  ASSUME NEW v \in Views
  PROVE  displayed(v) \in Points
<1>1. /\ v.content_size \in Sizes
      /\ v.vp_size \in Sizes
      /\ v.fit_mode \in FitModes
      /\ v.zoom \in Int
  BY UnitAssumption, ZoomTopAssumption DEF Views, ZOOM_MIN, ZOOM_MAX
<1> DEFINE n == fit(v).num
           d == fit(v).den
           z == clamp_zoom(v.zoom)
<1>2. n \in Nat /\ d \in Nat \ {0}
  BY <1>1, FitType DEF fit
<1>3. z \in Int
  BY <1>1, ZoomRange, UnitAssumption, ZoomTopAssumption DEF ZOOM_MIN, ZOOM_MAX
<1>4. Unit * d \in Nat \ {0}
  <2> HIDE DEF d
  <2> QED
    BY <1>2, UnitAssumption
<1>5. ASSUME NEW a \in Axes
      PROVE  (v.content_size[a] * z * n) \div (Unit * d) \in Int
  <2>1. v.content_size[a] \in Int
    BY <1>1 DEF Sizes
  <2> HIDE DEF n, d, z
  <2>2. v.content_size[a] * z * n \in Int
    BY <2>1, <1>2, <1>3
  <2> DEFINE p == v.content_size[a] * z * n
             q == Unit * d
  <2> HIDE DEF p, q
  <2>3. p \in Int /\ q \in Nat \ {0}
    BY <2>2, <1>4 DEF p, q
  <2>4. p \div q \in Int
    BY <2>3
  <2> QED
    BY <2>4 DEF p, q
<1> QED
  BY <1>5 DEF displayed, Points

-----------------------------------------------------------------------------
(* The operations. *)

\* Every operation that moves the page ends in a clamp against the box it
\* displays: whatever offset is asked for, the page ends up well placed.
LEMMA AtPlaces ==
  ASSUME NEW v \in Views, NEW o \in Points
  PROVE  /\ At(v, o) \in Views
         /\ displayed(At(v, o)) = displayed(v)
         /\ \A a \in Axes :
              WellPlaced(displayed(v)[a], v.vp_size[a], At(v, o).offset[a])
<1> DEFINE c == clamp_offset(displayed(v), v.vp_size, o)
<1>1. displayed(v) \in Points /\ v.vp_size \in Sizes
  BY DisplayedType DEF Views
<1>2. ASSUME NEW a \in Axes
      PROVE  c[a] \in Int /\ WellPlaced(displayed(v)[a], v.vp_size[a], c[a])
  <2>1. displayed(v)[a] \in Int /\ v.vp_size[a] \in Int /\ o[a] \in Int
    BY <1>1 DEF Points, Sizes
  <2>2. c[a] = clamp_axis(displayed(v)[a], v.vp_size[a], o[a])
    BY DEF clamp_offset
  <2> QED
    BY <2>1, <2>2, AxisPlaced
<1>3. c \in Points
  BY <1>2 DEF Points, clamp_offset
<1>4. At(v, o) = [v EXCEPT !.offset = c]
  BY DEF At
<1> HIDE DEF c
<1>5. At(v, o) \in Views
  BY <1>3, <1>4 DEF Views
<1>6. At(v, o).offset = c
  BY <1>4 DEF Views
<1>7. displayed(At(v, o)) = displayed(v)
  BY <1>4 DEF displayed, fit, Views
<1> QED
  BY <1>2, <1>5, <1>6, <1>7

LEMMA CenterType ==
  ASSUME NEW v \in Views
  PROVE  centered_offset(displayed(v), v.vp_size) \in Points
<1>1. displayed(v) \in Points /\ v.vp_size \in Sizes
  BY DisplayedType DEF Views
<1> QED
  BY <1>1 DEF centered_offset, Points, Sizes

Placed(v) ==
  /\ v \in Views
  /\ \A a \in Axes : WellPlaced(displayed(v)[a], v.vp_size[a], v.offset[a])

LEMMA AtIsPlaced ==
  ASSUME NEW v \in Views, NEW o \in Points
  PROVE  Placed(At(v, o))
<1>1. At(v, o).vp_size = v.vp_size
  BY DEF At, Views
<1> QED
  BY <1>1, AtPlaces DEF Placed

LEMMA CenterIsPlaced ==
  ASSUME NEW v \in Views
  PROVE  Placed(center_and_clamp(v))
BY CenterType, AtIsPlaced DEF center_and_clamp

LEMMA ReclampIsPlaced ==
  ASSUME NEW v \in Views
  PROVE  Placed(reclamp(v))
<1>1. v.offset \in Points
  BY DEF Views
<1> QED
  BY <1>1, AtIsPlaced DEF reclamp

LEMMA ZoomIsPlaced ==
  ASSUME NEW v \in Views, NEW z \in ZOOM_MIN .. ZOOM_MAX, NEW p \in Points
  PROVE  Placed(ZoomTo(v, z, p))
<1> DEFINE old == clamp_zoom(v.zoom)
           o == anchored_zoom(p, old, z, v.offset)
<1>1. v.zoom \in Int /\ z \in Int /\ v.offset \in Points
  BY UnitAssumption, ZoomTopAssumption DEF Views, ZOOM_MIN, ZOOM_MAX
<1>2. old \in Nat \ {0}
  BY <1>1, ZoomRange, UnitAssumption, ZoomTopAssumption DEF ZOOM_MIN, ZOOM_MAX
<1> HIDE DEF old
<1>3. ASSUME NEW a \in Axes
      PROVE  p[a] - ((p[a] - v.offset[a]) * z) \div old \in Int
  <2>1. p[a] \in Int /\ v.offset[a] \in Int
    BY <1>1 DEF Points
  <2> DEFINE m == (p[a] - v.offset[a]) * z
  <2>2. m \in Int
    BY <2>1, <1>1
  <2> HIDE DEF m
  <2>3. p[a] - m \div old \in Int
    BY <2>1, <2>2, <1>2
  <2> QED
    BY <2>3 DEF m
<1>4. o \in Points
  BY <1>1, <1>2, <1>3 DEF anchored_zoom, Points
<1> HIDE DEF o
<1>5. [v EXCEPT !.offset = o, !.zoom = z] \in Views
  BY <1>4 DEF Views
<1> QED
  BY <1>5, ReclampIsPlaced DEF ZoomTo, o, old

-----------------------------------------------------------------------------
(* The state machine. *)

LEMMA StepIsPlaced ==
  ASSUME NEW v, Placed(v), NEW w \in Handle(v, Sizes, Points, Int)
  PROVE  Placed(w)
<1>1. v \in Views
  BY DEF Placed
<1>2. /\ v.zoom \in ZOOM_MIN .. ZOOM_MAX
      /\ v.pinch_origin_zoom \in ZOOM_MIN .. ZOOM_MAX
      /\ v.zoom \in Int /\ v.pinch_origin_zoom \in Int
      /\ ZOOM_MIN \in ZOOM_MIN .. ZOOM_MAX
  BY <1>1, UnitAssumption, ZoomTopAssumption DEF Views, ZOOM_MIN, ZOOM_MAX
<1>3. /\ v.offset \in Points /\ v.pan_origin \in Points
      /\ v.vp_size \in Sizes
  BY <1>1 DEF Views
<1>4. ASSUME NEW s \in Sizes, w = resize(v, s)
      PROVE  Placed(w)
  <2>1. [v EXCEPT !.vp_size = s] \in Views
    BY <1>1 DEF Views
  <2> QED
    BY <2>1, <1>4, ReclampIsPlaced DEF resize
<1>5. ASSUME NEW s \in Sizes, w = set_content(v, s)
      PROVE  Placed(w)
  <2>1. [v EXCEPT !.content_size = s] \in Views
    BY <1>1 DEF Views
  <2> QED
    BY <2>1, <1>5, CenterIsPlaced DEF set_content
<1>6. ASSUME NEW p \in Points, NEW d \in {-1, 0, 1}
      PROVE  Placed(zoom_at(v, p, d))
  <2>1. Stepped(v.zoom, d) \in Int
    BY <1>2 DEF Stepped
  <2> QED
    BY <2>1, <1>1, <1>6, ZoomRange, ZoomIsPlaced DEF zoom_at
<1>7. ASSUME NEW b \in BOOLEAN, w = zoom_step(v, b)
      PROVE  Placed(w)
  <2>1. [a \in Axes |-> v.vp_size[a] \div 2] \in Points
    BY <1>3 DEF Points, Sizes
  <2> QED
    BY <2>1, <1>6, <1>7 DEF zoom_step
<1>8. ASSUME NEW p \in Points, w = pan_to(v, p)
      PROVE  Placed(w)
  <2>1. [a \in Axes |-> v.pan_origin[a] + p[a]] \in Points
    BY <1>3 DEF Points
  <2> QED
    BY <2>1, <1>1, <1>8, AtIsPlaced DEF pan_to
<1>9. ASSUME NEW p \in Points, w = pan_by(v, p)
      PROVE  Placed(w)
  <2>1. [a \in Axes |-> v.offset[a] + p[a]] \in Points
    BY <1>3 DEF Points
  <2> QED
    BY <2>1, <1>1, <1>9, AtIsPlaced DEF pan_by
<1>10. ASSUME NEW n \in Int, NEW p \in Points, w = pinch_to(v, n, p)
       PROVE  Placed(w)
  <2>1. (v.pinch_origin_zoom * n) \div Unit \in Int
    <3> DEFINE m == v.pinch_origin_zoom * n
    <3>1. m \in Int
      BY <1>2
    <3> HIDE DEF m
    <3>2. m \div Unit \in Int
      BY <3>1, UnitAssumption
    <3> QED
      BY <3>2 DEF m
  <2>2. Placed(ZoomTo(v, clamp_zoom((v.pinch_origin_zoom * n) \div Unit), p))
    BY <2>1, <1>1, ZoomRange, ZoomIsPlaced
  <2> QED
    BY <2>2, <1>10 DEF pinch_to
<1>11. ASSUME NEW m \in FitModes
       PROVE  Placed(set_fit(v, m))
  <2>1. [v EXCEPT !.fit_mode = m, !.zoom = ZOOM_MIN] \in Views
    BY <1>1, <1>2 DEF Views
  <2> QED
    BY <2>1, CenterIsPlaced DEF set_fit
<1>12. Placed(reset(v))
  <2>1. [v EXCEPT !.zoom = ZOOM_MIN] \in Views
    BY <1>1, <1>2 DEF Views
  <2> QED
    BY <2>1, CenterIsPlaced DEF reset
<1>13. Placed(cycle_fit(v))
  BY <1>11 DEF cycle_fit, FitModes
<1>14. Placed(begin_pan(v)) /\ Placed(begin_pinch(v))
  <2>1. begin_pan(v) \in Views /\ begin_pinch(v) \in Views
    BY <1>1, <1>2, <1>3 DEF begin_pan, begin_pinch, Views
  <2>2. /\ begin_pan(v).offset = v.offset /\ begin_pan(v).vp_size = v.vp_size
        /\ begin_pinch(v).offset = v.offset /\ begin_pinch(v).vp_size = v.vp_size
        /\ displayed(begin_pan(v)) = displayed(v)
        /\ displayed(begin_pinch(v)) = displayed(v)
    BY <1>1 DEF begin_pan, begin_pinch, displayed, fit, Views
  <2> QED
    BY <2>1, <2>2 DEF Placed
<1>15. Placed(clear_page_view(v))
  <2>1. Origin \in Sizes
    BY DEF Origin, Sizes, Axes
  <2>2. [v EXCEPT !.content_size = Origin] \in Views
    BY <2>1, <1>1 DEF Views
  <2> QED
    BY <2>2, CenterIsPlaced DEF clear_page_view, set_content
<1> QED
  BY <1>4, <1>5, <1>6, <1>7, <1>8, <1>9, <1>10, <1>11, <1>12, <1>13, <1>14,
     <1>15 DEF Handle

\* The inductive invariant: the view has its type and both axes are placed.
LEMMA AlwaysPlaced == ViewSpec => []Placed(view)
<1>1. ViewInit => Placed(view)
  <2> SUFFICES ASSUME NEW mode \in FitModes, view = from_settings(mode)
               PROVE  Placed(view)
    BY DEF ViewInit
  <2>1. Origin \in Sizes /\ Origin \in Points
    BY DEF Origin, Sizes, Points, Axes
  <2>2. view \in Views
    BY <2>1, UnitAssumption, ZoomTopAssumption
       DEF from_settings, Views, ZOOM_MIN, ZOOM_MAX
  <2>3. ASSUME NEW a \in Axes
        PROVE  displayed(view)[a] = 0
    <3>1. view.content_size[a] = 0 /\ view.content_size.x = 0 /\ "x" \in Axes
      BY DEF from_settings, Origin, Axes
    <3>2. fit(view) = [num |-> 1, den |-> 1]
      BY <3>1 DEF fit, fit_scale
    <3>3. clamp_zoom(view.zoom) \in Int
      BY <2>2, ZoomRange, UnitAssumption, ZoomTopAssumption
         DEF Views, ZOOM_MIN, ZOOM_MAX
    <3>4. view.content_size[a] * clamp_zoom(view.zoom) * 1 = 0
      BY <3>1, <3>3
    <3>5. 0 \div (Unit * 1) = 0
      BY UnitAssumption
    <3> QED
      BY <3>2, <3>4, <3>5 DEF displayed
  <2>4. \A a \in Axes : view.vp_size[a] = 0 /\ view.offset[a] = 0
    BY DEF from_settings, Origin, Axes
  <2> QED
    BY <2>2, <2>3, <2>4 DEF Placed, WellPlaced
<1>2. Placed(view) /\ [ViewNext]_view => Placed(view)'
  <2>1. CASE ViewNext
    BY <2>1, StepIsPlaced DEF ViewNext
  <2>2. CASE UNCHANGED view
    BY <2>2
  <2> QED
    BY <2>1, <2>2
<1> QED
  BY <1>1, <1>2, PTL DEF ViewSpec

\* PageIsPlaced, for every sequence of events of every size.
THEOREM PagePlaced == ViewSpec => []PageIsPlaced
<1>1. Placed(view) => PageIsPlaced
  BY DEF Placed, PageIsPlaced, Views
<1> QED
  BY <1>1, AlwaysPlaced, PTL

\* RenderedAsHeld: a placed view is a fixed point of the clamp geometry adds.
THEOREM RenderedWhereHeld == ViewSpec => []RenderedAsHeld
<1>1. Placed(view) => RenderedAsHeld
  <2> SUFFICES ASSUME Placed(view)
               PROVE  RenderedAsHeld
    OBVIOUS
  <2>1. view \in Views /\ displayed(view) \in Points
    BY DisplayedType DEF Placed
  <2>2. view.offset \in Points /\ view.vp_size \in Sizes
    BY <2>1 DEF Views
  <2>3. ASSUME NEW a \in Axes
        PROVE  clamp_axis(displayed(view)[a], view.vp_size[a], view.offset[a])
                 = view.offset[a]
    <3>1. /\ displayed(view)[a] \in Int /\ view.vp_size[a] \in Int
          /\ view.offset[a] \in Int
      BY <2>1, <2>2 DEF Points, Sizes
    <3> QED
      BY <3>1, AxisIdle DEF Placed
  <2>4. clamp_offset(displayed(view), view.vp_size, view.offset) = view.offset
    BY <2>2, <2>3 DEF clamp_offset, Points
  <2> QED
    BY <2>4 DEF RenderedAsHeld, geometry
<1> QED
  BY <1>1, AlwaysPlaced, PTL

\* A drag and a pinch are measured from where they began: of a burst of move
\* events only the last one counts, however many the event loop delivers.
THEOREM GesturesDoNotDrift ==
  ASSUME NEW v \in Views, NEW p \in Points, NEW q \in Points,
         NEW m \in Int, NEW n \in Int, n > 0
  PROVE  /\ pan_to(pan_to(v, p), q) = pan_to(v, q)
         /\ pinch_to(pinch_to(v, m, p), n, q).zoom = pinch_to(v, n, q).zoom
<1>1. ASSUME NEW o, NEW r
      PROVE  At(At(v, o), r) = At(v, r)
  <2>1. displayed(At(v, o)) = displayed(v) /\ At(v, o).vp_size = v.vp_size
    BY DEF At, displayed, fit, Views
  <2> QED
    BY <2>1 DEF At, Views
<1>2. pan_to(v, p).pan_origin = v.pan_origin
  BY DEF pan_to, At, Views
<1>3. pan_to(pan_to(v, p), q) = pan_to(v, q)
  BY <1>1, <1>2 DEF pan_to
<1>4. pinch_to(v, m, p).pinch_origin_zoom = v.pinch_origin_zoom
  BY DEF pinch_to, ZoomTo, reclamp, At, Views
<1>5. ASSUME NEW w, w = v \/ w = pinch_to(v, m, p)
      PROVE  pinch_to(w, n, q).zoom =
               clamp_zoom((w.pinch_origin_zoom * n) \div Unit)
  BY <1>5 DEF pinch_to, ZoomTo, reclamp, At, Views
<1> QED
  BY <1>3, <1>4, <1>5

-----------------------------------------------------------------------------
(* The write-back of a book's view, for any view and any globals.          *)

\* No preference has the value that stands for None.
LEMMA NoneIsNoValue ==
  ASSUME NEW f \in V!Fields PROVE V!Inherit \notin V!Values(f)
BY DEF V!Fields, V!Values, V!Inherit, V!ReadingDirection, V!SpreadMode, V!CoverMode, V!FitMode

LEMMA ViewFields ==
  ASSUME NEW seen \in V!ResolvedView
  PROVE  /\ seen = [f \in V!Fields |-> seen[f]]
         /\ \A f \in V!Fields : seen[f] \in V!Values(f) /\ seen[f] # V!Inherit
BY NoneIsNoValue DEF V!ResolvedView

\* view_override.rs: "differences_from(view, global).resolve(global) == view", and
\* every override that resolves to the view sets at least the fields this one sets.
THEOREM DifferencesAreMinimal ==
  ASSUME NEW seen \in V!ResolvedView, NEW global \in V!ResolvedView
  PROVE  LET diff == V!differences_from(seen, global)
         IN  /\ V!resolve(diff, global) = seen
             /\ \A o \in V!ViewOverride : V!resolve(o, global) = seen =>
                  \A f \in V!Fields : diff[f] # V!Inherit => o[f] = diff[f]
<1> DEFINE diff == V!differences_from(seen, global)
<1>1. \A f \in V!Fields : diff[f] = IF seen[f] = global[f] THEN V!Inherit ELSE seen[f]
  BY DEF V!differences_from
<1>2. \A f \in V!Fields : V!resolve(diff, global)[f] = seen[f]
  BY <1>1, ViewFields DEF V!resolve
<1>3. V!resolve(diff, global) = seen
  BY <1>2, ViewFields DEF V!resolve
<1>4. ASSUME NEW o \in V!ViewOverride, V!resolve(o, global) = seen,
             NEW f \in V!Fields, diff[f] # V!Inherit
      PROVE  o[f] = diff[f]
  <2>1. seen[f] = IF o[f] = V!Inherit THEN global[f] ELSE o[f]
    BY <1>4 DEF V!resolve
  <2> QED
    BY <1>1, <1>4, <2>1
<1> QED
  BY <1>3, <1>4

\* A later change of the globals reaches an inheriting book in exactly the fields
\* that agreed with them when it was left.
THEOREM InheritedFieldsFollow ==
  ASSUME NEW seen \in V!ResolvedView, NEW global \in V!ResolvedView, NEW later \in V!ResolvedView,
         NEW f \in V!Fields
  PROVE  V!resolve(V!differences_from(seen, global), later)[f]
           = IF seen[f] = global[f] THEN later[f] ELSE seen[f]
BY ViewFields DEF V!resolve, V!differences_from

\* The sessions of the operations: a snapshot holds at most one view.
Sessions(Books) ==
  [open_file : Books \cup {V!NoneOpen}, runtime : V!ResolvedView, settings : V!ResolvedView,
   overrides : [Books -> V!ViewOverride],
   dialog : [scope : {V!NoScope}, snapshot : {{}}, pending_inherit : V!ResolvedView \cup {V!NoReset}]]

\* end, when it closes a session over the library that covered the open book.
LEMMA EndRestores ==
  ASSUME NEW s, NEW k, s.dialog.scope = "Library", s.dialog.snapshot = {k}
  PROVE  V!end(s) = [V!apply_runtime_view_to_settings(s) EXCEPT
                     !.runtime = k.view, !.dialog = V!DialogSession(V!NoScope, {}, k.pending_inherit)]
<1>1. (CHOOSE x \in {k} : TRUE) = k
  OBVIOUS
<1>2. (CHOOSE x \in s.dialog.snapshot : TRUE) = k
  BY <1>1
<1> QED
  BY <1>2 DEF V!end

\* The settings dialog over the library takes the edited globals and leaves nothing
\* else changed: the open book's view and its pending reset come back (#414, #415).
THEOREM LibraryDialogKeepsTheBook ==
  ASSUME NEW Books, V!NoneOpen \notin Books,
         NEW s \in Sessions(Books), s.open_file # V!NoneOpen, NEW edited \in V!ResolvedView
  PROVE  V!end([V!open(s, "Library") EXCEPT !.runtime = edited]) = [s EXCEPT !.settings = edited]
<1> DEFINE pending == s.dialog.pending_inherit
           kept == [view |-> s.runtime, pending_inherit |-> pending]
           idle == V!DialogSession(V!NoScope, {}, pending)
           up == V!DialogSession("Library", {kept}, pending)
           Session(runtime, settings, dialog) ==
             [open_file |-> s.open_file, runtime |-> runtime, settings |-> settings,
              overrides |-> s.overrides, dialog |-> dialog]
           during == Session(edited, s.settings, up)
<1>1. s = Session(s.runtime, s.settings, idle)
  <2>1. s.dialog = idle
    BY DEF Sessions, V!DialogSession
  <2> QED
    BY <2>1 DEF Sessions
<1>2. V!RuntimeSnapshot(s) = kept
  BY DEF V!RuntimeSnapshot, V!current_runtime_view
<1>3. [s EXCEPT !.dialog = up] = Session(s.runtime, s.settings, up)
  BY <1>1
<1>4. V!open(s, "Library") = Session(s.settings, s.settings, up)
  BY <1>2, <1>3 DEF V!open, V!apply_global_view_to_runtime
<1>5. [V!open(s, "Library") EXCEPT !.runtime = edited] = during
  BY <1>4
<1>6. V!apply_runtime_view_to_settings(during) = Session(edited, edited, up)
  BY DEF V!apply_runtime_view_to_settings
<1>7. V!end(during) = [V!apply_runtime_view_to_settings(during) EXCEPT
                       !.runtime = kept.view,
                       !.dialog = V!DialogSession(V!NoScope, {}, kept.pending_inherit)]
  <2>1. during.dialog.scope = "Library" /\ during.dialog.snapshot = {kept}
    BY DEF V!DialogSession
  <2> HIDE DEF during, kept
  <2> QED
    BY <2>1, EndRestores
<1>8. V!end(during) = [Session(edited, edited, up) EXCEPT !.runtime = s.runtime, !.dialog = idle]
  BY <1>6, <1>7
<1>9. [Session(edited, edited, up) EXCEPT !.runtime = s.runtime, !.dialog = idle]
        = Session(s.runtime, edited, idle)
  <2>1. [Session(edited, edited, up) EXCEPT !.runtime = s.runtime] = Session(s.runtime, edited, up)
    OBVIOUS
  <2>2. [Session(s.runtime, edited, up) EXCEPT !.dialog = idle] = Session(s.runtime, edited, idle)
    OBVIOUS
  <2> HIDE DEF Session, up, idle
  <2> QED
    BY <2>1, <2>2
<1>10. V!end(during) = Session(s.runtime, edited, idle)
  <2> HIDE DEF Session, during, up, idle
  <2> QED
    BY <1>8, <1>9
<1>11. Session(s.runtime, edited, idle) = [s EXCEPT !.settings = edited]
  BY <1>1
<1> QED
  BY <1>5, <1>10, <1>11

\* A book that was reset and not touched since stores the empty override at every
\* leave point, and the globals are not written.
THEOREM ResetBookInherits ==
  ASSUME NEW Books, V!NoneOpen \notin Books,
         NEW s \in Sessions(Books), s.open_file \in Books,
         NEW route \in {"DialogClosedOnViewer", "LeaveViewer", "OpenDifferentBook", "AppExit"}
  PROVE  LET left == V!stage_view_modes_to_sink(V!reset_to_global(s), route)
         IN  left.overrides[s.open_file] = V!none /\ left.settings = s.settings
<1> DEFINE restored == V!reset_to_global(s)
<1>1. /\ restored.open_file = s.open_file /\ restored.settings = s.settings
      /\ restored.overrides = s.overrides /\ restored.runtime = s.settings
      /\ restored.dialog.pending_inherit = s.settings
  BY DEF Sessions, V!reset_to_global, V!apply_global_view_to_runtime, V!current_runtime_view
<1>2. V!view_override_to_write_back(restored) = V!none
  BY <1>1 DEF V!view_override_to_write_back, V!inherit_pending, V!current_runtime_view
<1>3. s.open_file \in DOMAIN s.overrides /\ s.open_file # V!NoneOpen
  BY DEF Sessions
<1>4. V!stage_view_override_write_back(restored) = [restored EXCEPT !.overrides[s.open_file] = V!none]
  BY <1>1, <1>2, <1>3 DEF V!stage_view_override_write_back, V!set_overrides
<1>5. V!stage_view_modes_to_sink(restored, route) = V!stage_view_override_write_back(restored)
  BY <1>1, <1>3 DEF V!stage_view_modes_to_sink
<1>6. "settings" \in DOMAIN restored /\ "overrides" \in DOMAIN restored
  BY DEF Sessions, V!reset_to_global, V!apply_global_view_to_runtime
<1> QED
  BY <1>1, <1>3, <1>4, <1>5, <1>6
=============================================================================
