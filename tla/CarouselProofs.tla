--------------------------- MODULE CarouselProofs ---------------------------
(***************************************************************************)
(* The library screen, for any shelf, any queries and any number of        *)
(* covers under way.  Its four invariants are proved together: which book  *)
(* a row stands for is what keeps the badges on their books, and the       *)
(* workers of the current epoch pointing at their rows.                    *)
(***************************************************************************)
EXTENDS Carousel, FiniteSetTheorems, TLAPS

Row == [book : Books, cover : {"loading", "loaded", "failed"},
        art : Books \cup {NoBook}, total : BOOLEAN, selected : BOOLEAN]
Job == [epoch : Nat, row : Nat, book : Books, needs : BOOLEAN,
        stage : {"queued", "counting", "posted"},
        found : {"nothing", "cover", "counted", "failed", "empty"}]

\* A worker of the current epoch points at a row of its own book; an older one
\* is refused by its epoch, never by what its row now shows.
JobsFit ==
  \A job \in jobs : job.epoch = epoch => job.row \in DOMAIN rows /\ rows[job.row].book = job.book

\* The positions are those of the active filter, except after an empty book was
\* dropped from under them.
PositionsFit == emptied \/ search.visible = visible_of(shelf, search.query, search.forced)

ShelfType ==
  /\ shelf \subseteq Books /\ counted \subseteq shelf /\ selection \subseteq Books
  /\ search \in [query : Queries, forced : SUBSET Books, visible : SUBSET (1 .. Cardinality(Books))]
RowsType == rows \in Seq(Row)
JobsType ==
  /\ epoch \in Nat \ {0} /\ pending \subseteq Books
  /\ jobs \subseteq [epoch : 1 .. epoch, row : 1 .. Cardinality(Books), book : Books,
                     needs : BOOLEAN, stage : {"queued", "counting", "posted"},
                     found : {"nothing", "cover", "counted", "failed", "empty"}]
ReaderType ==
  /\ focus \in 0 .. Cardinality(Books)
  /\ screen \in {"library", "viewer"}
  /\ openBook \in Books \cup {NoBook} /\ opening \in Books \cup {NoBook}
  /\ emptied \in BOOLEAN
  /\ moves \in 0 .. MaxMoves

RowsInv == RowsType /\ RowOpensItsBook /\ BadgesMatchSelection /\ CoverOnItsRow
JobsInv == JobsType /\ JobsFit
CarouselInv == ShelfType /\ RowsInv /\ JobsInv /\ PositionsFit /\ ReaderType

-----------------------------------------------------------------------------
(* The order of the shelf. *)

Below(S, x) == {y \in S : y < x}

LEMMA FiniteShelf ==
  ASSUME NEW S \in SUBSET Books
  PROVE  /\ IsFiniteSet(S) /\ S \subseteq Nat
         /\ Cardinality(S) \in Nat /\ Cardinality(S) <= Cardinality(Books)
         /\ Cardinality(Books) \in Nat
BY CarouselAssumption, FS_Subset, FS_CardinalityType

LEMMA BooksCount == Cardinality(Books) \in Nat /\ 0 \in 0 .. Cardinality(Books)
<1>1. Cardinality(Books) \in Nat
  BY CarouselAssumption, FS_CardinalityType
<1> QED
  BY <1>1

LEMMA SameInterval ==
  ASSUME NEW m \in Nat, NEW n \in Nat, 1 .. m = 1 .. n
  PROVE  m = n
<1>1. CASE m < n
  <2>1. n \in 1 .. n /\ n \notin 1 .. m
    BY <1>1
  <2> QED
    BY <2>1
<1>2. CASE n < m
  <2>1. m \in 1 .. m /\ m \notin 1 .. n
    BY <1>2
  <2> QED
    BY <2>1
<1> QED
  BY <1>1, <1>2

\* A smaller element has fewer below it.
LEMMA BelowIsStrict ==
  ASSUME NEW S \in SUBSET Nat, IsFiniteSet(S), NEW x \in S, NEW y \in S, x < y
  PROVE  Cardinality(Below(S, x)) < Cardinality(Below(S, y))
<1>1. /\ IsFiniteSet(Below(S, x)) /\ IsFiniteSet(Below(S, y))
  BY FS_Subset DEF Below
<1>2. x \notin Below(S, x)
  BY DEF Below
<1>3. Below(S, x) \cup {x} \subseteq Below(S, y)
  <2>1. x \in Nat /\ y \in Nat
    OBVIOUS
  <2>2. ASSUME NEW z \in Below(S, x) PROVE z \in S /\ z < y
    <3>1. z \in Nat /\ z < x
      BY DEF Below
    <3> QED
      BY <2>1, <3>1 DEF Below
  <2> QED
    BY <2>2 DEF Below
<1>4. /\ IsFiniteSet(Below(S, x) \cup {x})
      /\ Cardinality(Below(S, x) \cup {x}) = Cardinality(Below(S, x)) + 1
  BY <1>1, <1>2, FS_AddElement
<1>5. Cardinality(Below(S, x) \cup {x}) <= Cardinality(Below(S, y))
  BY <1>1, <1>3, FS_Subset
<1>6. Cardinality(Below(S, x)) \in Nat /\ Cardinality(Below(S, y)) \in Nat
  BY <1>1, FS_CardinalityType
<1> QED
  BY <1>4, <1>5, <1>6

LEMMA BelowIsInjective ==
  ASSUME NEW S \in SUBSET Nat, IsFiniteSet(S), NEW x \in S, NEW y \in S,
         Cardinality(Below(S, x)) = Cardinality(Below(S, y))
  PROVE  x = y
<1>1. x \in Nat /\ y \in Nat
  OBVIOUS
<1>2. \A z \in S : Cardinality(Below(S, z)) \in Nat
  BY FS_Subset, FS_CardinalityType DEF Below
<1>3. CASE x < y
  BY <1>2, <1>3, BelowIsStrict
<1>4. CASE y < x
  BY <1>2, <1>4, BelowIsStrict
<1> QED
  BY <1>1, <1>3, <1>4

\* Every position up to the size of the set has exactly one element, and every
\* element a position: counting what is below it maps the set one to one into as
\* many numbers.
LEMMA AscendingIsOrder ==
  ASSUME NEW S \in SUBSET Nat, IsFiniteSet(S)
  PROVE  /\ Ascending(S) \in [1 .. Cardinality(S) -> S]
         /\ \A i, j \in 1 .. Cardinality(S) : Ascending(S)[i] = Ascending(S)[j] => i = j
         /\ \A x \in S : \E i \in 1 .. Cardinality(S) : Ascending(S)[i] = x
<1> DEFINE n == Cardinality(S)
           g == [x \in S |-> Cardinality(Below(S, x)) + 1]
<1>1. n \in Nat /\ IsFiniteSet(1 .. n) /\ Cardinality(1 .. n) = n
  BY FS_CardinalityType, FS_Interval
<1>2. ASSUME NEW x \in S
      PROVE  Cardinality(Below(S, x)) \in Nat /\ Cardinality(Below(S, x)) < n
  <2>1. IsFiniteSet(S \ {x}) /\ Cardinality(S \ {x}) = n - 1
    BY FS_RemoveElement
  <2>2. Below(S, x) \subseteq S \ {x}
    BY DEF Below
  <2>3. IsFiniteSet(Below(S, x)) /\ Cardinality(Below(S, x)) <= n - 1
    BY <2>1, <2>2, FS_Subset
  <2> QED
    BY <1>1, <2>3, FS_CardinalityType
<1>3. g \in [S -> 1 .. n]
  BY <1>1, <1>2
<1>4. IsInjective(g)
  <2> SUFFICES ASSUME NEW x \in S, NEW y \in S, g[x] = g[y]
               PROVE  x = y
    BY DEF IsInjective
  <2>1. Cardinality(Below(S, x)) = Cardinality(Below(S, y))
    BY <1>2
  <2> QED
    BY <2>1, BelowIsInjective
<1>5. g \in Injection(S, 1 .. n)
  <2> HIDE DEF g
  <2> QED
    BY <1>3, <1>4 DEF Injection
<1>6. g \in Surjection(S, 1 .. n)
  BY <1>1, <1>5, FS_Injection
<1>7. ASSUME NEW i \in 1 .. n
      PROVE  \E x \in S : Cardinality(Below(S, x)) = i - 1
  <2>1. PICK x \in S : g[x] = i
    <3> HIDE DEF g
    <3> QED
      BY <1>6 DEF Surjection
  <2> QED
    BY <1>2, <2>1
<1>8. ASSUME NEW i \in 1 .. n
      PROVE  Ascending(S)[i] \in S /\ Cardinality(Below(S, Ascending(S)[i])) = i - 1
  <2>1. Ascending(S)[i] = CHOOSE x \in S : Cardinality(Below(S, x)) = i - 1
    BY DEF Ascending, Below
  <2> QED
    BY <1>7, <2>1
<1>9. ASSUME NEW i \in 1 .. n, NEW j \in 1 .. n, Ascending(S)[i] = Ascending(S)[j]
      PROVE  i = j
  <2>1. i - 1 = j - 1
    BY <1>8, <1>9
  <2> QED
    BY <1>1, <2>1
<1>10. ASSUME NEW x \in S
       PROVE  \E i \in 1 .. n : Ascending(S)[i] = x
  <2>1. PICK i \in 1 .. n : i - 1 = Cardinality(Below(S, x))
    <3>1. Cardinality(Below(S, x)) + 1 \in 1 .. n
      BY <1>1, <1>2
    <3>2. (Cardinality(Below(S, x)) + 1) - 1 = Cardinality(Below(S, x))
      BY <1>2
    <3> QED
      BY <3>1, <3>2
  <2>2. PICK y \in S : y = Ascending(S)[i] /\ Cardinality(Below(S, y)) = i - 1
    BY <1>8
  <2>3. x = y
    BY <2>1, <2>2, BelowIsInjective
  <2> QED
    BY <2>2, <2>3
<1>11. DOMAIN Ascending(S) = 1 .. n /\ Ascending(S) = [i \in 1 .. n |-> Ascending(S)[i]]
  <2> DEFINE at(i) == CHOOSE x \in S : Cardinality({y \in S : y < x}) = i - 1
  <2>1. Ascending(S) = [i \in 1 .. n |-> at(i)]
    BY DEF Ascending
  <2> HIDE DEF at, n
  <2> QED
    BY <2>1
<1>12. Ascending(S) \in [1 .. n -> S]
  BY <1>8, <1>11
<1> QED
  BY <1>9, <1>10, <1>12

-----------------------------------------------------------------------------
(* The projection. *)

\* Book b of the shelf S is at one of the visible positions.
Positioned(S, visible, b) == \E i \in visible \cap 1 .. Cardinality(S) : books(S)[i] = b

\* The books of the shelf that the positions name, each once, and nothing else.
LEMMA ProjectionIsOneToOne ==
  ASSUME NEW S \in SUBSET Books, NEW visible, NEW shown, shown = Projected(S, visible)
  PROVE  /\ shown \in Seq(S)
         /\ DOMAIN shown \subseteq 1 .. Cardinality(Books)
         /\ Len(shown) <= Cardinality(Books)
         /\ \A r, q \in DOMAIN shown : shown[r] = shown[q] => r = q
         /\ \A r \in DOMAIN shown : Positioned(S, visible, shown[r])
         /\ \A b : Positioned(S, visible, b) => \E r \in DOMAIN shown : shown[r] = b
<1> DEFINE n == Cardinality(S)
           T == visible \cap 1 .. n
           m == Cardinality(T)
           at == Ascending(T)
           all == books(S)
<1>1. n \in Nat /\ IsFiniteSet(1 .. n) /\ Cardinality(1 .. n) = n
      /\ n <= Cardinality(Books) /\ Cardinality(Books) \in Nat /\ S \in SUBSET Nat /\ IsFiniteSet(S)
  <2>1. /\ n \in Nat /\ n <= Cardinality(Books) /\ Cardinality(Books) \in Nat
        /\ S \in SUBSET Nat /\ IsFiniteSet(S)
    BY FiniteShelf
  <2>2. IsFiniteSet(1 .. n) /\ Cardinality(1 .. n) = n
    BY <2>1, FS_Interval
  <2> QED
    BY <2>1, <2>2
<1>2. T \in SUBSET Nat /\ IsFiniteSet(T) /\ m \in Nat /\ m <= n
  BY <1>1, FS_Subset, FS_CardinalityType
<1>3. /\ at \in [1 .. m -> T]
      /\ \A i, j \in 1 .. m : at[i] = at[j] => i = j
      /\ \A x \in T : \E i \in 1 .. m : at[i] = x
  <2> HIDE DEF T
  <2> QED
    BY <1>2, AscendingIsOrder
<1>4. /\ all \in [1 .. n -> S]
      /\ \A i, j \in 1 .. n : all[i] = all[j] => i = j
  BY <1>1, AscendingIsOrder DEF books
<1>5. shown = [r \in 1 .. m |-> all[at[r]]]
  <2>1. DOMAIN at = 1 .. m
    BY <1>3
  <2> QED
    BY <2>1 DEF Projected
<1>6. \A r \in 1 .. m : at[r] \in T /\ at[r] \in 1 .. n /\ all[at[r]] \in S
  <2> HIDE DEF at, all, m
  <2> QED
    BY <1>3, <1>4
<1> HIDE DEF T, m, at, all, n
<1>7. shown \in Seq(S) /\ Len(shown) = m /\ DOMAIN shown = 1 .. m
  BY <1>2, <1>5, <1>6
<1>8. \A r, q \in DOMAIN shown : shown[r] = shown[q] => r = q
  BY <1>3, <1>4, <1>5, <1>6, <1>7
<1>9. /\ \A r \in DOMAIN shown : \E i \in T : all[i] = shown[r]
      /\ \A b : (\E i \in T : all[i] = b) => \E r \in DOMAIN shown : shown[r] = b
  <2>1. ASSUME NEW r \in DOMAIN shown PROVE \E i \in T : all[i] = shown[r]
    BY <1>5, <1>6, <1>7
  <2>2. ASSUME NEW i \in T PROVE \E r \in DOMAIN shown : shown[r] = all[i]
    BY <1>3, <1>5, <1>7
  <2> QED
    BY <2>1, <2>2
<1>10. DOMAIN shown \subseteq 1 .. Cardinality(Books) /\ Len(shown) <= Cardinality(Books)
  BY <1>1, <1>2, <1>7
<1> QED
  BY <1>7, <1>8, <1>9, <1>10 DEF all, T, n, Positioned

-----------------------------------------------------------------------------
(* The rows. *)

\* What a projected row is built from.
LEMMA ItemFields ==
  ASSUME NEW b \in Books, NEW known, NEW chosen
  PROVE  LET item == to_carousel_item(b, known, chosen)
         IN  /\ item \in Row
             /\ item.book = b /\ item.cover = "loading"
             /\ item.selected = (b \in chosen)
BY DEF to_carousel_item, Row, NoBook

\* Rows as a rebuild leaves them: each with the book of its position, no cover yet,
\* and the badge of the selection.
Fresh(bound, shown, chosen) ==
  /\ bound \in Seq(Row) /\ Len(bound) \in 0 .. Cardinality(Books)
  /\ DOMAIN bound = 1 .. Len(bound) /\ DOMAIN shown = DOMAIN bound
  /\ [r \in DOMAIN bound |-> bound[r].book] = shown
  /\ \A r \in DOMAIN bound : /\ shown[r] \in Books
                             /\ bound[r].book = shown[r] /\ bound[r].cover = "loading"
                             /\ bound[r].selected = (shown[r] \in chosen)

LEMMA BuiltRows ==
  ASSUME NEW S \in SUBSET Books, NEW visible, NEW shown, shown = Projected(S, visible),
         NEW known, NEW chosen, NEW bound,
         bound = [r \in DOMAIN shown |-> to_carousel_item(shown[r], known, chosen)]
  PROVE  Fresh(bound, shown, chosen)
<1>1. shown \in Seq(S) /\ Len(shown) <= Cardinality(Books)
  BY ProjectionIsOneToOne
<1>2. /\ DOMAIN shown = 1 .. Len(shown) /\ Len(shown) \in Nat
      /\ \A r \in DOMAIN shown : shown[r] \in Books
      /\ shown = [r \in DOMAIN shown |-> shown[r]]
  BY <1>1
<1>3. ASSUME NEW r \in DOMAIN shown
      PROVE  /\ bound[r] \in Row /\ bound[r].book = shown[r]
             /\ bound[r].cover = "loading" /\ bound[r].selected = (shown[r] \in chosen)
  <2> PICK b \in Books : b = shown[r]
    BY <1>2
  <2> PICK item : item = to_carousel_item(b, known, chosen)
    OBVIOUS
  <2>1. item \in Row /\ item.book = b /\ item.cover = "loading" /\ item.selected = (b \in chosen)
    BY ItemFields
  <2> QED
    BY <2>1
<1>4. bound \in Seq(Row)
  <2> PICK n \in Nat : n = Len(shown)
    BY <1>2
  <2>1. bound = [r \in 1 .. n |-> to_carousel_item(shown[r], known, chosen)]
    BY <1>2
  <2>2. \A r \in 1 .. n : bound[r] \in Row
    BY <1>2, <1>3
  <2>3. bound \in [1 .. n -> Row]
    BY <2>1, <2>2
  <2> QED
    BY <2>3
<1>5. /\ DOMAIN bound = 1 .. Len(bound) /\ Len(bound) \in Nat
      /\ DOMAIN bound = DOMAIN shown
  BY <1>4
<1>6. Len(bound) = Len(shown)
  BY <1>2, <1>5, SameInterval
<1>7. Len(bound) \in 0 .. Cardinality(Books)
  BY <1>1, <1>5, <1>6, BooksCount
<1>8. [r \in DOMAIN bound |-> bound[r].book] = [r \in DOMAIN shown |-> shown[r]]
  BY <1>3, <1>5
<1> QED
  BY <1>2, <1>3, <1>4, <1>5, <1>7, <1>8 DEF Fresh

\* A request points at the row of its own book.
LEMMA RequestsFit ==
  ASSUME NEW S \in SUBSET Books, NEW visible, NEW shown, shown = Projected(S, visible),
         NEW known, NEW e \in Nat \ {0}, NEW job \in cover_requests(shown, known, e)
  PROVE  /\ job \in [epoch : 1 .. e, row : 1 .. Cardinality(Books), book : Books,
                     needs : BOOLEAN, stage : {"queued", "counting", "posted"},
                     found : {"nothing", "cover", "counted", "failed", "empty"}]
         /\ job.row \in DOMAIN shown /\ shown[job.row] = job.book
<1>1. shown \in Seq(S) /\ DOMAIN shown \subseteq 1 .. Cardinality(Books)
  BY ProjectionIsOneToOne
<1>2. PICK r \in DOMAIN shown :
        job = [epoch |-> e, row |-> r, book |-> shown[r], needs |-> shown[r] \notin known,
               stage |-> "queued", found |-> "nothing"]
  BY DEF cover_requests
<1>3. r \in 1 .. Cardinality(Books) /\ shown[r] \in Books /\ e \in 1 .. e
  BY <1>1
<1> QED
  BY <1>2, <1>3

\* A rebuild restores the relation of rows, selection and workers, whatever the
\* handler did to the shelf, the query and the selection before.
LEMMA Refreshed ==
  ASSUME NEW known, NEW left,
         shelf' \in SUBSET Books, known \subseteq shelf', JobsType, left \subseteq jobs,
         refresh_library_carousel(known, left)
  PROVE  /\ counted' \subseteq shelf' /\ RowsInv' /\ JobsInv'
         /\ DOMAIN rows' = 1 .. Len(rows') /\ Len(rows') \in 0 .. Cardinality(Books)
<1> PICK S \in SUBSET Books : S = shelf'
  OBVIOUS
<1> PICK visible : visible = search'.visible
  OBVIOUS
<1> PICK chosen : chosen = selection'
  OBVIOUS
<1> PICK shown : shown = Projected(S, visible)
  OBVIOUS
<1> PICK bound : bound = rows'
  OBVIOUS
<1>1. /\ bound = [r \in DOMAIN shown |-> to_carousel_item(shown[r], known, chosen)]
      /\ counted' = known \cup (pending \cap shelf')
      /\ pending' = {}
      /\ epoch' = epoch + 1
      /\ jobs' = {job \in left : job.stage # "queued"} \cup cover_requests(shown, known, epoch + 1)
  BY DEF refresh_library_carousel
<1>2. /\ bound \in Seq(Row) /\ Len(bound) \in 0 .. Cardinality(Books)
      /\ DOMAIN bound = 1 .. Len(bound) /\ DOMAIN shown = DOMAIN bound
      /\ [r \in DOMAIN bound |-> bound[r].book] = shown
      /\ \A r \in DOMAIN bound : /\ shown[r] \in Books
                                 /\ bound[r].book = shown[r] /\ bound[r].cover = "loading"
                                 /\ bound[r].selected = (shown[r] \in chosen)
  <2>1. Fresh(bound, shown, chosen)
    BY <1>1, BuiltRows
  <2> QED
    BY <2>1 DEF Fresh
<1>3. RowsInv'
  <2>1. RowsType'
    BY <1>2 DEF RowsType
  <2>2. RowOpensItsBook'
    BY <1>2 DEF RowOpensItsBook
  <2>3. BadgesMatchSelection'
    BY <1>2 DEF BadgesMatchSelection
  <2>4. CoverOnItsRow'
    BY <1>2 DEF CoverOnItsRow
  <2> QED
    BY <2>1, <2>2, <2>3, <2>4 DEF RowsInv
<1>4. ASSUME NEW job \in jobs'
      PROVE  /\ job \in [epoch : 1 .. epoch', row : 1 .. Cardinality(Books), book : Books,
                    needs : BOOLEAN, stage : {"queued", "counting", "posted"},
                    found : {"nothing", "cover", "counted", "failed", "empty"}]
             /\ job.epoch = epoch' => job.row \in DOMAIN bound /\ bound[job.row].book = job.book
  <2>1. epoch \in Nat \ {0} /\ epoch' = epoch + 1 /\ 1 .. epoch \subseteq 1 .. epoch'
    BY <1>1 DEF JobsType
  <2>2. CASE job \in left
    <3>1. job \in [epoch : 1 .. epoch, row : 1 .. Cardinality(Books), book : Books,
                     needs : BOOLEAN, stage : {"queued", "counting", "posted"},
                     found : {"nothing", "cover", "counted", "failed", "empty"}]
      BY <2>2 DEF JobsType
    <3>2. job.epoch # epoch'
      BY <2>1, <3>1
    <3>3. job.epoch \in 1 .. epoch'
      BY <2>1, <3>1
    <3> QED
      BY <3>1, <3>2, <3>3
  <2>3. CASE job \in cover_requests(shown, known, epoch + 1)
    <3> PICK e \in Nat \ {0} : e = epoch + 1
      BY <2>1
    <3>1. /\ job \in [epoch : 1 .. e, row : 1 .. Cardinality(Books), book : Books,
                       needs : BOOLEAN, stage : {"queued", "counting", "posted"},
                       found : {"nothing", "cover", "counted", "failed", "empty"}]
          /\ job.row \in DOMAIN shown /\ shown[job.row] = job.book
      BY <2>3, RequestsFit
    <3> QED
      BY <1>2, <2>1, <3>1
  <2> QED
    BY <1>1, <2>2, <2>3
<1>5. JobsType'
  BY <1>1, <1>4 DEF JobsType
<1>6. JobsFit'
  BY <1>4 DEF JobsFit
<1>7. counted' \subseteq shelf'
  BY <1>1
<1> QED
  BY <1>2, <1>3, <1>5, <1>6, <1>7 DEF JobsInv

\* What a click on a row acts on is the book the row shows, and no book has two
\* rows.
LEMMA RowsAreBooks ==
  ASSUME ShelfType, RowsType, RowOpensItsBook
  PROVE  /\ DOMAIN rows = 1 .. Len(rows) /\ Len(rows) \in 0 .. Cardinality(Books)
         /\ \A r \in DOMAIN rows : visible_index_to_path(r) = rows[r].book /\ rows[r].book \in Books
         /\ \A r, q \in DOMAIN rows : rows[r].book = rows[q].book => r = q
         /\ \A r \in DOMAIN rows : Positioned(shelf, search.visible, rows[r].book)
         /\ \A b : Positioned(shelf, search.visible, b) => \E r \in DOMAIN rows : rows[r].book = b
<1> PICK S \in SUBSET Books : S = shelf
  BY DEF ShelfType
<1> PICK visible : visible = search.visible
  OBVIOUS
<1> PICK shown : shown = Projected(S, visible)
  OBVIOUS
<1>1. /\ shown \in Seq(S) /\ Len(shown) <= Cardinality(Books)
      /\ \A r, q \in DOMAIN shown : shown[r] = shown[q] => r = q
      /\ \A r \in DOMAIN shown : Positioned(S, visible, shown[r])
      /\ \A b : Positioned(S, visible, b) => \E r \in DOMAIN shown : shown[r] = b
  BY ProjectionIsOneToOne
<1>2. [r \in DOMAIN rows |-> rows[r].book] = shown
  BY DEF RowOpensItsBook
<1>3. DOMAIN rows = DOMAIN shown /\ \A r \in DOMAIN rows : rows[r].book = shown[r]
  BY <1>2
<1>4. DOMAIN rows = 1 .. Len(rows) /\ DOMAIN shown = 1 .. Len(shown)
      /\ Len(rows) \in Nat /\ Len(shown) \in Nat
  BY <1>1 DEF RowsType
<1>5. Len(rows) = Len(shown) /\ Cardinality(Books) \in Nat
  BY <1>3, <1>4, BooksCount, SameInterval
<1>6. \A r \in DOMAIN rows : visible_index_to_path(r) = rows[r].book
  BY <1>3 DEF visible_index_to_path
<1>7. \A r \in DOMAIN rows : rows[r].book \in Books
  BY <1>1, <1>3
<1>9. \A r, q \in DOMAIN rows : rows[r].book = rows[q].book => r = q
  BY <1>1, <1>3
<1>10. /\ \A r \in DOMAIN rows : Positioned(shelf, search.visible, rows[r].book)
       /\ \A b : Positioned(shelf, search.visible, b) => \E r \in DOMAIN rows : rows[r].book = b
  BY <1>1, <1>3
<1>11. DOMAIN rows = 1 .. Len(rows) /\ Len(rows) \in 0 .. Cardinality(Books)
  BY <1>1, <1>4, <1>5
<1> QED
  BY <1>6, <1>7, <1>9, <1>10, <1>11

LEMMA Flag ==
  ASSUME NEW x, NEW S
  PROVE  \E flag \in BOOLEAN : flag = (x \in S)
<1>1. (x \in S) \in BOOLEAN
  OBVIOUS
<1> QED
  BY Zenon, <1>1

\* A row whose badge is set keeps the rest.
LEMMA SetBadge ==
  ASSUME NEW row \in Row, NEW flag \in BOOLEAN
  PROVE  LET item == [row EXCEPT !.selected = flag]
         IN  /\ item \in Row
             /\ item.book = row.book /\ item.cover = row.cover /\ item.art = row.art
             /\ item.selected = flag
BY DEF Row

LEMMA RowsUntouched ==
  ASSUME RowsInv, UNCHANGED <<shelf, search, selection, rows>>
  PROVE  RowsInv'
<1>1. RowsType'
  BY DEF RowsInv, RowsType
<1>2. RowOpensItsBook'
  BY DEF RowsInv, RowOpensItsBook
<1>3. BadgesMatchSelection'
  BY DEF RowsInv, BadgesMatchSelection
<1>4. CoverOnItsRow'
  BY DEF RowsInv, CoverOnItsRow
<1> QED
  BY <1>1, <1>2, <1>3, <1>4 DEF RowsInv

\* Rows that change in place keep their books: they still show the projection,
\* and a worker that pointed at its row still does.
LEMMA RowsInPlace ==
  ASSUME RowsType, RowOpensItsBook, JobsFit, UNCHANGED <<shelf, search, epoch>>,
         DOMAIN rows' = DOMAIN rows, \A r \in DOMAIN rows : rows'[r].book = rows[r].book,
         jobs' \subseteq jobs
  PROVE  RowOpensItsBook' /\ JobsFit'
<1>1. [r \in DOMAIN rows' |-> rows'[r].book] = [r \in DOMAIN rows |-> rows[r].book]
  OBVIOUS
<1>2. RowOpensItsBook'
  BY <1>1 DEF RowOpensItsBook
<1>3. JobsFit'
  BY DEF JobsFit
<1> QED
  BY <1>2, <1>3

LEMMA PositionsUntouched ==
  ASSUME PositionsFit, UNCHANGED <<shelf, search, emptied>>
  PROVE  PositionsFit'
BY DEF PositionsFit

LEMMA JobsUntouched ==
  ASSUME JobsInv, UNCHANGED <<rows, coverVars>>
  PROVE  JobsInv'
<1>1. JobsType'
  BY DEF JobsInv, JobsType, coverVars
<1>2. JobsFit'
  BY DEF JobsInv, JobsFit, coverVars
<1> QED
  BY <1>1, <1>2 DEF JobsInv

\* A record of the search with the positions its filter gives.
LEMMA SearchType ==
  ASSUME NEW S \in SUBSET Books, NEW q \in Queries, NEW forced \in SUBSET Books
  PROVE  /\ visible_of(S, q, forced) \in SUBSET (1 .. Cardinality(Books))
         /\ [query |-> q, forced |-> forced, visible |-> visible_of(S, q, forced)]
              \in [query : Queries, forced : SUBSET Books, visible : SUBSET (1 .. Cardinality(Books))]
<1>1. 1 .. Cardinality(S) \subseteq 1 .. Cardinality(Books)
  BY FiniteShelf
<1> QED
  BY <1>1 DEF visible_of

LEMMA SearchFields ==
  ASSUME ShelfType
  PROVE  /\ search.query \in Queries /\ search.forced \in SUBSET Books
         /\ search.visible \in SUBSET (1 .. Cardinality(Books))
         /\ search = [query |-> search.query, forced |-> search.forced, visible |-> search.visible]
BY DEF ShelfType

-----------------------------------------------------------------------------
(* The reader. *)

LEMMA Moved ==
  ASSUME moves \in 0 .. MaxMoves, Move
  PROVE  moves' \in 0 .. MaxMoves
BY CarouselAssumption DEF Move

LEMMA StepSearchChanged ==
  ASSUME CarouselInv, NEW q \in Queries, SearchChanged(q)
  PROVE  CarouselInv'
<1> USE DEF CarouselInv
<1>1. shelf' = shelf /\ shelf \in SUBSET Books /\ counted \subseteq shelf
  BY DEF ShelfType, SearchChanged
<1>2. search' = [query |-> q, forced |-> {}, visible |-> visible_of(shelf, q, {})]
  BY DEF SearchChanged, set_query
<1>3. counted' \subseteq shelf' /\ RowsInv' /\ JobsInv'
  BY <1>1, Refreshed DEF SearchChanged, JobsInv
<1>4. search' \in [query : Queries, forced : SUBSET Books, visible : SUBSET (1 .. Cardinality(Books))]
  BY <1>1, <1>2, SearchType
<1>5. ShelfType'
  BY <1>1, <1>3, <1>4 DEF ShelfType, SearchChanged
<1>6. PositionsFit'
  BY <1>1, <1>2 DEF PositionsFit
<1>7. ReaderType'
  BY BooksCount, Moved DEF ReaderType, SearchChanged, openVars
<1> QED
  BY <1>3, <1>5, <1>6, <1>7

LEMMA StepMoveFocus ==
  ASSUME CarouselInv, NEW delta \in {-1, 1}, MoveFocus(delta)
  PROVE  CarouselInv'
<1> USE DEF CarouselInv
<1>1. ShelfType' /\ PositionsFit'
  BY PositionsUntouched DEF ShelfType, MoveFocus, shelfVars
<1>2. RowsInv' /\ JobsInv'
  BY RowsUntouched, JobsUntouched DEF MoveFocus, shelfVars
<1>3. Cardinality(search.visible) \in Nat /\ Cardinality(search.visible) <= Cardinality(Books)
  <2>1. /\ IsFiniteSet(1 .. Cardinality(Books))
        /\ Cardinality(1 .. Cardinality(Books)) = Cardinality(Books)
    BY BooksCount, FS_Interval
  <2>2. search.visible \in SUBSET (1 .. Cardinality(Books))
    BY SearchFields
  <2> QED
    BY <2>1, <2>2, FS_Subset, FS_CardinalityType
<1>4. focus' \in 0 .. Cardinality(Books)
  <2> PICK last : last = Cardinality(search.visible) - 1
    OBVIOUS
  <2>1. last \in Int /\ last >= 0 /\ last < Cardinality(Books) /\ Cardinality(Books) \in Nat
    BY <1>3, BooksCount DEF MoveFocus
  <2>2. focus \in Nat /\ focus + delta \in Int
    BY BooksCount DEF ReaderType
  <2>3. focus' = IF focus + delta < 0 THEN 0 ELSE IF focus + delta > last THEN last ELSE focus + delta
    BY DEF MoveFocus
  <2> QED
    BY <2>1, <2>2, <2>3
<1>5. ReaderType'
  BY <1>4, Moved DEF ReaderType, MoveFocus, shelfVars, openVars
<1> QED
  BY <1>1, <1>2, <1>5

LEMMA StepToggleSelection ==
  ASSUME CarouselInv, NEW r \in DOMAIN rows, ToggleSelection(r)
  PROVE  CarouselInv'
<1> USE DEF CarouselInv
<1> PICK b \in Books : b = rows[r].book
  BY RowsAreBooks DEF RowsInv
<1>1. visible_index_to_path(r) = b
  BY RowsAreBooks DEF RowsInv
<1>2. /\ selection' = IF b \in selection THEN selection \ {b} ELSE selection \cup {b}
      /\ rows' = [rows EXCEPT ![r].selected = b \in selection']
  BY <1>1 DEF ToggleSelection, Toggled
<1>3. /\ UNCHANGED <<shelf, counted, search, emptied, screen>> /\ UNCHANGED coverVars
      /\ UNCHANGED openVars /\ focus' = r - 1
  BY DEF ToggleSelection
<1>4. UNCHANGED <<epoch, jobs, pending>>
  BY <1>3 DEF coverVars
<1>5. rows \in Seq(Row) /\ \A q \in DOMAIN rows : rows[q] \in Row
  BY DEF RowsInv, RowsType
<1> PICK chosen \in BOOLEAN : chosen = (b \in selection')
  BY Flag
<1>6. rows' = [rows EXCEPT ![r] = [rows[r] EXCEPT !.selected = chosen]]
  BY <1>2
<1>7. /\ [rows[r] EXCEPT !.selected = chosen] \in Row
      /\ [rows[r] EXCEPT !.selected = chosen].book = rows[r].book
      /\ [rows[r] EXCEPT !.selected = chosen].cover = rows[r].cover
      /\ [rows[r] EXCEPT !.selected = chosen].art = rows[r].art
      /\ [rows[r] EXCEPT !.selected = chosen].selected = chosen
  BY <1>5 DEF Row
<1>8. /\ RowsType' /\ DOMAIN rows' = DOMAIN rows
      /\ rows'[r] = [rows[r] EXCEPT !.selected = chosen]
      /\ \A q \in DOMAIN rows : q # r => rows'[q] = rows[q]
  <2> PICK item \in Row : item = [rows[r] EXCEPT !.selected = chosen]
    BY <1>7
  <2>1. rows' = [rows EXCEPT ![r] = item]
    BY <1>6
  <2> QED
    BY <1>5, <2>1 DEF RowsType
<1>9. \A q \in DOMAIN rows : /\ rows'[q].book = rows[q].book
                             /\ rows'[q].cover = rows[q].cover /\ rows'[q].art = rows[q].art
  BY <1>7, <1>8
<1>10. RowOpensItsBook' /\ JobsFit'
  BY <1>3, <1>4, <1>8, <1>9, RowsInPlace DEF RowsInv, JobsInv
<1>11. ASSUME NEW q \in DOMAIN rows
       PROVE  rows'[q].selected <=> rows'[q].book \in selection'
  <2>1. CASE q = r
    BY <1>7, <1>8, <1>9, <2>1
  <2>2. CASE q # r
    <3>1. rows[q].book # b
      BY <2>2, RowsAreBooks DEF RowsInv
    <3>2. rows[q].selected <=> rows[q].book \in selection
      BY DEF RowsInv, BadgesMatchSelection
    <3>3. rows[q].book \in selection <=> rows[q].book \in selection'
      BY <1>2, <3>1
    <3> QED
      BY <1>8, <2>2, <3>2, <3>3
  <2> QED
    BY <2>1, <2>2
<1>12. BadgesMatchSelection'
  BY <1>8, <1>11 DEF BadgesMatchSelection
<1>13. CoverOnItsRow'
  BY <1>8, <1>9 DEF CoverOnItsRow, RowsInv
<1>14. JobsType'
  BY <1>4 DEF JobsInv, JobsType
<1>15. ShelfType' /\ PositionsFit'
  <2>1. selection' \subseteq Books
    BY <1>2 DEF ShelfType
  <2> QED
    BY <1>3, <2>1, PositionsUntouched DEF ShelfType
<1>16. focus' \in 0 .. Cardinality(Books)
  <2>1. r \in 1 .. Len(rows) /\ Len(rows) \in 0 .. Cardinality(Books)
    BY RowsAreBooks DEF RowsInv
  <2> QED
    BY <1>3, <2>1, BooksCount
<1>17. ReaderType'
  BY <1>3, <1>16, Moved DEF ReaderType, ToggleSelection, openVars
<1> QED
  BY <1>8, <1>10, <1>12, <1>13, <1>14, <1>15, <1>17 DEF RowsInv, JobsInv

\* Flagging every row by a selection leaves each row its book and its cover.
LEMMA FlaggedRows ==
  ASSUME ShelfType, RowsInv, JobsFit, NEW chosen, selection' = chosen, rows' = Flagged(chosen),
         UNCHANGED <<shelf, search, epoch, jobs>>
  PROVE  RowsInv' /\ JobsFit'
<1>1. \A r \in DOMAIN rows : visible_index_to_path(r) = rows[r].book
  BY RowsAreBooks DEF RowsInv
<1>2. rows \in Seq(Row) /\ \A q \in DOMAIN rows : rows[q] \in Row
  BY DEF RowsInv, RowsType
<1>3. rows' = [r \in DOMAIN rows |-> [rows[r] EXCEPT !.selected = rows[r].book \in chosen]]
  BY <1>1 DEF Flagged
<1>4. ASSUME NEW r \in DOMAIN rows
      PROVE  /\ rows'[r] \in Row
             /\ rows'[r].book = rows[r].book
             /\ rows'[r].cover = rows[r].cover /\ rows'[r].art = rows[r].art
             /\ rows'[r].selected = (rows[r].book \in chosen)
  <2> PICK flag \in BOOLEAN : flag = (rows[r].book \in chosen)
    BY Flag
  <2> PICK row \in Row : row = rows[r]
    BY <1>2
  <2> PICK item : item = [row EXCEPT !.selected = flag]
    OBVIOUS
  <2>1. rows'[r] = item
    BY <1>3
  <2>2. /\ item \in Row
        /\ item.book = row.book /\ item.cover = row.cover /\ item.art = row.art
        /\ item.selected = flag
    BY SetBadge
  <2> QED
    BY <2>1, <2>2
<1>5. DOMAIN rows' = DOMAIN rows
  BY <1>3
<1>6. RowsType'
  <2> PICK n \in Nat : n = Len(rows)
    BY <1>2
  <2> PICK bound : bound = rows'
    OBVIOUS
  <2> PICK old \in Seq(Row) : old = rows
    BY <1>2
  <2>1. bound = [r \in 1 .. n |-> [old[r] EXCEPT !.selected = old[r].book \in chosen]]
    BY <1>3
  <2>2. \A r \in 1 .. n : bound[r] \in Row
    BY <1>2, <1>4
  <2>3. bound \in [1 .. n -> Row]
    BY <2>1, <2>2
  <2> QED
    BY <2>3 DEF RowsType
<1>7. RowOpensItsBook' /\ JobsFit'
  BY <1>4, <1>5, RowsInPlace DEF RowsInv
<1>8. BadgesMatchSelection'
  BY <1>4, <1>5 DEF BadgesMatchSelection
<1>9. CoverOnItsRow'
  BY <1>4, <1>5 DEF CoverOnItsRow, RowsInv
<1> QED
  BY <1>6, <1>7, <1>8, <1>9 DEF RowsInv

LEMMA StepFlagged ==
  ASSUME CarouselInv, SelectAll \/ ExitSelection
  PROVE  CarouselInv'
<1> USE DEF CarouselInv
<1>1. /\ selection' \subseteq Books
      /\ rows' = Flagged(selection')
  <2>1. CASE SelectAll
    <3>1. visible_paths \subseteq Books
      <4> PICK S \in SUBSET Books : S = shelf
        BY DEF ShelfType
      <4> PICK shown : shown = Projected(S, search.visible)
        OBVIOUS
      <4>1. shown \in Seq(S)
        BY ProjectionIsOneToOne
      <4> QED
        BY <4>1 DEF visible_paths, ToSet
    <3> QED
      BY <2>1, <3>1 DEF SelectAll, select_visible, deselect_visible, ShelfType
  <2>2. CASE ExitSelection
    BY <2>2 DEF ExitSelection
  <2> QED
    BY <2>1, <2>2
<1>2. /\ UNCHANGED <<shelf, counted, search, emptied, focus, screen>> /\ UNCHANGED coverVars
      /\ UNCHANGED openVars /\ (Move \/ moves' = moves)
  BY DEF SelectAll, ExitSelection
<1>3. UNCHANGED <<epoch, jobs, pending>>
  BY <1>2 DEF coverVars
<1>4. RowsInv' /\ JobsFit'
  <2> PICK chosen : chosen = selection'
    OBVIOUS
  <2>1. rows' = Flagged(chosen)
    BY <1>1
  <2> QED
    BY <1>2, <1>3, <2>1, FlaggedRows DEF JobsInv
<1>5. JobsType'
  BY <1>3 DEF JobsInv, JobsType
<1>6. ShelfType' /\ PositionsFit'
  BY <1>1, <1>2, PositionsUntouched DEF ShelfType
<1>7. ReaderType'
  BY <1>2, Moved DEF ReaderType, openVars
<1> QED
  BY <1>4, <1>5, <1>6, <1>7 DEF JobsInv

LEMMA StepDeleteSelected ==
  ASSUME CarouselInv, DeleteSelected
  PROVE  CarouselInv'
<1> USE DEF CarouselInv
<1>1. shelf' = shelf \ selection /\ selection' = {} /\ shelf' \in SUBSET Books
  BY DEF ShelfType, DeleteSelected
<1>2. /\ search' = [query |-> search.query, forced |-> search.forced,
                    visible |-> visible_of(shelf', search.query, search.forced)]
      /\ search' \in [query : Queries, forced : SUBSET Books, visible : SUBSET (1 .. Cardinality(Books))]
  BY <1>1, SearchFields, SearchType DEF DeleteSelected, recompute
<1>3. /\ counted' \subseteq shelf' /\ RowsInv' /\ JobsInv'
      /\ DOMAIN rows' = 1 .. Len(rows') /\ Len(rows') \in 0 .. Cardinality(Books)
  <2> PICK known : known = counted \ selection
    OBVIOUS
  <2>1. known \subseteq shelf' /\ refresh_library_carousel(known, jobs)
    BY <1>1 DEF DeleteSelected, ShelfType
  <2> QED
    BY <1>1, <2>1, Refreshed DEF JobsInv
<1>4. ShelfType'
  BY <1>1, <1>2, <1>3 DEF ShelfType
<1>5. PositionsFit'
  BY <1>1, <1>2 DEF PositionsFit
<1>6. ReaderType'
  <2> PICK count \in 0 .. Cardinality(Books) : count = Len(rows')
    BY <1>3
  <2>1. focus' = clamp_focused_index(focus, count)
    BY DEF DeleteSelected
  <2>2. focus' \in 0 .. Cardinality(Books)
    BY <2>1, BooksCount DEF clamp_focused_index, ReaderType
  <2> QED
    BY <2>2 DEF ReaderType, DeleteSelected
<1> QED
  BY <1>3, <1>4, <1>5, <1>6

LEMMA StepClearHistory ==
  ASSUME CarouselInv, ClearHistory
  PROVE  CarouselInv'
<1> USE DEF CarouselInv
<1>1. shelf' = {} /\ selection' = {} /\ {} \in SUBSET Books /\ Everything \in Queries
  BY CarouselAssumption DEF ClearHistory, Everything
<1>2. search' = [query |-> Everything, forced |-> {}, visible |-> visible_of({}, Everything, {})]
  BY <1>1 DEF ClearHistory, set_query
<1>3. search' \in [query : Queries, forced : SUBSET Books, visible : SUBSET (1 .. Cardinality(Books))]
  BY <1>1, <1>2, SearchType
<1>4. counted' \subseteq shelf' /\ RowsInv' /\ JobsInv'
  <2> PICK known : known = {}
    OBVIOUS
  <2>1. known \subseteq shelf' /\ refresh_library_carousel(known, jobs)
    BY DEF ClearHistory
  <2> QED
    BY <1>1, <2>1, Refreshed DEF JobsInv
<1>5. ShelfType'
  BY <1>1, <1>3, <1>4 DEF ShelfType
<1>6. PositionsFit'
  BY <1>1, <1>2 DEF PositionsFit
<1>7. ReaderType'
  BY BooksCount, Moved DEF ReaderType, ClearHistory, openVars
<1> QED
  BY <1>4, <1>5, <1>6, <1>7

LEMMA StepGoToLibrary ==
  ASSUME CarouselInv, GoToLibrary
  PROVE  CarouselInv'
<1> USE DEF CarouselInv
<1>1. UNCHANGED <<shelf, search, selection, emptied>> /\ UNCHANGED openVars
      /\ shelf' \in SUBSET Books
  BY DEF ShelfType, GoToLibrary
<1>2. /\ counted' \subseteq shelf' /\ RowsInv' /\ JobsInv'
      /\ DOMAIN rows' = 1 .. Len(rows') /\ Len(rows') \in 0 .. Cardinality(Books)
  <2> PICK known : known = counted
    OBVIOUS
  <2>1. known \subseteq shelf' /\ refresh_library_carousel(known, jobs)
    BY <1>1 DEF GoToLibrary, ShelfType
  <2> QED
    BY <1>1, <2>1, Refreshed DEF JobsInv
<1>3. ShelfType' /\ PositionsFit'
  BY <1>1, <1>2, PositionsUntouched DEF ShelfType
<1>4. focus' \in 0 .. Cardinality(Books)
  <2>1. CASE focus' = 0
    BY <2>1, BooksCount
  <2>2. ASSUME NEW r \in DOMAIN rows', focus' = r - 1
        PROVE  focus' \in 0 .. Cardinality(Books)
    BY <1>2, <2>2, BooksCount
  <2> QED
    BY <2>1, <2>2 DEF GoToLibrary
<1>5. ReaderType'
  BY <1>1, <1>4, Moved DEF ReaderType, GoToLibrary, openVars
<1> QED
  BY <1>2, <1>3, <1>5

\* The steps of the reader and of an open that leave the rows alone.
LEMMA StepQuiet ==
  ASSUME CarouselInv, (\E b \in Books : RequestOpen(b)) \/ BackToViewer \/ OpenFails
  PROVE  CarouselInv'
<1> USE DEF CarouselInv
<1>1. /\ UNCHANGED shelfVars /\ UNCHANGED <<rows, focus>> /\ UNCHANGED coverVars
      /\ openBook' = openBook /\ opening' \in Books \cup {NoBook}
      /\ screen' \in {"library", "viewer"} /\ (Move \/ moves' = moves)
  BY DEF RequestOpen, BackToViewer, OpenFails, viewVars, openVars, ReaderType
<1>2. UNCHANGED <<shelf, counted, search, selection, emptied>>
  BY <1>1 DEF shelfVars
<1>3. ShelfType' /\ PositionsFit'
  BY <1>2, PositionsUntouched DEF ShelfType
<1>4. RowsInv' /\ JobsInv'
  BY <1>1, <1>2, RowsUntouched, JobsUntouched
<1>5. ReaderType'
  BY <1>1, <1>2, Moved DEF ReaderType
<1> QED
  BY <1>3, <1>4, <1>5

-----------------------------------------------------------------------------
(* Requests that land. *)

LEMMA StepOpenLands ==
  ASSUME CarouselInv, OpenLands
  PROVE  CarouselInv'
<1> USE DEF CarouselInv
<1> PICK b \in Books : b = opening
  BY DEF OpenLands, ReaderType
<1>1. /\ shelf' = shelf \cup {b} /\ shelf' \in SUBSET Books
      /\ UNCHANGED <<selection, emptied, focus, moves>>
      /\ screen' = "viewer" /\ openBook' = b /\ opening' = NoBook
  BY DEF OpenLands, ShelfType
<1>2. ReaderType'
  BY <1>1 DEF ReaderType
<1>3. CASE b \in counted
  <2>1. UNCHANGED <<counted, search, rows>> /\ UNCHANGED coverVars
    BY <1>3 DEF OpenLands
  <2>2. shelf' = shelf
    BY <1>1, <1>3 DEF ShelfType
  <2>3. ShelfType' /\ PositionsFit'
    BY <1>1, <2>1, <2>2, PositionsUntouched DEF ShelfType
  <2>4. RowsInv' /\ JobsInv'
    BY <1>1, <2>1, <2>2, RowsUntouched, JobsUntouched
  <2> QED
    BY <1>2, <2>3, <2>4
<1>4. CASE b \notin counted
  <2>1. /\ search' = [query |-> search.query, forced |-> search.forced,
                      visible |-> visible_of(shelf', search.query, search.forced)]
        /\ search' \in [query : Queries, forced : SUBSET Books, visible : SUBSET (1 .. Cardinality(Books))]
    BY <1>1, <1>4, SearchFields, SearchType DEF OpenLands, recompute
  <2>2. counted' \subseteq shelf' /\ RowsInv' /\ JobsInv'
    <3> PICK known : known = counted \cup {b}
      OBVIOUS
    <3>1. known \subseteq shelf' /\ refresh_library_carousel(known, jobs)
      BY <1>1, <1>4 DEF OpenLands, ShelfType
    <3> QED
      BY <1>1, <3>1, Refreshed DEF JobsInv
  <2>3. ShelfType'
    BY <1>1, <2>1, <2>2 DEF ShelfType
  <2>4. PositionsFit'
    BY <2>1 DEF PositionsFit
  <2> QED
    BY <1>2, <2>2, <2>3, <2>4
<1> QED
  BY <1>3, <1>4

\* An empty book leaves the shelf under the positions: from then on only the
\* rows are known to follow them.
LEMMA DropsEmpty ==
  ASSUME CarouselInv, NEW b \in Books, NEW left, left \subseteq jobs, DropEmpty(b, left),
         openBook' \in Books \cup {NoBook}, opening' \in Books \cup {NoBook}
  PROVE  CarouselInv'
<1> USE DEF CarouselInv
<1>1. /\ shelf' = shelf \ {b} /\ shelf' \in SUBSET Books
      /\ UNCHANGED <<search, selection, focus, screen, moves>>
      /\ emptied' = (emptied \/ b \in shelf)
  BY DEF DropEmpty, ShelfType
<1>2. counted' \subseteq shelf' /\ RowsInv' /\ JobsInv'
  <2> PICK known : known = counted \ {b}
    OBVIOUS
  <2>1. known \subseteq shelf' /\ refresh_library_carousel(known, left)
    BY <1>1 DEF DropEmpty, ShelfType
  <2> QED
    BY <1>1, <2>1, Refreshed DEF JobsInv
<1>3. ShelfType'
  BY <1>1, <1>2 DEF ShelfType
<1>4. PositionsFit'
  <2>1. CASE b \in shelf
    BY <1>1, <2>1 DEF PositionsFit
  <2>2. CASE b \notin shelf
    <3>1. shelf' = shelf
      BY <1>1, <2>2
    <3> QED
      BY <1>1, <2>2, <3>1 DEF PositionsFit
  <2> QED
    BY <2>1, <2>2
<1>5. ReaderType'
  BY <1>1 DEF ReaderType
<1> QED
  BY <1>2, <1>3, <1>4, <1>5

LEMMA StepOpenRejected ==
  ASSUME CarouselInv, OpenRejected
  PROVE  CarouselInv'
<1> PICK b \in Books : b = opening
  BY CarouselAssumption DEF OpenRejected
<1>1. DropEmpty(b, jobs) /\ openBook' = NoBook /\ opening' = NoBook
  BY DEF OpenRejected
<1> QED
  BY <1>1, DropsEmpty

LEMMA StepAddLands ==
  ASSUME CarouselInv, NEW batch \in SUBSET (Books \ EmptyBooks), AddLands(batch)
  PROVE  CarouselInv'
<1> USE DEF CarouselInv
<1> PICK added : added = batch \ shelf
  OBVIOUS
<1>1. /\ added \in SUBSET Books
      /\ shelf' = shelf \cup added /\ shelf' \in SUBSET Books
      /\ UNCHANGED <<selection, screen>> /\ UNCHANGED openVars
      /\ emptied' = FALSE
  BY DEF AddLands, ShelfType
<1> PICK forced \in SUBSET Books : forced = search.forced \cup added
  BY <1>1, SearchFields
<1>2. /\ search' = [query |-> search.query, forced |-> forced,
                    visible |-> visible_of(shelf', search.query, forced)]
      /\ search' \in [query : Queries, forced : SUBSET Books, visible : SUBSET (1 .. Cardinality(Books))]
  BY <1>1, SearchFields, SearchType DEF AddLands, force_visible
<1>3. counted' \subseteq shelf' /\ RowsInv' /\ JobsInv'
  <2> PICK known : known = counted \cup added
    OBVIOUS
  <2>1. known \subseteq shelf' /\ refresh_library_carousel(known, jobs)
    BY <1>1 DEF AddLands, ShelfType
  <2> QED
    BY <1>1, <2>1, Refreshed DEF JobsInv
<1>4. ShelfType'
  BY <1>1, <1>2, <1>3 DEF ShelfType
<1>5. PositionsFit'
  BY <1>1, <1>2 DEF PositionsFit
<1>6. focus' \in 0 .. Cardinality(Books)
  <2> PICK S \in SUBSET Books : S = shelf'
    BY <1>1
  <2> PICK visible : visible = search'.visible
    OBVIOUS
  <2> PICK shown : shown = Projected(S, visible)
    OBVIOUS
  <2>1. PICK b \in added : focus' = visible_focus_index_for_path(S, visible, b)
    BY DEF AddLands
  <2> DEFINE at == {r \in DOMAIN shown : shown[r] = b}
  <2>2. focus' = IF at = {} THEN 0 ELSE (CHOOSE r \in at : TRUE) - 1
    BY <2>1 DEF visible_focus_index_for_path
  <2>3. at \subseteq 1 .. Cardinality(Books)
    BY ProjectionIsOneToOne
  <2> HIDE DEF at
  <2>4. CASE at = {}
    BY <2>2, <2>4, BooksCount
  <2>5. CASE at # {}
    <3> PICK r : r = (CHOOSE q \in at : TRUE)
      OBVIOUS
    <3>1. r \in at
      BY <2>5
    <3>2. r \in 1 .. Cardinality(Books)
      BY <2>3, <3>1
    <3>3. focus' = r - 1
      BY <2>2, <2>5
    <3> QED
      BY <3>2, <3>3, BooksCount
  <2> QED
    BY <2>4, <2>5
<1>7. ReaderType'
  BY <1>1, <1>6, Moved DEF ReaderType, AddLands, openVars
<1> QED
  BY <1>3, <1>4, <1>5, <1>7

-----------------------------------------------------------------------------
(* The workers. *)

LEMMA StepCoverWork ==
  ASSUME CarouselInv, NEW job \in jobs, CoverWork(job)
  PROVE  CarouselInv'
<1> USE DEF CarouselInv
<1>1. /\ UNCHANGED shelfVars /\ UNCHANGED viewVars /\ UNCHANGED openVars
      /\ moves' = moves /\ epoch' = epoch
  BY DEF CoverWork, ReadSource, PushCount
<1>2. UNCHANGED <<shelf, counted, search, selection, emptied, rows, focus, screen, openBook, opening>>
  BY <1>1 DEF shelfVars, viewVars, openVars
<1>3. ShelfType' /\ PositionsFit' /\ RowsInv' /\ ReaderType'
  BY <1>1, <1>2, PositionsUntouched, RowsUntouched DEF ShelfType, ReaderType
<1> DEFINE Worker == [epoch : 1 .. epoch, row : 1 .. Cardinality(Books), book : Books,
                      needs : BOOLEAN, stage : {"queued", "counting", "posted"},
                      found : {"nothing", "cover", "counted", "failed", "empty"}]
<1>4. job \in Worker /\ jobs \subseteq Worker
  BY DEF JobsInv, JobsType
<1>5. PICK next \in Worker :
        /\ jobs' = (jobs \ {job}) \cup {next}
        /\ next.epoch = job.epoch /\ next.row = job.row /\ next.book = job.book
  <2>1. CASE ReadSource(job)
    <3>1. PICK found \in Findings(job) :
            jobs' = (jobs \ {job}) \cup
                      {[job EXCEPT !.found = found,
                                   !.stage = IF found = "counted" THEN "counting" ELSE "posted"]}
      BY <2>1 DEF ReadSource, Became
    <3>2. found \in {"nothing", "cover", "counted", "failed", "empty"}
      BY DEF Findings
    <3> PICK stage \in {"counting", "posted"} :
          stage = IF found = "counted" THEN "counting" ELSE "posted"
      OBVIOUS
    <3> PICK next : next = [job EXCEPT !.found = found, !.stage = stage]
      OBVIOUS
    <3>3. /\ next \in Worker
          /\ next.epoch = job.epoch /\ next.row = job.row /\ next.book = job.book
      BY <1>4, <3>2
    <3> QED
      BY <3>1, <3>3
  <2>2. CASE PushCount(job)
    <3> PICK next : next = [job EXCEPT !.stage = "posted"]
      OBVIOUS
    <3>1. /\ next \in Worker
          /\ next.epoch = job.epoch /\ next.row = job.row /\ next.book = job.book
      BY <1>4
    <3> QED
      BY <2>2, <3>1 DEF PushCount, Became
  <2> QED
    BY <2>1, <2>2 DEF CoverWork
<1>6. pending' \subseteq Books
  BY <1>4 DEF CoverWork, ReadSource, PushCount, JobsInv, JobsType
<1>7. JobsType'
  <2>1. jobs' \subseteq Worker
    BY <1>4, <1>5
  <2> QED
    BY <1>1, <1>6, <2>1 DEF JobsInv, JobsType
<1>8. JobsFit'
  BY <1>1, <1>2, <1>5 DEF JobsInv, JobsFit
<1> QED
  BY <1>3, <1>7, <1>8 DEF JobsInv

LEMMA StepDeliver ==
  ASSUME CarouselInv, NEW job \in jobs, Deliver(job)
  PROVE  CarouselInv'
<1> USE DEF CarouselInv
<1>1. /\ job.book \in Books /\ job.row \in 1 .. Cardinality(Books)
      /\ jobs \ {job} \subseteq jobs
  BY DEF JobsInv, JobsType
<1>2. CASE DropStale(job)
  <2>1. /\ UNCHANGED shelfVars /\ UNCHANGED viewVars /\ UNCHANGED openVars
        /\ UNCHANGED <<epoch, pending, moves>> /\ jobs' \subseteq jobs
    BY <1>2 DEF DropStale
  <2>2. UNCHANGED <<shelf, counted, search, selection, emptied, rows, focus, screen, openBook, opening>>
    BY <2>1 DEF shelfVars, viewVars, openVars
  <2>3. ShelfType' /\ PositionsFit' /\ RowsInv' /\ ReaderType'
    BY <2>1, <2>2, PositionsUntouched, RowsUntouched DEF ShelfType, ReaderType
  <2>4. JobsType' /\ JobsFit'
    BY <2>1, <2>2 DEF JobsInv, JobsType, JobsFit
  <2> QED
    BY <2>3, <2>4 DEF JobsInv
<1>3. CASE DeliverEmpty(job)
  <2> PICK left : left = jobs \ {job}
    OBVIOUS
  <2> PICK b \in Books : b = job.book
    BY <1>1
  <2>1. DropEmpty(b, left) /\ left \subseteq jobs /\ UNCHANGED openVars
    BY <1>3 DEF DeliverEmpty
  <2>2. openBook' \in Books \cup {NoBook} /\ opening' \in Books \cup {NoBook}
    BY <2>1 DEF openVars, ReaderType
  <2> QED
    BY <2>1, <2>2, DropsEmpty
<1>4. CASE DeliverToRow(job)
  <2>1. /\ UNCHANGED shelfVars /\ UNCHANGED openVars
        /\ UNCHANGED <<focus, screen, epoch, pending, moves>> /\ jobs' = jobs \ {job}
    BY <1>4 DEF DeliverToRow
  <2>2. UNCHANGED <<shelf, counted, search, selection, emptied, openBook, opening>>
    BY <2>1 DEF shelfVars, openVars
  <2>3. ShelfType' /\ PositionsFit' /\ ReaderType' /\ JobsType'
    BY <2>1, <2>2, PositionsUntouched DEF ShelfType, ReaderType, JobsInv, JobsType
  <2>4. job.epoch = epoch /\ job.row \in DOMAIN rows /\ rows[job.row].book = job.book
    BY <1>4 DEF DeliverToRow, IsStale, JobsInv, JobsFit
  <2>5. rows \in Seq(Row) /\ DOMAIN rows = 1 .. Len(rows) /\ \A r \in DOMAIN rows : rows[r] \in Row
    BY DEF RowsInv, RowsType
  <2> PICK r \in DOMAIN rows : r = job.row
    BY <2>4
  <2> PICK old \in Row : old = rows[r]
    BY <2>5
  <2>6. PICK item \in Row :
          /\ rows' = [rows EXCEPT ![r] = item]
          /\ item.book = old.book /\ item.selected = old.selected
          /\ item.cover = "loaded" => item.art = item.book
    <3>1. ~(r > Len(rows))
      BY <2>5
    <3>2. CASE job.found = "failed"
      <4> PICK item : item = [old EXCEPT !.cover = "failed"]
        OBVIOUS
      <4>1. item \in Row /\ item.book = old.book /\ item.selected = old.selected
            /\ item.cover = "failed"
        BY DEF Row
      <4>2. rows' = [rows EXCEPT ![r] = item]
        BY <1>4, <3>1, <3>2 DEF DeliverToRow
      <4> QED
        BY <4>1, <4>2
    <3>3. CASE job.found # "failed"
      <4> PICK total \in BOOLEAN : total = (old.total \/ job.found = "counted")
        BY DEF Row
      <4> PICK item : item = [old EXCEPT !.cover = "loaded", !.art = job.book, !.total = total]
        OBVIOUS
      <4>1. item \in Row /\ item.book = old.book /\ item.selected = old.selected
            /\ item.art = job.book
        BY <1>1 DEF Row
      <4>2. rows' = [rows EXCEPT ![r] = item]
        BY <1>4, <3>1, <3>3 DEF DeliverToRow
      <4> QED
        BY <2>4, <4>1, <4>2
    <3> QED
      BY <3>2, <3>3
  <2>7. /\ RowsType' /\ DOMAIN rows' = DOMAIN rows /\ rows'[r] = item
        /\ \A q \in DOMAIN rows : q # r => rows'[q] = rows[q]
    BY <2>5, <2>6 DEF RowsType
  <2>8. \A q \in DOMAIN rows : rows'[q].book = rows[q].book /\ rows'[q].selected = rows[q].selected
    BY <2>6, <2>7
  <2>9. RowOpensItsBook' /\ JobsFit'
    BY <2>1, <2>2, <2>7, <2>8, RowsInPlace DEF RowsInv, JobsInv
  <2>10. BadgesMatchSelection'
    BY <2>2, <2>7, <2>8 DEF BadgesMatchSelection, RowsInv
  <2>11. CoverOnItsRow'
    BY <2>6, <2>7 DEF CoverOnItsRow, RowsInv
  <2> QED
    BY <2>3, <2>7, <2>9, <2>10, <2>11 DEF RowsInv, JobsInv
<1> QED
  BY <1>2, <1>3, <1>4 DEF Deliver

-----------------------------------------------------------------------------
(* The invariant. *)

LEMMA CarouselInit == Init => CarouselInv
<1> SUFFICES ASSUME Init PROVE CarouselInv
  OBVIOUS
<1> PICK S \in SUBSET Books, known \in SUBSET Books :
      LET first == Projected(S, 1 .. Cardinality(S)) IN
      /\ known \subseteq S
      /\ shelf = S /\ counted = known
      /\ search = [query |-> Everything, forced |-> {}, visible |-> 1 .. Cardinality(S)]
      /\ selection = {} /\ emptied = FALSE
      /\ rows = [r \in DOMAIN first |-> to_carousel_item(first[r], known, {})]
      /\ focus \in {0} \cup {r - 1 : r \in DOMAIN first}
      /\ screen = "library"
      /\ openBook = NoBook /\ opening = NoBook
      /\ epoch = 1 /\ jobs = cover_requests(first, known, 1) /\ pending = {}
      /\ moves = 0
  BY DEF Init
<1> PICK visible : visible = 1 .. Cardinality(S)
  OBVIOUS
<1> PICK shown : shown = Projected(S, visible)
  OBVIOUS
<1> PICK bound : bound = rows
  OBVIOUS
<1>1. bound = [r \in DOMAIN shown |-> to_carousel_item(shown[r], known, {})]
  OBVIOUS
<1>2. /\ bound \in Seq(Row) /\ Len(bound) \in 0 .. Cardinality(Books)
      /\ DOMAIN bound = 1 .. Len(bound) /\ DOMAIN shown = DOMAIN bound
      /\ [r \in DOMAIN bound |-> bound[r].book] = shown
      /\ \A r \in DOMAIN bound : /\ shown[r] \in Books
                                 /\ bound[r].book = shown[r] /\ bound[r].cover = "loading"
                                 /\ bound[r].selected = (shown[r] \in {})
  <2>1. Fresh(bound, shown, {})
    BY <1>1, BuiltRows
  <2> QED
    BY <2>1 DEF Fresh
<1>3. visible = visible_of(S, Everything, {})
  <2>1. books(S) \in [1 .. Cardinality(S) -> S]
    BY FiniteShelf, AscendingIsOrder DEF books
  <2> QED
    BY <2>1 DEF visible_of, Everything
<1>4. ShelfType
  <2>1. Everything \in Queries /\ {} \in SUBSET Books
    BY CarouselAssumption DEF Everything
  <2>2. search \in [query : Queries, forced : SUBSET Books, visible : SUBSET (1 .. Cardinality(Books))]
    BY <1>3, <2>1, SearchType
  <2> QED
    BY <2>2 DEF ShelfType
<1>5. RowsInv
  <2>1. RowOpensItsBook
    BY <1>2 DEF RowOpensItsBook
  <2> QED
    BY <1>2, <2>1 DEF RowsInv, RowsType, BadgesMatchSelection, CoverOnItsRow
<1>6. JobsInv
  <2>1. ASSUME NEW job \in jobs
        PROVE  /\ job \in [epoch : 1 .. 1, row : 1 .. Cardinality(Books), book : Books,
                      needs : BOOLEAN, stage : {"queued", "counting", "posted"},
                      found : {"nothing", "cover", "counted", "failed", "empty"}]
               /\ job.row \in DOMAIN bound /\ bound[job.row].book = job.book
    <3>1. job \in cover_requests(shown, known, 1) /\ 1 \in Nat \ {0}
      OBVIOUS
    <3>2. /\ job \in [epoch : 1 .. 1, row : 1 .. Cardinality(Books), book : Books,
                      needs : BOOLEAN, stage : {"queued", "counting", "posted"},
                      found : {"nothing", "cover", "counted", "failed", "empty"}]
          /\ job.row \in DOMAIN shown /\ shown[job.row] = job.book
      BY <3>1, RequestsFit
    <3> QED
      BY <1>2, <3>2
  <2> QED
    BY <2>1 DEF JobsInv, JobsType, JobsFit
<1>7. PositionsFit
  BY <1>3 DEF PositionsFit
<1>8. focus \in 0 .. Cardinality(Books)
  <2>1. CASE focus = 0
    BY <2>1, BooksCount
  <2>2. ASSUME NEW r \in DOMAIN shown, focus = r - 1
        PROVE  focus \in 0 .. Cardinality(Books)
    BY <1>2, <2>2, BooksCount
  <2> QED
    BY <2>1, <2>2
<1>9. ReaderType
  <2>1. 0 \in 0 .. MaxMoves
    BY CarouselAssumption
  <2>2. screen = "library" /\ openBook = NoBook /\ opening = NoBook /\ emptied = FALSE /\ moves = 0
    OBVIOUS
  <2> QED
    BY <1>8, <2>1, <2>2 DEF ReaderType
<1> QED
  BY <1>4, <1>5, <1>6, <1>7, <1>9 DEF CarouselInv

LEMMA CarouselStep == CarouselInv /\ [Next]_vars => CarouselInv'
<1> SUFFICES ASSUME CarouselInv, [Next]_vars PROVE CarouselInv'
  OBVIOUS
<1>1. ASSUME NEW q \in Queries, SearchChanged(q) PROVE CarouselInv'
  BY <1>1, StepSearchChanged
<1>2. ASSUME NEW delta \in {-1, 1}, MoveFocus(delta) PROVE CarouselInv'
  BY <1>2, StepMoveFocus
<1>3. ASSUME NEW r \in DOMAIN rows, ToggleSelection(r) PROVE CarouselInv'
  BY <1>3, StepToggleSelection
<1>4. CASE SelectAll \/ ExitSelection
  BY <1>4, StepFlagged
<1>5. CASE DeleteSelected
  BY <1>5, StepDeleteSelected
<1>6. CASE ClearHistory
  BY <1>6, StepClearHistory
<1>7. CASE (\E b \in Books : RequestOpen(b)) \/ BackToViewer \/ OpenFails
  BY <1>7, StepQuiet
<1>8. CASE GoToLibrary
  BY <1>8, StepGoToLibrary
<1>9. CASE OpenLands
  BY <1>9, StepOpenLands
<1>10. CASE OpenRejected
  BY <1>10, StepOpenRejected
<1>11. ASSUME NEW batch \in SUBSET (Books \ EmptyBooks), AddLands(batch) PROVE CarouselInv'
  BY <1>11, StepAddLands
<1>12. CASE CoverStep
  <2>1. PICK job \in jobs : CoverWork(job) \/ Deliver(job)
    BY <1>12 DEF CoverStep
  <2> QED
    BY <2>1, StepCoverWork, StepDeliver
<1>13. CASE UNCHANGED vars
  <2>1. /\ UNCHANGED shelfVars /\ UNCHANGED viewVars /\ UNCHANGED openVars
        /\ UNCHANGED coverVars /\ UNCHANGED moves
    BY <1>13 DEF vars
  <2>2. UNCHANGED <<shelf, counted, search, selection, emptied, rows, focus, screen, openBook, opening>>
    BY <2>1 DEF shelfVars, viewVars, openVars
  <2>3. ShelfType' /\ PositionsFit' /\ RowsInv' /\ ReaderType' /\ JobsInv'
    BY <2>1, <2>2, PositionsUntouched, RowsUntouched, JobsUntouched DEF ShelfType, ReaderType, CarouselInv
  <2> QED
    BY <2>3 DEF CarouselInv
<1> QED
  BY <1>1, <1>2, <1>3, <1>4, <1>5, <1>6, <1>7, <1>8, <1>9, <1>10, <1>11, <1>12, <1>13 DEF Next

\* The types, and each row with the book, the badge and the cover that belong
\* together, after every query, open, add, removal and cover that lands.
THEOREM CarouselInvariant == Spec => [](TypeOK /\ CarouselInv)
<1>1. CarouselInv => TypeOK
  BY DEF CarouselInv, TypeOK, ShelfType, RowsInv, RowsType, Row, JobsInv, JobsType, ReaderType
<1> QED
  BY <1>1, CarouselInit, CarouselStep, PTL DEF Spec

\* A row shows the cover of its own book, whatever workers of earlier rows at
\* that position still post: the epoch alone keeps them out.
THEOREM CoversStayOnTheirRows == Spec => []CoverOnItsRow
<1>1. CarouselInv => CoverOnItsRow
  BY DEF CarouselInv, RowsInv
<1> QED
  BY <1>1, CarouselInit, CarouselStep, PTL DEF Spec

\* What a row shows is what a click on it opens or selects, although the click is
\* mapped through the projection and the shelf as they are by then.
THEOREM RowsOpenTheirBooks == Spec => []RowOpensItsBook
<1>1. CarouselInv => RowOpensItsBook
  BY DEF CarouselInv, RowsInv
<1> QED
  BY <1>1, CarouselInit, CarouselStep, PTL DEF Spec

\* The badges are the selection: it is kept by book, and no book has two rows.
THEOREM BadgesFollowBooks == Spec => []BadgesMatchSelection
<1>1. CarouselInv => BadgesMatchSelection
  BY DEF CarouselInv, RowsInv
<1> QED
  BY <1>1, CarouselInit, CarouselStep, PTL DEF Spec

\* The rows are the books of the shelf the active filter lets through, until an
\* empty book is dropped: the positions are the ones the filter gives, and every
\* book of the shelf has one.
THEOREM RowsFollowTheFilter == Spec => []ProjectionIsCurrent
<1>1. CarouselInv => ProjectionIsCurrent
  <2> SUFFICES ASSUME CarouselInv, ~emptied
               PROVE  {rows[r].book : r \in DOMAIN rows} = shelf \cap (search.query \cup search.forced)
    BY DEF ProjectionIsCurrent, ActiveFilterPreserved
  <2>1. /\ \A r \in DOMAIN rows : Positioned(shelf, search.visible, rows[r].book)
        /\ \A b : Positioned(shelf, search.visible, b) => \E r \in DOMAIN rows : rows[r].book = b
    BY RowsAreBooks DEF CarouselInv, RowsInv
  <2> PICK S \in SUBSET Books : S = shelf
    BY DEF CarouselInv, ShelfType
  <2> PICK chosen : chosen = search.query \cup search.forced
    OBVIOUS
  <2>2. /\ books(S) \in [1 .. Cardinality(S) -> S]
        /\ \A x \in S : \E i \in 1 .. Cardinality(S) : books(S)[i] = x
    BY FiniteShelf, AscendingIsOrder DEF books
  <2>3. search.visible = {i \in 1 .. Cardinality(S) : books(S)[i] \in chosen}
    BY DEF CarouselInv, PositionsFit, visible_of
  <2>4. \A b : Positioned(S, search.visible, b) => b \in S \cap chosen
    BY <2>2, <2>3 DEF Positioned
  <2>5. \A b \in S \cap chosen : Positioned(S, search.visible, b)
    BY <2>2, <2>3 DEF Positioned
  <2> QED
    BY <2>1, <2>4, <2>5
<1> QED
  BY <1>1, CarouselInit, CarouselStep, PTL DEF Spec
============================================================================
