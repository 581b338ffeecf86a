------------------------- MODULE LibraryOnDiskProofs -------------------------
(***************************************************************************)
(* Proofs about the shelf and its file, for any set of paths, page counts  *)
(* and unreadable contents: the operations of the shelf keep it lawful,    *)
(* every step keeps what is in memory and what a restart may find lawful,  *)
(* and the save is the atomic save that DurableDocument promises.          *)
(***************************************************************************)
EXTENDS LibraryOnDisk, FiniteSetTheorems, WellFoundedInduction, TLAPS

\* The documented invariant of last_opened, beside the types.
Lawful(lib) == lib \in Libraries /\ lib.last \in Shelf(lib) \cup {NoPath}

\* What a file may show: a lawful shelf, or what only the outside puts there.
Sound(content) == content \in Unreadable \cup {Absent} \/ Lawful(content)

Stages == {"written", "synced", "renamed"}

TempInv ==
  \/ temp = NoTemp
  \/ /\ temp \in [doc : {library}, stage : Stages]
     /\ running
     /\ temp.stage = "renamed" => main = library

DiskInv ==
  /\ Lawful(library) /\ undo \in Libraries
  /\ running \in BOOLEAN /\ canon \in Resolutions /\ faults \in 0 .. MaxFaults
  /\ flushed = TRUE /\ aside \subseteq Unreadable
  /\ Sound(main) /\ \A content \in older : Sound(content)
  /\ TempInv
  /\ running /\ ~ QuarantineMayFail => main \notin Unreadable

-----------------------------------------------------------------------------
(* Shelves as values. *)

LEMMA Records_ ==
  ASSUME NEW r \in Records
  PROVE  r.resume \in Resumes /\ r.resume \in Nat /\ r.count \in PageCounts \cup {Unknown}
         /\ r = [resume |-> r.resume, count |-> r.count]
  BY PageCountsAssumption DEF Records, Resumes

LEMMA ShelfOf ==
  ASSUME NEW lib \in Libraries
  PROVE  /\ Shelf(lib) \subseteq Paths
         /\ lib.books \in [Shelf(lib) -> Records]
         /\ lib.last \in Paths \cup {NoPath}
         /\ lib = [books |-> lib.books, last |-> lib.last]
  BY DEF Libraries, Shelf

LEMMA LibraryOf ==
  ASSUME NEW S \in SUBSET Paths, NEW books \in [S -> Records], NEW last \in Paths \cup {NoPath}
  PROVE  /\ [books |-> books, last |-> last] \in Libraries
         /\ Shelf([books |-> books, last |-> last]) = S
  BY DEF Libraries, Shelf

LEMMA EmptyIsLawful == Lawful(EmptyLibrary) /\ NoUndo = EmptyLibrary
  <1>1. [p \in {} |-> 0] \in [{} -> Records]
    OBVIOUS
  <1> QED
    BY <1>1, LibraryOf DEF EmptyLibrary, NoUndo, Lawful

\* A resume page brought inside a count is one a record may hold.
LEMMA ClampedFits ==
  ASSUME NEW r \in Resumes, NEW n \in PageCounts \cup {Unknown}
  PROVE  /\ Clamped(r, n) \in Resumes /\ Clamped(r, n) <= r
         /\ n # Unknown => Clamped(r, n) < n
  BY PageCountsAssumption DEF Clamped, LesserOf, Resumes, Unknown

LEMMA UpdatedIsLawful ==
  ASSUME NEW lib, Lawful(lib), NEW p, NEW record \in Records
  PROVE  Lawful(Updated(lib, p, record)) /\ Shelf(Updated(lib, p, record)) = Shelf(lib)
  <1>1. CASE p \notin Shelf(lib)
    BY <1>1 DEF Updated
  <1>2. CASE p \in Shelf(lib)
    <2>1. lib \in Libraries
      BY DEF Lawful
    <2>2. Updated(lib, p, record)
            = [books |-> [lib.books EXCEPT ![p] = record], last |-> lib.last]
      BY <1>2, <2>1, ShelfOf DEF Updated
    <2>3. [lib.books EXCEPT ![p] = record] \in [Shelf(lib) -> Records]
      BY <2>1, ShelfOf
    <2> QED
      BY <2>1, <2>2, <2>3, ShelfOf, LibraryOf DEF Lawful
  <1> QED
    BY <1>1, <1>2

\* set_page_count and set_resume_page keep the shelf and its bookmark.
LEMMA PageCountIsLawful ==
  ASSUME NEW lib, Lawful(lib), NEW p, NEW n \in PageCounts
  PROVE  /\ Lawful(set_page_count(lib, p, n))
         /\ Shelf(set_page_count(lib, p, n)) = Shelf(lib)
         /\ p \in Shelf(lib) =>
              /\ set_page_count(lib, p, n).books[p].count = n
              /\ set_page_count(lib, p, n).books[p].resume < n
  <1>1. CASE p \notin Shelf(lib)
    BY <1>1 DEF set_page_count, Updated
  <1>2. CASE p \in Shelf(lib)
    <2> DEFINE record == [lib.books[p] EXCEPT !.count = n, !.resume = Clamped(@, n)]
    <2>1. lib \in Libraries /\ lib.books[p] \in Records /\ p \in DOMAIN lib.books
      BY <1>2, ShelfOf DEF Lawful, Shelf
    <2>2. record = [resume |-> Clamped(lib.books[p].resume, n), count |-> n]
      <3>1. PICK r : r = lib.books[p]
        OBVIOUS
      <3>2. PICK k : k = Clamped(r.resume, n)
        OBVIOUS
      <3>3. r = [resume |-> r.resume, count |-> r.count]
        BY <2>1, <3>1, Records_
      <3>4. PICK c : c = [r EXCEPT !.count = n]
        OBVIOUS
      <3>5. c = [resume |-> r.resume, count |-> n]
        BY <3>3, <3>4
      <3>6. [c EXCEPT !.resume = k] = [resume |-> k, count |-> n]
        BY <3>5
      <3>7. [r EXCEPT !.count = n, !.resume = Clamped(@, n)] = [c EXCEPT !.resume = k]
        BY <3>2, <3>4, Zenon
      <3> QED
        BY <3>1, <3>6, <3>7, Zenon
    <2>3. record \in Records /\ record.resume < n /\ record.count = n
      BY <2>1, <2>2, Records_, ClampedFits, PageCountsAssumption DEF Records, Unknown
    <2>4. set_page_count(lib, p, n) = Updated(lib, p, record)
      BY DEF set_page_count
    <2>5. Updated(lib, p, record).books[p] = record
      BY <1>2, <2>1, ShelfOf DEF Updated
    <2> HIDE DEF record
    <2> QED
      BY <2>3, <2>4, <2>5, UpdatedIsLawful
  <1> QED
    BY <1>1, <1>2

LEMMA ResumePageIsLawful ==
  ASSUME NEW lib, Lawful(lib), NEW p, NEW n \in PageCounts
  PROVE  Lawful(set_resume_page(lib, p, n - 1))
  <1>1. CASE p \notin Shelf(lib)
    BY <1>1 DEF set_resume_page, Updated
  <1>2. CASE p \in Shelf(lib)
    <2> DEFINE record == [lib.books[p] EXCEPT !.resume = n - 1]
    <2>1. lib \in Libraries /\ lib.books[p] \in Records
      BY <1>2, ShelfOf DEF Lawful
    <2>2. n - 1 \in Resumes
      BY PageCountsAssumption DEF Resumes
    <2>3. record \in Records
      BY <2>1, <2>2 DEF Records
    <2>4. set_resume_page(lib, p, n - 1) = Updated(lib, p, record)
      BY DEF set_resume_page
    <2> HIDE DEF record
    <2> QED
      BY <2>3, <2>4, UpdatedIsLawful
  <1> QED
    BY <1>1, <1>2

LEMMA AddedIsLawful ==
  ASSUME NEW lib, Lawful(lib), NEW canonicals \in SUBSET Paths
  PROVE  /\ Lawful(add_many(lib, canonicals))
         /\ Shelf(add_many(lib, canonicals)) = Shelf(lib) \cup canonicals
         /\ add_many(lib, canonicals).last = lib.last
  <1> DEFINE books == [p \in Shelf(lib) \cup canonicals |->
                         IF p \in Shelf(lib) THEN lib.books[p] ELSE NewBook]
  <1>1. lib \in Libraries
    BY DEF Lawful
  <1>2. NewBook \in Records
    BY DEF NewBook, Records, Resumes
  <1>3. books \in [Shelf(lib) \cup canonicals -> Records]
    BY <1>1, <1>2, ShelfOf
  <1>4. add_many(lib, canonicals) = [books |-> books, last |-> lib.last]
    BY <1>1, ShelfOf DEF add_many
  <1> HIDE DEF books
  <1> QED
    BY <1>1, <1>3, <1>4, ShelfOf, LibraryOf DEF Lawful

LEMMA RegisteredIsLawful ==
  ASSUME NEW lib, Lawful(lib), NEW p \in Paths, NEW n \in PageCounts
  PROVE  /\ Lawful(register_opened(lib, p, n))
         /\ register_opened(lib, p, n).books[p].count = n
         /\ register_opened(lib, p, n).books[p].resume < n
  <1>1. PICK added : added = add_many(lib, {p})
    OBVIOUS
  <1>2. Lawful(added) /\ p \in Shelf(added)
    BY <1>1, AddedIsLawful
  <1>3. PICK counted : counted = set_page_count(added, p, n)
    OBVIOUS
  <1>4. /\ Lawful(counted) /\ p \in Shelf(counted)
        /\ counted.books[p].count = n /\ counted.books[p].resume < n
    BY <1>2, <1>3, PageCountIsLawful
  <1>5. counted \in Libraries
    BY <1>4 DEF Lawful
  <1>6. [counted EXCEPT !.last = p] = [books |-> counted.books, last |-> p]
    BY <1>5, ShelfOf
  <1>7. register_opened(lib, p, n) = [books |-> counted.books, last |-> p]
    BY <1>1, <1>3, <1>6 DEF register_opened
  <1> QED
    BY <1>4, <1>5, <1>7, ShelfOf, LibraryOf DEF Lawful

LEMMA RemovedIsLawful ==
  ASSUME NEW lib, Lawful(lib), NEW paths
  PROVE  Lawful(remove_many(lib, paths))
  <1> DEFINE books == [p \in Shelf(lib) \ paths |-> lib.books[p]]
  <1>1. lib \in Libraries
    BY DEF Lawful
  <1>2. books \in [Shelf(lib) \ paths -> Records] /\ Shelf(lib) \ paths \subseteq Paths
    BY <1>1, ShelfOf
  <1>3. PICK last : last = IF lib.last \in paths THEN NoPath ELSE lib.last
    OBVIOUS
  <1>4. remove_many(lib, paths) = [books |-> books, last |-> last]
    BY <1>3 DEF remove_many
  <1> HIDE DEF books
  <1>5. last \in Paths \cup {NoPath} /\ last \in (Shelf(lib) \ paths) \cup {NoPath}
    BY <1>1, <1>3, ShelfOf DEF Lawful
  <1> QED
    BY <1>2, <1>4, <1>5, LibraryOf DEF Lawful

\* A rollback never leaves the bookmark without its book, whatever it puts back.
LEMMA RestoredIsLawful ==
  ASSUME NEW lib, Lawful(lib), NEW removed \in Libraries
  PROVE  Lawful(restore(lib, removed.books, removed.last))
  <1> DEFINE shelf == Shelf(lib) \cup Shelf(removed)
             books == [p \in shelf |-> IF p \in Shelf(lib) THEN lib.books[p]
                                       ELSE removed.books[p]]
  <1>1. lib \in Libraries
    BY DEF Lawful
  <1>2. books \in [shelf -> Records] /\ shelf \in SUBSET Paths
    BY <1>1, ShelfOf
  <1>3. PICK last : last = IF removed.last \in shelf THEN removed.last ELSE lib.last
    OBVIOUS
  <1>4. restore(lib, removed.books, removed.last) = [books |-> books, last |-> last]
    BY <1>3 DEF restore, Shelf
  <1>5. last \in shelf \cup {NoPath} /\ last \in Paths \cup {NoPath}
    BY <1>1, <1>3, ShelfOf DEF Lawful
  <1> HIDE DEF books, shelf
  <1> QED
    BY <1>2, <1>4, <1>5, LibraryOf DEF Lawful

\* What a removal keeps is enough to undo it.
LEMMA RemovalInverts ==
  ASSUME NEW lib, Lawful(lib), NEW paths, paths \subseteq Shelf(lib)
  PROVE  restore(remove_many(lib, paths), [p \in paths |-> lib.books[p]], lib.last) = lib
  <1> DEFINE kept == [p \in paths |-> lib.books[p]]
             left == [p \in Shelf(lib) \ paths |-> lib.books[p]]
  <1>1. /\ lib.books \in [Shelf(lib) -> Records] /\ Shelf(lib) \subseteq Paths
        /\ lib = [books |-> lib.books, last |-> lib.last]
        /\ lib.last \in Shelf(lib) \cup {NoPath}
    BY ShelfOf DEF Lawful
  <1>2. PICK last : last = IF lib.last \in paths THEN NoPath ELSE lib.last
    OBVIOUS
  <1>3. PICK smaller : smaller = [books |-> left, last |-> last]
    OBVIOUS
  <1>4. remove_many(lib, paths) = smaller
    BY <1>2, <1>3 DEF remove_many
  <1>5. smaller.books = left /\ smaller.last = last
    BY <1>3
  <1>6. Shelf(smaller) = Shelf(lib) \ paths /\ DOMAIN kept = paths
    BY <1>5 DEF Shelf
  <1>7. PICK shelf : shelf = Shelf(smaller) \cup DOMAIN kept
    OBVIOUS
  <1>8. shelf = Shelf(lib)
    BY <1>6, <1>7
  <1>9. PICK books : books = [p \in shelf |-> IF p \in Shelf(smaller) THEN smaller.books[p]
                                               ELSE kept[p]]
    OBVIOUS
  <1>10. books = lib.books
    <2>1. \A p \in Shelf(lib) : books[p] = lib.books[p]
      BY <1>5, <1>6, <1>8, <1>9
    <2> HIDE DEF kept, left
    <2>2. books = [p \in Shelf(lib) |-> lib.books[p]]
      BY <1>8, <1>9, <2>1
    <2> QED
      BY <1>1, <2>2
  <1>11. (IF lib.last \in shelf THEN lib.last ELSE last) = lib.last
    BY <1>1, <1>2, <1>8, NoPathAssumption
  <1>12. restore(smaller, kept, lib.last) = [books |-> books, last |-> lib.last]
    <2> HIDE DEF kept, left
    <2> QED
      BY <1>5, <1>7, <1>9, <1>11 DEF restore
  <1> QED
    BY <1>1, <1>4, <1>10, <1>12

-----------------------------------------------------------------------------
(* Loading a document. *)

LEMMA LeastOf ==
  ASSUME NEW S \in SUBSET Nat, S # {}
  PROVE  \E n \in S : \A m \in S : n <= m
  <1>1. PICK R : R = {ss \in Nat \X Nat : ss[1] < ss[2]}
    OBVIOUS
  <1>2. IsWellFoundedOn(R, Nat)
    BY <1>1, NatLessThanWellFounded, Zenon DEF OpToRel
  <1>3. PICK n \in S : \A m \in S : ~ (<<m, n>> \in R)
    BY <1>2, WFMin
  <1>4. ASSUME NEW m \in S PROVE n <= m
    <2>1. PICK pair : pair = <<m, n>>
      OBVIOUS
    <2>2. pair \in Nat \X Nat /\ pair[1] = m /\ pair[2] = n
      BY <2>1
    <2>3. ~ (pair[1] < pair[2])
      BY <1>1, <1>3, <2>1, <2>2
    <2> QED
      BY <2>2, <2>3
  <1> QED
    BY <1>4

\* Of a finite set of numbers: the one with the fewest above it.
LEMMA GreatestOf ==
  ASSUME NEW S \in SUBSET Nat, S # {}, IsFiniteSet(S)
  PROVE  \E n \in S : \A m \in S : m <= n
  <1> DEFINE Above(n) == {m \in S : m > n}
  <1>1. \A n \in S : IsFiniteSet(Above(n)) /\ Cardinality(Above(n)) \in Nat
    BY FS_Subset, FS_CardinalityType
  <1>2. PICK n \in S : \A m \in S : Cardinality(Above(n)) <= Cardinality(Above(m))
    <2>1. PICK above : above = [m \in S |-> Cardinality(Above(m))]
      OBVIOUS
    <2> HIDE DEF Above
    <2>2. {above[m] : m \in S} \in SUBSET Nat /\ {above[m] : m \in S} # {}
      BY <1>1, <2>1
    <2>3. PICK k \in {above[m] : m \in S} : \A j \in {above[m] : m \in S} : k <= j
      BY <2>2, LeastOf
    <2>4. PICK n \in S : above[n] = k
      BY <2>3
    <2>5. \A m \in S : above[n] <= above[m]
      BY <2>3, <2>4
    <2> QED
      BY <2>1, <2>5
  <1>3. ASSUME NEW m \in S, m > n PROVE FALSE
    <2>1. Above(m) \subseteq Above(n) /\ m \in Above(n) /\ m \notin Above(m)
      <3>1. \A k \in S : k > m => k > n
        BY <1>3
      <3>2. Above(m) \subseteq Above(n)
        BY <3>1
      <3>3. m \in Above(n)
        BY <1>3
      <3>4. m \notin Above(m)
        OBVIOUS
      <3> QED
        BY <3>2, <3>3, <3>4
    <2> HIDE DEF Above
    <2>2. Cardinality(Above(m)) <= Cardinality(Above(n))
          /\ (Cardinality(Above(n)) = Cardinality(Above(m)) => Above(n) = Above(m))
      BY <1>1, <2>1, FS_Subset
    <2> QED
      BY <1>1, <1>2, <2>1, <2>2
  <1> QED
    BY <1>3

LEMMA FirstIsAMember ==
  ASSUME NEW S \in SUBSET Paths, S # {}, NEW order \in BookOrders
  PROVE  First(S, order) \in S
  <1>1. order \in [Paths -> 1 .. Cardinality(Paths)] /\ Cardinality(Paths) \in Nat
    BY ContentsAssumption, FS_CardinalityType DEF BookOrders
  <1>2. {order[p] : p \in S} \in SUBSET Nat /\ {order[p] : p \in S} # {}
    BY <1>1
  <1>3. PICK n \in {order[p] : p \in S} : \A m \in {order[p] : p \in S} : n <= m
    BY <1>2, LeastOf
  <1>4. \E p \in S : \A q \in S : order[p] <= order[q]
    BY <1>3
  <1> QED
    BY <1>4 DEF First

LEMMA LargestIsTheGreatest ==
  ASSUME NEW S \in SUBSET Nat, S # {}, IsFiniteSet(S)
  PROVE  Largest(S) \in S /\ \A m \in S : m <= Largest(S)
  BY GreatestOf DEF Largest

LEMMA ClampedIsMonotone ==
  ASSUME NEW r \in Nat, NEW s \in Nat, r <= s, NEW n \in Nat
  PROVE  Clamped(r, n) <= Clamped(s, n)
  BY DEF Clamped, LesserOf, Unknown

\* A group of records gives one record, that keeps the furthest page read.
LEMMA MergedGroup ==
  ASSUME NEW D \in SUBSET Paths, NEW books \in [D -> Records],
         NEW S \in SUBSET D, S # {}, NEW order \in BookOrders
  PROVE  /\ merge_group(books, S, order) \in Records
         /\ \A p \in S : Clamped(books[p].resume, merge_group(books, S, order).count)
                           <= merge_group(books, S, order).resume
  <1>1. PICK counted \in SUBSET S : counted = {p \in S : books[p].count # Unknown}
    OBVIOUS
  <1>2. PICK n : n = IF counted = {} THEN Unknown ELSE books[First(counted, order)].count
    OBVIOUS
  <1>3. n \in PageCounts \cup {Unknown} /\ n \in Nat
    <2>1. CASE counted = {}
      BY <1>2, <2>1 DEF Unknown
    <2>2. CASE counted # {}
      <3>1. First(counted, order) \in D
        BY <1>1, <2>2, FirstIsAMember
      <3>2. n \in PageCounts \cup {Unknown}
        BY <1>2, <2>2, <3>1 DEF Records
      <3> QED
        BY <3>2, PageCountsAssumption DEF Unknown
    <2> QED
      BY <2>1, <2>2
  <1>4. PICK read : read = {books[p].resume : p \in S}
    OBVIOUS
  <1>5. /\ read \subseteq Resumes /\ read \subseteq Nat /\ read # {} /\ IsFiniteSet(read)
        /\ \A p \in S : books[p].resume \in read
    <2>1. \A p \in S : books[p] \in Records
      OBVIOUS
    <2>2. \A p \in S : books[p].resume \in Resumes /\ books[p].resume \in Nat
      BY <2>1, Records_
    <2>3. IsFiniteSet(S)
      BY ContentsAssumption, FS_Subset
    <2>4. IsFiniteSet(read)
      <3>1. PICK f : f = [p \in S |-> books[p].resume]
        OBVIOUS
      <3>2. f \in Surjection(S, read)
        BY <1>4, <3>1 DEF Surjection
      <3> QED
        BY <2>3, <3>2, FS_Surjection
    <2> QED
      BY <1>4, <2>2, <2>4
  <1>6. PICK most : most = Largest(read)
    OBVIOUS
  <1>7. most \in read /\ \A r \in read : r <= most
    BY <1>5, <1>6, LargestIsTheGreatest
  <1>8. merge_group(books, S, order) = [resume |-> Clamped(most, n), count |-> n]
    BY <1>1, <1>2, <1>4, <1>6 DEF merge_group
  <1>9. Clamped(most, n) \in Resumes
    BY <1>3, <1>5, <1>7, ClampedFits
  <1>10. \A p \in S : Clamped(books[p].resume, n) <= Clamped(most, n)
    BY <1>3, <1>5, <1>7, ClampedIsMonotone
  <1> QED
    BY <1>3, <1>8, <1>9, <1>10 DEF Records

\* What a load promises of one document.
Healed(lib, c, loaded) ==
  /\ Shelf(loaded) = {c[p] : p \in Shelf(lib)}
  /\ loaded.last = IF lib.last = NoPath THEN NoPath ELSE c[lib.last]
  /\ \A p \in Shelf(lib) :
       Clamped(lib.books[p].resume, loaded.books[c[p]].count) <= loaded.books[c[p]].resume

LEMMA LoadedIsLawful ==
  ASSUME NEW lib, Lawful(lib), NEW c \in Resolutions, NEW order \in BookOrders
  PROVE  Lawful(from_json(lib, c, order)) /\ Healed(lib, c, from_json(lib, c, order))
  <1>1. lib \in Libraries /\ lib.last \in Shelf(lib) \cup {NoPath}
    BY DEF Lawful
  <1>2. /\ Shelf(lib) \subseteq Paths /\ lib.books \in [Shelf(lib) -> Records]
        /\ c \in [Paths -> Paths]
    BY <1>1, ShelfOf DEF Resolutions
  <1>3. PICK keys \in SUBSET Paths : keys = {c[p] : p \in Shelf(lib)}
    BY <1>2
  <1>4. \A key \in keys : /\ Group(lib.books, c, key) \in SUBSET Shelf(lib)
                          /\ Group(lib.books, c, key) # {}
    BY <1>2, <1>3 DEF Group, Shelf
  <1>5. PICK books : books = Survivors(lib.books, c, order)
    OBVIOUS
  <1>6. books = [key \in keys |-> merge_group(lib.books, Group(lib.books, c, key), order)]
    BY <1>3, <1>5 DEF Survivors, Shelf
  <1>7. books \in [keys -> Records]
    <2>1. ASSUME NEW key \in keys
          PROVE  merge_group(lib.books, Group(lib.books, c, key), order) \in Records
      BY <1>2, <1>4, MergedGroup
    <2> QED
      BY <1>6, <2>1
  <1>8. \A p \in Shelf(lib) : Clamped(lib.books[p].resume, books[c[p]].count) <= books[c[p]].resume
    <2>1. SUFFICES ASSUME NEW p \in Shelf(lib)
                   PROVE  Clamped(lib.books[p].resume, books[c[p]].count) <= books[c[p]].resume
      OBVIOUS
    <2>2. c[p] \in keys /\ p \in Group(lib.books, c, c[p])
      BY <1>2, <1>3 DEF Group, Shelf
    <2>3. books[c[p]] = merge_group(lib.books, Group(lib.books, c, c[p]), order)
      BY <1>6, <2>2
    <2> QED
      BY <1>2, <1>4, <2>2, <2>3, MergedGroup
  <1>9. PICK last : last = IF lib.last \in Shelf(lib) THEN c[lib.last] ELSE lib.last
    OBVIOUS
  <1>10. /\ last = IF lib.last = NoPath THEN NoPath ELSE c[lib.last]
         /\ last \in keys \cup {NoPath} /\ last \in Paths \cup {NoPath}
    BY <1>1, <1>2, <1>3, <1>9, NoPathAssumption
  <1>11. PICK merged : merged = [books |-> books, last |-> last]
    OBVIOUS
  <1>12. recanonicalize_and_merge(lib, c, order) = merged
    BY <1>5, <1>9, <1>11 DEF recanonicalize_and_merge
  <1>13. merged \in Libraries /\ Shelf(merged) = keys /\ merged.books = books /\ merged.last = last
    BY <1>7, <1>10, <1>11, LibraryOf
  <1>14. normalize(merged) = merged
    <2>1. (IF last \in keys THEN last ELSE NoPath) = last
      BY <1>10
    <2>2. [merged EXCEPT !.last = last] = merged
      BY <1>11
    <2> QED
      BY <1>13, <2>1, <2>2 DEF normalize
  <1>15. from_json(lib, c, order) = merged
    BY <1>12, <1>14 DEF from_json
  <1> QED
    BY <1>3, <1>8, <1>10, <1>13, <1>15 DEF Lawful, Healed

-----------------------------------------------------------------------------
(* Handlers: each stores a lawful shelf and starts to save it. *)

Begun(lib) ==
  /\ Ready /\ Lawful(lib)
  /\ library' = lib
  /\ Store!WriteTemp(lib)
  /\ undo' \in Libraries
  /\ Quiet

LEMMA SavingBegins ==
  ASSUME NEW lib, Lawful(lib), Saving(lib)
  PROVE  Begun(lib)
  BY EmptyIsLawful DEF Saving, Begun, Lawful

LEMMA AddBooksBegins ==
  ASSUME DiskInv, NEW batch \in SUBSET Paths, NEW n \in PageCounts, AddBooks(batch, n)
  PROVE  \E lib : Begun(lib)
  <1>1. PICK canonicals : canonicals = {canon[p] : p \in batch}
    OBVIOUS
  <1>2. PICK shelved : shelved = add_many(library, canonicals)
    OBVIOUS
  <1>3. canonicals \in SUBSET Paths /\ Lawful(library)
    BY <1>1 DEF DiskInv, Resolutions
  <1>4. Lawful(shelved) /\ shelved.last = library.last /\ Shelf(library) \subseteq Shelf(shelved)
    BY <1>2, <1>3, AddedIsLawful
  <1>5. PICK added : added = canonicals \ Shelf(library)
    OBVIOUS
  <1>6. PICK books : books = [p \in DOMAIN shelved.books |->
                                IF p \in added THEN [shelved.books[p] EXCEPT !.count = n]
                                               ELSE shelved.books[p]]
    OBVIOUS
  <1>7. Saving([library EXCEPT !.books = books])
    BY <1>1, <1>2, <1>5, <1>6 DEF AddBooks
  <1>8. books \in [Shelf(shelved) -> Records]
    <2>1. shelved.books \in [Shelf(shelved) -> Records]
      BY <1>4, ShelfOf DEF Lawful
    <2>2. ASSUME NEW p \in Shelf(shelved)
          PROVE  [shelved.books[p] EXCEPT !.count = n] \in Records
      BY <2>1 DEF Records
    <2> QED
      BY <1>6, <2>1, <2>2 DEF Shelf
  <1>9. [library EXCEPT !.books = books] = [books |-> books, last |-> library.last]
    BY <1>3, ShelfOf DEF Lawful
  <1>10. Lawful([books |-> books, last |-> library.last])
    <2>1. Shelf(shelved) \in SUBSET Paths /\ library.last \in Paths \cup {NoPath}
      BY <1>3, <1>4, ShelfOf DEF Lawful
    <2> QED
      BY <1>3, <1>4, <1>8, <2>1, LibraryOf DEF Lawful
  <1> QED
    BY <1>7, <1>9, <1>10, SavingBegins

LEMMA RemoveBooksBegins ==
  ASSUME DiskInv, NEW paths \in SUBSET Paths, RemoveBooks(paths)
  PROVE  \E lib : Begun(lib)
  <1>1. Lawful(library) /\ library \in Libraries
    BY DEF DiskInv, Lawful
  <1>2. Lawful(remove_many(library, paths))
    BY <1>1, RemovedIsLawful
  <1>3. paths \subseteq Shelf(library)
    BY DEF RemoveBooks
  <1>4. [p \in paths |-> library.books[p]] \in [paths -> Records]
    BY <1>1, <1>3, ShelfOf
  <1>5. [books |-> [p \in paths |-> library.books[p]], last |-> library.last] \in Libraries
    BY <1>1, <1>4, ShelfOf, LibraryOf
  <1>6. Begun(remove_many(library, paths))
    BY <1>2, <1>5 DEF RemoveBooks, Begun
  <1> QED
    BY <1>6

Handler ==
  \/ \E batch \in (SUBSET Paths) \ {{}}, n \in PageCounts : AddBooks(batch, n)
  \/ \E p \in Paths, n \in PageCounts :
       OpenBook(p, n) \/ LeavePoint(p, n - 1) \/ CountResolved(p, n)
  \/ \E paths \in SUBSET Paths : RemoveBooks(paths)
  \/ \E p \in Paths : RemoveEmptyBook(p)
  \/ ClearHistory

LEMMA HandlerBegins ==
  ASSUME DiskInv, Handler
  PROVE  \E lib : Begun(lib)
  <1>1. Lawful(library)
    BY DEF DiskInv
  <1>2. CASE \E batch \in (SUBSET Paths) \ {{}}, n \in PageCounts : AddBooks(batch, n)
    BY <1>2, AddBooksBegins
  <1>3. ASSUME NEW p \in Paths, NEW n \in PageCounts, OpenBook(p, n)
        PROVE  \E lib : Begun(lib)
    BY <1>1, <1>3, RegisteredIsLawful, SavingBegins DEF OpenBook
  <1>4. ASSUME NEW p \in Paths, NEW n \in PageCounts, LeavePoint(p, n - 1)
        PROVE  \E lib : Begun(lib)
    BY <1>1, <1>4, ResumePageIsLawful, SavingBegins DEF LeavePoint
  <1>5. ASSUME NEW p \in Paths, NEW n \in PageCounts, CountResolved(p, n)
        PROVE  \E lib : Begun(lib)
    BY <1>1, <1>5, PageCountIsLawful, SavingBegins DEF CountResolved
  <1>6. CASE \E paths \in SUBSET Paths : RemoveBooks(paths)
    BY <1>6, RemoveBooksBegins
  <1>7. ASSUME NEW p \in Paths, RemoveEmptyBook(p)
        PROVE  \E lib : Begun(lib)
    BY <1>1, <1>7, RemovedIsLawful, SavingBegins DEF RemoveEmptyBook
  <1>8. CASE ClearHistory
    BY <1>8, EmptyIsLawful, SavingBegins DEF ClearHistory
  <1> QED
    BY <1>2, <1>3, <1>4, <1>5, <1>6, <1>7, <1>8 DEF Handler

-----------------------------------------------------------------------------
(* What is in memory and what a restart may find, step by step. *)

LEMMA TempRecord ==
  ASSUME TempInv, temp # NoTemp
  PROVE  /\ temp = [doc |-> library, stage |-> temp.stage] /\ temp.doc = library
         /\ temp.stage \in Stages /\ running
         /\ temp.stage = "renamed" => main = library
  BY DEF TempInv

\* The temporary file of a save is not mistaken for none.
LEMMA TempIsSomething ==
  ASSUME NEW lib \in Libraries, NEW stage \in Stages
  PROVE  [doc |-> lib, stage |-> stage] # NoTemp
  BY ContentsAssumption DEF Stages

LEMMA InitDisk == Init => DiskInv
  <1> SUFFICES ASSUME Init PROVE DiskInv
    OBVIOUS
  <1>1. /\ library = EmptyLibrary /\ undo = NoUndo /\ running = TRUE /\ canon \in Resolutions
        /\ faults \in 0 .. MaxFaults
        /\ main = Absent /\ older = {} /\ flushed = TRUE /\ temp = NoTemp /\ aside = {}
    BY FaultAssumption DEF Init, Store!StoreInit
  <1>2. Absent \notin Unreadable
    BY ContentsAssumption
  <1> QED
    BY <1>1, <1>2, EmptyIsLawful DEF DiskInv, Sound, TempInv, Lawful

LEMMA BeginDisk ==
  ASSUME DiskInv, NEW lib, Begun(lib)
  PROVE  DiskInv'
  <1>1. /\ library' = lib /\ Lawful(lib) /\ undo' \in Libraries /\ running
        /\ UNCHANGED <<running, canon, faults, main, flushed, older, aside>>
        /\ temp' = [doc |-> lib, stage |-> "written"]
    BY DEF Begun, Ready, Quiet, Store!WriteTemp
  <1>2. TempInv'
    BY <1>1 DEF TempInv, Stages
  <1> QED
    BY <1>1, <1>2 DEF DiskInv, Sound, Lawful

LEMMA ContinueDisk ==
  ASSUME DiskInv, ContinueSave \/ DirectorySyncFails
  PROVE  DiskInv'
  <1>1. /\ UNCHANGED <<library, running, canon, undo>> /\ running
        /\ faults' \in 0 .. MaxFaults
        /\ \/ Store!SyncTemp \/ Store!PersistTemp
           \/ Store!SyncDirectory(TRUE) \/ Store!SyncDirectory(FALSE)
    <2>1. CASE ContinueSave
      BY <2>1 DEF ContinueSave, DiskInv
    <2>2. CASE DirectorySyncFails
      <3>1. /\ UNCHANGED <<library, running, canon, undo>> /\ running
            /\ Store!SyncDirectory(FALSE)
        BY <2>2 DEF DirectorySyncFails
      <3>2. faults' \in 0 .. MaxFaults
        BY <2>2, FaultAssumption DEF DirectorySyncFails, Fault, DiskInv
      <3> QED
        BY <3>1, <3>2
    <2> QED
      BY <2>1, <2>2
  <1>2. TempInv /\ Lawful(library) /\ library \in Libraries
    BY DEF DiskInv, Lawful
  <1>3. CASE Store!SyncTemp
    <2>1. /\ temp # NoTemp /\ UNCHANGED <<main, flushed, older, aside>>
          /\ temp' = [temp EXCEPT !.stage = "synced"]
      BY <1>3 DEF Store!SyncTemp, Store!At
    <2>2. temp' = [doc |-> library, stage |-> "synced"]
      BY <1>2, <2>1, TempRecord
    <2>3. TempInv'
      BY <1>1, <2>2 DEF TempInv, Stages
    <2> QED
      BY <1>1, <2>1, <2>3 DEF DiskInv, Sound, Lawful
  <1>4. CASE Store!PersistTemp
    <2>1. /\ temp # NoTemp /\ aside' = aside /\ flushed' = TRUE
          /\ main' = temp.doc /\ older' = older \cup {main}
          /\ temp' = [temp EXCEPT !.stage = "renamed"]
      BY <1>4 DEF Store!PersistTemp, Store!At
    <2>2. temp' = [doc |-> library, stage |-> "renamed"] /\ main' = library
      BY <1>2, <2>1, TempRecord
    <2>3. TempInv'
      BY <1>1, <2>2 DEF TempInv, Stages
    <2>4. main' \notin Unreadable /\ Sound(main') /\ \A content \in older' : Sound(content)
      BY <1>2, <2>1, <2>2, ContentsAssumption DEF DiskInv, Sound
    <2> QED
      BY <1>1, <2>1, <2>3, <2>4 DEF DiskInv, Sound, Lawful
  <1>5. CASE Store!SyncDirectory(TRUE) \/ Store!SyncDirectory(FALSE)
    <2>1. temp' = NoTemp /\ older' \subseteq older /\ UNCHANGED <<main, flushed, aside>>
      BY <1>5 DEF Store!SyncDirectory
    <2> QED
      BY <1>1, <2>1 DEF DiskInv, Sound, Lawful, TempInv
  <1> QED
    BY <1>1, <1>3, <1>4, <1>5

LEMMA FailDisk ==
  ASSUME DiskInv, SaveFails
  PROVE  DiskInv'
  <1>1. Lawful(restore(library, undo.books, undo.last))
    BY RestoredIsLawful DEF DiskInv
  <1>2. /\ library' = restore(library, undo.books, undo.last) /\ undo' = NoUndo
        /\ temp' = NoTemp /\ faults' \in 0 .. MaxFaults
        /\ UNCHANGED <<running, canon, main, flushed, older, aside>>
    BY FaultAssumption DEF SaveFails, Store!FailSave, Fault, DiskInv
  <1> QED
    BY <1>1, <1>2, EmptyIsLawful DEF DiskInv, Sound, Lawful, TempInv

\* The process or the machine stops.
LEMMA StopDisk ==
  ASSUME DiskInv, Crash \/ PowerLoss
  PROVE  DiskInv'
  <1>1. /\ running' = FALSE /\ library' = EmptyLibrary /\ undo' = NoUndo
        /\ temp' = NoTemp /\ UNCHANGED canon /\ faults' \in 0 .. MaxFaults
        /\ flushed' = TRUE /\ main' \in older \cup {main} /\ older' \subseteq older
        /\ aside' \subseteq aside
    <2>1. CASE Crash
      BY <2>1, FaultAssumption DEF Crash, Store!LoseProcess, Stopped, Fault, DiskInv
    <2>2. CASE PowerLoss
      <3>1. main' \in older \cup {main} /\ older' = {} /\ aside' \subseteq aside
        BY <2>2 DEF PowerLoss, Store!LosePower, DiskInv
      <3> QED
        BY <2>2, <3>1 DEF PowerLoss, Store!LosePower, Stopped, DiskInv
    <2> QED
      BY <2>1, <2>2
  <1> QED
    BY <1>1, EmptyIsLawful DEF DiskInv, Sound, Lawful, TempInv

\* The outside.
LEMMA OutsideDisk ==
  ASSUME DiskInv,
         \/ \E c \in Resolutions : FilesMove(c)
         \/ \E content \in Unreadable : Damage(content)
  PROVE  DiskInv'
  <1>1. CASE \E c \in Resolutions : FilesMove(c)
    BY <1>1 DEF FilesMove, disk, DiskInv, Sound, Lawful, TempInv
  <1>2. ASSUME NEW content \in Unreadable, Damage(content) PROVE DiskInv'
    <2>1. /\ ~ running /\ temp = NoTemp /\ main' = content /\ older' = {} /\ flushed' = TRUE
          /\ UNCHANGED <<temp, aside, library, running, canon, undo>> /\ faults' \in 0 .. MaxFaults
      BY <1>2, FaultAssumption DEF Damage, Store!Replace, Store!Idle, Fault, DiskInv
    <2> QED
      BY <2>1 DEF DiskInv, Sound, Lawful, TempInv
  <1> QED
    BY <1>1, <1>2

\* A start that reads a document, or an absent one.
LEMMA StartLoads ==
  ASSUME DiskInv, Start
  PROVE  /\ UNCHANGED <<disk, canon, undo, faults>> /\ running' = TRUE /\ ~ running
         /\ main \notin Unreadable /\ Lawful(library')
         /\ main # Absent => Lawful(main) /\ Healed(main, canon, library')
  <1>1. /\ UNCHANGED <<disk, canon, undo, faults>> /\ running' = TRUE /\ ~ running
        /\ main \in Libraries \cup {Absent}
    BY DEF Start, Store!Loadable
  <1>2. main \notin Unreadable /\ Sound(main) /\ canon \in Resolutions
    BY <1>1, ContentsAssumption DEF DiskInv
  <1>3. PICK order \in BookOrders :
          library' = IF main = Absent THEN EmptyLibrary ELSE from_json(main, canon, order)
    BY DEF Start
  <1>4. CASE main = Absent
    BY <1>1, <1>2, <1>3, <1>4, EmptyIsLawful
  <1>5. CASE main # Absent
    <2>1. Lawful(main)
      BY <1>1, <1>2, <1>5 DEF Sound
    <2> QED
      BY <1>1, <1>2, <1>3, <1>5, <2>1, LoadedIsLawful
  <1> QED
    BY <1>4, <1>5

LEMMA StartDisk ==
  ASSUME DiskInv, Start
  PROVE  DiskInv'
  <1>1. temp = NoTemp
    BY StartLoads DEF DiskInv, TempInv
  <1> QED
    BY <1>1, StartLoads DEF disk, DiskInv, Sound, Lawful, TempInv

LEMMA QuarantineDisk ==
  ASSUME DiskInv, StartAfterDamage
  PROVE  DiskInv'
  <1>1. PICK ok \in Outcomes : Store!Quarantine(ok)
    BY DEF StartAfterDamage
  <1>2. ~ running /\ temp = NoTemp /\ temp' = NoTemp
    BY <1>1 DEF StartAfterDamage, Store!Quarantine, DiskInv, TempInv
  <1>3. main \in Unreadable
    BY <1>1 DEF Store!Quarantine, Store!Loadable, DiskInv, Sound, Lawful
  <1>4. /\ main' \in {main, Absent} /\ aside' \subseteq Unreadable
        /\ older' \subseteq older \cup {main} /\ flushed' = flushed
    BY <1>1, <1>3 DEF Store!Quarantine, DiskInv
  <1>5. ~ QuarantineMayFail => main' = Absent
    BY <1>1 DEF Outcomes, Store!Quarantine
  <1> QED
    BY <1>2, <1>4, <1>5, EmptyIsLawful, ContentsAssumption
    DEF StartAfterDamage, DiskInv, Sound, Lawful, TempInv

LEMMA DiskStep ==
  ASSUME DiskInv, [Next]_vars
  PROVE  DiskInv'
  <1>1. CASE Handler
    BY <1>1, HandlerBegins, BeginDisk
  <1>2. CASE UNCHANGED vars
    BY <1>2 DEF vars, disk, DiskInv, Sound, Lawful, TempInv
  <1> QED
    BY <1>1, <1>2, ContinueDisk, FailDisk, StopDisk, OutsideDisk, StartDisk, QuarantineDisk
    DEF Next, Handler

-----------------------------------------------------------------------------
(* The save as DurableDocument sees it. *)

Pending == IF temp = NoTemp THEN NoTemp ELSE temp.doc

LEMMA InitIsDurable == Init => Durable!Init
  <1> SUFFICES ASSUME Init PROVE Durable!Init
    OBVIOUS
  <1>1. main = Absent /\ older = {} /\ temp = NoTemp
    BY DEF Init, Store!StoreInit
  <1>2. Readable = {Absent}
    BY <1>1 DEF Readable
  <1> QED
    BY <1>1, <1>2 DEF Durable!Init

\* What is readable and pending while a save runs, and while none does.
LEMMA ReadableNow ==
  ASSUME TempInv
  PROVE  /\ temp = NoTemp => Readable = {main} \cup older /\ Pending = NoTemp
         /\ temp # NoTemp => Readable = {main, library} \cup older /\ Pending = library
  BY TempRecord DEF Readable, Pending

LEMMA StepIsDurable ==
  ASSUME DiskInv, [Next]_vars
  PROVE  [Durable!Next]_<<Readable, Pending>>
  <1>1. /\ TempInv /\ DiskInv' /\ TempInv'
        /\ Lawful(library) /\ library \in Libraries /\ library # NoTemp
    BY DiskStep, ContentsAssumption DEF DiskInv, Lawful
  <1>2. /\ temp' = NoTemp => Readable' = {main'} \cup older' /\ Pending' = NoTemp
        /\ temp' # NoTemp => Readable' = {main', library'} \cup older' /\ Pending' = library'
    BY <1>1, ReadableNow DEF Readable, Pending, TempInv
  <1>3. ASSUME NEW lib, Begun(lib)
        PROVE  Durable!Begin(lib) /\ lib \in Libraries
    <2>1. /\ temp = NoTemp /\ temp' = [doc |-> lib, stage |-> "written"]
          /\ UNCHANGED <<main, older>> /\ library' = lib /\ lib \in Libraries
      BY <1>3 DEF Begun, Lawful, Ready, Store!Idle, Store!WriteTemp
    <2>2. temp' # NoTemp
      BY <2>1, TempIsSomething DEF Stages
    <2>3. Readable' = Readable \cup {lib} /\ Pending = NoTemp /\ Pending' = lib
      BY <1>1, <1>2, <2>1, <2>2, ReadableNow
    <2> QED
      BY <2>1, <2>3 DEF Durable!Begin, Pending
  <1>4. CASE Handler
    BY <1>3, <1>4, HandlerBegins DEF Durable!Next
  <1>5. ASSUME Store!SyncTemp, library' = library
        PROVE  Readable' = Readable /\ Pending' = Pending
    <2>1. temp # NoTemp /\ UNCHANGED <<main, older>>
      BY <1>5 DEF Store!SyncTemp, Store!At
    <2>2. temp' = [doc |-> library, stage |-> "synced"]
      BY <1>1, <1>5, <2>1, TempRecord DEF Store!SyncTemp
    <2>3. temp' # NoTemp
      BY <1>1, <2>2, TempIsSomething DEF Stages
    <2> QED
      BY <1>1, <1>2, <1>5, <2>1, <2>3, ReadableNow
  <1>6. ASSUME Store!PersistTemp, library' = library
        PROVE  Readable' = Readable /\ Pending' = Pending
    <2>1. temp # NoTemp /\ main' = temp.doc /\ older' = older \cup {main}
      BY <1>6 DEF Store!PersistTemp, Store!At
    <2>2. temp' = [doc |-> library, stage |-> "renamed"] /\ main' = library
      BY <1>1, <1>6, <2>1, TempRecord DEF Store!PersistTemp
    <2>3. temp' # NoTemp
      BY <1>1, <2>2, TempIsSomething DEF Stages
    <2> QED
      BY <1>1, <1>2, <1>6, <2>1, <2>2, <2>3, ReadableNow
  <1>7. ASSUME Store!SyncDirectory(TRUE)
        PROVE  Durable!Commit
    <2>1. /\ temp # NoTemp /\ temp.stage = "renamed"
          /\ temp' = NoTemp /\ older' = {} /\ main' = main
      BY <1>7 DEF Store!SyncDirectory, Store!At
    <2>2. main = library /\ Pending = library
      BY <1>1, <2>1, TempRecord, ReadableNow
    <2>3. Readable' = {Pending} /\ Pending' = NoTemp /\ Pending # NoTemp
      BY <1>1, <1>2, <2>1, <2>2
    <2> QED
      BY <2>3 DEF Durable!Commit, Pending
  <1>8. ASSUME temp' = NoTemp, main' \in older \cup {main}, older' \subseteq older \cup {main}
        PROVE  Durable!Drop
    <2>1. Readable' \subseteq Readable /\ Readable' # {} /\ Pending' = NoTemp
      BY <1>1, <1>2, <1>8, ReadableNow
    <2> QED
      BY <2>1 DEF Durable!Drop, Pending
  <1>9. CASE Store!SyncDirectory(FALSE)
    BY <1>8, <1>9 DEF Store!SyncDirectory, Durable!Next
  <1>10. CASE SaveFails \/ Crash \/ PowerLoss
    <2>1. temp' = NoTemp /\ main' \in older \cup {main} /\ older' \subseteq older
      <3>1. CASE SaveFails
        BY <3>1 DEF SaveFails, Store!FailSave
      <3>2. CASE Crash
        BY <3>2 DEF Crash, Store!LoseProcess
      <3>3. CASE PowerLoss
        BY <3>3 DEF PowerLoss, Store!LosePower, DiskInv
      <3> QED
        BY <1>10, <3>1, <3>2, <3>3
    <2> QED
      BY <1>8, <2>1 DEF Durable!Next
  <1>11. ASSUME NEW content \in Unreadable \cup {Absent},
                temp = NoTemp, temp' = NoTemp, main' = content,
                older' = {} \/ older' = older \cup {main}
         PROVE  Durable!Interfere(content)
    <2>1. /\ Readable' \in {{content}, Readable \cup {content}}
          /\ Pending = NoTemp /\ Pending' = NoTemp
      BY <1>1, <1>2, <1>11, ReadableNow
    <2> QED
      BY <2>1 DEF Durable!Interfere, Pending
  <1>12. ASSUME NEW content \in Unreadable, Damage(content)
         PROVE  Durable!Next
    <2>1. temp = NoTemp /\ temp' = NoTemp /\ main' = content /\ older' = {}
      BY <1>12 DEF Damage, Store!Replace, Store!Idle
    <2> QED
      BY <1>11, <2>1 DEF Durable!Next
  <1>13. ASSUME UNCHANGED <<main, older, temp, library>>
         PROVE  UNCHANGED <<Readable, Pending>>
    BY <1>13 DEF Readable, Pending
  <1>14. CASE StartAfterDamage
    <2>1. PICK ok \in Outcomes : Store!Quarantine(ok)
      BY <1>14 DEF StartAfterDamage
    <2>2. temp = NoTemp /\ temp' = NoTemp
      BY <1>1, <1>14, <2>1 DEF StartAfterDamage, Store!Quarantine, TempInv
    <2>3. CASE ok = TRUE
      <3>1. main' = Absent /\ older' = older \cup {main}
        BY <2>1, <2>3 DEF Store!Quarantine
      <3> QED
        BY <1>11, <2>2, <3>1 DEF Durable!Next
    <2>4. CASE ok = FALSE
      <3>1. main' = main /\ older' = older
        BY <2>1, <2>4 DEF Store!Quarantine
      <3> QED
        BY <2>2, <3>1 DEF Readable, Pending
    <2> QED
      BY <2>3, <2>4 DEF Outcomes
  <1>15. CASE Start
    <2>1. temp = NoTemp /\ UNCHANGED <<main, older, temp>>
      BY <1>1, <1>15, StartLoads DEF disk, TempInv
    <2> QED
      BY <2>1 DEF Readable, Pending
  <1>16. CASE \E c \in Resolutions : FilesMove(c)
    BY <1>13, <1>16 DEF FilesMove, disk
  <1>17. CASE ContinueSave
    <2>1. library' = library /\ (Store!SyncTemp \/ Store!PersistTemp \/ Store!SyncDirectory(TRUE))
      BY <1>17 DEF ContinueSave
    <2> QED
      BY <1>5, <1>6, <1>7, <2>1 DEF Durable!Next
  <1>18. CASE DirectorySyncFails
    BY <1>9, <1>18 DEF DirectorySyncFails
  <1>19. CASE UNCHANGED vars
    BY <1>13, <1>19 DEF vars, disk
  <1> QED
    BY <1>4, <1>10, <1>12, <1>14, <1>15, <1>16, <1>17, <1>18, <1>19 DEF Next, Handler

-----------------------------------------------------------------------------
(* Theorems. *)

\* The bookmark is on its shelf: in memory and in everything a restart may find,
\* after any merges, rollbacks, failed saves, crashes and power losses.
THEOREM BookmarkStaysOnShelf == Spec => [](TypeOK /\ BookmarkOnShelf)
  <1>1. DiskInv => BookmarkOnShelf
    BY ContentsAssumption DEF DiskInv, BookmarkOnShelf, Sound, Lawful
  <1>2. DiskInv => TypeOK
    BY DEF DiskInv, TypeOK, Sound, Lawful, TempInv
  <1> QED
    BY <1>1, <1>2, InitDisk, DiskStep, PTL DEF Spec

\* The steps of write_atomic, with what may stop them, are an atomic save: a
\* restart finds the last acknowledged shelf or the one being saved.
THEOREM SavesAreAtomic == Spec => SaveIsAtomic
  <1>1. DiskInv /\ [Next]_vars => [Durable!Next]_<<Readable, Pending>>
    BY StepIsDurable
  <1> QED
    BY <1>1, InitDisk, DiskStep, InitIsDurable, PTL DEF Spec, SaveIsAtomic, Durable!Spec, Pending

\* Whatever is done with the shelf, a file this build cannot read is still there,
\* aside, unless its rename failed.
THEOREM UnreadableIsKept == ~ QuarantineMayFail => (Spec => UnreadableKept)
  <1> SUFFICES ASSUME ~ QuarantineMayFail PROVE Spec => UnreadableKept
    OBVIOUS
  <1>1. ASSUME DiskInv, [Next]_vars, main \in Unreadable, main' # main
        PROVE  main \in aside' \/ \E content \in Unreadable : Damage(content)
    <2>1. ~ running
      BY <1>1 DEF DiskInv
    <2>2. \/ \E content \in Unreadable : Damage(content)
          \/ Start \/ StartAfterDamage \/ \E c \in Resolutions : FilesMove(c)
      BY <1>1, <2>1
      DEF Next, vars, disk, AddBooks, OpenBook, LeavePoint, CountResolved, RemoveBooks,
          RemoveEmptyBook, ClearHistory, Saving, Ready, ContinueSave, DirectorySyncFails,
          SaveFails, Crash, PowerLoss
    <2>3. StartAfterDamage => main \in aside'
      BY DEF StartAfterDamage, Outcomes, Store!Quarantine
    <2> QED
      BY <1>1, <2>2, <2>3 DEF Start, FilesMove, disk
  <1>2. DiskInv /\ [Next]_vars =>
          [(main \in Unreadable /\ main' # main) =>
             main \in aside' \/ \E content \in Unreadable : Damage(content)]_vars
    BY <1>1
  <1> QED
    BY <1>2, InitDisk, DiskStep, PTL DEF Spec, UnreadableKept

\* An opened book resumes inside the pages it has now, whatever was stored.
THEOREM OpensInsideTheBook == Spec => OpenedResumeInBook
  <1>1. ASSUME DiskInv, NEW p \in Paths, NEW n \in PageCounts, OpenBook(p, n)
        PROVE  library'.books[p].resume < library'.books[p].count
    <2>1. Lawful(library) /\ library' = register_opened(library, p, n)
      BY <1>1 DEF DiskInv, OpenBook, Saving
    <2> QED
      BY <2>1, RegisteredIsLawful
  <1>2. DiskInv /\ [Next]_vars =>
          [\A p \in Paths, n \in PageCounts : OpenBook(p, n) =>
             library'.books[p].resume < library'.books[p].count]_vars
    BY <1>1
  <1> QED
    BY <1>2, InitDisk, DiskStep, PTL DEF Spec, OpenedResumeInBook

\* A removal whose save fails leaves the shelf as it found it.
THEOREM RemovalsAreUndone == Spec => RemovalUndone
  <1>1. ASSUME DiskInv, NEW paths \in SUBSET Paths, RemoveBooks(paths)
        PROVE  GivenBack' = library
    <2>1. Lawful(library) /\ paths \subseteq Shelf(library)
      BY <1>1 DEF DiskInv, RemoveBooks
    <2>2. /\ library' = remove_many(library, paths)
          /\ undo'.books = [p \in paths |-> library.books[p]] /\ undo'.last = library.last
      BY <1>1 DEF RemoveBooks
    <2> QED
      BY <2>1, <2>2, RemovalInverts DEF GivenBack
  <1>2. ContinueSave \/ DirectorySyncFails => GivenBack' = GivenBack
    BY DEF ContinueSave, DirectorySyncFails, GivenBack
  <1>3. SaveFails => library' = GivenBack
    BY DEF SaveFails, GivenBack
  <1>4. DiskInv /\ [Next]_vars =>
          [/\ \A paths \in SUBSET Paths : RemoveBooks(paths) => GivenBack' = library
           /\ ContinueSave \/ DirectorySyncFails => GivenBack' = GivenBack
           /\ SaveFails => library' = GivenBack]_vars
    BY <1>1, <1>2, <1>3
  <1> QED
    BY <1>4, InitDisk, DiskStep, PTL DEF Spec, RemovalUndone

\* A load brings the records of one file together and loses neither the bookmark
\* nor a page that was read, in whatever order the shelf kept them.
THEOREM LoadsHeal == Spec => LoadHeals
  <1>1. ASSUME DiskInv, Start, main # Absent
        PROVE  /\ \A p, q \in Shelf(library') : canon[p] = canon[q] => p = q
               /\ library'.last = IF main.last = NoPath THEN NoPath ELSE canon[main.last]
               /\ \A p \in Shelf(main) :
                    LET survivor == library'.books[canon[p]]
                    IN  survivor.resume >= Clamped(main.books[p].resume, survivor.count)
    <2>1. Lawful(main) /\ Healed(main, canon, library')
      BY <1>1, StartLoads
    <2>2. Shelf(main) \subseteq Paths /\ \A p \in Paths : canon[canon[p]] = canon[p]
      BY <1>1, <2>1, ShelfOf DEF Lawful, DiskInv, Resolutions
    <2>3. \A p, q \in Shelf(library') : canon[p] = canon[q] => p = q
      BY <2>1, <2>2 DEF Healed
    <2> QED
      BY <2>1, <2>3 DEF Healed
  <1>2. DiskInv /\ [Next]_vars =>
          [Start /\ main # Absent =>
             /\ \A p, q \in Shelf(library') : canon[p] = canon[q] => p = q
             /\ library'.last = IF main.last = NoPath THEN NoPath ELSE canon[main.last]
             /\ \A p \in Shelf(main) :
                  LET survivor == library'.books[canon[p]]
                  IN  survivor.resume >= Clamped(main.books[p].resume, survivor.count)]_vars
    BY <1>1
  <1> QED
    BY <1>2, InitDisk, DiskStep, PTL DEF Spec, LoadHeals
=============================================================================
