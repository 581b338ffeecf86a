------------------------------ MODULE Library ------------------------------
(***************************************************************************)
(* The shelf of crates/gashuu-core/src/library.rs as a value and the       *)
(* operations on it.  A library is [books, last]: books maps each stored   *)
(* path to its record, last is the bookmark (last_opened).  Titles are     *)
(* left out: they only give the Vec its order, which matters where a load  *)
(* merges records and is a parameter there.  View overrides, which travel  *)
(* with a record as a page count does, are modelled in BookSession.        *)
(***************************************************************************)
EXTENDS Integers

CONSTANTS
  Paths,        \* spellings of file names a book can be stored under
  NoPath,       \* last_opened is None
  PageCounts    \* page counts a probe may find

ASSUME NoPathAssumption == NoPath \notin Paths
ASSUME PageCountsAssumption == PageCounts \subseteq Nat \ {0}

Unknown == 0      \* page_count is None: page_count_serde writes it as 0

Resumes == {0} \cup UNION {0 .. n - 1 : n \in PageCounts}

Records == [resume : Resumes, count : PageCounts \cup {Unknown}]

Libraries ==
  [books : UNION {[shelf -> Records] : shelf \in SUBSET Paths},
   last : Paths \cup {NoPath}]

Shelf(lib) == DOMAIN lib.books
EmptyLibrary == [books |-> [p \in {} |-> 0], last |-> NoPath]

\* Book::from_path.
NewBook == [resume |-> 0, count |-> Unknown]

-----------------------------------------------------------------------------
(* Queries and updates of one book. *)

LesserOf(m, n) == IF m <= n THEN m ELSE n

\* set_page_count's repair: a resume page stays inside a known count.
Clamped(resume, count) ==
  IF count = Unknown THEN resume ELSE LesserOf(resume, count - 1)

\* The bookmark is offered only while its book is on the shelf.
bookmark(lib) == IF lib.last \in Shelf(lib) THEN lib.last ELSE NoPath

\* The library with the record of p replaced; an absent p changes nothing.
Updated(lib, p, record) ==
  IF p \notin Shelf(lib) THEN lib ELSE [lib EXCEPT !.books[p] = record]

set_page_count(lib, p, n) ==
  Updated(lib, p, [lib.books[p] EXCEPT !.count = n, !.resume = Clamped(@, n)])

set_resume_page(lib, p, page) == Updated(lib, p, [lib.books[p] EXCEPT !.resume = page])

-----------------------------------------------------------------------------
(* The shelf. *)

\* add and add_many: a path already stored keeps its record.
add_many(lib, canonicals) ==
  [lib EXCEPT !.books = [p \in Shelf(lib) \cup canonicals |->
                           IF p \in Shelf(lib) THEN lib.books[p] ELSE NewBook]]

\* A plausible slip: a book that shrank keeps a resume page past its end.
register_opened_NoRepair(lib, canonical, n) ==
  LET shelved == add_many(lib, {canonical})
  IN  [shelved EXCEPT !.books[canonical].count = n, !.last = canonical]

register_opened(lib, canonical, n) ==
  [set_page_count(add_many(lib, {canonical}), canonical, n) EXCEPT !.last = canonical]

\* A plausible slip: the bookmark outlives its book.
remove_many_KeepBookmark(lib, paths) ==
  [lib EXCEPT !.books = [p \in Shelf(lib) \ paths |-> lib.books[p]]]

\* remove and remove_many.
remove_many(lib, paths) ==
  [books |-> [p \in Shelf(lib) \ paths |-> lib.books[p]],
   last |-> IF lib.last \in paths THEN NoPath ELSE lib.last]

\* A plausible slip: the books are added again, with the records of new ones.
restore_AsNewBooks(lib, removed, last) ==
  LET shelf == Shelf(lib) \cup DOMAIN removed
  IN  [books |-> [p \in shelf |-> IF p \in Shelf(lib) THEN lib.books[p] ELSE NewBook],
       last |-> IF last \in shelf THEN last ELSE lib.last]

\* restore: whole records come back, never over one that is there already.
restore(lib, removed, last) ==
  LET shelf == Shelf(lib) \cup DOMAIN removed
  IN  [books |-> [p \in shelf |->
                    IF p \in Shelf(lib) THEN lib.books[p] ELSE removed[p]],
       last |-> IF last \in shelf THEN last ELSE lib.last]

-----------------------------------------------------------------------------
(* Loading.  canon is canonical_identity at the time of the load: the path *)
(* itself when the file is missing or its canonical form is not UTF-8.     *)

\* The first of some stored books in book_order, which ranks the paths.
First(S, order) == CHOOSE p \in S : \A q \in S : order[p] <= order[q]

\* The members of one resolution group: stored under paths of one file.
Group(books, canon, key) == {p \in DOMAIN books : canon[p] = key}

Largest(S) == CHOOSE n \in S : \A m \in S : m <= n

\* merge_group.
merge_group(books, S, order) ==
  LET counted == {p \in S : books[p].count # Unknown}
      count == IF counted = {} THEN Unknown ELSE books[First(counted, order)].count
  IN  [resume |-> Clamped(Largest({books[p].resume : p \in S}), count),
       count |-> count]

Survivors(books, canon, order) ==
  [key \in {canon[p] : p \in DOMAIN books} |->
     merge_group(books, Group(books, canon, key), order)]

\* A plausible slip: the bookmark is not carried to the survivor.
recanonicalize_and_merge_NoRemap(lib, canon, order) ==
  [lib EXCEPT !.books = Survivors(@, canon, order)]

recanonicalize_and_merge(lib, canon, order) ==
  [books |-> Survivors(lib.books, canon, order),
   last |-> IF lib.last \in Shelf(lib) THEN canon[lib.last] ELSE lib.last]

\* normalize: a bookmark without its book is dropped.
normalize(lib) == [lib EXCEPT !.last = IF @ \in Shelf(lib) THEN @ ELSE NoPath]

from_json(document, canon, order) ==
  normalize(recanonicalize_and_merge(document, canon, order))
=============================================================================
