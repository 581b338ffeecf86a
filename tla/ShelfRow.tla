------------------------------ MODULE ShelfRow ------------------------------
(***************************************************************************)
(* What a row of the library shows and what a query finds:                 *)
(* reading_progress.rs, search.rs and display_title in library.rs of       *)
(* crates/gashuu-core/src, and carousel_data_for_book in                   *)
(* crates/gashuu/src/library_model.rs.  A text is a sequence of code       *)
(* points, of which the letters A to Z have a lower case.                  *)
(***************************************************************************)
EXTENDS SpreadPairing, Sequences, SequencesExt

Unknown == 0        \* a page count that is None

\* ReadingProgress::new.
Progress(last_viewed, total) ==
  [last_viewed |-> IF total = Unknown THEN last_viewed ELSE AtMost(last_viewed, total - 1),
   total |-> total]

\* ReadingProgress::fraction, as a numerator over a denominator.
fraction(p) ==
  IF p.total > 1 THEN [num |-> AtMost(p.last_viewed, p.total - 1), den |-> p.total - 1]
  ELSE [num |-> 0, den |-> 1]

is_finished(p) == p.total > 1 /\ p.last_viewed >= p.total - 1

\* A path is [parent, stem, ext, is_dir]; the root has an empty stem and extension.
file_name(path) == path.stem \o path.ext
Lossy(path) == path.parent \o <<47>> \o file_name(path)

display_title(path) ==
  LET name == IF path.is_dir THEN file_name(path) ELSE path.stem
  IN  IF name = <<>> THEN Lossy(path) ELSE name

ToLower(text) == [i \in DOMAIN text |-> IF text[i] \in 65 .. 90 THEN text[i] + 32 ELSE text[i]]

OccursIn(needle, text) ==
  \E i \in 0 .. Len(text) - Len(needle) : SubSeq(text, i + 1, i + Len(needle)) = needle

book_matches(path, query) ==
  \/ query = <<>>
  \/ OccursIn(ToLower(query), ToLower(display_title(path)))
  \/ OccursIn(ToLower(query), ToLower(Lossy(path)))

\* carousel_data_for_book: pages from 1, an unknown count shown as 0.
carousel_data(resume_page, page_count, bookmarked) ==
  LET p == Progress(resume_page, page_count)
  IN  [current |-> p.last_viewed + 1, total |-> p.total, progress |-> fraction(p),
       bookmarked |-> bookmarked]
=============================================================================
