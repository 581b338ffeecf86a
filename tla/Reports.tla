------------------------------- MODULE Reports -------------------------------
(***************************************************************************)
(* What the reader is told.  An open, an add, a removal do several things, *)
(* each of which may fail alone; these operators are the outcomes the use  *)
(* cases return (open_book.rs, add_books.rs, remove_books.rs) and the text *)
(* the UI makes of them (finalize_open in main.rs, carousel_refresh.rs).   *)
(* A text is the list of its parts; each part is its message id.           *)
(***************************************************************************)
EXTENDS Integers, Sequences, FiniteSets

CONSTANT CONFIRM_DELETE_LIST_CAP    \* titles the delete dialog lists

ASSUME CapAssumption == CONFIRM_DELETE_LIST_CAP \in Nat

\* Result<(), CoreError> of a save, and a settings save that was not attempted.
Saves == {"ok", "failed"}
Untracked == "untracked"

\* An open: what the probe found and how each save that is due turns out.
Opens ==
  [probe : {"opened", "failed"}, pages : 0 .. 1, is_dir : BOOLEAN, skipped : 0 .. 1,
   truncated : BOOLEAN, known : BOOLEAN,
   leave : Saves, settings : Saves \cup {Untracked}, library : Saves]

When(condition, part) == IF condition THEN <<part>> ELSE <<>>

-----------------------------------------------------------------------------
(* Opening a book. *)

notices_content(o) ==
  [listing_truncated |-> o.truncated, skipped |-> o.skipped,
   skipped_detail |-> IF o.is_dir THEN "none" ELSE "archive",
   leave_save_err |-> o.leave = "failed", settings_save_err |-> o.settings = "failed",
   library_save_err |-> o.library = "failed"]

\* Nothing is saved when there was no such book.
remove_empty_book_with(known, library) ==
  [outcome |-> "EmptyBookRejected", removed |-> known,
   save_error |-> known /\ library = "failed"]

apply_probed(o) ==
  IF o.probe = "failed" THEN [outcome |-> "Error"]
  ELSE IF o.pages = 0 THEN remove_empty_book_with(o.known, o.library)
  ELSE [outcome |-> "Success", notices |-> notices_content(o)]

format_notices(n) ==
  When(n.listing_truncated, "listing_truncated")
    \o When(n.skipped > 0, "entries_skipped")
    \o When(n.leave_save_err, "failed_save_library")
    \o When(n.settings_save_err, "failed_save_settings")
    \o When(n.library_save_err, "failed_save_library")

empty_book_removed_status(save_error) ==
  <<"empty_book_removed">> \o When(save_error, "failed_save_library")

\* The status line after the open; `spread` is what refresh puts there first.
finalize_open(status, spread, result) ==
  CASE result.outcome = "Error" -> <<"open_error">>
    [] result.outcome = "Success" -> spread \o format_notices(result.notices)
    [] OTHER -> IF result.removed THEN empty_book_removed_status(result.save_error) ELSE status

\* apply_spread_geometry, when the pages a refresh had to wait for are decoded.
spread_anchored(status, spread) == spread

-----------------------------------------------------------------------------
(* Adding books. *)

select_add_notice(added, skipped) ==
  CASE added = 0 /\ skipped = 0 -> "already_in_library"
    [] added = 0 /\ skipped > 0 -> "no_books_added_empty"
    [] added > 0 /\ skipped = 0 -> "added_books"
    [] OTHER -> "added_books_skipped"

\* The strip takes what is neutral, the toast what went wrong; each clears the other.
set_status_strip(text) == [strip |-> <<text>>, toast |-> <<>>]
set_add_toast(text) == [strip |-> <<>>, toast |-> <<text>>]

apply_add_report(added, skipped, save) ==
  LET notice == select_add_notice(added, skipped) IN
  IF added > 0 /\ save = "failed" THEN set_add_toast("added_books_save_failed")
  ELSE IF notice \in {"no_books_added_empty", "added_books_skipped"} THEN set_add_toast(notice)
  ELSE set_status_strip(notice)

-----------------------------------------------------------------------------
(* Removing books. *)

\* The dialog that asks: the titles it can name, what it says of the rest, and
\* whether it warns about the open book.
confirm_delete_content(selection, visible, shelf, open_file) ==
  LET count == Cardinality(selection)
      named == Cardinality(selection \cap shelf)
  IN  [title |-> count,
       titles |-> IF named <= CONFIRM_DELETE_LIST_CAP THEN named ELSE CONFIRM_DELETE_LIST_CAP,
       more |-> IF count > CONFIRM_DELETE_LIST_CAP THEN count - CONFIRM_DELETE_LIST_CAP ELSE 0,
       outside_search |-> count - Cardinality(selection \cap visible),
       warning |-> open_file \in selection]

\* What confirming it removes, and the count the notice gives afterwards.
removed_by(selection, shelf) == selection \cap shelf
=============================================================================
