---------------------------- MODULE PageSources -----------------------------
(***************************************************************************)
(* Which entries of a folder or an archive are pages, in which order, and  *)
(* what a later read by page index returns: the page sources of            *)
(* crates/gashuu-core/src/page_source/ and the loader that picks one       *)
(* (archive_loader.rs).                                                    *)
(*                                                                         *)
(* An entry is a record: path is the sequence of its components, name the  *)
(* rank of that path in natural order (NaturalOrder), declared and actual  *)
(* are sizes, data its content.  A source remembers where each page was    *)
(* when it was opened; the file is opened again by every read, and may     *)
(* hold other entries by then.                                             *)
(***************************************************************************)
EXTENDS Integers, Sequences, FiniteSets, SequencesExt

Formats == {"folder", "zip", "rar"}

\* Components stand for their kind: a root or prefix, the parent and the current
\* directory, macOS's resource tree, any directory, and files of three kinds.
Root == "/"
Parent == ".."
Current == "."
ImageNames == {"page.png", "._page.png"}
Dotted == {"._page.png"}
Components ==
  {Root, Parent, Current, "__MACOSX", "dir", "notes.txt"} \cup ImageNames

has_image_ext(path) == path # <<>> /\ Last(path) \in ImageNames

is_macos_metadata(path) ==
  \/ path # <<>> /\ Last(path) \in Dotted
  \/ \E i \in DOMAIN path : path[i] = "__MACOSX"

\* A name that leaves the base directory is refused; else what it resolves to.
NoName == <<Root>>
enclosed_name(path) ==
  IF \E i \in DOMAIN path : path[i] \in {Root, Parent} THEN NoName
  ELSE SelectSeq(path, LAMBDA c : c # Current)

\* Membership comes before size: an oversized non-image is never a skip.
classify_entry(path, dir, declared, max) ==
  IF dir \/ ~has_image_ext(path) \/ is_macos_metadata(path) THEN "Ignore"
  ELSE IF declared > max THEN "Skip"
  ELSE "Page"

\* The buffer reserved for an entry never follows what its header claims.
initial_capacity(declared, limit) == IF declared < limit THEN declared ELSE limit

\* The read is cut one byte past the limit; anything longer is an error.
cap_or_reject(e, max) == IF e.actual > max THEN "EntryTooLarge" ELSE e.data

\* RAR cannot cut the read: the whole entry is measured afterwards.
reject_over_actual(e, max) == IF e.actual > max THEN "EntryTooLarge" ELSE e.data

\* A refused name is a skip when it looks like an image and noise otherwise.
ArchiveClass(e, max) ==
  LET safe == enclosed_name(e.path)
  IN  IF safe # NoName THEN classify_entry(safe, e.dir, e.declared, max)
      ELSE IF has_image_ext(e.path) THEN "Skip" ELSE "Ignore"

zip_class(e, max) == IF ~e.readable THEN "Skip" ELSE ArchiveClass(e, max)
rar_class(e, max) == IF e.dir THEN "Ignore" ELSE ArchiveClass(e, max)

folder_class(e, max) ==
  IF ~e.readable THEN "Skip"
  ELSE IF e.dir \/ ~has_image_ext(e.path) \/ is_macos_metadata(e.path) THEN "Ignore"
  ELSE IF e.declared <= max THEN "Page"
  ELSE "Skip"

class(format, e, max) ==
  CASE format = "zip" -> zip_class(e, max)
    [] format = "rar" -> rar_class(e, max)
    [] OTHER -> folder_class(e, max)

\* The first damaged header ends a RAR listing for good.
Damaged(entries) == {i \in DOMAIN entries : ~entries[i].readable}
Listed(format, entries) ==
  IF format = "rar" /\ Damaged(entries) # {}
    THEN SubSeq(entries, 1, (CHOOSE i \in Damaged(entries) :
                               \A j \in Damaged(entries) : i <= j) - 1)
  ELSE entries

\* open_with_limit: entries.sort_by is stable, so equal names keep the order
\* of the archive.
Source(format, entries, max) ==
  LET seen == Listed(format, entries)
      of(kind) == {i \in DOMAIN seen : class(format, seen[i], max) = kind}
      before(i, j) == \/ seen[i].name < seen[j].name
                      \/ seen[i].name = seen[j].name /\ i < j
      order == SetToSortSeq(of("Page"), before)
  IN  [format |-> format, max |-> max,
       pages |-> [k \in DOMAIN order |->
                    [at |-> order[k], name |-> seen[order[k]].name]],
       skipped |-> Cardinality(of("Skip")),
       truncated |-> format = "rar" /\ Damaged(entries) # {}]

list_pages(source) == [k \in DOMAIN source.pages |-> source.pages[k].name]

\* By index into the central directory.
zip_read(page, now, max) ==
  IF page.at \notin DOMAIN now \/ ~now[page.at].readable THEN "Error"
  ELSE cap_or_reject(now[page.at], max)

\* By walking the headers again; the file may be shorter than it was listed.
rar_read(page, now, max) ==
  IF \E i \in Damaged(now) : i <= page.at THEN "Error"
  ELSE IF page.at \notin DOMAIN now THEN "IndexOutOfRange"
  ELSE IF now[page.at].declared > max THEN "EntryTooLarge"
  ELSE reject_over_actual(now[page.at], max)

\* By path: whatever file has that name now.
folder_read(page, now, max) ==
  LET same == {i \in DOMAIN now :
                 now[i].name = page.name /\ now[i].readable /\ ~now[i].dir}
  IN  IF same = {} THEN "Error"
      ELSE cap_or_reject(now[CHOOSE i \in same : TRUE], max)

\* read_bytes(index), of the file as it is now.
read_bytes(source, now, index) ==
  IF index + 1 \notin DOMAIN source.pages THEN "IndexOutOfRange"
  ELSE LET page == source.pages[index + 1]
       IN  CASE source.format = "zip" -> zip_read(page, now, source.max)
             [] source.format = "rar" -> rar_read(page, now, source.max)
             [] OTHER -> folder_read(page, now, source.max)

-----------------------------------------------------------------------------
(* archive_loader.rs: a path is [utf8, dir, ext, magic, opens, entries];    *)
(* ext and magic are "zip", "rar" or "none", magic is "unreadable" when the *)
(* first bytes cannot be read, opens is whether the container's own header  *)
(* can be.  The entries of a folder that cannot be listed are one walk      *)
(* error: FolderSource::open itself never fails.                            *)

ext_kind(path) == path.ext
magic_kind(path) == path.magic

\* The extension decides without reading; the first bytes are the fallback.
Kind(path) == IF ext_kind(path) # "none" THEN ext_kind(path) ELSE magic_kind(path)

\* open_with_policy: an error, or the format the path opens as.
OpenAs(path, allow_rar) ==
  CASE ~path.utf8 -> "NonUtf8Path"
    [] path.utf8 /\ path.dir -> "folder"
    [] path.utf8 /\ ~path.dir ->
         CASE Kind(path) = "unreadable" -> "Io"
           [] Kind(path) = "none" -> "UnsupportedFormat"
           [] Kind(path) = "rar" /\ ~allow_rar -> "FormatDisabled"
           [] Kind(path) \in Formats /\ (Kind(path) = "zip" \/ allow_rar) ->
                IF path.opens THEN Kind(path) ELSE "Archive"

OpenErrors ==
  {"NonUtf8Path", "FormatDisabled", "UnsupportedFormat", "Io", "Archive"}

\* probe_page_count_with_policy: an error, or a count that is never zero.
probe_page_count(path, allow_rar, max) ==
  LET format == OpenAs(path, allow_rar)
      count == Len(list_pages(Source(format, path.entries, max)))
  IN  IF format \in OpenErrors THEN format
      ELSE IF count = 0 THEN "EmptyBook"
      ELSE count

\* probe_open: the worker's half of an open.  No count is asked here: a source
\* without a page opens, and is rejected when it lands.
probe_open(path, allow_rar, max) ==
  LET format == OpenAs(path, allow_rar)
      source == Source(format, path.entries, max)
  IN  IF format \in OpenErrors THEN [kind |-> "Failed", error |-> format]
      ELSE [kind |-> "Opened", source |-> source, skipped |-> source.skipped,
            truncated |-> source.truncated, is_dir |-> path.dir]

ProbeKind == {"Counted", "Empty", "FormatDisabled", "Unreadable"}

\* probe_path: the same file as one of the picked files of an add.
probe_path(path, allow_rar, max) ==
  LET format == OpenAs(path, allow_rar)
  IN  IF format = "FormatDisabled" THEN "FormatDisabled"
      ELSE IF format \in OpenErrors THEN "Unreadable"
      ELSE IF list_pages(Source(format, path.entries, max)) = <<>> THEN "Empty"
      ELSE "Counted"
=============================================================================
