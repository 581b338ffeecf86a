----------------------------- MODULE CacheFiles ------------------------------
(***************************************************************************)
(* The sweeps of the thumbnail cache directory, file by file, and the two  *)
(* places of the settings dialog that ask for one: thumbnail_cache.rs of   *)
(* crates/gashuu-core/src and handlers/settings.rs of crates/gashuu/src.   *)
(* Thumbnails has the cache entries as its users see them; here are their  *)
(* sizes and ages, the files of older builds and of writes that were       *)
(* interrupted, and what must not be touched.                              *)
(* A file is [name, temp, ext, regular, size, mtime, held]: temp is a name *)
(* that starts with .tmp, held says that unlinking it fails.  A sweep is   *)
(* [removed, retained_bytes].                                              *)
(***************************************************************************)
EXTENDS Integers, FiniteSets, Sequences, SequencesExt

TMP_STALE_SECS == 60 * 60

Bytes(files) == FoldSet(LAMBDA f, n : n + f.size, 0, files)
Report(removed) == [removed_files |-> Cardinality(removed), removed_bytes |-> Bytes(removed)]

\* Regular files of the directory itself; one that cannot be read has none.
for_each_cache_file(dir) == {f \in dir : f.regular}

is_owned_cache_file_name(f) == f.temp \/ f.ext \in {"qoi", "png"}

clear(dir) == {f \in for_each_cache_file(dir) : is_owned_cache_file_name(f) /\ ~f.held}

\* A write in progress is young; a time that far ahead of the clock is no better
\* than one that far behind.
IsStale(f, now) == f.mtime - now >= TMP_STALE_SECS \/ now - f.mtime >= TMP_STALE_SECS

\* Leftovers go first, whatever the budget; then thumbnails, oldest first, until
\* the rest fits.  One that cannot be unlinked is passed over and stays counted.
prune(dir, max_bytes, now) ==
  LET files == for_each_cache_file(dir)
      leftovers == {f \in files : ~f.held /\ IF f.temp THEN IsStale(f, now) ELSE f.ext = "png"}
      entries == {f \in files : ~f.temp /\ f.ext = "qoi"}
      order == SetToSortSeq(entries, LAMBDA a, b :
                              a.mtime < b.mtime \/ (a.mtime = b.mtime /\ a.name < b.name))
      Evict(swept, f) ==
        IF swept.retained_bytes > max_bytes /\ ~f.held
          THEN [removed |-> swept.removed \cup {f}, retained_bytes |-> swept.retained_bytes - f.size]
          ELSE swept
  IN  FoldLeft(Evict, [removed |-> leftovers, retained_bytes |-> Bytes(entries)], order)

\* Clearing the history clears the covers too, but only once the emptied library
\* is on disk; opened says that the cache directory could be resolved.
clear_thumbnail_cache_after_library_save(library_saved, opened, dir) ==
  IF library_saved /\ opened THEN dir \ clear(dir) ELSE dir

on_clear_cover_cache(opened, dir) ==
  IF opened THEN [status |-> Report(clear(dir)), dir |-> dir \ clear(dir)]
  ELSE [status |-> "cover_cache_clear_failed", dir |-> dir]
=============================================================================
