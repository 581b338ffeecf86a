------------------------------ MODULE Startup -------------------------------
(***************************************************************************)
(* How a start of the program reads settings.json: parse_versioned_object  *)
(* and quarantine_file of persist.rs, the load of settings_store.rs,       *)
(* migrate and from_json of settings.rs in crates/gashuu-core/src, and     *)
(* load_or_default and repair_settings_file_if_needed in main.rs.  The     *)
(* number of pages to preload stands for the fields.                       *)
(* A file is Missing, or [body, version, preload, canonical]; canonical    *)
(* says that no byte differs from what to_json would write for its values. *)
(* The start maps s = [file, aside, settings, notices] to its next value;  *)
(* can says which of its system calls succeed.                             *)
(***************************************************************************)
EXTENDS Integers, Sequences

CONSTANTS SETTINGS_VERSION, MAX_PREFETCH_RADIUS

DEFAULT_PREFETCH_RADIUS == 3
MaxU32 == 9                \* u32::MAX, scaled down

Missing == [body |-> "missing"]
Absent == -1               \* a field that is not there
Mistyped == -2             \* a field of the wrong type

Default == DEFAULT_PREFETCH_RADIUS
normalize(preload) == IF preload > MAX_PREFETCH_RADIUS THEN MAX_PREFETCH_RADIUS ELSE preload

to_json(preload) ==
  [body |-> "object", version |-> SETTINGS_VERSION, preload |-> preload, canonical |-> TRUE]

-----------------------------------------------------------------------------
(* from_json: Ok(preload) or an error. *)

Ok(v) == [ok |-> v]
Err(e) == [err |-> e]
IsOk(result) == "ok" \in DOMAIN result

\* A version that is no u32 counts as none.
Version(file) == IF file.version \in 0 .. MaxU32 THEN file.version ELSE 0

VersionedDocument == {"Ready", "FromFuture"}
parse_versioned_object(file) ==
  IF file.body # "object" THEN "error"
  ELSE IF Version(file) > SETTINGS_VERSION THEN "FromFuture" ELSE "Ready"

migrate(file) ==
  IF Version(file) = 0 /\ file.preload = Absent
    THEN [file EXCEPT !.version = SETTINGS_VERSION, !.preload = DEFAULT_PREFETCH_RADIUS]
    ELSE [file EXCEPT !.version = SETTINGS_VERSION]

from_json(file) ==
  LET preload == migrate(file).preload
  IN  IF parse_versioned_object(file) = "error" THEN Err("Settings")
      ELSE IF parse_versioned_object(file) = "FromFuture" THEN Err("FutureSchema")
      ELSE IF preload = Mistyped THEN Err("Settings")
      ELSE Ok(normalize(IF preload = Absent THEN DEFAULT_PREFETCH_RADIUS ELSE preload))

\* SettingsStore::load; a body of "unreadable" is a file read_to_string refuses.
load(file) ==
  CASE file.body = "missing" -> Ok(Default)
    [] file.body = "unreadable" -> Err("Io")
    [] OTHER -> from_json(file)

-----------------------------------------------------------------------------
(* main. *)

\* quarantine_file renames the file aside, or leaves it where it is.
quarantine_load_failure(s, can) ==
  IF can.rename
    THEN [s EXCEPT !.file = Missing, !.aside = @ \cup {s.file},
                   !.notices = Append(@, "settings, kept aside")]
    ELSE [s EXCEPT !.notices = Append(@, "settings")]

\* Without a store there is nothing to read.
load_or_default(s, can) ==
  LET defaults == [s EXCEPT !.settings = Default]
  IN  IF ~can.resolve THEN [defaults EXCEPT !.notices = Append(@, "settings")]
      ELSE IF IsOk(load(s.file)) THEN [s EXCEPT !.settings = load(s.file).ok]
      ELSE quarantine_load_failure(defaults, can)

\* Whatever is there by now and is not what a save would write.
repair_settings_file_if_needed(s, can) ==
  IF ~can.resolve \/ s.file = Missing \/ s.file = to_json(s.settings) THEN s
  ELSE IF can.save THEN [s EXCEPT !.file = to_json(s.settings)]
  ELSE [s EXCEPT !.notices = Append(@, "settings rewrite")]

\* The part of main before the first window.
start(file, can) ==
  repair_settings_file_if_needed(
    load_or_default([file |-> file, aside |-> {}, settings |-> Default, notices |-> <<>>], can),
    can)
=============================================================================
