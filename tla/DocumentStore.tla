--------------------------- MODULE DocumentStore ---------------------------
(***************************************************************************)
(* One persisted JSON document: atomic_write.rs, persist.rs and the stores *)
(* of crates/gashuu-core/src, with the process and the machine failing     *)
(* between any two of their system calls.  The operators are the steps; a  *)
(* module that uses the store says when the program takes them.            *)
(***************************************************************************)

CONSTANTS
  Documents,    \* documents of this build's schema
  Unreadable,   \* corrupt contents, and documents of a newer schema
  Absent,       \* no file
  Torn,         \* a file whose data never reached the disk
  NoTemp        \* no temporary file

VARIABLES
  main,         \* what the target name shows
  flushed,      \* whether the data behind it is on disk
  older,        \* what a power failure may still uncover under the name
  temp,         \* the temporary file of a running save
  aside         \* quarantined contents

store == <<main, flushed, older, temp, aside>>

Contents == Documents \cup Unreadable \cup {Absent, Torn}

StoreTypeOK ==
  /\ main \in Contents /\ older \subseteq Contents
  /\ flushed \in BOOLEAN
  /\ temp \in {NoTemp} \cup [doc : Documents, stage : {"written", "synced", "renamed"}]
  /\ aside \subseteq Unreadable \cup {Torn}

StoreInit(content) ==
  /\ main = content /\ older = {} /\ flushed = TRUE
  /\ temp = NoTemp /\ aside = {}

-----------------------------------------------------------------------------
(* write_atomic. *)

Idle == temp = NoTemp

\* create_dir_all, NamedTempFile::new_in, write_all and flush.
WriteTemp(d) ==
  /\ Idle
  /\ temp' = [doc |-> d, stage |-> "written"]
  /\ UNCHANGED <<main, flushed, older, aside>>

At(stage) == temp # NoTemp /\ temp.stage = stage

SyncTemp ==
  /\ At("written")
  /\ temp' = [temp EXCEPT !.stage = "synced"]
  /\ UNCHANGED <<main, flushed, older, aside>>

\* A plausible slip: the rename does not wait for sync_all.
PersistTemp_Unsynced ==
  /\ At("written") \/ At("synced")
  /\ temp' = [temp EXCEPT !.stage = "renamed"]
  /\ main' = temp.doc
  /\ flushed' = At("synced")
  /\ older' = older \cup {main}
  /\ UNCHANGED aside

\* NamedTempFile::persist renames it over the target.
PersistTemp ==
  /\ At("synced")
  /\ temp' = [temp EXCEPT !.stage = "renamed"]
  /\ main' = temp.doc
  /\ flushed' = TRUE
  /\ older' = older \cup {main}
  /\ UNCHANGED aside

\* The directory's own sync is best effort: ok or not, the save returns Ok.
SyncDirectory(ok) ==
  /\ At("renamed")
  /\ temp' = NoTemp
  /\ older' = IF ok THEN {} ELSE older
  /\ UNCHANGED <<main, flushed, aside>>

\* A failed call returns the error; dropping a NamedTempFile removes it.
FailSave ==
  /\ At("written") \/ At("synced")
  /\ temp' = NoTemp
  /\ UNCHANGED <<main, flushed, older, aside>>

-----------------------------------------------------------------------------
(* The outside. *)

\* The process dies: the temporary file stays behind under a random name.
LoseProcess == temp' = NoTemp /\ UNCHANGED <<main, flushed, older, aside>>

\* The machine dies: a rename that was not synced may be undone, data that
\* was not synced is lost, and an undone quarantine is no copy any more.
LosePower ==
  /\ temp' = NoTemp
  /\ main' \in older \cup {IF flushed THEN main ELSE Torn}
  /\ older' = {}
  /\ flushed' = TRUE
  /\ aside' = aside \ {main'}

\* Another build or a damaged disk replaces the file while nobody saves.
Replace(content) ==
  /\ Idle
  /\ main # content
  /\ main' = content /\ older' = {} /\ flushed' = TRUE
  /\ UNCHANGED <<temp, aside>>

-----------------------------------------------------------------------------
(* load and quarantine_file. *)

Loadable == main \in Documents \cup {Absent}

\* A plausible slip: the unreadable file is deleted instead of renamed aside.
Quarantine_Delete(ok) ==
  /\ ~Loadable
  /\ main' = IF ok THEN Absent ELSE main
  /\ older' = IF ok THEN older \cup {main} ELSE older
  /\ UNCHANGED <<flushed, temp, aside>>

\* Renamed aside in the same directory; the rename may fail.
Quarantine(ok) ==
  /\ ~Loadable
  /\ main' = IF ok THEN Absent ELSE main
  /\ aside' = IF ok THEN aside \cup {main} ELSE aside
  /\ older' = IF ok THEN older \cup {main} ELSE older
  /\ UNCHANGED <<flushed, temp>>
=============================================================================
