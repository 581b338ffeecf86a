-------------------------- MODULE DurableDocument --------------------------
(***************************************************************************)
(* What a document store promises: readable is the set of contents a       *)
(* restart may find.  A save adds its document to that set and, when it    *)
(* has finished, is the only one left in it; until then a restart finds    *)
(* the old content or the new one, and never anything else.                *)
(***************************************************************************)
CONSTANTS
  Documents,    \* what the program may save
  Foreign,      \* what only the outside can put there, an absent file included
  Nothing       \* no save is running

VARIABLES readable, pending

TypeInvariant ==
  /\ readable \in (SUBSET (Documents \cup Foreign)) \ {{}}
  /\ pending \in Documents \cup {Nothing}

Init == readable \in {{c} : c \in Documents \cup Foreign} /\ pending = Nothing

Begin(d) ==
  /\ pending = Nothing
  /\ pending' = d
  /\ readable' = readable \cup {d}

\* The acknowledged save: from here a restart finds this document only.
Commit == pending # Nothing /\ readable' = {pending} /\ pending' = Nothing

\* A save that failed, or a restart: candidates can only fall away.
Drop == readable' \in (SUBSET readable) \ {{}} /\ pending' = Nothing

\* A hand on the file between two saves.
Interfere(c) ==
  /\ pending = Nothing
  /\ readable' \in {{c}, readable \cup {c}}
  /\ UNCHANGED pending

Next ==
  \/ \E d \in Documents : Begin(d)
  \/ Commit
  \/ Drop
  \/ \E c \in Foreign : Interfere(c)

Spec == Init /\ [][Next]_<<readable, pending>>
=============================================================================
