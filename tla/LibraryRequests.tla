--------------------------- MODULE LibraryRequests ---------------------------
(***************************************************************************)
(* The two requests the library screen sends to worker threads, side by    *)
(* side: the open of a book and the bulk add.  They share the pool and the *)
(* event loop but no state; closures of the two may run in either order.   *)
(***************************************************************************)
EXTENDS OpenController, AddController

vars == <<openVars, addVars>>

Init == OpenInit /\ AddInit

Next ==
  \/ OpenNext /\ UNCHANGED addVars
  \/ AddNext /\ UNCHANGED openVars

Spec == Init /\ [][Next]_vars
LiveSpec == Spec /\ OpenFairness /\ AddFairness

TypeOK == OpenTypeOK /\ AddTypeOK
=============================================================================
