------------------------- MODULE MCSpreadNavigation -------------------------
(* Finite instance of SpreadNavigation: every book of 0..7 pages, so that    *)
(* both cover modes meet an even and an odd page count, and window shapes    *)
(* that cover landscape, square, portrait and degenerate sizes.  The checks  *)
(* of the stateless algorithms (MCAlgorithms) are evaluated with this run.   *)
EXTENDS SpreadNavigation, MCAlgorithms
=============================================================================
