--------------------------- MODULE MCLibraryOnDisk -------------------------
EXTENDS LibraryOnDisk, TLC

\* No definition prefers one path to another: orders are quantified over.
Symmetry == Permutations(Paths)
=============================================================================
