--------------------------- MODULE MCSheetScript ---------------------------
EXTENDS SheetScript, TLC

Symmetry == Permutations(Runs)
=============================================================================
