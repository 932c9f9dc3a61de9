--------------------------- MODULE MCSubscriptions ---------------------------
EXTENDS Subscriptions, TLC

Symmetry == Permutations(Subs) \cup Permutations(Runs)
=============================================================================
