----------------------- MODULE MCDisplayComposition -----------------------
EXTENDS DisplayComposition, TLC

Symmetry == Permutations(Threads) \cup Permutations(Fences)
=============================================================================
