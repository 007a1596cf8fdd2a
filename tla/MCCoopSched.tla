----------------------------- MODULE MCCoopSched -----------------------------
EXTENDS CoopSched, TLC

Symmetry == Permutations(Tasks \ {Main})

=============================================================================
