------------------------------ MODULE MCRefSched ------------------------------
EXTENDS RefSched, TLC

Symmetry == Permutations(Tasks \ {Main})

=============================================================================
