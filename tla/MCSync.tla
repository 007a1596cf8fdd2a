-------------------------------- MODULE MCSync --------------------------------
EXTENDS Sync, TLC

Symmetry == Permutations(Tasks \ {Main})

=============================================================================
