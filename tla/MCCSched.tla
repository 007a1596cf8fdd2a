------------------------------- MODULE MCCSched -------------------------------
EXTENDS CSched, TLC

Symmetry == Permutations(Tasks \ {Main})

=============================================================================
