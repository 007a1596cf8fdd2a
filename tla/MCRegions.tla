------------------------------ MODULE MCRegions ------------------------------
EXTENDS Regions, TLC

Symmetry == Permutations(Tasks \ {Main})

=============================================================================
