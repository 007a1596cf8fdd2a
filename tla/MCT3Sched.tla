------------------------------ MODULE MCT3Sched ------------------------------
EXTENDS T3Sched, TLC

Symmetry == Permutations(Tasks \ {Main})

=============================================================================
