---------------------------- MODULE MCSpawnTree ----------------------------
EXTENDS SpawnTree, TLC

Symmetry == Permutations(System) \cup Permutations(Users)
=============================================================================
