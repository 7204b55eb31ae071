---------------------------- MODULE MCSignalTree ----------------------------
(***************************************************************************)
(* Model checking of SignalTree.  Threads are interchangeable.             *)
(***************************************************************************)
EXTENDS SignalTree, TLC

ThreadSymmetry == Permutations(Threads)
=============================================================================
