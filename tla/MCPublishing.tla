---------------------------- MODULE MCPublishing ----------------------------
(* Publishing with its symmetries: the runs and the rebuilds are alike.       *)
EXTENDS Publishing, TLC

MCSymmetry == Permutations(Run) \cup Permutations(Builder)
=============================================================================
