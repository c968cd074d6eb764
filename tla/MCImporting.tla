---------------------------- MODULE MCImporting -----------------------------
(* Two indexes of the same two packs, installed in opposite order, in a      *)
(* registry that may be initialized with both at the same time.              *)
EXTENDS Importing, TLC

CONSTANTS a, b, i1, i2

\* No action tells two free numbers apart.
MCSymmetry == Permutations(Inode)

WhatTheyWant == [i \in Importer |-> IF i = i1 THEN <<a, b>> ELSE <<b, a>>]
=============================================================================
