------------------------------ MODULE MCMarks ------------------------------
(* Instances of Marks for TLC: two requests at a time on one or two keys.  *)
EXTENDS Marks, TLC

CONSTANTS k1, k2, s1, s2, f1, f2, f3, p1, p2

TwoKeys == {k1, k2}
Fresh == {f1, f2, f3}
SeedOf == [i \in Ids |-> IF i = s2 THEN k2 ELSE k1]

\* Everything but pruning.
NoPrune == AllOps \ {"Prune", "BulkPrune"}

Symmetry == Permutations(Fresh \cap Ids) \cup Permutations(Procs)
=============================================================================
