------------------------------ MODULE MCStates ------------------------------
(* An instance of States for TLC: two tracks and three detections, on frames *)
(* one after the other and apart.                                          *)
EXTENDS States, TLC

CONSTANTS e1, e2, l1, l2, l3, p1, p2

FrameIs == [l \in Locs |-> IF l = l1 THEN 1 ELSE IF l = l2 THEN 2 ELSE 4]

Symmetry == Permutations(Elements)
=============================================================================
