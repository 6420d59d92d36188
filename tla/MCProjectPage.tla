--------------------------- MODULE MCProjectPage ---------------------------
(* An instance of ProjectPage for TLC: two media of different types, one of *)
(* them in the only folder.                                               *)
EXTENDS ProjectPage

CONSTANTS s1

KindOf == [m \in Media |-> IF m = 2 THEN 2 ELSE 1]
Places == [m \in Media |-> IF m = 2 THEN Nowhere ELSE s1]
=============================================================================
