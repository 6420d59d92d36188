------------------------------ MODULE MCArchive -----------------------------
(* Instances of Archive for TLC: a media m with its clone c, a multi with  *)
(* the members s and t, and a media e without files to move.               *)
EXTENDS Archive

CONSTANTS m, c, multi, s, t, e, a, b, x, y, p1

OriginalIs == [n \in Media |-> IF n = c THEN m ELSE n]

MembersAre == [n \in Media |-> IF n = multi THEN {s, t} ELSE {}]

\* m and its clone share one object, or two; s and t have one each.
OneObject ==
    [n \in Media |->
        CASE n \in {m, c} -> {a} [] n = s -> {x} [] n = t -> {y} [] OTHER -> {}]
TwoObjects == [n \in Media |-> IF n \in {m, c} THEN {a, b} ELSE OneObject[n]]
=============================================================================
