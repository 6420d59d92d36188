---------------------------- MODULE MCResources ----------------------------
(* Instances of Resources for TLC: a media, its clones, and their files.   *)
EXTENDS Resources, TLC

CONSTANTS m1, m2, m3, a, b, s1, s2, r1, r2, r3, r4, p1, p2

OwnerIs == [x \in Paths |-> m1]

\* An empty installation, but for the media m1 with one file.
OneMedia == [m \in Media |-> IF m = m1 THEN {<<s1, a>>} ELSE {}]
OneRow == [r \in Rids |-> IF r = r1 THEN a ELSE Unused]

\* m1 and clones of it, which share two files.
Sharing == [m \in Media |-> IF m = m3 THEN {} ELSE {<<s1, a>>, <<s2, b>>}]
TwoRows == [r \in Rids |-> IF r = r1 THEN a ELSE IF r = r2 THEN b ELSE Unused]

\* m1 alone with the two files.
Original == [m \in Media |-> IF m = m1 THEN {<<s1, a>>, <<s2, b>>} ELSE {}]

\* The processes are interchangeable.
Alike == Permutations(Procs)

\* What deletes, and takes locks.
Deleting == {"DeleteFile", "Hide", "Prune"}
=============================================================================
