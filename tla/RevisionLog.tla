---------------------------- MODULE RevisionLog ----------------------------
(***************************************************************************)
(* What the revision store promises: one log per element and version.      *)
(* Every change of an element is appended at the end of its log under the  *)
(* next free number ("push edits to end of branch",                        *)
(* schema/components/localization.py), and pruning withdraws one entry.    *)
(* Nothing else ever touches a log.  Module Marks implements this on the   *)
(* table of rows that the Localization and State triggers maintain.        *)
(***************************************************************************)
EXTENDS Integers, FiniteSetsExt

CONSTANTS
    Keys,       \* an element on a version: a pair (elemental_id, version)
    Contents    \* what a revision says: its attributes and whether it is a deletion

VARIABLE log    \* log[k] is the set of entries of k

Entry == [mark : Nat, content : Contents]

Numbers(entries) == {e.mark : e \in entries}

End(entries) == IF entries = {} THEN 0 ELSE Max(Numbers(entries)) + 1

\* Every element starts with at most its first revision.
Init == log \in [Keys -> {{}} \cup {{[mark |-> 0, content |-> c]} : c \in Contents}]

\* One log before and after a change
Append(before, after) ==
    \E e \in after \ before :
        /\ after = before \cup {e}
        /\ e.mark = End(before)
        /\ e.content \in Contents

Withdraw(before, after) == \E e \in before : after = before \ {e}

Next ==
    \E k \in Keys :
        /\ Append(log[k], log'[k]) \/ Withdraw(log[k], log'[k])
        /\ log' = [log EXCEPT ![k] = log'[k]]

Spec == Init /\ [][Next]_log

\* A number names one revision of an element: readers may ask for element@mark.
Functional == \A k \in Keys : \A d, e \in log[k] : d.mark = e.mark => d = e
=============================================================================
