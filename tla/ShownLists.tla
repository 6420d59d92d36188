----------------------------- MODULE ShownLists -----------------------------
(* The lists of annotations that a page shows (annotation-data.js): one     *)
(* sequence of entries per type, changed in place after each operation of   *)
(* the page, or replaced by a fresh answer of the server.  An entry has at  *)
(* least the field id.                                                      *)
EXTENDS Integers, Sequences, SequencesExt

\* The place of the first entry with an id, 0 when there is none (indexOf).
Place(list, id) == SelectInSeq(list, LAMBDA x : x.id = id)

\* updateTypeLocal POST: the new entry goes to the end.
WithEntry(list, entry) == Append(list, entry)

\* updateTypeLocal PATCH: the fields of the body, the id among them, replace
\* those of the entry; nothing happens to a list without it.
WithPatch_KeepsId(list, id, entry) ==
    IF Place(list, id) = 0 THEN list
    ELSE [list EXCEPT ![Place(list, id)] = [entry EXCEPT !.id = id]]
WithPatch(list, id, entry) ==
    IF Place(list, id) = 0 THEN list ELSE [list EXCEPT ![Place(list, id)] = entry]

\* updateTypeLocal DELETE: the entry goes, if the list has it.
WithoutEntry(list, id) ==
    IF Place(list, id) = 0 THEN list ELSE RemoveAt(list, Place(list, id))
=============================================================================
