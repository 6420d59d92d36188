------------------------------- MODULE States -------------------------------
(***************************************************************************)
(* States and the localizations they contain (tracks and their detections).*)
(*                                                                         *)
(* A state is a log of revisions, rows of one table with the triggers that *)
(* module Marks is about; each row has associations of its own.  Requests  *)
(* on one state are transactions, but for DELETE: it looks for the         *)
(* localizations that no other state has, writes its revision, and deletes *)
(* them at last, in statements of their own.                               *)
(*                                                                         *)
(* Media, frames and attributes of states are left out, and one version is *)
(* modelled.  Localizations are rows here, what edits them is not modelled.*)
(***************************************************************************)
EXTENDS Integers, Sequences, FiniteSetsExt

CONSTANTS
    Elements,        \* elemental ids of states
    WithChildren,    \* those whose type has delete_child_localizations
    Locs, FrameOf,   \* localizations and their frames
    Requests,        \* deletions that may be under way at a time
    Idle,
    MaxRows,         \* bound: rows of the table
    MaxEdits         \* bound: requests that add no row

ASSUME StatesConstants ==
    /\ WithChildren \subseteq Elements
    /\ IsFiniteSet(Locs) /\ FrameOf \in [Locs -> Nat]
    /\ \A parts \in SUBSET Locs : parts # Idle
    /\ {MaxRows, MaxEdits} \subseteq Nat

VARIABLES
    rows,      \* the table, by primary key; there = FALSE when a row is deleted
    latest,    \* latest[e]: the latest_mark that the rows of e have
    alive,     \* the localizations that are not deleted, in whichever way
    doomed,    \* doomed[p]: the localizations that the deletion p will delete
    edits,     \* the requests so far that added no row
    excused,   \* history: localizations attached too late, or with a withdrawn deletion
    spoiled,   \* history: states with pruned or lost revisions, or deleted as one of a list
    holders    \* history: the states that ever had a localization

history == <<excused, spoiled, holders>>
vars == <<rows, latest, alive, doomed, edits, history>>

Revision == [el : Elements, mark : Nat, variant : BOOLEAN, gone : BOOLEAN, there : BOOLEAN,
             parts : SUBSET Locs, segments : Seq(Seq(Int))]

TypeOK ==
    /\ rows \in Seq(Revision)
    /\ latest \in [Elements -> Nat]
    /\ alive \subseteq Locs
    /\ doomed \in [Requests -> (SUBSET Locs) \cup {Idle}]
    /\ excused \subseteq Locs /\ spoiled \subseteq Elements
    /\ holders \in [Locs -> SUBSET Elements]

-----------------------------------------------------------------------------
(* Segments: the runs of frames that a state covers.                       *)

\* The values of a function in order, each as often as it occurs: the n-th one has fewer
\* than n values below it and at least n up to it.  (Frames may occur twice.)
Ordered(f) ==
    LET D == DOMAIN f
    IN  [n \in 1..Cardinality(D) |->
            CHOOSE v \in {f[x] : x \in D} :
                n \in Cardinality({x \in D : f[x] < v}) + 1 .. Cardinality({x \in D : f[x] <= v})]

Frames(parts) == Ordered([l \in parts |-> FrameOf[l]])

\* POST splits where the difference is not one.
SplitSegments(parts) ==
    LET frames == Frames(parts)
        starts == Ordered([i \in {i \in DOMAIN frames :
                                    i = 1 \/ frames[i] - frames[i - 1] # 1} |-> i])
    IN  [k \in DOMAIN starts |->
            <<frames[starts[k]],
              frames[IF k = Len(starts) THEN Len(frames) ELSE starts[k + 1] - 1]>>]

\* calc_segments, which runs on every change of the associations, goes through the
\* localizations with the run that is open; `None' is no number in a state without any.
None == -1
Closed(run) == Append(run.done, <<run.first, run.last>>)
Runs(frames) ==
    LET run[i \in 1..Len(frames)] ==
            IF i = 1 THEN [first |-> frames[1], last |-> frames[1], done |-> <<>>]
            ELSE LET before == run[i - 1]
                 IN  IF frames[i] - 1 = before.last THEN [before EXCEPT !.last = frames[i]]
                     ELSE [first |-> frames[i], last |-> frames[i], done |-> Closed(before)]
    IN  run
SegmentsFrom_Cut(parts) ==
    LET frames == Frames(parts)
    IN  IF frames = <<>> THEN << <<None, None>> >> ELSE Runs(frames)[Len(frames)].done
CalcSegments(parts) ==
    LET frames == Frames(parts)
    IN  IF frames = <<>> THEN << <<None, None>> >> ELSE Closed(Runs(frames)[Len(frames)])

-----------------------------------------------------------------------------
(* The table and its triggers.                                             *)

Ids == DOMAIN rows
Of(table, e) == {i \in DOMAIN table : table[i].el = e /\ table[i].there}
Marks(table, e) == {table[i].mark : i \in {j \in Of(table, e) : ~table[j].gone}}
Top(table, e) == IF Marks(table, e) = {} THEN 0 ELSE Max(Marks(table, e))

\* An insert takes the next mark, and refreshes latest_mark; so does a prune.
Insert_Below(table, row) ==
    Append(table, [row EXCEPT !.mark = IF Marks(table, row.el) = {} THEN -1
                                       ELSE Top(table, row.el) + 1])
Insert(table, row) ==
    Append(table, [row EXCEPT !.mark = IF Marks(table, row.el) = {} THEN 0
                                       ELSE Top(table, row.el) + 1])
Refresh(e) == latest' = [latest EXCEPT ![e] = Top(rows', e)]

\* What lists of states show.
Current(i) == rows[i].there /\ ~rows[i].gone /\ rows[i].mark = latest[rows[i].el]
Shown(i) == Current(i) /\ ~rows[i].variant

\* Any row that is there counts, of an old revision and of a pruned one too.
Having(l) == {i \in Ids : rows[i].there /\ l \in rows[i].parts}

\* A row of the end of the branch: the row itself, or the only one with that mark.
EndOf(i) == {t \in Of(rows, rows[i].el) :
                /\ rows[t].mark = latest[rows[i].el]
                /\ \/ t = i
                   \/ \A k \in Of(rows, rows[i].el) : rows[k].mark = rows[t].mark => k = t}

Pending == {p \in Requests : doomed[p] # Idle}
Doomed == UNION {doomed[p] : p \in Pending}

\* History: e gets these localizations; too late, those that are deleted or will be.
Had(e) == {l \in Locs : e \in holders[l]}
Attached(e, parts, withdrawn) ==
    /\ holders' = [l \in Locs |-> IF l \in parts THEN holders[l] \cup {e} ELSE holders[l]]
    /\ excused' = excused \cup (parts \ alive) \cup (parts \cap Doomed) \cup withdrawn

-----------------------------------------------------------------------------
(* Requests.                                                               *)

Room == Len(rows) < MaxRows /\ UNCHANGED edits
Edit == edits < MaxEdits /\ edits' = edits + 1

\* POST of a new state.
Post(e, parts) ==
    /\ Room /\ \A i \in Ids : rows[i].el # e
    /\ rows' = Insert(rows, [el |-> e, mark |-> 0, variant |-> FALSE, gone |-> FALSE,
                             there |-> TRUE, parts |-> parts, segments |-> SplitSegments(parts)])
    /\ Refresh(e)
    /\ Attached(e, parts, {})
    /\ UNCHANGED <<alive, doomed, spoiled>>

\* PATCH of the row i goes to the end of the branch.  The associations of that row are
\* changed first, its segments only in memory; then it is saved or copied.
Patch(i, parts, in_place) ==
    /\ ~rows[i].gone /\ rows[i].there
    /\ \E t \in EndOf(i) :
          LET patched == [rows[t] EXCEPT !.parts = parts,
                             !.segments = IF parts = rows[t].parts THEN @ ELSE CalcSegments(parts)]
          IN  /\ parts \subseteq alive \cup rows[t].parts
              /\ IF in_place THEN Edit /\ rows' = [rows EXCEPT ![t] = patched] /\ UNCHANGED latest
                 ELSE /\ Room
                      /\ rows' = Insert([rows EXCEPT ![t].parts = parts], patched)
                      /\ Refresh(rows[t].el)
              /\ Attached(rows[t].el, parts \ rows[t].parts, {})
    /\ UNCHANGED <<alive, doomed, spoiled>>

\* The list DELETE: a copy without associations for each row, and no child goes.
BulkDelete(i) ==
    /\ Room /\ Current(i)
    /\ rows' = Insert(rows, [rows[i] EXCEPT !.variant = TRUE, !.parts = {}])
    /\ Refresh(rows[i].el)
    /\ spoiled' = spoiled \cup {rows[i].el}
    /\ UNCHANGED <<alive, doomed, excused, holders>>

\* MergeStates takes any two rows, also of old revisions, of a page that shows them no
\* more, and of deleted ones; the row of the other state is deleted, and no trigger runs.
Merge(i, other) ==
    /\ Edit /\ rows[i].there /\ rows[other].there
    /\ LET parts == rows[i].parts \cup rows[other].parts
       IN  rows' = [rows EXCEPT
               ![i].parts = parts,
               ![i].segments = IF rows[other].parts = {} THEN @ ELSE CalcSegments(parts),
               ![other].there = FALSE, ![other].parts = {}]
    /\ Attached(rows[i].el, rows[other].parts,
                IF rows[other].variant THEN Had(rows[other].el) ELSE {})
    /\ spoiled' = spoiled \cup IF Shown(other) THEN {} ELSE {rows[other].el}
    /\ UNCHANGED <<latest, alive, doomed>>

\* TrimStateEnd: what is before (or after) a frame goes, and from the database too
\* if no state has it any more.
Trim(i, cut) ==
    /\ Edit /\ ~rows[i].gone /\ rows[i].there /\ cut \subseteq rows[i].parts
    /\ LET parts  == rows[i].parts \ cut
           unused == {l \in cut : Having(l) = {i}}
       IN  /\ rows' = [rows EXCEPT ![i].parts = parts,
                          ![i].segments = IF cut = {} THEN @ ELSE CalcSegments(parts)]
           /\ alive' = alive \ unused
    /\ UNCHANGED <<latest, doomed, history>>
Before(i, f) == {l \in rows[i].parts : FrameOf[l] < f}
After(i, f) == {l \in rows[i].parts : FrameOf[l] > f}

\* DELETE: the localizations that no other row has, and then the deletion itself.
Children_All(i) == IF rows[i].el \in WithChildren THEN rows[i].parts ELSE {}
Children_None(i) ==
    IF rows[i].el \in WithChildren
    THEN {l \in rows[i].parts : Having(l) = {}} ELSE {}
Children(i) ==
    IF rows[i].el \in WithChildren
    THEN {l \in rows[i].parts : Having(l) = {i}} ELSE {}

DeleteState(p, i) ==
    /\ doomed[p] = Idle /\ Room
    /\ ~rows[i].gone /\ rows[i].there
    /\ doomed' = [doomed EXCEPT ![p] = Children(i)]
    /\ rows' = Insert(rows, [rows[i] EXCEPT !.variant = TRUE])
    /\ Refresh(rows[i].el)
    /\ UNCHANGED <<alive, history>>

\* With prune = 1 the row is marked, and the revision before it is the latest again.
PruneState(p, i) ==
    /\ doomed[p] = Idle /\ Edit
    /\ ~rows[i].gone /\ rows[i].there
    /\ doomed' = [doomed EXCEPT ![p] = Children(i)]
    /\ rows' = [rows EXCEPT ![i].gone = TRUE]
    /\ Refresh(rows[i].el)
    /\ spoiled' = spoiled \cup {rows[i].el}
    /\ excused' = excused \cup Had(rows[i].el)
    /\ UNCHANGED <<alive, holders>>

DeleteChildren(p) ==
    /\ doomed[p] # Idle
    /\ alive' = alive \ doomed[p]
    /\ doomed' = [doomed EXCEPT ![p] = Idle]
    /\ UNCHANGED <<rows, latest, edits, history>>

\* The worker dies in between.
Die(p) ==
    /\ doomed[p] # Idle
    /\ doomed' = [doomed EXCEPT ![p] = Idle]
    /\ excused' = excused \cup doomed[p]
    /\ UNCHANGED <<rows, latest, alive, edits, spoiled, holders>>

-----------------------------------------------------------------------------
Init ==
    /\ rows = <<>> /\ latest = [e \in Elements |-> 0]
    /\ alive = Locs
    /\ doomed = [p \in Requests |-> Idle]
    /\ edits = 0 /\ excused = {} /\ spoiled = {} /\ holders = [l \in Locs |-> {}]

Change(i) ==
    \/ \E parts \in SUBSET Locs, in_place \in BOOLEAN : Patch(i, parts, in_place)
    \/ BulkDelete(i)
    \/ \E other \in Ids : Merge(i, other)
    \/ \E l \in rows[i].parts : Trim(i, Before(i, FrameOf[l])) \/ Trim(i, After(i, FrameOf[l]))

Deletion(p) ==
    \/ \E i \in Ids : DeleteState(p, i) \/ PruneState(p, i)
    \/ DeleteChildren(p) \/ Die(p)

Next ==
    \/ \E e \in Elements, parts \in SUBSET alive : Post(e, parts)
    \/ \E i \in Ids : Change(i)
    \/ \E p \in Requests : Deletion(p)

Spec == Init /\ [][Next]_vars

-----------------------------------------------------------------------------
(* Properties.                                                             *)

\* A localization of a state that is shown is not deleted: no deletion of a state,
\* merge or trim takes what another state has, unless it was attached after the look of a
\* deletion (by a merge even after its end), or a pruned revision had it.
PartsStayAlive == \A i \in Ids : Shown(i) => rows[i].parts \subseteq alive \cup excused

\* A state of a type with delete_child_localizations takes its localizations with it
\* when it is deleted, if no other state ever had them: as long as it never was patched
\* and none of its revisions was pruned.
OnceWritten(e) == \E i, k \in Ids :
    /\ Of(rows, e) = {i, k} /\ e \notin spoiled
    /\ ~rows[i].variant /\ rows[k].variant /\ rows[i].parts = rows[k].parts
ChildrenGo ==
    Pending = {} =>
        \A l \in alive \ excused, e \in WithChildren :
            OnceWritten(e) /\ holders[l] = {e} =>
                \A i \in Of(rows, e) : l \notin rows[i].parts

\* The segments of a state that is shown are made of the frames of its localizations,
\* whichever of the two algorithms made them and however often they were copied, as long
\* as none of its revisions was pruned.
Covered(segments) == UNION {s[1]..s[2] : s \in {segments[k] : k \in DOMAIN segments}}
SegmentsCover ==
    \A i \in Ids :
        Shown(i) /\ rows[i].parts # {} /\ rows[i].el \notin spoiled =>
            Covered(rows[i].segments) = {FrameOf[l] : l \in rows[i].parts}
=============================================================================
