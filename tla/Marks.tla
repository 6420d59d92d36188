------------------------------- MODULE Marks -------------------------------
(***************************************************************************)
(* The revisions of annotations (Localization and State rows).             *)
(*                                                                         *)
(* A change of an annotation inserts a new row for the same elemental_id   *)
(* and version.  Two database triggers keep two columns: `mark' numbers    *)
(* the rows of one (elemental_id, version) and `latest_mark' repeats, on   *)
(* every one of those rows, the highest mark in use; a list query shows    *)
(* the rows with mark = latest_mark.  The request handlers read a row in   *)
(* one statement and write in another, under READ COMMITTED, so requests   *)
(* interleave between the two.                                             *)
(*                                                                         *)
(* An INSERT locks the rows of its key that are already there until its    *)
(* transaction ends (SELECT ... FOR UPDATE in the trigger), so from the    *)
(* trigger to the commit it is one step, except when the key has no row to *)
(* lock: then the trigger, the second trigger and the commit are steps of  *)
(* their own.                                                              *)
(***************************************************************************)
EXTENDS Integers, FiniteSetsExt

CONSTANTS
    Ids,              \* primary keys of rows; how many there are bounds the inserts
    NoId,             \* the source of a request that has none
    Keys,             \* an element on a version: a pair (elemental_id, version)
    Procs,            \* requests being served; an edit is named by the request that made it
    Ops,              \* the operations clients call, a subset of AllOps
    PedanticChoices,  \* the values of the `pedantic' parameter clients send
    Retarget,         \* do clients send `version', `elemental_id', `new_version', ...?
    SeedRows,         \* the rows there are to begin with, each the first of its key
    SeedKey,          \* the key of each of them
    MaxMark           \* bound on mark

AllOps == {"Post", "Patch", "PatchInPlace", "BulkPatch", "BulkUpdate", "BulkHide",
           "Delete", "DeleteState", "BulkDelete", "Prune", "BulkPrune"}

\* Those that append a revision or prune one, each in one statement or transaction.
AppendOps == {"Post", "Patch", "Delete", "BulkDelete", "Prune", "BulkPrune"}

ASSUME MarksConstants ==
    /\ NoId \notin Ids
    /\ Ops \subseteq AllOps
    /\ PedanticChoices \subseteq BOOLEAN
    /\ Retarget \in BOOLEAN
    /\ SeedRows \subseteq Ids
    /\ SeedKey \in [Ids -> Keys]
    /\ \A i, j \in SeedRows : SeedKey[i] = SeedKey[j] => i = j
    /\ MaxMark \in Nat

VARIABLES
    used,   \* the rows the table holds
    row,    \* row[i]: the columns of row i (of interest for i in used)
    job     \* job[p]: where the request p stands, with the object it holds in memory

vars == <<used, row, job>>

Mark == 0 .. MaxMark

Row == [key : Keys, mark : Mark, latest : Mark, deleted : BOOLEAN,
        vdel : BOOLEAN, val : SUBSET Procs]

Stages == {"resolve", "reread", "insert", "first", "uncommitted", "refetch", "save",
           "resave", "update"}

Idle == [stage |-> "idle"]

Job == [stage : Stages, op : AllOps, src : Ids \cup {NoId}, obj : Row]

\* The stages at which a request has a row to go back to.
NeedsRow == {"resolve", "reread", "refetch", "save", "resave", "update"}

\* The columns have their types, and what a request holds in memory fits its stage.
TypeOK ==
    /\ used \subseteq Ids
    /\ row \in [Ids -> Row]
    /\ job \in [Procs -> {Idle} \cup Job]
    /\ \A p \in Procs : job[p].stage \in NeedsRow => job[p].src \in Ids

NewRow(k, val) == [key |-> k, mark |-> 0, latest |-> 0, deleted |-> FALSE,
                   vdel |-> FALSE, val |-> val]

Init ==
    /\ used = SeedRows
    /\ row = [i \in Ids |-> NewRow(SeedKey[i], {})]
    /\ job = [p \in Procs |-> Idle]

(***************************************************************************)
(* The triggers                                                            *)
(***************************************************************************)
Rows(u, r, k) == {i \in u : r[i].key = k}

LiveRows(u, r, k) == {i \in Rows(u, r, k) : ~r[i].deleted}

LiveMarks(u, r, k) == {r[i].mark : i \in LiveRows(u, r, k)}

\* Mutants: the marks are counted, or the deleted ones counted in, or the
\* COALESCE is missing (-1 is the NULL that MAX then returns).
NextMark_NoCoalesce(u, r, k) ==
    IF LiveMarks(u, r, k) = {} THEN -1 ELSE Max(LiveMarks(u, r, k)) + 1
NextMark_Count(u, r, k) == Cardinality(LiveRows(u, r, k))
NextMark_Deleted(u, r, k) ==
    LET marks == {r[i].mark : i \in Rows(u, r, k)}
    IN  IF marks = {} THEN 0 ELSE Max(marks) + 1

\* COALESCE(MAX(mark) + 1, 0) over the rows that are not deleted
NextMark(u, r, k) ==
    IF LiveMarks(u, r, k) = {} THEN 0 ELSE Max(LiveMarks(u, r, k)) + 1

\* Mutant: the second trigger computes what the first one does.
LatestMark_Next(u, r, k) ==
    IF LiveMarks(u, r, k) = {} THEN 0 ELSE Max(LiveMarks(u, r, k)) + 1

\* COALESCE(MAX(mark), 0)
LatestMark(u, r, k) ==
    IF LiveMarks(u, r, k) = {} THEN 0 ELSE Max(LiveMarks(u, r, k))

\* The AFTER trigger of INSERT, and of an UPDATE that sets `deleted': rewrite
\* latest_mark on every row of the key, deleted ones too.
AfterTrigger(u, r, k) ==
    [i \in Ids |-> IF i \in Rows(u, r, k)
                   THEN [r[i] EXCEPT !.latest = LatestMark(u, r, k)]
                   ELSE r[i]]

\* Mutant: no trigger on UPDATE OF deleted.
SaveRow_NoTrigger(u, r, i, o) == [r EXCEPT ![i] = o]

\* Model.save() of an object read earlier: every column of row i is overwritten.
SaveRow(u, r, i, o) ==
    LET t == [r EXCEPT ![i] = o]
    IN  IF ~r[i].deleted /\ o.deleted THEN AfterTrigger(u, t, o.key) ELSE t

\* An INSERT of object o as row i: both triggers, then the commit.
InsertRow(u, r, i, o) == AfterTrigger(u \cup {i}, [r EXCEPT ![i] = o], o.key)

(***************************************************************************)
(* Requests                                                                *)
(***************************************************************************)
Live(i) == i \in used /\ ~row[i].deleted

\* The rows a list request touches: deleted = FALSE, variant_deleted = FALSE,
\* mark = latest_mark.
Listed(i) == Live(i) /\ ~row[i].vdel /\ row[i].mark = row[i].latest

At(p, stage) == job[p].stage = stage

Start(p, stage, op, src, obj) ==
    job' = [job EXCEPT ![p] = [stage |-> stage, op |-> op, src |-> src, obj |-> obj]]

Finish(p) == job' = [job EXCEPT ![p] = Idle]

Targets(k) == IF Retarget THEN Keys ELSE {k}

Edit(o, k, p) == [o EXCEPT !.key = k, !.val = @ \cup {p}]

\* POST with an elemental_id of the client's choice, or a new one
Post(p) ==
    /\ At(p, "idle") /\ "Post" \in Ops
    /\ \E k \in Keys : Start(p, "insert", "Post", NoId, NewRow(k, {p}))
    /\ UNCHANGED <<used, row>>

\* Mutant: every PATCH is in place.
WriteStage_InPlace(op) == "save"

WriteStage(op) == IF op = "Patch" THEN "insert" ELSE "save"

\* PATCH of one row: the row itself is the latest mark
PatchLatest(p) ==
    /\ At(p, "idle")
    /\ \E op \in Ops \cap {"Patch", "PatchInPlace"}, i \in Ids :
          /\ Live(i)
          /\ row[i].mark = row[i].latest
          /\ \E k \in Targets(row[i].key) :
                Start(p, WriteStage(op), op, i, Edit(row[i], k, p))
    /\ UNCHANGED <<used, row>>

\* PATCH of an earlier mark: refused in pedantic mode unless in place, else
\* redirected to the latest mark by a second query
PatchEarlier(p) ==
    /\ At(p, "idle")
    /\ \E op \in Ops \cap {"Patch", "PatchInPlace"}, i \in Ids, pedantic \in PedanticChoices :
          /\ Live(i)
          /\ row[i].mark # row[i].latest
          /\ op = "Patch" => ~pedantic
          /\ Start(p, "resolve", op, i, row[i])
    /\ UNCHANGED <<used, row>>

\* The rows objects.get(version, mark = latest_mark, elemental_id) selects
LatestRows(o) == {j \in Rows(used, row, o.key) : row[j].mark = o.latest}

\* objects.get() raises unless exactly one row matches; then the request fails.
Resolve(p) ==
    /\ At(p, "resolve")
    /\ LET o == job[p].obj IN
       \/ \E j \in LatestRows(o) :
             /\ LatestRows(o) = {j}
             /\ \E k \in Targets(o.key) :
                   Start(p, WriteStage(job[p].op), job[p].op, j, Edit(row[j], k, p))
       \/ /\ \A j \in LatestRows(o) : LatestRows(o) # {j}
          /\ Finish(p)
    /\ UNCHANGED <<used, row>>

\* DELETE of one localization: the pedantic check reads the row once ...
Delete(p) ==
    /\ At(p, "idle") /\ "Delete" \in Ops
    /\ \E i \in Ids, pedantic \in PedanticChoices :
          /\ Live(i)
          /\ pedantic => row[i].mark = row[i].latest
          /\ Start(p, "reread", "Delete", i, row[i])
    /\ UNCHANGED <<used, row>>

\* ... and the copy that becomes the deletion reads it again.
DeleteReread(p) ==
    /\ At(p, "reread")
    /\ LET i == job[p].src IN
       \/ /\ Live(i)
          /\ Start(p, "insert", "Delete", i, [row[i] EXCEPT !.vdel = TRUE])
       \/ /\ ~Live(i)
          /\ Finish(p)
    /\ UNCHANGED <<used, row>>

\* DELETE of one state copies the row that was checked.
DeleteState(p) ==
    /\ At(p, "idle") /\ "DeleteState" \in Ops
    /\ \E i \in Ids, pedantic \in PedanticChoices :
          /\ Live(i)
          /\ pedantic => row[i].mark = row[i].latest
          /\ Start(p, "insert", "DeleteState", i, [row[i] EXCEPT !.vdel = TRUE])
    /\ UNCHANGED <<used, row>>

\* DELETE with prune = 1 of one row, which may be pruned already when it is
\* addressed by elemental_id and mark
Prune(p) ==
    /\ At(p, "idle") /\ "Prune" \in Ops
    /\ \E i \in used : Start(p, "save", "Prune", i, [row[i] EXCEPT !.deleted = TRUE])
    /\ UNCHANGED <<used, row>>

\* List requests that insert copies: PATCH, and DELETE
BulkCopy(p) ==
    /\ At(p, "idle")
    /\ \E i \in Ids :
          /\ Listed(i)
          /\ \/ /\ "BulkPatch" \in Ops
                /\ \E k \in Targets(row[i].key) :
                      Start(p, "insert", "BulkPatch", i, Edit(row[i], k, p))
             \/ /\ "BulkDelete" \in Ops
                /\ Start(p, "insert", "BulkDelete", i, [row[i] EXCEPT !.vdel = TRUE])
    /\ UNCHANGED <<used, row>>

\* List requests that update columns in place: they fetch the ids first.  With
\* `ids' in the request every live mark is in reach.
BulkSelect(p) ==
    /\ At(p, "idle")
    /\ \E op \in Ops \cap {"BulkUpdate", "BulkHide", "BulkPrune"}, i \in Ids :
          /\ Live(i)
          /\ \E k \in IF op = "BulkUpdate" THEN Targets(row[i].key) ELSE {row[i].key} :
                Start(p, "update", op, i, [row[i] EXCEPT !.key = k])
    /\ UNCHANGED <<used, row>>

\* queryset.update() of the columns of the request; only `deleted' has a trigger
BulkWrite(p) ==
    /\ At(p, "update")
    /\ LET i == job[p].src
           o == job[p].obj
       IN  row' = CASE job[p].op = "BulkUpdate" ->
                         [row EXCEPT ![i].key = o.key, ![i].val = @ \cup {p}]
                    [] job[p].op = "BulkHide" -> [row EXCEPT ![i].vdel = TRUE]
                    [] OTHER -> SaveRow(used, row, i, [row[i] EXCEPT !.deleted = TRUE])
    /\ Finish(p)
    /\ UNCHANGED used

\* After their INSERT a list PATCH and the DELETE of a state fetch the new row and
\* save it once more, to restore created_datetime, outside any transaction.
AfterCommit(p, i, o) ==
    IF job[p].op \in {"BulkPatch", "DeleteState"}
    THEN Start(p, "refetch", job[p].op, i, o)
    ELSE Finish(p)

\* INSERT into a key that has rows: its rows are locked until the commit.
Insert(p) ==
    /\ At(p, "insert")
    /\ LET k == job[p].obj.key
           m == NextMark(used, row, k)
           o == [job[p].obj EXCEPT !.mark = m]
       IN  /\ Rows(used, row, k) # {}
           /\ m <= MaxMark
           /\ \E i \in Ids \ used :
                 /\ used' = used \cup {i}
                 /\ row' = InsertRow(used, row, i, o)
                 /\ AfterCommit(p, i, o)

\* INSERT into an empty key: the BEFORE trigger has nothing to lock and counts no row.
InsertFirst(p) ==
    /\ At(p, "insert")
    /\ Rows(used, row, job[p].obj.key) = {}
    /\ Start(p, "first", job[p].op, job[p].src, [job[p].obj EXCEPT !.mark = 0])
    /\ UNCHANGED <<used, row>>

\* Its AFTER trigger sees and locks the rows that were committed meanwhile ...
FirstMeetsOthers(p) ==
    /\ At(p, "first")
    /\ LET o == job[p].obj
       IN  /\ Rows(used, row, o.key) # {}
           /\ \E i \in Ids \ used :
                 /\ used' = used \cup {i}
                 /\ row' = InsertRow(used, row, i, o)
                 /\ AfterCommit(p, i, o)

\* ... or sees none but its own,
FirstAlone(p) ==
    /\ At(p, "first")
    /\ Rows(used, row, job[p].obj.key) = {}
    /\ Start(p, "uncommitted", job[p].op, job[p].src, [job[p].obj EXCEPT !.latest = 0])
    /\ UNCHANGED <<used, row>>

\* which the commit then makes visible as it is.
CommitFirst(p) ==
    /\ At(p, "uncommitted")
    /\ \E i \in Ids \ used :
          /\ used' = used \cup {i}
          /\ row' = [row EXCEPT ![i] = job[p].obj]
          /\ AfterCommit(p, i, job[p].obj)

Refetch(p) ==
    /\ At(p, "refetch")
    /\ Start(p, "save", job[p].op, job[p].src, row[job[p].src])
    /\ UNCHANGED <<used, row>>

\* Model.save() of what the request read: PATCH in place, prune, and the second
\* save after an INSERT; the DELETE of a state saves the same object a third time
\* when it has copied the associations.
Save(p) ==
    /\ At(p, "save")
    /\ row' = SaveRow(used, row, job[p].src, job[p].obj)
    /\ IF job[p].op = "DeleteState"
       THEN Start(p, "resave", "DeleteState", job[p].src, job[p].obj)
       ELSE Finish(p)
    /\ UNCHANGED used

SaveAgain(p) ==
    /\ At(p, "resave")
    /\ row' = SaveRow(used, row, job[p].src, job[p].obj)
    /\ Finish(p)
    /\ UNCHANGED used

\* A request fails: a lost connection, a deadlock victim, a killed worker.  What
\* it has not committed is rolled back.
Abort(p) ==
    /\ ~At(p, "idle")
    /\ Finish(p)
    /\ UNCHANGED <<used, row>>

Step(p) ==
    \/ Post(p) \/ PatchLatest(p) \/ PatchEarlier(p) \/ Resolve(p)
    \/ Delete(p) \/ DeleteReread(p) \/ DeleteState(p) \/ Prune(p)
    \/ BulkCopy(p) \/ BulkSelect(p) \/ BulkWrite(p)
    \/ Insert(p) \/ InsertFirst(p) \/ FirstMeetsOthers(p) \/ FirstAlone(p) \/ CommitFirst(p)
    \/ Refetch(p) \/ Save(p) \/ SaveAgain(p) \/ Abort(p)

Next == \E p \in Procs : Step(p)

Spec == Init /\ [][Next]_vars

(***************************************************************************)
(* Properties                                                              *)
(***************************************************************************)

\* A mark names one revision: two live rows of an element on a version never
\* carry the same number, whatever requests were racing to append.
UniqueLiveMarks ==
    \A i, j \in used :
        Live(i) /\ Live(j) /\ row[i].key = row[j].key /\ row[i].mark = row[j].mark => i = j

\* latest_mark, which every query for the current annotations trusts, is on every
\* live row the highest live mark, between any two statements of any request.
LatestMarkCorrect ==
    \A i \in used : Live(i) => row[i].latest = LatestMark(used, row, row[i].key)

\* An element with a live revision always has one that the latest_mark filter
\* lets through: no interleaving makes it vanish from the lists.
ElementVisible ==
    \A k \in Keys : LiveRows(used, row, k) # {} =>
        \E i \in LiveRows(used, row, k) : row[i].mark = row[i].latest

\* A request on an earlier mark asks for the row of the element whose mark is the
\* latest_mark it read there (localization.py:442, state.py:526): while others
\* append, edit in place and delete, that query finds exactly one row.
EndOfBranchResolves ==
    \A i \in used : Live(i) /\ row[i].mark # row[i].latest =>
        \E j \in used : LatestRows(row[i]) = {j}

\* Each revision builds on the one before it: the edits an element has
\* accumulated, and its deletion, are never dropped by a later revision.
EditsAccumulate ==
    \A i, j \in used :
        Live(i) /\ Live(j) /\ row[i].key = row[j].key /\ row[i].mark < row[j].mark =>
            /\ row[i].val \subseteq row[j].val
            /\ row[i].vdel => row[j].vdel

\* A committed revision keeps its identity, its number and its content for good:
\* requests that append or prune never rewrite history, and a pruned row stays pruned.
HistoryKept ==
    \A i \in used : /\ i \in used'
                    /\ row'[i].key = row[i].key
                    /\ row'[i].mark = row[i].mark
                    /\ row'[i].vdel = row[i].vdel
                    /\ row'[i].val = row[i].val
                    /\ row[i].deleted => row'[i].deleted
HistoryIsImmutable == [][HistoryKept]_vars

(***************************************************************************)
(* The table implements the revision log.                                  *)
(***************************************************************************)
Content(i) == [val |-> row[i].val, vdel |-> row[i].vdel]

LogOf(k) == {[mark |-> row[i].mark, content |-> Content(i)] : i \in LiveRows(used, row, k)}

Log == INSTANCE RevisionLog WITH
           Contents <- [val : SUBSET Procs, vdel : BOOLEAN],
           log <- [k \in Keys |-> LogOf(k)]

ImplementsLog == Log!Spec
=============================================================================
