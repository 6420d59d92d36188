---------------------------- MODULE MarksProofs ----------------------------
(***************************************************************************)
(* Proofs about Marks, for every set of rows, keys and requests.           *)
(***************************************************************************)
EXTENDS Marks, TLAPS, WellFoundedInduction

(***************************************************************************)
(* The greatest mark exists                                                *)
(***************************************************************************)

\* A non-empty set of marks has a greatest element.
LEMMA GreatestExists ==
    ASSUME NEW M \in Nat, NEW S \in SUBSET (0 .. M), S # {}
    PROVE  \E m \in S : \A n \in S : n <= m
<1> DEFINE T == {M - n : n \in S}
           R == {ss \in Nat \X Nat : ss[1] < ss[2]}
<1>1. IsWellFoundedOn(R, Nat)
  BY NatLessThanWellFounded DEF OpToRel
<1>2. T \subseteq Nat
  OBVIOUS
<1>3. T # {}
  OBVIOUS
<1> HIDE DEF R, T
<1>4. PICK x \in T : \A y \in T : ~ (<<y, x>> \in R)
  BY <1>1, <1>2, <1>3, WFMin
<1>5. \A y \in T : ~(y < x)
  BY <1>2, <1>4 DEF R
<1>6. PICK m \in S : x = M - m
  BY DEF T
<1>7. ASSUME NEW n \in S PROVE n <= m
  <2>1. M - n \in T
    BY DEF T
  <2>2. QED
    BY <2>1, <1>5, <1>6
<1>8. QED
  BY <1>7

\* Max is that element.
LEMMA MaxIsGreatest ==
    ASSUME NEW S \in SUBSET Mark, S # {}
    PROVE  /\ Max(S) \in S
           /\ \A n \in S : n <= Max(S)
<1>1. \E m \in S : \A n \in S : m >= n
  <2>1. \E m \in S : \A n \in S : n <= m
    BY GreatestExists, MarksConstants DEF Mark
  <2>2. QED
    BY <2>1, MarksConstants DEF Mark
<1>2. /\ Max(S) \in S
      /\ \A n \in S : Max(S) >= n
  BY <1>1 DEF Max
<1>3. QED
  BY <1>2, MarksConstants DEF Mark

\* Only Max of sets of marks matters below.
LEMMA MarkIsNat == Mark \subseteq Nat /\ 0 \in Mark
  BY MarksConstants DEF Mark

\* What the triggers compute from a table of rows.
LEMMA TriggerValues ==
    ASSUME NEW u \in SUBSET Ids, NEW r \in [Ids -> Row], NEW k \in Keys
    PROVE  /\ LiveMarks(u, r, k) \subseteq Mark
           /\ LatestMark(u, r, k) \in Mark
           /\ NextMark(u, r, k) \in Nat
           /\ \A i \in LiveRows(u, r, k) : /\ r[i].mark <= LatestMark(u, r, k)
                                           /\ r[i].mark < NextMark(u, r, k)
<1>1. LiveMarks(u, r, k) \subseteq Mark
  BY DEF LiveMarks, LiveRows, Rows, Row
<1>2. CASE LiveMarks(u, r, k) = {}
  <2>1. \A i \in LiveRows(u, r, k) : FALSE
    BY <1>2 DEF LiveMarks
  <2>2. QED
    BY <1>1, <1>2, <2>1, MarkIsNat DEF LatestMark, NextMark
<1>3. CASE LiveMarks(u, r, k) # {}
  <2>1. /\ Max(LiveMarks(u, r, k)) \in LiveMarks(u, r, k)
        /\ \A n \in LiveMarks(u, r, k) : n <= Max(LiveMarks(u, r, k))
    BY <1>1, <1>3, MaxIsGreatest
  <2>2. \A i \in LiveRows(u, r, k) : r[i].mark \in LiveMarks(u, r, k)
    BY DEF LiveMarks
  <2>3. /\ LatestMark(u, r, k) = Max(LiveMarks(u, r, k))
        /\ NextMark(u, r, k) = Max(LiveMarks(u, r, k)) + 1
    BY <1>3 DEF LatestMark, NextMark
  <2> DEFINE top == Max(LiveMarks(u, r, k))
  <2> HIDE DEF top
  <2>4. top \in Mark /\ top \in Nat
    BY <1>1, <2>1, MarkIsNat DEF top
  <2>5. \A i \in LiveRows(u, r, k) : r[i].mark \in Nat /\ r[i].mark <= top
    BY <1>1, <2>1, <2>2, MarkIsNat DEF top
  <2>6. LatestMark(u, r, k) = top /\ NextMark(u, r, k) = top + 1
    BY <2>3 DEF top
  <2>7. QED
    BY <1>1, <2>4, <2>5, <2>6
<1>4. QED
  BY <1>2, <1>3

\* What stays of a row when a step rewrites the table.
SameColumns(r, t, j) ==
    /\ t[j].key = r[j].key
    /\ t[j].mark = r[j].mark
    /\ t[j].vdel = r[j].vdel
    /\ t[j].val = r[j].val

\* The AFTER trigger writes latest_mark and no other column.
LEMMA TriggerEffect ==
    ASSUME NEW u \in SUBSET Ids, NEW r \in [Ids -> Row], NEW k \in Keys
    PROVE  /\ AfterTrigger(u, r, k) \in [Ids -> Row]
           /\ \A i \in Ids : /\ SameColumns(r, AfterTrigger(u, r, k), i)
                             /\ AfterTrigger(u, r, k)[i].deleted = r[i].deleted
<1> DEFINE t == AfterTrigger(u, r, k)
<1>1. LatestMark(u, r, k) \in Mark
  BY TriggerValues
<1>2. t = [i \in Ids |-> IF i \in u /\ r[i].key = k
                         THEN [r[i] EXCEPT !.latest = LatestMark(u, r, k)]
                         ELSE r[i]]
  BY DEF AfterTrigger, Rows
<1> DEFINE m == LatestMark(u, r, k)
<1> HIDE DEF m, t
<1>3. \A i \in Ids : t[i] = IF i \in u /\ r[i].key = k THEN [r[i] EXCEPT !.latest = m] ELSE r[i]
  BY <1>2 DEF m
<1>4. m \in Mark
  BY <1>1 DEF m
<1>5. \A i \in Ids : t[i] \in Row
  BY <1>3, <1>4 DEF Row
<1>6. t \in [Ids -> Row]
  BY <1>2, <1>5
<1>7. \A i \in Ids : SameColumns(r, t, i) /\ t[i].deleted = r[i].deleted
  BY <1>3, <1>4 DEF SameColumns, Row
<1>8. QED
  BY <1>6, <1>7 DEF m, t

\* It writes the same latest_mark on every row of the key.
LEMMA TriggerLatest ==
    ASSUME NEW u \in SUBSET Ids, NEW r \in [Ids -> Row], NEW k \in Keys, NEW i \in u
    PROVE  /\ r[i].key = k => AfterTrigger(u, r, k)[i].latest = LatestMark(u, r, k)
           /\ r[i].key # k => AfterTrigger(u, r, k)[i].latest = r[i].latest
  BY DEF AfterTrigger, Rows, Row

\* Saving an object, and inserting one, leave a table of rows.
LEMMA TablesTyped ==
    ASSUME NEW u \in SUBSET Ids, NEW r \in [Ids -> Row], NEW i \in Ids, NEW o \in Row
    PROVE  /\ SaveRow(u, r, i, o) \in [Ids -> Row]
           /\ InsertRow(u, r, i, o) \in [Ids -> Row]
<1>1. /\ [r EXCEPT ![i] = o] \in [Ids -> Row]
      /\ o.key \in Keys
      /\ u \cup {i} \in SUBSET Ids
  BY DEF Row
<1>2. QED
  BY <1>1, TriggerEffect DEF SaveRow, InsertRow

(***************************************************************************)
(* Requests                                                                *)
(***************************************************************************)
LEMMA StartTyped ==
    ASSUME TypeOK, NEW p \in Procs, NEW stage \in Stages, NEW op \in AllOps,
           NEW src \in Ids \cup {NoId}, NEW obj \in Row,
           stage \in NeedsRow => src \in Ids,
           Start(p, stage, op, src, obj)
    PROVE  /\ job' \in [Procs -> {Idle} \cup Job]
           /\ \A q \in Procs : job'[q].stage \in NeedsRow => job'[q].src \in Ids
  BY DEF TypeOK, Start, Job

LEMMA FinishTyped ==
    ASSUME TypeOK, NEW p \in Procs, Finish(p)
    PROVE  /\ job' \in [Procs -> {Idle} \cup Job]
           /\ \A q \in Procs : job'[q].stage \in NeedsRow => job'[q].src \in Ids
  BY DEF TypeOK, Finish, Idle, NeedsRow

\* A request under way has an operation, a source and an object.
LEMMA JobFields ==
    ASSUME TypeOK, NEW p \in Procs, ~At(p, "idle")
    PROVE  /\ job[p].stage \in Stages
           /\ job[p].op \in AllOps
           /\ job[p].src \in Ids \cup {NoId}
           /\ job[p].obj \in Row
  BY DEF TypeOK, At, Idle, Job

LEMMA EditTyped ==
    ASSUME NEW o \in Row, NEW k \in Keys, NEW p \in Procs
    PROVE  /\ Edit(o, k, p) \in Row
           /\ [o EXCEPT !.vdel = TRUE] \in Row
           /\ [o EXCEPT !.deleted = TRUE] \in Row
           /\ [o EXCEPT !.key = k] \in Row
           /\ NewRow(k, {p}) \in Row
           /\ Targets(k) \subseteq Keys
  BY MarkIsNat DEF Edit, Row, NewRow, Targets

LEMMA RenumberTyped ==
    ASSUME NEW o \in Row
    PROVE  /\ [o EXCEPT !.mark = 0] \in Row
           /\ [o EXCEPT !.latest = 0] \in Row
           /\ \A m \in Nat : m <= MaxMark => [o EXCEPT !.mark = m] \in Row
<1>1. \A m \in Nat : m <= MaxMark => m \in Mark
  BY MarksConstants DEF Mark
<1>2. QED
  BY <1>1, MarkIsNat DEF Row

LEMMA InitTyped == Init => TypeOK
<1> SUFFICES ASSUME Init PROVE TypeOK
  OBVIOUS
<1>1. \A k \in Keys : NewRow(k, {}) \in Row
  BY MarkIsNat DEF NewRow, Row
<1>2. used \subseteq Ids /\ row \in [Ids -> Row]
  BY <1>1, MarksConstants DEF Init
<1>3. \A p \in Procs : job[p].stage \notin NeedsRow
  BY DEF Init, Idle, NeedsRow
<1>4. job \in [Procs -> {Idle} \cup Job]
  BY DEF Init
<1>5. QED
  BY <1>2, <1>3, <1>4 DEF TypeOK

\* One step of one request keeps the types.
LEMMA StepTyped ==
    ASSUME TypeOK, NEW p \in Procs, Step(p)
    PROVE  TypeOK'
<1> USE DEF Stages, AllOps, NeedsRow
<1>0. /\ used \in SUBSET Ids
      /\ row \in [Ids -> Row]
      /\ \A i \in Ids : row[i] \in Row /\ row[i].key \in Keys
  BY DEF TypeOK, Row
<1>1. CASE Post(p)
  <2>1. PICK k \in Keys : Start(p, "insert", "Post", NoId, NewRow(k, {p}))
    BY <1>1 DEF Post
  <2>2. NewRow(k, {p}) \in Row
    BY MarkIsNat DEF NewRow, Row
  <2>3. QED
    BY <1>0, <1>1, <2>1, <2>2, StartTyped DEF Post, TypeOK
<1>2. CASE PatchLatest(p)
  <2>1. PICK op \in Ops \cap {"Patch", "PatchInPlace"}, i \in Ids :
           \E k \in Targets(row[i].key) :
              Start(p, WriteStage(op), op, i, Edit(row[i], k, p))
    BY <1>2 DEF PatchLatest
  <2>2. PICK k \in Keys : Start(p, WriteStage(op), op, i, Edit(row[i], k, p))
    BY <1>0, <2>1, EditTyped
  <2>3. Edit(row[i], k, p) \in Row /\ WriteStage(op) \in {"insert", "save"}
    BY <1>0, EditTyped DEF WriteStage
  <2>4. QED
    BY <1>0, <1>2, <2>2, <2>3, StartTyped DEF PatchLatest, TypeOK
<1>3. CASE PatchEarlier(p)
  BY <1>0, <1>3, StartTyped DEF PatchEarlier, TypeOK
<1>4. CASE Resolve(p)
  <2>1. CASE Finish(p)
    BY <1>4, <2>1, FinishTyped DEF Resolve, TypeOK
  <2>2. CASE ~Finish(p)
    <3>1. ~At(p, "idle")
      BY <1>4 DEF Resolve, At
    <3>2. PICK j \in LatestRows(job[p].obj) : \E k \in Targets(job[p].obj.key) :
             Start(p, WriteStage(job[p].op), job[p].op, j, Edit(row[j], k, p))
      BY <1>4, <2>2 DEF Resolve
    <3>3. j \in Ids /\ job[p].obj.key \in Keys /\ job[p].op \in AllOps
      BY <1>0, <3>1, <3>2, JobFields DEF LatestRows, Rows, Row
    <3>4. PICK k \in Keys : Start(p, WriteStage(job[p].op), job[p].op, j, Edit(row[j], k, p))
      BY <1>0, <3>2, <3>3, EditTyped
    <3>5. Edit(row[j], k, p) \in Row /\ WriteStage(job[p].op) \in {"insert", "save"}
      BY <1>0, <3>3, EditTyped DEF WriteStage
    <3>6. QED
      BY <1>0, <1>4, <3>3, <3>4, <3>5, StartTyped DEF Resolve, TypeOK
  <2>3. QED
    BY <2>1, <2>2
<1>5. CASE Delete(p)
  BY <1>0, <1>5, StartTyped DEF Delete, TypeOK
<1>21. CASE DeleteState(p)
  <2>1. PICK i \in Ids : Start(p, "insert", "DeleteState", i, [row[i] EXCEPT !.vdel = TRUE])
    BY <1>21 DEF DeleteState
  <2>2. [row[i] EXCEPT !.vdel = TRUE] \in Row
    BY <1>0, EditTyped
  <2>3. QED
    BY <1>0, <1>21, <2>1, <2>2, StartTyped DEF DeleteState, TypeOK
<1>6. CASE DeleteReread(p)
  <2>1. CASE Finish(p)
    BY <1>6, <2>1, FinishTyped DEF DeleteReread, TypeOK
  <2>2. CASE ~Finish(p)
    <3> DEFINE i == job[p].src
    <3>1. Start(p, "insert", "Delete", i, [row[i] EXCEPT !.vdel = TRUE]) /\ i \in Ids
      BY <1>0, <1>6, <2>2 DEF DeleteReread, Live
    <3>2. [row[i] EXCEPT !.vdel = TRUE] \in Row
      BY <1>0, <3>1, EditTyped
    <3> HIDE DEF i
    <3>3. QED
      BY <1>0, <1>6, <3>1, <3>2, StartTyped DEF DeleteReread, TypeOK
  <2>3. QED
    BY <2>1, <2>2
<1>7. CASE Prune(p)
  BY <1>0, <1>7, StartTyped, EditTyped DEF Prune, TypeOK
<1>8. CASE BulkCopy(p)
  <2>1. PICK i \in Ids :
          \/ \E k \in Targets(row[i].key) : Start(p, "insert", "BulkPatch", i, Edit(row[i], k, p))
          \/ Start(p, "insert", "BulkDelete", i, [row[i] EXCEPT !.vdel = TRUE])
    BY <1>8 DEF BulkCopy
  <2>2. CASE \E k \in Targets(row[i].key) : Start(p, "insert", "BulkPatch", i, Edit(row[i], k, p))
    <3>1. PICK k \in Keys : Start(p, "insert", "BulkPatch", i, Edit(row[i], k, p))
      BY <1>0, <2>2, EditTyped
    <3>2. Edit(row[i], k, p) \in Row
      BY <1>0, EditTyped
    <3>3. QED
      BY <1>0, <1>8, <3>1, <3>2, StartTyped DEF BulkCopy, TypeOK
  <2>3. CASE Start(p, "insert", "BulkDelete", i, [row[i] EXCEPT !.vdel = TRUE])
    <3>1. [row[i] EXCEPT !.vdel = TRUE] \in Row
      BY <1>0, EditTyped
    <3>2. QED
      BY <1>0, <1>8, <2>3, <3>1, StartTyped DEF BulkCopy, TypeOK
  <2>4. QED
    BY <2>1, <2>2, <2>3
<1>9. CASE BulkSelect(p)
  <2>1. PICK op \in Ops \cap {"BulkUpdate", "BulkHide", "BulkPrune"}, i \in Ids, k \in Keys :
           Start(p, "update", op, i, [row[i] EXCEPT !.key = k])
    BY <1>0, <1>9, EditTyped DEF BulkSelect
  <2>2. [row[i] EXCEPT !.key = k] \in Row
    BY <1>0, EditTyped
  <2>3. QED
    BY <1>0, <1>9, <2>1, <2>2, StartTyped DEF BulkSelect, TypeOK
<1>10. CASE BulkWrite(p)
  <2> DEFINE i == job[p].src
             o == job[p].obj
             r1 == [row EXCEPT ![i].key = o.key, ![i].val = @ \cup {p}]
             r2 == [row EXCEPT ![i].vdel = TRUE]
             r3 == SaveRow(used, row, i, [row[i] EXCEPT !.deleted = TRUE])
  <2>1. i \in Ids /\ o \in Row /\ o.key \in Keys
    BY <1>10, JobFields DEF BulkWrite, TypeOK, At, Row
  <2>2. r1 \in [Ids -> Row] /\ r2 \in [Ids -> Row]
    BY <1>0, <2>1 DEF Row
  <2>3. r3 \in [Ids -> Row]
    BY <1>0, <2>1, EditTyped, TablesTyped
  <2>4. row' = r1 \/ row' = r2 \/ row' = r3
    BY <1>10 DEF BulkWrite
  <2> HIDE DEF i, o, r1, r2, r3
  <2>5. QED
    BY <1>0, <1>10, <2>2, <2>3, <2>4, FinishTyped DEF BulkWrite, TypeOK
<1>11. ASSUME NEW i \in Ids \ used, NEW o \in Row, ~At(p, "idle"),
              AfterCommit(p, i, o), used' = used \cup {i}, row' \in [Ids -> Row]
       PROVE  TypeOK'
  <2>1. Finish(p) \/ Start(p, "refetch", job[p].op, i, o)
    BY <1>11 DEF AfterCommit
  <2>2. QED
    BY <1>0, <1>11, <2>1, JobFields, StartTyped, FinishTyped DEF TypeOK
<1>12. CASE Insert(p)
  <2> DEFINE k == job[p].obj.key
             m == NextMark(used, row, k)
             o == [job[p].obj EXCEPT !.mark = m]
  <2>1. ~At(p, "idle") /\ k \in Keys /\ m \in Nat
    BY <1>0, <1>12, JobFields, TriggerValues DEF Insert, At, Row
  <2>2. o \in Row
    BY <1>12, <2>1, JobFields, RenumberTyped DEF Insert
  <2>3. PICK i \in Ids \ used : /\ used' = used \cup {i}
                                /\ row' = InsertRow(used, row, i, o)
                                /\ AfterCommit(p, i, o)
    BY <1>12 DEF Insert
  <2> HIDE DEF k, m, o
  <2>4. QED
    BY <1>0, <1>11, <2>1, <2>2, <2>3, TablesTyped
<1>13. CASE InsertFirst(p)
  <2>1. ~At(p, "idle")
    BY <1>13 DEF InsertFirst, At
  <2>2. [job[p].obj EXCEPT !.mark = 0] \in Row
    BY <2>1, JobFields, RenumberTyped
  <2>3. QED
    BY <1>0, <1>13, <2>1, <2>2, JobFields, StartTyped DEF InsertFirst, TypeOK
<1>14. CASE FirstMeetsOthers(p)
  <2>1. ~At(p, "idle")
    BY <1>14 DEF FirstMeetsOthers, At
  <2>2. PICK i \in Ids \ used : /\ used' = used \cup {i}
                                /\ row' = InsertRow(used, row, i, job[p].obj)
                                /\ AfterCommit(p, i, job[p].obj)
    BY <1>14 DEF FirstMeetsOthers
  <2>3. QED
    BY <1>0, <1>11, <2>1, <2>2, JobFields, TablesTyped
<1>15. CASE FirstAlone(p)
  <2>1. ~At(p, "idle")
    BY <1>15 DEF FirstAlone, At
  <2>2. [job[p].obj EXCEPT !.latest = 0] \in Row
    BY <2>1, JobFields, RenumberTyped
  <2>3. QED
    BY <1>0, <1>15, <2>1, <2>2, JobFields, StartTyped DEF FirstAlone, TypeOK
<1>16. CASE CommitFirst(p)
  <2>1. ~At(p, "idle")
    BY <1>16 DEF CommitFirst, At
  <2>2. PICK i \in Ids \ used : /\ used' = used \cup {i}
                                /\ row' = [row EXCEPT ![i] = job[p].obj]
                                /\ AfterCommit(p, i, job[p].obj)
    BY <1>16 DEF CommitFirst
  <2>3. QED
    BY <1>0, <1>11, <2>1, <2>2, JobFields
<1>17. CASE Refetch(p)
  <2>1. ~At(p, "idle") /\ job[p].src \in Ids
    BY <1>17 DEF Refetch, At, TypeOK
  <2>2. QED
    BY <1>0, <1>17, <2>1, JobFields, StartTyped DEF Refetch, TypeOK
<1>18. CASE Save(p)
  <2>1. ~At(p, "idle") /\ job[p].src \in Ids
    BY <1>18 DEF Save, At, TypeOK
  <2>2. Finish(p) \/ Start(p, "resave", "DeleteState", job[p].src, job[p].obj)
    BY <1>18 DEF Save
  <2>3. QED
    BY <1>0, <1>18, <2>1, <2>2, JobFields, TablesTyped, StartTyped, FinishTyped
       DEF Save, TypeOK
<1>22. CASE SaveAgain(p)
  <2>1. ~At(p, "idle") /\ job[p].src \in Ids
    BY <1>22 DEF SaveAgain, At, TypeOK
  <2>2. QED
    BY <1>0, <1>22, <2>1, JobFields, TablesTyped, FinishTyped DEF SaveAgain, TypeOK
<1>19. CASE Abort(p)
  BY <1>0, <1>19, FinishTyped DEF Abort, TypeOK
<1>20. QED
  BY <1>1, <1>2, <1>3, <1>4, <1>5, <1>6, <1>7, <1>8, <1>9, <1>10, <1>12, <1>13, <1>14,
     <1>15, <1>16, <1>17, <1>18, <1>19, <1>21, <1>22 DEF Step

\* Whatever clients call, rows and requests keep their types.
THEOREM TypeCorrect == Spec => []TypeOK
<1>1. Init => TypeOK
  BY InitTyped
<1>2. TypeOK /\ [Next]_vars => TypeOK'
  <2> SUFFICES ASSUME TypeOK, [Next]_vars PROVE TypeOK'
    OBVIOUS
  <2>1. CASE Next
    BY <2>1, StepTyped DEF Next
  <2>2. CASE UNCHANGED vars
    BY <2>2 DEF vars, TypeOK
  <2>3. QED
    BY <2>1, <2>2
<1>3. QED
  BY <1>1, <1>2, PTL DEF Spec

(***************************************************************************)
(* Appending and pruning                                                   *)
(*                                                                         *)
(* UniqueLiveMarks and LatestMarkCorrect are not inductive for every set   *)
(* of operations: two first revisions race, and a stale save brings back   *)
(* an old latest_mark (run MarksBulkRace).  They are when clients only     *)
(* append and prune and no key is empty, so that every insert finds a row  *)
(* to lock.                                                                *)
(***************************************************************************)
AppendOnly ==
    /\ Ops \subseteq AppendOps
    /\ \A k \in Keys : \E i \in SeedRows : SeedKey[i] = k

\* An object about to be saved is the row it was read from, but for the flag that
\* prunes it and a latest_mark that may be out of date.
PrunesItsRow(p) ==
    LET i == job[p].src
        o == job[p].obj
    IN  /\ i \in used
        /\ o.deleted
        /\ o.key = row[i].key
        /\ o.mark = row[i].mark
        /\ o.vdel = row[i].vdel
        /\ o.val = row[i].val

JobSettled(p) ==
    job[p].stage # "idle" =>
        /\ job[p].op \in AppendOps
        /\ job[p].stage \in {"resolve", "reread", "insert", "save", "update"}
        /\ job[p].stage = "resolve" => job[p].op = "Patch"
        /\ job[p].stage = "update" => job[p].op = "BulkPrune" /\ job[p].src \in used
        /\ job[p].stage = "save" => PrunesItsRow(p)

Settled ==
    /\ TypeOK
    /\ \A k \in Keys : \E i \in used : row[i].key = k
    /\ UniqueLiveMarks
    /\ LatestMarkCorrect
    /\ \A p \in Procs : JobSettled(p)

\* The triggers depend on the live rows of the key alone.
LEMMA SameLive ==
    ASSUME NEW u, NEW r, NEW v, NEW t, NEW k,
           \A j \in u : r[j].key = k /\ ~r[j].deleted =>
               j \in v /\ t[j].key = k /\ ~t[j].deleted /\ t[j].mark = r[j].mark,
           \A j \in v : t[j].key = k /\ ~t[j].deleted =>
               j \in u /\ r[j].key = k /\ ~r[j].deleted /\ t[j].mark = r[j].mark
    PROVE  /\ LiveRows(u, r, k) = LiveRows(v, t, k)
           /\ LiveMarks(u, r, k) = LiveMarks(v, t, k)
           /\ LatestMark(u, r, k) = LatestMark(v, t, k)
           /\ NextMark(u, r, k) = NextMark(v, t, k)
<1>1. LiveRows(u, r, k) = LiveRows(v, t, k)
  BY DEF LiveRows, Rows
<1>2. \A j \in LiveRows(u, r, k) : r[j].mark = t[j].mark
  BY DEF LiveRows, Rows
<1>3. LiveMarks(u, r, k) = LiveMarks(v, t, k)
  BY <1>1, <1>2 DEF LiveMarks
<1>4. QED
  BY <1>1, <1>3 DEF LatestMark, NextMark

\* Inserting an object under the next free mark keeps the two invariants.
LEMMA InsertKeeps ==
    ASSUME TypeOK, UniqueLiveMarks, LatestMarkCorrect,
           NEW i \in Ids \ used, NEW o \in Row, o.mark = NextMark(used, row, o.key),
           used' = used \cup {i}, row' = InsertRow(used, row, i, o)
    PROVE  /\ UniqueLiveMarks'
           /\ LatestMarkCorrect'
           /\ \A j \in used : SameColumns(row, row', j) /\ row'[j].deleted = row[j].deleted
           /\ SameColumns([j \in Ids |-> o], row', i) /\ row'[i].deleted = o.deleted
<1> DEFINE r == [row EXCEPT ![i] = o]
           u == used \cup {i}
           k == o.key
<1>1. /\ used \in SUBSET Ids
      /\ row \in [Ids -> Row]
      /\ r \in [Ids -> Row]
      /\ u \in SUBSET Ids
      /\ k \in Keys
      /\ row' = AfterTrigger(u, r, k)
  BY DEF TypeOK, InsertRow, Row
<1>2. /\ r[i] = o
      /\ \A j \in used : r[j] = row[j]
  BY <1>1
<1>3. /\ row' \in [Ids -> Row]
      /\ \A j \in Ids : SameColumns(r, row', j) /\ row'[j].deleted = r[j].deleted
      /\ \A j \in u : r[j].key = k => row'[j].latest = LatestMark(u, r, k)
      /\ \A j \in u : r[j].key # k => row'[j].latest = r[j].latest
  <2> DEFINE t == AfterTrigger(u, r, k)
  <2> HIDE DEF r, u, k
  <2>1. /\ t \in [Ids -> Row]
        /\ \A j \in Ids : SameColumns(r, t, j) /\ t[j].deleted = r[j].deleted
        /\ \A j \in u : r[j].key = k => t[j].latest = LatestMark(u, r, k)
        /\ \A j \in u : r[j].key # k => t[j].latest = r[j].latest
    <3>1. u \in SUBSET Ids /\ r \in [Ids -> Row] /\ k \in Keys
      BY <1>1
    <3>2. /\ t \in [Ids -> Row]
          /\ \A j \in Ids : SameColumns(r, t, j) /\ t[j].deleted = r[j].deleted
      BY <3>1, TriggerEffect
    <3>3. ASSUME NEW j \in u
          PROVE  /\ r[j].key = k => t[j].latest = LatestMark(u, r, k)
                 /\ r[j].key # k => t[j].latest = r[j].latest
      BY <3>1, TriggerLatest
    <3>4. QED
      BY <3>2, <3>3
  <2>2. row' = t
    BY <1>1
  <2> HIDE DEF t
  <2>3. QED
    BY <2>1, <2>2
<1>4. \A j \in used : SameColumns(row, row', j) /\ row'[j].deleted = row[j].deleted
  BY <1>1, <1>2, <1>3 DEF SameColumns
<1>5. SameColumns([j \in Ids |-> o], row', i) /\ row'[i].deleted = o.deleted
  BY <1>1, <1>2, <1>3 DEF SameColumns
<1>6. \A j \in used : Live(j) /\ row[j].key = k => row[j].mark < o.mark
  <2>1. \A j \in LiveRows(used, row, k) : row[j].mark < NextMark(used, row, k)
    <3> HIDE DEF k
    <3>1. QED
      BY <1>1, TriggerValues
  <2>2. QED
    BY <2>1 DEF LiveRows, Rows, Live
<1>7. UniqueLiveMarks'
  <2> SUFFICES ASSUME NEW a \in used', NEW b \in used', Live(a)', Live(b)',
                      row'[a].key = row'[b].key, row'[a].mark = row'[b].mark
               PROVE  a = b
    BY DEF UniqueLiveMarks
  <2>1. CASE a \in used /\ b \in used
    BY <1>4, <2>1 DEF UniqueLiveMarks, Live, SameColumns
  <2>2. CASE a = i /\ b \in used
    <3>1. row[b].mark = o.mark /\ row[b].key = k /\ Live(b)
      BY <1>1, <1>4, <1>5, <2>2 DEF Live, SameColumns
    <3>2. row[b].mark < o.mark
      BY <1>6, <2>2, <3>1
    <3>3. row[b].mark \in Nat
      BY <1>1, <2>2, MarkIsNat DEF Row
    <3>4. QED
      BY <3>1, <3>2, <3>3
  <2>3. CASE b = i /\ a \in used
    <3>1. row[a].mark = o.mark /\ row[a].key = k /\ Live(a)
      BY <1>1, <1>4, <1>5, <2>3 DEF Live, SameColumns
    <3>2. row[a].mark < o.mark
      BY <1>6, <2>3, <3>1
    <3>3. row[a].mark \in Nat
      BY <1>1, <2>3, MarkIsNat DEF Row
    <3>4. QED
      BY <3>1, <3>2, <3>3
  <2>4. QED
    BY <2>1, <2>2, <2>3
<1>8. \A l \in Keys : LatestMark(u, r, l) = LatestMark(u, row', l)
  <2>1. \A j \in u : /\ r[j].key = row'[j].key
                     /\ r[j].mark = row'[j].mark
                     /\ r[j].deleted = row'[j].deleted
    BY <1>1, <1>3 DEF SameColumns
  <2> HIDE DEF r, u
  <2>2. QED
    BY <2>1, SameLive
<1>9. \A l \in Keys : l # k => LatestMark(used, row, l) = LatestMark(u, r, l)
  <2>1. /\ \A j \in used : j \in u /\ r[j] = row[j]
        /\ \A j \in u : j \in used \/ r[j].key = k
    BY <1>2
  <2> HIDE DEF r, u, k
  <2>2. QED
    BY <2>1, SameLive
<1>10. LatestMarkCorrect'
  <2> SUFFICES ASSUME NEW j \in used', Live(j)'
               PROVE  row'[j].latest = LatestMark(u, row', row'[j].key)
    BY DEF LatestMarkCorrect
  <2>1. j \in u /\ j \in Ids /\ row'[j].key = r[j].key /\ r[j].key \in Keys
    BY <1>1, <1>3 DEF SameColumns, Row
  <2>2. CASE r[j].key = k
    BY <1>1, <1>3, <1>8, <2>1, <2>2
  <2>3. CASE r[j].key # k
    <3>1. j \in used /\ Live(j)
      BY <1>2, <1>4, <2>1, <2>3 DEF Live
    <3>2. row[j].latest = LatestMark(used, row, row[j].key)
      BY <3>1 DEF LatestMarkCorrect
    <3>3. QED
      BY <1>2, <1>3, <1>8, <1>9, <2>1, <2>3, <3>1, <3>2
  <2>4. QED
    BY <2>2, <2>3
<1>11. QED
  BY <1>4, <1>5, <1>7, <1>10

\* So does pruning a row, even from a copy that was read long before.
LEMMA PruneKeeps ==
    ASSUME TypeOK, UniqueLiveMarks, LatestMarkCorrect,
           NEW i \in used, NEW o \in Row, o.deleted,
           o.key = row[i].key, o.mark = row[i].mark, o.vdel = row[i].vdel, o.val = row[i].val,
           used' = used, row' = SaveRow(used, row, i, o)
    PROVE  /\ UniqueLiveMarks'
           /\ LatestMarkCorrect'
           /\ \A j \in used : SameColumns(row, row', j)
           /\ \A j \in used \ {i} : row'[j].deleted = row[j].deleted
           /\ row'[i].deleted
<1> DEFINE r == [row EXCEPT ![i] = o]
           k == o.key
<1>1. /\ used \in SUBSET Ids
      /\ i \in Ids
      /\ row \in [Ids -> Row]
      /\ r \in [Ids -> Row]
      /\ k \in Keys
  BY DEF TypeOK, Row
<1>2. /\ r[i] = o
      /\ \A j \in used \ {i} : r[j] = row[j]
  BY <1>1
<1>3. /\ \A j \in used : SameColumns(r, row', j) /\ row'[j].deleted = r[j].deleted
      /\ \/ /\ ~row[i].deleted
            /\ \A j \in used : r[j].key = k => row'[j].latest = LatestMark(used, r, k)
            /\ \A j \in used : r[j].key # k => row'[j].latest = r[j].latest
         \/ /\ row[i].deleted
            /\ row' = r
  <2>1. CASE row[i].deleted
    BY <1>1, <2>1 DEF SaveRow, SameColumns
  <2>2. CASE ~row[i].deleted
    <3>1. row' = AfterTrigger(used, r, k)
      BY <2>2 DEF SaveRow
    <3> HIDE DEF r, k
    <3>2. \A j \in used : SameColumns(r, row', j) /\ row'[j].deleted = r[j].deleted
      <4>1. \A j \in Ids : /\ SameColumns(r, AfterTrigger(used, r, k), j)
                           /\ AfterTrigger(used, r, k)[j].deleted = r[j].deleted
        BY <1>1, TriggerEffect
      <4>2. QED
        BY <1>1, <3>1, <4>1
    <3>3. ASSUME NEW j \in used
          PROVE  /\ r[j].key = k => row'[j].latest = LatestMark(used, r, k)
                 /\ r[j].key # k => row'[j].latest = r[j].latest
      BY <1>1, <3>1, TriggerLatest
    <3>4. /\ \A j \in used : r[j].key = k => row'[j].latest = LatestMark(used, r, k)
          /\ \A j \in used : r[j].key # k => row'[j].latest = r[j].latest
      BY <3>3
    <3>5. QED
      BY <2>2, <3>2, <3>4
  <2>3. QED
    BY <2>1, <2>2
<1>4. /\ \A j \in used : SameColumns(row, row', j)
      /\ \A j \in used \ {i} : row'[j].deleted = row[j].deleted
      /\ row'[i].deleted
  BY <1>1, <1>2, <1>3 DEF SameColumns
<1>5. \A j \in used : Live(j)' => Live(j) /\ j # i
  BY <1>4 DEF Live
<1>6. UniqueLiveMarks'
  BY <1>4, <1>5 DEF UniqueLiveMarks, SameColumns
<1>7. \A l \in Keys : LatestMark(used, r, l) = LatestMark(used, row', l)
  <2>1. \A j \in used : /\ r[j].key = row'[j].key
                        /\ r[j].mark = row'[j].mark
                        /\ r[j].deleted = row'[j].deleted
    BY <1>3 DEF SameColumns
  <2> HIDE DEF r
  <2>2. QED
    BY <2>1, SameLive
<1>8. \A l \in Keys : row[i].deleted \/ l # k => LatestMark(used, row, l) = LatestMark(used, r, l)
  <2>1. /\ \A j \in used \ {i} : r[j] = row[j]
        /\ r[i].key = k /\ row[i].key = k /\ r[i].deleted
    BY <1>2
  <2> HIDE DEF r, k
  <2>2. QED
    BY <2>1, SameLive
<1>9. LatestMarkCorrect'
  <2> SUFFICES ASSUME NEW j \in used, Live(j)'
               PROVE  row'[j].latest = LatestMark(used, row', row'[j].key)
    BY DEF LatestMarkCorrect
  <2>1. /\ Live(j) /\ j # i /\ j \in Ids
        /\ row'[j].key = r[j].key /\ r[j] = row[j] /\ r[j].key \in Keys
        /\ row[j].latest = LatestMark(used, row, row[j].key)
    BY <1>1, <1>2, <1>3, <1>5 DEF SameColumns, Row, LatestMarkCorrect
  <2> HIDE DEF r, k
  <2>2. CASE row[i].deleted
    BY <1>3, <1>7, <1>8, <2>1, <2>2
  <2>3. CASE ~row[i].deleted /\ r[j].key = k
    BY <1>1, <1>3, <1>7, <2>1, <2>3
  <2>4. CASE ~row[i].deleted /\ r[j].key # k
    BY <1>3, <1>7, <1>8, <2>1, <2>4
  <2>5. QED
    BY <2>2, <2>3, <2>4
<1>10. QED
  BY <1>4, <1>6, <1>9

\* A step of an appending or pruning client leaves the table alone, inserts one
\* object under the next free mark, or prunes one row.
Inserts(i, o) ==
    /\ o.mark = NextMark(used, row, o.key)
    /\ used' = used \cup {i}
    /\ row' = InsertRow(used, row, i, o)

Prunes(i, o) ==
    /\ o.deleted
    /\ o.key = row[i].key /\ o.mark = row[i].mark /\ o.vdel = row[i].vdel /\ o.val = row[i].val
    /\ used' = used
    /\ row' = SaveRow(used, row, i, o)

LEMMA TableStep ==
    ASSUME AppendOnly, Settled, NEW p \in Procs, Step(p)
    PROVE  \/ UNCHANGED <<used, row>>
           \/ \E i \in Ids \ used, o \in Row : Inserts(i, o)
           \/ \E i \in used, o \in Row : Prunes(i, o)
<1> USE DEF AppendOps
<1>1. /\ TypeOK
      /\ used \in SUBSET Ids
      /\ row \in [Ids -> Row]
      /\ JobSettled(p)
  BY DEF Settled, TypeOK
<1>2. CASE Insert(p)
  <2> DEFINE k == job[p].obj.key
             o == [job[p].obj EXCEPT !.mark = NextMark(used, row, k)]
  <2>1. ~At(p, "idle") /\ job[p].obj \in Row
    BY <1>1, <1>2, JobFields DEF Insert, At
  <2>2. k \in Keys /\ NextMark(used, row, k) \in Nat
    BY <1>1, <2>1, TriggerValues DEF Row
  <2>3. o \in Row
    BY <1>2, <2>1, <2>2, RenumberTyped DEF Insert
  <2>4. o.mark = NextMark(used, row, o.key)
    BY <2>1 DEF Row
  <2>5. PICK i \in Ids \ used : used' = used \cup {i} /\ row' = InsertRow(used, row, i, o)
    BY <1>2 DEF Insert
  <2>6. QED
    BY <2>3, <2>4, <2>5 DEF Inserts
<1>3. CASE Save(p)
  <2>1. /\ job[p].obj \in Row
        /\ PrunesItsRow(p)
    BY <1>1, <1>3, JobFields DEF Save, At, JobSettled
  <2>2. Prunes(job[p].src, job[p].obj) /\ job[p].src \in used
    BY <1>3, <2>1 DEF Save, PrunesItsRow, Prunes
  <2>3. QED
    BY <2>1, <2>2
<1>4. CASE BulkWrite(p)
  <2> DEFINE i == job[p].src
             o == [row[i] EXCEPT !.deleted = TRUE]
  <2>1. i \in used /\ job[p].op = "BulkPrune"
    BY <1>1, <1>4 DEF BulkWrite, At, JobSettled
  <2>2. row' = SaveRow(used, row, i, o) /\ used' = used
    BY <1>4, <2>1 DEF BulkWrite
  <2>3. o \in Row
    BY <1>1, <2>1, EditTyped DEF Row
  <2>4. Prunes(i, o)
    BY <1>1, <2>1, <2>2 DEF Prunes, Row
  <2>5. QED
    BY <2>1, <2>3, <2>4
<1>5. CASE FirstMeetsOthers(p) \/ CommitFirst(p) \/ SaveAgain(p)
  BY <1>1, <1>5 DEF FirstMeetsOthers, CommitFirst, SaveAgain, At, JobSettled
<1>6. QED
  BY <1>2, <1>3, <1>4, <1>5
     DEF Step, Post, PatchLatest, PatchEarlier, Resolve, Delete, DeleteReread, DeleteState,
         Prune, BulkCopy, BulkSelect, InsertFirst, FirstAlone, Refetch, Abort

\* What every such step keeps of the table.
LEMMA TableKept ==
    ASSUME Settled,
           \/ UNCHANGED <<used, row>>
           \/ \E i \in Ids \ used, o \in Row : Inserts(i, o)
           \/ \E i \in used, o \in Row : Prunes(i, o)
    PROVE  /\ UniqueLiveMarks'
           /\ LatestMarkCorrect'
           /\ \A j \in used : /\ j \in used'
                              /\ SameColumns(row, row', j)
                              /\ row[j].deleted => row'[j].deleted
<1>1. TypeOK /\ UniqueLiveMarks /\ LatestMarkCorrect
  BY DEF Settled
<1>2. CASE UNCHANGED <<used, row>>
  <2>1. UniqueLiveMarks'
    BY <1>1, <1>2 DEF UniqueLiveMarks, Live
  <2>2. LatestMarkCorrect'
    <3>1. used' = used /\ row' = row
      BY <1>2
    <3>2. QED
      BY <1>1, <3>1 DEF LatestMarkCorrect, Live
  <2>3. QED
    BY <1>2, <2>1, <2>2 DEF SameColumns
<1>3. ASSUME NEW i \in Ids \ used, NEW o \in Row, Inserts(i, o)
      PROVE  /\ UniqueLiveMarks'
             /\ LatestMarkCorrect'
             /\ \A j \in used : /\ j \in used'
                                /\ SameColumns(row, row', j)
                                /\ row[j].deleted => row'[j].deleted
  BY <1>1, <1>3, InsertKeeps DEF Inserts
<1>4. ASSUME NEW i \in used, NEW o \in Row, Prunes(i, o)
      PROVE  /\ UniqueLiveMarks'
             /\ LatestMarkCorrect'
             /\ \A j \in used : /\ j \in used'
                                /\ SameColumns(row, row', j)
                                /\ row[j].deleted => row'[j].deleted
  <2>1. /\ UniqueLiveMarks'
        /\ LatestMarkCorrect'
        /\ \A j \in used : SameColumns(row, row', j)
        /\ \A j \in used \ {i} : row'[j].deleted = row[j].deleted
        /\ row'[i].deleted
    BY <1>1, <1>4, PruneKeeps DEF Prunes
  <2>2. QED
    BY <1>4, <2>1 DEF Prunes
<1>5. QED
  BY <1>2, <1>3, <1>4

(***************************************************************************)
(* Requests stay settled                                                   *)
(***************************************************************************)
LEMMA JobAfter ==
    ASSUME TypeOK, NEW p \in Procs
    PROVE  /\ Finish(p) => /\ job'[p].stage = "idle"
                           /\ \A q \in Procs \ {p} : job'[q] = job[q]
           /\ \A stage, op, src, obj : Start(p, stage, op, src, obj) =>
                  /\ job'[p].stage = stage
                  /\ job'[p].op = op
                  /\ job'[p].src = src
                  /\ job'[p].obj = obj
                  /\ \A q \in Procs \ {p} : job'[q] = job[q]
  BY DEF TypeOK, Start, Finish, Idle

LEMMA OthersSettled ==
    ASSUME Settled, NEW q \in Procs, job'[q] = job[q],
           \A j \in used : j \in used' /\ SameColumns(row, row', j)
    PROVE  JobSettled(q)'
<1>1. JobSettled(q)
  BY DEF Settled
<1>2. PrunesItsRow(q) => PrunesItsRow(q)'
  BY DEF PrunesItsRow, SameColumns
<1>3. QED
  BY <1>1, <1>2 DEF JobSettled

LEMMA JobStep ==
    ASSUME AppendOnly, Settled, NEW p \in Procs, Step(p),
           \A j \in used : j \in used' /\ SameColumns(row, row', j)
    PROVE  \A q \in Procs : JobSettled(q)'
<1> USE DEF AppendOps
<1>1. TypeOK /\ JobSettled(p) /\ Ops \subseteq AppendOps
  BY DEF Settled, AppendOnly
<1>2. /\ JobSettled(p)'
      /\ \A q \in Procs \ {p} : job'[q] = job[q]
  <2>1. CASE Finish(p)
    BY <1>1, <2>1, JobAfter DEF JobSettled
  <2>2. CASE Post(p) \/ PatchLatest(p) \/ Delete(p) \/ DeleteState(p)
    BY <1>1, <2>2, JobAfter DEF Post, PatchLatest, Delete, DeleteState, WriteStage, JobSettled
  <2>3. CASE PatchEarlier(p)
    BY <1>1, <2>3, JobAfter DEF PatchEarlier, JobSettled
  <2>4. CASE Resolve(p) /\ ~Finish(p)
    <3>1. job[p].op = "Patch"
      BY <1>1, <2>4 DEF Resolve, At, JobSettled
    <3>2. \E j, o : Start(p, "insert", "Patch", j, o)
      BY <2>4, <3>1 DEF Resolve, WriteStage
    <3>3. QED
      BY <1>1, <3>2, JobAfter DEF JobSettled
  <2>5. CASE DeleteReread(p) /\ ~Finish(p)
    BY <1>1, <2>5, JobAfter DEF DeleteReread, JobSettled
  <2>6. CASE Prune(p)
    <3>1. PICK i \in used : Start(p, "save", "Prune", i, [row[i] EXCEPT !.deleted = TRUE])
      BY <2>6 DEF Prune
    <3>2. /\ job'[p].src = i
          /\ job'[p].obj = [row[i] EXCEPT !.deleted = TRUE]
          /\ job'[p].stage = "save"
          /\ job'[p].op = "Prune"
          /\ \A q \in Procs \ {p} : job'[q] = job[q]
      BY <1>1, <3>1, JobAfter
    <3>3. row[i] \in Row /\ used' = used /\ row' = row
      BY <1>1, <2>6 DEF Prune, TypeOK
    <3>4. PrunesItsRow(p)'
      BY <3>2, <3>3 DEF PrunesItsRow, Row
    <3>5. QED
      BY <3>2, <3>4 DEF JobSettled
  <2>7. CASE BulkCopy(p)
    <3>1. \E i, o : Start(p, "insert", "BulkDelete", i, o)
      BY <1>1, <2>7 DEF BulkCopy
    <3>2. QED
      BY <1>1, <3>1, JobAfter DEF JobSettled
  <2>8. CASE BulkSelect(p)
    <3>1. \E i \in used : \E o : Start(p, "update", "BulkPrune", i, o)
      BY <1>1, <2>8 DEF BulkSelect, Live
    <3>2. QED
      BY <1>1, <2>8, <3>1, JobAfter DEF BulkSelect, JobSettled
  <2>9. CASE Insert(p)
    <3>1. job[p].op \notin {"BulkPatch", "DeleteState"}
      BY <1>1, <2>9 DEF Insert, At, JobSettled
    <3>2. Finish(p)
      BY <2>9, <3>1 DEF Insert, AfterCommit
    <3>3. QED
      BY <2>1, <3>2
  <2>10. CASE InsertFirst(p)
    <3>1. job[p].obj.key \in Keys
      BY <1>1, <2>10, JobFields DEF InsertFirst, At, Row
    <3>2. Rows(used, row, job[p].obj.key) # {}
      BY <3>1 DEF Settled, Rows
    <3>3. QED
      BY <2>10, <3>2 DEF InsertFirst
  <2>11. CASE \/ FirstMeetsOthers(p) \/ FirstAlone(p) \/ CommitFirst(p)
              \/ Refetch(p) \/ SaveAgain(p)
    BY <1>1, <2>11
       DEF FirstMeetsOthers, FirstAlone, CommitFirst, Refetch, SaveAgain, At, JobSettled
  <2>12. CASE Save(p)
    <3>1. job[p].op # "DeleteState"
      BY <1>1, <2>12 DEF Save, At, JobSettled
    <3>2. QED
      BY <2>1, <2>12, <3>1 DEF Save
  <2>14. CASE BulkWrite(p) \/ Abort(p)
    BY <2>1, <2>14 DEF BulkWrite, Abort
  <2>13. QED
    BY <2>1, <2>2, <2>3, <2>4, <2>5, <2>6, <2>7, <2>8, <2>9, <2>10, <2>11, <2>12, <2>14 DEF Step
<1>3. QED
  BY <1>2, OthersSettled

LEMMA StepSettled ==
    ASSUME AppendOnly, Settled, NEW p \in Procs, Step(p)
    PROVE  Settled'
<1>1. TypeOK'
  BY StepTyped DEF Settled
<1>2. /\ UniqueLiveMarks'
      /\ LatestMarkCorrect'
      /\ \A j \in used : j \in used' /\ SameColumns(row, row', j)
  BY TableStep, TableKept
<1>3. \A k \in Keys : \E i \in used' : row'[i].key = k
  BY <1>2 DEF Settled, SameColumns
<1>4. \A q \in Procs : JobSettled(q)'
  BY <1>2, JobStep
<1>5. QED
  BY <1>1, <1>2, <1>3, <1>4 DEF Settled

LEMMA InitSettled ==
    ASSUME AppendOnly, Init
    PROVE  Settled
<1>1. TypeOK
  BY InitTyped
<1>2. /\ used = SeedRows
      /\ SeedRows \subseteq Ids
      /\ \A i \in Ids : row[i] = NewRow(SeedKey[i], {})
      /\ \A i, j \in SeedRows : SeedKey[i] = SeedKey[j] => i = j
  BY MarksConstants DEF Init
<1>3. \A i \in Ids : /\ row[i].key = SeedKey[i] /\ SeedKey[i] \in Keys
                     /\ row[i].mark = 0 /\ row[i].latest = 0 /\ ~row[i].deleted
  <2>1. \A i \in Ids : SeedKey[i] \in Keys
    BY MarksConstants
  <2>2. \A k \in Keys : /\ NewRow(k, {}).key = k /\ NewRow(k, {}).mark = 0
                        /\ NewRow(k, {}).latest = 0 /\ ~NewRow(k, {}).deleted
    BY DEF NewRow
  <2>3. QED
    BY <1>2, <2>1, <2>2
<1>4. \A k \in Keys : \E i \in used : row[i].key = k
  BY <1>2, <1>3 DEF AppendOnly
<1>5. UniqueLiveMarks
  BY <1>2, <1>3 DEF UniqueLiveMarks
<1>6. LatestMarkCorrect
  <2> SUFFICES ASSUME NEW i \in used PROVE row[i].latest = LatestMark(used, row, row[i].key)
    BY DEF LatestMarkCorrect
  <2> DEFINE k == row[i].key
  <2>1. /\ used \in SUBSET Ids /\ row \in [Ids -> Row] /\ k \in Keys
        /\ LiveMarks(used, row, k) \subseteq {0}
    BY <1>1, <1>2, <1>3 DEF TypeOK, LiveMarks, LiveRows, Rows
  <2>2. LatestMark(used, row, k) = 0
    <3>1. CASE LiveMarks(used, row, k) = {}
      BY <3>1 DEF LatestMark
    <3>2. CASE LiveMarks(used, row, k) # {}
      <4>1. LiveMarks(used, row, k) \in SUBSET Mark
        BY <2>1, TriggerValues
      <4>2. Max(LiveMarks(used, row, k)) \in LiveMarks(used, row, k)
        BY <3>2, <4>1, MaxIsGreatest
      <4>3. QED
        BY <2>1, <3>2, <4>2 DEF LatestMark
    <3>3. QED
      BY <3>1, <3>2
  <2>3. QED
    BY <1>2, <1>3, <2>2
<1>7. \A p \in Procs : JobSettled(p)
  BY DEF Init, Idle, JobSettled
<1>8. QED
  BY <1>1, <1>4, <1>5, <1>6, <1>7 DEF Settled

\* The strengthening that appending and pruning keep.
THEOREM AlwaysSettled ==
    ASSUME AppendOnly
    PROVE  Spec => []Settled
<1>1. Init => Settled
  BY InitSettled
<1>2. Settled /\ [Next]_vars => Settled'
  <2> SUFFICES ASSUME Settled, [Next]_vars PROVE Settled'
    OBVIOUS
  <2>1. CASE Next
    BY <2>1, StepSettled DEF Next
  <2>2. CASE UNCHANGED vars
    <3>1. TypeOK'
      BY <2>2 DEF vars, Settled, TypeOK
    <3>2. UniqueLiveMarks' /\ LatestMarkCorrect'
      BY <2>2, TableKept DEF vars
    <3>3. \A q \in Procs : JobSettled(q)'
      BY <2>2, OthersSettled DEF vars, SameColumns
    <3>4. QED
      BY <2>2, <3>1, <3>2, <3>3 DEF vars, Settled
  <2>3. QED
    BY <2>1, <2>2
<1>3. QED
  BY <1>1, <1>2, PTL DEF Spec

\* Requests that only append and prune never give two live revisions of an
\* element the same number, however many of them race.
THEOREM MarksAreUnique ==
    ASSUME AppendOnly
    PROVE  Spec => []UniqueLiveMarks
<1>1. Settled => UniqueLiveMarks
  BY DEF Settled
<1>2. QED
  BY <1>1, AlwaysSettled, PTL

\* And every live revision names the highest live mark as the latest.
THEOREM LatestIsRight ==
    ASSUME AppendOnly
    PROVE  Spec => []LatestMarkCorrect
<1>1. Settled => LatestMarkCorrect
  BY DEF Settled
<1>2. QED
  BY <1>1, AlwaysSettled, PTL

\* They never rewrite a committed revision and never bring a pruned one back.
THEOREM HistoryStays ==
    ASSUME AppendOnly
    PROVE  Spec => HistoryIsImmutable
<1>1. Settled /\ [Next]_vars => [HistoryKept]_vars
  <2> SUFFICES ASSUME Settled, Next PROVE HistoryKept
    OBVIOUS
  <2>1. PICK p \in Procs : Step(p)
    BY DEF Next
  <2>2. QED
    BY <2>1, TableStep, TableKept DEF HistoryKept, SameColumns
<1>2. QED
  BY <1>1, AlwaysSettled, PTL DEF Spec, HistoryIsImmutable

(***************************************************************************)
(* Edits in place                                                          *)
(*                                                                         *)
(* When clients also save rows in place, latest_mark may be out of date,   *)
(* and first revisions that race have the same number 0.  As long as no    *)
(* revision is pruned and none moves to another element, a row says of     *)
(* itself a mark that is there and not below its own; and so does any copy *)
(* of a row that a request is about to save, however old it is.            *)
(***************************************************************************)
RowsStay == Ops \cap {"Prune", "BulkPrune"} = {} /\ ~Retarget

HasMark(k, m) == \E j \in used : row[j].key = k /\ row[j].mark = m

RowKept(i) ==
    /\ ~row[i].deleted
    /\ row[i].mark <= row[i].latest
    /\ HasMark(row[i].key, row[i].latest)

RowsKept == \A i \in used : RowKept(i)

\* Only the first number is given twice.
UniqueAboveFirst ==
    \A i, j \in used :
        row[i].key = row[j].key /\ row[i].mark = row[j].mark /\ row[i].mark # 0 => i = j

\* An object to save is a copy, of whatever age, of the row it will overwrite.
CopyOf(o, i) ==
    /\ ~o.deleted
    /\ o.key = row[i].key /\ o.mark = row[i].mark
    /\ o.mark <= o.latest /\ HasMark(o.key, o.latest)

\* What a request holds in memory, by its stage
HoldsRow(j) ==
    /\ j.stage \in {"reread", "refetch", "save", "resave", "update"} => j.src \in used
    /\ j.stage \in {"save", "resave"} => CopyOf(j.obj, j.src)
    /\ j.stage = "update" => j.obj.key = row[j.src].key
    /\ j.stage = "update" => j.op \in {"BulkUpdate", "BulkHide"}
    /\ j.stage \in {"insert", "first", "uncommitted"} => ~j.obj.deleted
    /\ j.stage \in {"first", "uncommitted"} => j.obj.mark = 0
    /\ j.stage = "uncommitted" => j.obj.latest = 0

Orderly ==
    /\ TypeOK
    /\ RowsKept
    /\ UniqueAboveFirst
    /\ \A p \in Procs : HoldsRow(job[p])

\* Identity and number of every row, kept by every step
IdsKept == \A j \in used : /\ j \in used'
                           /\ row'[j].key = row[j].key
                           /\ row'[j].mark = row[j].mark

LEMMA MarkStays ==
    ASSUME IdsKept, NEW k, NEW m, HasMark(k, m)
    PROVE  HasMark(k, m)'
  BY DEF IdsKept, HasMark

LEMMA HoldsStays ==
    ASSUME IdsKept, NEW j, HoldsRow(j)
    PROVE  HoldsRow(j)'
<1>1. j.stage \in {"save", "resave"} => CopyOf(j.obj, j.src)'
  <2> SUFFICES ASSUME j.stage \in {"save", "resave"} PROVE CopyOf(j.obj, j.src)'
    OBVIOUS
  <2>1. CopyOf(j.obj, j.src) /\ j.src \in used
    BY DEF HoldsRow
  <2>2. HasMark(j.obj.key, j.obj.latest)'
    BY <2>1, MarkStays DEF CopyOf
  <2>3. QED
    BY <2>1, <2>2 DEF CopyOf, IdsKept
<1>2. QED
  BY <1>1 DEF HoldsRow, IdsKept

\* A row of a table with no deleted row is live, so the triggers count it.
LEMMA InsertOrderly ==
    ASSUME TypeOK, RowsKept, UniqueAboveFirst, NEW i \in Ids \ used, NEW o \in Row, ~o.deleted,
           o.mark = 0 \/ o.mark = NextMark(used, row, o.key),
           used' = used \cup {i}, row' = InsertRow(used, row, i, o)
    PROVE  RowsKept' /\ UniqueAboveFirst' /\ IdsKept
<1> DEFINE u == used \cup {i}
           r == [row EXCEPT ![i] = o]
           k == o.key
           L == LatestMark(u, r, k)
<1>1. /\ used \in SUBSET Ids /\ row \in [Ids -> Row] /\ k \in Keys
      /\ u \in SUBSET Ids /\ r \in [Ids -> Row]
      /\ \A j \in used : j # i /\ r[j] = row[j]
      /\ r[i] = o
  BY DEF TypeOK, Row
<1>2. \A j \in u : ~r[j].deleted
  BY <1>1 DEF RowsKept, RowKept
<1>3. \A j \in u : /\ row'[j].key = r[j].key
                   /\ row'[j].mark = r[j].mark
                   /\ row'[j].deleted = r[j].deleted
                   /\ r[j].key = k => row'[j].latest = L
                   /\ r[j].key # k => row'[j].latest = r[j].latest
  <2>1. row' = AfterTrigger(u, r, k)
    BY DEF InsertRow
  <2> HIDE DEF r, k, u
  <2>2. \A j \in Ids : SameColumns(r, row', j) /\ row'[j].deleted = r[j].deleted
    <3>1. \A j \in Ids : /\ SameColumns(r, AfterTrigger(u, r, k), j)
                         /\ AfterTrigger(u, r, k)[j].deleted = r[j].deleted
      BY <1>1, TriggerEffect
    <3>2. QED
      BY <2>1, <3>1 DEF SameColumns
  <2>3. \A j \in u : /\ r[j].key = k => row'[j].latest = L
                     /\ r[j].key # k => row'[j].latest = r[j].latest
    BY <1>1, <2>1, TriggerLatest
  <2>4. QED
    BY <1>1, <2>2, <2>3 DEF SameColumns
<1>4. IdsKept
  BY <1>1, <1>3 DEF IdsKept
<1>5. \A j \in u : r[j].key = k => j \in LiveRows(u, r, k)
  BY <1>2 DEF LiveRows, Rows
<1>6. \E j \in u : r[j].key = k /\ r[j].mark = L
  <2>1. i \in LiveRows(u, r, k)
    BY <1>1, <1>5
  <2>2. r[i].mark \in LiveMarks(u, r, k) /\ LiveMarks(u, r, k) \in SUBSET Mark
    BY <1>1, <2>1, TriggerValues DEF LiveMarks
  <2>3. L \in LiveMarks(u, r, k)
    BY <2>2, MaxIsGreatest DEF LatestMark
  <2>4. QED
    BY <2>3 DEF LiveMarks, LiveRows, Rows
<1>7. \A j \in u : r[j].key = k => r[j].mark <= L
  BY <1>1, <1>5, TriggerValues
<1>8. \A j \in used : row[j].key = k /\ o.mark # 0 => row[j].mark < o.mark
  <2> SUFFICES ASSUME NEW j \in used, row[j].key = k, o.mark # 0 PROVE row[j].mark < o.mark
    OBVIOUS
  <2>1. j \in LiveRows(used, row, k)
    BY DEF LiveRows, Rows, RowsKept, RowKept
  <2>2. QED
    BY <1>1, <2>1, TriggerValues
<1> HIDE DEF L, r, k
<1>9. RowsKept'
  <2> SUFFICES ASSUME NEW j \in u
               PROVE  RowKept(j)'
    BY DEF RowsKept
  <2>1. ~row'[j].deleted
    BY <1>2, <1>3
  <2>2. CASE r[j].key = k
    <3>1. row'[j].latest = L /\ row'[j].mark <= L /\ row'[j].key = k
      BY <1>3, <1>7, <2>2
    <3>2. \E l \in used' : row'[l].key = k /\ row'[l].mark = L
      BY <1>3, <1>6
    <3>3. QED
      BY <2>1, <3>1, <3>2 DEF RowKept, HasMark
  <2>3. CASE r[j].key # k
    <3>1. j \in used /\ r[j] = row[j]
      BY <1>1, <2>3 DEF k
    <3>2. /\ row'[j].key = row[j].key /\ row'[j].mark = row[j].mark
          /\ row'[j].latest = row[j].latest
      BY <1>3, <2>3, <3>1
    <3>3. row[j].mark <= row[j].latest /\ HasMark(row[j].key, row[j].latest)
      BY <3>1 DEF RowsKept, RowKept
    <3>4. HasMark(row[j].key, row[j].latest)'
      BY <1>4, <3>2, <3>3 DEF IdsKept, HasMark
    <3>5. QED
      BY <2>1, <3>2, <3>3, <3>4 DEF RowKept
  <2>4. QED
    BY <2>2, <2>3
<1>10. UniqueAboveFirst'
  <2> SUFFICES ASSUME NEW j \in u, NEW l \in u, r[j].key = r[l].key,
                      r[j].mark = r[l].mark, r[j].mark # 0
               PROVE  j = l
    BY <1>3 DEF UniqueAboveFirst
  <2>1. CASE j \in used /\ l \in used
    BY <1>1, <2>1 DEF UniqueAboveFirst
  <2>2. \A n \in used : r[n].mark \in Nat /\ (r[n].key = k /\ o.mark # 0 => r[n].mark < o.mark)
    BY <1>1, <1>8, MarkIsNat DEF Row
  <2>3. CASE j = i /\ l \in used
    BY <1>1, <2>2, <2>3 DEF k
  <2>4. CASE l = i /\ j \in used
    BY <1>1, <2>2, <2>4 DEF k
  <2>5. QED
    BY <2>1, <2>3, <2>4
<1>11. QED
  BY <1>4, <1>9, <1>10

\* Two first revisions of an element that did not see each other
LEMMA CommitOrderly ==
    ASSUME TypeOK, RowsKept, UniqueAboveFirst, NEW i \in Ids \ used, NEW o \in Row, ~o.deleted,
           o.mark = 0, o.latest = 0,
           used' = used \cup {i}, row' = [row EXCEPT ![i] = o]
    PROVE  RowsKept' /\ UniqueAboveFirst' /\ IdsKept
<1>1. /\ row'[i] = o
      /\ \A j \in used : j # i /\ row'[j] = row[j]
  BY DEF TypeOK
<1>2. IdsKept
  BY <1>1 DEF IdsKept
<1>3. ASSUME NEW j \in used
      PROVE  RowKept(j)'
  <2>1. ~row[j].deleted /\ row[j].mark <= row[j].latest /\ HasMark(row[j].key, row[j].latest)
    BY DEF RowsKept, RowKept
  <2>2. HasMark(row[j].key, row[j].latest)'
    BY <1>2, <2>1, MarkStays
  <2>3. QED
    BY <1>1, <2>1, <2>2 DEF RowKept
<1>4. HasMark(o.key, o.latest)'
  BY <1>1 DEF HasMark
<1>5. RowsKept'
  BY <1>1, <1>3, <1>4 DEF RowsKept, RowKept
<1>6. UniqueAboveFirst'
  BY <1>1 DEF UniqueAboveFirst
<1>7. QED
  BY <1>2, <1>5, <1>6

\* A copy of a row saved over it, however old
LEMMA SaveOrderly ==
    ASSUME TypeOK, RowsKept, UniqueAboveFirst, NEW i \in used, NEW o \in Row, CopyOf(o, i),
           used' = used, row' = [row EXCEPT ![i] = o]
    PROVE  RowsKept' /\ UniqueAboveFirst' /\ IdsKept
<1>1. /\ row'[i] = o
      /\ \A j \in used : j # i => row'[j] = row[j]
  BY DEF TypeOK
<1>2. IdsKept
  BY <1>1 DEF IdsKept, CopyOf
<1>3. ASSUME NEW j \in used
      PROVE  RowKept(j)'
  <2>1. CASE j = i
    <3>1. HasMark(o.key, o.latest)'
      BY <1>2, MarkStays DEF CopyOf
    <3>2. QED
      BY <1>1, <2>1, <3>1 DEF CopyOf, RowKept
  <2>2. CASE j # i
    <3>1. ~row[j].deleted /\ row[j].mark <= row[j].latest /\ HasMark(row[j].key, row[j].latest)
      BY DEF RowsKept, RowKept
    <3>2. HasMark(row[j].key, row[j].latest)'
      BY <1>1, <1>2, <2>2, <3>1 DEF IdsKept, HasMark
    <3>3. QED
      BY <1>1, <2>2, <3>1, <3>2 DEF RowKept
  <2>3. QED
    BY <2>1, <2>2
<1>4. RowsKept'
  BY <1>3 DEF RowsKept
<1>5. UniqueAboveFirst'
  BY <1>2 DEF UniqueAboveFirst, IdsKept
<1>6. QED
  BY <1>2, <1>4, <1>5

(***************************************************************************)
(* Requests that edit in place                                             *)
(***************************************************************************)

\* A row, and a row edited or marked for deletion, is a copy of the row.
LEMMA RowIsCopy ==
    ASSUME TypeOK, RowsKept, NEW i \in used, NEW p \in Procs
    PROVE  /\ CopyOf(row[i], i)
           /\ CopyOf(Edit(row[i], row[i].key, p), i)
           /\ ~[row[i] EXCEPT !.vdel = TRUE].deleted
<1>1. row[i] \in Row /\ RowKept(i)
  BY DEF TypeOK, RowsKept
<1>2. PICK o : o = row[i]
  OBVIOUS
<1>3. /\ Edit(o, o.key, p).deleted = o.deleted /\ Edit(o, o.key, p).key = o.key
      /\ Edit(o, o.key, p).mark = o.mark /\ Edit(o, o.key, p).latest = o.latest
      /\ [o EXCEPT !.vdel = TRUE].deleted = o.deleted
  BY <1>1, <1>2 DEF Edit, Row
<1>4. QED
  BY <1>1, <1>2, <1>3 DEF RowKept, CopyOf

LEMMA StartHolds ==
    ASSUME TypeOK, NEW p \in Procs, NEW stage, NEW op, NEW src, NEW obj,
           Start(p, stage, op, src, obj),
           stage \in {"reread", "refetch", "save", "resave", "update"} => src \in used',
           stage \in {"save", "resave"} => CopyOf(obj, src)',
           stage = "update" => op \in {"BulkUpdate", "BulkHide"} /\ obj.key = row'[src].key,
           stage \in {"insert", "first", "uncommitted"} => ~obj.deleted,
           stage \in {"first", "uncommitted"} => obj.mark = 0,
           stage = "uncommitted" => obj.latest = 0
    PROVE  /\ HoldsRow(job[p])'
           /\ \A q \in Procs \ {p} : job'[q] = job[q]
<1>1. PICK j : j = job'[p]
  OBVIOUS
<1>2. /\ j.stage = stage /\ j.op = op /\ j.src = src /\ j.obj = obj
      /\ \A q \in Procs \ {p} : job'[q] = job[q]
  BY <1>1, JobAfter
<1>3. HoldsRow(j)'
  BY <1>2 DEF HoldsRow
<1>4. QED
  BY <1>1, <1>2, <1>3 DEF HoldsRow

LEMMA FinishHolds ==
    ASSUME TypeOK, NEW p \in Procs, Finish(p)
    PROVE  /\ HoldsRow(job[p])'
           /\ \A q \in Procs \ {p} : job'[q] = job[q]
<1>1. PICK j : j = job'[p]
  OBVIOUS
<1>2. j.stage = "idle" /\ \A q \in Procs \ {p} : job'[q] = job[q]
  BY <1>1, JobAfter
<1>3. QED
  BY <1>1, <1>2 DEF HoldsRow

\* What one step of a request does to the table
LEMMA TableOrderly ==
    ASSUME RowsStay, Orderly, NEW p \in Procs, Step(p)
    PROVE  RowsKept' /\ UniqueAboveFirst' /\ IdsKept
<1>1. /\ TypeOK /\ RowsKept /\ UniqueAboveFirst
      /\ used \in SUBSET Ids /\ row \in [Ids -> Row]
  BY DEF Orderly, TypeOK
<1>2. PICK j : j = job[p]
  OBVIOUS
<1>3. HoldsRow(j)
  BY <1>2 DEF Orderly
<1>4. CASE UNCHANGED <<used, row>>
  <2>1. IdsKept /\ UniqueAboveFirst'
    BY <1>1, <1>4 DEF IdsKept, UniqueAboveFirst
  <2>2. \A i \in used : RowKept(i) => RowKept(i)'
    BY <1>4 DEF RowKept, HasMark
  <2>3. QED
    BY <1>1, <1>4, <2>1, <2>2 DEF RowsKept
<1>5. CASE Insert(p)
  <2>1. ~At(p, "idle") /\ j.stage = "insert"
    BY <1>2, <1>5 DEF Insert, At
  <2>2. j.obj \in Row /\ j.obj.key \in Keys /\ ~j.obj.deleted
    BY <1>1, <1>2, <1>3, <2>1, JobFields DEF HoldsRow, Row
  <2>3. PICK m : m = NextMark(used, row, j.obj.key)
    OBVIOUS
  <2>4. m \in Nat /\ m <= MaxMark
    BY <1>1, <1>2, <1>5, <2>2, <2>3, TriggerValues DEF Insert
  <2>5. PICK o : o = [j.obj EXCEPT !.mark = m]
    OBVIOUS
  <2>6. o \in Row
    BY <2>2, <2>4, <2>5, RenumberTyped
  <2>7. ~o.deleted /\ o.key = j.obj.key /\ o.mark = m
    BY <2>2, <2>5 DEF Row
  <2>8. PICK i \in Ids \ used : used' = used \cup {i} /\ row' = InsertRow(used, row, i, o)
    BY <1>2, <1>5, <2>3, <2>5 DEF Insert
  <2>9. QED
    BY <1>1, <2>3, <2>6, <2>7, <2>8, InsertOrderly
<1>6. CASE FirstMeetsOthers(p)
  <2>1. ~At(p, "idle") /\ j.stage = "first"
    BY <1>2, <1>6 DEF FirstMeetsOthers, At
  <2>2. j.obj \in Row /\ ~j.obj.deleted /\ j.obj.mark = 0
    BY <1>1, <1>2, <1>3, <2>1, JobFields DEF HoldsRow
  <2>3. PICK i \in Ids \ used : used' = used \cup {i} /\ row' = InsertRow(used, row, i, j.obj)
    BY <1>2, <1>6 DEF FirstMeetsOthers
  <2>4. QED
    BY <1>1, <2>2, <2>3, InsertOrderly
<1>7. CASE CommitFirst(p)
  <2>1. ~At(p, "idle") /\ j.stage = "uncommitted"
    BY <1>2, <1>7 DEF CommitFirst, At
  <2>2. j.obj \in Row /\ ~j.obj.deleted /\ j.obj.mark = 0 /\ j.obj.latest = 0
    BY <1>1, <1>2, <1>3, <2>1, JobFields DEF HoldsRow
  <2>3. PICK i \in Ids \ used : used' = used \cup {i} /\ row' = [row EXCEPT ![i] = j.obj]
    BY <1>2, <1>7 DEF CommitFirst
  <2>4. QED
    BY <1>1, <2>2, <2>3, CommitOrderly
<1>8. CASE Save(p) \/ SaveAgain(p)
  <2>1. ~At(p, "idle") /\ j.stage \in {"save", "resave"}
    BY <1>2, <1>8 DEF Save, SaveAgain, At
  <2>2. j.obj \in Row /\ CopyOf(j.obj, j.src) /\ j.src \in used
    BY <1>1, <1>2, <1>3, <2>1, JobFields DEF HoldsRow
  <2>3. used' = used /\ row' = SaveRow(used, row, j.src, j.obj)
    BY <1>2, <1>8 DEF Save, SaveAgain
  <2>4. row' = [row EXCEPT ![j.src] = j.obj]
    BY <2>2, <2>3 DEF SaveRow, CopyOf
  <2>5. QED
    BY <1>1, <2>2, <2>3, <2>4, SaveOrderly
<1>9. CASE BulkWrite(p)
  <2>1. j.stage = "update"
    BY <1>2, <1>9 DEF BulkWrite, At
  <2>2. j.op \in {"BulkUpdate", "BulkHide"} /\ j.obj.key = row[j.src].key /\ j.src \in used
    BY <1>3, <2>1 DEF HoldsRow
  <2>3. PICK i \in used : i = j.src
    BY <2>2
  <2>4. PICK x : x = row[i]
    OBVIOUS
  <2>5. x \in Row /\ x.key = j.obj.key /\ CopyOf(x, i)
    BY <1>1, <2>2, <2>3, <2>4, RowIsCopy
  <2>6. PICK o : o = IF j.op = "BulkUpdate" THEN [x EXCEPT !.key = j.obj.key, !.val = @ \cup {p}]
                     ELSE [x EXCEPT !.vdel = TRUE]
    OBVIOUS
  <2>7. o \in Row /\ o.deleted = x.deleted /\ o.key = x.key /\ o.mark = x.mark /\ o.latest = x.latest
    BY <2>5, <2>6 DEF Row
  <2>8. CopyOf(o, i)
    BY <2>5, <2>7 DEF CopyOf
  <2>9. used' = used /\ row' = [row EXCEPT ![i] = o]
    BY <1>1, <1>2, <1>9, <2>2, <2>3, <2>4, <2>6 DEF BulkWrite
  <2>10. QED
    BY <1>1, <2>7, <2>8, <2>9, SaveOrderly
<1>10. QED
  BY <1>4, <1>5, <1>6, <1>7, <1>8, <1>9
     DEF Step, Post, PatchLatest, PatchEarlier, Resolve, Delete, DeleteReread, DeleteState,
         Prune, BulkCopy, BulkSelect, InsertFirst, FirstAlone, Refetch, Abort

\* What it leaves in the request's memory
LEMMA JobOrderly ==
    ASSUME RowsStay, Orderly, NEW p \in Procs, Step(p), IdsKept
    PROVE  \A q \in Procs : HoldsRow(job[q])'
<1>1. /\ TypeOK /\ RowsKept
      /\ used \in SUBSET Ids /\ row \in [Ids -> Row]
      /\ \A i \in used : row[i] \in Row
  BY DEF Orderly, TypeOK
<1>2. PICK j : j = job[p]
  OBVIOUS
<1>3. HoldsRow(j)
  BY <1>2 DEF Orderly
<1>4. \A k : Targets(k) = {k}
  BY DEF RowsStay, Targets
<1>5. \A i \in used : /\ CopyOf(row[i], i) /\ CopyOf(Edit(row[i], row[i].key, p), i)
                      /\ ~[row[i] EXCEPT !.vdel = TRUE].deleted
                      /\ ~Edit(row[i], row[i].key, p).deleted
  BY <1>1, RowIsCopy DEF CopyOf
<1>6. ASSUME UNCHANGED <<used, row>>, NEW o, NEW i, CopyOf(o, i)
      PROVE  CopyOf(o, i)'
  BY <1>6 DEF CopyOf, HasMark
<1> DEFINE Held == /\ HoldsRow(job[p])'
                   /\ \A q \in Procs \ {p} : job'[q] = job[q]
<1> SUFFICES Held
  <2>1. ASSUME Held, NEW q \in Procs \ {p} PROVE HoldsRow(job[q])'
    <3>1. PICK h : h = job[q]
      OBVIOUS
    <3>2. HoldsRow(h)'
      BY <3>1, HoldsStays DEF Orderly
    <3>3. h = job'[q]
      BY <2>1, <3>1
    <3>4. QED
      BY <3>2, <3>3 DEF HoldsRow
  <2>2. QED
    BY <2>1
<1>7. CASE Finish(p)
  BY <1>1, <1>7, FinishHolds
<1>8. CASE Post(p)
  <2>1. PICK k \in Keys : Start(p, "insert", "Post", NoId, NewRow(k, {p}))
    BY <1>8 DEF Post
  <2>2. ~NewRow(k, {p}).deleted
    BY DEF NewRow
  <2>3. QED
    BY <1>1, <2>1, <2>2, StartHolds
<1>9. CASE PatchLatest(p)
  <2>1. PICK op \in Ops, i \in used : Start(p, WriteStage(op), op, i, Edit(row[i], row[i].key, p))
    BY <1>4, <1>9 DEF PatchLatest, Live
  <2>2. PICK o : o = Edit(row[i], row[i].key, p)
    OBVIOUS
  <2>3. CopyOf(o, i) /\ CopyOf(o, i)' /\ ~o.deleted
    BY <1>5, <1>6, <1>9, <2>2 DEF PatchLatest
  <2>4. WriteStage(op) \in {"insert", "save"} /\ used' = used
    BY <1>9 DEF WriteStage, PatchLatest
  <2>5. Start(p, WriteStage(op), op, i, o)
    BY <2>1, <2>2
  <2>6. QED
    BY <1>1, <2>3, <2>4, <2>5, StartHolds
<1>10. CASE PatchEarlier(p)
  <2>1. \E op, i, o : Start(p, "resolve", op, i, o)
    BY <1>10 DEF PatchEarlier
  <2>2. QED
    BY <1>1, <2>1, StartHolds
<1>11. CASE Resolve(p) /\ ~Finish(p)
  <2>1. PICK i \in used : /\ row[i].key = j.obj.key
                          /\ Start(p, WriteStage(j.op), j.op, i, Edit(row[i], j.obj.key, p))
    BY <1>2, <1>4, <1>11 DEF Resolve, LatestRows, Rows
  <2>2. PICK o : o = Edit(row[i], row[i].key, p)
    OBVIOUS
  <2>3. CopyOf(o, i) /\ CopyOf(o, i)' /\ ~o.deleted
    BY <1>5, <1>6, <1>11, <2>2 DEF Resolve
  <2>4. WriteStage(j.op) \in {"insert", "save"} /\ used' = used
    BY <1>11 DEF WriteStage, Resolve
  <2>5. Start(p, WriteStage(j.op), j.op, i, o)
    BY <2>1, <2>2
  <2>6. QED
    BY <1>1, <2>3, <2>4, <2>5, StartHolds
<1>12. CASE Delete(p)
  <2>1. \E i \in used : \E o : Start(p, "reread", "Delete", i, o)
    BY <1>12 DEF Delete, Live
  <2>2. QED
    BY <1>1, <1>12, <2>1, StartHolds DEF Delete
<1>13. CASE (DeleteReread(p) /\ ~Finish(p)) \/ DeleteState(p)
  <2>1. PICK i \in used : \E op : Start(p, "insert", op, i, [row[i] EXCEPT !.vdel = TRUE])
    BY <1>13 DEF DeleteReread, DeleteState, Live
  <2>2. QED
    BY <1>1, <1>5, <2>1, StartHolds
<1>14. CASE BulkCopy(p)
  <2>1. PICK i \in used, op \in AllOps :
           \/ Start(p, "insert", op, i, Edit(row[i], row[i].key, p))
           \/ Start(p, "insert", op, i, [row[i] EXCEPT !.vdel = TRUE])
    BY <1>4, <1>14 DEF BulkCopy, Listed, Live, AllOps
  <2>2. QED
    BY <1>1, <1>5, <2>1, StartHolds
<1>15. CASE BulkSelect(p)
  <2>1. PICK op \in {"BulkUpdate", "BulkHide"}, i \in used :
           Start(p, "update", op, i, [row[i] EXCEPT !.key = row[i].key])
    BY <1>4, <1>15 DEF BulkSelect, Live, RowsStay
  <2>2. [row[i] EXCEPT !.key = row[i].key].key = row[i].key
    BY <1>1 DEF Row
  <2>3. used' = used /\ row' = row
    BY <1>15 DEF BulkSelect
  <2>4. QED
    BY <1>1, <2>1, <2>2, <2>3, StartHolds
<1>16. ASSUME NEW i \in used', NEW o, AfterCommit(p, i, o)
       PROVE  Held
  <2>1. Finish(p) \/ \E op : Start(p, "refetch", op, i, o)
    BY <1>16 DEF AfterCommit
  <2>2. QED
    BY <1>1, <1>7, <2>1, StartHolds
<1>17. CASE Insert(p) \/ FirstMeetsOthers(p) \/ CommitFirst(p)
  <2>1. \E i \in used' : \E o : AfterCommit(p, i, o)
    BY <1>17 DEF Insert, FirstMeetsOthers, CommitFirst
  <2>2. QED
    BY <1>16, <2>1
<1>18. CASE InsertFirst(p)
  <2>1. PICK o : o = [j.obj EXCEPT !.mark = 0]
    OBVIOUS
  <2>2. j.obj \in Row /\ ~j.obj.deleted
    BY <1>1, <1>2, <1>3, <1>18, JobFields DEF InsertFirst, At, HoldsRow
  <2>3. o.mark = 0 /\ ~o.deleted
    BY <2>1, <2>2 DEF Row
  <2>4. Start(p, "first", j.op, j.src, o)
    BY <1>2, <1>18, <2>1 DEF InsertFirst
  <2>5. QED
    BY <1>1, <2>3, <2>4, StartHolds
<1>19. CASE FirstAlone(p)
  <2>1. PICK o : o = [j.obj EXCEPT !.latest = 0]
    OBVIOUS
  <2>2. j.obj \in Row /\ ~j.obj.deleted /\ j.obj.mark = 0
    BY <1>1, <1>2, <1>3, <1>19, JobFields DEF FirstAlone, At, HoldsRow
  <2>3. o.mark = 0 /\ o.latest = 0 /\ ~o.deleted
    BY <2>1, <2>2 DEF Row
  <2>4. Start(p, "uncommitted", j.op, j.src, o)
    BY <1>2, <1>19, <2>1 DEF FirstAlone
  <2>5. QED
    BY <1>1, <2>3, <2>4, StartHolds
<1>20. CASE Refetch(p)
  <2>1. j.src \in used
    BY <1>2, <1>3, <1>20 DEF Refetch, At, HoldsRow
  <2>2. PICK i, o : i = j.src /\ o = row[i]
    OBVIOUS
  <2>3. CopyOf(o, i)' /\ i \in used'
    BY <1>5, <1>6, <1>20, <2>1, <2>2 DEF Refetch
  <2>4. Start(p, "save", j.op, i, o)
    BY <1>2, <1>20, <2>2 DEF Refetch
  <2>5. QED
    BY <1>1, <2>3, <2>4, StartHolds
<1>21. CASE Save(p)
  <2>1. PICK i, o : i = j.src /\ o = j.obj
    OBVIOUS
  <2>2. CopyOf(o, i) /\ i \in used
    BY <1>2, <1>3, <1>21, <2>1 DEF Save, At, HoldsRow
  <2>3. HasMark(o.key, o.latest)'
    BY <2>2, MarkStays DEF CopyOf
  <2>4. CopyOf(o, i)' /\ i \in used'
    BY <2>2, <2>3 DEF CopyOf, IdsKept
  <2>5. Start(p, "resave", "DeleteState", i, o) \/ Finish(p)
    BY <1>2, <1>21, <2>1 DEF Save
  <2>6. QED
    BY <1>1, <1>7, <2>4, <2>5, StartHolds
<1>22. CASE Prune(p)
  BY <1>22 DEF Prune, RowsStay
<1>23. CASE BulkWrite(p) \/ SaveAgain(p) \/ Abort(p)
  BY <1>7, <1>23 DEF BulkWrite, SaveAgain, Abort
<1>24. QED
  BY <1>7, <1>8, <1>9, <1>10, <1>11, <1>12, <1>13, <1>14, <1>15, <1>17, <1>18, <1>19, <1>20,
     <1>21, <1>22, <1>23 DEF Step

LEMMA InitOrderly == Init => Orderly
<1> SUFFICES ASSUME Init PROVE Orderly
  OBVIOUS
<1>1. TypeOK
  BY InitTyped
<1>2. /\ used = SeedRows
      /\ \A i \in Ids : row[i] = NewRow(SeedKey[i], {})
      /\ used \subseteq Ids
  BY MarksConstants DEF Init
<1>3. \A i \in used : /\ row[i].mark = 0 /\ row[i].latest = 0 /\ ~row[i].deleted
  <2>1. \A k : NewRow(k, {}).mark = 0 /\ NewRow(k, {}).latest = 0 /\ ~NewRow(k, {}).deleted
    BY DEF NewRow
  <2>2. QED
    BY <1>2, <2>1
<1>4. RowsKept
  BY <1>3 DEF RowsKept, RowKept, HasMark
<1>5. UniqueAboveFirst
  BY <1>3 DEF UniqueAboveFirst
<1>6. \A p \in Procs : HoldsRow(job[p])
  BY DEF Init, Idle, HoldsRow
<1>7. QED
  BY <1>1, <1>4, <1>5, <1>6 DEF Orderly

\* The strengthening that edits in place keep.
THEOREM AlwaysOrderly ==
    ASSUME RowsStay
    PROVE  Spec => []Orderly
<1>1. Init => Orderly
  BY InitOrderly
<1>2. Orderly /\ [Next]_vars => Orderly'
  <2> SUFFICES ASSUME Orderly, [Next]_vars PROVE Orderly'
    OBVIOUS
  <2>1. CASE Next
    <3>1. PICK p \in Procs : Step(p)
      BY <2>1 DEF Next
    <3>2. TypeOK'
      BY <3>1, StepTyped DEF Orderly
    <3>3. RowsKept' /\ UniqueAboveFirst' /\ IdsKept
      BY <3>1, TableOrderly
    <3>4. \A q \in Procs : HoldsRow(job[q])'
      BY <3>1, <3>3, JobOrderly
    <3>5. QED
      BY <3>2, <3>3, <3>4 DEF Orderly
  <2>2. CASE UNCHANGED vars
    BY <2>2 DEF vars, Orderly, TypeOK, RowsKept, RowKept, UniqueAboveFirst, HoldsRow, CopyOf, HasMark
  <2>3. QED
    BY <2>1, <2>2
<1>3. QED
  BY <1>1, <1>2, PTL DEF Spec

\* Edits in place race with appends and deletions, and still an element that has
\* a row never vanishes from the lists: the row with its highest mark names
\* itself the latest, because it names a mark that is there and not below its own.
THEOREM ElementsStayVisible ==
    ASSUME RowsStay
    PROVE  Spec => []ElementVisible
<1>1. Orderly => ElementVisible
  <2> SUFFICES ASSUME Orderly, NEW k \in Keys, LiveRows(used, row, k) # {}
               PROVE  \E i \in LiveRows(used, row, k) : row[i].mark = row[i].latest
    BY DEF ElementVisible
  <2>1. /\ used \in SUBSET Ids /\ row \in [Ids -> Row] /\ RowsKept
        /\ \A i \in used : row[i].mark \in Nat /\ row[i].latest \in Nat
    BY MarkIsNat DEF Orderly, TypeOK, Row
  <2>2. PICK M : M = LiveMarks(used, row, k)
    OBVIOUS
  <2>3. M \in SUBSET Mark /\ M # {}
    BY <2>1, <2>2, TriggerValues DEF LiveMarks
  <2>4. PICK top : top = Max(M)
    OBVIOUS
  <2>5. top \in M /\ \A n \in M : n <= top
    BY <2>3, <2>4, MaxIsGreatest
  <2>6. PICK i \in LiveRows(used, row, k) : row[i].mark = top
    BY <2>2, <2>5 DEF LiveMarks
  <2>7. i \in used /\ row[i].key = k /\ top <= row[i].latest /\ HasMark(k, row[i].latest)
    BY <2>1, <2>6 DEF LiveRows, Rows, RowsKept, RowKept
  <2>8. PICK j \in used : row[j].key = k /\ row[j].mark = row[i].latest
    BY <2>7 DEF HasMark
  <2>9. row[j].mark \in M
    BY <2>1, <2>2, <2>8 DEF LiveMarks, LiveRows, Rows, RowsKept, RowKept
  <2>10. row[i].latest <= top
    BY <2>5, <2>8, <2>9
  <2>11. QED
    BY <2>1, <2>6, <2>7, <2>10
<1>2. QED
  BY <1>1, AlwaysOrderly, PTL

\* A request on an earlier mark finds its way to the end of the branch: the row
\* names a mark above its own, hence above the first, that is there exactly once.
THEOREM BranchEndsResolve ==
    ASSUME RowsStay
    PROVE  Spec => []EndOfBranchResolves
<1>1. Orderly => EndOfBranchResolves
  <2> SUFFICES ASSUME Orderly, NEW i \in used, row[i].mark # row[i].latest
               PROVE  \E j \in used : LatestRows(row[i]) = {j}
    BY DEF EndOfBranchResolves
  <2>1. /\ row[i].mark \in Nat /\ row[i].latest \in Nat
        /\ RowKept(i)
    BY MarkIsNat DEF Orderly, TypeOK, Row, RowsKept
  <2>2. PICK j \in used : row[j].key = row[i].key /\ row[j].mark = row[i].latest
    BY <2>1 DEF RowKept, HasMark
  <2>3. row[j].mark # 0
    BY <2>1, <2>2 DEF RowKept
  <2>4. \A l \in LatestRows(row[i]) : l = j
    BY <2>2, <2>3 DEF LatestRows, Rows, Orderly, UniqueAboveFirst
  <2>5. j \in LatestRows(row[i])
    BY <2>2 DEF LatestRows, Rows
  <2>6. QED
    BY <2>4, <2>5
<1>2. QED
  BY <1>1, AlwaysOrderly, PTL

(***************************************************************************)
(* Marks implements RevisionLog                                            *)
(*                                                                         *)
(* The table of rows, with its triggers and the requests that append and   *)
(* prune, implements the revision log, for every set of rows, keys and     *)
(* requests.                                                               *)
(***************************************************************************)

EntryOf(o) == [mark |-> o.mark, content |-> [val |-> o.val, vdel |-> o.vdel]]

LEMMA LogEntries ==
    \A k \in Keys : LogOf(k) = {EntryOf(row[i]) : i \in LiveRows(used, row, k)}
  BY DEF LogOf, Content, EntryOf

\* The same, one step later.
LEMMA LogEntriesNext ==
    \A k \in Keys : LogOf(k)' = {EntryOf(row'[i]) : i \in LiveRows(used', row', k)}
  BY DEF LogOf, Content, EntryOf, LiveRows, Rows

\* A log whose live rows and their entries stay is the same.
LEMMA SameLog ==
    ASSUME NEW k \in Keys,
           LiveRows(used', row', k) = LiveRows(used, row, k),
           \A j \in LiveRows(used, row, k) : EntryOf(row'[j]) = EntryOf(row[j])
    PROVE  LogOf(k)' = LogOf(k)
<1>1. {EntryOf(row'[j]) : j \in LiveRows(used, row, k)}
          = {EntryOf(row[j]) : j \in LiveRows(used, row, k)}
  OBVIOUS
<1>2. QED
  BY <1>1, LogEntries, LogEntriesNext

LEMMA EntryTyped ==
    ASSUME NEW o \in Row
    PROVE  /\ EntryOf(o).mark = o.mark
           /\ EntryOf(o).content \in [val : SUBSET Procs, vdel : BOOLEAN]
  BY DEF EntryOf, Row

\* Rows with the same columns are the same entry.
LEMMA SameEntry ==
    ASSUME NEW r, NEW t, NEW j, SameColumns(r, t, j)
    PROVE  EntryOf(t[j]) = EntryOf(r[j])
  BY DEF SameColumns, EntryOf

\* The end of a log is the mark that the trigger computes.
LEMMA EndIsNextMark ==
    ASSUME NEW k \in Keys
    PROVE  Log!End(LogOf(k)) = NextMark(used, row, k)
<1>1. Log!Numbers(LogOf(k)) = LiveMarks(used, row, k)
  <2>1. \A o : EntryOf(o).mark = o.mark
    BY DEF EntryOf
  <2>2. {e.mark : e \in LogOf(k)} = {row[i].mark : i \in LiveRows(used, row, k)}
    BY <2>1, LogEntries
  <2>3. QED
    BY <2>2 DEF Log!Numbers, LiveMarks
<1>2. LogOf(k) = {} <=> Log!Numbers(LogOf(k)) = {}
  BY DEF Log!Numbers
<1>3. \A S : Log!Max(S) = Max(S)
  BY DEF Log!Max, Max
<1>4. QED
  BY <1>1, <1>2, <1>3 DEF Log!End, NextMark

\* An insert appends to the log of its key, or leaves it alone when it copies a
\* pruned row.
LEMMA InsertAppends ==
    ASSUME Settled, NEW i \in Ids \ used, NEW o \in Row, Inserts(i, o)
    PROVE  /\ Log!Append(LogOf(o.key), LogOf(o.key)') \/ LogOf(o.key)' = LogOf(o.key)
           /\ \A k \in Keys \ {o.key} : LogOf(k)' = LogOf(k)
<1>1. /\ \A j \in used : SameColumns(row, row', j) /\ row'[j].deleted = row[j].deleted
      /\ SameColumns([j \in Ids |-> o], row', i) /\ row'[i].deleted = o.deleted
      /\ used' = used \cup {i}
  BY InsertKeeps DEF Inserts, Settled
<1>2. /\ row'[i].key = o.key
      /\ EntryOf(row'[i]) = EntryOf(o)
  BY <1>1 DEF SameColumns, EntryOf
<1>3. \A j \in used : row'[j].key = row[j].key /\ EntryOf(row'[j]) = EntryOf(row[j])
  BY <1>1, SameEntry DEF SameColumns
<1>4. \A k \in Keys : LiveRows(used', row', k) =
          IF k = o.key /\ ~o.deleted THEN LiveRows(used, row, k) \cup {i}
          ELSE LiveRows(used, row, k)
  BY <1>1, <1>2, <1>3 DEF LiveRows, Rows
<1>5. \A k \in Keys : \A j \in LiveRows(used, row, k) : j \in used /\ j # i
  BY DEF LiveRows, Rows
<1>6. \A k \in Keys \ {o.key} : LogOf(k)' = LogOf(k)
  BY <1>3, <1>4, <1>5, SameLog
<1>7. o.key \in Keys
  BY DEF Row
<1>8. CASE o.deleted
  BY <1>3, <1>4, <1>5, <1>6, <1>7, <1>8, SameLog
<1>9. CASE ~o.deleted
  <2> DEFINE before == LogOf(o.key)
             after == LogOf(o.key)'
  <2>1. after = before \cup {EntryOf(o)}
    BY <1>2, <1>3, <1>4, <1>5, <1>7, <1>9, LogEntries, LogEntriesNext
  <2>2. EntryOf(o).mark = Log!End(before)
    BY <1>7, EndIsNextMark, EntryTyped DEF Inserts
  <2>3. EntryOf(o) \notin before
    <3>1. \A j \in LiveRows(used, row, o.key) : row[j].mark < o.mark /\ row[j].mark \in Nat
      <4>1. used \in SUBSET Ids /\ row \in [Ids -> Row]
        BY DEF Settled, TypeOK
      <4>2. \A j \in LiveRows(used, row, o.key) : row[j].mark < NextMark(used, row, o.key)
        BY <1>7, <4>1, TriggerValues
      <4>3. \A j \in LiveRows(used, row, o.key) : row[j].mark \in Nat
        BY <4>1, MarkIsNat DEF LiveRows, Rows, Row
      <4>4. QED
        BY <4>2, <4>3 DEF Inserts
    <3>2. \A j \in LiveRows(used, row, o.key) : EntryOf(row[j]) # EntryOf(o)
      BY <3>1 DEF EntryOf
    <3>3. QED
      BY <1>7, <3>2, LogEntries
  <2>4. Log!Append(before, after)
    BY <2>1, <2>2, <2>3, EntryTyped DEF Log!Append
  <2>5. QED
    BY <1>6, <2>4
<1>10. QED
  BY <1>8, <1>9

\* A prune withdraws one entry, or none when the row is pruned already.
LEMMA PruneWithdraws ==
    ASSUME Settled, NEW i \in used, NEW o \in Row, Prunes(i, o),
           NEW k \in Keys, k = row[i].key
    PROVE  /\ Log!Withdraw(LogOf(k), LogOf(k)') \/ LogOf(k)' = LogOf(k)
           /\ \A l \in Keys \ {k} : LogOf(l)' = LogOf(l)
<1>1. /\ \A j \in used : SameColumns(row, row', j)
      /\ \A j \in used \ {i} : row'[j].deleted = row[j].deleted
      /\ row'[i].deleted
      /\ used' = used
  BY PruneKeeps DEF Prunes, Settled
<1>2. \A j \in used : row'[j].key = row[j].key /\ EntryOf(row'[j]) = EntryOf(row[j])
  BY <1>1, SameEntry DEF SameColumns
<1>3. \A l \in Keys : LiveRows(used', row', l) = LiveRows(used, row, l) \ {i}
  BY <1>1, <1>2 DEF LiveRows, Rows
<1>4. \A l \in Keys : \A j \in LiveRows(used, row, l) : j \in used /\ row[j].key = l
  BY DEF LiveRows, Rows
<1>5. \A l \in Keys \ {k} : LogOf(l)' = LogOf(l)
  <2> SUFFICES ASSUME NEW l \in Keys \ {k} PROVE LogOf(l)' = LogOf(l)
    OBVIOUS
  <2>1. i \notin LiveRows(used, row, l)
    BY <1>4
  <2>2. LiveRows(used', row', l) = LiveRows(used, row, l)
    BY <1>3, <2>1
  <2>3. \A j \in LiveRows(used, row, l) : EntryOf(row'[j]) = EntryOf(row[j])
    BY <1>2, <1>4
  <2>4. QED
    BY <2>2, <2>3, SameLog
<1>6. CASE row[i].deleted
  <2>1. i \notin LiveRows(used, row, k)
    BY <1>6 DEF LiveRows
  <2>2. QED
    BY <1>2, <1>3, <1>4, <1>5, <2>1, SameLog
<1>7. CASE ~row[i].deleted
  <2> DEFINE e == EntryOf(row[i])
  <2>1. i \in LiveRows(used, row, k)
    BY <1>7 DEF LiveRows, Rows
  <2>2. \A j \in LiveRows(used, row, k) \ {i} : EntryOf(row[j]) # e
    <3>1. \A j \in LiveRows(used, row, k) \ {i} : row[j].mark # row[i].mark
      BY <2>1 DEF Settled, UniqueLiveMarks, Live, LiveRows, Rows
    <3>2. QED
      BY <3>1 DEF EntryOf
  <2>3. LogOf(k)' = LogOf(k) \ {e}
    <3> DEFINE L == LiveRows(used, row, k)
    <3>1. LogOf(k)' = {EntryOf(row'[j]) : j \in L \ {i}}
      BY <1>3, LogEntriesNext
    <3>2. \A j \in L : EntryOf(row'[j]) = EntryOf(row[j])
      BY <1>2, <1>4
    <3>3. LogOf(k) = {EntryOf(row[j]) : j \in L}
      BY LogEntries
    <3> HIDE DEF L, e
    <3>4. {EntryOf(row'[j]) : j \in L \ {i}} = {EntryOf(row[j]) : j \in L \ {i}}
      BY <3>2
    <3>5. {EntryOf(row[j]) : j \in L \ {i}} = {EntryOf(row[j]) : j \in L} \ {e}
      BY <2>1, <2>2 DEF L, e
    <3>6. QED
      BY <3>1, <3>3, <3>4, <3>5
  <2>4. e \in LogOf(k)
    BY <2>1, LogEntries
  <2>5. QED
    BY <1>5, <2>3, <2>4 DEF Log!Withdraw
<1>8. QED
  BY <1>6, <1>7

LogFunction == [k \in Keys |-> LogOf(k)]

LEMMA InitMaps ==
    ASSUME AppendOnly, Init
    PROVE  Log!Init
<1> DEFINE C == [val : SUBSET Procs, vdel : BOOLEAN]
           First == {{}} \cup {{[mark |-> 0, content |-> c]} : c \in C}
<1>1. /\ \A i \in Ids : /\ row[i] = NewRow(SeedKey[i], {})
                        /\ row[i].key = SeedKey[i]
                        /\ row[i].mark = 0
      /\ row \in [Ids -> Row]
      /\ used = SeedRows /\ SeedRows \subseteq Ids
      /\ \A i, j \in SeedRows : SeedKey[i] = SeedKey[j] => i = j
  BY InitTyped, MarksConstants DEF Init, NewRow, TypeOK
<1>2. ASSUME NEW k \in Keys
      PROVE  LogOf(k) \in First
  <2>1. CASE LiveRows(used, row, k) = {}
    BY <2>1, LogEntries
  <2>2. CASE LiveRows(used, row, k) # {}
    <3>1. PICK i \in used : i \in LiveRows(used, row, k)
      BY <2>2 DEF LiveRows, Rows
    <3>2. LiveRows(used, row, k) = {i}
      BY <1>1, <3>1 DEF LiveRows, Rows
    <3>3. LogOf(k) = {EntryOf(row[i])}
      BY <3>2, LogEntries
    <3>4. EntryOf(row[i]) = [mark |-> 0, content |-> EntryOf(row[i]).content]
      BY <1>1, <3>1 DEF EntryOf
    <3>5. EntryOf(row[i]).content \in C
      BY <1>1, <3>1, EntryTyped
    <3>6. QED
      BY <3>3, <3>4, <3>5
  <2>3. QED
    BY <2>1, <2>2
<1>3. QED
  BY <1>2 DEF Log!Init

\* A change of one log is a step of the abstract specification.
LEMMA OneLogChanges ==
    ASSUME NEW k \in Keys,
           Log!Append(LogOf(k), LogOf(k)') \/ Log!Withdraw(LogOf(k), LogOf(k)'),
           \A j \in Keys \ {k} : LogOf(j)' = LogOf(j)
    PROVE  Log!Next
<1>1. LogFunction[k] = LogOf(k) /\ LogFunction'[k] = LogOf(k)'
  BY DEF LogFunction
<1>2. LogFunction' = [LogFunction EXCEPT ![k] = LogFunction'[k]]
  BY DEF LogFunction
<1>3. QED
  BY <1>1, <1>2 DEF Log!Next, LogFunction

\* A step that changes no log stutters.
LEMMA NoLogChanges ==
    ASSUME \A j \in Keys : LogOf(j)' = LogOf(j)
    PROVE  LogFunction' = LogFunction
  BY DEF LogFunction

LEMMA StepMaps ==
    ASSUME AppendOnly, Settled, [Next]_vars
    PROVE  Log!Next \/ LogFunction' = LogFunction
<1>1. CASE UNCHANGED <<used, row>>
  BY <1>1, NoLogChanges DEF LogOf, Content, LiveRows, Rows
<1>2. ASSUME NEW i \in Ids \ used, NEW o \in Row, Inserts(i, o)
      PROVE  Log!Next \/ LogFunction' = LogFunction
  <2>1. o.key \in Keys
    BY DEF Row
  <2>2. QED
    BY <1>2, <2>1, InsertAppends, OneLogChanges, NoLogChanges
<1>3. ASSUME NEW i \in used, NEW o \in Row, Prunes(i, o)
      PROVE  Log!Next \/ LogFunction' = LogFunction
  <2>1. PICK k \in Keys : k = row[i].key
    BY DEF Settled, TypeOK, Row
  <2>2. QED
    BY <1>3, <2>1, PruneWithdraws, OneLogChanges, NoLogChanges
<1>4. QED
  BY <1>1, <1>2, <1>3, TableStep DEF Next, vars

\* Requests that append and prune implement the revision log: whatever they race
\* with and wherever they fail, each one appends a revision at the end of one log,
\* withdraws one, or changes nothing a reader of live revisions can see.
THEOREM AppendersImplementLog ==
    ASSUME AppendOnly
    PROVE  Spec => ImplementsLog
<1>1. Init => Log!Init
  BY InitMaps
<1>2. Settled /\ [Next]_vars => [Log!Next]_LogFunction
  BY StepMaps
<1>3. QED
  BY <1>1, <1>2, AlwaysSettled, PTL DEF Spec, ImplementsLog, Log!Spec, LogFunction
=============================================================================
