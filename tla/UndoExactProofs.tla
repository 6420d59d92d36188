---------------------------- MODULE UndoExactProofs ----------------------------
(***************************************************************************)
(* Proofs about UndoBuffer: undo and redo of a user who waits for every    *)
(* answer are exact, the list of the page is that of the server, and       *)
(* editing that was disabled comes back.                                   *)
(*                                                                         *)
(* The invariant speaks of what is due: the lists f, b and the table t     *)
(* that there will be when the requests under way have been answered.  Of  *)
(* these, Core says for every operation what was there after it (c), that  *)
(* the prunes which take the operations back, made from the last one down, *)
(* leave just that, and what an operation that can be repeated finds.      *)
(* Stage says how far the page is from what is due.                        *)
(***************************************************************************)
EXTENDS UndoBufferProofs

-----------------------------------------------------------------------------
(* A table as it would be without the revisions S; and what it says.        *)

PresentIn(t, S) == {n \in DOMAIN t : ~t[n].pruned /\ n \notin S}
\* Revision n is the latest of its annotation.
IsTop(t, S, n) ==
    n \in PresentIn(t, S) /\ \A m \in PresentIn(t, S) : t[m].elem = t[n].elem => m <= n
CurrentIn(t, S) == {n \in PresentIn(t, S) : IsTop(t, S, n) /\ ~t[n].deleted}

\* What the annotations are, by element.
Describes(x, t, S) ==
    /\ \A n \in CurrentIn(t, S) : t[n].elem \in DOMAIN x /\ x[t[n].elem] = t[n].val
    /\ \A e \in DOMAIN x : \E n \in CurrentIn(t, S) : t[n].elem = e
\* The annotations with one more or changed, with one less, and their values.
Put(x, e, v) == [d \in DOMAIN x \cup {e} |-> IF d = e THEN v ELSE x[d]]
Drop(x, e) == [d \in DOMAIN x \ {e} |-> x[d]]
ValuesOf(x) == {x[e] : e \in DOMAIN x}

\* The table of the model is the one without no revisions.
LEMMA CurrentIs ==
    ASSUME rows \in Seq(RowType)
    PROVE  /\ Present = PresentIn(rows, {}) /\ Current = CurrentIn(rows, {})
           /\ \A i \in Present : IsTop(rows, {}, Latest(i)) /\ rows[Latest(i)].elem = rows[i].elem
<1>1. Present = PresentIn(rows, {})
  BY DEF Present, PresentIn
<1>2. ASSUME NEW i \in Present
      PROVE  IsTop(rows, {}, Latest(i)) /\ rows[Latest(i)].elem = rows[i].elem
  BY <1>1, <1>2, LatestTyped DEF IsTop
<1>3. ASSUME NEW i \in Present PROVE i = Latest(i) <=> IsTop(rows, {}, i)
  <2>1. ASSUME IsTop(rows, {}, i) PROVE i = Latest(i)
    <3>1. Latest(i) \in Present /\ Latest(i) <= i /\ i <= Latest(i)
      BY <1>1, <2>1, LatestTyped DEF IsTop
    <3>2. i \in Nat /\ Latest(i) \in Nat
      BY <3>1 DEF Present
    <3>3. QED
      BY <3>1, <3>2
  <2>2. QED
    BY <1>2, <2>1
<1>4. Current = CurrentIn(rows, {})
  BY <1>1, <1>3 DEF Current, CurrentIn
<1>5. QED
  BY <1>1, <1>2, <1>4

\* A description has the values that are shown.
LEMMA ViewIs ==
    ASSUME NEW x, NEW t, NEW S, Describes(x, t, S)
    PROVE  {t[n].val : n \in CurrentIn(t, S)} = ValuesOf(x)
  BY DEF Describes, ValuesOf

\* Two tables that show the same.
LEMMA SameTables ==
    ASSUME NEW t, NEW u, NEW S, NEW R, PresentIn(t, S) = PresentIn(u, R),
           \A n \in PresentIn(t, S) :
               t[n].elem = u[n].elem /\ t[n].val = u[n].val /\ t[n].deleted = u[n].deleted
    PROVE  /\ \A n : IsTop(t, S, n) <=> IsTop(u, R, n)
           /\ CurrentIn(t, S) = CurrentIn(u, R)
           /\ \A n \in CurrentIn(t, S) : t[n].val = u[n].val
           /\ \A x : Describes(x, t, S) <=> Describes(x, u, R)
<1>1. \A n : IsTop(t, S, n) <=> IsTop(u, R, n)
  BY DEF IsTop
<1>2. CurrentIn(t, S) = CurrentIn(u, R)
  BY <1>1 DEF CurrentIn
<1>3. \A n \in CurrentIn(t, S) : t[n].val = u[n].val /\ t[n].elem = u[n].elem
  BY DEF CurrentIn
<1>4. \A x : Describes(x, t, S) <=> Describes(x, u, R)
  BY <1>2, <1>3 DEF Describes
<1>5. QED
  BY <1>1, <1>2, <1>3, <1>4

\* The table with one revision more.
Adds(u, t, row, k) ==
    /\ k \in Nat /\ DOMAIN u = DOMAIN t \cup {k} /\ u[k] = row
    /\ \A n \in DOMAIN t : n \in Nat /\ n < k /\ n # k /\ u[n] = t[n]

\* A row at the end is a row more.
LEMMA RowAppended ==
    ASSUME NEW t \in Seq(RowType), NEW row \in RowType
    PROVE  LET u == Append(t, row)
           IN  /\ Adds(u, t, row, Len(t) + 1)
               /\ u \in Seq(RowType) /\ Len(u) = Len(t) + 1
  BY DEF Adds

\* A table with one revision more, that is there and not hidden.
LEMMA RowShows ==
    ASSUME NEW t, NEW row, NEW u, NEW k \in Nat, Adds(u, t, row, k), ~row.pruned
    PROVE  /\ PresentIn(u, {}) = PresentIn(t, {}) \cup {k}
           /\ \A n : IsTop(u, {}, n) <=>
                  n = k \/ (IsTop(t, {}, n) /\ t[n].elem # row.elem)
           /\ CurrentIn(u, {}) = {n \in CurrentIn(t, {}) : t[n].elem # row.elem}
                                    \cup (IF row.deleted THEN {} ELSE {k})
<1>1. /\ DOMAIN u = DOMAIN t \cup {k} /\ k \notin DOMAIN t
      /\ u[k] = row /\ \A n \in DOMAIN t : u[n] = t[n] /\ n \in Nat /\ n < k
  BY DEF Adds
<1>2. PresentIn(u, {}) = PresentIn(t, {}) \cup {k}
  BY <1>1 DEF PresentIn
<1>3. ASSUME NEW n PROVE IsTop(u, {}, n) <=> n = k \/ (IsTop(t, {}, n) /\ t[n].elem # row.elem)
  <2>1. \A m \in PresentIn(t, {}) : u[m] = t[m] /\ m \in Nat /\ m < k /\ m # k
    BY <1>1 DEF PresentIn
  <2>2. IsTop(u, {}, k)
    BY <1>1, <1>2, <2>1 DEF IsTop
  <2>3. ASSUME IsTop(t, {}, n), t[n].elem # row.elem PROVE IsTop(u, {}, n)
    BY <1>1, <1>2, <2>1, <2>3 DEF IsTop
  <2>4. ASSUME IsTop(u, {}, n), n # k PROVE IsTop(t, {}, n) /\ t[n].elem # row.elem
    <3>1. n \in PresentIn(t, {}) /\ u[n] = t[n] /\ n < k /\ n \in Nat
      BY <1>2, <2>1, <2>4 DEF IsTop
    <3>2. \A m \in PresentIn(t, {}) : t[m].elem = t[n].elem => m <= n
      BY <1>2, <2>1, <2>4, <3>1 DEF IsTop
    <3>3. u[k].elem = u[n].elem => k <= n
      BY <1>2, <2>4 DEF IsTop
    <3>4. QED
      BY <1>1, <3>1, <3>2, <3>3 DEF IsTop
  <2>5. QED
    BY <2>2, <2>3, <2>4
<1>4. \A n \in CurrentIn(t, {}) : n \in DOMAIN t /\ u[n] = t[n] /\ n # k
  BY <1>1 DEF CurrentIn, PresentIn
<1>5. ASSUME NEW n PROVE n \in CurrentIn(u, {}) <=>
          n \in {m \in CurrentIn(t, {}) : t[m].elem # row.elem} \cup (IF row.deleted THEN {} ELSE {k})
  <2>1. CASE n = k
    BY <1>1, <1>2, <1>3, <1>4, <2>1 DEF CurrentIn
  <2>2. CASE n # k
    <3>1. n \in CurrentIn(u, {}) => n \in PresentIn(t, {}) /\ u[n] = t[n]
      BY <1>1, <1>2, <2>2 DEF CurrentIn, PresentIn
    <3>2. QED
      BY <1>2, <1>3, <1>4, <2>2, <3>1 DEF CurrentIn
  <2>3. QED
    BY <2>1, <2>2
<1>6. QED
  BY <1>2, <1>3, <1>5

\* What describes the table describes it with the new revision.
LEMMA RowDescribed ==
    ASSUME NEW t, NEW row, NEW u, NEW k \in Nat, Adds(u, t, row, k), ~row.pruned, NEW x, Describes(x, t, {})
    PROVE  /\ ~row.deleted => Describes(Put(x, row.elem, row.val), u, {})
           /\ row.deleted => Describes(Drop(x, row.elem), u, {})
<1>1. u[k] = row /\ \A n \in CurrentIn(t, {}) : u[n] = t[n]
  BY DEF Adds, CurrentIn, PresentIn
<1>2. CurrentIn(u, {}) = {n \in CurrentIn(t, {}) : t[n].elem # row.elem}
                                    \cup (IF row.deleted THEN {} ELSE {k})
  BY RowShows
<1>3. ASSUME ~row.deleted PROVE Describes(Put(x, row.elem, row.val), u, {})
  <2> PICK y : y = Put(x, row.elem, row.val)
    OBVIOUS
  <2>1. /\ DOMAIN y = DOMAIN x \cup {row.elem} /\ y[row.elem] = row.val
        /\ \A e \in DOMAIN x : e # row.elem => y[e] = x[e]
    BY DEF Put
  <2>2. ASSUME NEW n \in CurrentIn(u, {}) PROVE u[n].elem \in DOMAIN y /\ y[u[n].elem] = u[n].val
    <3>1. CASE n = k
      BY <1>1, <2>1, <3>1
    <3>2. CASE n # k
      <4>1. n \in CurrentIn(t, {}) /\ t[n].elem # row.elem /\ u[n] = t[n]
        BY <1>1, <1>2, <3>2
      <4>2. t[n].elem \in DOMAIN x /\ x[t[n].elem] = t[n].val
        BY <4>1 DEF Describes
      <4>3. QED
        BY <2>1, <4>1, <4>2
    <3>3. QED
      BY <3>1, <3>2
  <2>3. \A e \in DOMAIN y : \E n \in CurrentIn(u, {}) : u[n].elem = e
    <3> TAKE e \in DOMAIN y
    <3>1. CASE e = row.elem
      BY <1>1, <1>2, <1>3, <3>1
    <3>2. CASE e # row.elem
      <4>1. PICK n \in CurrentIn(t, {}) : t[n].elem = e
        BY <2>1, <3>2 DEF Describes
      <4>2. QED
        BY <1>1, <1>2, <3>2, <4>1
    <3>3. QED
      BY <3>1, <3>2
  <2>4. QED
    BY <2>2, <2>3 DEF Describes
<1>4. ASSUME row.deleted PROVE Describes(Drop(x, row.elem), u, {})
  <2> PICK y : y = Drop(x, row.elem)
    OBVIOUS
  <2>1. /\ DOMAIN y = DOMAIN x \ {row.elem}
        /\ \A e \in DOMAIN y : y[e] = x[e]
    BY DEF Drop
  <2>2. ASSUME NEW n \in CurrentIn(u, {}) PROVE u[n].elem \in DOMAIN y /\ y[u[n].elem] = u[n].val
    <3>1. n \in CurrentIn(t, {}) /\ t[n].elem # row.elem /\ u[n] = t[n]
      BY <1>1, <1>2, <1>4
    <3>2. t[n].elem \in DOMAIN x /\ x[t[n].elem] = t[n].val
      BY <3>1 DEF Describes
    <3>3. QED
      BY <2>1, <3>1, <3>2
  <2>3. \A e \in DOMAIN y : \E n \in CurrentIn(u, {}) : u[n].elem = e
    <3> TAKE e \in DOMAIN y
    <3>1. PICK n \in CurrentIn(t, {}) : t[n].elem = e
      BY <2>1 DEF Describes
    <3>2. QED
      BY <1>1, <1>2, <2>1, <3>1
  <2>4. QED
    BY <2>2, <2>3 DEF Describes
<1>5. QED
  BY <1>3, <1>4

\* The new revision hidden, nothing is new.
LEMMA RowHidden ==
    ASSUME NEW t, NEW row, NEW u, NEW k \in Nat, Adds(u, t, row, k),
           NEW S, NEW R, R \cup {k} = S \cup {k}, k \in R
    PROVE  /\ PresentIn(t, S) = PresentIn(u, R)
           /\ \A n \in PresentIn(t, S) :
               t[n].elem = u[n].elem /\ t[n].val = u[n].val /\ t[n].deleted = u[n].deleted
<1>1. /\ DOMAIN u = DOMAIN t \cup {k} /\ k \notin DOMAIN t
      /\ u[k] = row /\ \A n \in DOMAIN t : u[n] = t[n]
  BY DEF Adds
<1>2. \A n \in DOMAIN t : n \in S <=> n \in R
  BY <1>1
<1>3. PresentIn(t, S) = PresentIn(u, R)
  BY <1>1, <1>2 DEF PresentIn
<1>4. QED
  BY <1>1, <1>3 DEF PresentIn

\* To prune a revision is to hide it.
PrunesRow(u, t, k) == t \in Seq(RowType) /\ k \in DOMAIN t /\ u = [t EXCEPT ![k].pruned = TRUE]

\* Only the one revision changes.
LEMMA PruneTyped ==
    ASSUME NEW t, NEW k, NEW u, PrunesRow(u, t, k)
    PROVE  /\ u \in Seq(RowType) /\ DOMAIN u = DOMAIN t /\ Len(u) = Len(t)
           /\ \A n \in DOMAIN t : u[n].elem = t[n].elem
           /\ u[k].pruned /\ \A n \in DOMAIN t : n # k => u[n] = t[n]
<1>0. t \in Seq(RowType) /\ k \in DOMAIN t /\ u = [t EXCEPT ![k].pruned = TRUE]
  BY DEF PrunesRow
<1> PICK row : row = [t[k] EXCEPT !.pruned = TRUE]
  OBVIOUS
<1>1. t[k] \in RowType
  BY <1>0
<1>2. row \in RowType /\ row.pruned /\ row.elem = t[k].elem
  BY <1>1 DEF RowType
<1>3. u = [t EXCEPT ![k] = row]
  BY <1>0
<1>4. /\ u \in Seq(RowType) /\ DOMAIN u = DOMAIN t /\ Len(u) = Len(t) /\ u[k] = row
      /\ \A n \in DOMAIN t : n # k => u[n] = t[n]
  BY <1>0, <1>2, <1>3
<1>5. QED
  BY <1>2, <1>4

\* The table with a revision pruned is the one without it.
LEMMA RowPruned ==
    ASSUME NEW t, NEW k, NEW u, PrunesRow(u, t, k),
           NEW S, NEW R, S \cup {k} = R \cup {k}, k \in S
    PROVE  /\ PresentIn(t, S) = PresentIn(u, R)
           /\ \A n \in PresentIn(t, S) :
               t[n].elem = u[n].elem /\ t[n].val = u[n].val /\ t[n].deleted = u[n].deleted
<1>1. /\ DOMAIN u = DOMAIN t /\ k \in DOMAIN t /\ u[k].pruned
      /\ \A n \in DOMAIN t : n # k => u[n] = t[n]
  BY PruneTyped DEF PrunesRow
<1>2. \A n \in DOMAIN t : n # k => (n \in S <=> n \in R)
  OBVIOUS
<1>5. PresentIn(t, S) = PresentIn(u, R)
  BY <1>1, <1>2 DEF PresentIn
<1>6. \A n \in PresentIn(t, S) : n # k /\ n \in DOMAIN t
  BY DEF PresentIn
<1>7. QED
  BY <1>1, <1>5, <1>6

-----------------------------------------------------------------------------
(* What holds of the operations, the position and the history.              *)

\* Values differ from annotation to annotation, and none is of an act to come.
IsContent(x, a) ==
    /\ x \in [DOMAIN x -> Int]
    /\ \A d, e \in DOMAIN x : x[d] = x[e] => d = e
    /\ \A e \in DOMAIN x : x[e] <= a

\* What takes an operation back: a prune, a PATCH or a POST.
ByPrune(ty, t, o, w) ==
    /\ w[1].m = "PRUNE" /\ w[1].id \in DOMAIN t /\ t[w[1].id].elem = t[o.id].elem
    /\ o.m = "DELETE" => ty = "Localization"
    /\ w = <<Op("PRUNE", w[1].id, 0),
             IF o.m = "PATCH" THEN Op("select_old_obj", 0, 0)
                              ELSE Op("delete_functor", o.id, o.val)>>
ByPatch(ty, t, o, w, x) ==
    ty = "State" /\ o.m = "PATCH" /\ w = <<Op("PATCH", o.id, x[t[o.id].elem])>>
ByPost(ty, t, o, w, x) ==
    ty = "State" /\ o.m = "DELETE" /\ w = <<Op("POST", 0, x[t[o.id].elem])>>

\* An operation leads from the annotations x to y.
Step(t, o, x, y) ==
    /\ o.id \in DOMAIN t /\ t[o.id].elem \in DOMAIN x
    /\ y = IF o.m = "PATCH" THEN Put(x, t[o.id].elem, o.val) ELSE Drop(x, t[o.id].elem)
\* An operation and what takes it back.
Form(ty, t, ops, w, x, y) ==
    /\ ops = <<ops[1]>> /\ w # <<>>
    /\ \/ ops[1].m = "POST" /\ w[1].m = "STRAY"
       \/ /\ ops[1].m \in {"PATCH", "DELETE"} /\ Step(t, ops[1], x, y)
          /\ \/ ByPrune(ty, t, ops[1], w)
             \/ ByPatch(ty, t, ops[1], w, x)
             \/ ByPost(ty, t, ops[1], w, x)

\* The operations q+1 to i are taken back by prunes that are still to come,
\* of the revisions Rids.
IsPrune(b, j) == b[j][1].m = "PRUNE"
Rids(b, q, i) == {b[j][1].id : j \in q + 1..i}
Chain(t, b, q, i) == \A j \in q + 1..i : IsPrune(b, j) /\ b[j][1].id \in PresentIn(t, {})

\* The lists have their lengths and types; c are the annotations after each
\* operation.
Shape(t, f, b, i, fr, p, a, c) ==
    /\ t \in Seq(RowType) /\ f \in Lists /\ b \in Lists /\ Len(b) = Len(f)
    /\ i \in 0..Len(f) /\ fr \in 0..i /\ p \in Seq(SUBSET Int) /\ Len(p) = Len(f) + 1
    /\ a \in Nat /\ DOMAIN c = 0..Len(f)
    /\ \A n \in DOMAIN t : t[n].elem \in 1..Len(t)
\* The history has what the annotations are after each operation.
Contents(f, fr, p, a, c) ==
    \A q \in fr..Len(f) : IsContent(c[q], a) /\ p[q + 1] = ValuesOf(c[q])
\* Every operation that is not frail has its form.
Forms(ty, t, f, b, fr, c) ==
    \A q \in fr + 1..Len(f) : Form(ty, t, f[q], b[q], c[q - 1], c[q])
\* The prunes down to an operation leave what was there after it: without the
\* revisions they prune the table says c[q].
Below(t, b, i, fr, c) ==
    \A q \in fr..i : Chain(t, b, q, i) => Describes(c[q], t, Rids(b, q, i))
\* Each of these prunes takes the latest revision, and the functor of a
\* deletion shows what is there then.
Tops(t, f, b, i, fr) ==
    \A q \in fr + 1..i : Chain(t, b, q - 1, i) =>
        /\ IsTop(t, Rids(b, q, i), b[q][1].id)
        /\ f[q][1].m = "DELETE" =>
               /\ f[q][1].id \in CurrentIn(t, Rids(b, q - 1, i))
               /\ t[f[q][1].id].val = f[q][1].val
\* What can be repeated: the prunes were made, and what an operation deletes
\* is there, or nobody can send it.
Ahead(ty, t, f, b, i, fr) ==
    \A j \in i + 1..Len(f) :
        /\ f[j][1].m # "POST"
        /\ IsPrune(b, j) => b[j][1].id \notin PresentIn(t, {})
        /\ f[j][1].m = "DELETE" =>
            /\ f[j][1].id \in PresentIn(t, {}) => f[j][1].id \in CurrentIn(t, {})
            /\ ty = "State" => j = i + 1 /\ fr = i
            /\ \A k \in i + 1..j - 1 :
                   t[f[k][1].id].elem = t[f[j][1].id].elem => f[j][1].id \notin PresentIn(t, {})
\* All of it: f, b are the lists, i the position, fr the frail operations, p
\* the history, a the acts.
Core(ty, t, f, b, i, fr, p, a, c) ==
    /\ Shape(t, f, b, i, fr, p, a, c) /\ Contents(f, fr, p, a, c) /\ Forms(ty, t, f, b, fr, c)
    /\ Below(t, b, i, fr, c) /\ Tops(t, f, b, i, fr) /\ Ahead(ty, t, f, b, i, fr)


\* Where the lists have their elements.
LEMMA ShapeSays ==
    ASSUME NEW t, NEW f, NEW b, NEW i, NEW fr, NEW p, NEW a, NEW c, Shape(t, f, b, i, fr, p, a, c)
    PROVE  /\ t \in Seq(RowType) /\ DOMAIN t = 1..Len(t) /\ Len(t) \in Nat
           /\ Len(f) \in Nat /\ DOMAIN f = 1..Len(f)
           /\ Len(b) = Len(f) /\ DOMAIN b = 1..Len(f)
           /\ i \in Nat /\ fr \in Nat /\ fr <= i /\ i <= Len(f) /\ a \in Nat
           /\ DOMAIN p = 1..Len(f) + 1 /\ DOMAIN c = 0..Len(f)
           /\ \A q \in 1..Len(f) : f[q] \in Seq(OpType) /\ b[q] \in Seq(OpType)
           /\ \A n \in DOMAIN t : t[n].elem \in 1..Len(t) /\ t[n] \in RowType
  BY DEF Shape, Lists

\* What is there is what was there after the last operation.
LEMMA HereDescribed ==
    ASSUME NEW t, NEW b, NEW i \in Nat, NEW fr \in 0..i, NEW c, Below(t, b, i, fr, c)
    PROVE  Describes(c[i], t, {})
<1>1. i + 1..i = {}
  OBVIOUS
<1>2. Chain(t, b, i, i) /\ Rids(b, i, i) = {}
  BY <1>1 DEF Chain, Rids
<1>3. QED
  BY <1>2 DEF Below

\* A form stays when the table grows.
LEMMA FormStays ==
    ASSUME NEW ty, NEW t, NEW u, DOMAIN t \subseteq DOMAIN u,
           \A n \in DOMAIN t : u[n].elem = t[n].elem,
           NEW ops, NEW w, NEW x, NEW y, Form(ty, t, ops, w, x, y)
    PROVE  Form(ty, u, ops, w, x, y)
<1>1. ASSUME Step(t, ops[1], x, y) PROVE Step(u, ops[1], x, y) /\ u[ops[1].id].elem = t[ops[1].id].elem
  BY <1>1 DEF Step
<1>2. ASSUME Step(t, ops[1], x, y), ByPrune(ty, t, ops[1], w) PROVE ByPrune(ty, u, ops[1], w)
  BY <1>1, <1>2 DEF ByPrune
<1>3. ASSUME Step(t, ops[1], x, y), ByPatch(ty, t, ops[1], w, x) PROVE ByPatch(ty, u, ops[1], w, x)
  BY <1>1, <1>3 DEF ByPatch
<1>4. ASSUME Step(t, ops[1], x, y), ByPost(ty, t, ops[1], w, x) PROVE ByPost(ty, u, ops[1], w, x)
  BY <1>1, <1>4 DEF ByPost
<1>5. QED
  BY <1>1, <1>2, <1>3, <1>4 DEF Form

\* More acts allow more values.
LEMMA MoreActs ==
    ASSUME NEW ty, NEW t, NEW f, NEW b, NEW i, NEW fr, NEW p, NEW a, NEW c,
           Core(ty, t, f, b, i, fr, p, a, c)
    PROVE  Core(ty, t, f, b, i, fr, p, a + 1, c)
<1>1. a \in Nat /\ Shape(t, f, b, i, fr, p, a + 1, c)
  BY DEF Core, Shape
<1>2. ASSUME NEW x, IsContent(x, a) PROVE IsContent(x, a + 1)
  <2>1. \A e \in DOMAIN x : x[e] \in Int /\ x[e] <= a
    BY <1>2 DEF IsContent
  <2>2. \A e \in DOMAIN x : x[e] <= a + 1
    BY <1>1, <2>1
  <2>3. QED
    BY <1>2, <2>2 DEF IsContent
<1>3. Contents(f, fr, p, a + 1, c)
  BY <1>2 DEF Core, Contents
<1>4. QED
  BY <1>1, <1>3 DEF Core

\* A new operation first forgets what could be repeated.
LEMMA PartOf ==
    ASSUME NEW T, NEW s \in Seq(T), NEW n \in 0..Len(s)
    PROVE  LET r == SubSeq(s, 1, n)
           IN  r \in Seq(T) /\ Len(r) = n /\ \A j \in 1..n : r[j] = s[j]
  OBVIOUS

\* What could be repeated is forgotten.
LEMMA CutCore ==
    ASSUME NEW ty, NEW t, NEW f, NEW b, NEW i, NEW fr, NEW p, NEW a, NEW c,
           Core(ty, t, f, b, i, fr, p, a, c)
    PROVE  LET g == SubSeq(f, 1, i)
               v == SubSeq(b, 1, i)
               s == SubSeq(p, 1, i + 1)
           IN  /\ Len(g) = i
               /\ \E d : d[i] = c[i] /\ Core(ty, t, g, v, i, fr, s, a, d)
<1> PICK g : g = SubSeq(f, 1, i)
  OBVIOUS
<1> PICK v : v = SubSeq(b, 1, i)
  OBVIOUS
<1> PICK s : s = SubSeq(p, 1, i + 1)
  OBVIOUS
<1> PICK d : d = [q \in 0..i |-> c[q]]
  OBVIOUS
<1>0. /\ i \in Nat /\ fr \in Nat /\ fr <= i /\ i <= Len(f) /\ Len(f) \in Nat /\ Len(b) = Len(f)
      /\ Shape(t, f, b, i, fr, p, a, c)
  BY ShapeSays DEF Core
<1>1. g \in Lists /\ Len(g) = i /\ \A q \in 1..i : g[q] = f[q]
  BY <1>0, PartOf DEF Shape, Lists
<1>2. v \in Lists /\ Len(v) = i /\ \A q \in 1..i : v[q] = b[q]
  BY <1>0, PartOf DEF Shape, Lists
<1>3. s \in Seq(SUBSET Int) /\ Len(s) = i + 1 /\ \A q \in 1..i + 1 : s[q] = p[q]
  <2>1. p \in Seq(SUBSET Int) /\ i + 1 \in 0..Len(p)
    BY <1>0 DEF Shape
  <2>2. QED
    BY <2>1, PartOf
<1>4. DOMAIN d = 0..i /\ \A q \in 0..i : d[q] = c[q]
  OBVIOUS
<1>5. Shape(t, g, v, i, fr, s, a, d)
  BY <1>0, <1>1, <1>2, <1>3, <1>4 DEF Shape
<1>6. Contents(g, fr, s, a, d)
  <2>1. \A q \in fr..i : q \in 0..i /\ q \in fr..Len(f) /\ q + 1 \in 1..i + 1
    BY <1>0
  <2>2. QED
    BY <1>1, <1>3, <1>4, <2>1 DEF Core, Contents
<1>7. Forms(ty, t, g, v, fr, d)
  <2>1. \A q \in fr + 1..i : q \in 0..i /\ q \in 1..i /\ q \in fr + 1..Len(f) /\ q - 1 \in 0..i
    BY <1>0
  <2>2. QED
    BY <1>1, <1>2, <1>4, <2>1 DEF Core, Forms
<1>8. \A q \in 0..i : Rids(v, q, i) = Rids(b, q, i) /\ (Chain(t, v, q, i) <=> Chain(t, b, q, i))
  <2> TAKE q \in 0..i
  <2>0. \A j \in q + 1..i : j \in 1..i
    BY <1>0
  <2>1. \A j \in q + 1..i : v[j] = b[j]
    BY <1>2, <2>0
  <2>2. QED
    BY <2>1 DEF Rids, Chain, IsPrune
<1>9. Below(t, v, i, fr, d)
  <2>1. \A q \in fr..i : q \in 0..i
    BY <1>0
  <2>2. QED
    BY <1>4, <1>8, <2>1 DEF Core, Below
<1>10. Tops(t, g, v, i, fr)
  <2>1. \A q \in fr + 1..i : q \in 0..i /\ q - 1 \in 0..i /\ q \in 1..i
    BY <1>0
  <2>2. QED
    BY <1>1, <1>2, <1>8, <2>1 DEF Core, Tops
<1>11. Ahead(ty, t, g, v, i, fr)
  <2>1. i + 1..Len(g) = {}
    BY <1>0, <1>1
  <2>2. QED
    BY <2>1 DEF Ahead
<1>12. Core(ty, t, g, v, i, fr, s, a, d)
  BY <1>5, <1>6, <1>7, <1>9, <1>10, <1>11 DEF Core
<1>13. d[i] = c[i]
  BY <1>0
<1>14. QED
  BY <1>1, <1>12, <1>13

-----------------------------------------------------------------------------
(* A new operation at the end.                                              *)

\* With one more prune at the end, of a revision that is new, the chains below
\* see what they saw.
OneLonger(t, b, v, q, i, k) ==
    /\ i \in Nat /\ q \in 0..i /\ v[i + 1][1].id = k
    /\ \A j \in 1..i : v[j] = b[j] /\ (IsPrune(b, j) /\ j > q => b[j][1].id \in DOMAIN t)
\* Two tables say the same.
SameSight(t, S, u, R) ==
    /\ \A n : IsTop(t, S, n) <=> IsTop(u, R, n)
    /\ CurrentIn(t, S) = CurrentIn(u, R)
    /\ \A n \in CurrentIn(t, S) : t[n].val = u[n].val
    /\ \A x : Describes(x, t, S) <=> Describes(x, u, R)

\* The chains below see what they saw before the new revision.
LEMMA OneMorePrune ==
    ASSUME NEW t, NEW row, NEW u, NEW k \in Nat, Adds(u, t, row, k),
           NEW b, NEW v, NEW i, NEW q, OneLonger(t, b, v, q, i, k), Chain(u, v, q, i + 1)
    PROVE  Chain(t, b, q, i) /\ SameSight(t, Rids(b, q, i), u, Rids(v, q, i + 1))
<1>0. /\ i \in Nat /\ q \in 0..i /\ v[i + 1][1].id = k
      /\ \A j \in 1..i : v[j] = b[j] /\ (IsPrune(b, j) /\ j > q => b[j][1].id \in DOMAIN t)
  BY DEF OneLonger
<1>1. \A n \in DOMAIN t : u[n] = t[n]
  BY DEF Adds
<1>2. \A j \in q + 1..i : j \in 1..i /\ j > q /\ j \in q + 1..i + 1
  BY <1>0
<1>3. \A j \in q + 1..i + 1 : j \in q + 1..i \/ j = i + 1
  BY <1>0
<1>4. Chain(t, b, q, i)
  <2> SUFFICES ASSUME NEW j \in q + 1..i
               PROVE  IsPrune(b, j) /\ b[j][1].id \in PresentIn(t, {})
    BY DEF Chain
  <2>1. IsPrune(v, j) /\ v[j][1].id \in PresentIn(u, {}) /\ v[j] = b[j]
    BY <1>0, <1>2 DEF Chain
  <2>2. IsPrune(b, j) /\ b[j][1].id \in DOMAIN t
    BY <1>0, <1>2, <2>1 DEF IsPrune
  <2>3. QED
    BY <1>1, <2>1, <2>2 DEF PresentIn
<1>5. Rids(v, q, i + 1) = Rids(b, q, i) \cup {k}
  <2>1. i + 1 \in q + 1..i + 1
    BY <1>0
  <2>2. \A j \in q + 1..i : v[j] = b[j]
    BY <1>0, <1>2
  <2>3. QED
    BY <1>0, <1>2, <1>3, <2>1, <2>2 DEF Rids
<1> PICK R : R = Rids(v, q, i + 1)
  OBVIOUS
<1> PICK S : S = Rids(b, q, i)
  OBVIOUS
<1>6. R \cup {k} = S \cup {k} /\ k \in R
  BY <1>5
<1>7. /\ PresentIn(t, S) = PresentIn(u, R)
      /\ \A n \in PresentIn(t, S) :
            t[n].elem = u[n].elem /\ t[n].val = u[n].val /\ t[n].deleted = u[n].deleted
  BY ONLY <1>6, RowHidden, Adds(u, t, row, k)
<1>8. /\ \A n : IsTop(t, S, n) <=> IsTop(u, R, n)
      /\ CurrentIn(t, S) = CurrentIn(u, R)
      /\ \A n \in CurrentIn(t, S) : t[n].val = u[n].val
      /\ \A x : Describes(x, t, S) <=> Describes(x, u, R)
  BY ONLY <1>7, SameTables
<1>9. QED
  BY <1>4, <1>8 DEF SameSight

\* The table with a new revision that is there.
Extends(u, t, row, k) ==
    /\ Adds(u, t, row, k) /\ u \in Seq(RowType) /\ Len(u) = k /\ k = Len(t) + 1
    /\ row \in RowType /\ ~row.pruned /\ row.elem \in 1..k
\* A prune takes back what is new; the functor of a deletion shows what was.
Prunable(t, o, w, k) ==
    w[1].m = "PRUNE" =>
        /\ w[1].id = k
        /\ o.m = "DELETE" => o.id \in CurrentIn(t, {}) /\ t[o.id].val = o.val

\* A new operation at the end, when nothing is ahead.
LEMMA Pushed ==
    ASSUME NEW ty, NEW t \in Seq(RowType), NEW f, NEW b, NEW i, NEW fr, NEW p, NEW a, NEW c,
           Core(ty, t, f, b, i, fr, p, a, c), i = Len(f),
           NEW row, NEW u, NEW k \in Nat, Extends(u, t, row, k),
           NEW o \in OpType, NEW w \in Seq(OpType),
           NEW x, IsContent(x, a + 1), Describes(x, u, {}),
           Form(ty, u, <<o>>, w, c[i], x),
           Prunable(t, o, w, k), ValuesOf(x) \in SUBSET Int
    PROVE  \E d : d[i + 1] = x /\ Core(ty, u, Append(f, <<o>>), Append(b, w), i + 1, fr,
                                       Append(p, ValuesOf(x)), a + 1, d)
<1> PICK g : g = Append(f, <<o>>)
  OBVIOUS
<1> PICK v : v = Append(b, w)
  OBVIOUS
<1> PICK s : s = Append(p, ValuesOf(x))
  OBVIOUS
<1> PICK d : d = [q \in 0..i + 1 |-> IF q = i + 1 THEN x ELSE c[q]]
  OBVIOUS
<1>0. /\ Shape(t, f, b, i, fr, p, a, c) /\ Contents(f, fr, p, a, c) /\ Forms(ty, t, f, b, fr, c)
      /\ Below(t, b, i, fr, c) /\ Tops(t, f, b, i, fr)
  BY DEF Core
<1>1. /\ t \in Seq(RowType) /\ i \in Nat /\ fr \in Nat /\ fr <= i /\ a \in Nat /\ Len(b) = i
      /\ f \in Lists /\ b \in Lists /\ p \in Seq(SUBSET Int) /\ Len(p) = i + 1
  BY <1>0, ShapeSays DEF Shape
<1>2. /\ DOMAIN t \subseteq DOMAIN u /\ \A n \in DOMAIN t : u[n] = t[n]
      /\ u \in Seq(RowType) /\ Len(u) = k /\ k \in Nat /\ u[k] = row
      /\ DOMAIN u = DOMAIN t \cup {k} /\ DOMAIN t = 1..Len(t) /\ Len(t) \in Nat
  <2>1. Adds(u, t, row, k) /\ u \in Seq(RowType) /\ Len(u) = k
    BY DEF Extends
  <2>2. /\ u[k] = row /\ DOMAIN u = DOMAIN t \cup {k}
        /\ \A n \in DOMAIN t : u[n] = t[n]
    BY <2>1 DEF Adds
  <2>3. DOMAIN t = 1..Len(t) /\ Len(t) \in Nat
    BY <1>1
  <2>4. QED
    BY <2>1, <2>2, <2>3
<1>3. g \in Lists /\ Len(g) = i + 1 /\ g[i + 1] = <<o>> /\ \A q \in 1..i : g[q] = f[q]
  BY <1>1 DEF Lists
<1>4. v \in Lists /\ Len(v) = i + 1 /\ v[i + 1] = w /\ \A q \in 1..i : v[q] = b[q]
  BY <1>1 DEF Lists
<1>5. s \in Seq(SUBSET Int) /\ Len(s) = i + 2 /\ s[i + 2] = ValuesOf(x) /\ \A q \in 1..i + 1 : s[q] = p[q]
  BY <1>1
<1>6. DOMAIN d = 0..i + 1 /\ d[i + 1] = x /\ \A q \in 0..i : d[q] = c[q]
  BY <1>1
<1>7. Shape(u, g, v, i + 1, fr, s, a + 1, d)
  <2>1. ASSUME NEW n \in DOMAIN u PROVE u[n].elem \in 1..Len(u)
    <3>1. CASE n = k
      BY <1>2, <3>1 DEF Extends
    <3>2. CASE n # k
      <4>1. n \in DOMAIN t /\ u[n] = t[n]
        BY <1>2, <3>2
      <4>2. t[n].elem \in 1..Len(t)
        BY <1>0, <4>1 DEF Shape
      <4>3. k = Len(t) + 1 /\ Len(t) \in Nat /\ Len(u) = k
        BY <1>2 DEF Extends
      <4>4. \A e \in 1..Len(t) : e \in 1..k
        BY ONLY <4>3, k \in Nat
      <4>5. QED
        BY <4>1, <4>2, <4>3, <4>4
    <3>3. QED
      BY <3>1, <3>2
  <2>2. QED
    BY <1>1, <1>2, <1>3, <1>4, <1>5, <1>6, <2>1 DEF Shape
<1>8. Contents(g, fr, s, a + 1, d)
  <2> SUFFICES ASSUME NEW q \in fr..i + 1
               PROVE  IsContent(d[q], a + 1) /\ s[q + 1] = ValuesOf(d[q])
    BY <1>3 DEF Contents
  <2>1. CASE q = i + 1
    BY <1>1, <1>5, <1>6, <2>1
  <2>2. CASE q # i + 1
    <3>1. q \in 0..i /\ q \in fr..i /\ q + 1 \in 1..i + 1
      BY <1>1, <2>2
    <3>2. IsContent(c[q], a) /\ p[q + 1] = ValuesOf(c[q])
      BY <1>0, <3>1 DEF Contents
    <3>3. \A e \in DOMAIN c[q] : c[q][e] \in Int /\ c[q][e] <= a
      BY <3>2 DEF IsContent
    <3>4. \A e \in DOMAIN c[q] : c[q][e] <= a + 1
      BY <1>1, <3>3
    <3>5. IsContent(c[q], a + 1)
      BY <3>2, <3>4 DEF IsContent
    <3>6. QED
      BY <1>5, <1>6, <3>1, <3>2, <3>5
  <2>3. QED
    BY <2>1, <2>2
<1>9. Forms(ty, u, g, v, fr, d)
  <2> SUFFICES ASSUME NEW q \in fr + 1..i + 1
               PROVE  Form(ty, u, g[q], v[q], d[q - 1], d[q])
    BY <1>3 DEF Forms
  <2>1. CASE q = i + 1
    BY <1>1, <1>3, <1>4, <1>6, <2>1
  <2>2. CASE q # i + 1
    <3>1. q \in 0..i /\ q \in fr + 1..i /\ q \in 1..i /\ q - 1 \in 0..i
      BY <1>1, <2>2
    <3>2. Form(ty, t, f[q], b[q], c[q - 1], c[q])
      BY <1>0, <3>1 DEF Forms
    <3>3. Form(ty, u, f[q], b[q], c[q - 1], c[q])
      BY <1>2, <3>2, FormStays
    <3>4. QED
      BY <1>3, <1>4, <1>6, <3>1, <3>3
  <2>3. QED
    BY <2>1, <2>2
<1>10. \A j \in 1..i : IsPrune(b, j) /\ j > fr => b[j][1].id \in DOMAIN t
  <2> SUFFICES ASSUME NEW j \in 1..i, IsPrune(b, j), j > fr PROVE b[j][1].id \in DOMAIN t
    OBVIOUS
  <2>1. j \in fr + 1..i
    BY <1>1
  <2>2. Form(ty, t, f[j], b[j], c[j - 1], c[j])
    BY <1>0, <2>1 DEF Forms
  <2>3. QED
    BY <2>2 DEF Form, IsPrune, ByPrune, ByPatch, ByPost, Op
<1>11. ASSUME NEW q \in fr..i, Chain(u, v, q, i + 1)
       PROVE  /\ Chain(t, b, q, i) /\ IsPrune(v, i + 1)
              /\ SameSight(t, Rids(b, q, i), u, Rids(v, q, i + 1))
  <2>1. q \in 0..i /\ i + 1 \in q + 1..i + 1 /\ \A j \in 1..i : j > q => j > fr
    BY <1>1
  <2>2. IsPrune(v, i + 1)
    BY <1>11, <2>1 DEF Chain
  <2>3. v[i + 1][1].id = k
    BY <1>4, <2>2 DEF IsPrune, Prunable
  <2>4. \A j \in 1..i : v[j] = b[j] /\ (IsPrune(b, j) /\ j > q => b[j][1].id \in DOMAIN t)
    BY <1>4, <1>10, <2>1
  <2>7. Adds(u, t, row, k)
    BY DEF Extends
  <2>8. k \in Nat /\ Chain(u, v, q, i + 1)
    BY <1>11
  <2>5. OneLonger(t, b, v, q, i, k)
    BY <1>1, <2>1, <2>3, <2>4 DEF OneLonger
  <2>9. QED
    BY ONLY <2>2, <2>5, <2>7, <2>8, OneMorePrune
<1>12. \A q \in fr..i + 1 : q \in fr..i \/ q = i + 1
  BY <1>1
<1>13. i + 2..i + 1 = {} /\ i + 1 + 1 = i + 2
  BY <1>1
<1>14. Rids(v, i + 1, i + 1) = {}
  BY <1>13 DEF Rids
<1>15. Below(u, v, i + 1, fr, d)
  <2> SUFFICES ASSUME NEW q \in fr..i + 1, Chain(u, v, q, i + 1)
               PROVE  Describes(d[q], u, Rids(v, q, i + 1))
    BY DEF Below
  <2>1. CASE q \in fr..i
    <3>1. q \in 0..i
      BY <1>1, <2>1
    <3>2. Describes(c[q], t, Rids(b, q, i))
      BY <1>0, <1>11, <2>1 DEF Below
    <3>3. QED
      BY <1>6, <1>11, <2>1, <3>1, <3>2 DEF SameSight
  <2>2. CASE q = i + 1
    BY <1>6, <1>14, <2>2
  <2>3. QED
    BY <1>12, <2>1, <2>2
<1>16. Tops(u, g, v, i + 1, fr)
  <2> SUFFICES ASSUME NEW q \in fr + 1..i + 1, Chain(u, v, q - 1, i + 1)
               PROVE  /\ IsTop(u, Rids(v, q, i + 1), v[q][1].id)
                      /\ g[q][1].m = "DELETE" =>
                             /\ g[q][1].id \in CurrentIn(u, Rids(v, q - 1, i + 1))
                             /\ u[g[q][1].id].val = g[q][1].val
    BY DEF Tops
  <2>0. q - 1 \in fr..i
    BY <1>1
  <2>1. CASE q = i + 1
    <3>1. q - 1 = i
      BY <1>1, <2>1
    <3>2. IsPrune(v, i + 1) /\ CurrentIn(t, Rids(b, i, i)) = CurrentIn(u, Rids(v, i, i + 1))
      BY <1>11, <2>0, <3>1 DEF SameSight
    <3>3. Rids(b, i, i) = {}
      <4>1. i + 1..i = {}
        BY <1>1
      <4>2. QED
        BY <4>1 DEF Rids
    <3>4. v[i + 1][1].id = k /\ g[i + 1][1] = o
      BY <1>3, <1>4, <3>2 DEF IsPrune, Prunable
    <3>5. IsTop(u, {}, k)
      BY RowShows DEF Extends
    <3>6. o.m = "DELETE" => o.id \in CurrentIn(u, Rids(v, i, i + 1)) /\ u[o.id].val = o.val
      BY <1>2, <1>4, <3>2, <3>3 DEF IsPrune, Prunable, CurrentIn, PresentIn
    <3>7. QED
      BY <1>14, <2>1, <3>1, <3>4, <3>5, <3>6
  <2>2. CASE q # i + 1
    <3>1. q \in fr + 1..i /\ q \in fr..i /\ q \in 1..i
      BY <1>1, <2>2
    <3>2. Chain(u, v, q, i + 1)
      <4>1. \A j \in q + 1..i + 1 : j \in q - 1 + 1..i + 1
        BY <1>1, <3>1
      <4>2. QED
        BY <4>1 DEF Chain
    <3>3. Chain(t, b, q - 1, i)
      BY <1>11, <2>0
    <3>4. /\ IsTop(t, Rids(b, q, i), b[q][1].id)
          /\ f[q][1].m = "DELETE" =>
                 /\ f[q][1].id \in CurrentIn(t, Rids(b, q - 1, i))
                 /\ t[f[q][1].id].val = f[q][1].val
      BY <1>0, <3>1, <3>3 DEF Tops
    <3>5. IsTop(u, Rids(v, q, i + 1), b[q][1].id)
      BY <1>11, <3>1, <3>2, <3>4 DEF SameSight
    <3>6. CurrentIn(t, Rids(b, q - 1, i)) = CurrentIn(u, Rids(v, q - 1, i + 1))
      BY <1>11, <2>0 DEF SameSight
    <3>7. \A n \in CurrentIn(t, Rids(b, q - 1, i)) : u[n] = t[n]
      BY <1>2 DEF CurrentIn, PresentIn
    <3>8. QED
      BY <1>3, <1>4, <3>1, <3>4, <3>5, <3>6, <3>7
  <2>3. QED
    BY <2>1, <2>2
<1>17. Ahead(ty, u, g, v, i + 1, fr)
  BY <1>3, <1>13 DEF Ahead
<1>18. Core(ty, u, g, v, i + 1, fr, s, a + 1, d)
  BY <1>7, <1>8, <1>9, <1>15, <1>16, <1>17 DEF Core
<1>19. QED
  BY <1>6, <1>18

-----------------------------------------------------------------------------
(* A prune takes its operation back.                                        *)

\* An operation that was undone, or can be: it has its form.
LEMMA FormSays ==
    ASSUME NEW ty, NEW t, NEW ops, NEW w, NEW x, NEW y, Form(ty, t, ops, w, x, y)
    PROVE  /\ ops[1].m \in {"POST", "PATCH", "DELETE"} /\ ops = <<ops[1]>> /\ w # <<>>
           /\ ops[1].m = "POST" => w[1].m = "STRAY"
           /\ ops[1].m # "POST" => Step(t, ops[1], x, y) /\ w[1].m \in {"PRUNE", "PATCH", "POST"}
           /\ w[1].m = "PRUNE" => ByPrune(ty, t, ops[1], w)
           /\ w[1].m = "PATCH" => ByPatch(ty, t, ops[1], w, x)
           /\ w[1].m = "POST" => ByPost(ty, t, ops[1], w, x)
<1>1. ByPrune(ty, t, ops[1], w) => w[1].m = "PRUNE"
  BY DEF ByPrune
<1>2. ByPatch(ty, t, ops[1], w, x) => w[1].m = "PATCH"
  BY DEF ByPatch, Op
<1>3. ByPost(ty, t, ops[1], w, x) => w[1].m = "POST"
  BY DEF ByPost, Op
<1>4. QED
  BY <1>1, <1>2, <1>3 DEF Form

\* What takes an operation back creates in the project of the page.
LEMMA FormPlain ==
    ASSUME NEW ty, NEW t, NEW ops, NEW w, NEW x, NEW y, Form(ty, t, ops, w, x, y),
           ops[1].m # "POST"
    PROVE  Plain(w)
<1>1. \/ ByPrune(ty, t, ops[1], w) \/ ByPatch(ty, t, ops[1], w, x) \/ ByPost(ty, t, ops[1], w, x)
  BY DEF Form
<1>2. CASE ByPrune(ty, t, ops[1], w)
  <2> PICK e, g : e = Op("PRUNE", w[1].id, 0)
                  /\ g = IF ops[1].m = "PATCH" THEN Op("select_old_obj", 0, 0)
                                             ELSE Op("delete_functor", ops[1].id, ops[1].val)
    OBVIOUS
  <2>1. w = <<e, g>> /\ e.m # "POST" /\ g.m # "POST"
    BY <1>2 DEF ByPrune, Op
  <2>2. QED
    BY ONLY <2>1 DEF Plain
<1>3. CASE ByPatch(ty, t, ops[1], w, x) \/ ByPost(ty, t, ops[1], w, x)
  <2>1. PICK e : w = <<e>> /\ (e.m = "POST" => e.id = 0)
    BY <1>3 DEF ByPatch, ByPost, Op
  <2>2. QED
    BY ONLY <2>1 DEF Plain
<1>4. QED
  BY <1>1, <1>2, <1>3

\* The numbers of a position, for a step down or up.
LEMMA PruneUndone ==
    ASSUME NEW ty, NEW t, NEW f, NEW b, NEW i, NEW fr, NEW p, NEW a, NEW c,
           Core(ty, t, f, b, i, fr, p, a, c), fr < i, IsPrune(b, i),
           b[i][1].id \in PresentIn(t, {}),
           NEW u, u = [t EXCEPT ![b[i][1].id].pruned = TRUE]
    PROVE  Core(ty, u, f, b, i - 1, fr, p, a, c)
<1> PICK r : r = b[i][1].id
  OBVIOUS
<1> PICK h : h = i - 1
  OBVIOUS
<1>0. /\ Shape(t, f, b, i, fr, p, a, c) /\ Contents(f, fr, p, a, c) /\ Forms(ty, t, f, b, fr, c)
      /\ Below(t, b, i, fr, c) /\ Tops(t, f, b, i, fr) /\ Ahead(ty, t, f, b, i, fr)
  BY DEF Core
<1>1. /\ t \in Seq(RowType) /\ i \in Nat /\ fr \in Nat /\ h \in Nat /\ i = h + 1 /\ fr <= h
      /\ h < i /\ i <= Len(f) /\ Len(f) \in Nat /\ i \in fr + 1..Len(f) /\ i \in fr + 1..i
  BY <1>0, ShapeSays
<1>2. r \in DOMAIN t /\ r \in PresentIn(t, {})
  BY DEF PresentIn
<1>20. PrunesRow(u, t, r)
  BY <1>1, <1>2 DEF PrunesRow
<1>3. /\ u \in Seq(RowType) /\ DOMAIN u = DOMAIN t /\ Len(u) = Len(t)
      /\ \A n \in DOMAIN t : u[n].elem = t[n].elem
  BY ONLY <1>20, PruneTyped
<1>4. Shape(u, f, b, h, fr, p, a, c)
  BY <1>0, <1>1, <1>3 DEF Shape
<1>5. Forms(ty, u, f, b, fr, c)
  <2> SUFFICES ASSUME NEW q \in fr + 1..Len(f) PROVE Form(ty, u, f[q], b[q], c[q - 1], c[q])
    BY DEF Forms
  <2>1. Form(ty, t, f[q], b[q], c[q - 1], c[q])
    BY <1>0 DEF Forms
  <2>2. DOMAIN t \subseteq DOMAIN u /\ \A n \in DOMAIN t : u[n].elem = t[n].elem
    BY <1>3
  <2>3. QED
    BY ONLY <2>1, <2>2, FormStays
<1>6. PresentIn(u, {}) = PresentIn(t, {}) \ {r}
  <2>1. \A n \in DOMAIN t : u[n].pruned <=> t[n].pruned \/ n = r
    <3>1. \A n \in DOMAIN t : t[n] \in RowType
      BY <1>1
    <3>2. QED
      BY <1>1, <1>2, <3>1 DEF RowType
  <2>2. QED
    BY <1>3, <2>1 DEF PresentIn
<1>7. ASSUME NEW q \in fr..h, Chain(u, b, q, h)
      PROVE  Chain(t, b, q, i) /\ SameSight(t, Rids(b, q, i), u, Rids(b, q, h))
  <2>1. q + 1..i = (q + 1..h) \cup {i}
    BY <1>1
  <2>2. Chain(t, b, q, i)
    BY <1>2, <1>6, <1>7, <2>1 DEF Chain
  <2> PICK S : S = Rids(b, q, i)
    OBVIOUS
  <2> PICK R : R = Rids(b, q, h)
    OBVIOUS
  <2>3. S \cup {r} = R \cup {r} /\ r \in S
    BY <2>1 DEF Rids
  <2>4. /\ PresentIn(t, S) = PresentIn(u, R)
        /\ \A n \in PresentIn(t, S) :
              t[n].elem = u[n].elem /\ t[n].val = u[n].val /\ t[n].deleted = u[n].deleted
    BY ONLY <1>20, <2>3, RowPruned
  <2>5. /\ \A n : IsTop(t, S, n) <=> IsTop(u, R, n)
        /\ CurrentIn(t, S) = CurrentIn(u, R)
        /\ \A n \in CurrentIn(t, S) : t[n].val = u[n].val
        /\ \A x : Describes(x, t, S) <=> Describes(x, u, R)
    BY ONLY <2>4, SameTables
  <2>6. QED
    BY <2>2, <2>5 DEF SameSight
<1>8. Below(u, b, h, fr, c)
  <2> SUFFICES ASSUME NEW q \in fr..h, Chain(u, b, q, h) PROVE Describes(c[q], u, Rids(b, q, h))
    BY DEF Below
  <2>1. q \in fr..i
    BY <1>1
  <2>2. Describes(c[q], t, Rids(b, q, i))
    BY <1>0, <1>7, <2>1 DEF Below
  <2>3. QED
    BY <1>7, <2>2 DEF SameSight
<1>9. Tops(u, f, b, h, fr)
  <2> SUFFICES ASSUME NEW q \in fr + 1..h, Chain(u, b, q - 1, h)
               PROVE  /\ IsTop(u, Rids(b, q, h), b[q][1].id)
                      /\ f[q][1].m = "DELETE" =>
                             /\ f[q][1].id \in CurrentIn(u, Rids(b, q - 1, h))
                             /\ u[f[q][1].id].val = f[q][1].val
    BY DEF Tops
  <2>1. q \in fr + 1..i /\ q \in fr..h /\ q - 1 \in fr..h /\ q - 1 + 1 = q /\ q \in Nat
    BY <1>1
  <2>2. Chain(u, b, q, h)
    <3>1. \A j \in q + 1..h : j \in q..h
      BY <1>1, <2>1
    <3>2. QED
      BY <2>1, <3>1 DEF Chain
  <2>3. Chain(t, b, q - 1, i) /\ SameSight(t, Rids(b, q - 1, i), u, Rids(b, q - 1, h))
    BY <1>7, <2>1
  <2>4. SameSight(t, Rids(b, q, i), u, Rids(b, q, h))
    BY <1>7, <2>1, <2>2
  <2>5. /\ IsTop(t, Rids(b, q, i), b[q][1].id)
        /\ f[q][1].m = "DELETE" =>
               /\ f[q][1].id \in CurrentIn(t, Rids(b, q - 1, i))
               /\ t[f[q][1].id].val = f[q][1].val
    BY <1>0, <2>1, <2>3 DEF Tops
  <2>6. QED
    BY <2>3, <2>4, <2>5 DEF SameSight
<1>10. Form(ty, t, f[i], b[i], c[i - 1], c[i])
  BY <1>0, <1>1 DEF Forms
<1>11. /\ f[i][1].m # "POST" /\ ByPrune(ty, t, f[i][1], b[i])
  BY <1>10, FormSays DEF IsPrune
<1>12. Chain(t, b, h, i) /\ SameSight(t, Rids(b, h, i), u, {})
  <2>1. h + 1..h = {} /\ h \in fr..h
    BY <1>1
  <2>2. Chain(u, b, h, h) /\ Rids(b, h, h) = {}
    BY <2>1 DEF Chain, Rids
  <2>3. QED
    BY <1>7, <2>1, <2>2
<1>13. IsTop(t, {}, r)
  <2>1. i + 1..i = {} /\ i - 1 = h
    BY <1>1
  <2>2. Rids(b, i, i) = {}
    BY <2>1 DEF Rids
  <2>3. QED
    BY <1>0, <1>1, <1>12, <2>1, <2>2 DEF Tops
<1>14. f[i][1].m = "DELETE" => f[i][1].id \in CurrentIn(u, {})
  <2>1. i - 1 = h
    BY <1>1
  <2>2. f[i][1].m = "DELETE" => f[i][1].id \in CurrentIn(t, Rids(b, h, i))
    BY <1>0, <1>1, <1>12, <2>1 DEF Tops
  <2>3. QED
    BY <1>12, <2>2 DEF SameSight
<1>15. \A n \in CurrentIn(t, {}) : n # r => n \in CurrentIn(u, {})
  <2> SUFFICES ASSUME NEW n \in CurrentIn(t, {}), n # r PROVE n \in CurrentIn(u, {})
    OBVIOUS
  <2>1. n \in PresentIn(u, {}) /\ n \in DOMAIN t /\ ~t[n].deleted
    BY <1>6 DEF CurrentIn, PresentIn
  <2>2. IsTop(u, {}, n)
    BY <1>3, <1>6, <2>1 DEF CurrentIn, IsTop, PresentIn
  <2>3. u[n] = t[n]
    BY <1>1, <2>1
  <2>4. QED
    BY <2>1, <2>2, <2>3 DEF CurrentIn
<1>16. \A j \in fr + 1..Len(f) : f[j][1].m # "POST" => f[j][1].id \in DOMAIN t
  <2> SUFFICES ASSUME NEW j \in fr + 1..Len(f), f[j][1].m # "POST" PROVE f[j][1].id \in DOMAIN t
    OBVIOUS
  <2>1. Form(ty, t, f[j], b[j], c[j - 1], c[j])
    BY <1>0 DEF Forms
  <2>2. QED
    BY <2>1, FormSays DEF Step
<1>17. Ahead(ty, u, f, b, h, fr)
  <2> SUFFICES ASSUME NEW j \in h + 1..Len(f)
               PROVE  /\ f[j][1].m # "POST"
                      /\ IsPrune(b, j) => b[j][1].id \notin PresentIn(u, {})
                      /\ f[j][1].m = "DELETE" =>
                          /\ f[j][1].id \in PresentIn(u, {}) => f[j][1].id \in CurrentIn(u, {})
                          /\ ty = "State" => j = h + 1 /\ fr = h
                          /\ \A k \in h + 1..j - 1 :
                                 u[f[k][1].id].elem = u[f[j][1].id].elem =>
                                     f[j][1].id \notin PresentIn(u, {})
    BY DEF Ahead
  <2>1. CASE j = i
    <3>1. \A k \in h + 1..j - 1 : FALSE
      BY <1>1, <2>1
    <3>2. f[j][1].m = "DELETE" => ty # "State"
      BY <1>11, <2>1 DEF ByPrune
    <3>3. b[j][1].id \notin PresentIn(u, {})
      BY <1>6, <2>1
    <3>4. QED
      BY <1>11, <1>14, <2>1, <3>1, <3>2, <3>3
  <2>2. CASE j # i
    <3>1. j \in i + 1..Len(f) /\ j \in fr + 1..Len(f)
      BY <1>1, <2>2
    <3>2. /\ f[j][1].m # "POST"
          /\ IsPrune(b, j) => b[j][1].id \notin PresentIn(t, {})
          /\ f[j][1].m = "DELETE" =>
                /\ f[j][1].id \in PresentIn(t, {}) => f[j][1].id \in CurrentIn(t, {})
                /\ ty = "State" => j = i + 1 /\ fr = i
                /\ \A k \in i + 1..j - 1 :
                       t[f[k][1].id].elem = t[f[j][1].id].elem =>
                           f[j][1].id \notin PresentIn(t, {})
      BY <1>0, <3>1 DEF Ahead
    <3>3. IsPrune(b, j) => b[j][1].id \notin PresentIn(u, {})
      BY <1>6, <3>2
    <3>4. ASSUME f[j][1].m = "DELETE"
          PROVE  /\ f[j][1].id \in PresentIn(u, {}) => f[j][1].id \in CurrentIn(u, {})
                 /\ ty # "State"
      <4>1. ~(fr = i)
        BY ONLY <1>1
      <4>2. ty # "State"
        BY <3>2, <3>4, <4>1
      <4>3. f[j][1].id \in PresentIn(u, {}) => f[j][1].id \in CurrentIn(u, {})
        BY <1>6, <1>15, <3>2, <3>4
      <4>4. QED
        BY <4>2, <4>3
    <3>5. ASSUME f[j][1].m = "DELETE", NEW k \in h + 1..j - 1,
                 u[f[k][1].id].elem = u[f[j][1].id].elem, f[j][1].id \in PresentIn(u, {})
          PROVE  FALSE
      <4>1. f[j][1].id \in PresentIn(t, {}) /\ f[j][1].id # r
        BY <1>6, <3>5
      <4>2. f[j][1].id \in DOMAIN t
        BY <4>1 DEF PresentIn
      <4>3. CASE k = i
        <5>1. f[i][1].id \in DOMAIN t
          BY <1>1, <1>11, <1>16
        <5>2. t[f[j][1].id].elem = t[r].elem
          BY <1>3, <1>11, <3>5, <4>2, <4>3, <5>1 DEF ByPrune
        <5>3. IsTop(t, {}, f[j][1].id)
          BY <3>2, <3>5, <4>1 DEF CurrentIn
        <5>4. r <= f[j][1].id /\ f[j][1].id <= r
          BY <1>2, <1>13, <4>1, <5>2, <5>3 DEF IsTop
        <5>5. r \in Nat /\ f[j][1].id \in Nat
          BY <1>1, <1>2, <4>2
        <5>6. QED
          BY ONLY <4>1, <5>4, <5>5
      <4>4. CASE k # i
        <5>1. k \in i + 1..j - 1 /\ k \in i + 1..Len(f) /\ k \in fr + 1..Len(f)
          BY <1>1, <3>1, <3>5, <4>4
        <5>2. f[k][1].m # "POST"
          BY <1>0, <5>1 DEF Ahead
        <5>3. f[k][1].id \in DOMAIN t
          BY <1>16, <5>1, <5>2
        <5>4. t[f[k][1].id].elem = t[f[j][1].id].elem
          BY <1>3, <3>5, <4>2, <5>3
        <5>5. QED
          BY <3>2, <3>5, <4>1, <5>1, <5>4
      <4>5. QED
        BY <4>3, <4>4
    <3>6. QED
      BY <3>2, <3>3, <3>4, <3>5
  <2>3. QED
    BY <2>1, <2>2
<1>18. Core(ty, u, f, b, h, fr, p, a, c)
  BY <1>0, <1>4, <1>5, <1>8, <1>9, <1>17 DEF Core
<1>19. QED
  BY <1>18

-----------------------------------------------------------------------------
(* A PATCH takes its operation back; an operation is repeated.              *)

\* What is there with a new revision.
LEMMA ExtendsSays ==
    ASSUME NEW t, NEW u, NEW row, NEW k, Extends(u, t, row, k)
    PROVE  /\ DOMAIN t \subseteq DOMAIN u /\ k \notin DOMAIN t /\ u[k] = row
           /\ \A n \in DOMAIN t : u[n] = t[n]
           /\ PresentIn(u, {}) = PresentIn(t, {}) \cup {k}
           /\ CurrentIn(u, {}) = {n \in CurrentIn(t, {}) : t[n].elem # row.elem}
                                    \cup (IF row.deleted THEN {} ELSE {k})
<1>1. Adds(u, t, row, k) /\ k \in Nat /\ ~row.pruned
  BY DEF Extends, Adds
<1>2. DOMAIN t \subseteq DOMAIN u /\ k \notin DOMAIN t /\ u[k] = row /\ \A n \in DOMAIN t : u[n] = t[n]
  BY <1>1 DEF Adds
<1>3. QED
  BY <1>1, <1>2, RowShows

\* The shape stays when the table grows and the position moves.
LEMMA ShapeMoves ==
    ASSUME NEW t, NEW f, NEW b, NEW i, NEW fr, NEW p, NEW a, NEW c, Shape(t, f, b, i, fr, p, a, c),
           NEW u, NEW row, NEW k, Extends(u, t, row, k),
           NEW j \in 0..Len(f), NEW g \in 0..j
    PROVE  Shape(u, f, b, j, g, p, a, c)
<1>1. /\ u \in Seq(RowType) /\ Len(u) = k /\ k = Len(t) + 1 /\ row.elem \in 1..k
      /\ t \in Seq(RowType) /\ \A n \in DOMAIN t : t[n].elem \in 1..Len(t)
  BY DEF Extends, Shape
<1>2. Len(t) \in Nat /\ DOMAIN t = 1..Len(t) /\ DOMAIN u = 1..k
  BY <1>1
<1>3. u[k] = row /\ \A n \in DOMAIN t : u[n] = t[n]
  BY ExtendsSays
<1>4. \A n \in DOMAIN u : n = k \/ n \in DOMAIN t
  BY ONLY <1>1, <1>2
<1>5. \A e \in 1..Len(t) : e \in 1..k
  BY ONLY <1>1, <1>2
<1>6. \A n \in DOMAIN u : u[n].elem \in 1..Len(u)
  BY <1>1, <1>3, <1>4, <1>5
<1>7. QED
  BY <1>1, <1>6 DEF Shape

\* So do the forms.
LEMMA FormsMove ==
    ASSUME NEW ty, NEW t, NEW f, NEW b, NEW fr \in Nat, NEW c, Forms(ty, t, f, b, fr, c), Len(f) \in Nat,
           NEW u, NEW row, NEW k, Extends(u, t, row, k), NEW g \in Nat, fr <= g
    PROVE  Forms(ty, u, f, b, g, c)
<1> SUFFICES ASSUME NEW q \in g + 1..Len(f) PROVE Form(ty, u, f[q], b[q], c[q - 1], c[q])
  BY DEF Forms
<1>1. q \in fr + 1..Len(f)
  OBVIOUS
<1>2. Form(ty, t, f[q], b[q], c[q - 1], c[q])
  BY <1>1 DEF Forms
<1>3. DOMAIN t \subseteq DOMAIN u /\ \A n \in DOMAIN t : u[n].elem = t[n].elem
  BY ExtendsSays
<1>4. QED
  BY ONLY <1>2, <1>3, FormStays

\* The rows that the operations address are known.
LEMMA Known ==
    ASSUME NEW ty, NEW t, NEW f, NEW b, NEW fr, NEW c, Forms(ty, t, f, b, fr, c),
           NEW j \in fr + 1..Len(f)
    PROVE  /\ f[j][1].m # "POST" => f[j][1].id \in DOMAIN t
           /\ IsPrune(b, j) => b[j][1].id \in DOMAIN t
<1>1. Form(ty, t, f[j], b[j], c[j - 1], c[j])
  BY DEF Forms
<1>2. QED
  BY <1>1, FormSays DEF Step, IsPrune, ByPrune

\* An operation on states taken back by a PATCH; the operations below it are
\* frail from then on, unless none of them is taken back by a prune.
LEMMA PlainUndone ==
    ASSUME NEW t, NEW f, NEW b, NEW i, NEW fr, NEW p, NEW a, NEW c,
           Core("State", t, f, b, i, fr, p, a, c), fr < i,
           NEW u, NEW row, NEW k, Extends(u, t, row, k), ~row.deleted,
           b[i][1].m = "PATCH", row.elem = t[f[i][1].id].elem, row.val = b[i][1].val,
           NEW g, g = i - 1 \/ (g = fr /\ \A j \in fr + 1..i - 1 : ~IsPrune(b, j))
    PROVE  Core("State", u, f, b, i - 1, g, p, a, c)
<1> PICK h : h = i - 1
  OBVIOUS
<1>0. /\ Shape(t, f, b, i, fr, p, a, c) /\ Contents(f, fr, p, a, c) /\ Forms("State", t, f, b, fr, c)
      /\ Below(t, b, i, fr, c) /\ Tops(t, f, b, i, fr) /\ Ahead("State", t, f, b, i, fr)
  BY DEF Core
<1>1. /\ i \in Nat /\ fr \in Nat /\ Len(f) \in Nat /\ i <= Len(f) /\ fr <= i
  BY <1>0, ShapeSays
<1>2. /\ h \in Nat /\ i = h + 1 /\ fr <= h /\ g \in Nat /\ g <= h /\ fr <= g
      /\ h \in 0..Len(f) /\ g \in 0..h /\ i \in fr + 1..Len(f) /\ i \in fr + 1..i
  BY <1>1
<1>3. Shape(u, f, b, h, g, p, a, c)
  BY ONLY <1>0, <1>2, Extends(u, t, row, k), ShapeMoves
<1>4. Contents(f, g, p, a, c)
  <2>1. \A q \in g..Len(f) : q \in fr..Len(f)
    BY <1>1, <1>2
  <2>2. QED
    BY <1>0, <2>1 DEF Contents
<1>5. Forms("State", u, f, b, g, c)
  BY ONLY <1>0, <1>1, <1>2, Extends(u, t, row, k), FormsMove
<1>6. Form("State", t, f[i], b[i], c[i - 1], c[i])
  BY <1>0, <1>2 DEF Forms
<1>7. /\ f[i][1].m = "PATCH" /\ Step(t, f[i][1], c[h], c[i])
      /\ row.val = c[h][t[f[i][1].id].elem]
  BY <1>6, FormSays DEF ByPatch, Op
<1> PICK e : e = row.elem
  OBVIOUS
<1>8. Describes(c[h], u, {})
  <2>1. e \in DOMAIN c[h] /\ c[i] = Put(c[h], e, f[i][1].val) /\ row.val = c[h][e]
    BY <1>7 DEF Step
  <2>2. Describes(c[i], t, {})
    BY <1>0, <1>1, HereDescribed
  <2>3. Describes(Put(c[i], e, row.val), u, {})
    <3>1. Adds(u, t, row, k) /\ k \in Nat /\ ~row.pruned
      BY DEF Extends, Adds
    <3>2. QED
      BY <2>2, <3>1, RowDescribed
  <2>4. IsContent(c[h], a)
    <3>1. h \in fr..Len(f)
      BY <1>1, <1>2
    <3>2. QED
      BY <1>0, <3>1 DEF Contents
  <2>5. Put(c[i], e, row.val) = c[h]
    <3> PICK x : x = c[h]
      OBVIOUS
    <3> PICK z : z = Put(x, e, f[i][1].val)
      OBVIOUS
    <3>1. x = [d \in DOMAIN x |-> x[d]] /\ e \in DOMAIN x /\ row.val = x[e]
      BY <2>1, <2>4 DEF IsContent
    <3>2. DOMAIN z = DOMAIN x /\ \A d \in DOMAIN x : d # e => z[d] = x[d]
      BY <3>1 DEF Put
    <3>3. Put(z, e, row.val) = [d \in DOMAIN x |-> x[d]]
      BY ONLY <3>1, <3>2 DEF Put
    <3>4. QED
      BY <2>1, <3>1, <3>3
  <2>6. QED
    BY <2>3, <2>5
<1>9. ASSUME NEW q \in g..h, q # h PROVE ~Chain(u, b, q, h)
  <2>1. q + 1 \in q + 1..h /\ q + 1 \in fr + 1..i - 1 /\ g # i - 1
    BY <1>1, <1>2, <1>9
  <2>2. ~IsPrune(b, q + 1)
    BY <2>1
  <2>3. QED
    BY <2>1, <2>2 DEF Chain
<1>10. Below(u, b, h, g, c)
  <2>1. h + 1..h = {}
    BY <1>2
  <2>2. Rids(b, h, h) = {}
    BY <2>1 DEF Rids
  <2>3. QED
    BY <1>8, <1>9, <2>2 DEF Below
<1>11. Tops(u, f, b, h, g)
  <2> SUFFICES ASSUME NEW q \in g + 1..h PROVE ~Chain(u, b, q - 1, h)
    BY DEF Tops
  <2>1. q - 1 \in g..h /\ q - 1 # h
    BY <1>2
  <2>2. QED
    BY <1>9, <2>1
<1>12. Ahead("State", u, f, b, h, g)
  <2> SUFFICES ASSUME NEW j \in h + 1..Len(f)
               PROVE  /\ f[j][1].m \notin {"POST", "DELETE"}
                      /\ IsPrune(b, j) => b[j][1].id \notin PresentIn(u, {})
    BY DEF Ahead
  <2>1. CASE j = i
    BY <1>7, <2>1 DEF IsPrune
  <2>2. CASE j # i
    <3>1. j \in i + 1..Len(f) /\ j \in fr + 1..Len(f) /\ fr # i
      BY <1>1, <1>2, <2>2
    <3>2. IsPrune(b, j) => b[j][1].id \in DOMAIN t
      BY <1>0, <3>1, Known
    <3>3. f[j][1].m \notin {"POST", "DELETE"}
      BY <1>0, <3>1 DEF Ahead
    <3>4. IsPrune(b, j) => b[j][1].id \notin PresentIn(t, {})
      BY <1>0, <3>1 DEF Ahead
    <3>5. QED
      BY <3>2, <3>3, <3>4, ExtendsSays
  <2>3. QED
    BY <2>1, <2>2
<1>13. QED
  BY <1>3, <1>4, <1>5, <1>10, <1>11, <1>12 DEF Core


\* An operation repeated makes a new revision of the same annotation.
LEMMA Redone ==
    ASSUME NEW ty, NEW t, NEW f, NEW b, NEW i, NEW fr, NEW p, NEW a, NEW c,
           Core(ty, t, f, b, i, fr, p, a, c), i < Len(f),
           NEW u, NEW row, NEW k, Extends(u, t, row, k), row.elem = t[f[i + 1][1].id].elem,
           row.deleted <=> f[i + 1][1].m = "DELETE",
           f[i + 1][1].m = "PATCH" => row.val = f[i + 1][1].val
    PROVE  Core(ty, u, f, b, i + 1, fr, p, a, c)
<1> PICK h : h = i + 1
  OBVIOUS
<1>0. /\ Shape(t, f, b, i, fr, p, a, c) /\ Contents(f, fr, p, a, c) /\ Forms(ty, t, f, b, fr, c)
      /\ Below(t, b, i, fr, c) /\ Tops(t, f, b, i, fr) /\ Ahead(ty, t, f, b, i, fr)
  BY DEF Core
<1>1. /\ i \in Nat /\ fr \in Nat /\ Len(f) \in Nat /\ i <= Len(f) /\ fr <= i
  BY <1>0, ShapeSays
<1>2. /\ h \in Nat /\ i = h - 1 /\ fr <= h
      /\ h \in 0..Len(f) /\ fr \in 0..h /\ h \in fr + 1..Len(f) /\ h \in i + 1..Len(f)
  BY <1>1
<1>3. Shape(u, f, b, h, fr, p, a, c)
  BY ONLY <1>0, <1>2, Extends(u, t, row, k), ShapeMoves
<1>5. Forms(ty, u, f, b, fr, c)
  <2>1. fr <= fr
    BY <1>1
  <2>2. QED
    BY ONLY <1>0, <1>1, <2>1, Extends(u, t, row, k), FormsMove
<1>6. Form(ty, t, f[h], b[h], c[i], c[h])
  BY <1>0, <1>2 DEF Forms
<1>7. /\ f[h][1].m \in {"PATCH", "DELETE"} /\ Step(t, f[h][1], c[i], c[h])
      /\ f[h][1].id \in DOMAIN t /\ (IsPrune(b, h) => b[h][1].id \notin PresentIn(u, {}))
  <2>1. f[h][1].m # "POST" /\ (IsPrune(b, h) => b[h][1].id \notin PresentIn(t, {}))
    BY <1>0, <1>2 DEF Ahead
  <2>2. IsPrune(b, h) => b[h][1].id \in DOMAIN t
    BY <1>0, <1>2, Known
  <2>3. f[h][1].m \in {"PATCH", "DELETE"} /\ Step(t, f[h][1], c[i], c[h])
    BY <1>6, <2>1, FormSays
  <2>4. QED
    BY <2>1, <2>2, <2>3, ExtendsSays DEF Step
<1>8. Describes(c[h], u, {})
  <2>2. Describes(c[i], t, {})
    BY <1>0, <1>1, HereDescribed
  <2>3. Adds(u, t, row, k) /\ k \in Nat /\ ~row.pruned
    BY DEF Extends, Adds
  <2>4. /\ ~row.deleted => Describes(Put(c[i], row.elem, row.val), u, {})
        /\ row.deleted => Describes(Drop(c[i], row.elem), u, {})
    BY <2>2, <2>3, RowDescribed
  <2>5. QED
    BY <1>7, <2>4 DEF Step
<1>9. ASSUME NEW q \in fr..i PROVE ~Chain(u, b, q, h)
  <2>1. h \in q + 1..h
    BY <1>1, <1>2
  <2>2. QED
    BY <1>7, <2>1 DEF Chain
<1>10. Below(u, b, h, fr, c)
  <2>1. h + 1..h = {} /\ \A q \in fr..h : q \in fr..i \/ q = h
    BY <1>1, <1>2
  <2>2. Rids(b, h, h) = {}
    BY <2>1 DEF Rids
  <2>3. QED
    BY <1>8, <1>9, <2>1, <2>2 DEF Below
<1>11. Tops(u, f, b, h, fr)
  <2> SUFFICES ASSUME NEW q \in fr + 1..h PROVE ~Chain(u, b, q - 1, h)
    BY DEF Tops
  <2>1. q - 1 \in fr..i
    BY <1>1, <1>2
  <2>2. QED
    BY <1>9, <2>1
<1>12. Ahead(ty, u, f, b, h, fr)
  <2> SUFFICES ASSUME NEW j \in h + 1..Len(f)
               PROVE  /\ f[j][1].m # "POST"
                      /\ IsPrune(b, j) => b[j][1].id \notin PresentIn(u, {})
                      /\ f[j][1].m = "DELETE" =>
                          /\ f[j][1].id \in PresentIn(u, {}) => f[j][1].id \in CurrentIn(u, {})
                          /\ ty # "State"
                          /\ \A m \in h + 1..j - 1 :
                                 u[f[m][1].id].elem = u[f[j][1].id].elem =>
                                     f[j][1].id \notin PresentIn(u, {})
    BY DEF Ahead
  <2>1. /\ j \in i + 1..Len(f) /\ j \in fr + 1..Len(f) /\ j # i + 1 /\ h \in i + 1..j - 1
        /\ \A m \in h + 1..j - 1 : m \in i + 1..j - 1 /\ m \in i + 1..Len(f) /\ m \in fr + 1..Len(f)
    BY <1>1, <1>2
  <2>2. /\ f[j][1].m # "POST" => f[j][1].id \in DOMAIN t
        /\ IsPrune(b, j) => b[j][1].id \in DOMAIN t
    BY <1>0, <2>1, Known
  <2>3. /\ f[j][1].m # "POST"
        /\ IsPrune(b, j) => b[j][1].id \notin PresentIn(t, {})
        /\ f[j][1].m = "DELETE" =>
              /\ f[j][1].id \in PresentIn(t, {}) => f[j][1].id \in CurrentIn(t, {})
              /\ ty = "State" => j = i + 1
              /\ \A m \in i + 1..j - 1 :
                     t[f[m][1].id].elem = t[f[j][1].id].elem =>
                         f[j][1].id \notin PresentIn(t, {})
    BY <1>0, <2>1 DEF Ahead
  <2>4. IsPrune(b, j) => b[j][1].id \notin PresentIn(u, {})
    BY <2>2, <2>3, ExtendsSays
  <2>5. ASSUME f[j][1].m = "DELETE"
        PROVE  /\ f[j][1].id \in PresentIn(u, {}) => f[j][1].id \in CurrentIn(u, {})
               /\ ty # "State"
    <3>1. f[j][1].id \in DOMAIN t
      BY <2>2, <2>5
    <3>2. f[j][1].id \in PresentIn(u, {}) => f[j][1].id \in PresentIn(t, {})
      BY <3>1, ExtendsSays
    <3>3. f[j][1].id \in PresentIn(t, {}) =>
              f[j][1].id \in CurrentIn(t, {}) /\ t[f[j][1].id].elem # row.elem
      BY <2>1, <2>3, <2>5
    <3>4. QED
      BY <2>1, <2>3, <2>5, <3>2, <3>3, ExtendsSays
  <2>6. ASSUME f[j][1].m = "DELETE", NEW m \in h + 1..j - 1,
               u[f[m][1].id].elem = u[f[j][1].id].elem
        PROVE  f[j][1].id \notin PresentIn(u, {})
    <3>1. f[j][1].id \in DOMAIN t /\ f[m][1].m # "POST"
      BY <1>0, <2>1, <2>2, <2>6 DEF Ahead
    <3>2. f[m][1].id \in DOMAIN t
      BY <1>0, <2>1, <3>1, Known
    <3>3. t[f[m][1].id].elem = t[f[j][1].id].elem
      BY <2>6, <3>1, <3>2, ExtendsSays
    <3>4. f[j][1].id \notin PresentIn(t, {})
      BY <2>1, <2>3, <2>6, <3>3
    <3>5. QED
      BY <3>1, <3>4, ExtendsSays
  <2>7. QED
    BY <2>3, <2>4, <2>5, <2>6
<1>13. QED
  BY <1>0, <1>3, <1>5, <1>10, <1>11, <1>12 DEF Core

-----------------------------------------------------------------------------
(* The values, when an annotation gets a new one or goes.                   *)

\* The values, when an annotation gets a new one or goes.
LEMMA PutContent ==
    ASSUME NEW y, NEW a \in Nat, IsContent(y, a), NEW e
    PROVE  /\ IsContent(Put(y, e, a + 1), a + 1)
           /\ e \in DOMAIN y => ValuesOf(Put(y, e, a + 1)) = (ValuesOf(y) \ {y[e]}) \cup {a + 1}
           /\ e \notin DOMAIN y => ValuesOf(Put(y, e, a + 1)) = ValuesOf(y) \cup {a + 1}
<1> PICK n : n = a + 1
  OBVIOUS
<1> PICK x : x = Put(y, e, n)
  OBVIOUS
<1>1. /\ DOMAIN x = DOMAIN y \cup {e} /\ x[e] = n /\ \A d \in DOMAIN y : d # e => x[d] = y[d]
      /\ x = [d \in DOMAIN x |-> x[d]]
  BY DEF Put
<1>2. n \in Int /\ \A v \in Int : v <= a => v <= n /\ v # n
  OBVIOUS
<1>3. \A d \in DOMAIN y : y[d] \in Int /\ y[d] <= a /\ y[d] <= n /\ y[d] # n
  BY <1>2 DEF IsContent
<1>4. \A d \in DOMAIN x : d = e \/ (d # e /\ d \in DOMAIN y /\ x[d] = y[d])
  BY <1>1
<1>5. \A d \in DOMAIN x : x[d] \in Int /\ x[d] <= n
  BY <1>1, <1>2, <1>3, <1>4
<1>6. \A d, m \in DOMAIN x : x[d] = x[m] => d = m
  BY <1>1, <1>3, <1>4 DEF IsContent
<1>7. IsContent(x, n)
  BY <1>1, <1>5, <1>6 DEF IsContent
<1>8. \A d, m \in DOMAIN y : y[d] = y[m] => d = m
  BY DEF IsContent
<1>9. ASSUME e \in DOMAIN y PROVE ValuesOf(x) = (ValuesOf(y) \ {y[e]}) \cup {n}
  BY <1>1, <1>4, <1>8, <1>9 DEF ValuesOf
<1>10. ASSUME e \notin DOMAIN y PROVE ValuesOf(x) = ValuesOf(y) \cup {n}
  BY <1>1, <1>4, <1>10 DEF ValuesOf
<1>11. QED
  BY <1>7, <1>9, <1>10

\* The annotations without one.
LEMMA DropContent ==
    ASSUME NEW y, NEW a, IsContent(y, a), NEW e \in DOMAIN y
    PROVE  IsContent(Drop(y, e), a) /\ ValuesOf(Drop(y, e)) = ValuesOf(y) \ {y[e]}
<1> PICK x : x = Drop(y, e)
  OBVIOUS
<1>1. /\ DOMAIN x = DOMAIN y \ {e} /\ \A d \in DOMAIN x : x[d] = y[d]
      /\ x = [d \in DOMAIN x |-> x[d]]
  BY DEF Drop
<1>2. /\ \A d, m \in DOMAIN y : y[d] = y[m] => d = m
      /\ \A d \in DOMAIN y : y[d] \in Int /\ y[d] <= a
  BY DEF IsContent
<1>3. \A d \in DOMAIN x : d \in DOMAIN y /\ x[d] \in Int /\ x[d] <= a
  BY <1>1, <1>2
<1>4. \A d, m \in DOMAIN x : x[d] = x[m] => d = m
  BY <1>1, <1>2
<1>5. ValuesOf(x) = ValuesOf(y) \ {y[e]}
  BY <1>1, <1>2 DEF ValuesOf
<1>6. QED
  BY <1>1, <1>3, <1>4, <1>5 DEF IsContent

\* An annotation under another name.
Renames(y, e, z, k, x) ==
    e \in DOMAIN y /\ z = Drop(y, e) /\ k \notin DOMAIN z /\ x = Put(z, k, y[e])
\* The new annotations without the new name are the old without the old one.
IsRenamed(y, e, z, k, x) == z = Drop(x, k) /\ x[k] = y[e]

\* Another name leaves the values as they are.
LEMMA Renamed ==
    ASSUME NEW y, NEW a, IsContent(y, a), NEW e, NEW z, NEW k, NEW x, Renames(y, e, z, k, x)
    PROVE  /\ IsContent(x, a) /\ ValuesOf(x) = ValuesOf(y)
           /\ DOMAIN z = DOMAIN y \ {e} /\ k \in DOMAIN x /\ IsRenamed(y, e, z, k, x)
<1>1. /\ DOMAIN z = DOMAIN y \ {e} /\ \A d \in DOMAIN z : z[d] = y[d]
      /\ z = [d \in DOMAIN z |-> z[d]]
  BY DEF Drop, Renames
<1>2. /\ DOMAIN x = DOMAIN z \cup {k} /\ x[k] = y[e] /\ \A d \in DOMAIN z : x[d] = z[d]
      /\ x = [d \in DOMAIN x |-> x[d]]
  BY DEF Put, Renames
<1>0. e \in DOMAIN y /\ k \notin DOMAIN z
  BY DEF Renames
<1>3. /\ \A d, m \in DOMAIN y : y[d] = y[m] => d = m
      /\ \A d \in DOMAIN y : y[d] \in Int /\ y[d] <= a
  BY DEF IsContent
<1>4. \A d \in DOMAIN x : (d = k /\ x[d] = y[e]) \/ (d # k /\ d \in DOMAIN y /\ d # e /\ x[d] = y[d])
  BY <1>0, <1>1, <1>2
<1>5. \A d \in DOMAIN x : x[d] \in Int /\ x[d] <= a
  BY <1>0, <1>3, <1>4
<1>6. \A d, m \in DOMAIN x : x[d] = x[m] => d = m
  BY <1>0, <1>3, <1>4
<1>7. IsContent(x, a)
  BY <1>2, <1>5, <1>6 DEF IsContent
<1>8. ValuesOf(x) = ValuesOf(y)
  <2>1. \A d \in DOMAIN x : x[d] \in ValuesOf(y)
    BY <1>0, <1>4 DEF ValuesOf
  <2>2. ASSUME NEW d \in DOMAIN y PROVE y[d] \in ValuesOf(x)
    <3>1. CASE d = e
      BY <1>2, <3>1 DEF ValuesOf
    <3>2. CASE d # e
      <4>1. d \in DOMAIN z /\ d \in DOMAIN x /\ x[d] = y[d]
        BY <1>1, <1>2, <3>2
      <4>2. QED
        BY <4>1 DEF ValuesOf
    <3>3. QED
      BY <3>1, <3>2
  <2>3. QED
    BY <2>1, <2>2 DEF ValuesOf
<1>9. z = Drop(x, k)
  <2>1. DOMAIN x \ {k} = DOMAIN z
    BY <1>0, <1>2
  <2>2. QED
    BY <1>1, <1>2, <2>1 DEF Drop
<1>10. QED
  BY <1>1, <1>2, <1>7, <1>8, <1>9 DEF IsRenamed

-----------------------------------------------------------------------------
(* A POST takes a deletion back: the annotation has another id.             *)

\* An operation with its id replaced.
Moved(op, old, new) ==
    IF op.m \in {"POST", "PATCH", "DELETE", "PRUNE"} /\ op.id = old THEN [op EXCEPT !.id = new] ELSE op

\* Readdressed, at one place.
LEMMA ReaddressedAt ==
    ASSUME NEW lists \in Lists, NEW old, NEW new \in Nat, NEW q \in 1..Len(lists)
    PROVE  LET g == Readdressed(lists, old, new)
           IN  /\ DOMAIN g[q] = DOMAIN lists[q]
               /\ \A n \in DOMAIN lists[q] : g[q][n] = Moved(lists[q][n], old, new)
               /\ g[q] \in Seq(OpType) /\ Len(g[q]) = Len(lists[q])
               /\ (\A n \in DOMAIN lists[q] : lists[q][n].m \in {"POST", "PATCH", "DELETE", "PRUNE"}
                                                   => lists[q][n].id # old)
                     => g[q] = lists[q]
<1> PICK g : g = Readdressed(lists, old, new)
  OBVIOUS
<1>1. q \in DOMAIN lists /\ lists[q] \in Seq(OpType)
  BY ListsSay
<1> DEFINE op(i, n) == Moved(lists[i][n], old, new)
<1>2. g = [i \in DOMAIN lists |-> [n \in DOMAIN lists[i] |-> op(i, n)]]
  BY DEF Readdressed, Moved
<1> HIDE DEF op
<1>3. g[q] = [n \in DOMAIN lists[q] |-> op(q, n)]
  BY <1>1, <1>2
<1>4. g \in Lists /\ Len(g) = Len(lists)
  BY ReaddressedTyped
<1>5. g[q] \in Seq(OpType)
  BY <1>4, ListsSay
<1>6. Len(g[q]) = Len(lists[q])
  <2> PICK x : x = g[q]
    OBVIOUS
  <2> PICK y : y = lists[q]
    OBVIOUS
  <2>1. x \in Seq(OpType) /\ y \in Seq(OpType) /\ DOMAIN x = DOMAIN y
    BY <1>1, <1>3, <1>5
  <2>2. Len(x) = Len(y)
    BY ONLY <2>1
  <2>3. QED
    BY <2>2
<1>7. ASSUME \A n \in DOMAIN lists[q] : lists[q][n].m \in {"POST", "PATCH", "DELETE", "PRUNE"}
                                           => lists[q][n].id # old
      PROVE  g[q] = lists[q]
  <2>1. \A n \in DOMAIN lists[q] : op(q, n) = lists[q][n]
    BY <1>7 DEF op, Moved
  <2>2. lists[q] = [n \in DOMAIN lists[q] |-> lists[q][n]]
    BY <1>1
  <2>3. QED
    BY <1>3, <2>1, <2>2
<1>8. \A n \in DOMAIN lists[q] : g[q][n] = Moved(lists[q][n], old, new)
  BY <1>3 DEF op
<1>9. QED
  BY <1>3, <1>5, <1>6, <1>7, <1>8

\* Where nothing has the id, nothing changes.
LEMMA ReaddressedSame ==
    ASSUME NEW lists \in Lists, NEW old, NEW new \in Nat, NEW q \in 1..Len(lists),
           \A n \in DOMAIN lists[q] :
               lists[q][n].id # old \/ lists[q][n].m \notin {"POST", "PATCH", "DELETE", "PRUNE"}
    PROVE  Readdressed(lists, old, new)[q] = lists[q]
<1>1. \A n \in DOMAIN lists[q] : lists[q][n].m \in {"POST", "PATCH", "DELETE", "PRUNE"}
                                    => lists[q][n].id # old
  OBVIOUS
<1>2. QED
  BY <1>1, ReaddressedAt

\* Patches ahead add no annotation, and take none away.
LEMMA SameElements ==
    ASSUME NEW i \in Nat, NEW n \in Nat, NEW c,
           \A q \in i + 1..n : DOMAIN c[q] = DOMAIN c[q - 1]
    PROVE  \A q \in i..n : DOMAIN c[q] = DOMAIN c[i]
<1> DEFINE Bad == {q \in i..n : DOMAIN c[q] # DOMAIN c[i]}
<1>1. SUFFICES ASSUME Bad # {} PROVE FALSE
  OBVIOUS
<1>2. Bad \in SUBSET Nat
  OBVIOUS
<1>3. PICK q \in Bad : \A k \in Bad : q <= k
  BY <1>1, <1>2, LeastOf
<1>4. q \in i..n /\ DOMAIN c[q] # DOMAIN c[i]
  BY <1>3
<1> HIDE DEF Bad
<1>5. q # i
  BY <1>4
<1>6. q \in i + 1..n /\ q - 1 \in i..n /\ q - 1 \in Nat /\ q \in Nat
  BY ONLY <1>4, <1>5, i \in Nat, n \in Nat
<1>7. q - 1 \notin Bad
  <2>1. ~(q <= q - 1)
    BY ONLY <1>6
  <2>2. QED
    BY <1>3, <2>1
<1>8. DOMAIN c[q - 1] = DOMAIN c[i]
  BY <1>6, <1>7 DEF Bad
<1>9. QED
  BY <1>4, <1>6, <1>8

\* A deletion taken back by a POST; every operation below is frail.
LEMMA DeletionUndone ==
    ASSUME NEW t, NEW f, NEW b, NEW i, NEW fr, NEW p, NEW a, NEW c,
           Core("State", t, f, b, i, fr, p, a, c), fr < i, b[i][1].m = "POST",
           NEW u, NEW row, NEW k \in Nat, Extends(u, t, row, k), ~row.deleted,
           row.elem = k, row.val = b[i][1].val
    PROVE  \E d : Core("State", u, Readdressed(f, f[i][1].id, k), Readdressed(b, f[i][1].id, k),
                       i - 1, i - 1, p, a, d)
<1> PICK h : h = i - 1
  OBVIOUS
<1> PICK old : old = f[i][1].id
  OBVIOUS
<1> PICK g : g = Readdressed(f, old, k)
  OBVIOUS
<1> PICK v : v = Readdressed(b, old, k)
  OBVIOUS
<1>0. /\ Shape(t, f, b, i, fr, p, a, c) /\ Contents(f, fr, p, a, c) /\ Forms("State", t, f, b, fr, c)
      /\ Below(t, b, i, fr, c) /\ Ahead("State", t, f, b, i, fr)
  BY DEF Core
<1>1. /\ i \in Nat /\ fr \in Nat /\ Len(f) \in Nat /\ i <= Len(f) /\ fr <= i /\ Len(b) = Len(f)
      /\ f \in Lists /\ b \in Lists
  BY <1>0, ShapeSays DEF Shape
<1>2. /\ h \in Nat /\ i = h + 1 /\ fr <= h
      /\ h \in 0..Len(f) /\ h \in 0..h /\ i \in fr + 1..Len(f) /\ h \in fr..Len(f) /\ i \in fr..Len(f)
      /\ i \in 1..Len(f)
  BY <1>1
<1>3. Form("State", t, f[i], b[i], c[h], c[i])
  BY <1>0, <1>2 DEF Forms
<1> PICK o : o = f[i][1]
  OBVIOUS
<1> PICK e : e = t[old].elem
  OBVIOUS
<1> PICK val : val = row.val
  OBVIOUS
<1>4. /\ o.m = "DELETE" /\ o.id = old /\ old \in DOMAIN t /\ e \in DOMAIN c[h] /\ c[i] = Drop(c[h], e)
      /\ f[i] = <<o>> /\ b[i] = <<Op("POST", 0, val)>> /\ val = c[h][e]
  <2>1. /\ ByPost("State", t, o, b[i], c[h]) /\ f[i] = <<o>> /\ o.m # "POST"
        /\ Step(t, o, c[h], c[i])
    BY <1>3, FormSays DEF ByPost
  <2>2. b[i] = <<Op("POST", 0, c[h][e])>> /\ o.m = "DELETE"
    BY <2>1 DEF ByPost
  <2>3. val = c[h][e]
    BY <2>2 DEF Op
  <2>4. QED
    BY <2>1, <2>2, <2>3 DEF Step
\* What is there afterwards has the element under another name.
<1> PICK x : x = Put(c[i], k, val)
  OBVIOUS
<1> PICK d : d = [q \in 0..Len(f) |-> IF q = h THEN x ELSE c[q]]
  OBVIOUS
<1>5. DOMAIN d = 0..Len(f) /\ d[h] = x /\ \A q \in i..Len(f) : d[q] = c[q]
  BY <1>1, <1>2
<1>6. Describes(c[i], t, {})
  BY <1>0, <1>1, HereDescribed
<1>7. Describes(x, u, {})
  <2>1. Adds(u, t, row, k) /\ k \in Nat /\ ~row.pruned
    BY DEF Extends
  <2>2. QED
    BY <1>6, <2>1, RowDescribed
<1>8. k \notin DOMAIN c[i] /\ e # k /\ k = Len(t) + 1
  <2>1. k = Len(t) + 1 /\ Len(t) \in Nat /\ \A n \in DOMAIN t : t[n].elem \in 1..Len(t)
    BY <1>0, ShapeSays DEF Extends
  <2>2. ~(k \in 1..Len(t))
    BY ONLY <2>1
  <2>3. \A n \in CurrentIn(t, {}) : n \in DOMAIN t
    BY DEF CurrentIn, PresentIn
  <2>4. QED
    BY <1>4, <1>6, <2>1, <2>2, <2>3 DEF Describes
<1>9. IsContent(c[h], a) /\ IsContent(c[i], a) /\ p[h + 1] = ValuesOf(c[h])
  BY <1>0, <1>2 DEF Contents
<1>11. /\ IsContent(x, a) /\ ValuesOf(x) = ValuesOf(c[h]) /\ c[i] = Drop(x, k)
       /\ DOMAIN c[i] = DOMAIN c[h] \ {e} /\ k \in DOMAIN x /\ x[k] = val
  <2> PICK y : y = c[h]
    OBVIOUS
  <2> PICK z : z = c[i]
    OBVIOUS
  <2>1. IsContent(y, a) /\ Renames(y, e, z, k, x) /\ val = y[e]
    BY <1>4, <1>8, <1>9 DEF Renames
  <2>2. /\ IsContent(x, a) /\ ValuesOf(x) = ValuesOf(y)
        /\ DOMAIN z = DOMAIN y \ {e} /\ k \in DOMAIN x /\ IsRenamed(y, e, z, k, x)
    BY ONLY <2>1, Renamed
  <2>3. QED
    BY <2>1, <2>2 DEF IsRenamed
\* What is ahead.
<1>13. ASSUME NEW q \in i + 1..Len(f)
       PROVE  /\ Form("State", t, f[q], b[q], c[q - 1], c[q]) /\ f[q][1].m = "PATCH"
              /\ Step(t, f[q][1], c[q - 1], c[q]) /\ f[q] = <<f[q][1]>>
              /\ DOMAIN c[q] = DOMAIN c[q - 1]
              /\ IsPrune(b, q) => b[q][1].id \notin PresentIn(t, {}) /\ b[q][1].id \in DOMAIN t
  <2>1. q \in fr + 1..Len(f) /\ fr # i
    BY <1>1, <1>2
  <2>2. Form("State", t, f[q], b[q], c[q - 1], c[q])
    BY <1>0, <2>1 DEF Forms
  <2>3. f[q][1].m \notin {"POST", "DELETE"}
    BY <1>0, <2>1 DEF Ahead
  <2>4. f[q][1].m = "PATCH" /\ f[q] = <<f[q][1]>> /\ Step(t, f[q][1], c[q - 1], c[q])
    BY <2>2, <2>3, FormSays
  <2>5. t[f[q][1].id].elem \in DOMAIN c[q - 1] /\ c[q] = Put(c[q - 1], t[f[q][1].id].elem, f[q][1].val)
    BY <2>4 DEF Step
  <2>6. DOMAIN c[q] = DOMAIN c[q - 1]
    BY <2>5 DEF Put
  <2>7. IsPrune(b, q) => b[q][1].id \notin PresentIn(t, {}) /\ b[q][1].id \in DOMAIN t
    BY <1>0, <2>1, Known DEF Ahead
  <2>8. QED
    BY <2>2, <2>4, <2>6, <2>7
<1>14. \A q \in i..Len(f) : DOMAIN c[q] = DOMAIN c[i]
  <2>1. \A q \in i + 1..Len(f) : DOMAIN c[q] = DOMAIN c[q - 1]
    BY <1>13
  <2>2. QED
    BY ONLY <1>1, <2>1, SameElements
<1>15. ASSUME NEW q \in i + 1..Len(f) PROVE f[q][1].id # old /\ g[q] = f[q] /\ v[q] = b[q]
  <2>1. q - 1 \in i..Len(f) /\ q \in 1..Len(f)
    BY <1>1
  <2>2. t[f[q][1].id].elem \in DOMAIN c[i]
    BY <1>13, <1>14, <2>1 DEF Step
  <2>3. t[f[q][1].id].elem # e
    BY <1>11, <2>2
  <2>4. f[q][1].id # old
    BY <2>3
  <2>5. g[q] = f[q]
    <3>1. f[q] = <<f[q][1]>>
      BY <1>13
    <3>2. \A n \in DOMAIN f[q] : n = 1
      BY <3>1
    <3>3. \A n \in DOMAIN f[q] : f[q][n].id # old
      BY <2>4, <3>2
    <3>4. f \in Lists /\ q \in 1..Len(f)
      BY <1>1, <2>1
    <3>5. QED
      BY ONLY <3>3, <3>4, k \in Nat, g = Readdressed(f, old, k), ReaddressedSame
  <2>6. \A n \in DOMAIN b[q] :
              b[q][n].id # old \/ b[q][n].m \notin {"POST", "PATCH", "DELETE", "PRUNE"}
    <3>1. ByPrune("State", t, f[q][1], b[q]) \/ ByPatch("State", t, f[q][1], b[q], c[q - 1])
      BY <1>13 DEF Form, ByPost
    <3>2. CASE ByPatch("State", t, f[q][1], b[q], c[q - 1])
      <4>1. b[q] = <<Op("PATCH", f[q][1].id, c[q - 1][t[f[q][1].id].elem])>>
        BY <3>2 DEF ByPatch
      <4>2. \A n \in DOMAIN b[q] : n = 1 /\ b[q][1].id = f[q][1].id
        BY <4>1 DEF Op
      <4>3. QED
        BY <2>4, <4>2
    <3>3. CASE ByPrune("State", t, f[q][1], b[q])
      <4>1. b[q] = <<Op("PRUNE", b[q][1].id, 0), Op("select_old_obj", 0, 0)>>
        BY <1>13, <3>3 DEF ByPrune
      <4>2. \A n \in DOMAIN b[q] : n = 1 \/ (n = 2 /\ b[q][n].m = "select_old_obj")
        BY <4>1 DEF Op
      <4>3. b[q][1].id # old
        BY <2>3, <3>3 DEF ByPrune
      <4>4. QED
        BY <4>2, <4>3
    <3>4. QED
      BY <3>1, <3>2, <3>3
  <2>7. v[q] = b[q]
    <3>1. q \in 1..Len(b) /\ b \in Lists
      BY <1>1, <2>1
    <3>2. QED
      BY ONLY <2>6, <3>1, k \in Nat, v = Readdressed(b, old, k), ReaddressedSame
  <2>8. QED
    BY <2>4, <2>5, <2>7
<1>16. /\ g[i] = <<g[i][1]>> /\ g[i][1].m = "DELETE" /\ g[i][1].id = k
       /\ v[i] = b[i]
  <2>0. i \in 1..Len(b)
    BY <1>1, <1>2
  <2>1. \A n \in DOMAIN b[i] : b[i][n].id # old
    <3> PICK w : w = Op("POST", 0, val)
      OBVIOUS
    <3>1. b[i] = <<w>> /\ w.id = 0
      BY <1>4 DEF Op
    <3>2. DOMAIN t = 1..Len(t) /\ Len(t) \in Nat
      BY <1>0, ShapeSays
    <3>3. old # 0
      BY ONLY <1>4, <3>2
    <3>4. QED
      BY ONLY <3>1, <3>3
  <2>2. v[i] = b[i]
    BY ONLY <1>1, <2>0, <2>1, k \in Nat, v = Readdressed(b, old, k), ReaddressedSame
  <2>3. DOMAIN f[i] = {1} /\ Len(f[i]) = 1 /\ f[i][1] = o
    <3>1. f[i] = <<o>>
      BY <1>4
    <3>2. QED
      BY ONLY <3>1
  <2>4. /\ g[i] \in Seq(OpType) /\ Len(g[i]) = 1 /\ g[i][1] = Moved(o, old, k)
    BY <1>1, <1>2, <2>3, ReaddressedAt
  <2>5. g[i] = <<g[i][1]>>
    BY <2>4
  <2>6. o \in OpType
    BY <1>1, <1>2, <2>3, ListsSay
  <2>7. g[i][1].m = "DELETE" /\ g[i][1].id = k
    BY <1>4, <2>4, <2>6 DEF Moved, OpType
  <2>8. QED
    BY <2>2, <2>5, <2>7
<1>17. g \in Lists /\ v \in Lists /\ Len(g) = Len(f) /\ Len(v) = Len(f)
  BY <1>1, ReaddressedTyped
<1>18. Shape(u, g, v, h, h, p, a, d)
  <2>1. Shape(u, f, b, h, h, p, a, c)
    BY ONLY <1>0, <1>2, Extends(u, t, row, k), ShapeMoves
  <2>2. QED
    BY <1>5, <1>17, <2>1 DEF Shape
<1>19. Contents(g, h, p, a, d)
  <2> SUFFICES ASSUME NEW q \in h..Len(f) PROVE IsContent(d[q], a) /\ p[q + 1] = ValuesOf(d[q])
    BY <1>17 DEF Contents
  <2>1. CASE q = h
    BY <1>5, <1>9, <1>11, <2>1
  <2>2. CASE q # h
    <3>1. q \in i..Len(f) /\ q \in fr..Len(f)
      BY <1>1, <1>2, <2>2
    <3>2. QED
      BY <1>0, <1>5, <3>1 DEF Contents
  <2>3. QED
    BY <2>1, <2>2
<1>20. Forms("State", u, g, v, h, d)
  <2> SUFFICES ASSUME NEW q \in h + 1..Len(f) PROVE Form("State", u, g[q], v[q], d[q - 1], d[q])
    BY <1>17 DEF Forms
  <2>1. CASE q = i
    <3>1. d[q - 1] = x /\ d[q] = c[i]
      <4>1. i \in i..Len(f) /\ q - 1 = h
        BY <1>1, <1>2, <2>1
      <4>2. QED
        BY <1>5, <2>1, <4>1
    <3>2. k \in DOMAIN u /\ u[k].elem = k /\ u[k] = row
      BY ExtendsSays DEF Extends, Adds
    <3> PICK m : m = g[i][1]
      OBVIOUS
    <3>3. Step(u, m, x, c[i])
      BY <1>11, <1>16, <3>2 DEF Step
    <3>4. ByPost("State", u, m, v[i], x)
      BY <1>4, <1>11, <1>16, <3>2 DEF ByPost
    <3>5. v[i] # <<>>
      <4>1. v[i] = <<Op("POST", 0, val)>>
        BY <1>4, <1>16
      <4>2. QED
        BY <4>1
    <3>6. QED
      BY <1>16, <2>1, <3>1, <3>3, <3>4, <3>5 DEF Form
  <2>2. CASE q # i
    <3>1. q \in i + 1..Len(f) /\ q \in i..Len(f) /\ q - 1 \in i..Len(f)
      BY <1>1, <1>2, <2>2
    <3>2. Form("State", t, f[q], b[q], c[q - 1], c[q])
      BY <1>13, <3>1
    <3>3. DOMAIN t \subseteq DOMAIN u /\ \A n \in DOMAIN t : u[n].elem = t[n].elem
      BY ExtendsSays
    <3>4. Form("State", u, f[q], b[q], c[q - 1], c[q])
      BY ONLY <3>2, <3>3, FormStays
    <3>5. QED
      BY <1>5, <1>15, <3>1, <3>4
  <2>3. QED
    BY <2>1, <2>2
<1>21. Below(u, v, h, h, d)
  <2>1. h + 1..h = {} /\ \A q \in h..h : q = h
    BY <1>2
  <2>2. Rids(v, h, h) = {}
    BY <2>1 DEF Rids
  <2>3. QED
    BY <1>5, <1>7, <2>1, <2>2 DEF Below
<1>22. Tops(u, g, v, h, h)
  <2>1. h + 1..h = {}
    BY <1>2
  <2>2. QED
    BY <2>1 DEF Tops
<1>23. Ahead("State", u, g, v, h, h)
  <2> SUFFICES ASSUME NEW j \in h + 1..Len(f)
               PROVE  /\ g[j][1].m # "POST"
                      /\ IsPrune(v, j) => v[j][1].id \notin PresentIn(u, {})
                      /\ g[j][1].m = "DELETE" => j = i /\ g[j][1].id \in CurrentIn(u, {})
    <3>1. \A j \in h + 1..Len(f) : j = i => ~\E m \in h + 1..j - 1 : TRUE
      BY <1>1, <1>2
    <3>2. Len(g) = Len(f) /\ i = h + 1
      BY <1>2, <1>17
    <3>3. QED
      BY <3>1, <3>2 DEF Ahead
  <2>1. CASE j = i
    <3>1. ~IsPrune(v, i)
      BY <1>16 DEF IsPrune
    <3>2. k \in CurrentIn(u, {})
      BY ExtendsSays
    <3>3. QED
      BY <1>16, <2>1, <3>1, <3>2
  <2>2. CASE j # i
    <3>1. j \in i + 1..Len(f)
      BY <1>1, <1>2, <2>2
    <3>2. v[j] = b[j] /\ g[j] = f[j] /\ f[j][1].m = "PATCH"
      BY <1>13, <1>15, <3>1
    <3>3. IsPrune(v, j) => v[j][1].id \notin PresentIn(t, {}) /\ v[j][1].id \in DOMAIN t
      BY <1>13, <3>1, <3>2 DEF IsPrune
    <3>4. QED
      BY <3>2, <3>3, ExtendsSays
  <2>3. QED
    BY <2>1, <2>2
<1>24. Core("State", u, g, v, h, h, p, a, d)
  BY <1>18, <1>19, <1>20, <1>21, <1>22, <1>23 DEF Core
<1>25. QED
  BY <1>24

-----------------------------------------------------------------------------
(* The new operations, one by one.                                          *)

\* A new operation where the position is, with what was ahead forgotten.
LEMMA NewOp ==
    ASSUME NEW ty, NEW t, NEW f, NEW b, NEW i, NEW fr, NEW p, NEW a, NEW c,
           Core(ty, t, f, b, i, fr, p, a, c),
           NEW row, NEW u, NEW k \in Nat, Extends(u, t, row, k),
           NEW o \in OpType, NEW w \in Seq(OpType),
           NEW x, IsContent(x, a + 1), Describes(x, u, {}),
           Form(ty, u, <<o>>, w, c[i], x), Prunable(t, o, w, k)
    PROVE  \E d : Core(ty, u, Append(SubSeq(f, 1, i), <<o>>), Append(SubSeq(b, 1, i), w), i + 1, fr,
                       Append(SubSeq(p, 1, i + 1), ValuesOf(x)), a + 1, d)
<1> PICK g : g = SubSeq(f, 1, i)
  OBVIOUS
<1> PICK v : v = SubSeq(b, 1, i)
  OBVIOUS
<1> PICK s : s = SubSeq(p, 1, i + 1)
  OBVIOUS
<1>1. PICK e : e[i] = c[i] /\ Core(ty, t, g, v, i, fr, s, a, e)
  BY CutCore
<1>2. Len(g) = i
  <2>1. f \in Lists /\ i \in 0..Len(f)
    BY DEF Core, Shape
  <2>2. QED
    BY ONLY <2>1, g = SubSeq(f, 1, i), PartOf DEF Lists
<1>3. Form(ty, u, <<o>>, w, e[i], x)
  BY <1>1
<1>4. ValuesOf(x) \in SUBSET Int
  BY DEF IsContent, ValuesOf
<1>5. t \in Seq(RowType)
  BY DEF Core, Shape
<1>6. \E d : d[i + 1] = x /\ Core(ty, u, Append(g, <<o>>), Append(v, w), i + 1, fr,
                                  Append(s, ValuesOf(x)), a + 1, d)
  <2>1. Extends(u, t, row, k) /\ IsContent(x, a + 1) /\ Describes(x, u, {}) /\ Prunable(t, o, w, k)
    OBVIOUS
  <2>2. i = Len(g) /\ k \in Nat /\ o \in OpType /\ w \in Seq(OpType)
    BY <1>2
  <2>3. Core(ty, t, g, v, i, fr, s, a, e)
    BY <1>1
  <2>4. QED
    BY ONLY <1>3, <1>4, <1>5, <2>1, <2>2, <2>3, Pushed
<1>7. QED
  BY <1>6

\* What is there, as the operation before describes it.
LEMMA HereIs ==
    ASSUME NEW ty, NEW t, NEW f, NEW b, NEW i, NEW fr, NEW p, NEW a, NEW c,
           Core(ty, t, f, b, i, fr, p, a, c)
    PROVE  /\ Describes(c[i], t, {}) /\ IsContent(c[i], a) /\ a \in Nat
           /\ p[i + 1] = {t[n].val : n \in CurrentIn(t, {})}
           /\ ValuesOf(c[i]) = {t[n].val : n \in CurrentIn(t, {})}
<1>1. /\ i \in Nat /\ fr \in Nat /\ fr <= i /\ i <= Len(f) /\ Len(f) \in Nat /\ a \in Nat
      /\ Below(t, b, i, fr, c) /\ Contents(f, fr, p, a, c)
  BY ShapeSays DEF Core
<1>2. Describes(c[i], t, {})
  BY <1>1, HereDescribed
<1>3. i \in fr..Len(f)
  BY <1>1
<1>4. IsContent(c[i], a) /\ p[i + 1] = ValuesOf(c[i])
  BY <1>1, <1>3 DEF Contents
<1>5. QED
  BY <1>1, <1>2, <1>4, ViewIs

\* What the server shows.
Shown(t) == {t[n].val : n \in CurrentIn(t, {})}
\* A copy of a row that is there, changed.
Copies(u, t, row, k, n) ==
    Extends(u, t, row, k) /\ n \in CurrentIn(t, {}) /\ row.elem = t[n].elem

\* What a changed copy makes of the annotations.
LEMMA CopySays ==
    ASSUME NEW x, NEW t, Describes(x, t, {}), NEW u, NEW row, NEW k, NEW n, Copies(u, t, row, k, n)
    PROVE  /\ k \in Nat /\ n \in DOMAIN t /\ n \in DOMAIN u /\ u[n] = t[n]
           /\ row.elem = t[n].elem /\ row.elem \in DOMAIN x /\ x[row.elem] = t[n].val
           /\ k \in DOMAIN u /\ u[k] = row
           /\ ~row.deleted => Describes(Put(x, row.elem, row.val), u, {})
           /\ row.deleted => Describes(Drop(x, row.elem), u, {})
<1>1. Adds(u, t, row, k) /\ k \in Nat /\ ~row.pruned /\ Extends(u, t, row, k)
  BY DEF Copies, Extends, Adds
<1>2. /\ ~row.deleted => Describes(Put(x, row.elem, row.val), u, {})
      /\ row.deleted => Describes(Drop(x, row.elem), u, {})
  BY <1>1, RowDescribed
<1>3. n \in CurrentIn(t, {}) /\ n \in DOMAIN t /\ row.elem = t[n].elem
  BY DEF Copies, CurrentIn, PresentIn
<1>4. t[n].elem \in DOMAIN x /\ x[t[n].elem] = t[n].val
  BY <1>3 DEF Describes
<1>5. n \in DOMAIN u /\ u[n] = t[n] /\ k \in DOMAIN u /\ u[k] = row
  BY <1>1, <1>3 DEF Adds
<1>6. QED
  BY <1>1, <1>2, <1>3, <1>4, <1>5

\* A PATCH, taken back by a prune or by a PATCH.
LEMMA NewPatch ==
    ASSUME NEW ty, NEW t, NEW f, NEW b, NEW i, NEW fr, NEW p, NEW a, NEW c,
           Core(ty, t, f, b, i, fr, p, a, c),
           NEW row, NEW u, NEW k, NEW n, Copies(u, t, row, k, n),
           ~row.deleted, row.val = a + 1,
           NEW o \in OpType, NEW w \in Seq(OpType), o = Op("PATCH", n, a + 1),
           \/ w = <<Op("PRUNE", k, 0), Op("select_old_obj", 0, 0)>>
           \/ ty = "State" /\ w = <<Op("PATCH", n, t[n].val)>>
    PROVE  \E d : Core(ty, u, Append(SubSeq(f, 1, i), <<o>>), Append(SubSeq(b, 1, i), w), i + 1, fr,
                       Append(SubSeq(p, 1, i + 1), (Shown(t) \ {t[n].val}) \cup {a + 1}), a + 1, d)
<1> PICK y : y = c[i]
  OBVIOUS
<1> PICK e : e = row.elem
  OBVIOUS
<1> PICK x : x = Put(y, e, a + 1)
  OBVIOUS
<1>1. Describes(y, t, {}) /\ IsContent(y, a) /\ a \in Nat /\ ValuesOf(y) = Shown(t)
  <2>1. /\ Describes(c[i], t, {}) /\ IsContent(c[i], a) /\ a \in Nat
        /\ ValuesOf(c[i]) = Shown(t)
    BY ONLY Core(ty, t, f, b, i, fr, p, a, c), HereIs DEF Shown
  <2>2. QED
    BY <2>1
<1>2. /\ k \in Nat /\ n \in DOMAIN u /\ u[n] = t[n] /\ u[k] = row /\ k \in DOMAIN u
      /\ e = t[n].elem /\ e \in DOMAIN y /\ y[e] = t[n].val /\ Describes(x, u, {})
  BY <1>1, CopySays
<1>3. IsContent(x, a + 1) /\ ValuesOf(x) = (Shown(t) \ {t[n].val}) \cup {a + 1}
  BY ONLY <1>1, <1>2, x = Put(y, e, a + 1), PutContent
<1>4. o.m = "PATCH" /\ o.id = n /\ o.val = a + 1
  BY DEF Op
<1>5. Step(u, o, y, x)
  BY <1>2, <1>4 DEF Step
<1>6. /\ Form(ty, u, <<o>>, w, y, x)
      /\ Prunable(t, o, w, k)
  <2>1. CASE w = <<Op("PRUNE", k, 0), Op("select_old_obj", 0, 0)>>
    <3>1. w[1].m = "PRUNE" /\ w[1].id = k /\ w # <<>>
      BY <2>1 DEF Op
    <3>2. w = <<Op("PRUNE", w[1].id, 0), Op("select_old_obj", 0, 0)>>
      BY <2>1, <3>1
    <3>3. ByPrune(ty, u, o, w)
      BY <1>2, <1>4, <3>1, <3>2 DEF ByPrune
    <3>4. QED
      BY <1>4, <1>5, <3>1, <3>3 DEF Form, Prunable
  <2>2. CASE ty = "State" /\ w = <<Op("PATCH", n, t[n].val)>>
    <3>1. w[1].m = "PATCH" /\ w # <<>>
      BY <2>2 DEF Op
    <3>2. ByPatch(ty, u, o, w, y)
      BY <1>2, <1>4, <2>2 DEF ByPatch
    <3>3. QED
      BY <1>4, <1>5, <3>1, <3>2 DEF Form, Prunable
  <2>3. QED
    BY <2>1, <2>2
<1>7. Extends(u, t, row, k)
  BY DEF Copies
<1>8. \E d : Core(ty, u, Append(SubSeq(f, 1, i), <<o>>), Append(SubSeq(b, 1, i), w), i + 1, fr,
                  Append(SubSeq(p, 1, i + 1), ValuesOf(x)), a + 1, d)
  BY <1>2, <1>3, <1>6, <1>7, NewOp
<1>9. QED
  BY <1>3, <1>8

\* A deletion, taken back by a prune or by a POST.
LEMMA NewDelete ==
    ASSUME NEW ty, NEW t, NEW f, NEW b, NEW i, NEW fr, NEW p, NEW a, NEW c,
           Core(ty, t, f, b, i, fr, p, a, c),
           NEW row, NEW u, NEW k, NEW n, Copies(u, t, row, k, n), row.deleted,
           NEW o \in OpType, NEW w \in Seq(OpType), o.m = "DELETE", o.id = n,
           \/ /\ ty = "Localization" /\ o.val = t[n].val
              /\ w = <<Op("PRUNE", k, 0), Op("delete_functor", n, o.val)>>
           \/ ty = "State" /\ w = <<Op("POST", 0, t[n].val)>>
    PROVE  \E d : Core(ty, u, Append(SubSeq(f, 1, i), <<o>>), Append(SubSeq(b, 1, i), w), i + 1, fr,
                       Append(SubSeq(p, 1, i + 1), Shown(t) \ {t[n].val}), a + 1, d)
<1> PICK y : y = c[i]
  OBVIOUS
<1> PICK e : e = row.elem
  OBVIOUS
<1> PICK x : x = Drop(y, e)
  OBVIOUS
<1>1. Describes(y, t, {}) /\ IsContent(y, a) /\ a \in Nat /\ ValuesOf(y) = Shown(t)
  <2>1. /\ Describes(c[i], t, {}) /\ IsContent(c[i], a) /\ a \in Nat
        /\ ValuesOf(c[i]) = Shown(t)
    BY ONLY Core(ty, t, f, b, i, fr, p, a, c), HereIs DEF Shown
  <2>2. QED
    BY <2>1
<1>2. /\ k \in Nat /\ n \in DOMAIN u /\ u[n] = t[n] /\ u[k] = row /\ k \in DOMAIN u
      /\ e = t[n].elem /\ e \in DOMAIN y /\ y[e] = t[n].val /\ Describes(x, u, {})
  BY <1>1, CopySays
<1>3. IsContent(x, a) /\ ValuesOf(x) = Shown(t) \ {t[n].val}
  BY <1>1, <1>2, DropContent
<1>4. IsContent(x, a + 1)
  <2>1. \A m \in DOMAIN x : x[m] \in Int /\ x[m] <= a
    BY <1>3 DEF IsContent
  <2>2. \A m \in DOMAIN x : x[m] <= a + 1
    BY <1>1, <2>1
  <2>3. QED
    BY <1>3, <2>2 DEF IsContent
<1>5. Step(u, o, y, x)
  BY <1>2 DEF Step
<1>6. /\ Form(ty, u, <<o>>, w, y, x)
      /\ Prunable(t, o, w, k)
  <2>1. CASE /\ ty = "Localization" /\ o.val = t[n].val
             /\ w = <<Op("PRUNE", k, 0), Op("delete_functor", n, o.val)>>
    <3>1. w[1].m = "PRUNE" /\ w[1].id = k /\ w # <<>>
      BY <2>1 DEF Op
    <3>2. w = <<Op("PRUNE", w[1].id, 0), Op("delete_functor", o.id, o.val)>>
      BY <2>1, <3>1
    <3>3. ByPrune(ty, u, o, w)
      BY <1>2, <2>1, <3>1, <3>2 DEF ByPrune
    <3>4. Prunable(t, o, w, k)
      BY <2>1, <3>1 DEF Prunable, Copies
    <3>5. QED
      BY <1>5, <3>1, <3>3, <3>4 DEF Form
  <2>2. CASE ty = "State" /\ w = <<Op("POST", 0, t[n].val)>>
    <3>1. w[1].m = "POST" /\ w # <<>>
      BY <2>2 DEF Op
    <3>2. ByPost(ty, u, o, w, y)
      BY <1>2, <2>2 DEF ByPost
    <3>3. QED
      BY <1>5, <3>1, <3>2 DEF Form, Prunable
  <2>3. QED
    BY <2>1, <2>2
<1>7. Extends(u, t, row, k)
  BY DEF Copies
<1>8. \E d : Core(ty, u, Append(SubSeq(f, 1, i), <<o>>), Append(SubSeq(b, 1, i), w), i + 1, fr,
                  Append(SubSeq(p, 1, i + 1), ValuesOf(x)), a + 1, d)
  BY <1>2, <1>4, <1>6, <1>7, NewOp
<1>9. QED
  BY <1>3, <1>8

\* A creation, which is never undone by a user who is sure.
LEMMA NewPost ==
    ASSUME NEW ty, NEW t, NEW f, NEW b, NEW i, NEW fr, NEW p, NEW a, NEW c,
           Core(ty, t, f, b, i, fr, p, a, c),
           NEW row, NEW u, NEW k \in Nat, Extends(u, t, row, k), ~row.deleted,
           row.elem = k, row.val = a + 1,
           NEW o \in OpType, NEW w \in Seq(OpType), o.m = "POST", w # <<>>, w[1].m = "STRAY"
    PROVE  \E d : Core(ty, u, Append(SubSeq(f, 1, i), <<o>>), Append(SubSeq(b, 1, i), w), i + 1, fr,
                       Append(SubSeq(p, 1, i + 1), Shown(t) \cup {a + 1}), a + 1, d)
<1> PICK y : y = c[i]
  OBVIOUS
<1> PICK x : x = Put(y, k, a + 1)
  OBVIOUS
<1>1. Describes(y, t, {}) /\ IsContent(y, a) /\ a \in Nat /\ ValuesOf(y) = Shown(t)
  BY ONLY Core(ty, t, f, b, i, fr, p, a, c), y = c[i], HereIs DEF Shown
<1>2. k \notin DOMAIN y
  <2>1. k = Len(t) + 1 /\ Len(t) \in Nat /\ \A n \in DOMAIN t : t[n].elem \in 1..Len(t)
    BY ShapeSays DEF Extends, Core
  <2>2. ~(k \in 1..Len(t))
    BY ONLY <2>1
  <2>3. \A n \in CurrentIn(t, {}) : n \in DOMAIN t
    BY DEF CurrentIn, PresentIn
  <2>4. QED
    BY <1>1, <2>1, <2>2, <2>3 DEF Describes
<1>3. IsContent(x, a + 1) /\ ValuesOf(x) = Shown(t) \cup {a + 1}
  BY ONLY <1>1, <1>2, x = Put(y, k, a + 1), PutContent
<1>4. Describes(x, u, {})
  <2>1. Adds(u, t, row, k) /\ ~row.pruned
    BY DEF Extends
  <2>2. QED
    BY <1>1, <2>1, RowDescribed
<1>5. Form(ty, u, <<o>>, w, y, x) /\ Prunable(t, o, w, k)
  BY DEF Form, Prunable
<1>6. \E d : Core(ty, u, Append(SubSeq(f, 1, i), <<o>>), Append(SubSeq(b, 1, i), w), i + 1, fr,
                  Append(SubSeq(p, 1, i + 1), ValuesOf(x)), a + 1, d)
  BY <1>3, <1>4, <1>5, NewOp
<1>7. QED
  BY <1>3, <1>6

-----------------------------------------------------------------------------
(* What the server makes of a request.                                      *)

\* What the server makes of a request.
Rooted(t) == t \in Seq(RowType) /\ \A n \in DOMAIN t : t[n].elem \in 1..Len(t)
\* The table with a row at its end.
IsServed(u, row, k) == u = Append(rows, row) /\ k = Len(rows) + 1 /\ row \in RowType

\* That row extends the table.
LEMMA ServedExtends ==
    ASSUME Rooted(rows), NEW u, NEW row, NEW k, IsServed(u, row, k), ~row.pruned, row.elem \in 1..k
    PROVE  Extends(u, rows, row, k) /\ k \in Nat /\ k # 0
<1>1. rows \in Seq(RowType) /\ u = Append(rows, row) /\ k = Len(rows) + 1 /\ row \in RowType
  BY DEF Rooted, IsServed
<1>2. Adds(u, rows, row, k) /\ u \in Seq(RowType) /\ Len(u) = k
  BY ONLY <1>1, RowAppended
<1>3. k \in Nat /\ k # 0
  BY ONLY <1>1
<1>4. QED
  BY <1>1, <1>2, <1>3 DEF Extends

\* A row is of an annotation that has a first row.
LEMMA ElemKnown ==
    ASSUME Rooted(rows), NEW n \in DOMAIN rows, NEW k, k = Len(rows) + 1
    PROVE  rows[n] \in RowType /\ rows[n].elem \in 1..k
<1>1. rows[n] \in RowType /\ rows[n].elem \in 1..Len(rows) /\ Len(rows) \in Nat
  BY DEF Rooted
<1>2. QED
  BY <1>1

\* The latest of the revisions of an annotation that is there.
LEMMA LatestCurrent ==
    ASSUME Rooted(rows), NEW n \in PresentIn(rows, {}), NEW m \in CurrentIn(rows, {}),
           rows[m].elem = rows[n].elem
    PROVE  /\ n \in Present /\ Latest(n) = m /\ ~rows[Latest(n)].deleted
           /\ rows[Latest(n)].elem = rows[n].elem /\ Latest(n) \in DOMAIN rows
<1>0. rows \in Seq(RowType)
  BY DEF Rooted
<1>1. n \in Present /\ m \in Current /\ m \in Present
  BY <1>0, CurrentIs DEF CurrentIn
<1>2. /\ Latest(n) \in Present /\ rows[Latest(n)].elem = rows[n].elem
      /\ m <= Latest(n)
  BY <1>0, <1>1, LatestTyped
<1>3. Latest(n) <= m
  <2>1. IsTop(rows, {}, m) /\ Latest(n) \in PresentIn(rows, {})
    BY <1>0, <1>2, CurrentIs DEF CurrentIn
  <2>2. QED
    BY <1>2, <2>1 DEF IsTop
<1>4. m \in Nat /\ Latest(n) \in Nat
  BY <1>0, <1>1, <1>2 DEF Present
<1>5. Latest(n) = m
  BY ONLY <1>2, <1>3, <1>4
<1>6. QED
  BY <1>1, <1>2, <1>5 DEF Current, Present

\* A PATCH copies the latest revision of the annotation.
LEMMA PatchServed ==
    ASSUME Rooted(rows), NEW op \in OpType, op.m = "PATCH", op.id \in PresentIn(rows, {}),
           NEW m \in CurrentIn(rows, {}), rows[m].elem = rows[op.id].elem
    PROVE  \E row, k : /\ Extends(TableAfter(op), rows, row, k) /\ k = Answered(op) /\ k \in Nat /\ k # 0
                       /\ row.elem = rows[op.id].elem /\ row.val = op.val /\ ~row.deleted
<1> PICK k : k = Len(rows) + 1
  OBVIOUS
<1> PICK n : n = Latest(op.id)
  OBVIOUS
<1> PICK row : row = [rows[n] EXCEPT !.val = op.val, !.mine = TRUE]
  OBVIOUS
<1>1. /\ op.id \in Present /\ ~rows[n].deleted /\ rows[n].elem = rows[op.id].elem
      /\ n \in DOMAIN rows /\ n \in Present
  BY LatestCurrent, CurrentIs DEF CurrentIn, Rooted
<1>2. rows[n] \in RowType /\ rows[n].elem \in 1..k
  BY <1>1, ElemKnown
<1>3. ~rows[n].pruned
  BY <1>1 DEF Present
<1>4. /\ row \in RowType /\ ~row.pruned /\ row.elem = rows[op.id].elem /\ row.val = op.val
      /\ ~row.deleted /\ row.elem \in 1..k
  BY <1>1, <1>2, <1>3 DEF RowType, OpType
<1>5. Answered(op) = k
  BY <1>1 DEF Answered
<1>6. k \in Nat /\ k # 0
  BY DEF Rooted
<1>7. TableAfter(op) = Append(rows, row)
  BY <1>5, <1>6 DEF TableAfter
<1>8. Extends(TableAfter(op), rows, row, k)
  <2>1. IsServed(TableAfter(op), row, k)
    BY <1>4, <1>7 DEF IsServed
  <2>2. QED
    BY <1>4, <2>1, ServedExtends
<1>9. QED
  BY <1>4, <1>5, <1>6, <1>8

\* A DELETE copies the revision it addresses.
LEMMA DeleteServed ==
    ASSUME Rooted(rows), NEW op \in OpType, op.m = "DELETE", op.id \in PresentIn(rows, {})
    PROVE  \E row, k : /\ Extends(TableAfter(op), rows, row, k) /\ k = Answered(op) /\ k \in Nat /\ k # 0
                       /\ row.elem = rows[op.id].elem /\ row.deleted
<1> PICK k : k = Len(rows) + 1
  OBVIOUS
<1> PICK n : n = op.id
  OBVIOUS
<1> PICK row : row = [rows[n] EXCEPT !.deleted = TRUE, !.mine = TRUE]
  OBVIOUS
<1>1. n \in Present /\ n \in DOMAIN rows /\ ~rows[n].pruned
  BY CurrentIs DEF PresentIn, Present, Rooted
<1>2. rows[n] \in RowType /\ rows[n].elem \in 1..k
  BY <1>1, ElemKnown
<1>4. /\ row \in RowType /\ ~row.pruned /\ row.elem = rows[op.id].elem
      /\ row.deleted /\ row.elem \in 1..k
  BY <1>1, <1>2 DEF RowType
<1>5. Answered(op) = k
  BY <1>1 DEF Answered
<1>6. k \in Nat /\ k # 0
  BY DEF Rooted
<1>7. TableAfter(op) = Append(rows, row)
  BY <1>5, <1>6 DEF TableAfter
<1>8. Extends(TableAfter(op), rows, row, k)
  <2>1. IsServed(TableAfter(op), row, k)
    BY <1>4, <1>7 DEF IsServed
  <2>2. QED
    BY <1>4, <2>1, ServedExtends
<1>9. QED
  BY <1>4, <1>5, <1>6, <1>8

\* A POST makes an annotation of its own.
LEMMA PostServed ==
    ASSUME Rooted(rows), NEW op \in OpType, op.m = "POST", op.id = 0
    PROVE  \E row, k : /\ Extends(TableAfter(op), rows, row, k) /\ k = Answered(op) /\ k \in Nat /\ k # 0
                       /\ row.elem = k /\ row.val = op.val /\ ~row.deleted
<1> PICK k : k = Len(rows) + 1
  OBVIOUS
<1> PICK row : row = [elem |-> k, val |-> op.val, deleted |-> FALSE, pruned |-> FALSE, mine |-> TRUE]
  OBVIOUS
<1>6. k \in Nat /\ k # 0 /\ k \in 1..k
  BY DEF Rooted
<1>4. /\ row \in RowType /\ ~row.pruned /\ row.elem = k
      /\ ~row.deleted /\ row.elem \in 1..k /\ row.val = op.val
  BY <1>6 DEF RowType, OpType
<1>5. Answered(op) = k
  BY DEF Answered
<1>7. TableAfter(op) = Append(rows, row)
  BY <1>5, <1>6 DEF TableAfter
<1>8. Extends(TableAfter(op), rows, row, k)
  <2>1. IsServed(TableAfter(op), row, k)
    BY <1>4, <1>7 DEF IsServed
  <2>2. QED
    BY <1>4, <2>1, ServedExtends
<1>9. QED
  BY <1>4, <1>5, <1>6, <1>8

\* A PRUNE hides the revision it addresses.
LEMMA PruneServed ==
    ASSUME Rooted(rows), NEW op \in OpType, op.m = "PRUNE", op.id \in PresentIn(rows, {})
    PROVE  /\ PrunesRow(TableAfter(op), rows, op.id) /\ Answered(op) = op.id
           /\ op.id \in Nat /\ op.id # 0
<1>1. op.id \in Present /\ op.id \in DOMAIN rows /\ rows \in Seq(RowType)
  BY DEF PresentIn, Present, Rooted
<1>2. op.id \in Nat /\ op.id # 0
  BY <1>1
<1>3. Answered(op) = op.id
  BY <1>1 DEF Answered
<1>4. TableAfter(op) = [rows EXCEPT ![op.id].pruned = TRUE]
  BY <1>2, <1>3 DEF TableAfter
<1>5. QED
  BY <1>1, <1>2, <1>3, <1>4 DEF PrunesRow

\* The list of the page shows what is there.
MergedOf(t) == {[id |-> n, val |-> t[n].val] : n \in CurrentIn(t, {})}
\* The list has what is there, without duplicates.
ShowsAll(list, t) == list \in Seq(Entry) /\ Distinct(list) /\ ToSet(list) = MergedOf(t)

\* What is shown is an entry.
LEMMA ShownEntry ==
    ASSUME NEW t \in Seq(RowType), NEW n \in DOMAIN t
    PROVE  [id |-> n, val |-> t[n].val] \in Entry
<1>1. n \in Nat /\ t[n] \in RowType
  OBVIOUS
<1>2. QED
  BY <1>1 DEF Entry, RowType

\* A new revision leaves what is shown of the other annotations.
LEMMA OthersStay ==
    ASSUME NEW t, NEW u, NEW row, NEW k, Extends(u, t, row, k)
    PROVE  MergedOf(u) = {[id |-> n, val |-> t[n].val] : n \in {m \in CurrentIn(t, {}) : t[m].elem # row.elem}}
                         \cup (IF row.deleted THEN {} ELSE {[id |-> k, val |-> row.val]})
<1>1. /\ k \notin DOMAIN t /\ u[k] = row /\ \A n \in DOMAIN t : u[n] = t[n]
      /\ CurrentIn(u, {}) = {n \in CurrentIn(t, {}) : t[n].elem # row.elem}
                                    \cup (IF row.deleted THEN {} ELSE {k})
  BY ExtendsSays
<1>2. \A n \in CurrentIn(t, {}) : n \in DOMAIN t /\ n # k
  BY <1>1 DEF CurrentIn, PresentIn
<1>3. QED
  BY <1>1, <1>2 DEF MergedOf

\* Two that are current are of different annotations.
LEMMA OneCurrent ==
    ASSUME NEW t \in Seq(RowType), NEW n \in CurrentIn(t, {}), NEW m \in CurrentIn(t, {}),
           t[n].elem = t[m].elem
    PROVE  n = m
<1>1. n <= m /\ m <= n
  BY DEF CurrentIn, IsTop
<1>2. n \in Nat /\ m \in Nat
  BY DEF CurrentIn, PresentIn
<1>3. QED
  BY ONLY <1>1, <1>2

\* A changed copy takes the place of what it is copied from.
LEMMA CopyShown ==
    ASSUME NEW t \in Seq(RowType), NEW u, NEW row, NEW k, NEW n, Copies(u, t, row, k, n)
    PROVE  MergedOf(u) = {x \in MergedOf(t) : x.id # n}
                         \cup (IF row.deleted THEN {} ELSE {[id |-> k, val |-> row.val]})
<1>1. n \in CurrentIn(t, {}) /\ row.elem = t[n].elem /\ Extends(u, t, row, k)
  BY DEF Copies
<1>2. \A m \in CurrentIn(t, {}) : t[m].elem # row.elem <=> m # n
  BY <1>1, OneCurrent
<1>3. {[id |-> m, val |-> t[m].val] : m \in {j \in CurrentIn(t, {}) : t[j].elem # row.elem}}
         = {x \in MergedOf(t) : x.id # n}
  BY <1>2 DEF MergedOf
<1>4. QED
  BY <1>1, <1>3, OthersStay

\* The list after the answer of a PATCH.
LEMMA DuePatch ==
    ASSUME NEW t \in Seq(RowType), NEW u, NEW row, NEW k, NEW n, Copies(u, t, row, k, n), ~row.deleted,
           NEW list, ShowsAll(list, t)
    PROVE  ShowsAll(WithPatch(list, n, [id |-> k, val |-> row.val]), u)
<1> PICK entry : entry = [id |-> k, val |-> row.val]
  OBVIOUS
<1>1. /\ n \in CurrentIn(t, {}) /\ k \notin DOMAIN t /\ u \in Seq(RowType) /\ k \in DOMAIN u
      /\ u[k] = row
  BY ExtendsSays DEF Copies, Extends, Adds
<1>2. entry \in Entry /\ entry.id = k
  BY <1>1, ShownEntry
<1>3. list \in Seq(Entry) /\ Distinct(list) /\ ToSet(list) = MergedOf(t)
  BY DEF ShowsAll
<1>4. \A x \in MergedOf(t) : x.id \in DOMAIN t
  BY DEF MergedOf, CurrentIn, PresentIn
<1>5. \E x \in MergedOf(t) : x.id = n
  <2> PICK x : x = [id |-> n, val |-> t[n].val]
    OBVIOUS
  <2>1. x.id = n /\ x \in MergedOf(t)
    BY <1>1 DEF MergedOf
  <2>2. QED
    BY <2>1
<1>6. \A x \in ToSet(list) : x.id # entry.id
  BY <1>1, <1>2, <1>3, <1>4
<1>7. \E x \in ToSet(list) : x.id = n
  BY <1>3, <1>5
<1> PICK new : new = WithPatch(list, n, entry)
  OBVIOUS
<1>8. new \in Seq(Entry) /\ Distinct(new) /\ ToSet(new) = {x \in ToSet(list) : x.id # n} \cup {entry}
  BY <1>2, <1>3, <1>6, <1>7, PatchedIs
<1>9. MergedOf(u) = {x \in MergedOf(t) : x.id # n} \cup {entry}
  BY CopyShown
<1>10. QED
  BY <1>3, <1>8, <1>9 DEF ShowsAll

\* The list after a deletion.
LEMMA DueDelete ==
    ASSUME NEW t \in Seq(RowType), NEW u, NEW row, NEW k, NEW n, Copies(u, t, row, k, n), row.deleted,
           NEW list, ShowsAll(list, t)
    PROVE  ShowsAll(WithoutEntry(list, n), u)
<1>1. list \in Seq(Entry) /\ Distinct(list) /\ ToSet(list) = MergedOf(t)
  BY DEF ShowsAll
<1> PICK new : new = WithoutEntry(list, n)
  OBVIOUS
<1>2. new \in Seq(Entry) /\ Distinct(new) /\ ToSet(new) = {x \in ToSet(list) : x.id # n}
  BY <1>1, WithoutIs
<1>3. MergedOf(u) = {x \in MergedOf(t) : x.id # n}
  BY CopyShown
<1>4. QED
  BY <1>1, <1>2, <1>3 DEF ShowsAll

\* What is not shown need not go.
LEMMA DueAgain ==
    ASSUME NEW u, NEW list, ShowsAll(list, u), NEW n, n \notin CurrentIn(u, {})
    PROVE  ShowsAll(WithoutEntry(list, n), u)
<1>1. list \in Seq(Entry) /\ Distinct(list) /\ ToSet(list) = MergedOf(u)
  BY DEF ShowsAll
<1> PICK new : new = WithoutEntry(list, n)
  OBVIOUS
<1>2. new \in Seq(Entry) /\ Distinct(new) /\ ToSet(new) = {x \in ToSet(list) : x.id # n}
  BY <1>1, WithoutIs
<1>3. \A x \in MergedOf(u) : x.id # n
  BY DEF MergedOf
<1>4. QED
  BY <1>1, <1>2, <1>3 DEF ShowsAll

\* The list after the answer of a creation.
LEMMA DuePost ==
    ASSUME NEW t, Rooted(t), NEW u, NEW row, NEW k, Extends(u, t, row, k), ~row.deleted, row.elem = k,
           NEW list, ShowsAll(list, t)
    PROVE  ShowsAll(WithEntry(list, [id |-> k, val |-> row.val]), u)
<1> PICK entry : entry = [id |-> k, val |-> row.val]
  OBVIOUS
<1>1. /\ k \notin DOMAIN t /\ u \in Seq(RowType) /\ k \in DOMAIN u /\ u[k] = row
  BY ExtendsSays DEF Extends, Adds
<1>2. entry \in Entry /\ entry.id = k
  BY <1>1, ShownEntry
<1>3. list \in Seq(Entry) /\ Distinct(list) /\ ToSet(list) = MergedOf(t)
  BY DEF ShowsAll
<1>4. \A n \in CurrentIn(t, {}) : n \in DOMAIN t /\ t[n].elem # k
  <2>1. k = Len(t) + 1 /\ Len(t) \in Nat
    BY DEF Extends, Rooted
  <2>2. ~(k \in 1..Len(t))
    BY ONLY <2>1
  <2>3. QED
    BY <2>2 DEF CurrentIn, PresentIn, Rooted
<1>5. \A x \in MergedOf(t) : x.id # entry.id
  BY <1>1, <1>2, <1>4 DEF MergedOf
<1>6. MergedOf(u) = MergedOf(t) \cup {entry}
  <2>1. {m \in CurrentIn(t, {}) : t[m].elem # row.elem} = CurrentIn(t, {})
    BY <1>4
  <2>2. QED
    BY <2>1, OthersStay DEF MergedOf
<1>7. \A x \in ToSet(list) : x.id # entry.id
  BY <1>3, <1>5
<1> PICK new : new = WithEntry(list, entry)
  OBVIOUS
<1>8. new \in Seq(Entry) /\ Distinct(new) /\ ToSet(new) = ToSet(list) \cup {entry}
  BY <1>2, <1>3, <1>7, AddedIs
<1>9. QED
  BY <1>3, <1>6, <1>8 DEF ShowsAll

\* The deletion pruned, its annotation is shown again.
LEMMA DueRestored ==
    ASSUME NEW t \in Seq(RowType), NEW u, NEW r, PrunesRow(u, t, r), IsTop(t, {}, r),
           NEW n \in CurrentIn(u, {}), t[n].elem = t[r].elem,
           NEW list, ShowsAll(list, t)
    PROVE  ShowsAll(WithEntry(WithoutEntry(list, r), [id |-> n, val |-> u[n].val]), u)
<1> PICK entry : entry = [id |-> n, val |-> u[n].val]
  OBVIOUS
<1>1. /\ r \in DOMAIN t /\ u \in Seq(RowType) /\ DOMAIN u = DOMAIN t /\ u[r].pruned
      /\ \A m \in DOMAIN t : m # r => u[m] = t[m]
      /\ \A m \in DOMAIN t : u[m].elem = t[m].elem
  <2>1. r \in DOMAIN t
    BY DEF PrunesRow
  <2>2. /\ u \in Seq(RowType) /\ DOMAIN u = DOMAIN t /\ u[r].pruned
        /\ \A m \in DOMAIN t : m # r => u[m] = t[m]
        /\ \A m \in DOMAIN t : u[m].elem = t[m].elem
    BY ONLY PrunesRow(u, t, r), PruneTyped
  <2>3. QED
    BY <2>1, <2>2
<1>2. n \in DOMAIN t /\ n # r /\ n \in PresentIn(t, {}) /\ n \in DOMAIN u
  BY <1>1 DEF CurrentIn, PresentIn
<1>3. entry \in Entry /\ entry.id = n
  BY <1>1, <1>2, ShownEntry
<1>4. list \in Seq(Entry) /\ Distinct(list) /\ ToSet(list) = MergedOf(t)
  BY DEF ShowsAll
<1>5. PresentIn(u, {}) = PresentIn(t, {}) \ {r}
  BY <1>1 DEF PresentIn
<1>6. ASSUME NEW m, m # n
      PROVE  m \in CurrentIn(u, {}) <=> m \in CurrentIn(t, {}) /\ m # r
  <2>1. ASSUME m \in CurrentIn(u, {}) PROVE m \in CurrentIn(t, {}) /\ m # r
    <3>1. m \in PresentIn(t, {}) /\ m # r /\ m \in DOMAIN t /\ u[m] = t[m]
      BY <1>1, <1>5, <2>1 DEF CurrentIn, PresentIn
    <3>2. t[m].elem # t[r].elem
      <4>1. u[n].elem = t[r].elem /\ u[m].elem = t[m].elem
        BY <1>1, <1>2, <3>1
      <4>2. u[m].elem # u[n].elem
        BY <1>1, <1>6, <2>1, OneCurrent
      <4>3. QED
        BY <4>1, <4>2
    <3>3. IsTop(t, {}, m)
      <4>1. \A j \in PresentIn(t, {}) : t[j].elem = t[m].elem => j \in PresentIn(u, {}) /\ u[j].elem = u[m].elem
        BY <1>1, <1>5, <3>1, <3>2 DEF PresentIn
      <4>2. QED
        BY <2>1, <3>1, <4>1 DEF CurrentIn, IsTop
    <3>4. QED
      BY <2>1, <3>1, <3>3 DEF CurrentIn
  <2>2. ASSUME m \in CurrentIn(t, {}), m # r PROVE m \in CurrentIn(u, {})
    <3>1. m \in PresentIn(u, {}) /\ m \in DOMAIN t /\ u[m] = t[m]
      BY <1>1, <1>5, <2>2 DEF CurrentIn, PresentIn
    <3>2. IsTop(u, {}, m)
      BY <1>1, <1>5, <2>2, <3>1 DEF CurrentIn, IsTop, PresentIn
    <3>3. QED
      BY <2>2, <3>1, <3>2 DEF CurrentIn
  <2>3. QED
    BY <2>1, <2>2
<1>7. n \notin CurrentIn(t, {})
  <2> SUFFICES ASSUME n \in CurrentIn(t, {}) PROVE FALSE
    OBVIOUS
  <2>1. n <= r /\ r <= n
    BY <1>2 DEF CurrentIn, IsTop
  <2>2. n \in Nat /\ r \in Nat
    BY <1>1, <1>2
  <2>3. QED
    BY ONLY <1>2, <2>1, <2>2
<1>8. MergedOf(u) = {x \in MergedOf(t) : x.id # r} \cup {entry}
  <2>1. \A m \in CurrentIn(u, {}) : m # n => m \in CurrentIn(t, {}) /\ m # r /\ u[m] = t[m]
    BY <1>1, <1>6 DEF CurrentIn, PresentIn
  <2>2. \A m \in CurrentIn(t, {}) : m # r => m \in CurrentIn(u, {}) /\ u[m] = t[m]
    BY <1>1, <1>6, <1>7 DEF CurrentIn, PresentIn
  <2>3. MergedOf(u) \subseteq {x \in MergedOf(t) : x.id # r} \cup {entry}
    BY <2>1 DEF MergedOf
  <2>4. {x \in MergedOf(t) : x.id # r} \cup {entry} \subseteq MergedOf(u)
    BY <2>2 DEF MergedOf
  <2>5. QED
    BY <2>3, <2>4
<1> PICK less : less = WithoutEntry(list, r)
  OBVIOUS
<1>9. less \in Seq(Entry) /\ Distinct(less) /\ ToSet(less) = {x \in ToSet(list) : x.id # r}
  BY <1>4, WithoutIs
<1>10. \A x \in MergedOf(t) : x.id # n
  BY <1>7 DEF MergedOf
<1>11. \A x \in ToSet(less) : x.id # entry.id
  BY <1>3, <1>4, <1>9, <1>10
<1> PICK new : new = WithEntry(less, entry)
  OBVIOUS
<1>12. new \in Seq(Entry) /\ Distinct(new) /\ ToSet(new) = ToSet(less) \cup {entry}
  BY <1>3, <1>9, <1>11, AddedIs
<1>13. QED
  BY <1>4, <1>8, <1>9, <1>12 DEF ShowsAll

-----------------------------------------------------------------------------
(* How far the page is: what is read, sent, run or asked for.               *)

\* The list is right, or known to miss an update.
Sees(list, t) == silent \/ ShowsAll(list, t)
\* A functor waits for the writes of its undo.
Functor(q) == q.op.m \in {"select_old_obj", "delete_functor"}

\* What a write leads to, served or not.
Outcome(r, t, res) ==
    /\ res # 0
    /\ IF r.served THEN t = rows /\ res = r.res ELSE t = TableAfter(r.op) /\ res = Answered(r.op)
\* What the write makes of the lists and of the table t when it is answered.
WritesPatch(r, t, res, f, b) ==
    /\ r.k \in {"patch", "plain"} /\ r.op.m = "PATCH" /\ asked = {r} /\ f = fw
    /\ b = IF r.k = "plain" THEN bw
           ELSE Filed(<<Op("PRUNE", res, 0), Op("select_old_obj", 0, 0)>>)
    /\ Sees(WithPatch(shown, r.op.id, [id |-> res, val |-> r.op.val]), t)
WritesQuiet(r, t, f, b) ==
    /\ r.k = "del" \/ (r.k \in {"undo", "redo"} /\ r.op.m # "POST")
    /\ asked = {r} /\ f = fw /\ b = bw /\ Sees(shown, t)
WritesRemove(r, t, res, f, b) ==
    /\ r.k = "remove" /\ asked = {r} /\ f = fw
    /\ b = Append(bw, <<Op("PRUNE", res, 0), Op("delete_functor", r.op.id, r.op.val)>>)
    /\ Sees(shown, t) /\ r.op.id \notin CurrentIn(t, {})
WritesPost(r, t, res, f, b) ==
    /\ r.k = "post" /\ r.op.m = "POST" /\ asked = {r} /\ f = fw
    /\ Filled(Len(fw)) /\ b = [bw EXCEPT ![Len(fw)] = Append(bw[Len(fw)], Op("DELETE", res, 0))]
    /\ dtype = "State" \/ Sees(WithEntry(shown, [id |-> res, val |-> r.op.val]), t)
WritesAgain(r, res, f, b) ==
    /\ r.k = "undo" /\ r.op.m = "POST" /\ asked = {r} /\ dtype = "State"
    /\ index < Len(fw) /\ r.place \in DOMAIN fw[index + 1]
    /\ f = Readdressed(fw, fw[index + 1][r.place].id, res)
    /\ b = Readdressed(bw, fw[index + 1][r.place].id, res)
Shows(g, t) ==
    /\ Functor(g) /\ ~g.served
    /\ g.op.m = "delete_functor" =>
           Sees(WithEntry(shown, [id |-> g.op.id, val |-> g.op.val]), t)
WritesPrune(r, g, t, f, b) ==
    /\ r.k = "undo" /\ r.op.m = "PRUNE" /\ asked = {r, g} /\ g.act = r.act /\ g.k = "undo"
    /\ f = fw /\ b = bw /\ Shows(g, t)
Writes(r, t, res, f, b) ==
    \/ WritesPatch(r, t, res, f, b) \/ WritesQuiet(r, t, f, b) \/ WritesRemove(r, t, res, f, b)
    \/ WritesPost(r, t, res, f, b) \/ WritesAgain(r, res, f, b) \/ \E g : WritesPrune(r, g, t, f, b)

\* Nothing is due, and the buffer and the table are what they will be.
Here(t, f, b, a) == t = rows /\ f = fw /\ b = bw /\ a = acts
Rest(t, f, b, a) == Here(t, f, b, a) /\ asked = {} /\ Sees(shown, t)
\* A row is read: the act counts when the row is there.
Reading(r, t, f, b, a) ==
    /\ t = rows /\ f = fw /\ b = bw /\ a = acts - 1
    /\ asked = {r} /\ r.k \in Kinds \cap {"patch", "plain", "del"} /\ r.op.m = "GET" /\ ~r.served
    /\ r.op.id \in CurrentIn(rows, {}) /\ r.op.val = acts /\ ~silent /\ ShowsAll(shown, rows)
\* A write is under way; a functor is to run; the list is asked for.
Writing(r, res, t, f, b, a) ==
    a = acts /\ IsWrite(r) /\ r \in asked /\ Outcome(r, t, res) /\ Writes(r, t, res, f, b)
Running(g, t, f, b, a) == Here(t, f, b, a) /\ asked = {g} /\ Shows(g, t) /\ g.k = "undo"
Fetching(r, t, f, b, a) ==
    /\ Here(t, f, b, a) /\ asked = {r} /\ r.k = "refetch" /\ r.op.m = "GET"
    /\ r.served => r.res = MergedOf(rows)
\* How far the page is from the lists f, b and the table t that are due.
Stage(t, f, b, a) ==
    \/ Rest(t, f, b, a) \/ \E r : Reading(r, t, f, b, a) \/ Running(r, t, f, b, a) \/ Fetching(r, t, f, b, a)
    \/ \E r, res : Writing(r, res, t, f, b, a)
\* Once what is under way has been answered, everything holds.
ExactIs(t, f, b, a, c) ==
    Core(dtype, t, f, b, index, frail, past, a, c) /\ Stage(t, f, b, a)
\* The inductive invariant.
ExactInv == sure => \E t, f, b, a, c : ExactIs(t, f, b, a, c)


\* A user who is still sure was sure, and the history is kept.
LEMMA SureStep ==
    ASSUME NEW s \in BOOLEAN, NEW p, NEW f, NEW q \in BOOLEAN, History(s, p, f, q), sure'
    PROVE  s /\ past' = p /\ frail' = f /\ (silent' <=> q)
  BY DEF History

\* With nothing under way; with a write; with another request.
LEMMA AtRest ==
    ASSUME NEW t, NEW f, NEW b, NEW a, Stage(t, f, b, a), asked = {}
    PROVE  Rest(t, f, b, a)
<1>1. ASSUME NEW r PROVE ~Reading(r, t, f, b, a) /\ ~Running(r, t, f, b, a) /\ ~Fetching(r, t, f, b, a)
  BY DEF Reading, Running, Fetching
<1>2. ASSUME NEW r, NEW res PROVE ~Writing(r, res, t, f, b, a)
  BY DEF Writing
<1>3. QED
  BY <1>1, <1>2 DEF Stage

\* The stage, from a request that writes.
LEMMA AtWrite ==
    ASSUME NEW t, NEW f, NEW b, NEW a, Stage(t, f, b, a), NEW r \in asked, IsWrite(r)
    PROVE  \E res : Writing(r, res, t, f, b, a)
<1>1. ~Rest(t, f, b, a)
  BY DEF Rest
<1>2. ASSUME NEW q PROVE ~Reading(q, t, f, b, a) /\ ~Running(q, t, f, b, a) /\ ~Fetching(q, t, f, b, a)
  BY DEF Reading, Running, Fetching, IsWrite, Shows, Functor
<1>3. ASSUME NEW q, NEW res, Writing(q, res, t, f, b, a) PROVE q = r
  <2>1. asked = {q} \/ \E g : asked = {q, g} /\ Functor(g)
    BY <1>3 DEF Writing, Writes, WritesPatch, WritesQuiet, WritesRemove, WritesPost, WritesAgain,
                WritesPrune, Shows
  <2>2. ~Functor(r)
    BY DEF Functor, IsWrite
  <2>3. QED
    BY <2>1, <2>2
<1>4. QED
  BY <1>1, <1>2, <1>3 DEF Stage

\* The stage, from a request that does not.
LEMMA AtOther ==
    ASSUME NEW t, NEW f, NEW b, NEW a, Stage(t, f, b, a), NEW r \in asked, ~IsWrite(r)
    PROVE  \/ Reading(r, t, f, b, a) \/ Running(r, t, f, b, a) \/ Fetching(r, t, f, b, a)
           \/ \E q, res : Writing(q, res, t, f, b, a) /\ WritesPrune(q, r, t, f, b)
<1>1. ~Rest(t, f, b, a)
  BY DEF Rest
<1>2. ASSUME NEW q, Reading(q, t, f, b, a) \/ Running(q, t, f, b, a) \/ Fetching(q, t, f, b, a)
      PROVE  q = r
  BY <1>2 DEF Reading, Running, Fetching
<1>3. ASSUME NEW q, NEW res, Writing(q, res, t, f, b, a) PROVE WritesPrune(q, r, t, f, b)
  <2>1. q # r
    BY <1>3 DEF Writing
  <2>2. ASSUME asked = {q} PROVE FALSE
    BY <2>1, <2>2
  <2>3. PICK g : WritesPrune(q, g, t, f, b)
    BY <1>3, <2>2 DEF Writing, Writes, WritesPatch, WritesQuiet, WritesRemove, WritesPost, WritesAgain
  <2>4. g = r
    BY <2>1, <2>3 DEF WritesPrune
  <2>5. QED
    BY <2>3, <2>4
<1>4. QED
  BY <1>1, <1>2, <1>3 DEF Stage


\* Every row is of an annotation that has a first row.
LEMMA CoreRooted ==
    ASSUME NEW ty, NEW t, NEW f, NEW b, NEW i, NEW fr, NEW p, NEW a, NEW c,
           Core(ty, t, f, b, i, fr, p, a, c)
    PROVE  Rooted(t) /\ t \in Seq(RowType)
  BY DEF Core, Shape, Rooted

\* What a query returns is what is there.
LEMMA MergedIs ==
    ASSUME rows \in Seq(RowType)
    PROVE  Merged = MergedOf(rows) /\ View = Shown(rows)
  BY CurrentIs DEF Merged, MergedOf, View, Shown

\* The list that was asked for is right.
LEMMA FetchedShows ==
    ASSUME rows \in Seq(RowType)
    PROVE  ShowsAll(ById(MergedOf(rows)), rows)
  BY MergedKeyed, MergedIs, ByIdIs DEF ShowsAll

\* An entry of the list is what is there.
LEMMA EntryShown ==
    ASSUME NEW t, ShowsAll(shown, t), NEW i \in DOMAIN shown
    PROVE  shown[i].id \in CurrentIn(t, {}) /\ shown[i].val = t[shown[i].id].val
<1>1. shown[i] \in MergedOf(t)
  BY DEF ShowsAll, ToSet
<1>2. QED
  BY <1>1 DEF MergedOf

-----------------------------------------------------------------------------
(* The answers, and the server.                                             *)

\* A step that only comes nearer to what is due.
LEMMA Nearer ==
    ASSUME NEW t, NEW f, NEW b, NEW a, NEW c, ExactIs(t, f, b, a, c),
           dtype' = dtype, index' = index, frail' = frail, past' = past, Stage(t, f, b, a)'
    PROVE  ExactInv'
<1>1. Core(dtype, t, f, b, index, frail, past, a, c)'
  BY DEF ExactIs
<1>2. ExactIs(t, f, b, a, c)'
  BY <1>1 DEF ExactIs
<1>3. QED
  BY <1>2 DEF ExactInv

\* A list that is to be asked for again.
LEMMA FetchIs ==
    ASSUME NEW t, NEW f, NEW b, NEW a, NEW act, Here(t, f, b, a)', asked' = {Refetch(act)}
    PROVE  Stage(t, f, b, a)'
<1> PICK r : r = Refetch(act)
  OBVIOUS
<1>1. r.k = "refetch" /\ r.op.m = "GET" /\ ~r.served
  BY DEF Refetch, Request, Op
<1>2. Fetching(r, t, f, b, a)'
  BY <1>1 DEF Fetching
<1>3. QED
  BY <1>2 DEF Stage

\* The answer of a creation, or of a functor.
LEMMA EmittedIs ==
    ASSUME NEW t, NEW f, NEW b, NEW a, NEW entry, NEW act, EmitPost(entry, act, {}),
           Here(t, f, b, a)', dtype' = dtype, silent' = silent,
           dtype = "State" \/ Sees(WithEntry(shown, entry), t)
    PROVE  Stage(t, f, b, a)'
<1>1. CASE dtype = "State"
  <2>1. asked' = {Refetch(act)}
    BY <1>1 DEF EmitPost
  <2>2. QED
    BY <2>1, FetchIs
<1>2. CASE dtype # "State"
  <2>1. asked' = {} /\ shown' = WithEntry(shown, entry)
    BY <1>2 DEF EmitPost
  <2>2. Sees(shown, t)'
    BY <1>2, <2>1 DEF Sees
  <2>3. Rest(t, f, b, a)'
    BY <2>1, <2>2 DEF Rest
  <2>4. QED
    BY <2>3 DEF Stage
<1>3. QED
  BY <1>1, <1>2

\* The answers of the writes leave what was due.
LEMMA AnswerPatchExact ==
    ASSUME TypeInv, ExactInv, sure, NEW r \in asked, AnswerPatch(r)
    PROVE  ExactInv'
<1>1. PICK t, f, b, a, c : ExactIs(t, f, b, a, c)
  BY DEF ExactInv
<1>2. r.k \in {"patch", "plain"} /\ r.op.m = "PATCH" /\ r.served /\ IsWrite(r)
  BY DEF AnswerPatch, IsWrite
<1>3. PICK res : Writing(r, res, t, f, b, a)
  BY <1>1, <1>2, AtWrite DEF ExactIs
<1>4. WritesPatch(r, t, res, f, b) /\ a = acts /\ t = rows /\ res = r.res /\ res # 0
  BY <1>2, <1>3 DEF Writing, Writes, Outcome, WritesQuiet, WritesRemove, WritesPost, WritesAgain, WritesPrune
<1>5. /\ asked' = {} /\ shown' = WithPatch(shown, r.op.id, [id |-> res, val |-> r.op.val])
      /\ fw' = f /\ bw' = b
  BY <1>2, <1>4 DEF AnswerPatch, WritesPatch, EmitPatch, TakesBack
<1>6. rows' = rows /\ acts' = acts /\ silent' = silent /\ dtype' = dtype /\ index' = index
      /\ frail' = frail /\ past' = past
  BY DEF AnswerPatch, bounds, history
<1>7. Rest(t, f, b, a)'
  BY <1>4, <1>5, <1>6 DEF Rest, Here, Sees, WritesPatch
<1>8. Stage(t, f, b, a)'
  BY <1>7 DEF Stage
<1>9. QED
  BY <1>1, <1>6, <1>8, Nearer

LEMMA AnswerPostExact ==
    ASSUME TypeInv, ExactInv, sure, NEW r \in asked, AnswerPost(r)
    PROVE  ExactInv'
<1>1. PICK t, f, b, a, c : ExactIs(t, f, b, a, c)
  BY DEF ExactInv
<1>2. r.k \in {"post", "redo"} /\ r.op.m = "POST" /\ r.served /\ IsWrite(r)
  BY DEF AnswerPost, IsWrite
<1>3. PICK res : Writing(r, res, t, f, b, a)
  BY <1>1, <1>2, AtWrite DEF ExactIs
<1>4. WritesPost(r, t, res, f, b) /\ a = acts /\ t = rows /\ res = r.res /\ res # 0
  BY <1>2, <1>3 DEF Writing, Writes, Outcome, WritesPatch, WritesQuiet, WritesRemove, WritesAgain, WritesPrune
<1> PICK entry : entry = [id |-> res, val |-> r.op.val]
  OBVIOUS
<1>5. EmitPost(entry, r.act, {}) /\ r.k = "post" /\ Filled(Len(fw))
  BY <1>4 DEF AnswerPost, WritesPost
<1>6. rows' = rows /\ acts' = acts /\ silent' = silent /\ dtype' = dtype /\ index' = index
      /\ frail' = frail /\ past' = past /\ fw' = fw
  BY DEF AnswerPost, bounds, history
<1>7. bw' = b
  <2>1. bw' = [bw EXCEPT ![Len(fw)] = Append(@, Op("DELETE", r.res, 0))]
    BY <1>4, <1>5 DEF AnswerPost
  <2>2. QED
    BY <1>4, <2>1 DEF WritesPost
<1>8. Here(t, f, b, a)'
  BY <1>4, <1>6, <1>7 DEF Here, WritesPost
<1>9. dtype = "State" \/ Sees(WithEntry(shown, entry), t)
  BY <1>4 DEF WritesPost
<1>10. Stage(t, f, b, a)'
  BY ONLY <1>5, <1>6, <1>8, <1>9, EmittedIs
<1>11. QED
  BY <1>1, <1>6, <1>10, Nearer

LEMMA AnswerRemoveExact ==
    ASSUME TypeInv, ExactInv, sure, NEW r \in asked, AnswerRemove(r)
    PROVE  ExactInv'
<1>1. PICK t, f, b, a, c : ExactIs(t, f, b, a, c)
  BY DEF ExactInv
<1>2. r.k = "remove" /\ r.served
  BY DEF AnswerRemove
<1>3. IsWrite(r)
  <2>1. SUFFICES ASSUME ~IsWrite(r) PROVE FALSE
    OBVIOUS
  <2>2. QED
    BY <1>1, <1>2, <2>1, AtOther DEF ExactIs, Reading, Running, Fetching, WritesPrune
<1>4. PICK res : Writing(r, res, t, f, b, a)
  BY <1>1, <1>3, AtWrite DEF ExactIs
<1>5. WritesRemove(r, t, res, f, b) /\ a = acts /\ t = rows /\ res = r.res /\ res # 0
  BY <1>2, <1>4 DEF Writing, Writes, Outcome, WritesPatch, WritesQuiet, WritesPost, WritesAgain, WritesPrune
<1>6. rows' = rows /\ acts' = acts /\ silent' = silent /\ dtype' = dtype /\ index' = index
      /\ frail' = frail /\ past' = past /\ fw' = fw
  BY DEF AnswerRemove, bounds, history
<1>7. asked' = {} /\ bw' = b /\ shown' = WithoutEntry(shown, r.op.id)
  BY <1>5 DEF AnswerRemove, EmitDelete, WritesRemove
<1>8. Sees(shown, t)'
  BY <1>5, <1>6, <1>7, DueAgain DEF Sees, WritesRemove
<1>9. Rest(t, f, b, a)'
  BY <1>5, <1>6, <1>7, <1>8 DEF Rest, Here, WritesRemove
<1>10. Stage(t, f, b, a)'
  BY <1>9 DEF Stage
<1>11. QED
  BY <1>1, <1>6, <1>10, Nearer

LEMMA AnswerRecreatedExact ==
    ASSUME TypeInv, ExactInv, sure, NEW r \in asked, AnswerRecreated(r)
    PROVE  ExactInv'
<1>1. PICK t, f, b, a, c : ExactIs(t, f, b, a, c)
  BY DEF ExactInv
<1>2. r.k = "undo" /\ r.op.m = "POST" /\ r.served /\ IsWrite(r)
  BY DEF AnswerRecreated, IsWrite
<1>3. PICK res : Writing(r, res, t, f, b, a)
  BY <1>1, <1>2, AtWrite DEF ExactIs
<1>4. WritesAgain(r, res, f, b) /\ a = acts /\ t = rows /\ res = r.res /\ res # 0
  BY <1>2, <1>3 DEF Writing, Writes, Outcome, WritesPatch, WritesQuiet, WritesRemove, WritesPost, WritesPrune
<1> PICK entry : entry = [id |-> res, val |-> r.op.val]
  OBVIOUS
<1>5. EmitPost(entry, r.act, {}) /\ dtype = "State"
  BY <1>4 DEF AnswerRecreated, WritesAgain
<1>6. rows' = rows /\ acts' = acts /\ silent' = silent /\ dtype' = dtype /\ index' = index
      /\ frail' = frail /\ past' = past
  BY DEF AnswerRecreated, bounds, history
<1>7. fw' = f /\ bw' = b
  BY <1>4 DEF AnswerRecreated, WritesAgain
<1>8. Here(t, f, b, a)'
  BY <1>4, <1>6, <1>7 DEF Here
<1>9. Stage(t, f, b, a)'
  BY ONLY <1>5, <1>6, <1>8, EmittedIs
<1>10. QED
  BY <1>1, <1>6, <1>9, Nearer

LEMMA AnswerQuietExact ==
    ASSUME TypeInv, ExactInv, sure, NEW r \in asked, AnswerQuiet(r)
    PROVE  ExactInv'
<1>1. PICK t, f, b, a, c : ExactIs(t, f, b, a, c)
  BY DEF ExactInv
<1>2. r.served /\ (r.k = "del" \/ (r.k \in {"undo", "redo"} /\ r.op.m # "POST")) /\ asked' = asked \ {r}
  BY DEF AnswerQuiet
<1>3. IsWrite(r)
  <2>1. SUFFICES ASSUME ~IsWrite(r) PROVE FALSE
    OBVIOUS
  <2>2. QED
    BY <1>1, <1>2, <2>1, AtOther DEF ExactIs, Reading, Running, Fetching, WritesPrune, Shows
<1>4. PICK res : Writing(r, res, t, f, b, a)
  BY <1>1, <1>3, AtWrite DEF ExactIs
<1>5. a = acts /\ t = rows /\ (WritesQuiet(r, t, f, b) \/ \E g : WritesPrune(r, g, t, f, b))
  BY <1>2, <1>4 DEF Writing, Writes, Outcome, WritesPatch, WritesRemove, WritesPost, WritesAgain
<1>6. rows' = rows /\ acts' = acts /\ silent' = silent /\ dtype' = dtype /\ index' = index
      /\ frail' = frail /\ past' = past /\ fw' = fw /\ bw' = bw /\ shown' = shown
  BY DEF AnswerQuiet, bounds, history, buffer
<1>7. CASE WritesQuiet(r, t, f, b)
  <2>1. Rest(t, f, b, a)'
    BY <1>2, <1>5, <1>6, <1>7 DEF Rest, Here, Sees, WritesQuiet
  <2>2. Stage(t, f, b, a)'
    BY <2>1 DEF Stage
  <2>3. QED
    BY <1>1, <1>6, <2>2, Nearer
<1>8. ASSUME NEW g, WritesPrune(r, g, t, f, b) PROVE ExactInv'
  <2>1. asked' = {g}
    BY <1>2, <1>8 DEF WritesPrune, Shows, Functor
  <2>2. Here(t, f, b, a)'
    BY <1>5, <1>6, <1>8 DEF Here, WritesPrune
  <2>3. Shows(g, t)' /\ g.k = "undo"
    BY <1>6, <1>8 DEF Shows, Sees, Functor, WritesPrune
  <2>4. Running(g, t, f, b, a)'
    BY <2>1, <2>2, <2>3 DEF Running
  <2>5. Stage(t, f, b, a)'
    BY <2>4 DEF Stage
  <2>6. QED
    BY <1>1, <1>6, <2>5, Nearer
<1>9. QED
  BY <1>5, <1>7, <1>8

\* So does a functor.
LEMMA RunFunctorExact ==
    ASSUME TypeInv, ExactInv, sure, NEW r \in asked, RunFunctor(r)
    PROVE  ExactInv'
<1>1. PICK t, f, b, a, c : ExactIs(t, f, b, a, c)
  BY DEF ExactInv
<1>2. Functor(r) /\ ~IsWrite(r) /\ ~\E q \in asked : q.act = r.act /\ IsWrite(q)
  BY DEF RunFunctor, Functor, IsWrite
<1>3. Running(r, t, f, b, a)
  <2>1. ASSUME NEW q, NEW res, Writing(q, res, t, f, b, a), WritesPrune(q, r, t, f, b) PROVE FALSE
    BY <1>2, <2>1 DEF Writing, WritesPrune
  <2>2. ~Reading(r, t, f, b, a) /\ ~Fetching(r, t, f, b, a)
    BY <1>2 DEF Reading, Fetching, Functor
  <2>3. QED
    BY <1>1, <1>2, <2>1, <2>2, AtOther DEF ExactIs
<1>4. /\ asked = {r} /\ Here(t, f, b, a)
      /\ r.op.m = "delete_functor" => Sees(WithEntry(shown, [id |-> r.op.id, val |-> r.op.val]), t)
  BY <1>3 DEF Running, Shows
<1>5. rows' = rows /\ acts' = acts /\ silent' = silent /\ dtype' = dtype /\ index' = index
      /\ frail' = frail /\ past' = past /\ fw' = fw /\ bw' = bw
  BY DEF RunFunctor, bounds, history, buffer
<1>6. Here(t, f, b, a)'
  BY <1>4, <1>5 DEF Here
<1>7. CASE r.op.m = "select_old_obj"
  <2>1. asked' = {Refetch(r.act)}
    BY <1>4, <1>7 DEF RunFunctor
  <2>2. Stage(t, f, b, a)'
    BY <1>6, <2>1, FetchIs
  <2>3. QED
    BY <1>1, <1>5, <2>2, Nearer
<1>8. CASE r.op.m # "select_old_obj"
  <2> PICK entry : entry = [id |-> r.op.id, val |-> r.op.val]
    OBVIOUS
  <2>1. EmitPost(entry, r.act, {}) /\ r.op.m = "delete_functor"
    BY <1>2, <1>4, <1>8 DEF RunFunctor, Functor
  <2>2. dtype = "State" \/ Sees(WithEntry(shown, entry), t)
    BY <1>4, <2>1
  <2>3. Stage(t, f, b, a)'
    BY ONLY <1>5, <1>6, <2>1, <2>2, EmittedIs
  <2>4. QED
    BY <1>1, <1>5, <2>3, Nearer
<1>9. QED
  BY <1>7, <1>8


\* The list is asked for.
LEMMA FetchStage ==
    ASSUME TypeInv, NEW t, NEW f, NEW b, NEW a, Stage(t, f, b, a), NEW r \in asked, r.k = "refetch"
    PROVE  Fetching(r, t, f, b, a)
<1>1. ~IsWrite(r)
  BY RequestSays
<1>2. QED
  BY <1>1, AtOther DEF Reading, Running, WritesPrune

\* So does the list that was asked for.
LEMMA AnswerRefetchExact ==
    ASSUME TypeInv, ExactInv, sure, NEW r \in asked, AnswerRefetch(r), sure'
    PROVE  ExactInv'
<1>1. PICK t, f, b, a, c : ExactIs(t, f, b, a, c)
  BY DEF ExactInv
<1>2. Fetching(r, t, f, b, a) /\ r.served
  BY <1>1, FetchStage DEF ExactIs, AnswerRefetch
<1>3. asked' = {} /\ shown' = ById(MergedOf(rows)) /\ Here(t, f, b, a)
  BY <1>2 DEF Fetching, AnswerRefetch
<1>4. rows' = rows /\ acts' = acts /\ dtype' = dtype /\ index' = index
      /\ fw' = fw /\ bw' = bw
  BY DEF AnswerRefetch, bounds, history, buffer
<1>5. frail' = frail /\ past' = past
  BY DEF AnswerRefetch, History
<1>6. ShowsAll(shown', rows)
  BY <1>3, FetchedShows, TypesAre
<1>7. Rest(t, f, b, a)'
  BY <1>3, <1>4, <1>6 DEF Rest, Here, Sees
<1>8. Stage(t, f, b, a)'
  BY <1>7 DEF Stage
<1>9. QED
  BY <1>1, <1>4, <1>5, <1>8, Nearer

\* So does the server that serves a request.
LEMMA ServeRefetchExact ==
    ASSUME TypeInv, ExactInv, sure, NEW r \in asked, ServeRefetch(r)
    PROVE  ExactInv'
<1>1. PICK t, f, b, a, c : ExactIs(t, f, b, a, c)
  BY DEF ExactInv
<1>2. Fetching(r, t, f, b, a)
  BY <1>1, FetchStage DEF ExactIs, ServeRefetch
<1> PICK q : q = [r EXCEPT !.served = TRUE, !.res = Merged]
  OBVIOUS
<1>3. DOMAIN r = {"act", "place", "k", "op", "served", "res"}
  BY RequestSays DEF TypedRequest
<1>4. q.k = r.k /\ q.op = r.op /\ q.res = MergedOf(rows)
  BY <1>3, MergedIs, TypesAre
<1>5. asked' = {q} /\ Here(t, f, b, a) /\ r.k = "refetch" /\ r.op.m = "GET"
  BY <1>2 DEF Fetching, ServeRefetch
<1>6. rows' = rows /\ acts' = acts /\ dtype' = dtype /\ index' = index
      /\ fw' = fw /\ bw' = bw /\ frail' = frail /\ past' = past
  BY DEF ServeRefetch, bounds, history, buffer
<1>7. Fetching(q, t, f, b, a)'
  BY <1>4, <1>5, <1>6 DEF Fetching, Here
<1>8. Stage(t, f, b, a)'
  BY <1>7 DEF Stage
<1>9. QED
  BY <1>1, <1>6, <1>8, Nearer

LEMMA ServeExact ==
    ASSUME TypeInv, ExactInv, sure, NEW r \in asked, Serve(r)
    PROVE  ExactInv'
<1>1. PICK t, f, b, a, c : ExactIs(t, f, b, a, c)
  BY DEF ExactInv
<1>2. IsWrite(r) /\ ~r.served
  BY DEF Serve
<1>3. PICK res : Writing(r, res, t, f, b, a)
  BY <1>1, <1>2, AtWrite DEF ExactIs
<1> PICK q : q = [r EXCEPT !.served = TRUE, !.res = Answered(r.op)]
  OBVIOUS
<1>4. DOMAIN r = {"act", "place", "k", "op", "served", "res"}
  BY RequestSays DEF TypedRequest
<1>5. /\ q.k = r.k /\ q.op = r.op /\ q.res = Answered(r.op) /\ q.served /\ q.place = r.place
      /\ q.act = r.act
  BY <1>4
<1>6. /\ asked' = (asked \ {r}) \cup {q} /\ rows' = TableAfter(r.op)
  BY DEF Serve
<1>7. acts' = acts /\ dtype' = dtype /\ index' = index /\ shown' = shown /\ silent' = silent
      /\ fw' = fw /\ bw' = bw /\ frail' = frail /\ past' = past
  BY DEF Serve, bounds, history, buffer
<1>8. Outcome(q, t, res)'
  BY <1>2, <1>3, <1>5, <1>6 DEF Writing, Outcome
<1>9. Writes(q, t, res, f, b)'
  <2>1. CASE WritesPatch(r, t, res, f, b)
    <3>1. (Filed(<<Op("PRUNE", res, 0), Op("select_old_obj", 0, 0)>>))'
              = Filed(<<Op("PRUNE", res, 0), Op("select_old_obj", 0, 0)>>)
      BY <1>7 DEF Filed, Op
    <3>2. asked' = {q}
      BY <1>6, <2>1 DEF WritesPatch
    <3>3. WritesPatch(q, t, res, f, b)'
      BY <1>5, <1>7, <2>1, <3>1, <3>2 DEF WritesPatch, Sees
    <3>4. QED
      BY <3>3 DEF Writes
  <2>2. CASE WritesQuiet(r, t, f, b)
    <3>1. asked' = {q}
      BY <1>6, <2>2 DEF WritesQuiet
    <3>2. WritesQuiet(q, t, f, b)'
      BY <1>5, <1>7, <2>2, <3>1 DEF WritesQuiet, Sees
    <3>3. QED
      BY <3>2 DEF Writes
  <2>3. CASE WritesRemove(r, t, res, f, b)
    <3>1. asked' = {q}
      BY <1>6, <2>3 DEF WritesRemove
    <3>2. WritesRemove(q, t, res, f, b)'
      BY <1>5, <1>7, <2>3, <3>1 DEF WritesRemove, Sees, Op
    <3>3. QED
      BY <3>2 DEF Writes
  <2>4. CASE WritesPost(r, t, res, f, b)
    <3>1. asked' = {q}
      BY <1>6, <2>4 DEF WritesPost
    <3>2. Filled(Len(fw))'
      BY <1>7, <2>4 DEF WritesPost, Filled, Back
    <3>3. WritesPost(q, t, res, f, b)'
      BY <1>5, <1>7, <2>4, <3>1, <3>2 DEF WritesPost, Sees, Op
    <3>4. QED
      BY <3>3 DEF Writes
  <2>5. CASE WritesAgain(r, res, f, b)
    <3>1. asked' = {q}
      BY <1>6, <2>5 DEF WritesAgain
    <3>2. WritesAgain(q, res, f, b)'
      BY <1>5, <1>7, <2>5, <3>1 DEF WritesAgain, Readdressed
    <3>3. QED
      BY <3>2 DEF Writes
  <2>6. ASSUME NEW g, WritesPrune(r, g, t, f, b) PROVE Writes(q, t, res, f, b)'
    <3>1. asked' = {q, g}
      BY <1>6, <2>6 DEF WritesPrune, Shows, Functor
    <3>2. Shows(g, t)'
      BY <1>7, <2>6 DEF WritesPrune, Shows, Sees, Functor
    <3>3. WritesPrune(q, g, t, f, b)'
      BY <1>5, <1>7, <2>6, <3>1, <3>2 DEF WritesPrune
    <3>4. QED
      BY <3>3 DEF Writes
  <2>7. QED
    BY <1>3, <2>1, <2>2, <2>3, <2>4, <2>5, <2>6 DEF Writing, Writes
<1>10. Writing(q, res, t, f, b, a)'
  BY <1>2, <1>3, <1>5, <1>6, <1>7, <1>8, <1>9 DEF Writing, IsWrite
<1>11. Stage(t, f, b, a)'
  BY <1>10 DEF Stage
<1>12. QED
  BY <1>1, <1>7, <1>11, Nearer

-----------------------------------------------------------------------------
(* The acts of the user.                                                    *)

\* What a new act leads to.
LEMMA Arrives ==
    ASSUME NEW t, NEW f, NEW b, NEW i, NEW fr, NEW p, NEW a, NEW c,
           Core(dtype, t, f, b, i, fr, p, a, c),
           dtype' = dtype, index' = i, frail' = fr, past' = p, Stage(t, f, b, a)'
    PROVE  ExactInv'
<1>1. Core(dtype, t, f, b, index, frail, past, a, c)'
  OBVIOUS
<1>2. ExactIs(t, f, b, a, c)'
  BY <1>1 DEF ExactIs
<1>3. QED
  BY <1>2 DEF ExactInv

\* With nothing under way everything holds already.
LEMMA AtPeace ==
    ASSUME TypeInv, ExactInv, sure, asked = {}
    PROVE  \E c : Core(dtype, rows, fw, bw, index, frail, past, acts, c) /\ Sees(shown, rows)
<1>1. PICK t, f, b, a, c : ExactIs(t, f, b, a, c)
  BY DEF ExactInv
<1>2. Rest(t, f, b, a)
  BY <1>1, AtRest DEF ExactIs
<1>3. QED
  BY <1>1, <1>2 DEF ExactIs, Rest, Here

\* What is kept, and what is filed at its end.
LEMMA KeptIs ==
    ASSUME NEW list \in Lists, index \in 0..Len(fw), Len(list) = Len(fw)
    PROVE  Kept(list) = SubSeq(list, 1, index) /\ Kept(list) \in Lists /\ Len(Kept(list)) = index
<1> PICK s : s = SubSeq(list, 1, index)
  OBVIOUS
<1>1. s \in Lists /\ Len(s) = index /\ \A j \in 1..index : s[j] = list[j]
  BY PartOf DEF Lists
<1>2. CASE index < Len(fw)
  BY <1>1, <1>2 DEF Kept
<1>3. CASE index = Len(fw)
  <2>1. s = list
    BY <1>1, <1>3 DEF Lists
  <2>2. QED
    BY <1>1, <1>3, <2>1 DEF Kept
<1>4. QED
  BY <1>2, <1>3

\* What is filed under the last operation takes the place of what is there.
LEMMA FiledNew ==
    ASSUME NEW base \in Lists, NEW w, bw' = Append(base, w), Len(fw') = Len(base) + 1,
           NEW ops
    PROVE  Filed(ops)' = Append(base, ops)
<1> PICK n \in Nat : n = Len(base)
  BY DEF Lists
<1>1. Len(bw') = n + 1 /\ Len(fw') = n + 1 /\ \A i \in 1..n : bw'[i] = base[i]
  BY DEF Lists
<1>2. Filed(ops)' = [i \in 1..n + 1 |-> IF i = n + 1 THEN ops ELSE base[i]]
  BY <1>1 DEF Filed
<1>3. Append(base, ops) = [i \in 1..n + 1 |-> IF i = n + 1 THEN ops ELSE base[i]]
  <2> PICK s : s = Append(base, ops)
    OBVIOUS
  <2>1. IsSeq(base) /\ DOMAIN base = 1..n
    BY PartsOfSeq, SeqDomain DEF Lists
  <2>2. IsSeq(s) /\ Len(s) = n + 1 /\ (\A i \in 1..n : s[i] = base[i]) /\ s[n + 1] = ops
    BY <2>1, Appended
  <2>3. QED
    BY <2>2 DEF IsSeq
<1>4. QED
  BY <1>2, <1>3

\* The table after a request depends on the table only.
LEMMA SameTable ==
    ASSUME rows' = rows, NEW op
    PROVE  TableAfter(op)' = TableAfter(op) /\ Answered(op)' = Answered(op)
<1>1. Present' = Present
  BY DEF Present
<1>2. \A i : Latest(i)' = Latest(i)
  BY <1>1 DEF Latest
<1>3. Answered(op)' = Answered(op)
  BY <1>1 DEF Answered
<1>4. QED
  BY <1>2, <1>3 DEF TableAfter

-----------------------------------------------------------------------------
(* An edit begins with a read.                                              *)

\* An edit of the user begins.
LEMMA StartPatchExact ==
    ASSUME TypeInv, ExactInv, NEW i \in DOMAIN shown, NEW kind, StartPatch(i, kind), sure'
    PROVE  ExactInv'
<1>1. sure /\ asked = {} /\ ~silent /\ past' = past /\ frail' = frail /\ ~silent'
  <2>1. (sure /\ ~Waiting /\ ~silent) \in BOOLEAN /\ silent \in BOOLEAN
    BY TypesAre
  <2>2. sure /\ ~Waiting /\ ~silent /\ past' = past /\ frail' = frail /\ (silent' <=> silent)
    BY <2>1, SureStep DEF StartPatch
  <2>3. QED
    BY <2>2 DEF Waiting
<1>2. PICK c : Core(dtype, rows, fw, bw, index, frail, past, acts, c) /\ ShowsAll(shown, rows)
  BY <1>1, AtPeace DEF Sees
<1>3. /\ rows' = rows /\ fw' = fw /\ bw' = bw /\ index' = index /\ shown' = shown /\ dtype' = dtype
      /\ acts' = acts + 1 /\ acts \in Nat
  BY TypesAre DEF StartPatch, Edits, Act, buffer
<1> PICK r : r = Request(acts + 1, kind, 1, Op("GET", shown[i].id, acts + 1))
  OBVIOUS
<1>4. asked' = {r} /\ kind \in Kinds \cap {"patch", "plain", "del"}
  BY <1>1 DEF StartPatch
<1>5. r.k = kind /\ r.op.m = "GET" /\ ~r.served /\ r.op.id = shown[i].id /\ r.op.val = acts + 1
  BY DEF Request, Op
<1>6. Kinds' = Kinds
  BY <1>3 DEF Kinds
<1>7. shown[i].id \in CurrentIn(rows, {})
  BY <1>2, EntryShown
<1> PICK t, f, b, a : t = rows /\ f = fw /\ b = bw /\ a = acts
  OBVIOUS
<1>8. Reading(r, t, f, b, a)'
  BY <1>1, <1>2, <1>3, <1>4, <1>5, <1>6, <1>7 DEF Reading
<1>9. Stage(t, f, b, a)'
  BY <1>8 DEF Stage
<1>10. QED
  BY <1>1, <1>2, <1>3, <1>9, Arrives

\* The row has been read.
LEMMA ReadStage ==
    ASSUME NEW t, NEW f, NEW b, NEW a, Stage(t, f, b, a), NEW r \in asked, r.op.m = "GET", r.k # "refetch"
    PROVE  Reading(r, t, f, b, a)
<1>1. ~IsWrite(r) /\ ~Functor(r)
  BY DEF IsWrite, Functor
<1>2. QED
  BY <1>1, AtOther DEF Running, Fetching, WritesPrune, Shows

\* The facts a step from Reading starts from.
LEMMA ReadFacts ==
    ASSUME TypeInv, ExactInv, sure, NEW r \in asked, r.op.m = "GET", r.k # "refetch",
           NEW n, n = r.op.id
    PROVE  /\ acts - 1 \in Nat /\ n \in Nat /\ n \in Present
           /\ n \in CurrentIn(rows, {}) /\ r.op.val = acts /\ ~silent /\ ShowsAll(shown, rows)
           /\ asked = {r} /\ ~r.served /\ r.k \in Kinds \cap {"patch", "plain", "del"}
           /\ Rooted(rows) /\ rows[n].val \in Int
           /\ \E c : Core(dtype, rows, fw, bw, index, frail, past, acts - 1, c)
           /\ Kept(fw) = SubSeq(fw, 1, index) /\ Kept(bw) = SubSeq(bw, 1, index)
           /\ Kept(fw) \in Lists /\ Kept(bw) \in Lists /\ Len(Kept(fw)) = index /\ Len(Kept(bw)) = index
<1>1. PICK t, f, b, a, c : ExactIs(t, f, b, a, c)
  BY DEF ExactInv
<1>2. Reading(r, t, f, b, a)
  BY <1>1, ReadStage DEF ExactIs
<1>3. Core(dtype, rows, fw, bw, index, frail, past, acts - 1, c)
  BY <1>1, <1>2 DEF ExactIs, Reading
<1>4. Rooted(rows) /\ rows \in Seq(RowType)
  BY <1>3, CoreRooted
<1>5. acts - 1 \in Nat /\ Len(bw) = Len(fw) /\ fw \in Lists /\ bw \in Lists /\ index \in 0..Len(fw)
  BY <1>3 DEF Core, Shape
<1>6. n \in CurrentIn(rows, {})
  BY <1>2 DEF Reading
<1>7. n \in Present /\ n \in DOMAIN rows
  BY <1>4, <1>6, CurrentIs DEF CurrentIn, PresentIn
<1>8. n \in Nat /\ rows[n] \in RowType
  BY <1>4, <1>7
<1>9. rows[n].val \in Int
  BY <1>8 DEF RowType
<1>10. /\ Kept(fw) = SubSeq(fw, 1, index) /\ Kept(bw) = SubSeq(bw, 1, index)
       /\ Kept(fw) \in Lists /\ Kept(bw) \in Lists /\ Len(Kept(fw)) = index /\ Len(Kept(bw)) = index
  BY <1>5, KeptIs
<1>11. QED
  BY <1>2, <1>3, <1>4, <1>5, <1>6, <1>7, <1>8, <1>9, <1>10 DEF Reading

-----------------------------------------------------------------------------
(* The row of a patch has been read.                                        *)

\* What a patch is taken back with, when it is answered.
Taking(kind, k, n, v) ==
    IF kind = "plain" THEN <<Op("PATCH", n, v)>>
    ELSE <<Op("PRUNE", k, 0), Op("select_old_obj", 0, 0)>>

\* That is a list of operations.
LEMMA TakingTyped ==
    ASSUME NEW kind, NEW k \in Nat, NEW n \in Nat, NEW v \in Int
    PROVE  Taking(kind, k, n, v) \in Seq(OpType)
<1>1. Op("PATCH", n, v) \in OpType /\ Op("PRUNE", k, 0) \in OpType /\ Op("select_old_obj", 0, 0) \in OpType
  BY OpTyped DEF Methods
<1>2. QED
  BY <1>1 DEF Taking

\* The row has been read: the new operation is the last, when it is answered.
LEMMA PatchReadExact ==
    ASSUME TypeInv, ExactInv, sure, NEW r \in asked, PatchRead(r), sure'
    PROVE  ExactInv'
<1> PICK n, a, f, v : n = r.op.id /\ a = acts - 1 /\ f = Kept(fw) /\ v = Kept(bw)
  OBVIOUS
<1>1. r.k \in {"patch", "plain"} /\ r.op.m = "GET" /\ r.k # "refetch"
  BY DEF PatchRead
<1>2. /\ a \in Nat /\ n \in Nat /\ n \in Present /\ acts = a + 1
      /\ n \in CurrentIn(rows, {}) /\ r.op.val = acts /\ ~silent /\ ShowsAll(shown, rows)
      /\ asked = {r} /\ ~r.served /\ r.k \in Kinds \cap {"patch", "plain", "del"}
      /\ Rooted(rows) /\ rows[n].val \in Int
      /\ f = SubSeq(fw, 1, index) /\ v = SubSeq(bw, 1, index)
      /\ f \in Lists /\ v \in Lists /\ Len(f) = index /\ Len(v) = index
  <2>1. /\ acts - 1 \in Nat /\ n \in Nat /\ n \in Present
        /\ n \in CurrentIn(rows, {}) /\ r.op.val = acts /\ ~silent /\ ShowsAll(shown, rows)
        /\ asked = {r} /\ ~r.served /\ r.k \in Kinds \cap {"patch", "plain", "del"}
        /\ Rooted(rows) /\ rows[n].val \in Int
        /\ Kept(fw) = SubSeq(fw, 1, index) /\ Kept(bw) = SubSeq(bw, 1, index)
        /\ Kept(fw) \in Lists /\ Kept(bw) \in Lists /\ Len(Kept(fw)) = index /\ Len(Kept(bw)) = index
    BY <1>1, ReadFacts
  <2>2. acts = a + 1
    BY TypesAre
  <2>3. QED
    BY <2>1, <2>2
<1>3. PICK c : Core(dtype, rows, fw, bw, index, frail, past, a, c)
  BY <1>1, ReadFacts
<1> PICK o : o = Op("PATCH", n, a + 1)
  OBVIOUS
<1> PICK q : q = [r EXCEPT !.op.m = "PATCH"]
  OBVIOUS
<1>4. o \in OpType /\ o.m = "PATCH" /\ o.id = n /\ o.val = a + 1
  <2>1. a + 1 \in Int
    BY <1>2
  <2>2. QED
    BY <1>2, <2>1, OpTyped DEF Methods, Op
<1>5. q.op = o /\ q.k = r.k /\ ~q.served
  <2>1. TypedRequest(r)
    BY RequestSays
  <2>2. DOMAIN r = {"act", "place", "k", "op", "served", "res"} /\ r.op \in AnyOp
    BY <2>1 DEF TypedRequest
  <2> PICK g : g = r.op
    OBVIOUS
  <2>3. [g EXCEPT !.m = "PATCH"] = [m |-> "PATCH", id |-> g.id, val |-> g.val]
    BY <2>2 DEF AnyOp
  <2>4. q.op = [g EXCEPT !.m = "PATCH"] /\ q.k = r.k /\ q.served = r.served
    BY <2>2
  <2>5. QED
    BY <1>2, <2>3, <2>4 DEF Op
<1> PICK u : u = TableAfter(o)
  OBVIOUS
<1>6. PICK row, k : /\ Extends(u, rows, row, k) /\ k = Answered(o) /\ k \in Nat /\ k # 0
                    /\ row.elem = rows[n].elem /\ row.val = a + 1 /\ ~row.deleted
  <2>1. n \in PresentIn(rows, {})
    BY <1>2 DEF CurrentIn
  <2>2. QED
    BY <1>2, <1>4, <2>1, PatchServed
<1>7. Copies(u, rows, row, k, n)
  BY <1>2, <1>6 DEF Copies
<1> PICK w : w = Taking(r.k, k, n, rows[n].val)
  OBVIOUS
<1>8. w \in Seq(OpType)
  BY <1>2, <1>6, TakingTyped
<1>9. \/ w = <<Op("PRUNE", k, 0), Op("select_old_obj", 0, 0)>>
      \/ dtype = "State" /\ w = <<Op("PATCH", n, rows[n].val)>>
  BY <1>2 DEF Taking, Kinds
<1> PICK p : p = Append(SubSeq(past, 1, index + 1), (Shown(rows) \ {rows[n].val}) \cup {a + 1})
  OBVIOUS
<1>10. PICK d : Core(dtype, u, Append(f, <<o>>), Append(v, w), index + 1, frail, p, a + 1, d)
  <2>1. o = Op("PATCH", n, a + 1) /\ row.val = a + 1 /\ ~row.deleted
    BY <1>6
  <2>2. \E d : Core(dtype, u, Append(SubSeq(fw, 1, index), <<o>>), Append(SubSeq(bw, 1, index), w),
                    index + 1, frail, Append(SubSeq(past, 1, index + 1), (Shown(rows) \ {rows[n].val}) \cup {a + 1}), a + 1, d)
    BY ONLY <1>3, <1>4, <1>7, <1>8, <1>9, <2>1, NewPatch
  <2>3. QED
    BY <1>2, <2>2
<1>11. /\ PushForward(o) /\ PushBackward(Op("PATCH", n, rows[n].val))
       /\ asked' = {q} /\ rows' = rows /\ dtype' = dtype /\ shown' = shown /\ acts' = acts
       /\ History(sure, PastAfter((View \ {rows[n].val}) \cup {a + 1}), frail, silent)
  BY <1>2, <1>4 DEF PatchRead, bounds, Op
<1>12. past' = p /\ frail' = frail /\ ~silent'
  <2>1. past' = PastAfter((View \ {rows[n].val}) \cup {a + 1}) /\ frail' = frail /\ ~silent'
    BY <1>2, <1>11, SureStep, TypesAre
  <2>2. View = Shown(rows)
    BY MergedIs, TypesAre
  <2>3. QED
    BY <2>1, <2>2 DEF PastAfter
<1>13. /\ fw' = Append(f, <<o>>) /\ index' = index + 1 /\ Len(fw') = index + 1
       /\ bw' = Append(v, <<Op("PATCH", n, rows[n].val)>>)
  <2>1. Len(Append(f, <<o>>)) = index + 1
    BY <1>2 DEF Lists
  <2>2. QED
    BY <1>11, <2>1 DEF PushForward, PushBackward
<1> PICK g, b : g = Append(f, <<o>>) /\ b = Append(v, w)
  OBVIOUS
<1>14. Filed(<<Op("PRUNE", k, 0), Op("select_old_obj", 0, 0)>>)'
           = Append(v, <<Op("PRUNE", k, 0), Op("select_old_obj", 0, 0)>>)
  BY ONLY <1>2, <1>13, FiledNew
<1>15. b = IF q.k = "plain" THEN bw'
           ELSE Filed(<<Op("PRUNE", k, 0), Op("select_old_obj", 0, 0)>>)'
  BY <1>5, <1>13, <1>14 DEF Taking
<1>16. ShowsAll(WithPatch(shown, n, [id |-> k, val |-> row.val]), u)
  BY <1>2, <1>6, <1>7, DuePatch, TypesAre
<1>17. Outcome(q, u, k)'
  <2>1. TableAfter(o)' = u /\ Answered(o)' = k
    BY <1>6, <1>11, SameTable
  <2>2. QED
    BY <1>5, <1>6, <2>1 DEF Outcome
<1>18. WritesPatch(q, u, k, g, b)'
  <2>1. Sees(WithPatch(shown, q.op.id, [id |-> k, val |-> q.op.val]), u)'
    BY <1>4, <1>5, <1>6, <1>11, <1>16 DEF Sees
  <2>2. (b = IF q.k = "plain" THEN bw
             ELSE Filed(<<Op("PRUNE", k, 0), Op("select_old_obj", 0, 0)>>))'
    BY <1>15
  <2>3. (q.k \in {"patch", "plain"} /\ q.op.m = "PATCH" /\ asked = {q} /\ g = fw)'
    BY <1>1, <1>4, <1>5, <1>11, <1>13
  <2>4. QED
    BY <2>1, <2>2, <2>3 DEF WritesPatch
<1> PICK e : e = a + 1
  OBVIOUS
<1>19. Writing(q, k, u, g, b, e)'
  BY <1>2, <1>4, <1>5, <1>11, <1>17, <1>18 DEF Writing, Writes, IsWrite
<1>20. Stage(u, g, b, e)'
  BY <1>19 DEF Stage
<1>21. QED
  BY <1>10, <1>11, <1>12, <1>13, <1>20, Arrives

-----------------------------------------------------------------------------
(* The row of a deletion has been read; and the acts that read nothing.     *)

\* One operation appended to one.
LEMMA AppendedOne ==
    ASSUME NEW x, NEW s
    PROVE  Append(<<x>>, s) = <<x, s>>
<1> PICK y, z : y = Append(<<x>>, s) /\ z = <<x, s>>
  OBVIOUS
<1>1. IsSeq(y) /\ Len(y) = 2 /\ y[1] = x /\ y[2] = s
  BY Single, Appended
<1>2. IsSeq(z) /\ Len(z) = 2 /\ z[1] = x /\ z[2] = s
  BY Double
<1>3. \A i \in 1..2 : y[i] = z[i]
  BY <1>1, <1>2
<1>4. y = z
  BY ONLY <1>1, <1>2, <1>3 DEF IsSeq
<1>5. QED
  BY <1>4

\* The row of a state has been read, which is to be deleted.
LEMMA DelReadExact ==
    ASSUME TypeInv, ExactInv, sure, NEW r \in asked, DelRead(r), sure'
    PROVE  ExactInv'
<1> PICK n, a, f, v : n = r.op.id /\ a = acts - 1 /\ f = Kept(fw) /\ v = Kept(bw)
  OBVIOUS
<1>1. r.k = "del" /\ r.op.m = "GET" /\ r.k # "refetch"
  BY DEF DelRead
<1>2. /\ a \in Nat /\ n \in Nat /\ n \in Present /\ acts = a + 1
      /\ n \in CurrentIn(rows, {}) /\ r.op.val = acts /\ ~silent /\ ShowsAll(shown, rows)
      /\ asked = {r} /\ ~r.served /\ r.k \in Kinds \cap {"patch", "plain", "del"}
      /\ Rooted(rows) /\ rows[n].val \in Int
      /\ f = SubSeq(fw, 1, index) /\ v = SubSeq(bw, 1, index)
      /\ f \in Lists /\ v \in Lists /\ Len(f) = index /\ Len(v) = index
  <2>1. /\ acts - 1 \in Nat /\ n \in Nat /\ n \in Present
        /\ n \in CurrentIn(rows, {}) /\ r.op.val = acts /\ ~silent /\ ShowsAll(shown, rows)
        /\ asked = {r} /\ ~r.served /\ r.k \in Kinds \cap {"patch", "plain", "del"}
        /\ Rooted(rows) /\ rows[n].val \in Int
        /\ Kept(fw) = SubSeq(fw, 1, index) /\ Kept(bw) = SubSeq(bw, 1, index)
        /\ Kept(fw) \in Lists /\ Kept(bw) \in Lists /\ Len(Kept(fw)) = index /\ Len(Kept(bw)) = index
    BY <1>1, ReadFacts
  <2>2. acts = a + 1
    BY TypesAre
  <2>3. QED
    BY <2>1, <2>2
<1>3. PICK c : Core(dtype, rows, fw, bw, index, frail, past, a, c)
  BY <1>1, ReadFacts
<1> PICK o, sent : o = Op("DELETE", n, 0) /\ sent = Op("DELETE", n, a + 1)
  OBVIOUS
<1> PICK q : q = [r EXCEPT !.op.m = "DELETE"]
  OBVIOUS
<1>4. /\ o \in OpType /\ o.m = "DELETE" /\ o.id = n
      /\ sent \in OpType /\ sent.m = "DELETE" /\ sent.id = n
  <2>1. a + 1 \in Int
    BY <1>2
  <2>2. QED
    BY <1>2, <2>1, OpTyped DEF Methods, Op
<1>5. q.op = sent /\ q.k = r.k /\ ~q.served
  <2>1. TypedRequest(r)
    BY RequestSays
  <2>2. DOMAIN r = {"act", "place", "k", "op", "served", "res"} /\ r.op \in AnyOp
    BY <2>1 DEF TypedRequest
  <2> PICK g : g = r.op
    OBVIOUS
  <2>3. [g EXCEPT !.m = "DELETE"] = [m |-> "DELETE", id |-> g.id, val |-> g.val]
    BY <2>2 DEF AnyOp
  <2>4. q.op = [g EXCEPT !.m = "DELETE"] /\ q.k = r.k /\ q.served = r.served
    BY <2>2
  <2>5. QED
    BY <1>2, <2>3, <2>4 DEF Op
<1> PICK u : u = TableAfter(sent)
  OBVIOUS
<1>6. PICK row, k : /\ Extends(u, rows, row, k) /\ k = Answered(sent) /\ k \in Nat /\ k # 0
                    /\ row.elem = rows[n].elem /\ row.deleted
  <2>1. n \in PresentIn(rows, {})
    BY <1>2 DEF CurrentIn
  <2>2. QED
    BY <1>2, <1>4, <2>1, DeleteServed
<1>7. Copies(u, rows, row, k, n)
  BY <1>2, <1>6 DEF Copies
<1> PICK w : w = <<Op("POST", 0, rows[n].val)>>
  OBVIOUS
<1>8. w \in Seq(OpType)
  <2>1. Op("POST", 0, rows[n].val) \in OpType
    BY <1>2, OpTyped DEF Methods
  <2>2. QED
    BY <2>1
<1>9. dtype = "State" /\ w = <<Op("POST", 0, rows[n].val)>>
  BY <1>1, <1>2 DEF Kinds
<1> PICK p : p = Append(SubSeq(past, 1, index + 1), Shown(rows) \ {rows[n].val})
  OBVIOUS
<1>10. PICK d : Core(dtype, u, Append(f, <<o>>), Append(v, w), index + 1, frail, p, a + 1, d)
  <2>1. row.deleted
    BY <1>6
  <2>2. \E d : Core(dtype, u, Append(SubSeq(fw, 1, index), <<o>>), Append(SubSeq(bw, 1, index), w),
                    index + 1, frail, Append(SubSeq(past, 1, index + 1), Shown(rows) \ {rows[n].val}), a + 1, d)
    BY ONLY <1>3, <1>4, <1>7, <1>8, <1>9, <2>1, NewDelete
  <2>3. QED
    BY <1>2, <2>2
<1>11. /\ PushForward(o) /\ PushBackward(Op("POST", 0, rows[n].val)) /\ EmitDelete(n)
       /\ asked' = {q} /\ rows' = rows /\ dtype' = dtype /\ acts' = acts
       /\ History(sure, PastAfter(View \ {rows[n].val}), frail, silent)
  BY <1>2, <1>4 DEF DelRead, bounds, Op
<1>12. past' = p /\ frail' = frail /\ ~silent'
  <2>1. past' = PastAfter(View \ {rows[n].val}) /\ frail' = frail /\ ~silent'
    BY <1>2, <1>11, SureStep, TypesAre
  <2>2. View = Shown(rows)
    BY MergedIs, TypesAre
  <2>3. QED
    BY <2>1, <2>2 DEF PastAfter
<1>13. fw' = Append(f, <<o>>) /\ index' = index + 1 /\ bw' = Append(v, w)
  <2>1. Len(Append(f, <<o>>)) = index + 1
    BY <1>2 DEF Lists
  <2>2. QED
    BY <1>11, <2>1 DEF PushForward, PushBackward
<1> PICK g, b, e : g = Append(f, <<o>>) /\ b = Append(v, w) /\ e = a + 1
  OBVIOUS
<1>14. ShowsAll(WithoutEntry(shown, n), u)
  BY <1>2, <1>6, <1>7, DueDelete, TypesAre
<1>15. Outcome(q, u, k)'
  <2>1. TableAfter(sent)' = u /\ Answered(sent)' = k
    BY <1>6, <1>11, SameTable
  <2>2. QED
    BY <1>5, <1>6, <2>1 DEF Outcome
<1>16. WritesQuiet(q, u, g, b)'
  <2>1. Sees(shown, u)'
    BY <1>11, <1>14 DEF Sees, EmitDelete
  <2>2. QED
    BY <1>1, <1>5, <1>11, <1>13, <2>1 DEF WritesQuiet
<1>17. Writing(q, k, u, g, b, e)'
  BY <1>2, <1>4, <1>5, <1>11, <1>15, <1>16 DEF Writing, Writes, IsWrite
<1>18. Stage(u, g, b, e)'
  BY <1>17 DEF Stage
<1>19. QED
  BY <1>10, <1>11, <1>12, <1>13, <1>18, Arrives

\* The facts an operation starts from, that waits for nothing.
LEMMA StartFacts ==
    ASSUME TypeInv, ExactInv, sure, asked = {}
    PROVE  /\ acts \in Nat /\ index \in Nat /\ Rooted(rows) /\ rows \in Seq(RowType) /\ Sees(shown, rows)
           /\ View = Shown(rows)
           /\ \E c : Core(dtype, rows, fw, bw, index, frail, past, acts, c)
           /\ Kept(fw) = SubSeq(fw, 1, index) /\ Kept(bw) = SubSeq(bw, 1, index)
           /\ Kept(fw) \in Lists /\ Kept(bw) \in Lists /\ Len(Kept(fw)) = index /\ Len(Kept(bw)) = index
<1>1. PICK c : Core(dtype, rows, fw, bw, index, frail, past, acts, c) /\ Sees(shown, rows)
  BY AtPeace
<1>2. Rooted(rows) /\ rows \in Seq(RowType)
  BY <1>1, CoreRooted
<1>3. acts \in Nat /\ Len(bw) = Len(fw) /\ fw \in Lists /\ bw \in Lists /\ index \in 0..Len(fw) /\ index \in Nat
  BY <1>1, TypesAre DEF Core, Shape
<1>4. /\ Kept(fw) = SubSeq(fw, 1, index) /\ Kept(bw) = SubSeq(bw, 1, index)
      /\ Kept(fw) \in Lists /\ Kept(bw) \in Lists /\ Len(Kept(fw)) = index /\ Len(Kept(bw)) = index
  BY <1>3, KeptIs
<1>5. View = Shown(rows)
  BY <1>2, MergedIs
<1>6. QED
  BY <1>1, <1>2, <1>3, <1>4, <1>5

\* A localization is removed.
LEMMA StartRemoveExact ==
    ASSUME TypeInv, ExactInv, NEW i \in DOMAIN shown, StartRemove(i), sure'
    PROVE  ExactInv'
<1> PICK n, x, a, f, v : n = shown[i].id /\ x = shown[i].val /\ a = acts /\ f = Kept(fw) /\ v = Kept(bw)
  OBVIOUS
<1>1. sure /\ asked = {} /\ ~silent /\ past' = PastAfter(View \ {x}) /\ frail' = frail /\ ~silent'
  <2>1. (sure /\ ~Waiting /\ ~silent) \in BOOLEAN /\ silent \in BOOLEAN
    BY TypesAre
  <2>2. sure /\ ~Waiting /\ ~silent /\ past' = PastAfter(View \ {x}) /\ frail' = frail /\ (silent' <=> silent)
    BY <2>1, SureStep DEF StartRemove
  <2>3. QED
    BY <2>2 DEF Waiting
<1>2. /\ a \in Nat /\ index \in Nat /\ Rooted(rows) /\ rows \in Seq(RowType) /\ ShowsAll(shown, rows)
      /\ View = Shown(rows)
      /\ f = SubSeq(fw, 1, index) /\ v = SubSeq(bw, 1, index)
      /\ f \in Lists /\ v \in Lists /\ Len(f) = index /\ Len(v) = index
  BY <1>1, StartFacts DEF Sees
<1>3. PICK c : Core(dtype, rows, fw, bw, index, frail, past, a, c)
  BY <1>1, StartFacts
<1>4. n \in CurrentIn(rows, {}) /\ x = rows[n].val /\ n \in Nat /\ x \in Int
  <2>1. n \in CurrentIn(rows, {}) /\ x = rows[n].val
    BY <1>2, EntryShown
  <2>2. shown[i] \in Entry
    BY TypesAre
  <2>3. QED
    BY <2>1, <2>2 DEF Entry
<1> PICK o : o = Op("DELETE", n, x)
  OBVIOUS
<1> PICK q : q = Request(acts + 1, "remove", 1, o)
  OBVIOUS
<1>5. o \in OpType /\ o.m = "DELETE" /\ o.id = n /\ o.val = x
  BY <1>4, OpTyped DEF Methods, Op
<1>6. q.k = "remove" /\ q.op = o /\ ~q.served
  BY DEF Request
<1> PICK u : u = TableAfter(o)
  OBVIOUS
<1>7. PICK row, k : /\ Extends(u, rows, row, k) /\ k = Answered(o) /\ k \in Nat /\ k # 0
                    /\ row.elem = rows[n].elem /\ row.deleted
  <2>1. n \in PresentIn(rows, {})
    BY <1>4 DEF CurrentIn
  <2>2. QED
    BY <1>2, <1>5, <2>1, DeleteServed
<1>8. Copies(u, rows, row, k, n)
  BY <1>4, <1>7 DEF Copies
<1> PICK w : w = <<Op("PRUNE", k, 0), Op("delete_functor", n, x)>>
  OBVIOUS
<1>9. w \in Seq(OpType)
  <2>1. Op("PRUNE", k, 0) \in OpType /\ Op("delete_functor", n, x) \in OpType
    BY <1>4, <1>7, OpTyped DEF Methods
  <2>2. QED
    BY <2>1
<1>10. dtype = "Localization"
  BY TypesAre, BoundsAssumption DEF StartRemove, Kinds
<1> PICK p : p = Append(SubSeq(past, 1, index + 1), Shown(rows) \ {rows[n].val})
  OBVIOUS
<1>11. PICK d : Core(dtype, u, Append(f, <<o>>), Append(v, w), index + 1, frail, p, a + 1, d)
  <2>1. /\ row.deleted /\ o.val = rows[n].val
        /\ w = <<Op("PRUNE", k, 0), Op("delete_functor", n, o.val)>>
    BY <1>4, <1>5, <1>7
  <2>2. \E d : Core(dtype, u, Append(SubSeq(fw, 1, index), <<o>>), Append(SubSeq(bw, 1, index), w),
                    index + 1, frail, Append(SubSeq(past, 1, index + 1), Shown(rows) \ {rows[n].val}), a + 1, d)
    BY ONLY <1>3, <1>5, <1>8, <1>9, <1>10, <2>1, NewDelete
  <2>3. QED
    BY <1>2, <2>2
<1>12. /\ PushForward(o) /\ bw' = v /\ EmitDelete(n)
       /\ asked' = {q} /\ rows' = rows /\ dtype' = dtype /\ acts' = a + 1
  BY <1>1 DEF StartRemove, Edits, Act
<1>13. past' = p
  BY <1>1, <1>2, <1>4 DEF PastAfter
<1>14. fw' = Append(f, <<o>>) /\ index' = index + 1
  <2>1. Len(Append(f, <<o>>)) = index + 1
    BY <1>2 DEF Lists
  <2>2. QED
    BY <1>12, <2>1 DEF PushForward
<1> PICK g, b, e : g = Append(f, <<o>>) /\ b = Append(v, w) /\ e = a + 1
  OBVIOUS
<1>15. ShowsAll(WithoutEntry(shown, n), u)
  BY <1>2, <1>7, <1>8, DueDelete
<1>16. Outcome(q, u, k)'
  <2>1. TableAfter(o)' = u /\ Answered(o)' = k
    BY <1>7, <1>12, SameTable
  <2>2. QED
    BY <1>6, <1>7, <2>1 DEF Outcome
<1>17. n \notin CurrentIn(u, {})
  <2>1. CurrentIn(u, {}) = {m \in CurrentIn(rows, {}) : rows[m].elem # row.elem}
    BY <1>7, ExtendsSays
  <2>2. QED
    BY <1>7, <2>1
<1>18. WritesRemove(q, u, k, g, b)'
  <2>1. Sees(shown, u)'
    BY <1>12, <1>15 DEF Sees, EmitDelete
  <2>2. (b = Append(bw, <<Op("PRUNE", k, 0), Op("delete_functor", q.op.id, q.op.val)>>))'
    BY <1>5, <1>6, <1>12
  <2>3. QED
    BY <1>5, <1>6, <1>12, <1>14, <1>17, <2>1, <2>2 DEF WritesRemove
<1>19. Writing(q, k, u, g, b, e)'
  BY <1>5, <1>6, <1>12, <1>16, <1>18 DEF Writing, Writes, IsWrite
<1>20. Stage(u, g, b, e)'
  BY <1>19 DEF Stage
<1>21. QED
  BY <1>1, <1>11, <1>12, <1>13, <1>14, <1>20, Arrives

\* An annotation is created.
LEMMA StartPostExact ==
    ASSUME TypeInv, ExactInv, StartPost, sure'
    PROVE  ExactInv'
<1> PICK a, f, v : a = acts /\ f = Kept(fw) /\ v = Kept(bw)
  OBVIOUS
<1>1. sure /\ asked = {} /\ past' = PastAfter(View \cup {a + 1}) /\ frail' = frail /\ ~silent /\ ~silent'
  <2>1. (sure /\ ~Waiting /\ ~silent) \in BOOLEAN /\ silent \in BOOLEAN
    BY TypesAre
  <2>2. sure /\ ~Waiting /\ ~silent /\ past' = PastAfter(View \cup {a + 1}) /\ frail' = frail /\ (silent' <=> silent)
    BY <2>1, SureStep DEF StartPost
  <2>3. QED
    BY <2>2 DEF Waiting
<1>2. /\ a \in Nat /\ index \in Nat /\ Rooted(rows) /\ rows \in Seq(RowType) /\ ShowsAll(shown, rows)
      /\ View = Shown(rows)
      /\ f = SubSeq(fw, 1, index) /\ v = SubSeq(bw, 1, index)
      /\ f \in Lists /\ v \in Lists /\ Len(f) = index /\ Len(v) = index
  BY <1>1, StartFacts DEF Sees
<1>3. PICK c : Core(dtype, rows, fw, bw, index, frail, past, a, c)
  BY <1>1, StartFacts
<1> PICK o : o = Op("POST", 0, a + 1)
  OBVIOUS
<1> PICK q : q = Request(acts + 1, "post", 1, o)
  OBVIOUS
<1>4. o \in OpType /\ o.m = "POST" /\ o.val = a + 1 /\ o.id = 0
  <2>1. a + 1 \in Int
    BY <1>2
  <2>2. QED
    BY <2>1, OpTyped DEF Methods, Op
<1>5. q.k = "post" /\ q.op = o /\ ~q.served
  BY DEF Request
<1> PICK u : u = TableAfter(o)
  OBVIOUS
<1>6. PICK row, k : /\ Extends(u, rows, row, k) /\ k = Answered(o) /\ k \in Nat /\ k # 0
                    /\ row.elem = k /\ row.val = o.val /\ ~row.deleted
  BY <1>2, <1>4, PostServed
<1> PICK s, w : s = Op("DELETE", k, 0) /\ w = <<Stray, s>>
  OBVIOUS
<1>7. w \in Seq(OpType) /\ w # <<>> /\ w[1].m = "STRAY" /\ <<Stray>> # <<>>
  <2>1. Stray \in OpType /\ s \in OpType /\ Stray.m = "STRAY"
    BY <1>6, OpTyped DEF Methods, Stray, Op
  <2>2. QED
    BY <2>1
<1> PICK p : p = Append(SubSeq(past, 1, index + 1), Shown(rows) \cup {a + 1})
  OBVIOUS
<1>8. PICK d : Core(dtype, u, Append(f, <<o>>), Append(v, w), index + 1, frail, p, a + 1, d)
  <2>1. row.val = a + 1 /\ ~row.deleted /\ row.elem = k /\ k \in Nat /\ Extends(u, rows, row, k)
    BY <1>4, <1>6
  <2>2. \E d : Core(dtype, u, Append(SubSeq(fw, 1, index), <<o>>), Append(SubSeq(bw, 1, index), w),
                    index + 1, frail, Append(SubSeq(past, 1, index + 1), Shown(rows) \cup {a + 1}), a + 1, d)
    BY ONLY <1>3, <1>4, <1>7, <2>1, NewPost
  <2>3. QED
    BY <1>2, <2>2
<1>9. /\ PushForward(o) /\ PushBackward(Stray) /\ shown' = shown
      /\ asked' = {q} /\ rows' = rows /\ dtype' = dtype /\ acts' = a + 1
  BY <1>1 DEF StartPost, Edits, Act
<1>10. past' = p
  BY <1>1, <1>2 DEF PastAfter
<1>11. fw' = Append(f, <<o>>) /\ index' = index + 1 /\ bw' = Append(v, <<Stray>>) /\ Len(fw') = index + 1
  <2>1. Len(Append(f, <<o>>)) = index + 1
    BY <1>2 DEF Lists
  <2>2. QED
    BY <1>9, <2>1 DEF PushForward, PushBackward
<1> PICK g, b, e : g = Append(f, <<o>>) /\ b = Append(v, w) /\ e = a + 1
  OBVIOUS
<1>12. /\ bw'[index + 1] = <<Stray>> /\ DOMAIN bw' = 1..index + 1
       /\ Append(<<Stray>>, s) = w
       /\ b = [bw' EXCEPT ![index + 1] = w]
  <2>1. IsSeq(v) /\ DOMAIN v = 1..index
    BY <1>2, PartsOfSeq, SeqDomain DEF Lists
  <2> PICK y : y = Append(v, <<Stray>>)
    OBVIOUS
  <2>2. /\ IsSeq(y) /\ Len(y) = index + 1 /\ DOMAIN y = 1..index + 1
        /\ (\A j \in 1..index : y[j] = v[j]) /\ y[index + 1] = <<Stray>>
    BY <1>2, <2>1, Appended
  <2>3. /\ IsSeq(b) /\ Len(b) = index + 1 /\ DOMAIN b = 1..index + 1
        /\ (\A j \in 1..index : b[j] = v[j]) /\ b[index + 1] = w
    BY <1>2, <2>1, Appended
  <2>4. b = [j \in 1..index + 1 |-> b[j]] /\ y = [j \in 1..index + 1 |-> y[j]]
    BY <2>2, <2>3 DEF IsSeq
  <2>5. [y EXCEPT ![index + 1] = w] = [j \in 1..index + 1 |-> IF j = index + 1 THEN w ELSE y[j]]
    BY <2>2, <2>4
  <2>6. \A j \in 1..index + 1 : b[j] = IF j = index + 1 THEN w ELSE y[j]
    BY <1>2, <2>2, <2>3
  <2>7. b = [y EXCEPT ![index + 1] = w]
    BY <2>4, <2>5, <2>6
  <2>8. Append(<<Stray>>, s) = w
    BY AppendedOne
  <2>9. QED
    BY <1>11, <2>2, <2>7, <2>8
<1>13. ShowsAll(WithEntry(shown, [id |-> k, val |-> a + 1]), u)
  BY <1>2, <1>4, <1>6, DuePost
<1>14. Outcome(q, u, k)'
  <2>1. TableAfter(o)' = u /\ Answered(o)' = k
    BY <1>6, <1>9, SameTable
  <2>2. QED
    BY <1>5, <1>6, <2>1 DEF Outcome
<1>15. WritesPost(q, u, k, g, b)'
  <2>1. Filled(Len(fw))'
    BY <1>2, <1>7, <1>11, <1>12 DEF Filled, Back
  <2>2. (b = [bw EXCEPT ![Len(fw)] = Append(bw[Len(fw)], Op("DELETE", k, 0))])'
    BY <1>11, <1>12
  <2>3. Sees(WithEntry(shown, [id |-> k, val |-> q.op.val]), u)'
    BY <1>4, <1>5, <1>9, <1>13 DEF Sees
  <2>4. QED
    BY <1>4, <1>5, <1>9, <1>11, <2>1, <2>2, <2>3 DEF WritesPost
<1>16. Writing(q, k, u, g, b, e)'
  BY <1>4, <1>5, <1>9, <1>14, <1>15 DEF Writing, Writes, IsWrite
<1>17. Stage(u, g, b, e)'
  BY <1>16 DEF Stage
<1>18. QED
  BY <1>1, <1>8, <1>9, <1>10, <1>11, <1>17, Arrives

-----------------------------------------------------------------------------
(* What an undo finds.                                                      *)

\* The methods in a list of one operation or two.
LEMMA HasOne ==
    ASSUME NEW x, NEW method
    PROVE  Has(method, <<x>>) <=> x.m = method
<1>1. ToSet(<<x>>) = {x}
  BY Single DEF ToSet
<1>2. QED
  BY <1>1 DEF Has

LEMMA HasTwo ==
    ASSUME NEW x, NEW y, NEW method
    PROVE  Has(method, <<x, y>>) <=> x.m = method \/ y.m = method
<1>1. ToSet(<<x, y>>) = {x, y}
  BY Double DEF ToSet
<1>2. QED
  BY <1>1 DEF Has

\* The first operation addresses a revision that is there.
LEMMA FirstAddressed ==
    ASSUME NEW ops \in Seq(OpType), ops # <<>>, Addressed(ops), ops[1].m \in {"PATCH", "DELETE", "PRUNE"}
    PROVE  ops[1].id \in PresentIn(rows, {})
<1>1. ops[1] \in ToSet(ops)
  BY DEF ToSet
<1>2. QED
  BY <1>1 DEF Addressed, Present, PresentIn

\* The requests for one operation or two.
LEMMA SentOne ==
    ASSUME NEW k, NEW x
    PROVE  Sent(k, <<x>>) = {Request(acts + 1, k, 1, x)}
  BY Single DEF Sent

LEMMA SentTwo ==
    ASSUME NEW k, NEW x, NEW y
    PROVE  Sent(k, <<x, y>>) = {Request(acts + 1, k, 1, x), Request(acts + 1, k, 2, y)}
<1> PICK ops : ops = <<x, y>>
  OBVIOUS
<1>1. DOMAIN ops = {1, 2} /\ ops[1] = x /\ ops[2] = y
  BY Double
<1>2. Sent(k, ops) = {Request(acts + 1, k, 1, x), Request(acts + 1, k, 2, y)}
  BY <1>1 DEF Sent
<1>3. QED
  BY <1>2

\* What takes the last operation back.
LEMMA LastIs ==
    ASSUME NEW ty, NEW t, NEW f, NEW b, NEW i, NEW fr, NEW p, NEW a, NEW c,
           Core(ty, t, f, b, i, fr, p, a, c), fr < i
    PROVE  /\ Form(ty, t, f[i], b[i], c[i - 1], c[i]) /\ i \in DOMAIN b /\ i \in 1..Len(f)
           /\ b[i] \in Seq(OpType) /\ f[i] \in Seq(OpType) /\ b[i] # <<>> /\ f[i] # <<>>
           /\ b[i][1] \in OpType /\ f[i][1] \in OpType /\ fr \in Nat /\ i \in Nat /\ a \in Nat
<1>1. Shape(t, f, b, i, fr, p, a, c) /\ Forms(ty, t, f, b, fr, c)
  BY DEF Core
<1>2. /\ fr \in Nat /\ i \in Nat /\ i <= Len(f) /\ Len(f) \in Nat /\ DOMAIN b = 1..Len(f) /\ a \in Nat
      /\ \A q \in 1..Len(f) : f[q] \in Seq(OpType) /\ b[q] \in Seq(OpType)
  BY <1>1, ShapeSays
<1>3. i \in fr + 1..Len(f) /\ i \in 1..Len(f)
  BY <1>2
<1>4. Form(ty, t, f[i], b[i], c[i - 1], c[i])
  BY <1>1, <1>3 DEF Forms
<1>5. b[i] # <<>> /\ f[i] = <<f[i][1]>>
  BY <1>4, FormSays
<1>6. f[i] # <<>>
  BY ONLY <1>5
<1>7. QED
  BY <1>2, <1>3, <1>4, <1>5, <1>6

\* A prune among the operations that can be undone is a prune.
LEMMA PrunesThere ==
    ASSUME NEW ty, NEW i, NEW fr, NEW p, NEW a, NEW c, NEW t, NEW f,
           Core(ty, t, f, bw, i, fr, p, a, c), NEW j \in fr + 1..i - 1, IsPrune(bw, j)
    PROVE  j \in 1..i - 1 /\ Prunes(j)
<1>1. Shape(t, f, bw, i, fr, p, a, c) /\ Forms(ty, t, f, bw, fr, c)
  BY DEF Core
<1>2. /\ fr \in Nat /\ i \in Nat /\ i <= Len(f) /\ Len(f) \in Nat /\ DOMAIN bw = 1..Len(f)
      /\ \A q \in 1..Len(f) : f[q] \in Seq(OpType) /\ bw[q] \in Seq(OpType)
  BY <1>1, ShapeSays
<1>3. j \in fr + 1..Len(f) /\ j \in 1..Len(f) /\ j \in 1..i - 1
  BY <1>2
<1>4. bw[j] # <<>> /\ bw[j] \in Seq(OpType)
  <2>1. Form(ty, t, f[j], bw[j], c[j - 1], c[j])
    BY <1>1, <1>3 DEF Forms
  <2>2. QED
    BY <1>2, <1>3, <2>1, FormSays
<1>5. bw[j][1] \in ToSet(bw[j])
  BY <1>4 DEF ToSet
<1>6. QED
  BY <1>2, <1>3, <1>5 DEF Prunes, Has, Back, IsPrune

\* The annotation of an operation is there.
LEMMA OneIsThere ==
    ASSUME NEW t, NEW x, Describes(x, t, {}), NEW e \in DOMAIN x
    PROVE  \E m \in CurrentIn(t, {}) : t[m].elem = e
  BY DEF Describes

\* What an undo of the user who is sure does.
LEMMA UndoFacts ==
    ASSUME TypeInv, ExactInv, Undo, sure', NEW w, w = bw[index]
    PROVE  /\ sure /\ asked = {} /\ frail < index /\ fw[index][1].m # "POST"
           /\ \E c : Core(dtype, rows, fw, bw, index, frail, past, acts, c)
           /\ Sees(shown, rows) /\ Rooted(rows) /\ acts \in Nat /\ index \in Nat
           /\ dtype' = dtype /\ rows' = rows /\ fw' = fw /\ bw' = bw
           /\ acts' = acts + 1 /\ index' = index - 1 /\ past' = past
           /\ shown' = ListAfter(w) /\ asked' = Sent("undo", w) /\ Addressed(w)
           /\ frail' = IF \/ Has("POST", w)
                          \/ Has("PATCH", w) /\ \E i \in 1..index - 1 : Prunes(i)
                       THEN index - 1 ELSE frail
           /\ silent' <=> silent \/ Has("PATCH", w)
<1> DEFINE s == /\ sure /\ ~Waiting /\ index > frail
                /\ fw[index][1].m # "POST" /\ Addressed(Back(index))
           fr == IF \/ Has("POST", Back(index))
                    \/ Has("PATCH", Back(index)) /\ \E i \in 1..index - 1 : Prunes(i)
                 THEN index - 1 ELSE frail
           q == silent \/ Has("PATCH", Back(index))
<1>1. History(s, past, fr, q) /\ s \in BOOLEAN /\ q \in BOOLEAN
  BY TypesAre DEF Undo
<1> HIDE DEF s, fr, q
<1>2. s /\ past' = past /\ frail' = fr /\ (silent' <=> q)
  BY <1>1, SureStep
<1>3. sure /\ asked = {} /\ frail < index /\ fw[index][1].m # "POST" /\ Addressed(Back(index))
  <2>1. index > frail
    BY <1>2 DEF s
  <2>2. PICK c : Core(dtype, rows, fw, bw, index, frail, past, acts, c)
    BY <1>2, AtPeace DEF s, Waiting
  <2>3. frail \in Nat /\ index \in Nat
    BY <2>2, ShapeSays DEF Core
  <2>4. QED
    BY <1>2, <2>1, <2>3 DEF s, Waiting
<1>4. PICK c : Core(dtype, rows, fw, bw, index, frail, past, acts, c) /\ Sees(shown, rows)
  BY <1>3, AtPeace
<1>5. Rooted(rows)
  BY <1>4, CoreRooted
<1>6. /\ Form(dtype, rows, fw[index], bw[index], c[index - 1], c[index]) /\ index \in DOMAIN bw
      /\ bw[index] \in Seq(OpType) /\ bw[index] # <<>> /\ index \in Nat /\ acts \in Nat
  BY <1>3, <1>4, LastIs
<1>7. Back(index) = w /\ Filled(index) /\ Head(bw[index]) = bw[index][1]
  BY <1>6 DEF Back, Filled
<1>8. bw[index][1].m # "STRAY"
  <2>1. bw[index][1].m \in {"PRUNE", "PATCH", "POST"}
    BY <1>3, <1>6, FormSays
  <2>2. QED
    BY <2>1
<1>9. Perform("undo", w)
  BY <1>7, <1>8 DEF Undo, UndoNothing, UndoStray, UndoOps
<1>10. /\ dtype' = dtype /\ rows' = rows /\ fw' = fw /\ bw' = bw
       /\ acts' = acts + 1 /\ index' = index - 1
  BY DEF Undo, Act
<1>11. QED
  BY <1>2, <1>3, <1>4, <1>5, <1>6, <1>7, <1>9, <1>10 DEF fr, q, Perform

-----------------------------------------------------------------------------
(* Undo.                                                                    *)

\* The step of an undo, whatever it sends.
Undone(w, a, i) ==
    /\ dtype' = dtype /\ rows' = rows /\ fw' = fw /\ bw' = bw /\ past' = past
    /\ acts' = a + 1 /\ index' = i - 1 /\ a = acts /\ i = index /\ a \in Nat /\ i \in Nat
    /\ Rooted(rows) /\ asked' = Sent("undo", w) /\ shown' = ListAfter(w)

\* A prune, with its functor.
LEMMA UndoPruneExact ==
    ASSUME TypeInv, NEW c, NEW w, NEW a, NEW i, w = bw[i], Undone(w, a, i),
           Core(dtype, rows, fw, bw, i, frail, past, a, c), frail < i, w[1].m = "PRUNE",
           fw[i][1].m # "POST", Addressed(w), Sees(shown, rows),
           ~Has("PATCH", w) /\ ~Has("POST", w) => frail' = frail /\ (silent' <=> silent)
    PROVE  ExactInv'
<1> PICK o : o = fw[i][1]
  OBVIOUS
<1>1. /\ Form(dtype, rows, fw[i], bw[i], c[i - 1], c[i]) /\ i \in DOMAIN bw /\ i \in 1..Len(fw)
      /\ w \in Seq(OpType) /\ w # <<>> /\ w[1] \in OpType /\ o \in OpType
      /\ frail \in Nat /\ i \in Nat /\ a \in Nat
  BY LastIs
<1>2. ByPrune(dtype, rows, o, w) /\ o.m \in {"PATCH", "DELETE"}
  BY <1>1, FormSays
<1> PICK k, x, y : /\ k = w[1].id /\ x = Op("PRUNE", k, 0)
                   /\ y = IF o.m = "PATCH" THEN Op("select_old_obj", 0, 0)
                                           ELSE Op("delete_functor", o.id, o.val)
  OBVIOUS
<1>3. w = <<x, y>> /\ x.m = "PRUNE" /\ x.id = k /\ y.m \in {"select_old_obj", "delete_functor"}
  BY <1>2 DEF ByPrune, Op
<1>4. x = w[1] /\ x \in OpType /\ k \in PresentIn(rows, {})
  <2>1. w[1] = x
    BY <1>3
  <2>2. w[1].id \in PresentIn(rows, {})
    BY <1>1, FirstAddressed
  <2>3. QED
    BY <1>1, <2>1, <2>2
<1> PICK u : u = TableAfter(x)
  OBVIOUS
<1>5. PrunesRow(u, rows, k) /\ Answered(x) = k /\ k \in Nat /\ k # 0
  BY <1>3, <1>4, PruneServed DEF Undone
<1>6. Core(dtype, u, fw, bw, i - 1, frail, past, a + 1, c)
  <2>1. u = [rows EXCEPT ![bw[i][1].id].pruned = TRUE] /\ IsPrune(bw, i) /\ bw[i][1].id \in PresentIn(rows, {})
    BY <1>4, <1>5 DEF PrunesRow, IsPrune
  <2>2. Core(dtype, u, fw, bw, i - 1, frail, past, a, c)
    BY <2>1, PruneUndone
  <2>3. QED
    BY ONLY <2>2, MoreActs
<1>7. frail' = frail /\ (silent' <=> silent)
  <2>1. ~Has("PATCH", w) /\ ~Has("POST", w)
    BY <1>3, HasTwo
  <2>2. QED
    BY <2>1
<1> PICK q, g : q = Request(acts + 1, "undo", 1, x) /\ g = Request(acts + 1, "undo", 2, y)
  OBVIOUS
<1>8. /\ q.k = "undo" /\ q.op = x /\ ~q.served /\ q.act = g.act
      /\ g.k = "undo" /\ g.op = y /\ ~g.served
  BY DEF Request
<1>9. asked' = {q, g} /\ shown' = WithoutEntry(shown, k)
  <2>1. Sent("undo", w) = {q, g}
    BY <1>3, SentTwo
  <2>2. ListAfter(w) = ListStep(ListStep(shown, x), y)
    BY <1>3, ListAfterTwo
  <2>3. ListStep(ListStep(shown, x), y) = WithoutEntry(shown, k)
    BY <1>3 DEF ListStep
  <2>4. QED
    BY <2>1, <2>2, <2>3 DEF Undone
<1>10. ASSUME y.m = "delete_functor", ShowsAll(shown, rows)
       PROVE  ShowsAll(WithEntry(WithoutEntry(shown, k), [id |-> y.id, val |-> y.val]), u)
  <2>1. o.m = "DELETE" /\ y.id = o.id /\ y.val = o.val
    BY <1>2, <1>10 DEF Op
  <2>2. Tops(rows, fw, bw, i, frail) /\ rows \in Seq(RowType)
    BY DEF Core, Shape
  <2>3. Chain(rows, bw, i - 1, i)
    BY <1>1, <1>4 DEF Chain, IsPrune
  <2>4. Rids(bw, i, i) = {} /\ Rids(bw, i - 1, i) = {k}
    BY <1>1 DEF Rids
  <2>5. i \in frail + 1..i
    BY <1>1
  <2>6. IsTop(rows, {}, k) /\ o.id \in CurrentIn(rows, {k}) /\ rows[o.id].val = o.val
    BY <2>1, <2>2, <2>3, <2>4, <2>5 DEF Tops
  <2>7. CurrentIn(rows, {k}) = CurrentIn(u, {}) /\ \A n \in PresentIn(rows, {k}) : rows[n].val = u[n].val
    <3> PICK S, R : S = {k} /\ R = {}
      OBVIOUS
    <3>1. /\ PresentIn(rows, S) = PresentIn(u, R)
          /\ \A n \in PresentIn(rows, S) :
               rows[n].elem = u[n].elem /\ rows[n].val = u[n].val /\ rows[n].deleted = u[n].deleted
      <4>1. S \cup {k} = R \cup {k} /\ k \in S
        OBVIOUS
      <4>2. QED
        BY ONLY <1>5, <4>1, RowPruned
    <3>2. CurrentIn(rows, S) = CurrentIn(u, R)
      BY ONLY <3>1, SameTables
    <3>3. QED
      BY <3>1, <3>2
  <2>8. o.id \in CurrentIn(u, {}) /\ u[o.id].val = o.val
    BY <2>6, <2>7 DEF CurrentIn
  <2>9. rows[k].elem = rows[o.id].elem
    BY <1>2 DEF ByPrune
  <2>10. ShowsAll(WithEntry(WithoutEntry(shown, k), [id |-> o.id, val |-> u[o.id].val]), u)
    BY <1>5, <1>10, <2>2, <2>6, <2>8, <2>9, DueRestored
  <2>11. QED
    BY <2>1, <2>8, <2>10
<1> PICK f, b, e : f = fw /\ b = bw /\ e = a + 1
  OBVIOUS
<1>11. Shows(g, u)'
  <2>1. Functor(g)'
    BY <1>3, <1>8 DEF Functor
  <2>2. (g.op.m = "delete_functor" => Sees(WithEntry(shown, [id |-> g.op.id, val |-> g.op.val]), u))'
    BY <1>7, <1>8, <1>9, <1>10 DEF Sees
  <2>3. QED
    BY <1>8, <2>1, <2>2 DEF Shows
<1>12. Outcome(q, u, k)'
  <2>1. TableAfter(x)' = u /\ Answered(x)' = k
    BY <1>5, SameTable DEF Undone
  <2>2. QED
    BY <1>5, <1>8, <2>1 DEF Outcome
<1>13. WritesPrune(q, g, u, f, b)'
  BY <1>3, <1>8, <1>9, <1>11 DEF WritesPrune, Undone
<1>14. Writing(q, k, u, f, b, e)'
  BY <1>3, <1>8, <1>9, <1>12, <1>13 DEF Writing, Writes, IsWrite, Undone
<1>15. Stage(u, f, b, e)'
  BY <1>14 DEF Stage
<1>16. QED
  BY <1>6, <1>7, <1>15, Arrives DEF Undone

\* A PATCH, from the frame panel.
LEMMA UndoPatchExact ==
    ASSUME TypeInv, NEW c, NEW w, NEW a, NEW i, w = bw[i], Undone(w, a, i),
           Core(dtype, rows, fw, bw, i, frail, past, a, c), frail < i, w[1].m = "PATCH",
           fw[i][1].m # "POST", Addressed(w),
           ~Has("POST", w) /\ Has("PATCH", w) =>
               silent' /\ frail' = IF \E j \in 1..i - 1 : Prunes(j) THEN i - 1 ELSE frail
    PROVE  ExactInv'
<1> PICK o : o = fw[i][1]
  OBVIOUS
<1>1. /\ Form(dtype, rows, fw[i], bw[i], c[i - 1], c[i]) /\ i \in DOMAIN bw /\ i \in 1..Len(fw)
      /\ w \in Seq(OpType) /\ w # <<>> /\ w[1] \in OpType /\ o \in OpType
      /\ frail \in Nat /\ i \in Nat /\ a \in Nat
  BY LastIs
<1>2. ByPatch(dtype, rows, o, w, c[i - 1]) /\ Step(rows, o, c[i - 1], c[i])
  BY <1>1, FormSays
<1>2a. PICK z : w = <<Op("PATCH", o.id, z)>>
  BY <1>2 DEF ByPatch
<1> PICK x : x = Op("PATCH", o.id, z)
  OBVIOUS
<1>3. w = <<x>> /\ x.m = "PATCH" /\ x.id = o.id /\ dtype = "State" /\ o.m = "PATCH"
  BY <1>2a, <1>2 DEF ByPatch, Op
<1>4. x = w[1] /\ x \in OpType /\ x.id \in PresentIn(rows, {})
  <2>1. w[1] = x
    BY ONLY <1>3
  <2>2. w[1].id \in PresentIn(rows, {})
    BY <1>1, FirstAddressed
  <2>3. QED
    BY <1>1, <2>1, <2>2
<1>5. PICK m \in CurrentIn(rows, {}) : rows[m].elem = rows[x.id].elem
  <2>1. rows[o.id].elem \in DOMAIN c[i]
    BY <1>2, <1>3 DEF Step, Put
  <2>2. Describes(c[i], rows, {})
    BY HereIs
  <2>3. \E m \in CurrentIn(rows, {}) : rows[m].elem = rows[o.id].elem
    BY ONLY <2>1, <2>2, OneIsThere
  <2>4. QED
    BY <1>3, <2>3
<1> PICK u : u = TableAfter(x)
  OBVIOUS
<1>6. PICK row, k : /\ Extends(u, rows, row, k) /\ k = Answered(x) /\ k \in Nat /\ k # 0
                    /\ row.elem = rows[x.id].elem /\ row.val = x.val /\ ~row.deleted
  BY <1>3, <1>4, <1>5, PatchServed DEF Undone
<1>7. silent' /\ frail' = IF \E j \in 1..i - 1 : Prunes(j) THEN i - 1 ELSE frail
  <2>1. Has("PATCH", w) /\ ~Has("POST", w)
    BY <1>3, HasOne
  <2>2. QED
    BY <2>1
<1>8. Core("State", u, fw, bw, i - 1, frail', past, a + 1, c)
  <2> PICK g : g = frail'
    OBVIOUS
  <2>1. g = i - 1 \/ (g = frail /\ \A j \in frail + 1..i - 1 : ~IsPrune(bw, j))
    BY <1>7, PrunesThere
  <2>2. /\ bw[i][1].m = "PATCH" /\ row.elem = rows[fw[i][1].id].elem /\ row.val = bw[i][1].val
        /\ Core("State", rows, fw, bw, i, frail, past, a, c) /\ frail < i
        /\ Extends(u, rows, row, k) /\ ~row.deleted
    BY <1>3, <1>4, <1>6
  <2>3. Core("State", u, fw, bw, i - 1, g, past, a, c)
    BY ONLY <2>1, <2>2, PlainUndone
  <2>4. Core("State", u, fw, bw, i - 1, g, past, a + 1, c)
    BY ONLY <2>3, MoreActs
  <2>5. QED
    BY <2>4
<1> PICK q : q = Request(acts + 1, "undo", 1, x)
  OBVIOUS
<1>9. q.k = "undo" /\ q.op = x /\ ~q.served
  BY DEF Request
<1>10. asked' = {q}
  <2>1. Sent("undo", w) = {q}
    BY <1>3, SentOne
  <2>2. QED
    BY <2>1 DEF Undone
<1> PICK f, b, e : f = fw /\ b = bw /\ e = a + 1
  OBVIOUS
<1>11. Outcome(q, u, k)'
  <2>1. TableAfter(x)' = u /\ Answered(x)' = k
    BY <1>6, SameTable DEF Undone
  <2>2. QED
    BY <1>6, <1>9, <2>1 DEF Outcome
<1>12. WritesQuiet(q, u, f, b)'
  BY <1>3, <1>7, <1>9, <1>10 DEF WritesQuiet, Undone, Sees
<1>13. Writing(q, k, u, f, b, e)'
  BY <1>3, <1>9, <1>10, <1>11, <1>12 DEF Writing, Writes, IsWrite, Undone
<1>14. Stage(u, f, b, e)'
  BY <1>13 DEF Stage
<1>15. QED
  BY <1>3, <1>8, <1>14, Arrives DEF Undone

\* A POST, of a state that was deleted.
LEMMA UndoPostExact ==
    ASSUME TypeInv, NEW c, NEW w, NEW a, NEW i, w = bw[i], Undone(w, a, i),
           Core(dtype, rows, fw, bw, i, frail, past, a, c), frail < i, w[1].m = "POST",
           fw[i][1].m # "POST", Has("POST", w) => frail' = i - 1
    PROVE  ExactInv'
<1> PICK o : o = fw[i][1]
  OBVIOUS
<1>1. /\ Form(dtype, rows, fw[i], bw[i], c[i - 1], c[i]) /\ i \in DOMAIN bw /\ i \in 1..Len(fw)
      /\ w \in Seq(OpType) /\ w # <<>> /\ w[1] \in OpType /\ o \in OpType
      /\ frail \in Nat /\ i \in Nat /\ a \in Nat
      /\ fw[i] \in Seq(OpType) /\ fw[i] # <<>>
  BY LastIs
<1>2. ByPost(dtype, rows, o, w, c[i - 1])
  BY <1>1, FormSays
<1>2a. PICK z : w = <<Op("POST", 0, z)>>
  BY <1>2 DEF ByPost
<1> PICK x : x = Op("POST", 0, z)
  OBVIOUS
<1>3. w = <<x>> /\ x.m = "POST" /\ dtype = "State" /\ x.id = 0
  BY <1>2a, <1>2 DEF ByPost, Op
<1>4. x = w[1] /\ x \in OpType
  <2>1. w[1] = x
    BY ONLY <1>3
  <2>2. QED
    BY <1>1, <2>1
<1> PICK u : u = TableAfter(x)
  OBVIOUS
<1>5. PICK row, k : /\ Extends(u, rows, row, k) /\ k = Answered(x) /\ k \in Nat /\ k # 0
                    /\ row.elem = k /\ row.val = x.val /\ ~row.deleted
  BY <1>3, <1>4, PostServed DEF Undone
<1>6. frail' = i - 1
  BY <1>3, HasOne
<1> PICK f, b, e : f = Readdressed(fw, o.id, k) /\ b = Readdressed(bw, o.id, k) /\ e = a + 1
  OBVIOUS
<1>7. \E d : Core("State", u, f, b, i - 1, i - 1, past, a + 1, d)
  <2>1. /\ bw[i][1].m = "POST" /\ row.elem = k /\ row.val = bw[i][1].val /\ k \in Nat
        /\ Core("State", rows, fw, bw, i, frail, past, a, c) /\ frail < i
        /\ Extends(u, rows, row, k) /\ ~row.deleted
    BY <1>3, <1>4, <1>5
  <2>2. PICK d : Core("State", u, Readdressed(fw, fw[i][1].id, k), Readdressed(bw, fw[i][1].id, k),
                      i - 1, i - 1, past, a, d)
    BY ONLY <2>1, DeletionUndone
  <2>3. Core("State", u, f, b, i - 1, i - 1, past, a, d)
    BY <2>2
  <2>4. Core("State", u, f, b, i - 1, i - 1, past, a + 1, d)
    BY ONLY <2>3, MoreActs
  <2>5. QED
    BY <2>4
<1> PICK q : q = Request(acts + 1, "undo", 1, x)
  OBVIOUS
<1>8. q.k = "undo" /\ q.op = x /\ ~q.served /\ q.place = 1
  BY DEF Request
<1>9. asked' = {q}
  <2>1. Sent("undo", w) = {q}
    BY <1>3, SentOne
  <2>2. QED
    BY <2>1 DEF Undone
<1>10. Outcome(q, u, k)'
  <2>1. TableAfter(x)' = u /\ Answered(x)' = k
    BY <1>5, SameTable DEF Undone
  <2>2. QED
    BY <1>5, <1>8, <2>1 DEF Outcome
<1>11. WritesAgain(q, k, f, b)'
  <2>1. index' + 1 = i /\ fw' = fw /\ bw' = bw /\ index' < Len(fw) /\ 1 \in DOMAIN fw[i]
    <3>1. index' = i - 1 /\ fw' = fw /\ bw' = bw
      BY DEF Undone
    <3>2. index' + 1 = i /\ index' < Len(fw)
      <4>1. Len(fw) \in Nat
        BY TypesAre, ListsSay
      <4>2. QED
        BY ONLY <1>1, <3>1, <4>1
    <3>3. 1 \in DOMAIN fw[i]
      <4>1. fw[i] \in Seq(OpType) /\ fw[i] # <<>>
        BY <1>1
      <4>2. QED
        BY ONLY <4>1
    <3>4. QED
      BY <3>1, <3>2, <3>3
  <2>2. (fw[index + 1][q.place].id)' = o.id
    BY <1>8, <2>1
  <2>3. (f = Readdressed(fw, fw[index + 1][q.place].id, k)
         /\ b = Readdressed(bw, fw[index + 1][q.place].id, k))'
    BY <2>1, <2>2
  <2>4. (index < Len(fw) /\ q.place \in DOMAIN fw[index + 1])'
    BY <1>8, <2>1
  <2>5. (q.k = "undo" /\ q.op.m = "POST" /\ asked = {q} /\ dtype = "State")'
    BY <1>3, <1>8, <1>9 DEF Undone
  <2>6. QED
    BY <2>3, <2>4, <2>5 DEF WritesAgain
<1>12. Writing(q, k, u, f, b, e)'
  BY <1>3, <1>8, <1>9, <1>10, <1>11 DEF Writing, Writes, IsWrite, Undone
<1>13. Stage(u, f, b, e)'
  BY <1>12 DEF Stage
<1>14. QED
  BY <1>3, <1>6, <1>7, <1>13, Arrives DEF Undone

\* An undo, whatever takes the operation back.
LEMMA UndoExact ==
    ASSUME TypeInv, ExactInv, Undo, sure'
    PROVE  ExactInv'
<1> PICK w, a, i : w = bw[i] /\ a = acts /\ i = index
  OBVIOUS
<1>1. /\ sure /\ asked = {} /\ frail < index /\ fw[index][1].m # "POST"
      /\ \E c : Core(dtype, rows, fw, bw, index, frail, past, acts, c)
      /\ Sees(shown, rows) /\ Rooted(rows) /\ acts \in Nat /\ index \in Nat
      /\ dtype' = dtype /\ rows' = rows /\ fw' = fw /\ bw' = bw
      /\ acts' = acts + 1 /\ index' = index - 1 /\ past' = past
      /\ shown' = ListAfter(w) /\ asked' = Sent("undo", w) /\ Addressed(w)
      /\ frail' = IF \/ Has("POST", w)
                     \/ Has("PATCH", w) /\ \E j \in 1..index - 1 : Prunes(j)
                  THEN index - 1 ELSE frail
      /\ silent' <=> silent \/ Has("PATCH", w)
  BY UndoFacts
<1>2. PICK c : Core(dtype, rows, fw, bw, i, frail, past, a, c)
  BY <1>1
<1>3. Undone(w, a, i)
  BY <1>1 DEF Undone
<1>4. w[1].m \in {"PRUNE", "PATCH", "POST"}
  <2>1. Form(dtype, rows, fw[i], bw[i], c[i - 1], c[i])
    BY <1>1, <1>2, LastIs
  <2>2. QED
    BY <1>1, <2>1, FormSays
<1>5. CASE w[1].m = "PRUNE"
  BY <1>1, <1>2, <1>3, <1>5, UndoPruneExact
<1>6. CASE w[1].m = "PATCH"
  BY <1>1, <1>2, <1>3, <1>6, UndoPatchExact
<1>7. CASE w[1].m = "POST"
  BY <1>1, <1>2, <1>3, <1>7, UndoPostExact
<1>8. QED
  BY <1>4, <1>5, <1>6, <1>7

-----------------------------------------------------------------------------
(* Redo, and every step.                                                    *)

\* The next operation that can be repeated.
LEMMA NextIs ==
    ASSUME NEW ty, NEW t, NEW f, NEW b, NEW i, NEW fr, NEW p, NEW a, NEW c,
           Core(ty, t, f, b, i, fr, p, a, c), i < Len(f), NEW j, j = i + 1
    PROVE  /\ Form(ty, t, f[j], b[j], c[i], c[j]) /\ j \in DOMAIN f /\ f[j] = <<f[j][1]>>
           /\ f[j] \in Seq(OpType) /\ f[j] # <<>> /\ f[j][1] \in OpType
           /\ f[j][1].m \in {"PATCH", "DELETE"} /\ Step(t, f[j][1], c[i], c[j])
           /\ f[j][1].m = "DELETE" /\ f[j][1].id \in PresentIn(t, {}) => f[j][1].id \in CurrentIn(t, {})
           /\ a \in Nat /\ i \in Nat
<1>1. Shape(t, f, b, i, fr, p, a, c) /\ Forms(ty, t, f, b, fr, c) /\ Ahead(ty, t, f, b, i, fr)
  BY DEF Core
<1>2. /\ fr \in Nat /\ i \in Nat /\ fr <= i /\ Len(f) \in Nat /\ DOMAIN f = 1..Len(f) /\ a \in Nat
      /\ \A q \in 1..Len(f) : f[q] \in Seq(OpType)
  BY <1>1, ShapeSays
<1>3. j \in fr + 1..Len(f) /\ j \in 1..Len(f) /\ j \in i + 1..Len(f) /\ j - 1 = i
  BY <1>2
<1>4. Form(ty, t, f[j], b[j], c[i], c[j])
  BY <1>1, <1>3 DEF Forms
<1>5. /\ f[j][1].m # "POST"
      /\ f[j][1].m = "DELETE" /\ f[j][1].id \in PresentIn(t, {}) => f[j][1].id \in CurrentIn(t, {})
  BY <1>1, <1>3 DEF Ahead
<1>6. /\ f[j] = <<f[j][1]>> /\ f[j][1].m \in {"PATCH", "DELETE"} /\ Step(t, f[j][1], c[i], c[j])
  BY <1>4, <1>5, FormSays
<1>7. f[j] # <<>>
  BY ONLY <1>6
<1>8. f[j] \in Seq(OpType) /\ j \in DOMAIN f
  BY <1>2, <1>3
<1>9. f[j][1] \in OpType
  BY ONLY <1>7, <1>8
<1>10. QED
  BY <1>2, <1>4, <1>5, <1>6, <1>7, <1>8, <1>9

\* A redo makes a new revision as the operation did.
LEMMA RedoExact ==
    ASSUME TypeInv, ExactInv, Redo, sure'
    PROVE  ExactInv'
<1> PICK a, i, j, w, o : a = acts /\ i = index /\ j = i + 1 /\ w = fw[j] /\ o = w[1]
  OBVIOUS
<1>1. /\ sure /\ asked = {} /\ Addressed(w) /\ past' = past /\ frail' = frail
      /\ (silent' <=> silent \/ Has("PATCH", w))
  <2>1. (sure /\ ~Waiting /\ Addressed(w)) \in BOOLEAN /\ (silent \/ Has("PATCH", w)) \in BOOLEAN
    BY TypesAre DEF Addressed, Has
  <2>2. History(sure /\ ~Waiting /\ Addressed(w), past, frail, silent \/ Has("PATCH", w))
    BY DEF Redo
  <2>3. QED
    BY <2>1, <2>2, SureStep DEF Waiting
<1>2. PICK c : Core(dtype, rows, fw, bw, i, frail, past, a, c) /\ Sees(shown, rows)
  BY <1>1, AtPeace
<1>3. Rooted(rows) /\ rows \in Seq(RowType)
  BY <1>2, CoreRooted
<1>4. /\ dtype' = dtype /\ rows' = rows /\ fw' = fw /\ bw' = bw /\ acts' = a + 1 /\ index' = j
      /\ i < Len(fw) /\ shown' = ListAfter(w) /\ asked' = Sent("redo", w)
  <2>1. Perform("redo", w)
    BY DEF Redo
  <2>2. /\ dtype' = dtype /\ rows' = rows /\ fw' = fw /\ bw' = bw /\ acts' = acts + 1
        /\ index' = index + 1 /\ index < Len(fw)
    BY DEF Redo, Act
  <2>3. QED
    BY <1>1, <2>1, <2>2 DEF Perform
<1>5. /\ w = <<o>> /\ w \in Seq(OpType) /\ w # <<>> /\ o \in OpType /\ o.m \in {"PATCH", "DELETE"}
      /\ Step(rows, o, c[i], c[j]) /\ a \in Nat /\ i \in Nat
      /\ o.m = "DELETE" /\ o.id \in PresentIn(rows, {}) => o.id \in CurrentIn(rows, {})
  BY <1>2, <1>4, NextIs
<1>6. o.id \in PresentIn(rows, {})
  BY <1>1, <1>5, FirstAddressed
<1> PICK u : u = TableAfter(o)
  OBVIOUS
<1>7. PICK m \in CurrentIn(rows, {}) : rows[m].elem = rows[o.id].elem
  <2>1. rows[o.id].elem \in DOMAIN c[i]
    BY <1>5 DEF Step
  <2>2. Describes(c[i], rows, {})
    BY <1>2, HereIs
  <2>3. QED
    BY ONLY <2>1, <2>2, OneIsThere
<1>8. PICK row, k : /\ Extends(u, rows, row, k) /\ k = Answered(o) /\ k \in Nat /\ k # 0
                    /\ row.elem = rows[o.id].elem /\ (row.deleted <=> o.m = "DELETE")
                    /\ o.m = "PATCH" => row.val = o.val
  <2>1. CASE o.m = "PATCH"
    BY <1>3, <1>5, <1>6, <1>7, <2>1, PatchServed
  <2>2. CASE o.m = "DELETE"
    BY <1>3, <1>5, <1>6, <2>2, DeleteServed
  <2>3. QED
    BY <1>5, <2>1, <2>2
<1>9. Core(dtype, u, fw, bw, j, frail, past, a + 1, c)
  <2>1. /\ row.elem = rows[fw[i + 1][1].id].elem /\ (row.deleted <=> fw[i + 1][1].m = "DELETE")
        /\ fw[i + 1][1].m = "PATCH" => row.val = fw[i + 1][1].val
        /\ Core(dtype, rows, fw, bw, i, frail, past, a, c) /\ i < Len(fw)
        /\ Extends(u, rows, row, k)
    BY <1>2, <1>4, <1>8
  <2>2. Core(dtype, u, fw, bw, i + 1, frail, past, a, c)
    BY ONLY <2>1, Redone
  <2>3. Core(dtype, u, fw, bw, i + 1, frail, past, a + 1, c)
    BY ONLY <2>2, MoreActs
  <2>4. QED
    BY <2>3
<1> PICK q : q = Request(acts + 1, "redo", 1, o)
  OBVIOUS
<1>10. q.k = "redo" /\ q.op = o /\ ~q.served
  BY DEF Request
<1>11. asked' = {q}
  <2>1. Sent("redo", w) = {q}
    BY <1>5, SentOne
  <2>2. QED
    BY <1>4, <2>1
<1>12. Sees(shown', u) \/ silent'
  <2>1. CASE o.m = "PATCH"
    <3>1. Has("PATCH", w)
      BY <1>5, <2>1, HasOne
    <3>2. QED
      BY <1>1, <3>1
  <2>2. CASE o.m = "DELETE" /\ ~silent
    <3>1. Copies(u, rows, row, k, o.id)
      BY <1>5, <1>6, <1>8, <2>2 DEF Copies
    <3>2. ShowsAll(WithoutEntry(shown, o.id), u)
      BY <1>2, <1>3, <1>8, <2>2, <3>1, DueDelete DEF Sees
    <3>3. ListAfter(w) = ListStep(shown, o)
      BY <1>5, ListAfterOne
    <3>4. ListStep(shown, o) = WithoutEntry(shown, o.id)
      BY <2>2 DEF ListStep
    <3>5. QED
      BY <1>4, <3>2, <3>3, <3>4 DEF Sees
  <2>3. QED
    BY <1>1, <1>5, <2>1, <2>2
<1> PICK f, b, e : f = fw /\ b = bw /\ e = a + 1
  OBVIOUS
<1>13. Sees(shown, u)'
  <2>1. silent => silent'
    BY <1>1
  <2>2. QED
    BY <1>12, <2>1 DEF Sees
<1>14. Outcome(q, u, k)'
  <2>1. TableAfter(o)' = u /\ Answered(o)' = k
    BY <1>4, <1>8, SameTable
  <2>2. QED
    BY <1>8, <1>10, <2>1 DEF Outcome
<1>15. WritesQuiet(q, u, f, b)'
  BY <1>4, <1>5, <1>10, <1>11, <1>13 DEF WritesQuiet
<1>16. Writing(q, k, u, f, b, e)'
  BY <1>4, <1>5, <1>10, <1>11, <1>14, <1>15 DEF Writing, Writes, IsWrite
<1>17. Stage(u, f, b, e)'
  BY <1>16 DEF Stage
<1>18. QED
  BY <1>1, <1>4, <1>9, <1>17, Arrives


\* What changes nothing of this leaves it.
LEMMA SameExact ==
    ASSUME ExactInv, sure, UNCHANGED <<dtype, rows, shown, fw, bw, index, asked, acts, past, frail, silent>>
    PROVE  ExactInv'
<1>1. PICK t, f, b, a, c : ExactIs(t, f, b, a, c)
  BY DEF ExactInv
<1>2. Stage(t, f, b, a)'
  <2>1. CASE Rest(t, f, b, a)
    BY <2>1 DEF Rest, Here, Sees, Stage
  <2>2. ASSUME NEW r, Reading(r, t, f, b, a) PROVE Stage(t, f, b, a)'
    BY <2>2 DEF Reading, Kinds, Stage
  <2>3. ASSUME NEW r, Running(r, t, f, b, a) PROVE Stage(t, f, b, a)'
    BY <2>3 DEF Running, Here, Shows, Functor, Sees, Stage
  <2>4. ASSUME NEW r, Fetching(r, t, f, b, a) PROVE Stage(t, f, b, a)'
    BY <2>4 DEF Fetching, Here, Stage
  <2>5. ASSUME NEW r, NEW res, Writing(r, res, t, f, b, a) PROVE Stage(t, f, b, a)'
    <3>1. TableAfter(r.op)' = TableAfter(r.op) /\ Answered(r.op)' = Answered(r.op)
      BY SameTable
    <3>2. Outcome(r, t, res)'
      BY <2>5, <3>1 DEF Writing, Outcome
    <3>3. Writes(r, t, res, f, b)'
      <4>1. Filed(<<Op("PRUNE", res, 0), Op("select_old_obj", 0, 0)>>)'
                = Filed(<<Op("PRUNE", res, 0), Op("select_old_obj", 0, 0)>>)
        BY DEF Filed
      <4>2. WritesPatch(r, t, res, f, b) => WritesPatch(r, t, res, f, b)'
        BY <4>1 DEF WritesPatch, Sees
      <4>3. WritesQuiet(r, t, f, b) => WritesQuiet(r, t, f, b)'
        BY DEF WritesQuiet, Sees
      <4>4. WritesRemove(r, t, res, f, b) => WritesRemove(r, t, res, f, b)'
        BY DEF WritesRemove, Sees
      <4>5. WritesPost(r, t, res, f, b) => WritesPost(r, t, res, f, b)'
        BY DEF WritesPost, Sees, Filled, Back
      <4>6. WritesAgain(r, res, f, b) => WritesAgain(r, res, f, b)'
        BY DEF WritesAgain
      <4>7. \A g : WritesPrune(r, g, t, f, b) => WritesPrune(r, g, t, f, b)'
        BY DEF WritesPrune, Shows, Functor, Sees
      <4>8. QED
        BY <2>5, <4>2, <4>3, <4>4, <4>5, <4>6, <4>7 DEF Writing, Writes
    <3>4. Writing(r, res, t, f, b, a)'
      BY <2>5, <3>2, <3>3 DEF Writing, IsWrite
    <3>5. QED
      BY <3>4 DEF Stage
  <2>6. QED
    BY <1>1, <2>1, <2>2, <2>3, <2>4, <2>5 DEF ExactIs, Stage
<1>3. QED
  BY <1>1, <1>2, Nearer

\* Every step leaves the invariant.
LEMMA StepExact == TypeInv /\ ExactInv /\ [Next]_vars => ExactInv'
<1> SUFFICES ASSUME TypeInv, ExactInv, [Next]_vars, sure' PROVE ExactInv'
  BY DEF ExactInv
<1>1. ASSUME NEW i \in DOMAIN shown, NEW kind, StartRemove(i) \/ StartPatch(i, kind) PROVE ExactInv'
  BY <1>1, StartRemoveExact, StartPatchExact
<1>2. CASE User
  BY <1>1, <1>2, StartPostExact, UndoExact, RedoExact DEF User
<1>3. ASSUME NEW r \in asked, Page(r) PROVE ExactInv'
  <2>1. sure
    <3>1. CASE AnswerRefetch(r)
      <4>1. sure \in BOOLEAN
        BY TypesAre
      <4>2. QED
        BY <3>1, <4>1, SureStep DEF AnswerRefetch, History
    <3>2. CASE PatchRead(r) \/ DelRead(r)
      BY <3>2, TypesAre DEF PatchRead, DelRead, History, history
    <3>3. CASE AnswerPatch(r) \/ AnswerPost(r) \/ AnswerRemove(r) \/ AnswerRecreated(r)
               \/ AnswerQuiet(r) \/ RunFunctor(r)
      BY <3>3 DEF AnswerPatch, AnswerPost, AnswerRemove, AnswerRecreated, AnswerQuiet, RunFunctor, history
    <3>4. QED
      BY <1>3, <3>1, <3>2, <3>3 DEF Page
  <2>2. QED
    BY <1>3, <2>1, PatchReadExact, DelReadExact, AnswerRefetchExact, AnswerPatchExact, AnswerPostExact,
       AnswerRemoveExact, AnswerRecreatedExact, AnswerQuietExact, RunFunctorExact DEF Page
<1>4. ASSUME NEW r \in asked, Server(r) PROVE ExactInv'
  <2>1. CASE Serve(r)
    <3>1. sure
      BY <2>1 DEF Serve, history
    <3>2. QED
      BY <2>1, <3>1, ServeExact
  <2>2. CASE ServeRefetch(r)
    <3>1. sure
      BY <2>2 DEF ServeRefetch, history
    <3>2. QED
      BY <2>2, <3>1, ServeRefetchExact
  <2>3. CASE Fail(r)
    BY <2>3 DEF Fail, History
  <2>4. QED
    BY <1>4, <2>1, <2>2, <2>3 DEF Server
<1>5. CASE ClickLock
  <2>1. UNCHANGED <<dtype, rows, shown, fw, bw, index, asked, acts, past, frail, silent, sure>>
    BY <1>5 DEF ClickLock, buffer, bounds, history
  <2>2. QED
    BY <2>1, SameExact
<1>6. ASSUME NEW i \in DOMAIN rows, OtherPatches(i) PROVE ExactInv'
  BY <1>6 DEF OtherPatches, History
<1>7. CASE UNCHANGED vars
  <2>1. UNCHANGED <<dtype, rows, shown, fw, bw, index, asked, acts, past, frail, silent, sure>>
    BY <1>7 DEF vars, bounds, history
  <2>2. QED
    BY <2>1, SameExact
<1>8. QED
  BY <1>2, <1>3, <1>4, <1>5, <1>6, <1>7 DEF Next

-----------------------------------------------------------------------------
(* The initial state, and the theorems.                                     *)

\* It holds to begin with.
LEMMA InitExact == Init => ExactInv
<1> SUFFICES ASSUME Init PROVE ExactInv
  OBVIOUS
<1>1. Seeds \in Nat
  BY BoundsAssumption
<1> PICK n \in Nat : n = Seeds
  BY <1>1
<1>2. /\ rows = [i \in 1..n |->
                    [elem |-> i, val |-> -i, deleted |-> FALSE, pruned |-> FALSE, mine |-> FALSE]]
      /\ fw = <<>> /\ bw = <<>> /\ index = 0 /\ asked = {} /\ acts = 0 /\ past = <<View>> /\ frail = 0
      /\ shown = ById(Merged)
  BY DEF Init
<1>3. TypeInv
  BY InitTyped
<1>4. rows \in Seq(RowType)
  BY <1>3, TypesAre
<1>5. DOMAIN rows = 1..n /\ Len(rows) = n
  BY <1>2, <1>4
<1>6. \A i \in 1..n : rows[i].elem = i /\ rows[i].val = -i /\ ~rows[i].deleted /\ ~rows[i].pruned
  BY <1>2
<1>7. PresentIn(rows, {}) = 1..n
  BY <1>5, <1>6 DEF PresentIn
<1>8. CurrentIn(rows, {}) = 1..n
  BY <1>5, <1>6, <1>7 DEF CurrentIn, IsTop
<1> PICK x, c : x = [i \in 1..n |-> -i] /\ c = [q \in {0} |-> x]
  OBVIOUS
<1>9. Describes(x, rows, {})
  BY <1>6, <1>8 DEF Describes
<1>10. IsContent(x, 0)
  <2>1. x \in [1..n -> Int] /\ DOMAIN x = 1..n /\ \A i \in 1..n : x[i] = -i
    OBVIOUS
  <2>2. \A d, e \in 1..n : x[d] = x[e] => d = e
    BY <2>1
  <2>3. \A e \in 1..n : x[e] <= 0
    BY <2>1
  <2>4. QED
    BY <2>1, <2>2, <2>3 DEF IsContent
<1>11. View = ValuesOf(x) /\ View \in SUBSET Int
  <2>1. View = Shown(rows)
    BY <1>4, MergedIs
  <2>2. Shown(rows) = ValuesOf(x)
    BY <1>9, ViewIs DEF Shown
  <2>3. ValuesOf(x) \in SUBSET Int
    BY <1>10 DEF ValuesOf, IsContent
  <2>4. QED
    BY <2>1, <2>2, <2>3
<1>12. c[0] = x /\ DOMAIN c = {0}
  OBVIOUS
<1>13. Shape(rows, fw, bw, index, frail, past, acts, c)
  <2>1. fw \in Lists /\ bw \in Lists /\ Len(fw) = 0 /\ Len(bw) = 0 /\ 0..Len(fw) = {0}
    BY <1>2 DEF Lists
  <2>2. past \in Seq(SUBSET Int) /\ Len(past) = 1
    BY <1>2, <1>11
  <2>3. \A m \in DOMAIN rows : rows[m].elem \in 1..Len(rows)
    BY <1>5, <1>6
  <2>4. index \in 0..Len(fw) /\ frail \in 0..index /\ acts \in Nat
    BY <1>2, <2>1
  <2>5. QED
    BY <1>4, <1>12, <2>1, <2>2, <2>3, <2>4 DEF Shape
<1>14. Len(fw) = 0
  BY <1>2
<1>15. Contents(fw, frail, past, acts, c)
  <2>1. past[1] = View
    BY <1>2
  <2>2. \A q \in 0..0 : q = 0
    OBVIOUS
  <2>3. QED
    BY <1>2, <1>10, <1>11, <1>12, <1>14, <2>1, <2>2 DEF Contents
<1>16. Forms(dtype, rows, fw, bw, frail, c) /\ Ahead(dtype, rows, fw, bw, index, frail)
       /\ Tops(rows, fw, bw, index, frail)
  <2>1. 0 + 1..0 = {}
    OBVIOUS
  <2>2. QED
    BY <1>2, <1>14, <2>1 DEF Forms, Ahead, Tops
<1>17. Below(rows, bw, index, frail, c)
  <2>1. Rids(bw, 0, 0) = {}
    BY DEF Rids
  <2>2. \A q \in 0..0 : q = 0
    OBVIOUS
  <2>3. QED
    BY <1>2, <1>9, <1>12, <2>1, <2>2 DEF Below
<1>18. Core(dtype, rows, fw, bw, index, frail, past, acts, c)
  BY <1>13, <1>15, <1>16, <1>17 DEF Core
<1>19. Sees(shown, rows)
  BY <1>2, <1>4, MergedIs, FetchedShows DEF Sees
<1>20. Stage(rows, fw, bw, acts)
  BY <1>2, <1>19 DEF Stage, Rest, Here
<1>21. QED
  BY <1>18, <1>20 DEF ExactInv, ExactIs

\* The invariant says what the properties say.
LEMMA ExactSays ==
    ASSUME TypeInv, ExactInv
    PROVE  UndoIsExact /\ ShownIsCurrent
<1> SUFFICES ASSUME sure, ~Waiting PROVE UndoIsExact /\ ShownIsCurrent
  BY DEF UndoIsExact, ShownIsCurrent
<1>1. PICK c : Core(dtype, rows, fw, bw, index, frail, past, acts, c) /\ Sees(shown, rows)
  BY AtPeace DEF Waiting
<1>2. Len(past) > index
  <2>1. Shape(rows, fw, bw, index, frail, past, acts, c)
    BY <1>1 DEF Core
  <2>2. Len(past) = Len(fw) + 1 /\ index \in 0..Len(fw)
    BY <2>1 DEF Shape
  <2>3. Len(fw) \in Nat
    BY TypesAre, ListsSay
  <2>4. QED
    BY <2>2, <2>3
<1>3. View = past[index + 1] /\ Merged = MergedOf(rows)
  <2>1. past[index + 1] = Shown(rows)
    BY <1>1, HereIs DEF Shown
  <2>2. QED
    BY <2>1, MergedIs, TypesAre
<1>4. ShowsAll(shown, rows) => ToSet(shown) = Merged /\ IsInjective(shown)
  BY <1>3 DEF ShowsAll, Distinct, IsInjective
<1>5. QED
  BY <1>1, <1>2, <1>3, <1>4 DEF UndoIsExact, ShownIsCurrent, Sees

\* It holds always.
LEMMA InvExact == Spec => [](TypeInv /\ ExactInv)
<1>1. Init => TypeInv /\ ExactInv
  BY InitTyped, InitExact
<1>2. TypeInv /\ ExactInv /\ [Next]_vars => TypeInv' /\ ExactInv'
  BY StepTyped, StepExact
<1>3. QED
  BY <1>1, <1>2, PTL DEF Spec

\* Whatever the user does, who waits for every answer: after any sequence of
\* edits, undos and redos the server shows what it showed after the operation at
\* the position of the buffer, also when the operations were taken back by prunes,
\* PATCHes and a new creation in turn (UndoIsExact; undo-buffer.js: undo, redo,
\* patch, del, post, delete_metadata).
THEOREM UndosAreExact == Spec => []UndoIsExact
<1>1. TypeInv /\ ExactInv => UndoIsExact
  BY ExactSays
<1>2. QED
  BY <1>1, InvExact, PTL

\* For such a user the list of the page, to which every answer is applied
\* alone, is what a query of the server would return, without duplicates, unless a
\* PATCH was repeated, which the list is not told (ShownIsCurrent;
\* annotation-data.js: updateTypeLocal).
THEOREM ListIsCurrent == Spec => []ShownIsCurrent
<1>1. TypeInv /\ ExactInv => ShownIsCurrent
  BY ExactSays
<1>2. QED
  BY <1>1, InvExact, PTL

\* Such a user repeats no creation, and the creations that take a deletion back
\* are made in the project of the page.
LEMMA PlainSent == TypeInv /\ ExactInv => SendsPlain
<1> SUFFICES ASSUME TypeInv, ExactInv PROVE SendsPlain
  OBVIOUS
<1>1. ASSUME Undo, sure' PROVE Plain(Back(index))
  <2> PICK w : w = bw[index]
    OBVIOUS
  <2>1. sure /\ asked = {} /\ frail < index /\ fw[index][1].m # "POST"
        /\ \E c : Core(dtype, rows, fw, bw, index, frail, past, acts, c)
    BY <1>1, UndoFacts
  <2>2. PICK c : Core(dtype, rows, fw, bw, index, frail, past, acts, c)
    BY <2>1
  <2>3. Form(dtype, rows, fw[index], bw[index], c[index - 1], c[index]) /\ index \in DOMAIN bw
    BY <2>1, <2>2, LastIs
  <2>4. Back(index) = w
    BY <2>3 DEF Back
  <2>5. Plain(w)
    BY <2>1, <2>3, FormPlain
  <2>6. QED
    BY <2>4, <2>5
<1>2. ASSUME Redo, sure' PROVE Plain(fw[index + 1])
  <2> PICK w, o : w = fw[index + 1] /\ o = w[1]
    OBVIOUS
  <2>1. sure /\ asked = {} /\ index < Len(fw)
    BY <1>2 DEF Redo, History, Waiting
  <2>2. PICK c : Core(dtype, rows, fw, bw, index, frail, past, acts, c)
    BY <2>1, AtPeace
  <2>3. w = <<o>> /\ o.m \in {"PATCH", "DELETE"}
    BY <2>1, <2>2, NextIs
  <2>4. Plain(w)
    BY <2>3 DEF Plain
  <2>5. QED
    BY <2>4
<1>3. QED
  BY <1>1, <1>2 DEF SendsPlain

\* A user who waits for every answer can edit again when the last one has arrived,
\* unless a PATCH was repeated, after which no update follows
\* (src/ui/src/js/annotation/undo-buffer.js, annotation-page.js).
THEOREM EditingReturns == Spec => []EditingComesBack
<1>1. OwnInv /\ EditInv /\ TypeInv /\ ExactInv /\ [Next]_vars => OwnInv' /\ EditInv'
  BY PlainSent, StepOwn, StepEdit
<1>2. EditInv => EditingComesBack
  BY EditSays
<1>3. Init => OwnInv /\ EditInv
  BY InitOwn, InitEdit
<1>4. QED
  BY <1>1, <1>2, <1>3, InvExact, PTL DEF Spec
=============================================================================
