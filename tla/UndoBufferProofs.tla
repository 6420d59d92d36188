-------------------------- MODULE UndoBufferProofs --------------------------
(* Proofs about UndoBuffer, for any number of annotations, acts, requests, *)
(* failures and edits of others: what an undo prunes is the page's own,     *)
(* every variable keeps its type, and what disables and enables editing.    *)
EXTENDS UndoBuffer, TLAPS, WellFoundedInduction, FiniteSetTheorems

-----------------------------------------------------------------------------
(* Sequences of whatever elements.                                          *)

IsSeq(s) == Len(s) \in Nat /\ s = [i \in 1..Len(s) |-> s[i]]

LEMMA SeqDomain == ASSUME NEW s, IsSeq(s) PROVE DOMAIN s = 1..Len(s)
<1>1. DOMAIN [i \in 1..Len(s) |-> s[i]] = 1..Len(s)
  OBVIOUS
<1>2. QED
  BY <1>1 DEF IsSeq

LEMMA SeqOfParts ==
    ASSUME NEW s, IsSeq(s), NEW T, \A i \in DOMAIN s : s[i] \in T
    PROVE  s \in Seq(T)
  BY SeqDomain DEF IsSeq

LEMMA PartsOfSeq ==
    ASSUME NEW T, NEW s \in Seq(T)
    PROVE  IsSeq(s)
  BY DEF IsSeq

LEMMA BuiltSeq ==
    ASSUME NEW n \in Nat, NEW f, DOMAIN f = 1..n, f = [i \in 1..n |-> f[i]]
    PROVE  IsSeq(f) /\ Len(f) = n
<1> DEFINE T == {f[i] : i \in 1..n}
<1>1. f \in [1..n -> T]
  OBVIOUS
<1>2. f \in Seq(T) /\ Len(f) = n
  BY <1>1
<1>3. QED
  BY <1>2, PartsOfSeq

LEMMA Appended ==
    ASSUME NEW s, IsSeq(s), NEW e
    PROVE  LET t == Append(s, e)
           IN  /\ IsSeq(t) /\ Len(t) = Len(s) + 1 /\ DOMAIN t = 1..Len(s) + 1
               /\ \A i \in DOMAIN s : t[i] = s[i]
               /\ t[Len(s) + 1] = e
<1> DEFINE T == {s[i] : i \in DOMAIN s} \cup {e}
<1>1. s \in Seq(T) /\ e \in T
  BY SeqOfParts
<1>2. DOMAIN s = 1..Len(s)
  BY SeqDomain
<1> HIDE DEF T
<1> PICK t : t = Append(s, e)
  OBVIOUS
<1>3. t \in Seq(T)
  BY <1>1
<1>4. Len(t) = Len(s) + 1 /\ t[Len(s) + 1] = e /\ \A i \in 1..Len(s) : t[i] = s[i]
  BY <1>1
<1>5. IsSeq(t) /\ DOMAIN t = 1..Len(s) + 1
  BY <1>3, <1>4, PartsOfSeq, SeqDomain
<1>6. QED
  BY <1>2, <1>4, <1>5

LEMMA Begun ==
    ASSUME NEW s, IsSeq(s), NEW n \in 0..Len(s)
    PROVE  LET t == SubSeq(s, 1, n)
           IN  /\ IsSeq(t) /\ DOMAIN t = 1..n
               /\ \A i \in DOMAIN t : i \in DOMAIN s /\ t[i] = s[i]
<1> DEFINE T == {s[i] : i \in DOMAIN s}
<1>1. s \in Seq(T) /\ DOMAIN s = 1..Len(s) /\ Len(s) \in Nat
  BY SeqOfParts, SeqDomain DEF IsSeq
<1> HIDE DEF T
<1> PICK t : t = SubSeq(s, 1, n)
  OBVIOUS
<1>2. t \in Seq(T) /\ Len(t) = n /\ \A i \in 1..n : t[i] = s[i]
  BY <1>1
<1>3. IsSeq(t) /\ DOMAIN t = 1..n
  BY <1>2, PartsOfSeq, SeqDomain
<1>4. QED
  BY <1>1, <1>2, <1>3

LEMMA Single == ASSUME NEW e PROVE IsSeq(<<e>>) /\ DOMAIN <<e>> = {1} /\ <<e>>[1] = e
<1>1. <<e>> \in Seq({e}) /\ DOMAIN <<e>> = {1} /\ <<e>>[1] = e
  OBVIOUS
<1>2. QED
  BY <1>1, PartsOfSeq

LEMMA Double ==
    ASSUME NEW e, NEW f
    PROVE  /\ IsSeq(<<e, f>>) /\ DOMAIN <<e, f>> = {1, 2}
           /\ <<e, f>>[1] = e /\ <<e, f>>[2] = f
<1>1. /\ <<e, f>> \in Seq({e, f}) /\ DOMAIN <<e, f>> = {1, 2}
      /\ <<e, f>>[1] = e /\ <<e, f>>[2] = f
  OBVIOUS
<1>2. QED
  BY <1>1, PartsOfSeq

LEMMA NoParts == IsSeq(<<>>) /\ DOMAIN <<>> = {}
<1>1. <<>> \in Seq({}) /\ DOMAIN <<>> = {}
  OBVIOUS
<1>2. QED
  BY <1>1, PartsOfSeq

\* Among numbers up to a bound there is a greatest, and Max is one of them.
LEMMA MaxIsThere ==
    ASSUME NEW bound \in Nat, NEW S \in SUBSET (1..bound), S # {}
    PROVE  Max(S) \in S
<1> DEFINE D == {bound - n : n \in S}
           R == {d \in Nat \X Nat : d[1] < d[2]}
<1>1. IsWellFoundedOn(R, Nat)
  BY NatLessThanWellFounded DEF OpToRel
<1>2. D \subseteq Nat
  OBVIOUS
<1>3. D # {}
  OBVIOUS
<1> HIDE DEF D, R
<1>4. PICK least \in D : \A d \in D : ~(<<d, least>> \in R)
  BY <1>1, <1>2, <1>3, WFMin
<1>5. \A d \in D : ~(d < least)
  BY <1>2, <1>4 DEF R
<1>6. PICK top \in S : least = bound - top
  BY DEF D
<1>7. \A n \in S : top >= n
  <2> TAKE n \in S
  <2>1. bound - n \in D
    BY DEF D
  <2>2. QED
    BY <2>1, <1>5, <1>6
<1>8. QED
  BY <1>7 DEF Max

-----------------------------------------------------------------------------
(* The invariant: a prune, wherever it is filed or under way, addresses a   *)
(* revision that the page has made, and so does every answer to a write,    *)
(* which is where the prunes are from.                                      *)

Own(id) == id \in DOMAIN rows /\ rows[id].mine

IsOp(op) == DOMAIN op = {"m", "id", "val"}
\* A functor comes with a prune, and without a request that disables editing.
Functors == {"select_old_obj", "delete_functor"}
Paired(ops) ==
    (\E n \in DOMAIN ops : ops[n].m \in Functors) =>
        /\ \A n \in DOMAIN ops : ops[n].m \notin {"PATCH", "POST"}
        /\ \E n \in DOMAIN ops : ops[n].m = "PRUNE"
OwnOps(ops) ==
    /\ IsSeq(ops) /\ Paired(ops)
    /\ \A n \in DOMAIN ops : IsOp(ops[n]) /\ (ops[n].m = "PRUNE" => Own(ops[n].id))
OwnLists(lists) == IsSeq(lists) /\ \A i \in DOMAIN lists : OwnOps(lists[i])

IsRequest(r) ==
    DOMAIN r = {"act", "place", "k", "op", "served", "res"} /\ IsOp(r.op)
OwnRequest(r) ==
    /\ IsRequest(r)
    /\ r.op.m = "PRUNE" => Own(r.op.id)
    /\ r.k # "refetch" /\ r.res # 0 => Own(r.res)
    /\ r.k # "refetch" /\ r.op.m = "GET" => ~r.served
OwnRequests(reqs) == \A r \in reqs : OwnRequest(r)

IsRow(row) == DOMAIN row = {"elem", "val", "deleted", "pruned", "mine"}
Table ==
    /\ IsSeq(rows)
    /\ \A i \in DOMAIN rows : IsRow(rows[i])

OwnInv ==
    /\ Table /\ index \in Nat
    /\ OwnLists(fw) /\ OwnLists(bw) /\ OwnRequests(asked)
    /\ OnlyOwnPruned

\* Revisions are only added, or pruned.
Grows ==
    \A i \in DOMAIN rows : i \in DOMAIN rows' /\ rows'[i].mine = rows[i].mine

-----------------------------------------------------------------------------
(* Steps that leave the table alone.                                        *)

\* What is the page's own stays its own.
LEMMA OpsStayOwn ==
    ASSUME Grows, NEW lists, OwnLists(lists)
    PROVE  /\ IsSeq(lists)
           /\ \A i \in DOMAIN lists : /\ IsSeq(lists[i]) /\ Paired(lists[i])
                /\ \A n \in DOMAIN lists[i] : /\ IsOp(lists[i][n])
                     /\ lists[i][n].m = "PRUNE" =>
                          lists[i][n].id \in DOMAIN rows' /\ rows'[lists[i][n].id].mine
  BY DEF Grows, OwnLists, OwnOps, Own

LEMMA BuffersStay ==
    ASSUME OwnInv, Grows, fw' = fw, bw' = bw
    PROVE  OwnLists(fw)' /\ OwnLists(bw)'
<1>1. OwnLists(fw)'
  BY OpsStayOwn DEF OwnInv, OwnLists, OwnOps, Own
<1>2. OwnLists(bw)'
  BY OpsStayOwn DEF OwnInv, OwnLists, OwnOps, Own
<1>3. QED
  BY <1>1, <1>2

LEMMA RequestStays ==
    ASSUME Grows, NEW r, OwnRequest(r)
    PROVE  /\ IsRequest(r)
           /\ r.op.m = "PRUNE" => r.op.id \in DOMAIN rows' /\ rows'[r.op.id].mine
           /\ r.k # "refetch" /\ r.res # 0 => r.res \in DOMAIN rows' /\ rows'[r.res].mine
           /\ r.k # "refetch" /\ r.op.m = "GET" => ~r.served
  BY DEF Grows, OwnRequest, Own

\* A step of the page: the requests it drops are dropped, those it adds are its own.
LEMMA PageStep ==
    ASSUME OwnInv, rows' = rows, index' \in Nat, OwnLists(fw'), OwnLists(bw'),
           NEW more, OwnRequests(more), asked' \subseteq asked \cup more
    PROVE  OwnInv'
<1>1. Table' /\ OnlyOwnPruned'
  BY DEF OwnInv, Table, OnlyOwnPruned
<1>2. OwnLists(fw)' /\ OwnLists(bw)'
  BY DEF OwnLists, OwnOps, Own
<1>3. OwnRequests(asked)'
  BY DEF OwnInv, OwnRequests, OwnRequest, Own
<1>4. QED
  BY <1>1, <1>2, <1>3 DEF OwnInv

\* A request that is made: it has no answer yet.
LEMMA RequestMade ==
    ASSUME NEW act, NEW k, NEW place, NEW op, IsOp(op), op.m = "PRUNE" => Own(op.id)
    PROVE  OwnRequest(Request(act, k, place, op))
  BY DEF Request, OwnRequest, IsRequest

LEMMA OpMade ==
    ASSUME NEW method, NEW id, NEW val
    PROVE  LET op == Op(method, id, val)
           IN  IsOp(op) /\ op.m = method /\ op.id = id /\ op.val = val
  BY DEF Op, IsOp

LEMMA RefetchMade == ASSUME NEW act PROVE OwnRequest(Refetch(act))
  BY OpMade, RequestMade DEF Refetch

-----------------------------------------------------------------------------
(* What is pushed and filed.                                                *)

LEMMA KeptOwn ==
    ASSUME OwnInv, NEW lists, OwnLists(lists)
    PROVE  OwnLists(Kept(lists))
<1>1. CASE index < Len(fw) /\ index < Len(lists)
  <2> PICK t : t = SubSeq(lists, 1, index)
    OBVIOUS
  <2>1. IsSeq(lists) /\ index \in 0..Len(lists)
    BY <1>1 DEF OwnInv, OwnLists, IsSeq
  <2>2. IsSeq(t) /\ \A i \in DOMAIN t : i \in DOMAIN lists /\ t[i] = lists[i]
    BY <2>1, Begun
  <2>3. Kept(lists) = t
    BY <1>1 DEF Kept
  <2>4. QED
    BY <2>2, <2>3 DEF OwnLists
<1>2. CASE ~(index < Len(fw) /\ index < Len(lists))
  BY <1>2 DEF Kept
<1>3. QED
  BY <1>1, <1>2

LEMMA PushedOwn ==
    ASSUME NEW lists, OwnLists(lists), NEW ops, OwnOps(ops)
    PROVE  OwnLists(Append(lists, ops)) /\ Len(Append(lists, ops)) \in Nat
<1> PICK t : t = Append(lists, ops)
  OBVIOUS
<1>1. /\ IsSeq(t) /\ DOMAIN t = 1..Len(lists) + 1 /\ DOMAIN lists = 1..Len(lists)
      /\ Len(lists) \in Nat
      /\ \A i \in DOMAIN lists : t[i] = lists[i]
      /\ t[Len(lists) + 1] = ops
  BY Appended, SeqDomain DEF OwnLists, IsSeq
<1>2. OwnLists(t)
  BY <1>1 DEF OwnLists
<1>3. QED
  BY <1>1, <1>2 DEF IsSeq

LEMMA OneOp ==
    ASSUME NEW op, IsOp(op), op.m = "PRUNE" => Own(op.id), op.m \notin Functors
    PROVE  OwnOps(<<op>>)
  BY Single DEF OwnOps, Paired

\* The requests of an undo or redo.
LEMMA SentOwn ==
    ASSUME NEW k, NEW ops, OwnOps(ops)
    PROVE  OwnRequests(Sent(k, ops))
<1>1. ASSUME NEW n \in DOMAIN ops
      PROVE  OwnRequest(Request(acts + 1, k, n, ops[n]))
  BY RequestMade DEF OwnOps
<1>2. QED
  BY <1>1 DEF OwnRequests, Sent

LEMMA FiledOwn ==
    ASSUME OwnInv, NEW ops, OwnOps(ops)
    PROVE  OwnLists(Filed(ops))
<1> PICK n : n = IF Len(fw) > Len(bw) THEN Len(fw) ELSE Len(bw)
  OBVIOUS
<1> PICK f : f = Filed(ops)
  OBVIOUS
<1>1. n \in Nat /\ Len(bw) \in Nat /\ DOMAIN bw = 1..Len(bw)
  BY SeqDomain DEF OwnInv, OwnLists, IsSeq
<1>2. f = [i \in 1..n |-> IF i = Len(fw) THEN ops ELSE IF i <= Len(bw) THEN bw[i] ELSE <<>>]
  BY DEF Filed
<1>3. DOMAIN f = 1..n /\ f = [i \in 1..n |-> f[i]]
  BY <1>2
<1>4. IsSeq(f)
  BY <1>1, <1>3, BuiltSeq
<1>5. OwnOps(<<>>)
  BY NoParts DEF OwnOps, Paired
<1>6. ASSUME NEW i \in 1..n PROVE OwnOps(f[i])
  <2>1. f[i] = IF i = Len(fw) THEN ops ELSE IF i <= Len(bw) THEN bw[i] ELSE <<>>
    BY <1>2
  <2>2. i <= Len(bw) => i \in DOMAIN bw
    <3>1. i \in 1..n
      OBVIOUS
    <3>2. QED
      BY ONLY <1>1, <3>1
  <2>3. OwnLists(bw)
    BY DEF OwnInv
  <2>4. QED
    BY <1>5, <2>1, <2>2, <2>3 DEF OwnLists
<1>7. QED
  BY <1>3, <1>4, <1>6 DEF OwnLists

LEMMA ReaddressedOwn ==
    ASSUME NEW lists, OwnLists(lists), NEW old, NEW new, Own(new)
    PROVE  OwnLists(Readdressed(lists, old, new))
<1> DEFINE op(i, n) ==
        IF lists[i][n].m \in {"POST", "PATCH", "DELETE", "PRUNE"} /\ lists[i][n].id = old
        THEN [lists[i][n] EXCEPT !.id = new] ELSE lists[i][n]
<1> PICK f : f = Readdressed(lists, old, new)
  OBVIOUS
<1>1. f = [i \in DOMAIN lists |-> [n \in DOMAIN lists[i] |-> op(i, n)]]
  BY DEF Readdressed
<1>2. \A i \in DOMAIN lists : \A n \in DOMAIN lists[i] :
          /\ IsOp(op(i, n)) /\ op(i, n).m = lists[i][n].m
          /\ op(i, n).m = "PRUNE" => Own(op(i, n).id)
  BY DEF OwnLists, OwnOps, IsOp
<1> HIDE DEF op
<1>3. ASSUME NEW i \in DOMAIN lists PROVE OwnOps(f[i])
  <2>1. DOMAIN lists[i] = 1..Len(lists[i]) /\ Len(lists[i]) \in Nat
    BY SeqDomain DEF OwnLists, OwnOps, IsSeq
  <2>2. f[i] = [n \in 1..Len(lists[i]) |-> op(i, n)]
    BY <1>1, <2>1
  <2>3. DOMAIN f[i] = 1..Len(lists[i]) /\ f[i] = [n \in 1..Len(lists[i]) |-> f[i][n]]
    BY <2>2
  <2>4. IsSeq(f[i])
    BY <2>1, <2>3, BuiltSeq
  <2>5. Paired(f[i])
    BY <1>2, <2>1, <2>2 DEF OwnLists, OwnOps, Paired
  <2>6. QED
    BY <1>2, <2>1, <2>2, <2>3, <2>4, <2>5 DEF OwnOps
<1>4. DOMAIN lists = 1..Len(lists) /\ Len(lists) \in Nat
  BY SeqDomain DEF OwnLists, IsSeq
<1>5. DOMAIN f = 1..Len(lists) /\ f = [i \in 1..Len(lists) |-> f[i]]
  BY <1>1, <1>4
<1>6. IsSeq(f)
  BY <1>4, <1>5, BuiltSeq
<1>7. QED
  BY <1>3, <1>4, <1>5, <1>6 DEF OwnLists

-----------------------------------------------------------------------------
(* The steps of the page.                                                   *)

LEMMA PushForwardOwn ==
    ASSUME OwnInv, NEW op, IsOp(op), op.m = "PRUNE" => Own(op.id), op.m \notin Functors,
           PushForward(op)
    PROVE  OwnLists(fw') /\ index' \in Nat
<1>1. OwnLists(Kept(fw)) /\ OwnOps(<<op>>)
  BY KeptOwn, OneOp DEF OwnInv
<1>2. fw' = Append(Kept(fw), <<op>>) /\ index' = Len(fw')
  BY DEF PushForward
<1>3. QED
  BY <1>1, <1>2, PushedOwn

LEMMA PushBackwardOwn ==
    ASSUME OwnInv, NEW op, IsOp(op), op.m = "PRUNE" => Own(op.id), op.m \notin Functors,
           PushBackward(op)
    PROVE  OwnLists(bw')
<1>1. OwnLists(Kept(bw)) /\ OwnOps(<<op>>)
  BY KeptOwn, OneOp DEF OwnInv
<1>2. bw' = Append(Kept(bw), <<op>>)
  BY DEF PushBackward
<1>3. QED
  BY <1>1, <1>2, PushedOwn

LEMMA UserOwn ==
    ASSUME OwnInv, User
    PROVE  OwnInv'
<1>1. ASSUME NEW i, NEW kind, StartPatch(i, kind)
      PROVE  OwnInv'
  <2> PICK r : r = Request(acts + 1, kind, 1, Op("GET", shown[i].id, acts + 1))
    OBVIOUS
  <2>1. OwnRequests({r})
    BY OpMade, RequestMade DEF OwnRequests
  <2>2. /\ rows' = rows /\ index' = index /\ fw' = fw /\ bw' = bw
        /\ asked' = asked \cup {r}
    BY <1>1 DEF StartPatch, buffer
  <2>3. QED
    BY <2>1, <2>2, PageStep DEF OwnInv
<1>2. CASE StartPost
  <2> PICK op : op = Op("POST", 0, acts + 1)
    OBVIOUS
  <2> PICK r : r = Request(acts + 1, "post", 1, op)
    OBVIOUS
  <2>1. IsOp(op) /\ op.m = "POST"
    BY OpMade
  <2>2. IsOp(Stray) /\ Stray.m = "STRAY"
    BY OpMade DEF Stray
  <2>3. OwnRequests({r})
    BY <2>1, RequestMade DEF OwnRequests
  <2>4. /\ rows' = rows /\ PushForward(op) /\ PushBackward(Stray) /\ asked' = asked \cup {r}
    BY <1>2 DEF StartPost
  <2>5. OwnLists(fw') /\ index' \in Nat
    BY <2>1, <2>4, PushForwardOwn DEF Functors
  <2>6. OwnLists(bw')
    BY <2>2, <2>4, PushBackwardOwn DEF Functors
  <2>7. QED
    BY <2>3, <2>4, <2>5, <2>6, PageStep
<1>3. ASSUME NEW i, StartRemove(i)
      PROVE  OwnInv'
  <2> PICK op : op = Op("DELETE", shown[i].id, shown[i].val)
    OBVIOUS
  <2> PICK r : r = Request(acts + 1, "remove", 1, op)
    OBVIOUS
  <2>1. IsOp(op) /\ op.m = "DELETE"
    BY OpMade
  <2>2. OwnRequests({r})
    BY <2>1, RequestMade DEF OwnRequests
  <2>3. rows' = rows /\ PushForward(op) /\ bw' = Kept(bw) /\ asked' = asked \cup {r}
    BY <1>3 DEF StartRemove
  <2>4. OwnLists(fw') /\ index' \in Nat
    BY <2>1, <2>3, PushForwardOwn DEF Functors
  <2>5. OwnLists(bw')
    BY <2>3, KeptOwn DEF OwnInv
  <2>6. QED
    BY <2>2, <2>3, <2>4, <2>5, PageStep
<1>4. CASE Undo
  <2>1. rows' = rows /\ fw' = fw /\ bw' = bw /\ index' \in Nat
    BY <1>4 DEF Undo, OwnInv
  <2>2. asked' = asked \/ (index \in DOMAIN bw /\ asked' = asked \cup Sent("undo", bw[index]))
    BY <1>4 DEF Undo, UndoNothing, UndoStray, UndoOps, Perform, Filled, Back
  <2>3. OwnRequests({})
    BY DEF OwnRequests
  <2>4. index \in DOMAIN bw => OwnRequests(Sent("undo", bw[index]))
    BY SentOwn DEF OwnInv, OwnLists
  <2>5. QED
    BY <2>1, <2>2, <2>3, <2>4, PageStep DEF OwnInv
<1>5. CASE Redo
  <2>1. rows' = rows /\ fw' = fw /\ bw' = bw /\ index' \in Nat
    BY <1>5 DEF Redo, OwnInv
  <2>2. asked' = asked \cup Sent("redo", fw[index + 1]) /\ index < Len(fw)
    BY <1>5 DEF Redo, Perform
  <2>3. index + 1 \in DOMAIN fw
    BY <2>2, SeqDomain DEF OwnInv, OwnLists, IsSeq
  <2>4. OwnRequests(Sent("redo", fw[index + 1]))
    BY <2>3, SentOwn DEF OwnInv, OwnLists
  <2>5. QED
    BY <2>1, <2>2, <2>4, PageStep DEF OwnInv
<1>6. QED
  BY <1>1, <1>2, <1>3, <1>4, <1>5 DEF User

LEMMA ReadOwn ==
    ASSUME OwnInv, NEW r \in asked, PatchRead(r) \/ DelRead(r)
    PROVE  OwnInv'
<1>1. OwnRequest(r) /\ IsOp(r.op)
  BY DEF OwnInv, OwnRequests, OwnRequest, IsRequest
<1>2. rows' = rows
  BY DEF PatchRead, DelRead
<1>3. CASE asked' = asked \ {r} /\ UNCHANGED buffer
  <2>1. OwnRequests({})
    BY DEF OwnRequests
  <2>2. QED
    BY <1>2, <1>3, <2>1, PageStep DEF OwnInv, buffer
<1>4. ASSUME NEW m \in {"PATCH", "DELETE"}, NEW op, NEW back, IsOp(op), IsOp(back),
             op.m \in {"PATCH", "DELETE"}, back.m \in {"PATCH", "POST"},
             PushForward(op), PushBackward(back),
             asked' = (asked \ {r}) \cup {[r EXCEPT !.op.m = m]}
      PROVE  OwnInv'
  <2> PICK new : new = [r EXCEPT !.op.m = m]
    OBVIOUS
  <2>1. IsRequest(new) /\ new.op.m = m /\ new.k = r.k /\ new.res = r.res
    BY <1>1 DEF OwnRequest, IsRequest, IsOp
  <2>2. OwnRequests({new})
    BY <1>1, <2>1 DEF OwnRequests, OwnRequest
  <2>3. OwnLists(fw') /\ index' \in Nat
    BY <1>4, PushForwardOwn DEF Functors
  <2>4. OwnLists(bw')
    BY <1>4, PushBackwardOwn DEF Functors
  <2>5. QED
    BY <1>2, <1>4, <2>2, <2>3, <2>4, PageStep
<1>5. CASE PatchRead(r)
  <2> PICK op, back : /\ op = Op("PATCH", r.op.id, r.op.val)
                      /\ back = Op("PATCH", r.op.id, rows[r.op.id].val)
    OBVIOUS
  <2>1. IsOp(op) /\ IsOp(back) /\ op.m = "PATCH" /\ back.m = "PATCH"
    BY OpMade
  <2>2. \/ asked' = asked \ {r} /\ UNCHANGED buffer
        \/ /\ PushForward(op) /\ PushBackward(back)
           /\ asked' = (asked \ {r}) \cup {[r EXCEPT !.op.m = "PATCH"]}
    BY <1>5 DEF PatchRead
  <2>3. QED
    BY <1>3, <1>4, <2>1, <2>2
<1>6. CASE DelRead(r)
  <2> PICK op, back : /\ op = Op("DELETE", r.op.id, 0)
                      /\ back = Op("POST", 0, rows[r.op.id].val)
    OBVIOUS
  <2>1. IsOp(op) /\ IsOp(back) /\ op.m = "DELETE" /\ back.m = "POST"
    BY OpMade
  <2>2. \/ asked' = asked \ {r} /\ UNCHANGED buffer
        \/ /\ PushForward(op) /\ PushBackward(back)
           /\ asked' = (asked \ {r}) \cup {[r EXCEPT !.op.m = "DELETE"]}
    BY <1>6 DEF DelRead
  <2>3. QED
    BY <1>3, <1>4, <2>1, <2>2
<1>7. QED
  BY <1>5, <1>6

-----------------------------------------------------------------------------
(* Answers: an operation that the page takes back by a prune is filed with  *)
(* the id in the answer, which is the page's own.                           *)

LEMMA AnswersOwn ==
    ASSUME OwnInv, NEW r \in asked, r.k # "refetch", r.res # 0
    PROVE  Own(r.res)
  BY DEF OwnInv, OwnRequests, OwnRequest

\* What is under way after an answer, with or without the query that follows it.
LEMMA EmittedOwn ==
    ASSUME OwnInv, NEW act, NEW r, asked' \subseteq (asked \ {r}) \cup {Refetch(act)},
           rows' = rows, index' = index, OwnLists(fw'), OwnLists(bw')
    PROVE  OwnInv'
<1>1. OwnRequests({Refetch(act)})
  BY RefetchMade DEF OwnRequests
<1>2. asked' \subseteq asked \cup {Refetch(act)}
  OBVIOUS
<1>3. QED
  BY <1>1, <1>2, PageStep DEF OwnInv

LEMMA AnswerPatchOwn ==
    ASSUME OwnInv, NEW r \in asked, AnswerPatch(r)
    PROVE  OwnInv'
<1>1. /\ rows' = rows /\ fw' = fw /\ index' = index /\ asked' = asked \ {r}
      /\ r.k # "refetch"
  BY DEF AnswerPatch
<1>2. r.res # 0 => OwnOps(TakesBack(r))
  <2> PICK prune, again : prune = Op("PRUNE", r.res, 0) /\ again = Op("select_old_obj", 0, 0)
    OBVIOUS
  <2>1. /\ IsOp(prune) /\ prune.id = r.res /\ prune.m = "PRUNE"
        /\ IsOp(again) /\ again.m = "select_old_obj"
    BY OpMade
  <2>2. r.res # 0 => Own(prune.id)
    BY <1>1, <2>1, AnswersOwn
  <2>3. TakesBack(r) = <<prune, again>>
    BY DEF TakesBack
  <2>4. QED
    BY <2>1, <2>2, <2>3, Double DEF OwnOps, Paired
<1>3. OwnLists(bw')
  <2>1. bw' = bw \/ (r.res # 0 /\ bw' = Filed(TakesBack(r)))
    BY DEF AnswerPatch
  <2>2. QED
    BY <1>2, <2>1, FiledOwn DEF OwnInv
<1>4. OwnLists(fw') /\ asked' \subseteq (asked \ {r}) \cup {Refetch(0)}
  BY <1>1 DEF OwnInv
<1>5. QED
  BY <1>1, <1>3, <1>4, EmittedOwn

LEMMA AnswerPostOwn ==
    ASSUME OwnInv, NEW r \in asked, AnswerPost(r)
    PROVE  OwnInv'
<1>1. rows' = rows /\ fw' = fw /\ index' = index
  BY DEF AnswerPost
<1>2. asked' \subseteq (asked \ {r}) \cup {Refetch(r.act)}
  BY DEF AnswerPost, EmitPost
<1> PICK op : op = Op("DELETE", r.res, 0)
  OBVIOUS
<1> PICK i : i = Len(fw)
  OBVIOUS
<1>3. IsOp(op) /\ op.m = "DELETE"
  BY OpMade
<1>4. bw' = bw \/ (i \in DOMAIN bw /\ bw' = [bw EXCEPT ![i] = Append(bw[i], op)])
  BY DEF AnswerPost, Filled, Back
<1>5. ASSUME i \in DOMAIN bw, bw' = [bw EXCEPT ![i] = Append(bw[i], op)]
      PROVE  OwnLists(bw')
  <2> PICK ops : ops = Append(bw[i], op)
    OBVIOUS
  <2>1. OwnOps(bw[i])
    BY <1>5 DEF OwnInv, OwnLists
  <2>2. /\ IsSeq(ops) /\ DOMAIN ops = 1..Len(bw[i]) + 1 /\ DOMAIN bw[i] = 1..Len(bw[i])
        /\ Len(bw[i]) \in Nat
        /\ \A n \in DOMAIN bw[i] : ops[n] = bw[i][n]
        /\ ops[Len(bw[i]) + 1] = op
    BY <2>1, Appended, SeqDomain DEF OwnOps, IsSeq
  <2>3. OwnOps(ops)
    BY <1>3, <2>1, <2>2 DEF OwnOps, Paired, Functors
  <2>4. DOMAIN bw = 1..Len(bw) /\ Len(bw) \in Nat
    BY SeqDomain DEF OwnInv, OwnLists, IsSeq
  <2>5. /\ DOMAIN bw' = 1..Len(bw) /\ bw' = [n \in 1..Len(bw) |-> bw'[n]]
        /\ \A n \in DOMAIN bw : bw'[n] = IF n = i THEN ops ELSE bw[n]
    BY <1>5, <2>4
  <2>6. IsSeq(bw')
    BY <2>4, <2>5, BuiltSeq
  <2>7. QED
    BY <2>3, <2>4, <2>5, <2>6 DEF OwnInv, OwnLists
<1>6. OwnLists(bw') /\ OwnLists(fw')
  BY <1>1, <1>4, <1>5 DEF OwnInv
<1>7. QED
  BY <1>1, <1>2, <1>6, EmittedOwn

LEMMA AnswerRemoveOwn ==
    ASSUME OwnInv, NEW r \in asked, AnswerRemove(r)
    PROVE  OwnInv'
<1>1. /\ rows' = rows /\ fw' = fw /\ index' = index /\ asked' = asked \ {r}
      /\ r.k # "refetch"
  BY DEF AnswerRemove
<1> PICK prune, back : /\ prune = Op("PRUNE", r.res, 0)
                       /\ back = Op("delete_functor", r.op.id, r.op.val)
  OBVIOUS
<1>2. /\ IsOp(prune) /\ prune.id = r.res /\ prune.m = "PRUNE"
      /\ IsOp(back) /\ back.m = "delete_functor"
  BY OpMade
<1>3. r.res # 0 => OwnOps(<<prune, back>>)
  BY <1>1, <1>2, AnswersOwn, Double DEF OwnOps, Paired
<1>4. bw' = bw \/ (r.res # 0 /\ bw' = Append(bw, <<prune, back>>))
  BY DEF AnswerRemove
<1>5. OwnLists(bw') /\ OwnLists(fw')
  BY <1>1, <1>3, <1>4, PushedOwn DEF OwnInv
<1>6. asked' \subseteq (asked \ {r}) \cup {Refetch(0)}
  BY <1>1
<1>7. QED
  BY <1>1, <1>5, <1>6, EmittedOwn

LEMMA AnswerRecreatedOwn ==
    ASSUME OwnInv, NEW r \in asked, AnswerRecreated(r)
    PROVE  OwnInv'
<1>1. rows' = rows /\ index' = index /\ r.k # "refetch"
  BY DEF AnswerRecreated
<1>2. asked' \subseteq (asked \ {r}) \cup {Refetch(r.act)}
  BY DEF AnswerRecreated, EmitPost
<1>3. \/ fw' = fw /\ bw' = bw
      \/ r.res # 0 /\ \E old : fw' = Readdressed(fw, old, r.res) /\ bw' = Readdressed(bw, old, r.res)
  BY DEF AnswerRecreated
<1>4. OwnLists(fw') /\ OwnLists(bw')
  BY <1>1, <1>3, AnswersOwn, ReaddressedOwn DEF OwnInv
<1>5. QED
  BY <1>1, <1>2, <1>4, EmittedOwn

LEMMA PageOwn ==
    ASSUME OwnInv, NEW r \in asked, Page(r)
    PROVE  OwnInv'
<1>1. ASSUME NEW act, asked' \subseteq (asked \ {r}) \cup {Refetch(act)}, rows' = rows,
             UNCHANGED buffer
      PROVE  OwnInv'
  <2>1. fw' = fw /\ bw' = bw /\ index' = index
    BY <1>1 DEF buffer
  <2>2. OwnLists(fw') /\ OwnLists(bw')
    BY <2>1 DEF OwnInv
  <2>3. QED
    BY <1>1, <2>1, <2>2, EmittedOwn
<1>2. CASE AnswerRefetch(r) \/ AnswerQuiet(r)
  <2>1. asked' \subseteq (asked \ {r}) \cup {Refetch(0)} /\ rows' = rows /\ UNCHANGED buffer
    BY <1>2 DEF AnswerRefetch, AnswerQuiet
  <2>2. QED
    BY <1>1, <2>1
<1>3. CASE RunFunctor(r)
  <2>1. asked' \subseteq (asked \ {r}) \cup {Refetch(r.act)} /\ rows' = rows /\ UNCHANGED buffer
    BY <1>3 DEF RunFunctor, EmitPost
  <2>2. QED
    BY <1>1, <2>1
<1>4. QED
  BY <1>2, <1>3, ReadOwn, AnswerPatchOwn, AnswerPostOwn, AnswerRemoveOwn, AnswerRecreatedOwn
     DEF Page

-----------------------------------------------------------------------------
(* The table: what the page makes is its own, and it prunes only that.      *)

LEMMA TableStep ==
    ASSUME OwnInv, Grows, UNCHANGED buffer, Table', OnlyOwnPruned',
           \A q \in asked' : q \in asked \/ OwnRequest(q)'
    PROVE  OwnInv'
<1>1. fw' = fw /\ bw' = bw /\ index' = index
  BY DEF buffer
<1>2. OwnLists(fw)' /\ OwnLists(bw)'
  BY <1>1, BuffersStay
<1>3. ASSUME NEW q \in asked' PROVE OwnRequest(q)'
  <2>1. CASE q \in asked
    <3>1. OwnRequest(q)
      BY <2>1 DEF OwnInv, OwnRequests
    <3>2. QED
      BY <3>1, RequestStays DEF OwnRequest, Own
  <2>2. QED
    BY <2>1
<1>4. OwnRequests(asked)'
  BY <1>3 DEF OwnRequests
<1>5. QED
  BY <1>1, <1>2, <1>4 DEF OwnInv

\* A revision at the end of the table.
LEMMA RowAdded ==
    ASSUME OwnInv, NEW row, IsRow(row), row.pruned => row.mine, rows' = Append(rows, row)
    PROVE  /\ Grows /\ Table' /\ OnlyOwnPruned'
           /\ Len(rows) + 1 \in DOMAIN rows' /\ rows'[Len(rows) + 1] = row
<1>1. /\ IsSeq(rows') /\ DOMAIN rows' = 1..Len(rows) + 1 /\ DOMAIN rows = 1..Len(rows)
      /\ Len(rows) \in Nat
      /\ \A i \in DOMAIN rows : rows'[i] = rows[i]
      /\ rows'[Len(rows) + 1] = row
  BY Appended, SeqDomain DEF OwnInv, Table, IsSeq
<1>2. \A i \in DOMAIN rows' : i \in DOMAIN rows \/ i = Len(rows) + 1
  BY <1>1
<1>3. Table'
  BY <1>1, <1>2 DEF OwnInv, Table
<1>4. OnlyOwnPruned'
  BY <1>1, <1>2 DEF OwnInv, OnlyOwnPruned
<1>5. Grows /\ Len(rows) + 1 \in DOMAIN rows'
  BY <1>1 DEF Grows
<1>6. QED
  BY <1>1, <1>3, <1>4, <1>5

LEMMA LatestIsThere ==
    ASSUME OwnInv, NEW i \in Present
    PROVE  Latest(i) \in Present
<1> DEFINE S == {n \in Present : rows[n].elem = rows[i].elem}
<1>1. DOMAIN rows = 1..Len(rows) /\ Len(rows) \in Nat
  BY SeqDomain DEF OwnInv, Table, IsSeq
<1>2. S \in SUBSET (1..Len(rows)) /\ i \in S
  BY <1>1 DEF Present
<1> HIDE DEF S
<1>3. Max(S) \in S
  BY <1>1, <1>2, MaxIsThere
<1>4. QED
  BY <1>3 DEF S, Latest

LEMMA TableAfterOwn ==
    ASSUME OwnInv, NEW op, IsOp(op), op.m = "PRUNE" => Own(op.id),
           op.m \in {"POST", "PATCH", "DELETE", "PRUNE"}, rows' = TableAfter(op)
    PROVE  /\ Grows /\ Table' /\ OnlyOwnPruned'
           /\ Answered(op) # 0 => Answered(op) \in DOMAIN rows' /\ rows'[Answered(op)].mine
<1>1. IsSeq(rows) /\ \A i \in DOMAIN rows : IsRow(rows[i])
  BY DEF OwnInv, Table
<1>2. CASE Answered(op) = 0
  <2>1. rows' = rows
    BY <1>2 DEF TableAfter
  <2>2. QED
    BY <1>2, <2>1 DEF OwnInv, Grows, Table, OnlyOwnPruned
<1>3. ASSUME NEW row, IsRow(row), row.mine, rows' = Append(rows, row), Answered(op) = Len(rows) + 1
      PROVE  /\ Grows /\ Table' /\ OnlyOwnPruned'
             /\ Answered(op) # 0 => Answered(op) \in DOMAIN rows' /\ rows'[Answered(op)].mine
  BY <1>3, RowAdded
<1>4. CASE Answered(op) # 0 /\ op.m = "POST"
  <2> PICK row : row = [elem |-> Len(rows) + 1, val |-> op.val,
                        deleted |-> FALSE, pruned |-> FALSE, mine |-> TRUE]
    OBVIOUS
  <2>1. rows' = Append(rows, row) /\ Answered(op) = Len(rows) + 1
    BY <1>4 DEF TableAfter, Answered
  <2>2. IsRow(row) /\ row.mine
    BY DEF IsRow
  <2>3. QED
    BY <1>3, <2>1, <2>2
<1>5. CASE Answered(op) # 0 /\ op.m = "PATCH"
  <2> PICK row : row = [rows[Latest(op.id)] EXCEPT !.val = op.val, !.mine = TRUE]
    OBVIOUS
  <2>1. rows' = Append(rows, row) /\ Answered(op) = Len(rows) + 1 /\ op.id \in Present
    BY <1>5 DEF TableAfter, Answered
  <2>2. IsRow(rows[Latest(op.id)])
    BY <1>1, <2>1, LatestIsThere DEF Present
  <2>3. IsRow(row) /\ row.mine
    BY <2>2 DEF IsRow
  <2>4. QED
    BY <1>3, <2>1, <2>3
<1>6. CASE Answered(op) # 0 /\ op.m = "DELETE"
  <2> PICK row : row = [rows[op.id] EXCEPT !.deleted = TRUE, !.mine = TRUE]
    OBVIOUS
  <2>1. rows' = Append(rows, row) /\ Answered(op) = Len(rows) + 1 /\ op.id \in Present
    BY <1>6 DEF TableAfter, Answered
  <2>2. IsRow(rows[op.id])
    BY <1>1, <2>1 DEF Present
  <2>3. IsRow(row) /\ row.mine
    BY <2>2 DEF IsRow
  <2>4. QED
    BY <1>3, <2>1, <2>3
<1>7. CASE Answered(op) # 0 /\ op.m = "PRUNE"
  <2> PICK i : i = op.id
    OBVIOUS
  <2> PICK row : row = [rows[i] EXCEPT !.pruned = TRUE]
    OBVIOUS
  <2>1. rows' = [rows EXCEPT ![i] = row] /\ Answered(op) = i /\ i \in DOMAIN rows /\ rows[i].mine
    BY <1>7 DEF TableAfter, Answered, Own
  <2>2. IsRow(row) /\ row.mine = rows[i].mine
    BY <1>1, <2>1 DEF IsRow
  <2>3. DOMAIN rows = 1..Len(rows) /\ Len(rows) \in Nat
    BY <1>1, SeqDomain DEF IsSeq
  <2>4. /\ DOMAIN rows' = 1..Len(rows) /\ rows' = [n \in 1..Len(rows) |-> rows'[n]]
        /\ \A n \in DOMAIN rows : rows'[n] = IF n = i THEN row ELSE rows[n]
    BY <2>1, <2>3
  <2>5. IsSeq(rows')
    BY <2>3, <2>4, BuiltSeq
  <2>6. Grows /\ Table' /\ OnlyOwnPruned'
    BY <1>1, <2>1, <2>2, <2>3, <2>4, <2>5 DEF OwnInv, Grows, Table, OnlyOwnPruned
  <2>7. QED
    BY <2>1, <2>2, <2>3, <2>4, <2>6
<1>8. QED
  BY <1>2, <1>4, <1>5, <1>6, <1>7

LEMMA ServeOwn ==
    ASSUME OwnInv, NEW r \in asked, Serve(r)
    PROVE  OwnInv'
<1>1. OwnRequest(r) /\ IsOp(r.op)
  BY DEF OwnInv, OwnRequests, OwnRequest, IsRequest
<1> PICK res : res = Answered(r.op)
  OBVIOUS
<1> PICK new : new = [r EXCEPT !.served = TRUE, !.res = res]
  OBVIOUS
<1>2. /\ rows' = TableAfter(r.op) /\ asked' = (asked \ {r}) \cup {new} /\ UNCHANGED buffer
      /\ r.op.m \in {"POST", "PATCH", "DELETE", "PRUNE"}
  BY DEF Serve, IsWrite
<1>3. /\ Grows /\ Table' /\ OnlyOwnPruned'
      /\ res # 0 => res \in DOMAIN rows' /\ rows'[res].mine
  BY <1>1, <1>2, TableAfterOwn DEF OwnRequest
<1>4. IsRequest(new) /\ new.op = r.op /\ new.k = r.k /\ new.res = res
  BY <1>1 DEF OwnRequest, IsRequest
<1>5. r.op.m = "PRUNE" => r.op.id \in DOMAIN rows' /\ rows'[r.op.id].mine
  BY <1>1, <1>3, RequestStays
<1>6. OwnRequest(new)'
  <2>1. new.op.m # "GET"
    BY <1>2, <1>4
  <2>2. QED
    BY <1>3, <1>4, <1>5, <2>1 DEF OwnRequest, Own
<1>7. \A q \in asked' : q \in asked \/ OwnRequest(q)'
  BY <1>2, <1>6
<1>8. QED
  BY <1>2, <1>3, <1>7, TableStep

LEMMA ServerOwn ==
    ASSUME OwnInv, NEW r \in asked, Server(r)
    PROVE  OwnInv'
<1>1. OwnRequest(r)
  BY DEF OwnInv, OwnRequests
<1>2. ASSUME NEW new, IsRequest(new), new.op = r.op, new.k = r.k,
             new.k = "refetch" \/ (new.res = r.res /\ new.op.m # "GET"),
             asked' = (asked \ {r}) \cup {new}, rows' = rows, UNCHANGED buffer
      PROVE  OwnInv'
  <2>1. OwnRequests({new})
    BY <1>1, <1>2 DEF OwnRequests, OwnRequest
  <2>2. fw' = fw /\ bw' = bw /\ index' = index
    BY <1>2 DEF buffer
  <2>3. QED
    BY <1>2, <2>1, <2>2, PageStep DEF OwnInv
<1>3. CASE Fail(r)
  <2> PICK new : new = [r EXCEPT !.served = TRUE]
    OBVIOUS
  <2>1. IsRequest(new) /\ new.op = r.op /\ new.k = r.k /\ new.res = r.res
    BY <1>1 DEF OwnRequest, IsRequest
  <2>2. /\ asked' = (asked \ {r}) \cup {new} /\ rows' = rows /\ UNCHANGED buffer
        /\ r.op.m # "GET"
    BY <1>3 DEF Fail, IsWrite
  <2>3. QED
    BY <1>2, <2>1, <2>2
<1>4. CASE ServeRefetch(r)
  <2> PICK new : new = [r EXCEPT !.served = TRUE, !.res = Merged]
    OBVIOUS
  <2>1. IsRequest(new) /\ new.op = r.op /\ new.k = r.k
    BY <1>1 DEF OwnRequest, IsRequest
  <2>2. /\ asked' = (asked \ {r}) \cup {new} /\ rows' = rows /\ UNCHANGED buffer
        /\ r.k = "refetch"
    BY <1>4 DEF ServeRefetch
  <2>3. QED
    BY <1>2, <2>1, <2>2
<1>5. QED
  BY <1>3, <1>4, ServeOwn DEF Server

LEMMA OthersOwn ==
    ASSUME OwnInv, NEW i \in DOMAIN rows, OtherPatches(i)
    PROVE  OwnInv'
<1> PICK row : row = [rows[i] EXCEPT !.val = -others' - Seeds, !.mine = FALSE]
  OBVIOUS
<1>1. /\ rows' = Append(rows, row) /\ ~rows[i].pruned /\ UNCHANGED buffer /\ asked' = asked
  BY DEF OtherPatches, Current, Present
<1>2. IsRow(row) /\ row.pruned = rows[i].pruned
  BY DEF OwnInv, Table, IsRow
<1>3. Grows /\ Table' /\ OnlyOwnPruned'
  BY <1>1, <1>2, RowAdded
<1>4. QED
  BY <1>1, <1>3, TableStep

-----------------------------------------------------------------------------
LEMMA InitOwn == Init => OwnInv
<1> SUFFICES ASSUME Init PROVE OwnInv
  OBVIOUS
<1> DEFINE row(i) == [elem |-> i, val |-> -i, deleted |-> FALSE, pruned |-> FALSE, mine |-> FALSE]
<1>1. rows = [i \in 1..Seeds |-> row(i)] /\ Seeds \in Nat
  BY BoundsAssumption DEF Init
<1>2. \A i : IsRow(row(i)) /\ ~row(i).pruned
  BY DEF IsRow
<1> HIDE DEF row
<1>3. DOMAIN rows = 1..Seeds /\ rows = [i \in 1..Seeds |-> rows[i]]
  BY <1>1
<1>4. IsSeq(rows)
  BY <1>1, <1>3, BuiltSeq
<1>5. Table /\ OnlyOwnPruned
  BY <1>1, <1>2, <1>3, <1>4 DEF Table, OnlyOwnPruned
<1>6. fw = <<>> /\ bw = <<>> /\ index = 0 /\ asked = {}
  BY DEF Init
<1>7. OwnLists(fw) /\ OwnLists(bw)
  BY <1>6, NoParts DEF OwnLists
<1>8. QED
  BY <1>5, <1>6, <1>7 DEF OwnInv, OwnRequests

LEMMA StepOwn == OwnInv /\ [Next]_vars => OwnInv'
<1> SUFFICES ASSUME OwnInv, [Next]_vars PROVE OwnInv'
  OBVIOUS
<1>1. CASE rows' = rows /\ UNCHANGED buffer /\ asked' = asked
  <2>1. fw' = fw /\ bw' = bw /\ index' = index
    BY <1>1 DEF buffer
  <2>2. OwnRequests({})
    BY DEF OwnRequests
  <2>3. QED
    BY <1>1, <2>1, <2>2, PageStep DEF OwnInv
<1>2. CASE ClickLock \/ UNCHANGED vars
  BY <1>1, <1>2 DEF ClickLock, vars, buffer
<1>3. ASSUME NEW r \in asked, Page(r) \/ Server(r) PROVE OwnInv'
  BY <1>3, PageOwn, ServerOwn
<1>4. ASSUME NEW i \in DOMAIN rows, OtherPatches(i) PROVE OwnInv'
  BY <1>4, OthersOwn
<1>5. QED
  BY <1>2, <1>3, <1>4, UserOwn DEF Next

\* Whatever overlaps, fails or is filed under the wrong operation, an undo removes
\* no revision of another user or of an earlier session
\* (src/ui/src/js/annotation/undo-buffer.js).
THEOREM PrunesAreOwn == Spec => []OnlyOwnPruned
<1>1. OwnInv => OnlyOwnPruned
  BY DEF OwnInv
<1>2. QED
  BY <1>1, InitOwn, StepOwn, PTL DEF Spec

-----------------------------------------------------------------------------
(* Editing comes back.  While it is disabled for a user who waits, either a *)
(* request is under way whose answer enables it, or a PATCH was repeated    *)
(* and no answer that is still to come touches the list.                    *)

Edited == {"patch", "plain"}
Unmasks(r) ==
    \/ /\ r.k \in Edited /\ r.op.m = "PATCH"
       /\ IF r.served THEN r.res # 0 ELSE r.op.id \in Present
    \/ /\ r.k \in {"post", "redo", "undo"} /\ r.op.m = "POST"
       /\ IF r.served THEN r.res # 0 ELSE r.op.id = 0
Still(r) == r.k \notin Edited \cup {"refetch"} /\ r.op.m \notin Functors \cup {"POST"}

\* An edit is made when nothing is under way, and nothing is added to it.
Alone == \A r \in asked : r.k \in Edited => asked = {r}
Unmasking == (\E r \in asked : Unmasks(r)) \/ (silent /\ \A r \in asked : Still(r))
EditInv == sure => Alone /\ (masked => Unmasking)

LEMMA EditsAlone ==
    ASSUME Alone, NEW r \in asked, NEW new, new.k \notin Edited,
           asked' \subseteq (asked \ {r}) \cup {new}
    PROVE  Alone'
  BY DEF Alone

LEMMA Unmasked ==
    ASSUME EditInv, NEW r \in asked, NEW new, new.k \notin Edited,
           asked' \subseteq (asked \ {r}) \cup {new}, sure' => sure, ~masked'
    PROVE  EditInv'
<1>1. SUFFICES ASSUME sure' PROVE Alone'
  BY DEF EditInv
<1>2. Alone
  BY <1>1 DEF EditInv
<1>3. QED
  BY <1>2, EditsAlone

\* An answer that nobody waits for leaves what editing waits for.
LEMMA StillWaiting ==
    ASSUME EditInv, NEW r \in asked, ~Unmasks(r), NEW new, new.k \notin Edited,
           asked' = asked \ {r} \/ (asked' = (asked \ {r}) \cup {new} /\ ~Still(r)),
           rows' = rows, sure' => sure, masked' => masked,
           sure' /\ silent => silent' \/ ~Still(r)
    PROVE  EditInv'
<1>1. SUFFICES ASSUME sure' PROVE Alone' /\ (masked' => Unmasking')
  BY DEF EditInv
<1>2. Alone
  BY <1>1 DEF EditInv
<1>3. Alone'
  BY <1>2, EditsAlone
<1>4. ASSUME masked' PROVE Unmasking'
  <2>1. Unmasking
    BY <1>1, <1>4 DEF EditInv
  <2>2. ASSUME NEW q \in asked, Unmasks(q) PROVE Unmasks(q)' /\ q \in asked'
    <3>1. Present' = Present
      BY DEF Present
    <3>2. q # r
      BY <2>2
    <3>3. Unmasks(q)'
      BY <2>2, <3>1 DEF Unmasks
    <3>4. QED
      BY <3>2, <3>3
  <2>3. CASE silent /\ \A q \in asked : Still(q)
    <3>1. Still(r)
      BY <2>3
    <3>2. asked' = asked \ {r} /\ silent'
      BY <1>1, <2>3, <3>1
    <3>3. \A q \in asked' : Still(q)'
      BY <2>3, <3>2 DEF Still
    <3>4. QED
      BY <3>2, <3>3 DEF Unmasking
  <2>4. QED
    BY <2>1, <2>2, <2>3 DEF Unmasking
<1>5. QED
  BY <1>3, <1>4

LEMMA HistoryOf ==
    ASSUME NEW s, NEW p, NEW f, NEW q, History(s, p, f, q)
    PROVE  (sure' => s) /\ (sure' => (silent' <=> q))
  BY DEF History

\* A new operation.
LEMMA StartEdit ==
    ASSUME NEW r, r.op.m = "POST" => r.k = "post" /\ ~r.served /\ r.op.id = 0,
           sure' => asked = {}, asked' = asked \cup {r}, masked' => r.op.m = "POST"
    PROVE  EditInv'
<1>1. SUFFICES ASSUME sure' PROVE Alone' /\ (masked' => Unmasking')
  BY DEF EditInv
<1>2. asked' = {r}
  BY <1>1
<1>3. Alone'
  BY <1>2 DEF Alone
<1>4. ASSUME masked' PROVE Unmasks(r)'
  BY <1>4 DEF Unmasks
<1>5. QED
  BY <1>2, <1>3, <1>4 DEF Unmasking

LEMMA RequestIs ==
    ASSUME NEW act, NEW k, NEW place, NEW op
    PROVE  LET r == Request(act, k, place, op)
           IN  r.k = k /\ r.op = op /\ ~r.served
  BY DEF Request

\* Creations in the project of the page.
Plain(ops) == \A n \in DOMAIN ops : ops[n].m = "POST" => ops[n].id = 0

\* Undo and redo send what they repeat: the last event of it decides.
LEMMA PerformEdit ==
    ASSUME NEW k \in {"undo", "redo"}, NEW ops, Paired(ops), Perform(k, ops),
           sure' => asked = {} /\ (masked => silent) /\ Plain(ops),
           sure' /\ (silent \/ Has("PATCH", ops)) => silent'
    PROVE  EditInv'
<1>1. SUFFICES ASSUME sure' PROVE Alone' /\ (masked' => Unmasking')
  BY DEF EditInv
<1>2. asked' = Sent(k, ops) /\ masked' = MaskAfter(ops)
  BY <1>1 DEF Perform
<1>3. ASSUME NEW r \in asked'
      PROVE  r.k = k /\ ~r.served /\ \E n \in DOMAIN ops : r.op = ops[n]
  BY <1>2, RequestIs DEF Sent
<1>4. Alone'
  BY <1>3 DEF Alone, Edited
<1>5. ASSUME NEW n \in DOMAIN ops, ops[n].m = "POST" PROVE Unmasking'
  <2> PICK r : r = Request(acts + 1, k, n, ops[n])
    OBVIOUS
  <2>1. r \in asked'
    BY <1>2 DEF Sent
  <2>2. r.k = k /\ r.op = ops[n] /\ ~r.served
    BY RequestIs
  <2>3. Unmasks(r)'
    BY <1>1, <1>5, <2>2 DEF Unmasks, Plain
  <2>4. QED
    BY <2>1, <2>3 DEF Unmasking
<1>6. ASSUME silent', \A n \in DOMAIN ops : ops[n].m \notin Functors \cup {"POST"}
      PROVE  Unmasking'
  <2>1. \A r \in asked' : Still(r)'
    BY <1>3, <1>6 DEF Still, Edited
  <2>2. QED
    BY <1>6, <2>1 DEF Unmasking
<1>7. ASSUME masked' PROVE Unmasking'
  <2> DEFINE events == {n \in DOMAIN ops : ops[n].m \in {"PATCH", "POST", "DELETE", "PRUNE"}}
  <2>1. CASE events = {}
    <3>1. masked /\ \A n \in DOMAIN ops : ops[n].m \notin {"PATCH", "POST", "DELETE", "PRUNE"}
      BY <1>2, <1>7, <2>1 DEF MaskAfter
    <3>2. silent'
      BY <1>1, <3>1
    <3>3. \A n \in DOMAIN ops : ops[n].m \notin Functors
      BY <3>1 DEF Paired
    <3>4. QED
      BY <1>6, <3>1, <3>2, <3>3
  <2>2. CASE events # {}
    <3>1. \E n \in events : ops[n].m \in {"PATCH", "POST"}
      BY <1>2, <1>7, <2>2 DEF MaskAfter
    <3>2. PICK n \in DOMAIN ops : ops[n].m \in {"PATCH", "POST"}
      BY <3>1
    <3>3. \A j \in DOMAIN ops : ops[j].m \notin Functors
      BY <3>2 DEF Paired
    <3>4. CASE \A j \in DOMAIN ops : ops[j].m # "POST"
      <4>1. ops[n].m = "PATCH"
        BY <3>2, <3>4
      <4>2. Has("PATCH", ops)
        BY <4>1 DEF Has, ToSet
      <4>3. silent'
        BY <1>1, <4>2
      <4>4. QED
        BY <1>6, <3>3, <3>4, <4>3
    <3>5. QED
      BY <1>5, <3>4
  <2>3. QED
    BY <2>1, <2>2
<1>8. QED
  BY <1>4, <1>7

\* What an undo or a redo of a user who is sure sends.
SendsPlain ==
    /\ Undo /\ sure' => Plain(Back(index))
    /\ Redo /\ sure' => Plain(fw[index + 1])

LEMMA UserEdit ==
    ASSUME OwnInv, EditInv, SendsPlain, User
    PROVE  EditInv'
<1>1. ASSUME NEW i, NEW kind, StartPatch(i, kind) PROVE EditInv'
  <2> PICK op : op = Op("GET", shown[i].id, acts + 1)
    OBVIOUS
  <2> PICK r : r = Request(acts + 1, kind, 1, op)
    OBVIOUS
  <2>1. r.op.m = "GET"
    BY OpMade, RequestIs
  <2>2. asked' = asked \cup {r} /\ ~masked'
    BY <1>1 DEF StartPatch, Edits
  <2>3. sure' => asked = {}
    BY <1>1 DEF StartPatch, History, Waiting
  <2>4. QED
    BY <2>1, <2>2, <2>3, StartEdit
<1>2. CASE StartPost
  <2> PICK op : op = Op("POST", 0, acts + 1)
    OBVIOUS
  <2> PICK r : r = Request(acts + 1, "post", 1, op)
    OBVIOUS
  <2>1. r.op.m = "POST" /\ r.k = "post" /\ ~r.served /\ r.op.id = 0
    BY OpMade, RequestIs
  <2>2. asked' = asked \cup {r}
    BY <1>2 DEF StartPost
  <2>3. sure' => asked = {}
    BY <1>2 DEF StartPost, History, Waiting
  <2>4. QED
    BY <2>1, <2>2, <2>3, StartEdit
<1>3. ASSUME NEW i, StartRemove(i) PROVE EditInv'
  <2> PICK op : op = Op("DELETE", shown[i].id, shown[i].val)
    OBVIOUS
  <2> PICK r : r = Request(acts + 1, "remove", 1, op)
    OBVIOUS
  <2>1. r.op.m = "DELETE"
    BY OpMade, RequestIs
  <2>2. asked' = asked \cup {r} /\ ~masked'
    BY <1>3 DEF StartRemove, EmitDelete
  <2>3. sure' => asked = {}
    BY <1>3 DEF StartRemove, History, Waiting
  <2>4. QED
    BY <2>1, <2>2, <2>3, StartEdit
<1>4. ASSUME sure, asked = {} PROVE masked => silent
  BY <1>4 DEF EditInv, Unmasking
<1>5. CASE Undo
  <2> PICK back : back = Back(index)
    OBVIOUS
  <2>1. (sure' => sure /\ ~Waiting) /\ (sure' => (silent' <=> silent \/ Has("PATCH", back)))
    BY <1>5 DEF Undo, History
  <2>2. sure' => asked = {} /\ (masked => silent)
    BY <1>4, <2>1 DEF Waiting
  <2>3. CASE asked' = asked /\ (masked' => masked)
    <3>1. SUFFICES ASSUME sure' PROVE Alone' /\ (masked' => Unmasking')
      BY DEF EditInv
    <3>2. asked' = {} /\ (masked' => silent')
      BY <2>1, <2>2, <2>3, <3>1
    <3>3. QED
      BY <3>2 DEF Alone, Unmasking
  <2>4. CASE UndoOps
    <3>1. index \in DOMAIN bw /\ back = bw[index] /\ Perform("undo", back)
      BY <2>4 DEF UndoOps, Filled, Back
    <3>2. Paired(back)
      BY <3>1 DEF OwnInv, OwnLists, OwnOps
    <3>3. sure' => Plain(back)
      BY <1>5 DEF SendsPlain
    <3>4. QED
      BY <2>1, <2>2, <3>1, <3>2, <3>3, PerformEdit
  <2>5. QED
    BY <1>5, <2>3, <2>4 DEF Undo, UndoNothing, UndoStray
<1>6. CASE Redo
  <2> PICK ops : ops = fw[index + 1]
    OBVIOUS
  <2>1. (sure' => sure /\ ~Waiting) /\ (sure' => (silent' <=> silent \/ Has("PATCH", ops)))
    BY <1>6 DEF Redo, History
  <2>2. sure' => asked = {} /\ (masked => silent)
    BY <1>4, <2>1 DEF Waiting
  <2>3. Perform("redo", ops) /\ index < Len(fw)
    BY <1>6 DEF Redo
  <2>4. index + 1 \in DOMAIN fw
    BY <2>3, SeqDomain DEF OwnInv, OwnLists, IsSeq
  <2>5. Paired(ops)
    BY <2>4 DEF OwnInv, OwnLists, OwnOps
  <2>6. sure' => Plain(ops)
    BY <1>6 DEF SendsPlain
  <2>7. QED
    BY <2>1, <2>2, <2>3, <2>5, <2>6, PerformEdit
<1>7. QED
  BY <1>1, <1>2, <1>3, <1>5, <1>6 DEF User

\* A row that has been read for an edit: the edit is sent, and its answer
\* enables editing, since the row was there.
LEMMA PatchReadEdit ==
    ASSUME OwnInv, EditInv, NEW r \in asked, PatchRead(r)
    PROVE  EditInv'
<1>1. r.k \in Edited /\ r.op.m = "GET" /\ OwnRequest(r)
  BY DEF PatchRead, Edited, OwnInv, OwnRequests
<1>2. ~r.served /\ IsRequest(r) /\ IsOp(r.op)
  BY <1>1 DEF OwnRequest, IsRequest, Edited
<1>3. sure' => sure
  BY DEF PatchRead, History, history
<1>4. SUFFICES ASSUME sure' PROVE Alone' /\ (masked' => Unmasking')
  BY DEF EditInv
<1>5. asked = {r}
  BY <1>1, <1>3, <1>4 DEF EditInv, Alone
<1>6. CASE r.op.id \notin Present
  <2>1. asked' = {} /\ masked' = masked
    BY <1>5, <1>6 DEF PatchRead
  <2>2. ~masked
    BY <1>1, <1>3, <1>4, <1>5 DEF EditInv, Unmasking, Unmasks, Still, Edited
  <2>3. QED
    BY <2>1, <2>2 DEF Alone
<1>7. CASE r.op.id \in Present
  <2> PICK new : new = [r EXCEPT !.op.m = "PATCH"]
    OBVIOUS
  <2>1. new.k = r.k /\ new.op.m = "PATCH" /\ new.op.id = r.op.id /\ ~new.served
    BY <1>2 DEF IsRequest, IsOp
  <2>2. asked' = {new} /\ Present' = Present
    BY <1>5, <1>7 DEF PatchRead, Present
  <2>3. Unmasks(new)'
    BY <1>1, <1>7, <2>1, <2>2 DEF Unmasks
  <2>4. QED
    BY <2>2, <2>3 DEF Alone, Unmasking
<1>8. QED
  BY <1>6, <1>7

LEMMA RefetchIs == ASSUME NEW act PROVE Refetch(act).k \notin Edited
  BY RequestIs DEF Refetch, Edited

LEMMA PageEdit ==
    ASSUME OwnInv, EditInv, NEW r \in asked, Page(r)
    PROVE  EditInv'
<1> PICK again : again = Refetch(r.act)
  OBVIOUS
<1>1. again.k \notin Edited
  BY RefetchIs
<1>2. CASE DelRead(r)
  <2>1. r.k = "del" /\ IsRequest(r) /\ ~Unmasks(r) /\ rows' = rows
    BY <1>2 DEF DelRead, OwnInv, OwnRequests, OwnRequest, Unmasks, Edited
  <2>2. sure' => sure
    BY <1>2 DEF DelRead, History, history
  <2>3. CASE r.op.id \notin Present
    <3>1. asked' = asked \ {r} /\ masked' = masked /\ silent' = silent
      BY <1>2, <2>3 DEF DelRead, history
    <3>2. QED
      BY <1>1, <2>1, <2>2, <3>1, StillWaiting
  <2>4. CASE r.op.id \in Present
    <3> PICK new : new = [r EXCEPT !.op.m = "DELETE"]
      OBVIOUS
    <3>1. asked' = (asked \ {r}) \cup {new} /\ ~masked'
      BY <1>2, <2>4 DEF DelRead, EmitDelete
    <3>2. new.k \notin Edited
      BY <2>1 DEF IsRequest, Edited
    <3>3. QED
      BY <2>2, <3>1, <3>2, Unmasked
  <2>5. QED
    BY <2>3, <2>4
<1>3. CASE AnswerRefetch(r)
  <2>1. /\ r.k = "refetch" /\ asked' = asked \ {r} /\ rows' = rows /\ masked' = masked
        /\ sure' => sure
    BY <1>3 DEF AnswerRefetch, History
  <2>2. ~Unmasks(r) /\ ~Still(r)
    BY <2>1 DEF Unmasks, Still, Edited
  <2>3. QED
    BY <1>1, <2>1, <2>2, StillWaiting
<1>4. ASSUME UNCHANGED <<rows, history>>,
             ~masked', asked' \subseteq (asked \ {r}) \cup {again}
      PROVE  EditInv'
  <2>1. sure' => sure
    BY <1>4 DEF history
  <2>2. QED
    BY <1>1, <1>4, <2>1, Unmasked
<1>5. ASSUME UNCHANGED <<rows, masked, history>>, ~Unmasks(r),
             asked' = asked \ {r} \/ (asked' = (asked \ {r}) \cup {again} /\ ~Still(r))
      PROVE  EditInv'
  <2>1. /\ sure' => sure
        /\ masked' => masked
        /\ silent => silent'
    BY <1>5 DEF history
  <2>2. QED
    BY <1>1, <1>5, <2>1, StillWaiting
<1>6. CASE AnswerPatch(r)
  <2>1. UNCHANGED <<rows, history>> /\ asked' = asked \ {r}
    BY <1>6 DEF AnswerPatch
  <2>2. CASE r.res # 0
    <3>1. ~masked'
      BY <1>6, <2>2 DEF AnswerPatch, EmitPatch
    <3>2. QED
      BY <1>4, <2>1, <3>1
  <2>3. CASE r.res = 0
    <3>1. UNCHANGED masked /\ ~Unmasks(r)
      BY <1>6, <2>3 DEF AnswerPatch, Unmasks
    <3>2. QED
      BY <1>5, <2>1, <3>1
  <2>4. QED
    BY <2>2, <2>3
<1>7. CASE AnswerPost(r) \/ AnswerRecreated(r)
  <2>1. UNCHANGED <<rows, history>> /\ r.served /\ r.k \in {"post", "redo", "undo"}
    BY <1>7 DEF AnswerPost, AnswerRecreated
  <2>2. CASE r.res # 0
    <3>1. ~masked' /\ asked' \subseteq (asked \ {r}) \cup {again}
      BY <1>7, <2>2 DEF AnswerPost, AnswerRecreated, EmitPost
    <3>2. QED
      BY <1>4, <2>1, <3>1
  <2>3. CASE r.res = 0
    <3>1. UNCHANGED masked /\ asked' = asked \ {r} /\ ~Unmasks(r)
      BY <1>7, <2>1, <2>3 DEF AnswerPost, AnswerRecreated, Unmasks, Edited
    <3>2. QED
      BY <1>5, <2>1, <3>1
  <2>4. QED
    BY <2>2, <2>3
<1>8. CASE AnswerRemove(r)
  <2>1. UNCHANGED <<rows, history>> /\ asked' = asked \ {r} /\ ~Unmasks(r)
    BY <1>8 DEF AnswerRemove, Unmasks, Edited
  <2>2. ~masked' \/ UNCHANGED masked
    BY <1>8 DEF AnswerRemove, EmitDelete
  <2>3. QED
    BY <1>4, <1>5, <2>1, <2>2
<1>9. CASE AnswerQuiet(r)
  <2>1. UNCHANGED <<rows, masked, history>> /\ asked' = asked \ {r} /\ ~Unmasks(r)
    BY <1>9 DEF AnswerQuiet, Unmasks, Edited
  <2>2. QED
    BY <1>5, <2>1
<1>10. CASE RunFunctor(r)
  <2>1. UNCHANGED <<rows, history>> /\ r.op.m \in Functors
    BY <1>10 DEF RunFunctor, Functors
  <2>2. ~Unmasks(r) /\ ~Still(r)
    BY <2>1 DEF Unmasks, Still, Functors
  <2>3. \/ ~masked' /\ asked' \subseteq (asked \ {r}) \cup {again}
        \/ UNCHANGED masked /\ asked' = (asked \ {r}) \cup {again}
    BY <1>10 DEF RunFunctor, EmitPost
  <2>4. QED
    BY <1>4, <1>5, <2>1, <2>2, <2>3
<1>11. QED
  BY <1>2, <1>3, <1>6, <1>7, <1>8, <1>9, <1>10, PatchReadEdit DEF Page

LEMMA ServeEdit ==
    ASSUME OwnInv, EditInv, NEW r \in asked, Serve(r)
    PROVE  EditInv'
<1>1. IsRequest(r) /\ Len(rows) \in Nat
  BY DEF OwnInv, OwnRequests, OwnRequest, Table, IsSeq
<1> PICK new : new = [r EXCEPT !.served = TRUE, !.res = Answered(r.op)]
  OBVIOUS
<1>2. new.k = r.k /\ new.op = r.op /\ new.served /\ new.res = Answered(r.op)
  BY <1>1 DEF IsRequest
<1>3. /\ asked' = (asked \ {r}) \cup {new} /\ masked' = masked
      /\ sure' = sure /\ silent' = silent /\ ~r.served
  BY DEF Serve, history
<1>4. SUFFICES ASSUME sure' PROVE Alone' /\ (masked' => Unmasking')
  BY DEF EditInv
<1>5. Alone /\ (masked => Unmasking)
  BY <1>3, <1>4 DEF EditInv
<1>6. Alone'
  BY <1>2, <1>3, <1>5 DEF Alone
<1>7. ASSUME NEW q \in asked, Unmasks(q) PROVE Unmasking'
  <2>1. CASE q = r
    <3>1. new.res # 0
      BY <1>1, <1>2, <1>3, <1>7, <2>1 DEF Unmasks, Answered
    <3>2. Unmasks(new)'
      BY <1>2, <1>7, <2>1, <3>1 DEF Unmasks
    <3>3. QED
      BY <1>3, <3>2 DEF Unmasking
  <2>2. CASE q # r
    <3>1. q.k \notin Edited /\ q \in asked'
      BY <1>3, <1>5, <2>2 DEF Alone
    <3>2. Unmasks(q)'
      BY <1>7, <3>1 DEF Unmasks
    <3>3. QED
      BY <3>1, <3>2 DEF Unmasking
  <2>3. QED
    BY <2>1, <2>2
<1>8. ASSUME silent, \A q \in asked : Still(q) PROVE Unmasking'
  <2>1. \A q \in asked' : Still(q)'
    BY <1>2, <1>3, <1>8 DEF Still
  <2>2. QED
    BY <1>3, <1>8, <2>1 DEF Unmasking
<1>9. QED
  BY <1>3, <1>5, <1>6, <1>7, <1>8 DEF Unmasking

\* That they send these follows from what the operations are: see UndoExactProofs.
LEMMA StepEdit == OwnInv /\ EditInv /\ SendsPlain /\ [Next]_vars => EditInv'
<1> SUFFICES ASSUME OwnInv, EditInv, SendsPlain, [Next]_vars PROVE EditInv'
  OBVIOUS
<1>1. CASE UNCHANGED <<rows, asked, history>> /\ (masked' => masked)
  <2>1. sure' = sure /\ silent' = silent /\ asked' = asked /\ Present' = Present
    BY <1>1 DEF history, Present
  <2>2. \A r : (Unmasks(r) => Unmasks(r)') /\ (Still(r) => Still(r)')
    BY <2>1 DEF Unmasks, Still
  <2>3. (Alone => Alone') /\ (Unmasking => Unmasking')
    BY <2>1, <2>2 DEF Alone, Unmasking
  <2>4. QED
    BY <1>1, <2>1, <2>3 DEF EditInv
<1>2. CASE ClickLock \/ UNCHANGED vars
  BY <1>1, <1>2 DEF ClickLock, vars
<1>3. ASSUME NEW r \in asked, Page(r) \/ Server(r) PROVE EditInv'
  <2>1. CASE Fail(r)
    BY <2>1 DEF Fail, History, EditInv
  <2>2. CASE ServeRefetch(r)
    <3> PICK new : new = [r EXCEPT !.served = TRUE, !.res = Merged]
      OBVIOUS
    <3>1. /\ r.k = "refetch" /\ asked' = (asked \ {r}) \cup {new}
          /\ UNCHANGED <<rows, masked, history>>
      BY <2>2 DEF ServeRefetch
    <3>2. IsRequest(r) /\ ~Unmasks(r) /\ ~Still(r)
      BY <3>1 DEF OwnInv, OwnRequests, OwnRequest, Unmasks, Still, Edited
    <3>3. new.k \notin Edited
      BY <3>1, <3>2 DEF IsRequest, Edited
    <3>4. rows' = rows /\ (sure' => sure) /\ (masked' => masked)
      BY <3>1 DEF history
    <3>5. QED
      BY <3>1, <3>2, <3>3, <3>4, StillWaiting
  <2>3. QED
    BY <1>3, <2>1, <2>2, PageEdit, ServeEdit DEF Server
<1>4. ASSUME NEW i \in DOMAIN rows, OtherPatches(i) PROVE EditInv'
  BY <1>4 DEF OtherPatches, History, EditInv
<1>5. QED
  BY <1>2, <1>3, <1>4, UserEdit DEF Next

LEMMA EditSays == EditInv => EditingComesBack
  BY DEF EditInv, Unmasking, EditingComesBack, Waiting

LEMMA InitEdit == Init => EditInv
  BY DEF Init, EditInv, Alone

-----------------------------------------------------------------------------
(* The lists of the page, by place; by id; after an undo or a redo.          *)

LessPairs == {d \in Nat \X Nat : d[1] < d[2]}

\* A set of numbers that has any has a least one.
LEMMA LeastOf ==
    ASSUME NEW S \in SUBSET Nat, S # {}
    PROVE  \E n \in S : \A k \in S : n <= k
<1>1. IsWellFoundedOn(LessPairs, Nat)
  BY NatLessThanWellFounded DEF OpToRel, LessPairs
<1>2. PICK n \in S : \A k \in S : ~(<<k, n>> \in LessPairs)
  BY <1>1, WFMin
<1>3. ASSUME NEW k \in S PROVE n <= k
  <2>1. k \in Nat /\ n \in Nat
    OBVIOUS
  <2>2. ~(k < n)
    BY <1>2, <2>1 DEF LessPairs
  <2>3. QED
    BY <2>1, <2>2
<1>4. QED
  BY <1>3

Entry == [id : Nat, val : Int]

LEMMA PlaceIs ==
    ASSUME NEW list \in Seq(Entry), NEW id
    PROVE  \/ Place(list, id) = 0 /\ \A i \in 1..Len(list) : list[i].id # id
           \/ Place(list, id) \in 1..Len(list) /\ list[Place(list, id)].id = id
<1> DEFINE I == {i \in 1..Len(list) : list[i].id = id}
<1>1. Place(list, id) = IF I # {} THEN Min(I) ELSE 0
  BY DEF Place, SelectInSeq
<1>2. I \in SUBSET Nat
  OBVIOUS
<1>3. I # {} => Min(I) \in I
  <2>1. ASSUME I # {} PROVE \E n \in I : \A k \in I : n <= k
    BY <1>2, <2>1, LeastOf
  <2>2. QED
    BY <2>1 DEF Min
<1>4. QED
  BY <1>1, <1>3

\* Ids that do not repeat.
Distinct(list) == \A i, j \in DOMAIN list : list[i].id = list[j].id => i = j

LEMMA RemoveAtIs ==
    ASSUME NEW list \in Seq(Entry), NEW p \in 1..Len(list)
    PROVE  LET t == RemoveAt(list, p)
           IN  /\ t \in Seq(Entry) /\ Len(t) = Len(list) - 1
               /\ \A i \in 1..Len(list) - 1 : t[i] = list[IF i < p THEN i ELSE i + 1]
<1> PICK a, b : a = SubSeq(list, 1, p - 1) /\ b = SubSeq(list, p + 1, Len(list))
  OBVIOUS
<1> PICK n \in Nat : n = Len(list)
  OBVIOUS
<1>0. n \in Nat /\ p \in 1..n /\ n = Len(list)
  OBVIOUS
<1>1. a \in Seq(Entry) /\ Len(a) = p - 1 /\ \A i \in 1..p - 1 : a[i] = list[i]
  OBVIOUS
<1>2. b \in Seq(Entry) /\ Len(b) = n - p /\ \A i \in 1..n - p : b[i] = list[i + p]
  OBVIOUS
<1> PICK t : t = a \o b
  OBVIOUS
<1>3. /\ t \in Seq(Entry) /\ Len(t) = Len(a) + Len(b)
      /\ \A i \in 1..Len(a) + Len(b) : t[i] = IF i <= Len(a) THEN a[i] ELSE b[i - Len(a)]
  <2>1. a \in Seq(Entry) /\ b \in Seq(Entry) /\ t = a \o b
    BY <1>1, <1>2
  <2>2. QED
    BY ONLY <2>1
<1>4. RemoveAt(list, p) = t
  BY DEF RemoveAt
<1>5. Len(t) = n - 1
  BY ONLY <1>0, <1>1, <1>2, <1>3
<1>6. ASSUME NEW i \in 1..n - 1 PROVE t[i] = list[IF i < p THEN i ELSE i + 1]
  <2>0. i \in 1..n - 1
    OBVIOUS
  <2>1. CASE i < p
    <3>1. i \in 1..p - 1 /\ i \in 1..Len(a) + Len(b) /\ i <= Len(a)
      BY ONLY <1>0, <1>1, <1>2, <2>0, <2>1
    <3>2. QED
      BY <1>1, <1>3, <2>1, <3>1
  <2>2. CASE ~(i < p)
    <3>1. /\ i - (p - 1) \in 1..n - p /\ i \in 1..Len(a) + Len(b) /\ ~(i <= Len(a))
          /\ i - Len(a) = i - (p - 1) /\ i - (p - 1) + p = i + 1
      BY ONLY <1>0, <1>1, <1>2, <2>0, <2>2
    <3>2. QED
      BY <1>2, <1>3, <2>2, <3>1
  <2>3. QED
    BY <2>1, <2>2
<1>7. QED
  BY <1>3, <1>4, <1>5, <1>6

LEMMA WithoutIs ==
    ASSUME NEW list \in Seq(Entry), NEW id
    PROVE  LET t == WithoutEntry(list, id)
           IN  /\ t \in Seq(Entry)
               /\ Distinct(list) => /\ Distinct(t)
                                    /\ ToSet(t) = {x \in ToSet(list) : x.id # id}
<1> PICK t : t = WithoutEntry(list, id)
  OBVIOUS
<1> PICK p : p = Place(list, id)
  OBVIOUS
<1> PICK n \in Nat : n = Len(list)
  OBVIOUS
<1>7. \/ p = 0 /\ \A i \in 1..n : list[i].id # id
      \/ p \in 1..n /\ list[p].id = id
  BY PlaceIs
<1>1. CASE p = 0
  <2>0. \A i \in 1..n : list[i].id # id
    BY <1>1, <1>7
  <2>1. t = list
    BY <1>1 DEF WithoutEntry
  <2>2. QED
    BY <2>0, <2>1 DEF ToSet
<1>2. CASE p # 0
  <2>1. p \in 1..n /\ list[p].id = id
    BY <1>2, PlaceIs
  <2>2. /\ t \in Seq(Entry) /\ Len(t) = n - 1
        /\ \A i \in 1..n - 1 : t[i] = list[IF i < p THEN i ELSE i + 1]
    BY <1>2, <2>1, RemoveAtIs DEF WithoutEntry
  <2>3. DOMAIN t = 1..n - 1 /\ DOMAIN list = 1..n
    BY <2>2
  <2>4. ASSUME Distinct(list) PROVE Distinct(t)
    <3> SUFFICES ASSUME NEW i \in 1..n - 1, NEW j \in 1..n - 1, t[i].id = t[j].id PROVE i = j
      BY <2>3 DEF Distinct
    <3> PICK k : k = IF i < p THEN i ELSE i + 1
      OBVIOUS
    <3> PICK m : m = IF j < p THEN j ELSE j + 1
      OBVIOUS
    <3>1. k \in 1..n /\ m \in 1..n /\ t[i] = list[k] /\ t[j] = list[m]
      BY <2>1, <2>2
    <3>2. k = m
      BY <2>3, <2>4, <3>1 DEF Distinct
    <3>3. QED
      BY <2>1, <3>2
  <2>5. ASSUME Distinct(list) PROVE ToSet(t) = {x \in ToSet(list) : x.id # id}
    <3>1. ASSUME NEW i \in 1..n - 1 PROVE t[i] \in ToSet(list) /\ t[i].id # id
      <4> PICK k : k = IF i < p THEN i ELSE i + 1
        OBVIOUS
      <4>1. k \in 1..n /\ k # p /\ t[i] = list[k]
        BY <2>1, <2>2
      <4>2. QED
        BY <2>1, <2>3, <2>5, <4>1 DEF Distinct, ToSet
    <3>2. ASSUME NEW k \in 1..n, list[k].id # id PROVE list[k] \in ToSet(t)
      <4> PICK i : i = IF k < p THEN k ELSE k - 1
        OBVIOUS
      <4>1. k # p
        BY <2>1, <3>2
      <4>2. i \in 1..n - 1 /\ k = IF i < p THEN i ELSE i + 1
        BY <2>1, <4>1
      <4>3. t[i] = list[k]
        BY <2>2, <4>2
      <4>4. QED
        BY <2>3, <4>2, <4>3 DEF ToSet
    <3>3. QED
      BY <2>3, <3>1, <3>2 DEF ToSet
  <2>6. QED
    BY <2>2, <2>4, <2>5
<1>3. QED
  BY <1>1, <1>2

LEMMA PatchedIs ==
    ASSUME NEW list \in Seq(Entry), NEW id, NEW entry \in Entry
    PROVE  LET t == WithPatch(list, id, entry)
           IN  /\ t \in Seq(Entry)
               /\ Distinct(list) /\ (\A x \in ToSet(list) : x.id # entry.id) =>
                      /\ Distinct(t)
                      /\ (\E x \in ToSet(list) : x.id = id) =>
                             ToSet(t) = {x \in ToSet(list) : x.id # id} \cup {entry}
<1> PICK t : t = WithPatch(list, id, entry)
  OBVIOUS
<1> PICK p : p = Place(list, id)
  OBVIOUS
<1> PICK n \in Nat : n = Len(list)
  OBVIOUS
<1>0. DOMAIN list = 1..n
  OBVIOUS
<1>7. \/ p = 0 /\ \A i \in 1..n : list[i].id # id
      \/ p \in 1..n /\ list[p].id = id
  BY PlaceIs
<1>1. CASE p = 0
  <2>0. \A i \in 1..n : list[i].id # id
    BY <1>1, <1>7
  <2>1. t = list
    BY <1>1 DEF WithPatch
  <2>2. QED
    BY <1>0, <2>0, <2>1 DEF ToSet
<1>2. CASE p # 0
  <2>1. p \in 1..n /\ list[p].id = id
    BY <1>2, PlaceIs
  <2>2. t = [list EXCEPT ![p] = entry]
    BY <1>2 DEF WithPatch
  <2>3. /\ t \in Seq(Entry) /\ DOMAIN t = 1..n
        /\ \A i \in 1..n : t[i] = IF i = p THEN entry ELSE list[i]
    BY <2>1, <2>2
  <2>4. ASSUME Distinct(list), \A x \in ToSet(list) : x.id # entry.id
        PROVE  Distinct(t) /\ ToSet(t) = {x \in ToSet(list) : x.id # id} \cup {entry}
    <3>1. \A i \in 1..n : list[i].id # entry.id
      BY <1>0, <2>4 DEF ToSet
    <3>2. Distinct(t)
      BY <1>0, <2>3, <2>4, <3>1 DEF Distinct
    <3>3. \A i \in 1..n : i # p => list[i].id # id
      BY <1>0, <2>1, <2>4 DEF Distinct
    <3>4. ToSet(t) \subseteq {x \in ToSet(list) : x.id # id} \cup {entry}
      BY <1>0, <2>3, <3>3 DEF ToSet
    <3>5. {x \in ToSet(list) : x.id # id} \cup {entry} \subseteq ToSet(t)
      BY <1>0, <2>1, <2>3 DEF ToSet
    <3>6. QED
      BY <3>2, <3>4, <3>5
  <2>5. QED
    BY <2>3, <2>4
<1>3. QED
  BY <1>1, <1>2

LEMMA AddedIs ==
    ASSUME NEW list \in Seq(Entry), NEW entry \in Entry
    PROVE  LET t == WithEntry(list, entry)
           IN  /\ t \in Seq(Entry) /\ ToSet(t) = ToSet(list) \cup {entry}
               /\ Distinct(list) /\ (\A x \in ToSet(list) : x.id # entry.id) => Distinct(t)
<1> PICK n \in Nat : n = Len(list)
  OBVIOUS
<1> PICK t : t = Append(list, entry)
  OBVIOUS
<1>1. /\ t \in Seq(Entry) /\ DOMAIN t = 1..n + 1 /\ DOMAIN list = 1..n
      /\ \A i \in 1..n : t[i] = list[i]
      /\ t[n + 1] = entry
  OBVIOUS
<1>2. \A i \in 1..n + 1 : i \in 1..n \/ i = n + 1
  OBVIOUS
<1>3. ToSet(t) = ToSet(list) \cup {entry}
  BY <1>1, <1>2 DEF ToSet
<1>4. Distinct(list) /\ (\A x \in ToSet(list) : x.id # entry.id) => Distinct(t)
  BY <1>1, <1>2 DEF Distinct, ToSet
<1>5. QED
  BY <1>1, <1>3, <1>4 DEF WithEntry

-----------------------------------------------------------------------------
(* Lists by id.                                                              *)

\* Entries whose ids differ, and have a bound.
Keyed(S) ==
    /\ S \in SUBSET Entry /\ IsFiniteSet(S)
    /\ \A x, y \in S : x.id = y.id => x = y
    /\ \E b \in Nat : \A x \in S : x.id <= b

Before(S, x) == {y \in S : y.id < x.id}
Rank(S, x) == Cardinality(Before(S, x))

LEMMA RankIs ==
    ASSUME NEW S, Keyed(S), NEW x \in S
    PROVE  /\ IsFiniteSet(Before(S, x)) /\ Rank(S, x) \in 0..Cardinality(S) - 1
           /\ Cardinality(S) \in Nat
<1>1. Before(S, x) \in SUBSET S /\ x \in Entry /\ x \notin Before(S, x)
  BY DEF Before, Keyed, Entry
<1>2. /\ IsFiniteSet(S) /\ Cardinality(S) \in Nat /\ IsFiniteSet(S \ {x})
      /\ Cardinality(S \ {x}) = Cardinality(S) - 1
  BY FS_CardinalityType, FS_RemoveElement DEF Keyed
<1>3. Before(S, x) \in SUBSET (S \ {x})
  BY <1>1
<1>4. IsFiniteSet(Before(S, x)) /\ Rank(S, x) <= Cardinality(S \ {x})
  BY <1>2, <1>3, FS_Subset DEF Rank
<1>5. Rank(S, x) \in Nat /\ Cardinality(S \ {x}) \in Nat
  BY <1>2, <1>4, FS_CardinalityType DEF Rank
<1>6. QED
  BY <1>2, <1>4, <1>5

LEMMA RankDiffers ==
    ASSUME NEW S, Keyed(S), NEW x \in S, NEW y \in S, x.id < y.id
    PROVE  Rank(S, x) < Rank(S, y)
<1>1. IsFiniteSet(Before(S, x)) /\ IsFiniteSet(Before(S, y)) /\ Rank(S, x) \in Nat
  BY RankIs
<1>2. x \notin Before(S, x) /\ x.id \in Nat /\ y.id \in Nat
  BY DEF Before, Keyed, Entry
<1> PICK T : T = Before(S, x) \cup {x}
  OBVIOUS
<1>3. IsFiniteSet(T) /\ Cardinality(T) = Rank(S, x) + 1
  BY <1>1, <1>2, FS_AddElement DEF Rank
<1>4. T \in SUBSET Before(S, y)
  <2>1. \A z \in S : z.id \in Nat
    BY DEF Keyed, Entry
  <2>2. \A z \in S : z.id < x.id => z.id < y.id
    BY <1>2, <2>1
  <2>3. QED
    BY <2>2 DEF Before
<1>5. Cardinality(T) <= Rank(S, y)
  BY <1>1, <1>4, FS_Subset DEF Rank
<1>6. Rank(S, y) \in Nat
  BY <1>1, FS_CardinalityType DEF Rank
<1>7. QED
  BY <1>1, <1>3, <1>5, <1>6

\* Every place has an entry: none is missing for the least bound.
LEMMA RanksAre ==
    ASSUME NEW S, Keyed(S), NEW n \in 0..Cardinality(S) - 1
    PROVE  \E x \in S : Rank(S, x) = n
<1> DEFINE Bounded(T, b) == \A x \in T : x.id <= b
           Full(T) == \A m \in 0..Cardinality(T) - 1 : \E x \in T : Rank(T, x) = m
           Bad == {b \in Nat : \E T : Keyed(T) /\ Bounded(T, b) /\ ~Full(T)}
<1>1. SUFFICES Bad = {}
  <2>1. PICK b \in Nat : Bounded(S, b)
    BY DEF Keyed
  <2>2. Full(S)
    BY <1>1, <2>1
  <2>3. QED
    BY <2>2
<1>2. SUFFICES ASSUME Bad # {} PROVE FALSE
  OBVIOUS
<1>3. Bad \in SUBSET Nat
  OBVIOUS
<1> HIDE DEF Bad
<1>4. PICK b \in Bad : \A d \in Bad : b <= d
  BY <1>2, <1>3, LeastOf
<1>5. PICK T : Keyed(T) /\ Bounded(T, b) /\ ~Full(T)
  BY <1>4 DEF Bad
<1>6. b \in Nat /\ \A x \in T : x.id \in Nat
  BY <1>3, <1>4, <1>5 DEF Keyed, Entry
<1>7. ASSUME NEW U, Keyed(U), \A x \in U : x.id < b PROVE Full(U)
  <2>0. \A x \in U : x.id \in Nat
    BY <1>7 DEF Keyed, Entry
  <2>1. CASE b = 0
    <3>1. U = {}
      BY <1>7, <2>0, <2>1
    <3>2. Cardinality(U) = 0
      BY <3>1, FS_EmptySet
    <3>3. QED
      BY <3>2
  <2>2. CASE b # 0
    <3>1. b - 1 \in Nat /\ Bounded(U, b - 1)
      BY <1>6, <1>7, <2>0, <2>2
    <3>2. b - 1 \notin Bad
      BY <1>4, <1>6
    <3>3. QED
      BY <1>7, <3>1, <3>2 DEF Bad
  <2>3. QED
    BY <2>1, <2>2
<1>8. PICK x \in T : x.id = b
  <2>1. ASSUME \A x \in T : x.id # b PROVE FALSE
    <3>1. \A x \in T : x.id < b
      BY <1>5, <1>6, <2>1
    <3>2. Full(T)
      BY <1>5, <1>7, <3>1
    <3>3. QED
      BY <1>5, <3>2
  <2>2. QED
    BY <2>1
<1> PICK U : U = T \ {x}
  OBVIOUS
<1>9. \A y \in U : y.id < b
  BY <1>5, <1>6, <1>8 DEF Keyed
<1>10. Keyed(U) /\ Cardinality(U) = Cardinality(T) - 1 /\ Cardinality(U) \in Nat
  <2>1. IsFiniteSet(U) /\ Cardinality(U) = Cardinality(T) - 1
    BY <1>5, FS_RemoveElement DEF Keyed
  <2>2. QED
    BY <1>5, <2>1, FS_CardinalityType DEF Keyed
<1>11. Full(U)
  BY <1>7, <1>9, <1>10
<1>12. \A y \in U : Before(T, y) = Before(U, y)
  BY <1>6, <1>8, <1>9 DEF Before
<1>13. Before(T, x) = U
  BY <1>6, <1>8, <1>9 DEF Before
<1>14. ASSUME NEW m \in 0..Cardinality(T) - 1 PROVE \E y \in T : Rank(T, y) = m
  <2>1. CASE m = Cardinality(U)
    BY <1>13, <2>1 DEF Rank
  <2>2. CASE m # Cardinality(U)
    <3>1. m \in 0..Cardinality(U) - 1
      BY <1>10, <2>2
    <3>2. PICK y \in U : Rank(U, y) = m
      BY <1>11, <3>1
    <3>3. Rank(T, y) = m
      BY <1>12, <3>2 DEF Rank
    <3>4. QED
      BY <3>3
  <2>3. QED
    BY <2>1, <2>2
<1>15. QED
  BY <1>5, <1>14

LEMMA ByIdIs ==
    ASSUME NEW S, Keyed(S)
    PROVE  ById(S) \in Seq(Entry) /\ Distinct(ById(S)) /\ ToSet(ById(S)) = S
<1> PICK c : c = Cardinality(S)
  OBVIOUS
<1> PICK t : t = ById(S)
  OBVIOUS
<1>1. c \in Nat
  BY FS_CardinalityType DEF Keyed
<1>2. t = [n \in 1..c |-> CHOOSE x \in S : Rank(S, x) = n - 1]
  BY DEF ById, Rank, Before
<1>3. ASSUME NEW n \in 1..c PROVE t[n] \in S /\ Rank(S, t[n]) = n - 1
  <2>1. n - 1 \in 0..c - 1
    BY <1>1
  <2>2. \E x \in S : Rank(S, x) = n - 1
    BY <2>1, RanksAre
  <2>3. QED
    BY <1>2, <2>2
<1>4. t \in [1..c -> Entry]
  BY <1>2, <1>3 DEF Keyed
<1>5. t \in Seq(Entry) /\ DOMAIN t = 1..c
  BY <1>1, <1>4
<1>6. Distinct(t)
  <2> SUFFICES ASSUME NEW n \in 1..c, NEW m \in 1..c, t[n].id = t[m].id PROVE n = m
    BY <1>5 DEF Distinct
  <2>1. t[n] = t[m]
    BY <1>3 DEF Keyed
  <2>2. n - 1 = m - 1
    BY <1>3, <2>1
  <2>3. QED
    BY <2>2
<1>7. ASSUME NEW y \in S PROVE y \in ToSet(t)
  <2>1. Rank(S, y) \in 0..c - 1
    BY RankIs
  <2> PICK n : n = Rank(S, y) + 1
    OBVIOUS
  <2>2. n \in 1..c /\ n - 1 = Rank(S, y)
    BY <1>1, <2>1
  <2>3. Rank(S, t[n]) = Rank(S, y) /\ t[n] \in S
    BY <1>3, <2>2
  <2>4. y.id \in Nat /\ t[n].id \in Nat /\ Rank(S, y) \in Nat
    BY <2>1, <2>3 DEF Keyed, Entry
  <2>5. ~(y.id < t[n].id) /\ ~(t[n].id < y.id)
    BY <2>3, <2>4, RankDiffers
  <2>6. y.id = t[n].id
    BY ONLY <2>4, <2>5
  <2>7. y = t[n]
    BY <2>3, <2>6 DEF Keyed
  <2>8. QED
    BY <1>5, <2>2, <2>7 DEF ToSet
<1>8. QED
  BY <1>3, <1>5, <1>6, <1>7 DEF ToSet

-----------------------------------------------------------------------------
(* The list after the operations of an undo or a redo.                      *)

ListStep(list, op) ==
    IF op.m \in {"DELETE", "PRUNE"} THEN WithoutEntry(list, op.id) ELSE list

\* There is a function as ListAfter says: there is none for the fewest operations otherwise.
LEMMA ListsAre ==
    ASSUME NEW ops, Len(ops) \in Nat
    PROVE  \E list : /\ list = [n \in 0..Len(ops) |->
                                   IF n = 0 THEN shown ELSE ListStep(list[n - 1], ops[n])]
                     /\ ListAfter(ops) = list[Len(ops)]
<1> DEFINE Is(g, c) == g = [n \in 0..c |-> IF n = 0 THEN shown ELSE ListStep(g[n - 1], ops[n])]
           Bad == {c \in Nat : ~\E g : Is(g, c)}
<1>1. \E g : Is(g, Len(ops))
  <2> SUFFICES ASSUME Bad # {} PROVE FALSE
    OBVIOUS
  <2>1. PICK c \in Bad : \A k \in Bad : c <= k
    BY LeastOf
  <2>2. CASE c = 0
    <3> PICK g : g = [n \in 0..0 |-> shown]
      OBVIOUS
    <3>1. \A n \in 0..0 : n = 0
      OBVIOUS
    <3>2. Is(g, 0)
      BY <3>1
    <3>3. QED
      BY <2>1, <2>2, <3>2
  <2>3. CASE c # 0
    <3>1. c \in Nat
      OBVIOUS
    <3>2. c \in Nat /\ c - 1 \in Nat
      BY ONLY <2>3, <3>1
    <3> PICK before : before = c - 1
      OBVIOUS
    <3>3. before \in Nat /\ ~(c <= before)
      BY ONLY <3>2, before = c - 1
    <3>4. before \notin Bad
      BY <2>1, <3>3
    <3>5. PICK g : Is(g, c - 1)
      BY <3>3, <3>4
    <3> DEFINE h == [n \in 0..c |-> IF n = c THEN ListStep(g[c - 1], ops[c]) ELSE g[n]]
    <3>6. ASSUME NEW n \in 0..c
          PROVE  h[n] = IF n = 0 THEN shown ELSE ListStep(h[n - 1], ops[n])
      <4>1. CASE n = 0
        <5>1. 0 \in 0..c - 1 /\ n # c
          BY <2>3, <3>2, <4>1
        <5>2. QED
          BY <3>5, <4>1, <5>1
      <4>2. CASE n # 0
        <5>1. n - 1 \in 0..c /\ n - 1 # c
          BY <3>2, <4>2
        <5>2. h[n - 1] = g[n - 1]
          BY <5>1
        <5>3. CASE n = c
          BY <4>2, <5>2, <5>3
        <5>4. CASE n # c
          <6>1. n \in 0..c - 1
            BY <3>2, <5>4
          <6>2. h[n] = g[n] /\ g[n] = ListStep(g[n - 1], ops[n])
            BY <3>5, <4>2, <5>4, <6>1
          <6>3. QED
            BY <4>2, <5>2, <6>2
        <5>5. QED
          BY <5>3, <5>4
      <4>3. QED
        BY <4>1, <4>2
    <3>7. h = [n \in 0..c |-> h[n]]
      OBVIOUS
    <3> HIDE DEF h
    <3>8. Is(h, c)
      BY <3>6, <3>7
    <3>9. QED
      BY <2>1, <3>8
  <2>4. QED
    BY <2>2, <2>3
<1> DEFINE list == CHOOSE g : Is(g, Len(ops))
<1>2. ListAfter(ops) = list[Len(ops)]
  BY DEF ListAfter, ListStep
<1> HIDE DEF Is
<1>3. Is(list, Len(ops))
  BY <1>1
<1> HIDE DEF list
<1>4. QED
  BY <1>2, <1>3 DEF Is

\* Whatever the events, the list keeps its type, and loses entries only.
LEMMA ListAfterIs ==
    ASSUME NEW ops, Len(ops) \in Nat, shown \in Seq(Entry)
    PROVE  ListAfter(ops) \in Seq(Entry)
<1>1. PICK list : /\ list = [n \in 0..Len(ops) |->
                                IF n = 0 THEN shown ELSE ListStep(list[n - 1], ops[n])]
                  /\ ListAfter(ops) = list[Len(ops)]
  BY ListsAre
<1>2. ASSUME NEW n \in 0..Len(ops)
      PROVE  list[n] = IF n = 0 THEN shown ELSE ListStep(list[n - 1], ops[n])
  BY <1>1
<1> DEFINE Bad == {n \in 0..Len(ops) : list[n] \notin Seq(Entry)}
<1>3. SUFFICES ASSUME Bad # {} PROVE FALSE
  <2>1. Len(ops) \in 0..Len(ops)
    OBVIOUS
  <2>2. ASSUME Bad = {} PROVE list[Len(ops)] \in Seq(Entry)
    BY <2>1, <2>2
  <2>3. QED
    BY <1>1, <2>2
<1>4. Bad \in SUBSET Nat
  OBVIOUS
<1> HIDE DEF Bad
<1>5. PICK n \in Bad : \A k \in Bad : n <= k
  BY <1>3, <1>4, LeastOf
<1>6. n \in 0..Len(ops) /\ list[n] \notin Seq(Entry)
  BY <1>5 DEF Bad
<1>7. n # 0
  BY <1>2, <1>6
<1>8. n - 1 \in 0..Len(ops) /\ n - 1 \notin Bad
  BY <1>5, <1>6, <1>7
<1>9. list[n - 1] \in Seq(Entry)
  BY <1>8 DEF Bad
<1>10. ListStep(list[n - 1], ops[n]) \in Seq(Entry)
  BY <1>9, WithoutIs DEF ListStep
<1>11. QED
  BY <1>2, <1>6, <1>7, <1>10

\* The lists that there are: one operation, and a prune with a functor.
LEMMA ListAfterOne ==
    ASSUME NEW op
    PROVE  ListAfter(<<op>>) = ListStep(shown, op)
<1> PICK ops : ops = <<op>>
  OBVIOUS
<1>1. Len(ops) = 1 /\ ops[1] = op
  OBVIOUS
<1>2. PICK list : /\ list = [n \in 0..1 |->
                                IF n = 0 THEN shown ELSE ListStep(list[n - 1], ops[n])]
                  /\ ListAfter(ops) = list[1]
  BY <1>1, ListsAre
<1>3. list[1] = ListStep(list[1 - 1], ops[1]) /\ list[0] = shown
  BY <1>2
<1>4. QED
  BY <1>1, <1>2, <1>3

LEMMA ListAfterTwo ==
    ASSUME NEW op, NEW other
    PROVE  ListAfter(<<op, other>>) = ListStep(ListStep(shown, op), other)
<1> PICK ops : ops = <<op, other>>
  OBVIOUS
<1>1. Len(ops) = 2 /\ ops[1] = op /\ ops[2] = other
  OBVIOUS
<1>2. PICK list : /\ list = [n \in 0..2 |->
                                IF n = 0 THEN shown ELSE ListStep(list[n - 1], ops[n])]
                  /\ ListAfter(ops) = list[2]
  BY <1>1, ListsAre
<1>3. list[2] = ListStep(list[1], ops[2]) /\ list[1] = ListStep(list[0], ops[1]) /\ list[0] = shown
  <2>1. list[2] = ListStep(list[2 - 1], ops[2])
    BY <1>2
  <2>2. list[1] = ListStep(list[1 - 1], ops[1])
    BY <1>2
  <2>3. list[0] = shown
    BY <1>2
  <2>4. QED
    BY <2>1, <2>2, <2>3
<1>4. QED
  BY <1>1, <1>2, <1>3

-----------------------------------------------------------------------------
(* Every variable has its type, and so have the requests under way.         *)

AnyOp == [m : Methods \cup {"GET"}, id : Nat, val : Int]
Lists == Seq(Seq(OpType))

TypedRequest(r) ==
    /\ DOMAIN r = {"act", "place", "k", "op", "served", "res"}
    /\ r.op \in AnyOp /\ r.served \in BOOLEAN
    /\ IF r.k = "refetch" THEN r.op.m = "GET" /\ (r.served => Keyed(r.res)) ELSE r.res \in Nat
TypeInv ==
    /\ TypeOK /\ acts \in Nat /\ others \in Nat
    /\ \A r \in asked : TypedRequest(r)

LEMMA OpTyped ==
    ASSUME NEW m \in Methods, NEW id \in Nat, NEW val \in Int
    PROVE  Op(m, id, val) \in OpType /\ Op(m, id, val) \in AnyOp
  BY DEF Op, OpType, AnyOp

LEMMA RequestTyped ==
    ASSUME NEW act, NEW k, NEW place, NEW op \in AnyOp, k # "refetch"
    PROVE  TypedRequest(Request(act, k, place, op))
  BY DEF TypedRequest, Request

LEMMA RefetchTyped ==
    ASSUME NEW act
    PROVE  TypedRequest(Refetch(act))
<1> PICK op : op = Op("GET", 0, 0)
  OBVIOUS
<1>1. op \in AnyOp /\ op.m = "GET"
  BY DEF Op, AnyOp
<1>2. QED
  BY <1>1 DEF TypedRequest, Request, Refetch

LEMMA TypedStep ==
    ASSUME TypeInv, dtype' = dtype, rows' \in Seq(RowType), shown' \in Seq(Entry),
           fw' \in Lists, bw' \in Lists, index' \in 0..Len(fw'),
           masked' \in BOOLEAN, sure' \in BOOLEAN, silent' \in BOOLEAN,
           acts' \in Nat, others' \in Nat,
           \A r \in asked' : r \in asked \/ TypedRequest(r)
    PROVE  TypeInv'
<1>1. TypeOK'
  <2>1. dtype' \in Types
    BY DEF TypeInv, TypeOK
  <2>2. {masked', sure', silent'} \subseteq BOOLEAN
    OBVIOUS
  <2>3. QED
    BY <2>1, <2>2 DEF TypeOK, Lists, Entry
<1>2. \A r \in asked' : TypedRequest(r)
  BY DEF TypeInv
<1>3. QED
  BY <1>1, <1>2 DEF TypeInv

\* What the invariant says, in one place.
LEMMA TypesAre ==
    ASSUME TypeInv
    PROVE  /\ dtype \in Types /\ rows \in Seq(RowType) /\ shown \in Seq(Entry)
           /\ fw \in Lists /\ bw \in Lists /\ index \in 0..Len(fw) /\ index \in Nat
           /\ masked \in BOOLEAN /\ sure \in BOOLEAN /\ silent \in BOOLEAN
           /\ acts \in Nat /\ others \in Nat
  BY DEF TypeInv, TypeOK, Lists, Entry

LEMMA HistoryTyped ==
    ASSUME NEW s \in BOOLEAN, NEW q, NEW p, NEW f, History(s, p, f, q)
    PROVE  sure' \in BOOLEAN /\ silent' \in BOOLEAN
  BY DEF History

LEMMA SameHistoryTyped ==
    ASSUME TypeInv, UNCHANGED history
    PROVE  sure' \in BOOLEAN /\ silent' \in BOOLEAN
  BY TypesAre DEF history

-----------------------------------------------------------------------------
LEMMA KeptTyped ==
    ASSUME TypeInv, NEW lists \in Lists
    PROVE  Kept(lists) \in Lists
<1>1. index \in Nat
  BY TypesAre
<1>2. CASE index < Len(fw) /\ index < Len(lists)
  <2>1. SubSeq(lists, 1, index) \in Lists
    BY <1>1, <1>2 DEF Lists
  <2>2. QED
    BY <1>2, <2>1 DEF Kept
<1>3. CASE ~(index < Len(fw) /\ index < Len(lists))
  BY <1>3 DEF Kept
<1>4. QED
  BY <1>2, <1>3

LEMMA PushTyped ==
    ASSUME TypeInv, NEW op \in OpType
    PROVE  /\ PushForward(op) => fw' \in Lists /\ index' \in 0..Len(fw')
           /\ PushBackward(op) => bw' \in Lists
           /\ Kept(bw) \in Lists
<1>1. Kept(fw) \in Lists /\ Kept(bw) \in Lists
  BY KeptTyped, TypesAre
<1>2. <<op>> \in Seq(OpType)
  OBVIOUS
<1>3. Append(Kept(fw), <<op>>) \in Lists /\ Append(Kept(bw), <<op>>) \in Lists
  BY <1>1, <1>2 DEF Lists
<1>4. \A list \in Lists : Len(list) \in 0..Len(list)
  BY DEF Lists
<1>5. QED
  BY <1>1, <1>3, <1>4 DEF PushForward, PushBackward

LEMMA FiledTyped ==
    ASSUME TypeInv, NEW ops \in Seq(OpType)
    PROVE  Filed(ops) \in Lists
<1> PICK n : n = IF Len(fw) > Len(bw) THEN Len(fw) ELSE Len(bw)
  OBVIOUS
<1>1. n \in Nat /\ fw \in Lists /\ bw \in Lists
  BY TypesAre DEF Lists
<1>2. \A i \in 1..n : i <= Len(bw) => bw[i] \in Seq(OpType)
  BY <1>1 DEF Lists
<1>3. <<>> \in Seq(OpType)
  OBVIOUS
<1> PICK f : f = Filed(ops)
  OBVIOUS
<1>4. f = [i \in 1..n |-> IF i = Len(fw) THEN ops ELSE IF i <= Len(bw) THEN bw[i] ELSE <<>>]
  BY DEF Filed
<1>5. f \in [1..n -> Seq(OpType)]
  BY <1>2, <1>3, <1>4
<1>6. n \in Nat
  BY <1>1
<1>7. f \in Lists
  BY ONLY <1>5, <1>6 DEF Lists
<1>8. QED
  BY <1>7

LEMMA ReaddressedTyped ==
    ASSUME NEW lists \in Lists, NEW old, NEW new \in Nat
    PROVE  Readdressed(lists, old, new) \in Lists /\ Len(Readdressed(lists, old, new)) = Len(lists)
<1> DEFINE op(i, n) ==
        IF lists[i][n].m \in {"POST", "PATCH", "DELETE", "PRUNE"} /\ lists[i][n].id = old
        THEN [lists[i][n] EXCEPT !.id = new] ELSE lists[i][n]
<1> PICK f : f = Readdressed(lists, old, new)
  OBVIOUS
<1>1. f = [i \in DOMAIN lists |-> [n \in DOMAIN lists[i] |-> op(i, n)]]
  BY DEF Readdressed
<1>2. \A i \in DOMAIN lists : lists[i] \in Seq(OpType)
  BY DEF Lists
<1>3. \A i \in DOMAIN lists : \A n \in DOMAIN lists[i] : lists[i][n] \in OpType
  BY <1>2
<1>4. \A i \in DOMAIN lists : \A n \in DOMAIN lists[i] : op(i, n) \in OpType
  BY <1>3 DEF OpType
<1> HIDE DEF op
<1>5. ASSUME NEW i \in DOMAIN lists PROVE f[i] \in Seq(OpType)
  <2>1. DOMAIN lists[i] = 1..Len(lists[i]) /\ Len(lists[i]) \in Nat
    BY <1>2
  <2>2. f[i] = [n \in 1..Len(lists[i]) |-> op(i, n)]
    BY <1>1, <2>1
  <2>3. f[i] \in [1..Len(lists[i]) -> OpType]
    BY <1>4, <2>1, <2>2
  <2>4. QED
    BY <2>1, <2>3
<1>6. DOMAIN lists = 1..Len(lists) /\ Len(lists) \in Nat
  BY DEF Lists
<1>7. f \in [1..Len(lists) -> Seq(OpType)]
  BY <1>1, <1>5, <1>6
<1>8. f \in Lists /\ Len(f) = Len(lists)
  BY ONLY <1>6, <1>7 DEF Lists
<1>9. QED
  BY <1>8

-----------------------------------------------------------------------------
LEMMA LatestTyped ==
    ASSUME rows \in Seq(RowType), NEW i \in Present
    PROVE  /\ Latest(i) \in Present /\ rows[Latest(i)].elem = rows[i].elem
           /\ \A n \in Present : rows[n].elem = rows[i].elem => n <= Latest(i)
<1> DEFINE S == {n \in Present : rows[n].elem = rows[i].elem}
           D == {Len(rows) - n : n \in S}
<1>1. S \in SUBSET (1..Len(rows)) /\ i \in S /\ Len(rows) \in Nat
  BY DEF Present
<1>2. D \in SUBSET Nat /\ D # {}
  BY <1>1
<1>3. Latest(i) = Max(S)
  BY DEF Latest
<1> HIDE DEF S, D
<1>4. PICK d \in D : \A e \in D : d <= e
  BY <1>2, LeastOf
<1>5. PICK top \in S : d = Len(rows) - top
  BY DEF D
<1>6. ASSUME NEW n \in S PROVE top >= n
  <2>1. d <= Len(rows) - n
    BY <1>4 DEF D
  <2>2. QED
    BY <1>1, <1>5, <2>1
<1>7. Max(S) \in S /\ \A n \in S : Max(S) >= n
  BY <1>6 DEF Max
<1>8. \A n \in S : n <= Max(S)
  BY <1>1, <1>7
<1>9. QED
  BY <1>3, <1>7, <1>8 DEF S

LEMMA MergedKeyed ==
    ASSUME rows \in Seq(RowType)
    PROVE  Keyed(Merged)
<1> PICK c \in Nat : c = Len(rows)
  OBVIOUS
<1>1. Current \in SUBSET (1..c)
  BY DEF Current, Present
<1> DEFINE f == [i \in Current |-> [id |-> i, val |-> rows[i].val]]
<1>2. \A i \in Current : [id |-> i, val |-> rows[i].val] \in Entry
  <2>1. ASSUME NEW i \in Current PROVE i \in Nat /\ rows[i].val \in Int
    <3>1. i \in 1..c
      BY <1>1
    <3>2. rows[i] \in RowType
      BY <3>1
    <3>3. QED
      BY <3>1, <3>2 DEF RowType
  <2>2. QED
    BY <2>1 DEF Entry
<1>3. IsFiniteSet(Current)
  <2>1. IsFiniteSet(1..c)
    BY FS_Interval
  <2>2. QED
    BY <1>1, <2>1, FS_Subset
<1>4. f \in Surjection(Current, Merged)
  BY DEF Surjection, Merged
<1>5. IsFiniteSet(Merged)
  BY <1>3, <1>4, FS_Surjection
<1>6. Merged \in SUBSET Entry
  BY <1>2 DEF Merged
<1>7. \A x, y \in Merged : x.id = y.id => x = y
  BY DEF Merged
<1>8. \A x \in Merged : x.id <= c
  BY <1>1 DEF Merged
<1>9. QED
  BY <1>5, <1>6, <1>7, <1>8 DEF Keyed

LEMMA TableAfterTyped ==
    ASSUME rows \in Seq(RowType), NEW op \in OpType, op.m \in {"POST", "PATCH", "DELETE", "PRUNE"}
    PROVE  TableAfter(op) \in Seq(RowType) /\ Answered(op) \in Nat
<1>0. Answered(op) \in Nat
  BY DEF Answered, OpType
<1>1. CASE Answered(op) = 0
  BY <1>0, <1>1 DEF TableAfter
<1>2. ASSUME NEW row \in RowType PROVE Append(rows, row) \in Seq(RowType)
  OBVIOUS
<1>3. CASE Answered(op) # 0 /\ op.m = "POST"
  <2> PICK row : row = [elem |-> Len(rows) + 1, val |-> op.val,
                        deleted |-> FALSE, pruned |-> FALSE, mine |-> TRUE]
    OBVIOUS
  <2>1. TableAfter(op) = Append(rows, row)
    BY <1>3 DEF TableAfter
  <2>2. row \in RowType
    BY DEF RowType, OpType
  <2>3. QED
    BY <1>0, <1>2, <2>1, <2>2
<1>4. CASE Answered(op) # 0 /\ op.m = "PATCH"
  <2> PICK row : row = [rows[Latest(op.id)] EXCEPT !.val = op.val, !.mine = TRUE]
    OBVIOUS
  <2>1. TableAfter(op) = Append(rows, row) /\ op.id \in Present
    BY <1>4 DEF TableAfter, Answered
  <2>2. Latest(op.id) \in Present
    BY <2>1, LatestTyped
  <2>3. rows[Latest(op.id)] \in RowType
    BY <2>2 DEF Present
  <2>4. row \in RowType
    BY <2>3 DEF RowType, OpType
  <2>5. QED
    BY <1>0, <1>2, <2>1, <2>4
<1>5. CASE Answered(op) # 0 /\ op.m = "DELETE"
  <2> PICK row : row = [rows[op.id] EXCEPT !.deleted = TRUE, !.mine = TRUE]
    OBVIOUS
  <2>1. TableAfter(op) = Append(rows, row) /\ op.id \in Present
    BY <1>5 DEF TableAfter, Answered
  <2>2. rows[op.id] \in RowType
    BY <2>1 DEF Present
  <2>3. row \in RowType
    BY <2>2 DEF RowType
  <2>4. QED
    BY <1>0, <1>2, <2>1, <2>3
<1>6. CASE Answered(op) # 0 /\ op.m = "PRUNE"
  <2> PICK row : row = [rows[op.id] EXCEPT !.pruned = TRUE]
    OBVIOUS
  <2>1. TableAfter(op) = [rows EXCEPT ![op.id] = row] /\ op.id \in Present
    BY <1>6 DEF TableAfter, Answered
  <2>2. rows[op.id] \in RowType
    BY <2>1 DEF Present
  <2>3. row \in RowType
    BY <2>2 DEF RowType
  <2>4. QED
    BY <1>0, <2>1, <2>3 DEF Present
<1>7. QED
  BY <1>1, <1>3, <1>4, <1>5, <1>6

LEMMA SentTyped ==
    ASSUME NEW ops \in Seq(OpType), NEW k \in {"undo", "redo"}
    PROVE  \A r \in Sent(k, ops) : TypedRequest(r)
<1>0. \A op \in OpType : op \in AnyOp
  BY DEF OpType, AnyOp
<1>1. \A n \in DOMAIN ops : ops[n] \in AnyOp
  <2>1. \A n \in DOMAIN ops : ops[n] \in OpType
    OBVIOUS
  <2>2. QED
    BY <1>0, <2>1
<1>2. \A n \in DOMAIN ops : TypedRequest(Request(acts + 1, k, n, ops[n]))
  BY <1>1, RequestTyped
<1>3. QED
  BY <1>2 DEF Sent

LEMMA PerformTyped ==
    ASSUME TypeInv, NEW ops \in Seq(OpType), NEW k \in {"undo", "redo"}, Perform(k, ops)
    PROVE  /\ shown' \in Seq(Entry) /\ masked' \in BOOLEAN
           /\ \A r \in asked' : r \in asked \/ TypedRequest(r)
<1>1. shown' \in Seq(Entry)
  <2>1. Len(ops) \in Nat /\ shown \in Seq(Entry)
    BY TypesAre
  <2>2. ListAfter(ops) \in Seq(Entry)
    BY <2>1, ListAfterIs
  <2>3. QED
    BY <2>2 DEF Perform
<1>2. masked' \in BOOLEAN
  <2>1. masked \in BOOLEAN
    BY TypesAre
  <2>2. QED
    BY <2>1 DEF Perform, MaskAfter
<1>3. \A r \in asked' : r \in asked \/ TypedRequest(r)
  BY SentTyped DEF Perform
<1>4. QED
  BY <1>1, <1>2, <1>3

LEMMA EmittedTyped ==
    ASSUME TypeInv, NEW entry \in Entry, NEW act, NEW rest, rest \subseteq asked,
           EmitPost(entry, act, rest)
    PROVE  /\ shown' \in Seq(Entry) /\ masked' \in BOOLEAN
           /\ \A r \in asked' : r \in asked \/ TypedRequest(r)
<1>1. shown \in Seq(Entry) /\ WithEntry(shown, entry) \in Seq(Entry)
  BY TypesAre, AddedIs
<1>2. TypedRequest(Refetch(act))
  BY RefetchTyped
<1>3. QED
  BY <1>1, <1>2 DEF EmitPost

LEMMA EntryTyped ==
    ASSUME NEW id \in Nat, NEW val \in Int
    PROVE  [id |-> id, val |-> val] \in Entry
  BY DEF Entry

\* What a request says, when it is none for the list.
LEMMA RequestSays ==
    ASSUME TypeInv, NEW r \in asked
    PROVE  /\ TypedRequest(r) /\ r.op.id \in Nat /\ r.op.val \in Int
           /\ r.k # "refetch" => r.res \in Nat
           /\ IsWrite(r) => r.op \in OpType /\ r.k # "refetch"
<1>1. TypedRequest(r)
  BY DEF TypeInv
<1>2. r.op \in AnyOp
  BY <1>1 DEF TypedRequest
<1>3. r.op.id \in Nat /\ r.op.val \in Int
  BY <1>2 DEF AnyOp
<1>4. r.k # "refetch" => r.res \in Nat
  BY <1>1 DEF TypedRequest
<1>5. ASSUME IsWrite(r) PROVE r.op \in OpType /\ r.k # "refetch"
  <2>1. r.op.m \in {"POST", "PATCH", "DELETE", "PRUNE"}
    BY <1>5 DEF IsWrite
  <2>2. r.op \in OpType
    BY <1>2, <2>1 DEF AnyOp, OpType, Methods
  <2>3. QED
    BY <1>1, <2>1, <2>2 DEF TypedRequest
<1>6. QED
  BY <1>1, <1>3, <1>4, <1>5

LEMMA RemainTyped ==
    ASSUME NEW rest, rest \subseteq asked, NEW r, TypedRequest(r), asked' = rest \cup {r}
    PROVE  \A q \in asked' : q \in asked \/ TypedRequest(q)
  OBVIOUS

LEMMA StartPatchTyped ==
    ASSUME TypeInv, NEW i \in DOMAIN shown, NEW kind, StartPatch(i, kind)
    PROVE  TypeInv'
<1>0. acts' \in Nat
  BY TypesAre DEF StartPatch, Edits, Act
<1>1. sure' \in BOOLEAN /\ silent' \in BOOLEAN
  BY TypesAre DEF StartPatch, History
<1>2. shown[i] \in Entry
  BY TypesAre
<1>3. Op("GET", shown[i].id, acts + 1) \in AnyOp
  BY <1>2, TypesAre DEF Entry, Op, AnyOp
<1>4. TypedRequest(Request(acts + 1, kind, 1, Op("GET", shown[i].id, acts + 1)))
  <2>1. kind # "refetch"
    BY DEF StartPatch
  <2>2. QED
    BY <1>3, <2>1, RequestTyped
<1>5. \A r \in asked' : r \in asked \/ TypedRequest(r)
  BY <1>4 DEF StartPatch
<1>6. QED
  BY <1>0, <1>1, <1>5, TypedStep, TypesAre DEF StartPatch, buffer

LEMMA StartPostTyped ==
    ASSUME TypeInv, StartPost
    PROVE  TypeInv'
<1>0. acts' \in Nat /\ acts + 1 \in Nat
  BY TypesAre DEF StartPost, Edits, Act
<1>1. sure' \in BOOLEAN /\ silent' \in BOOLEAN
  BY TypesAre DEF StartPost, History
<1>2. Op("POST", 0, acts + 1) \in OpType /\ Op("POST", 0, acts + 1) \in AnyOp /\ Stray \in OpType
  BY <1>0, OpTyped DEF Stray, Methods
<1>3. fw' \in Lists /\ index' \in 0..Len(fw') /\ bw' \in Lists
  BY <1>2, PushTyped DEF StartPost
<1>4. TypedRequest(Request(acts + 1, "post", 1, Op("POST", 0, acts + 1)))
  BY <1>2, RequestTyped
<1>5. \A r \in asked' : r \in asked \/ TypedRequest(r)
  BY <1>4 DEF StartPost
<1>6. QED
  BY <1>0, <1>1, <1>3, <1>5, TypedStep, TypesAre DEF StartPost

LEMMA StartRemoveTyped ==
    ASSUME TypeInv, NEW i \in DOMAIN shown, StartRemove(i)
    PROVE  TypeInv'
<1>0. acts' \in Nat
  BY TypesAre DEF StartRemove, Edits, Act
<1>1. sure' \in BOOLEAN /\ silent' \in BOOLEAN
  BY TypesAre DEF StartRemove, History
<1>2. shown \in Seq(Entry) /\ shown[i] \in Entry
  BY TypesAre
<1> PICK op : op = Op("DELETE", shown[i].id, shown[i].val)
  OBVIOUS
<1>3. op \in OpType /\ op \in AnyOp
  BY <1>2, OpTyped DEF Methods, Entry
<1>4. fw' \in Lists /\ index' \in 0..Len(fw') /\ bw' \in Lists
  BY <1>3, PushTyped DEF StartRemove
<1>5. TypedRequest(Request(acts + 1, "remove", 1, op))
  BY <1>3, RequestTyped
<1>6. \A r \in asked' : r \in asked \/ TypedRequest(r)
  BY <1>5 DEF StartRemove
<1>7. shown' \in Seq(Entry) /\ masked' \in BOOLEAN
  BY <1>2, WithoutIs DEF StartRemove, EmitDelete
<1>8. QED
  BY <1>0, <1>1, <1>4, <1>6, <1>7, TypedStep, TypesAre DEF StartRemove

LEMMA ListsSay ==
    ASSUME NEW lists \in Lists
    PROVE  /\ DOMAIN lists = 1..Len(lists) /\ Len(lists) \in Nat
           /\ \A i \in DOMAIN lists : lists[i] \in Seq(OpType)
  BY DEF Lists

LEMMA UndoTyped ==
    ASSUME TypeInv, Undo
    PROVE  TypeInv'
<1>0. acts' \in Nat
  BY TypesAre DEF Undo, Act
<1>1. sure' \in BOOLEAN /\ silent' \in BOOLEAN
  BY TypesAre DEF Undo, History
<1>2. index' \in 0..Len(fw')
  <2>1. Len(fw) \in Nat /\ index \in 0..Len(fw)
    BY TypesAre, ListsSay
  <2>2. index' = index - 1 /\ index > 0 /\ fw' = fw
    BY DEF Undo
  <2>3. QED
    BY <2>1, <2>2
<1>3. /\ shown' \in Seq(Entry) /\ masked' \in BOOLEAN
      /\ \A r \in asked' : r \in asked \/ TypedRequest(r)
  <2>1. CASE UndoNothing
    BY <2>1, TypesAre DEF UndoNothing
  <2>2. CASE UndoStray
    BY <2>2, TypesAre DEF UndoStray
  <2>3. CASE UndoOps
    <3>1. index \in DOMAIN bw
      BY <2>3 DEF UndoOps, Filled, Back
    <3>2. bw[index] \in Seq(OpType)
      BY <3>1, TypesAre, ListsSay
    <3>3. QED
      BY <2>3, <3>2, PerformTyped DEF UndoOps
  <2>4. QED
    BY <2>1, <2>2, <2>3 DEF Undo
<1>4. QED
  BY <1>0, <1>1, <1>2, <1>3, TypedStep, TypesAre DEF Undo

LEMMA RedoTyped ==
    ASSUME TypeInv, Redo
    PROVE  TypeInv'
<1>0. acts' \in Nat
  BY TypesAre DEF Redo, Act
<1>1. sure' \in BOOLEAN /\ silent' \in BOOLEAN
  BY TypesAre DEF Redo, History
<1>2. index' \in 0..Len(fw') /\ index + 1 \in DOMAIN fw
  <2>1. Len(fw) \in Nat /\ index \in 0..Len(fw) /\ DOMAIN fw = 1..Len(fw)
    BY TypesAre, ListsSay
  <2>2. index' = index + 1 /\ index < Len(fw) /\ fw' = fw
    BY DEF Redo
  <2>3. QED
    BY <2>1, <2>2
<1>3. /\ shown' \in Seq(Entry) /\ masked' \in BOOLEAN
      /\ \A r \in asked' : r \in asked \/ TypedRequest(r)
  <2>1. fw[index + 1] \in Seq(OpType)
    BY <1>2, TypesAre, ListsSay
  <2>2. QED
    BY <2>1, PerformTyped DEF Redo
<1>4. QED
  BY <1>0, <1>1, <1>2, <1>3, TypedStep, TypesAre DEF Redo

LEMMA PatchReadTyped ==
    ASSUME TypeInv, NEW r \in asked, PatchRead(r)
    PROVE  TypeInv'
<1>0. r.k # "refetch" /\ r.k \in {"patch", "plain"} /\ acts' = acts /\ others' = others
  BY DEF PatchRead, bounds
<1>1. CASE r.op.id \notin Present
  <2>1. sure' \in BOOLEAN /\ silent' \in BOOLEAN
    BY <1>1, SameHistoryTyped DEF PatchRead
  <2>2. asked' \subseteq asked
    BY <1>1 DEF PatchRead
  <2>3. QED
    BY <1>0, <1>1, <2>1, <2>2, TypedStep, TypesAre DEF PatchRead, buffer
<1>2. CASE r.op.id \in Present
  <2>1. rows[r.op.id] \in RowType
    BY <1>2, TypesAre DEF Present
  <2>2. rows[r.op.id].val \in Int
    BY <2>1 DEF RowType
  <2>3. /\ Op("PATCH", r.op.id, r.op.val) \in OpType
        /\ Op("PATCH", r.op.id, rows[r.op.id].val) \in OpType
    BY <2>2, RequestSays, OpTyped DEF Methods
  <2>4. fw' \in Lists /\ index' \in 0..Len(fw') /\ bw' \in Lists
    BY <1>2, <2>3, PushTyped DEF PatchRead
  <2>5. sure' \in BOOLEAN /\ silent' \in BOOLEAN
    BY <1>2, TypesAre DEF PatchRead, History
  <2> PICK q : q = [r EXCEPT !.op.m = "PATCH"]
    OBVIOUS
  <2>6. TypedRequest(q)
    <3>1. TypedRequest(r) /\ r.res \in Nat
      BY <1>0, RequestSays
    <3>2. DOMAIN q = DOMAIN r /\ q.res = r.res /\ q.k = r.k /\ q.served = r.served
      BY <3>1 DEF TypedRequest
    <3>3. q.op = [r.op EXCEPT !.m = "PATCH"]
      BY <3>1 DEF TypedRequest
    <3>4. q.op \in AnyOp
      BY <3>1, <3>3 DEF TypedRequest, AnyOp, Methods
    <3>5. QED
      BY <1>0, <3>1, <3>2, <3>4 DEF TypedRequest
  <2>7. \A p \in asked' : p \in asked \/ TypedRequest(p)
    BY <1>2, <2>6 DEF PatchRead
  <2>8. shown' = shown /\ masked' = TRUE /\ rows' = rows /\ dtype' = dtype
    BY <1>2 DEF PatchRead
  <2>9. QED
    BY <1>0, <2>4, <2>5, <2>7, <2>8, TypedStep, TypesAre
<1>3. QED
  BY <1>1, <1>2

LEMMA DelReadTyped ==
    ASSUME TypeInv, NEW r \in asked, DelRead(r)
    PROVE  TypeInv'
<1>0. r.k # "refetch" /\ r.k = "del" /\ acts' = acts /\ others' = others
  BY DEF DelRead, bounds
<1>1. CASE r.op.id \notin Present
  <2>1. sure' \in BOOLEAN /\ silent' \in BOOLEAN
    BY <1>1, SameHistoryTyped DEF DelRead
  <2>2. asked' \subseteq asked
    BY <1>1 DEF DelRead
  <2>3. QED
    BY <1>0, <1>1, <2>1, <2>2, TypedStep, TypesAre DEF DelRead, buffer
<1>2. CASE r.op.id \in Present
  <2>1. rows[r.op.id] \in RowType
    BY <1>2, TypesAre DEF Present
  <2>2. rows[r.op.id].val \in Int
    BY <2>1 DEF RowType
  <2>3. /\ Op("DELETE", r.op.id, 0) \in OpType
        /\ Op("POST", 0, rows[r.op.id].val) \in OpType
    BY <2>2, RequestSays, OpTyped DEF Methods
  <2>4. fw' \in Lists /\ index' \in 0..Len(fw') /\ bw' \in Lists
    BY <1>2, <2>3, PushTyped DEF DelRead
  <2>5. sure' \in BOOLEAN /\ silent' \in BOOLEAN
    BY <1>2, TypesAre DEF DelRead, History
  <2> PICK q : q = [r EXCEPT !.op.m = "DELETE"]
    OBVIOUS
  <2>6. TypedRequest(q)
    <3>1. TypedRequest(r) /\ r.res \in Nat
      BY <1>0, RequestSays
    <3>2. DOMAIN q = DOMAIN r /\ q.res = r.res /\ q.k = r.k /\ q.served = r.served
      BY <3>1 DEF TypedRequest
    <3>3. q.op = [r.op EXCEPT !.m = "DELETE"]
      BY <3>1 DEF TypedRequest
    <3>4. q.op \in AnyOp
      BY <3>1, <3>3 DEF TypedRequest, AnyOp, Methods
    <3>5. QED
      BY <1>0, <3>1, <3>2, <3>4 DEF TypedRequest
  <2>7. \A p \in asked' : p \in asked \/ TypedRequest(p)
    BY <1>2, <2>6 DEF DelRead
  <2>8. shown' \in Seq(Entry) /\ masked' = FALSE /\ rows' = rows /\ dtype' = dtype
    BY <1>2, TypesAre, WithoutIs DEF DelRead, EmitDelete
  <2>9. QED
    BY <1>0, <2>4, <2>5, <2>7, <2>8, TypedStep, TypesAre
<1>3. QED
  BY <1>1, <1>2

LEMMA AnswerRefetchTyped ==
    ASSUME TypeInv, NEW r \in asked, AnswerRefetch(r)
    PROVE  TypeInv'
<1>1. Keyed(r.res)
  BY RequestSays DEF AnswerRefetch, TypedRequest
<1>2. shown' \in Seq(Entry)
  BY <1>1, ByIdIs DEF AnswerRefetch
<1>3. sure' \in BOOLEAN /\ silent' \in BOOLEAN
  BY TypesAre DEF AnswerRefetch, History
<1>4. asked' \subseteq asked
  BY DEF AnswerRefetch
<1>5. QED
  BY <1>2, <1>3, <1>4, TypedStep, TypesAre DEF AnswerRefetch, buffer, bounds

LEMMA AnswerPatchTyped ==
    ASSUME TypeInv, NEW r \in asked, AnswerPatch(r)
    PROVE  TypeInv'
<1>1. sure' \in BOOLEAN /\ silent' \in BOOLEAN
  BY SameHistoryTyped DEF AnswerPatch
<1>2. asked' \subseteq asked /\ r.k # "refetch"
  BY DEF AnswerPatch
<1>3. r.res \in Nat /\ r.op.val \in Int /\ r.op.id \in Nat
  BY <1>2, RequestSays
<1>4. shown' \in Seq(Entry) /\ masked' \in BOOLEAN
  <2>1. [id |-> r.res, val |-> r.op.val] \in Entry
    BY <1>3, EntryTyped
  <2>2. WithPatch(shown, r.op.id, [id |-> r.res, val |-> r.op.val]) \in Seq(Entry)
    BY <2>1, PatchedIs, TypesAre
  <2>3. QED
    BY <2>2, TypesAre DEF AnswerPatch, EmitPatch
<1>5. bw' \in Lists
  <2>1. Op("PRUNE", r.res, 0) \in OpType /\ Op("select_old_obj", 0, 0) \in OpType
    BY <1>3, OpTyped DEF Methods
  <2>2. TakesBack(r) \in Seq(OpType)
    BY <2>1 DEF TakesBack
  <2>3. QED
    BY <2>2, FiledTyped, TypesAre DEF AnswerPatch
<1>6. QED
  BY <1>1, <1>2, <1>4, <1>5, TypedStep, TypesAre DEF AnswerPatch, bounds

LEMMA AnswerPostTyped ==
    ASSUME TypeInv, NEW r \in asked, AnswerPost(r)
    PROVE  TypeInv'
<1>1. sure' \in BOOLEAN /\ silent' \in BOOLEAN
  BY SameHistoryTyped DEF AnswerPost
<1>2. r.k # "refetch"
  BY DEF AnswerPost
<1>3. r.res \in Nat /\ r.op.val \in Int
  BY <1>2, RequestSays
<1>4. /\ shown' \in Seq(Entry) /\ masked' \in BOOLEAN
      /\ \A q \in asked' : q \in asked \/ TypedRequest(q)
  <2>1. CASE r.res = 0
    BY <2>1, TypesAre DEF AnswerPost
  <2>2. CASE r.res # 0
    <3>1. [id |-> r.res, val |-> r.op.val] \in Entry
      BY <1>3, EntryTyped
    <3>2. EmitPost([id |-> r.res, val |-> r.op.val], r.act, asked \ {r})
      BY <2>2 DEF AnswerPost
    <3>3. QED
      BY <3>1, <3>2, EmittedTyped
  <2>3. QED
    BY <2>1, <2>2
<1>5. bw' \in Lists
  <2>1. CASE bw' = bw
    BY <2>1, TypesAre
  <2>2. CASE bw' # bw
    <3>1. /\ Filled(Len(fw))
          /\ bw' = [bw EXCEPT ![Len(fw)] = Append(bw[Len(fw)], Op("DELETE", r.res, 0))]
      BY <2>2 DEF AnswerPost
    <3>2. Len(fw) \in DOMAIN bw
      BY <3>1 DEF Filled, Back
    <3>3. bw \in Lists /\ bw[Len(fw)] \in Seq(OpType)
      BY <3>2, ListsSay, TypesAre
    <3>4. Op("DELETE", r.res, 0) \in OpType
      BY <1>3, OpTyped DEF Methods
    <3>5. Append(bw[Len(fw)], Op("DELETE", r.res, 0)) \in Seq(OpType)
      BY <3>3, <3>4
    <3>6. QED
      BY <3>1, <3>2, <3>3, <3>5 DEF Lists
  <2>3. QED
    BY <2>1, <2>2
<1>6. QED
  BY <1>1, <1>4, <1>5, TypedStep, TypesAre DEF AnswerPost, bounds

LEMMA AnswerRemoveTyped ==
    ASSUME TypeInv, NEW r \in asked, AnswerRemove(r)
    PROVE  TypeInv'
<1>1. sure' \in BOOLEAN /\ silent' \in BOOLEAN
  BY SameHistoryTyped DEF AnswerRemove
<1>2. asked' \subseteq asked /\ r.k # "refetch"
  BY DEF AnswerRemove
<1>3. r.res \in Nat /\ r.op.val \in Int /\ r.op.id \in Nat
  BY <1>2, RequestSays
<1>4. shown' \in Seq(Entry) /\ masked' \in BOOLEAN
  BY WithoutIs, TypesAre DEF AnswerRemove, EmitDelete
<1>5. bw' \in Lists
  <2>1. Op("PRUNE", r.res, 0) \in OpType /\ Op("delete_functor", r.op.id, r.op.val) \in OpType
    BY <1>3, OpTyped DEF Methods
  <2>2. <<Op("PRUNE", r.res, 0), Op("delete_functor", r.op.id, r.op.val)>> \in Seq(OpType)
    BY <2>1
  <2>3. Append(bw, <<Op("PRUNE", r.res, 0), Op("delete_functor", r.op.id, r.op.val)>>) \in Lists
    BY <2>2, TypesAre DEF Lists
  <2>4. QED
    BY <2>3, TypesAre DEF AnswerRemove
<1>6. QED
  BY <1>1, <1>2, <1>4, <1>5, TypedStep, TypesAre DEF AnswerRemove, bounds

LEMMA AnswerRecreatedTyped ==
    ASSUME TypeInv, NEW r \in asked, AnswerRecreated(r)
    PROVE  TypeInv'
<1>1. sure' \in BOOLEAN /\ silent' \in BOOLEAN
  BY SameHistoryTyped DEF AnswerRecreated
<1>2. r.k # "refetch"
  BY DEF AnswerRecreated
<1>3. r.res \in Nat /\ r.op.val \in Int
  BY <1>2, RequestSays
<1>4. /\ shown' \in Seq(Entry) /\ masked' \in BOOLEAN
      /\ \A q \in asked' : q \in asked \/ TypedRequest(q)
  <2>1. CASE r.res = 0
    BY <2>1, TypesAre DEF AnswerRecreated
  <2>2. CASE r.res # 0
    <3>1. [id |-> r.res, val |-> r.op.val] \in Entry
      BY <1>3, EntryTyped
    <3>2. EmitPost([id |-> r.res, val |-> r.op.val], r.act, asked \ {r})
      BY <2>2 DEF AnswerRecreated
    <3>3. QED
      BY <3>1, <3>2, EmittedTyped
  <2>3. QED
    BY <2>1, <2>2
<1>5. fw' \in Lists /\ Len(fw') = Len(fw) /\ bw' \in Lists
  <2>1. CASE fw' = fw /\ bw' = bw
    BY <2>1, TypesAre
  <2>2. CASE \E old : fw' = Readdressed(fw, old, r.res) /\ bw' = Readdressed(bw, old, r.res)
    BY <1>3, <2>2, ReaddressedTyped, TypesAre
  <2>3. QED
    BY <2>1, <2>2 DEF AnswerRecreated
<1>6. QED
  BY <1>1, <1>4, <1>5, TypedStep, TypesAre DEF AnswerRecreated, bounds

LEMMA AnswerQuietTyped ==
    ASSUME TypeInv, NEW r \in asked, AnswerQuiet(r)
    PROVE  TypeInv'
<1>1. sure' \in BOOLEAN /\ silent' \in BOOLEAN
  BY SameHistoryTyped DEF AnswerQuiet
<1>2. asked' \subseteq asked
  BY DEF AnswerQuiet
<1>3. QED
  BY <1>1, <1>2, TypedStep, TypesAre DEF AnswerQuiet, buffer, bounds

LEMMA RunFunctorTyped ==
    ASSUME TypeInv, NEW r \in asked, RunFunctor(r)
    PROVE  TypeInv'
<1>1. sure' \in BOOLEAN /\ silent' \in BOOLEAN
  BY SameHistoryTyped DEF RunFunctor
<1>2. /\ shown' \in Seq(Entry) /\ masked' \in BOOLEAN
      /\ \A q \in asked' : q \in asked \/ TypedRequest(q)
  <2>1. CASE r.op.m = "select_old_obj"
    <3>1. asked' = (asked \ {r}) \cup {Refetch(r.act)} /\ UNCHANGED <<shown, masked>>
      BY <2>1 DEF RunFunctor
    <3>2. QED
      BY <3>1, RefetchTyped, TypesAre
  <2>2. CASE r.op.m # "select_old_obj"
    <3>1. [id |-> r.op.id, val |-> r.op.val] \in Entry
      BY RequestSays, EntryTyped
    <3>2. EmitPost([id |-> r.op.id, val |-> r.op.val], r.act, asked \ {r})
      BY <2>2 DEF RunFunctor
    <3>3. QED
      BY <3>1, <3>2, EmittedTyped
  <2>3. QED
    BY <2>1, <2>2
<1>3. QED
  BY <1>1, <1>2, TypedStep, TypesAre DEF RunFunctor, buffer, bounds

LEMMA PageTyped ==
    ASSUME TypeInv, NEW r \in asked, Page(r)
    PROVE  TypeInv'
  BY PatchReadTyped, DelReadTyped, AnswerRefetchTyped, AnswerPatchTyped, AnswerPostTyped,
     AnswerRemoveTyped, AnswerRecreatedTyped, AnswerQuietTyped, RunFunctorTyped DEF Page

-----------------------------------------------------------------------------
LEMMA ServedTyped ==
    ASSUME TypeInv, NEW r \in asked, IsWrite(r), NEW res \in Nat
    PROVE  /\ TypedRequest([r EXCEPT !.served = TRUE, !.res = res])
           /\ TypedRequest([r EXCEPT !.served = TRUE])
  BY RequestSays DEF TypedRequest

LEMMA ServeTyped ==
    ASSUME TypeInv, NEW r \in asked, Serve(r)
    PROVE  TypeInv'
<1>1. sure' \in BOOLEAN /\ silent' \in BOOLEAN
  BY SameHistoryTyped DEF Serve
<1>2. IsWrite(r) /\ r.op \in OpType /\ r.op.m \in {"POST", "PATCH", "DELETE", "PRUNE"}
  BY RequestSays DEF Serve, IsWrite
<1>3. rows' \in Seq(RowType) /\ Answered(r.op) \in Nat
  BY <1>2, TableAfterTyped, TypesAre DEF Serve
<1>4. \A q \in asked' : q \in asked \/ TypedRequest(q)
  BY <1>2, <1>3, ServedTyped DEF Serve
<1>5. QED
  BY <1>1, <1>3, <1>4, TypedStep, TypesAre DEF Serve, buffer, bounds

LEMMA FailTyped ==
    ASSUME TypeInv, NEW r \in asked, Fail(r)
    PROVE  TypeInv'
<1>1. sure' \in BOOLEAN /\ silent' \in BOOLEAN
  BY TypesAre DEF Fail, History
<1>2. IsWrite(r)
  BY DEF Fail
<1>3. TypedRequest([r EXCEPT !.served = TRUE])
  BY <1>2, ServedTyped, 0 \in Nat
<1>4. \A q \in asked' : q \in asked \/ TypedRequest(q)
  BY <1>3 DEF Fail
<1>5. QED
  BY <1>1, <1>4, TypedStep, TypesAre DEF Fail, buffer

LEMMA ServeRefetchTyped ==
    ASSUME TypeInv, NEW r \in asked, ServeRefetch(r)
    PROVE  TypeInv'
<1>1. sure' \in BOOLEAN /\ silent' \in BOOLEAN
  BY SameHistoryTyped DEF ServeRefetch
<1>2. Keyed(Merged)
  BY MergedKeyed, TypesAre
<1>3. TypedRequest(r) /\ r.k = "refetch"
  BY RequestSays DEF ServeRefetch
<1>4. TypedRequest([r EXCEPT !.served = TRUE, !.res = Merged])
  BY <1>2, <1>3 DEF TypedRequest
<1>5. \A q \in asked' : q \in asked \/ TypedRequest(q)
  BY <1>4 DEF ServeRefetch
<1>6. QED
  BY <1>1, <1>5, TypedStep, TypesAre DEF ServeRefetch, buffer, bounds

LEMMA OthersTyped ==
    ASSUME TypeInv, NEW i \in DOMAIN rows, OtherPatches(i)
    PROVE  TypeInv'
<1>1. sure' \in BOOLEAN /\ silent' \in BOOLEAN
  BY TypesAre DEF OtherPatches, History
<1>2. others' \in Nat /\ rows[i] \in RowType /\ rows \in Seq(RowType)
  BY TypesAre DEF OtherPatches
<1>3. -others' - Seeds \in Int
  BY <1>2, BoundsAssumption
<1> PICK row : row = [rows[i] EXCEPT !.val = -others' - Seeds, !.mine = FALSE]
  OBVIOUS
<1>4. row \in RowType
  BY <1>2, <1>3 DEF RowType
<1>5. rows' \in Seq(RowType)
  BY <1>2, <1>4 DEF OtherPatches
<1>6. QED
  BY <1>1, <1>2, <1>5, TypedStep, TypesAre DEF OtherPatches, buffer

LEMMA LockTyped ==
    ASSUME TypeInv, ClickLock
    PROVE  TypeInv'
<1>1. sure' \in BOOLEAN /\ silent' \in BOOLEAN
  BY SameHistoryTyped DEF ClickLock
<1>2. QED
  BY <1>1, TypedStep, TypesAre DEF ClickLock, buffer, bounds

LEMMA InitTyped == Init => TypeInv
<1> SUFFICES ASSUME Init PROVE TypeInv
  OBVIOUS
<1>1. rows \in Seq(RowType)
  <2>1. Seeds \in Nat
    BY BoundsAssumption
  <2>2. \A i \in 1..Seeds : [elem |-> i, val |-> -i, deleted |-> FALSE, pruned |-> FALSE,
                             mine |-> FALSE] \in RowType
    BY <2>1 DEF RowType
  <2>3. QED
    BY <2>1, <2>2 DEF Init
<1>2. shown \in Seq(Entry)
  BY <1>1, MergedKeyed, ByIdIs DEF Init
<1>3. fw \in Seq(Seq(OpType)) /\ bw \in Seq(Seq(OpType)) /\ index \in 0..Len(fw)
  BY DEF Init
<1>4. {masked, sure, silent} \subseteq BOOLEAN
  BY DEF Init
<1>5. TypeOK
  BY <1>1, <1>2, <1>3, <1>4 DEF TypeOK, Init, Entry
<1>6. QED
  BY <1>5 DEF TypeInv, Init

LEMMA StepTyped == TypeInv /\ [Next]_vars => TypeInv'
<1> SUFFICES ASSUME TypeInv, [Next]_vars PROVE TypeInv'
  OBVIOUS
<1>1. CASE User
  BY <1>1, StartPatchTyped, StartPostTyped, StartRemoveTyped, UndoTyped, RedoTyped DEF User
<1>2. ASSUME NEW r \in asked, Page(r) \/ Server(r) PROVE TypeInv'
  BY <1>2, PageTyped, ServeTyped, FailTyped, ServeRefetchTyped DEF Server
<1>3. CASE ClickLock
  BY <1>3, LockTyped
<1>4. CASE \E i \in DOMAIN rows : OtherPatches(i)
  BY <1>4, OthersTyped
<1>5. CASE UNCHANGED vars
  <2>1. sure' \in BOOLEAN /\ silent' \in BOOLEAN
    BY <1>5, SameHistoryTyped DEF vars, history
  <2>2. QED
    BY <1>5, <2>1, TypedStep, TypesAre DEF vars, buffer, bounds
<1>6. QED
  BY <1>1, <1>2, <1>3, <1>4, <1>5 DEF Next

\* Every variable keeps its type whatever overlaps, fails or is filed late:
\* the lists of operations hold operations only, and the position stays
\* within the operations that there are (TypeOK).
THEOREM TypesHold == Spec => []TypeOK
<1>1. Init => TypeInv
  BY InitTyped
<1>2. TypeInv /\ [Next]_vars => TypeInv'
  BY StepTyped
<1>3. TypeInv => TypeOK
  BY DEF TypeInv
<1>4. QED
  BY <1>1, <1>2, <1>3, PTL DEF Spec
=============================================================================
