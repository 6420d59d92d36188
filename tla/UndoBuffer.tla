----------------------------- MODULE UndoBuffer -----------------------------
(* Undo and redo on the annotation page (undo-buffer.js) with the lists that *)
(* the page shows and the table of revisions behind them.                    *)
(*                                                                           *)
(* The buffer keeps two lists: the requests that repeat an operation and     *)
(* those that take it back.  Requests are asynchronous: each is served and   *)
(* then answered, in any order, while the user goes on.  The answer carries  *)
(* the id of the revision that was made, and only then does the buffer learn *)
(* what will take the operation back.                                        *)
EXTENDS ShownLists, FiniteSets, FiniteSetsExt

CONSTANTS
    Types,         \* of "Localization", "State": what the page is about
    Seeds,         \* the number of annotations there are to begin with
    MaxActs,       \* bound: operations, undos and redos of a patient user
    MaxHasty,      \* the same bound once sure is FALSE
    MaxRequests,   \* bound: requests under way at a time
    MaxFaults,     \* bound: requests that fail
    MaxOthers      \* bound: edits by another user

ASSUME BoundsAssumption ==
    /\ Types \subseteq {"Localization", "State"}
    /\ {Seeds, MaxActs, MaxHasty, MaxRequests, MaxFaults, MaxOthers} \subseteq Nat

VARIABLES
    dtype,     \* the type of the annotations; it never changes
    rows,      \* the table: row i is the revision with id i
    shown,     \* the list of the page (_dataByType), of entries [id, val]
    fw, bw,    \* _forwardOps, _backwardOps: sequences of sequences of operations
    index,     \* _index
    asked,     \* the requests under way
    masked,    \* editing is disabled (temporarilyMaskEdits)
    acts, faults, others,
    past,      \* history: what the server should show after each operation
    frail,     \* history: operations up to here cannot be undone any more
    sure,      \* history: the user has waited for every answer, and so on
    silent     \* history: a PATCH was repeated, and the list is not told

buffer  == <<fw, bw, index>>
bounds  == <<acts, faults, others>>
history == <<past, frail, sure, silent>>
vars    == <<dtype, rows, shown, fw, bw, index, asked, masked, bounds, history>>

-----------------------------------------------------------------------------
(* The server.  A revision is never changed: a PATCH makes a copy.          *)

\* What the page offers for a type: "patch" is an edit in the entity browser,
\* "plain" one in the frame panel, "remove" delete_metadata.
Kinds == IF dtype = "State" THEN {"patch", "plain", "post", "del"}
                            ELSE {"patch", "post", "remove"}

Present == {i \in DOMAIN rows : ~rows[i].pruned}
Latest(i) == Max({n \in Present : rows[n].elem = rows[i].elem})

\* What a query with merge=1 returns: the latest revisions that are not deleted.
Current == {i \in Present : i = Latest(i) /\ ~rows[i].deleted}
Merged  == {[id |-> i, val |-> rows[i].val] : i \in Current}
View    == {rows[i].val : i \in Current}

\* One operation: method, id, the value in the body.  The id of a creation is
\* that of the project, which is 0 here.
Op(method, id, val) == [m |-> method, id |-> id, val |-> val]
\* What an undo finds where a creation has pushed the parts of its operation.
Stray == Op("STRAY", 0, 0)

\* The id in the answer, 0 when the row, or the project, is not there.
Answered(op) ==
    IF IF op.m = "POST" THEN op.id # 0 ELSE op.id \notin Present THEN 0
    ELSE IF op.m = "PRUNE" THEN op.id ELSE Len(rows) + 1

TableAfter(op) ==
    IF Answered(op) = 0 THEN rows
    ELSE
    CASE op.m = "POST" ->
            Append(rows, [elem |-> Len(rows) + 1, val |-> op.val,
                          deleted |-> FALSE, pruned |-> FALSE, mine |-> TRUE])
      [] op.m = "PATCH" ->
            Append(rows, [rows[Latest(op.id)] EXCEPT !.val = op.val, !.mine = TRUE])
      [] op.m = "DELETE" ->
            Append(rows, [rows[op.id] EXCEPT !.deleted = TRUE, !.mine = TRUE])
      [] op.m = "PRUNE" -> [rows EXCEPT ![op.id].pruned = TRUE]

-----------------------------------------------------------------------------
(* Requests and events of the page.                                         *)

\* A request under way: the number of the act and the place of the operation
\* in it, what is done with the answer, and the answer.
Request(act, k, place, op) ==
    [act |-> act, place |-> place, k |-> k, op |-> op, served |-> FALSE, res |-> 0]
Refetch(act) == Request(act, "refetch", 0, Op("GET", 0, 0))

Waiting == asked # {}
IsWrite(r) == r.op.m \in {"POST", "PATCH", "DELETE", "PRUNE"}

\* _emitUpdate: the page changes its list and editing is enabled again.  A
\* created state is not pushed: the list is asked for again.
EmitPost(entry, act, rest) ==
    /\ masked' = FALSE
    /\ IF dtype = "State"
       THEN asked' = rest \cup {Refetch(act)} /\ UNCHANGED shown
       ELSE asked' = rest /\ shown' = WithEntry(shown, entry)
EmitPatch_StaysMasked(id, entry) == UNCHANGED masked /\ shown' = WithPatch(shown, id, entry)
EmitPatch(id, entry) == masked' = FALSE /\ shown' = WithPatch(shown, id, entry)
EmitDelete(id) == masked' = FALSE /\ shown' = WithoutEntry(shown, id)

\* _resetFromNow, which a new operation calls before it is pushed.
Kept_All(list) == list
Kept(list) ==
    IF index < Len(fw) /\ index < Len(list) THEN SubSeq(list, 1, index) ELSE list
PushForward_Ahead(op) == fw' = Append(Kept(fw), <<op>>) /\ index' = Len(fw') + 1
PushForward(op) == fw' = Append(Kept(fw), <<op>>) /\ index' = Len(fw')
PushBackward(op) == bw' = Append(Kept(bw), <<op>>)

\* The history is only kept as long as the user is sure.
History(s, p, f, q) ==
    /\ sure' = s
    /\ past' = IF s THEN p ELSE <<>>
    /\ frail' = IF s THEN f ELSE 0
    /\ silent' = (s /\ q)

\* An act of the user; editing on a list that misses an update is not sure.
Act == acts < (IF sure THEN MaxActs ELSE MaxHasty) /\ acts' = acts + 1
Edits == ~masked /\ Act
PastAfter(v) == IF sure THEN Append(SubSeq(past, 1, index + 1), v) ELSE <<>>

-----------------------------------------------------------------------------
(* Operations of the user.                                                  *)

\* patch and del read the row before anything else; editing stays enabled.
StartPatch(i, kind) ==
    /\ Edits
    /\ kind \in Kinds \cap {"patch", "plain", "del"}
    /\ asked' = asked \cup {Request(acts + 1, kind, 1, Op("GET", shown[i].id, acts + 1))}
    /\ History(sure /\ ~Waiting /\ ~silent, past, frail, silent)
    /\ UNCHANGED <<dtype, rows, shown, buffer, masked, faults, others>>

\* The row has been read: the operation is recorded and sent.
PatchRead(r) ==
    LET op   == r.op
        orig == rows[op.id].val
    IN  /\ r.k \in {"patch", "plain"} /\ op.m = "GET"
        /\ IF op.id \notin Present
           THEN asked' = asked \ {r} /\ UNCHANGED <<buffer, masked, history>>
           ELSE /\ PushForward(Op("PATCH", op.id, op.val))
                /\ PushBackward(Op("PATCH", op.id, orig))
                /\ masked' = TRUE
                /\ asked' = (asked \ {r}) \cup {[r EXCEPT !.op.m = "PATCH"]}
                /\ History(sure, PastAfter((View \ {orig}) \cup {op.val}), frail, silent)
        /\ UNCHANGED <<dtype, rows, shown, bounds>>

DelRead(r) ==
    LET op == r.op
    IN  /\ r.k = "del" /\ op.m = "GET"
        /\ IF op.id \notin Present
           THEN asked' = asked \ {r} /\ UNCHANGED <<shown, buffer, masked, history>>
           ELSE /\ PushForward(Op("DELETE", op.id, 0))
                /\ PushBackward(Op("POST", 0, rows[op.id].val))
                /\ EmitDelete(op.id)
                /\ asked' = (asked \ {r}) \cup {[r EXCEPT !.op.m = "DELETE"]}
                /\ History(sure, PastAfter(View \ {rows[op.id].val}), frail, silent)
        /\ UNCHANGED <<dtype, rows, bounds>>

\* post: the backward operation is pushed by its parts, before the answer.
StartPost ==
    /\ Edits
    /\ PushForward(Op("POST", 0, acts + 1))
    /\ PushBackward(Stray)
    /\ masked' = TRUE
    /\ asked' = asked \cup {Request(acts + 1, "post", 1, Op("POST", 0, acts + 1))}
    /\ History(sure /\ ~Waiting /\ ~silent, PastAfter(View \cup {acts + 1}), frail, silent)
    /\ UNCHANGED <<dtype, rows, shown, faults, others>>

\* delete_metadata: only the forward operation is pushed; the list is changed
\* and editing enabled at once.
StartRemove(i) ==
    /\ Edits
    /\ "remove" \in Kinds
    /\ PushForward(Op("DELETE", shown[i].id, shown[i].val))
    /\ bw' = Kept(bw)
    /\ EmitDelete(shown[i].id)
    /\ asked' = asked \cup
            {Request(acts + 1, "remove", 1, Op("DELETE", shown[i].id, shown[i].val))}
    /\ History(sure /\ ~Waiting /\ ~silent, PastAfter(View \ {shown[i].val}), frail, silent)
    /\ UNCHANGED <<dtype, rows, faults, others>>

-----------------------------------------------------------------------------
(* Undo and redo, by the keyboard, whatever is masked or under way.         *)

Back(i) == IF i \in DOMAIN bw THEN bw[i] ELSE <<>>
Filled(i) == Back(i) # <<>>

\* The requests and the functors of a list of operations.
Sent(k, ops) == {Request(acts + 1, k, n, ops[n]) : n \in DOMAIN ops}

\* The events in order: each request masks editing, and a deletion is shown,
\* and editing enabled, without waiting for the answer.
ListAfter(ops) ==
    LET list[n \in 0..Len(ops)] ==
            IF n = 0 THEN shown
            ELSE IF ops[n].m \in {"DELETE", "PRUNE"} THEN WithoutEntry(list[n - 1], ops[n].id)
            ELSE list[n - 1]
    IN  list[Len(ops)]
MaskAfter(ops) ==
    LET events == {n \in DOMAIN ops : ops[n].m \in {"PATCH", "POST", "DELETE", "PRUNE"}}
    IN  IF events = {} THEN masked
        ELSE \E n \in events : ops[n].m \in {"PATCH", "POST"} /\ \A k \in events : k <= n
Has(method, ops) == \E op \in ToSet(ops) : op.m = method
Prunes(i) == Has("PRUNE", Back(i))
\* The revisions that the operations address are still there.
Addressed(ops) == \A op \in ToSet(ops) : op.m \in {"PATCH", "DELETE", "PRUNE"} => op.id \in Present

Perform(k, ops) ==
    /\ shown' = ListAfter(ops)
    /\ masked' = MaskAfter(ops)
    /\ asked' = asked \cup Sent(k, ops)

\* There may be no backward operations yet, or none any more.
UndoNothing == ~Filled(index) /\ UNCHANGED <<shown, asked, masked>>

\* The parts of a pushed operation are no operations: the requests made of
\* the words fail, and the part {} ends the undo with an exception.
UndoStray ==
    /\ Filled(index) /\ Head(bw[index]).m = "STRAY"
    /\ masked' = FALSE
    /\ UNCHANGED <<shown, asked>>

UndoOps ==
    /\ Filled(index) /\ Head(bw[index]).m # "STRAY"
    /\ Perform("undo", bw[index])

Undo ==
    /\ Act /\ index > 0
    /\ index' = index - 1
    /\ UndoNothing \/ UndoStray \/ UndoOps
    /\ LET back == Back(index)
       IN  History(/\ sure /\ ~Waiting /\ index > frail
                   /\ fw[index][1].m # "POST" /\ Addressed(back),
                   past,
                   IF \/ Has("POST", back)
                      \/ Has("PATCH", back) /\ \E i \in 1..index - 1 : Prunes(i)
                   THEN index - 1 ELSE frail,
                   silent \/ Has("PATCH", back))
    /\ UNCHANGED <<dtype, rows, fw, bw, faults, others>>

Redo ==
    /\ Act /\ index < Len(fw)
    /\ index' = index + 1
    /\ Perform("redo", fw[index + 1])
    /\ History(sure /\ ~Waiting /\ Addressed(fw[index + 1]), past, frail,
               silent \/ Has("PATCH", fw[index + 1]))
    /\ UNCHANGED <<dtype, rows, fw, bw, faults, others>>

-----------------------------------------------------------------------------
(* The server serves a request; the page takes the answer.                  *)

Serve(r) ==
    /\ IsWrite(r) /\ ~r.served
    /\ rows' = TableAfter(r.op)
    /\ asked' = (asked \ {r}) \cup {[r EXCEPT !.served = TRUE, !.res = Answered(r.op)]}
    /\ UNCHANGED <<dtype, shown, buffer, masked, bounds, history>>

\* A request that fails answers with an error, like one for a missing row.
Fail(r) ==
    /\ IsWrite(r) /\ ~r.served
    /\ faults < MaxFaults /\ faults' = faults + 1
    /\ asked' = (asked \ {r}) \cup {[r EXCEPT !.served = TRUE]}
    /\ History(FALSE, past, frail, silent)
    /\ UNCHANGED <<dtype, rows, shown, buffer, masked, acts, others>>

\* updateType: what the server has when it serves the request replaces the
\* list when it is answered.
ServeRefetch(r) ==
    /\ r.k = "refetch" /\ ~r.served
    /\ asked' = (asked \ {r}) \cup {[r EXCEPT !.served = TRUE, !.res = Merged]}
    /\ UNCHANGED <<dtype, rows, shown, buffer, masked, bounds, history>>

\* By id: the n-th has n - 1 before it.
ById(entries) ==
    [n \in 1..Cardinality(entries) |->
        CHOOSE x \in entries : Cardinality({y \in entries : y.id < x.id}) = n - 1]
AnswerRefetch(r) ==
    /\ r.k = "refetch" /\ r.served
    /\ shown' = ById(r.res)
    /\ asked' = asked \ {r}
    /\ History(sure, past, frail, FALSE)
    /\ UNCHANGED <<dtype, rows, buffer, masked, bounds>>

\* What takes an operation back is filed under the last operation there is
\* when the answer arrives; an assignment beyond the end of the list leaves
\* holes, written <<>>.
Filed(ops) ==
    [i \in 1..(IF Len(fw) > Len(bw) THEN Len(fw) ELSE Len(bw)) |->
        IF i = Len(fw) THEN ops ELSE IF i <= Len(bw) THEN bw[i] ELSE <<>>]

\* A PATCH from the entity browser is taken back by pruning the new revision
\* and asking for the list again.
TakesBack_Old(r) == <<Op("PRUNE", r.op.id, 0), Op("select_old_obj", 0, 0)>>
TakesBack(r) == <<Op("PRUNE", r.res, 0), Op("select_old_obj", 0, 0)>>

\* patch: from the frame panel, undo stays a PATCH.
AnswerPatch(r) ==
    /\ r.k \in {"patch", "plain"} /\ r.op.m = "PATCH" /\ r.served
    /\ asked' = asked \ {r}
    /\ IF r.res = 0
       THEN UNCHANGED <<shown, masked, bw>>
       ELSE /\ EmitPatch(r.op.id, [id |-> r.res, val |-> r.op.val])
            /\ bw' = IF r.k = "plain" THEN bw
                     ELSE Filed(TakesBack(r))
    /\ UNCHANGED <<dtype, rows, fw, index, bounds, history>>

\* post and the redo of one end with an update; post then adds the deletion
\* of the new annotation to the parts that it has pushed.
AnswerPost(r) ==
    /\ r.k \in {"post", "redo"} /\ r.op.m = "POST" /\ r.served
    /\ IF r.res = 0
       THEN asked' = asked \ {r} /\ UNCHANGED <<shown, masked, bw>>
       ELSE /\ EmitPost([id |-> r.res, val |-> r.op.val], r.act, asked \ {r})
            /\ bw' = IF r.k = "redo" \/ ~Filled(Len(fw)) THEN bw
                     ELSE [bw EXCEPT ![Len(fw)] = Append(@, Op("DELETE", r.res, 0))]
    /\ UNCHANGED <<dtype, rows, fw, index, bounds, history>>

\* delete_metadata: the backward operations are pushed now, wherever the end is.
AnswerRemove(r) ==
    /\ r.k = "remove" /\ r.served
    /\ asked' = asked \ {r}
    /\ IF r.res = 0
       THEN UNCHANGED <<shown, masked, bw>>
       ELSE /\ bw' = Append(bw, <<Op("PRUNE", r.res, 0),
                                  Op("delete_functor", r.op.id, r.op.val)>>)
            /\ EmitDelete(r.op.id)
    /\ UNCHANGED <<dtype, rows, fw, index, bounds, history>>

\* An annotation that undo has created anew: its id replaces that of the
\* operation at the place where the buffer stands when the answer arrives.  A
\* user who does not wait may have a creation there: then the id of the project
\* is replaced, in every creation.
Readdressed(lists, old, new) ==
    [i \in DOMAIN lists |-> [n \in DOMAIN lists[i] |->
        IF lists[i][n].m \in {"POST", "PATCH", "DELETE", "PRUNE"} /\ lists[i][n].id = old
        THEN [lists[i][n] EXCEPT !.id = new] ELSE lists[i][n]]]
AnswerRecreated(r) ==
    /\ r.k = "undo" /\ r.op.m = "POST" /\ r.served
    /\ IF r.res = 0
       THEN asked' = asked \ {r} /\ UNCHANGED <<shown, masked, fw, bw>>
       ELSE /\ EmitPost([id |-> r.res, val |-> r.op.val], r.act, asked \ {r})
            /\ IF index < Len(fw) /\ r.place \in DOMAIN fw[index + 1]
               THEN LET old == fw[index + 1][r.place].id
                    IN  /\ fw' = Readdressed(fw, old, r.res)
                        /\ bw' = Readdressed(bw, old, r.res)
               ELSE UNCHANGED <<fw, bw>>
    /\ UNCHANGED <<dtype, rows, index, bounds, history>>

\* The other answers change nothing on the page.
AnswerQuiet(r) ==
    /\ r.served
    /\ r.k = "del" \/ (r.k \in {"undo", "redo"} /\ r.op.m # "POST")
    /\ asked' = asked \ {r}
    /\ UNCHANGED <<dtype, rows, shown, buffer, masked, bounds, history>>

\* Functors run when all requests of their undo are answered.
RunFunctor(r) ==
    /\ r.op.m \in {"select_old_obj", "delete_functor"}
    /\ ~\E q \in asked : q.act = r.act /\ IsWrite(q)
    /\ IF r.op.m = "select_old_obj"
       THEN asked' = (asked \ {r}) \cup {Refetch(r.act)} /\ UNCHANGED <<shown, masked>>
       ELSE EmitPost([id |-> r.op.id, val |-> r.op.val], r.act, asked \ {r})
    /\ UNCHANGED <<dtype, rows, buffer, bounds, history>>

-----------------------------------------------------------------------------
\* The lock button enables editing whatever is under way.
ClickLock ==
    /\ masked /\ masked' = FALSE
    /\ UNCHANGED <<dtype, rows, shown, buffer, asked, bounds, history>>

\* Another user edits an annotation.
OtherPatches(i) ==
    /\ others < MaxOthers /\ others' = others + 1
    /\ i \in Current
    /\ rows' = Append(rows, [rows[i] EXCEPT !.val = -others' - Seeds, !.mine = FALSE])
    /\ History(FALSE, past, frail, silent)
    /\ UNCHANGED <<dtype, shown, buffer, asked, masked, acts, faults>>

Init ==
    /\ dtype \in Types
    /\ rows = [i \in 1..Seeds |->
                [elem |-> i, val |-> -i, deleted |-> FALSE, pruned |-> FALSE, mine |-> FALSE]]
    /\ shown = ById(Merged)
    /\ fw = <<>> /\ bw = <<>> /\ index = 0
    /\ asked = {} /\ masked = FALSE
    /\ acts = 0 /\ faults = 0 /\ others = 0
    /\ past = <<View>> /\ frail = 0 /\ sure = TRUE /\ silent = FALSE

User ==
    /\ Cardinality(asked) < MaxRequests
    /\ \/ \E i \in DOMAIN shown :
            StartRemove(i) \/ \E kind \in Kinds : StartPatch(i, kind)
       \/ StartPost
       \/ Undo
       \/ Redo

Page(r) ==
    \/ PatchRead(r) \/ DelRead(r)
    \/ AnswerRefetch(r) \/ AnswerPatch(r) \/ AnswerPost(r) \/ AnswerRemove(r)
    \/ AnswerRecreated(r) \/ AnswerQuiet(r) \/ RunFunctor(r)

Server(r) == Serve(r) \/ Fail(r) \/ ServeRefetch(r)

Next ==
    \/ User
    \/ \E r \in asked : Page(r) \/ Server(r)
    \/ ClickLock
    \/ \E i \in DOMAIN rows : OtherPatches(i)

Spec == Init /\ [][Next]_vars

-----------------------------------------------------------------------------
(* Properties.                                                              *)

Methods == {"POST", "PATCH", "DELETE", "PRUNE", "STRAY", "select_old_obj", "delete_functor"}
OpType  == [m : Methods, id : Nat, val : Int]
RowType == [elem : Nat, val : Int, deleted : BOOLEAN, pruned : BOOLEAN, mine : BOOLEAN]

\* Every variable has its type, and the position is within the operations.
TypeOK ==
    /\ dtype \in Types
    /\ rows \in Seq(RowType)
    /\ shown \in Seq([id : Nat, val : Int])
    /\ fw \in Seq(Seq(OpType)) /\ bw \in Seq(Seq(OpType))
    /\ index \in 0..Len(fw)
    /\ {masked, sure, silent} \subseteq BOOLEAN

\* Whatever overlaps, fails or is filed under the wrong operation, the page
\* prunes only revisions that it has made itself: no revision of another user
\* or of an earlier session is ever removed by an undo.
OnlyOwnPruned == \A i \in DOMAIN rows : rows[i].pruned => rows[i].mine

\* A user who waits for every answer, undoes no creation, repeats and takes
\* back no operation on a revision that was pruned meanwhile, undoes none that
\* is older than one whose undo made a new revision, and edits no list that
\* misses an update, finds on the server what was there after that operation,
\* through any sequence of edits, undo and redo.
UndoIsExact == sure /\ ~Waiting => Len(past) > index /\ View = past[index + 1]

\* For such a user the list on the page is that of the server, without
\* duplicates, unless a PATCH was repeated: no update follows such a request.
ShownIsCurrent ==
    sure /\ ~Waiting /\ ~silent => ToSet(shown) = Merged /\ IsInjective(shown)

\* For such a user editing is enabled again when the last answer has arrived,
\* with the same exception.
EditingComesBack == sure /\ ~Waiting /\ masked => silent
=============================================================================
