------------------------ MODULE ResourcesSoundProofs ------------------------
(***************************************************************************)
(* Proofs about the files of media and their resources while requests      *)
(* overlap, die and deadlock: on the paths that `spoilt' does not name,    *)
(* the files that media name are stored, deletions count the right users,  *)
(* and no resource is left without a user.                                 *)
(*                                                                         *)
(* The invariant says of each such path who may work on it at once, how    *)
(* its resource, its links and the entries of media fit together meanwhile *)
(* and why its resource still has a user or will be deleted.               *)
(***************************************************************************)
EXTENDS ResourcesProofs, FiniteSetTheorems

RowAtHand == {"count", "cascade", "remove", "commit"}

\* What a request is like, at each of its stages.
Shape(p) ==
    job[p] = Idle \/
    /\ job[p] \in Job
    /\ media[job[p].media] \in {"live", "hidden"}
    /\ job[p].stage \in {"save", "detach", "commit", "attach", "link"} => job[p].op # "Prune"
    /\ job[p].stage = "save" => job[p].add = {}
    /\ job[p].stage \in {"save", "attach", "link"} => job[p].drop = {}
    /\ job[p].op # "Prune" /\ job[p].stage \in {"detach", "find"} => \E x \in Paths : job[p].drop = {x}
    /\ job[p].op # "Prune" /\ job[p].stage \in RowAtHand => job[p].drop = {}
    /\ job[p].op # "Prune" /\ job[p].stage \notin {"remove", "commit"} => job[p].cut = {}
    /\ job[p].op # "Prune" /\ job[p].stage # "commit" => job[p].rows = {}
    /\ job[p].stage \in RowAtHand \cup {"link"} =>
          job[p].path \in Paths /\ job[p].path \notin job[p].add /\ job[p].path \notin job[p].drop
    /\ job[p].stage \in RowAtHand => job[p].rid \in Rids /\ res[job[p].rid] \in {job[p].path, Deleted}
    /\ job[p].stage = "link" /\ job[p].rid # NoRid => job[p].rid \in Rids /\ res[job[p].rid] \in {job[p].path, Deleted}
    /\ job[p].drop \cap job[p].add = {}
    /\ \A l \in job[p].cut : res[l[1]] # Unused
    /\ \A r \in job[p].rows : res[r] # Unused

\* A prune has its media for itself, and has deleted all its links.
PruneAlone(p) ==
    ~At(p, "idle") /\ job[p].op = "Prune" =>
        /\ media[job[p].media] = "hidden"
        /\ job[p].add = {}
        /\ job[p].drop \subseteq PathsIn(files[job[p].media])
        /\ job[p].stage # "find" => job[p].path \in PathsIn(files[job[p].media])
        /\ \A q \in Others(p) : ~At(q, "idle") => job[q].media # job[p].media
        /\ \A l \in link : l[2] = job[p].media => l \in job[p].cut

\* A media that has no row, or no row yet, names no file.
NoFiles == \A m \in Media : media[m] \in {"free", "pruned"} => files[m] = {}

WorkInv ==
    /\ LinkInv
    /\ \A p \in Procs : Shape(p)
    /\ \A p \in Procs : PruneAlone(p)
    /\ NoFiles

(***************************************************************************)
(* What holds of one path a that is sound                                  *)
(***************************************************************************)
Named(m, a) == a \in PathsIn(files[m])

Twice(entries, a) == \E e, f \in entries : e # f /\ e[2] = a /\ f[2] = a

SoleRow(a) == \A r, s \in Rids : res[r] = a /\ res[s] = a => r = s

NamedOnce(a) ==
    /\ \A m \in Media : ~Twice(files[m], a)
    /\ \A p \in Procs : At(p, "save") => ~Twice(job[p].old, a)

\* Nobody leaves a path while another attaches it; two attach it for different media,
\* and only if it has its resource.
Apart(a) ==
    \A p, q \in Procs :
        p # q /\ a \in Attaching(p) =>
            /\ a \notin Leaving(q)
            /\ a \in Attaching(q) => /\ job[q].media # job[p].media
                                     /\ \E r \in Rids : res[r] = a

\* The media names what is being attached, it is stored, and not attached yet.
AttachKnown(a) ==
    \A p \in Procs : a \in Attaching(p) =>
        /\ Named(job[p].media, a)
        /\ a \in stored
        /\ \A r \in Rids : res[r] = a => <<r, job[p].media>> \notin link
        /\ At(p, "link") /\ job[p].path = a =>
              IF job[p].rid = NoRid THEN \A r \in Rids : res[r] # a ELSE res[job[p].rid] = a

Detaching(p, m, a) == At(p, "detach") /\ job[p].media = m /\ a \in job[p].drop

\* What a media names is attached, or about to be; what is attached is named, or about
\* to be detached.
Settled(a) ==
    \A m \in Media : Named(m, a) =>
        \/ \E p \in Procs : a \in Attaching(p) /\ job[p].media = m
        \/ \E r \in Rids : res[r] = a /\ <<r, m>> \in link
Linked(a) ==
    \A r \in Rids, m \in Media : res[r] = a /\ <<r, m>> \in link =>
        Named(m, a) \/ \E p \in Procs : Detaching(p, m, a)
DetachKnown(a) == \A p \in Procs, m \in Media : Detaching(p, m, a) => ~Named(m, a)

\* Who has the row of the path at hand has the only one.
RowKnown(a) ==
    \A p \in Procs : job[p].stage \in RowAtHand /\ job[p].path = a =>
        \A s \in Rids : res[s] = a => s = job[p].rid

\* Who has still to count the users of the path, and who found none of the row r.
Counting(p, a) == ~At(p, "idle") /\ (a \in job[p].drop \/ (At(p, "count") /\ job[p].path = a))
Decided(p, r) ==
    \/ (At(p, "cascade") \/ At(p, "remove")) /\ job[p].rid = r
    \/ r \in job[p].rows

DecidedKnown(a) ==
    \A p \in Procs, r \in Rids : res[r] = a /\ Decided(p, r) =>
        \A l \in link : l[1] = r => l \in job[p].cut
RowsKnown(a) ==
    \A p \in Procs, r \in Rids : res[r] = a /\ r \in job[p].rows =>
        a \in Leaving(p) /\ ~Counting(p, a)
CutKnown(a) ==
    \A p \in Procs : \A l \in job[p].cut : res[l[1]] = a =>
        job[p].op = "Prune" /\ l[2] = job[p].media

\* The object is there until the row is deleted.
Kept(a) == \A r \in Rids : res[r] = a /\ (\A p \in Procs : r \notin job[p].rows) => a \in stored

\* A link that nobody is deleting, or somebody who has still to look.
Held(a) ==
    \A r \in Rids : res[r] = a =>
        \/ \E l \in link : l[1] = r /\ \A p \in Procs : l \notin job[p].cut
        \/ \E p \in Procs : Counting(p, a) \/ Decided(p, r)

PathOK(a) ==
    /\ SoleRow(a) /\ NamedOnce(a) /\ Apart(a) /\ AttachKnown(a) /\ Settled(a) /\ Linked(a)
    /\ DetachKnown(a) /\ RowKnown(a) /\ DecidedKnown(a) /\ RowsKnown(a) /\ CutKnown(a)
    /\ Kept(a) /\ Held(a)

SoundInv == WorkInv /\ \A a \in Sound : PathOK(a)

(***************************************************************************)
(* Steps                                                                   *)
(***************************************************************************)
Own(p) == Request(p) \/ Continue(p) \/ Victim(p) \/ Abort(p)

\* The other requests stay where they are.
LEMMA OthersStay ==
    ASSUME TypeOK, NEW p \in Procs, Own(p), NEW q \in Procs, q # p
    PROVE  job'[q] = job[q]
<1>1. \E j : job' = [job EXCEPT ![p] = j] \/ job' = job
  <2>1. CASE Detach(p)
    BY <2>1 DEF Detach
  <2>2. CASE Remove(p) \/ Cascade(p)
    BY <2>2 DEF Remove, Cascade
  <2>3. CASE Request(p)
    BY <2>3 DEF Request, PostFile, PatchFile, DeleteFile, Clone, ReadMedia, PruneMedia, Start
  <2>4. CASE SaveMedia(p) \/ FindRow(p) \/ Count(p) \/ Commit(p) \/ Attach(p) \/ LinkNew(p)
             \/ LinkFound(p) \/ Victim(p) \/ Abort(p)
    BY <2>4 DEF SaveMedia, FindRow, Count, Commit, Attach, LinkNew, LinkFound, Victim, Abort,
                Finish
  <2>5. QED
    BY <2>1, <2>2, <2>3, <2>4 DEF Own, Continue
<1>2. QED
  BY <1>1 DEF TypeOK

\* A row is created once, and deleted for good.
LEMMA RowsChange ==
    ASSUME LinkInv, NEW p \in Procs, Own(p), NEW r \in Rids
    PROVE  \/ res'[r] = res[r]
           \/ /\ LinkNew(p) /\ res[r] = Unused /\ res'[r] = job[p].path
              /\ res' = [res EXCEPT ![r] = job[p].path]
              /\ link' = link \cup {<<r, job[p].media>>}
           \/ Commit(p) /\ r \in job[p].rows /\ res'[r] = Deleted
<1>1. TypeOK
  BY DEF LinkInv
<1>2. CASE UNCHANGED res
  BY <1>2
<1>3. CASE Commit(p)
  BY <1>1, <1>3 DEF Commit, TypeOK
<1>4. CASE LinkNew(p)
  <2>1. PICK s \in Rids : /\ res[s] = Unused
                          /\ res' = [res EXCEPT ![s] = job[p].path]
                          /\ link' = link \cup {<<s, job[p].media>>}
    BY <1>4 DEF LinkNew
  <2>2. QED
    BY <1>1, <1>4, <2>1 DEF TypeOK
<1>5. QED
  BY <1>2, <1>3, <1>4
     DEF Own, Request, Continue, PostFile, PatchFile, DeleteFile, Clone, ReadMedia, PruneMedia,
         SaveMedia, Detach, FindRow, Count, Cascade, Remove, Attach, LinkFound, Victim, Abort

\* What Proceed() keeps.
LEMMA ProceedFields ==
    ASSUME NEW j \in Job
    PROVE  \/ Proceed(j) = Idle /\ j.op # "Prune" /\ j.add = {}
           \/ /\ Proceed(j) \in Job
              /\ Proceed(j).stage = IF j.op = "Prune" THEN "find" ELSE "attach"
              /\ j.op # "Prune" => j.add # {}
              /\ Proceed(j).op = j.op /\ Proceed(j).media = j.media
              /\ Proceed(j).drop = j.drop /\ Proceed(j).add = j.add
              /\ Proceed(j).path = j.path /\ Proceed(j).rid = j.rid
              /\ Proceed(j).cut = j.cut /\ Proceed(j).rows = j.rows
  BY DEF Proceed, Job, Stages

\* Where p's next step leaves it: at a stage, with these fields.
Goes(p, stage, drop, add, path, rid, cut, rows) ==
    /\ job'[p] \in Job
    /\ job'[p].stage = stage
    /\ job'[p].op = job[p].op /\ job'[p].media = job[p].media
    /\ job'[p].drop = drop /\ job'[p].add = add
    /\ job'[p].path = path /\ job'[p].rid = rid
    /\ job'[p].cut = cut /\ job'[p].rows = rows

\* Where Proceed() leaves it.
GoesOn(p, drop, cut, rows) ==
    \/ job'[p] = Idle /\ job[p].op # "Prune" /\ job[p].add = {}
    \/ /\ Goes(p, IF job[p].op = "Prune" THEN "find" ELSE "attach", drop, job[p].add,
              job[p].path, job[p].rid, cut, rows)
       /\ job[p].op # "Prune" => job[p].add # {}

LEMMA ProceedGoes ==
    ASSUME TypeOK, NEW p \in Procs, job[p] \in Job, NEW j \in Job, job'[p] = Proceed(j),
           j.op = job[p].op, j.media = job[p].media, j.add = job[p].add, j.path = job[p].path,
           j.rid = job[p].rid
    PROVE  GoesOn(p, j.drop, j.cut, j.rows)
  BY ProceedFields DEF GoesOn, Goes

LEMMA DetachStep ==
    ASSUME TypeOK, NEW p \in Procs, Detach(p)
    PROVE  /\ job[p] \in Job /\ job[p].stage = "detach"
           /\ Goes(p, "find", job[p].drop, job[p].add, job[p].path, job[p].rid, job[p].cut,
                   job[p].rows)
<1>1. job[p] \in Job /\ job[p].stage = "detach"
  BY JobFields DEF Detach, At
<1>2. job'[p] = [job[p] EXCEPT !.stage = "find"]
  BY <1>1 DEF Detach, TypeOK
<1>3. QED
  BY <1>1, <1>2 DEF Goes, Job, Stages

LEMMA FindStep ==
    ASSUME TypeOK, NEW p \in Procs, FindRow(p)
    PROVE  /\ job[p] \in Job /\ job[p].stage = "find"
           /\ \E x \in job[p].drop :
                 \/ \E r \in Rids :
                       /\ RowsOf(p, x) = {r}
                       /\ Goes(p, "count", job[p].drop \ {x}, job[p].add, x, r, job[p].cut,
                               job[p].rows)
                 \/ /\ \A r \in Rids : RowsOf(p, x) # {r}
                    /\ GoesOn(p, job[p].drop \ {x}, job[p].cut, job[p].rows)
<1>1. job[p] \in Job /\ job[p].stage = "find"
  BY JobFields DEF FindRow, At
<1>2. PICK x \in job[p].drop :
        \/ \E r \in RowsOf(p, x) :
              /\ RowsOf(p, x) = {r}
              /\ job' = [job EXCEPT ![p] = [[job[p] EXCEPT !.drop = @ \ {x}]
                                           EXCEPT !.stage = "count", !.path = x, !.rid = r]]
        \/ /\ Cardinality(RowsOf(p, x)) # 1
           /\ job' = [job EXCEPT ![p] = Proceed([job[p] EXCEPT !.drop = @ \ {x}])]
  BY DEF FindRow
<1>3. x \in Paths
  BY <1>1 DEF Job
<1>4. PICK j : j = [job[p] EXCEPT !.drop = @ \ {x}]
  OBVIOUS
<1>5. /\ j \in Job /\ j.drop = job[p].drop \ {x} /\ j.op = job[p].op /\ j.media = job[p].media
      /\ j.add = job[p].add /\ j.path = job[p].path /\ j.rid = job[p].rid /\ j.cut = job[p].cut
      /\ j.rows = job[p].rows
  BY ONLY <1>1, <1>4 DEF Job
<1>6. ASSUME NEW r \in RowsOf(p, x), RowsOf(p, x) = {r},
             job' = [job EXCEPT ![p] = [j EXCEPT !.stage = "count", !.path = x, !.rid = r]]
      PROVE  r \in Rids /\ Goes(p, "count", job[p].drop \ {x}, job[p].add, x, r, job[p].cut,
                                job[p].rows)
  <2>1. r \in Rids
    BY DEF RowsOf
  <2>2. job'[p] = [j EXCEPT !.stage = "count", !.path = x, !.rid = r]
    BY <1>6 DEF TypeOK
  <2>3. QED
    BY <1>3, <1>5, <2>1, <2>2 DEF Goes, Job, Stages
<1>7. ASSUME Cardinality(RowsOf(p, x)) # 1, job' = [job EXCEPT ![p] = Proceed(j)]
      PROVE  /\ \A r \in Rids : RowsOf(p, x) # {r}
             /\ GoesOn(p, job[p].drop \ {x}, job[p].cut, job[p].rows)
  <2>1. \A r \in Rids : Cardinality({r}) = 1
    BY FS_Singleton
  <2>2. job'[p] = Proceed(j)
    BY <1>7 DEF TypeOK
  <2>3. GoesOn(p, j.drop, j.cut, j.rows)
    BY <1>1, <1>5, <2>2, ProceedGoes
  <2>4. QED
    BY <1>5, <1>7, <2>1, <2>3
<1>8. QED
  BY <1>1, <1>2, <1>4, <1>6, <1>7

LEMMA CountStep ==
    ASSUME TypeOK, NEW p \in Procs, Count(p)
    PROVE  /\ job[p] \in Job /\ job[p].stage = "count"
           /\ IF Users(p) # {} THEN GoesOn(p, job[p].drop, job[p].cut, job[p].rows)
              ELSE Goes(p, "cascade", job[p].drop, job[p].add, job[p].path, job[p].rid,
                        job[p].cut, job[p].rows)
<1>1. job[p] \in Job /\ job[p].stage = "count"
  BY JobFields DEF Count, At
<1>2. CASE Users(p) # {}
  <2>1. job'[p] = Proceed(job[p])
    BY <1>2 DEF Count, TypeOK
  <2>2. QED
    BY <1>1, <1>2, <2>1, ProceedGoes
<1>3. CASE Users(p) = {}
  <2>1. job'[p] = [job[p] EXCEPT !.stage = "cascade"]
    BY <1>3 DEF Count, TypeOK
  <2>2. QED
    BY <1>1, <1>3, <2>1 DEF Goes, Job, Stages
<1>4. QED
  BY <1>2, <1>3

LEMMA CascadeStep ==
    ASSUME TypeOK, NEW p \in Procs, Cascade(p)
    PROVE  /\ job[p] \in Job /\ job[p].stage = "cascade"
           /\ Goes(p, "remove", job[p].drop, job[p].add, job[p].path, job[p].rid,
                   job[p].cut \cup Users(p), job[p].rows)
<1>1. job[p] \in Job /\ job[p].stage = "cascade"
  BY JobFields DEF Cascade, At
<1>2. Users(p) \in SUBSET Links
  BY DEF Users, TypeOK
<1>3. job'[p] = [job[p] EXCEPT !.stage = "remove", !.cut = @ \cup Users(p)]
  BY <1>1 DEF Cascade, TypeOK, Job
<1>4. QED
  BY <1>1, <1>2, <1>3 DEF Goes, Job, Stages

LEMMA RemoveStep ==
    ASSUME TypeOK, NEW p \in Procs, Remove(p)
    PROVE  /\ job[p] \in Job /\ job[p].stage = "remove" /\ job[p].rid \in Rids
           /\ Goes(p, IF job[p].op = "Prune" THEN "find" ELSE "commit", job[p].drop, job[p].add,
                   job[p].path, job[p].rid, job[p].cut,
                   IF res[job[p].rid] = Deleted THEN job[p].rows ELSE job[p].rows \cup {job[p].rid})
<1>1. job[p] \in Job /\ job[p].stage = "remove" /\ job[p].rid \in Rids
  BY JobFields DEF Remove, At, TypeOK
<1>2. PICK rows : rows = IF res[job[p].rid] = Deleted THEN job[p].rows
                         ELSE job[p].rows \cup {job[p].rid}
  OBVIOUS
<1>3. PICK next : next = IF job[p].op = "Prune" THEN "find" ELSE "commit"
  OBVIOUS
<1>4. rows \in SUBSET Rids /\ next \in Stages
  BY <1>1, <1>2, <1>3 DEF Job, Stages
<1>5. job'[p] = [job[p] EXCEPT !.rows = rows, !.stage = next]
  BY <1>1, <1>2, <1>3 DEF Remove, TypeOK, Job
<1>6. Goes(p, next, job[p].drop, job[p].add, job[p].path, job[p].rid, job[p].cut, rows)
  BY <1>1, <1>4, <1>5 DEF Goes, Job
<1>7. QED
  BY <1>1, <1>2, <1>3, <1>6

\* The commit of p does not go through.
Fails(p) == \E l \in link : l[1] \in job[p].rows /\ l \notin job[p].cut

LEMMA CommitStep ==
    ASSUME TypeOK, NEW p \in Procs, Commit(p)
    PROVE  /\ job[p] \in Job
           /\ \/ job[p].stage = "commit"
              \/ job[p].stage = "find" /\ job[p].op = "Prune" /\ job[p].drop = {}
           /\ IF job[p].op = "Prune" THEN job'[p] = Idle ELSE GoesOn(p, job[p].drop, {}, {})
           /\ stored' = stored
           /\ IF Fails(p) THEN /\ UNCHANGED <<media, files, res, link>>
                              /\ spoilt' = spoilt \cup (Concern(p) \cap Watched)
              ELSE /\ res' = [r \in Rids |-> IF r \in job[p].rows THEN Deleted ELSE res[r]]
                   /\ link' = link \ job[p].cut
                   /\ media' = IF job[p].op = "Prune"
                               THEN [media EXCEPT ![job[p].media] = "pruned"] ELSE media
                   /\ files' = IF job[p].op = "Prune"
                               THEN [files EXCEPT ![job[p].media] = {}] ELSE files
                   /\ spoilt' = spoilt
<1>1. /\ job[p] \in Job
      /\ \/ job[p].stage = "commit"
         \/ job[p].stage = "find" /\ job[p].op = "Prune" /\ job[p].drop = {}
  BY JobFields DEF Commit, At
<1>2. PICK j : j = [job[p] EXCEPT !.cut = {}, !.rows = {}]
  OBVIOUS
<1>3. /\ j \in Job /\ j.drop = job[p].drop /\ j.op = job[p].op /\ j.media = job[p].media
      /\ j.add = job[p].add /\ j.path = job[p].path /\ j.rid = job[p].rid /\ j.cut = {}
      /\ j.rows = {}
  BY ONLY <1>1, <1>2 DEF Job
<1>4. job'[p] = IF job[p].op = "Prune" THEN Idle ELSE Proceed(j)
  BY <1>2 DEF Commit, TypeOK
<1>5. job[p].op # "Prune" => GoesOn(p, j.drop, j.cut, j.rows)
  BY <1>1, <1>3, <1>4, ProceedGoes
<1>6. IF job[p].op = "Prune" THEN job'[p] = Idle ELSE GoesOn(p, job[p].drop, {}, {})
  BY <1>3, <1>4, <1>5
<1>7. PICK ok \in BOOLEAN : ok <=> \A l \in link : l[1] \in job[p].rows => l \in job[p].cut
  OBVIOUS
<1>8. /\ res' = IF ok THEN [r \in Rids |-> IF r \in job[p].rows THEN Deleted ELSE res[r]] ELSE res
      /\ link' = IF ok THEN link \ job[p].cut ELSE link
      /\ media' = IF ok /\ job[p].op = "Prune" THEN [media EXCEPT ![job[p].media] = "pruned"]
                  ELSE media
      /\ files' = IF ok /\ job[p].op = "Prune" THEN [files EXCEPT ![job[p].media] = {}] ELSE files
      /\ spoilt' = spoilt \cup ((IF ok THEN {} ELSE Concern(p)) \cap Watched)
      /\ stored' = stored
  BY <1>7 DEF Commit, Spoils
<1>9. Fails(p) <=> ~ok
  BY <1>7 DEF Fails
<1>10. CASE ok
  BY <1>1, <1>6, <1>8, <1>9, <1>10
<1>11. CASE ~ok
  BY <1>1, <1>6, <1>8, <1>9, <1>11
<1>12. QED
  BY <1>10, <1>11

LEMMA AttachStep ==
    ASSUME TypeOK, NEW p \in Procs, Attach(p)
    PROVE  /\ job[p] \in Job /\ job[p].stage = "attach"
           /\ \E x \in job[p].add :
                 \/ /\ RowsOf(p, x) = {} /\ x \notin URLs /\ spoilt' = spoilt
                    /\ Goes(p, "link", job[p].drop, job[p].add \ {x}, x, NoRid, job[p].cut,
                            job[p].rows)
                 \/ \E r \in Rids :
                       /\ RowsOf(p, x) = {r} /\ x \notin URLs /\ spoilt' = spoilt
                       /\ Goes(p, "link", job[p].drop, job[p].add \ {x}, x, r, job[p].cut,
                               job[p].rows)
                 \/ job'[p] = Idle /\ spoilt' = spoilt \cup (Concern(p) \cap Watched)
<1>1. job[p] \in Job /\ job[p].stage = "attach"
  BY JobFields DEF Attach, At
<1>2. PICK x \in job[p].add :
        LET j == [job[p] EXCEPT !.stage = "link", !.path = x, !.add = @ \ {x}]
        IN  \/ /\ x \notin URLs
               /\ RowsOf(p, x) = {}
               /\ job' = [job EXCEPT ![p] = [j EXCEPT !.rid = NoRid]]
               /\ UNCHANGED spoilt
            \/ \E r \in RowsOf(p, x) :
                  /\ x \notin URLs
                  /\ RowsOf(p, x) = {r}
                  /\ job' = [job EXCEPT ![p] = [j EXCEPT !.rid = r]]
                  /\ UNCHANGED spoilt
            \/ /\ Finish(p)
               /\ Spoils(Concern(p))
  BY DEF Attach
<1>3. PICK j : j = [job[p] EXCEPT !.stage = "link", !.path = x, !.add = @ \ {x}]
  OBVIOUS
<1>4. x \in Paths
  BY <1>1 DEF Job
<1>5. /\ j \in Job /\ j.stage = "link" /\ j.path = x /\ j.add = job[p].add \ {x}
      /\ j.drop = job[p].drop /\ j.op = job[p].op /\ j.media = job[p].media
      /\ j.cut = job[p].cut /\ j.rows = job[p].rows
  BY ONLY <1>1, <1>3, <1>4 DEF Job, Stages
<1>6. ASSUME NEW r \in Rids \cup {NoRid}, job' = [job EXCEPT ![p] = [j EXCEPT !.rid = r]]
      PROVE  Goes(p, "link", job[p].drop, job[p].add \ {x}, x, r, job[p].cut, job[p].rows)
  <2>1. job'[p] = [j EXCEPT !.rid = r]
    BY <1>6 DEF TypeOK
  <2>2. QED
    BY <1>5, <2>1 DEF Goes, Job
<1>7. Finish(p) => job'[p] = Idle
  BY DEF Finish, TypeOK
<1>8. RowsOf(p, x) \subseteq Rids
  BY DEF RowsOf
<1>9. QED
  BY <1>1, <1>2, <1>3, <1>6, <1>7, <1>8 DEF Spoils

LEMMA LinkNewStep ==
    ASSUME TypeOK, NEW p \in Procs, LinkNew(p)
    PROVE  /\ job[p] \in Job /\ job[p].stage = "link" /\ job[p].rid = NoRid
           /\ GoesOn(p, job[p].drop, job[p].cut, job[p].rows)
<1>1. job[p] \in Job /\ job[p].stage = "link"
  BY JobFields DEF LinkNew, At
<1>2. job'[p] = Proceed(job[p])
  BY DEF LinkNew, TypeOK
<1>3. QED
  BY <1>1, <1>2, ProceedGoes DEF LinkNew

LEMMA LinkFoundStep ==
    ASSUME TypeOK, NEW p \in Procs, LinkFound(p)
    PROVE  /\ job[p] \in Job /\ job[p].stage = "link" /\ job[p].rid \in Rids
           /\ IF res[job[p].rid] # Deleted
              THEN /\ GoesOn(p, job[p].drop, job[p].cut, job[p].rows)
                   /\ link' = link \cup {<<job[p].rid, job[p].media>>}
                   /\ spoilt' = spoilt
              ELSE /\ job'[p] = Idle /\ link' = link
                   /\ spoilt' = spoilt \cup (Concern(p) \cap Watched)
<1>1. job[p] \in Job /\ job[p].stage = "link"
  BY JobFields DEF LinkFound, At
<1>2. job[p].rid \in Rids
  BY <1>1 DEF LinkFound, Job
<1>3. CASE res[job[p].rid] # Deleted
  <2>1. job'[p] = Proceed(job[p])
    BY <1>3 DEF LinkFound, TypeOK
  <2>2. GoesOn(p, job[p].drop, job[p].cut, job[p].rows)
    BY <1>1, <2>1, ProceedGoes
  <2>3. QED
    BY <1>1, <1>2, <1>3, <2>2 DEF LinkFound
<1>4. CASE res[job[p].rid] = Deleted
  BY <1>1, <1>2, <1>4 DEF LinkFound, Finish, Spoils, TypeOK
<1>5. QED
  BY <1>3, <1>4

LEMMA VictimStep ==
    ASSUME TypeOK, NEW p \in Procs, Victim(p)
    PROVE  /\ job[p] \in Job /\ job[p].stage \in {"cascade", "remove"}
           /\ GoesOn(p, job[p].drop, BeforeSavepoint(job[p]), job[p].rows)
           /\ spoilt' = spoilt \cup ({job[p].path} \cap Watched)
<1>1. job[p] \in Job /\ job[p].stage \in {"cascade", "remove"}
  BY VictimKnown
<1>2. PICK j : j = [job[p] EXCEPT !.cut = BeforeSavepoint(job[p])]
  OBVIOUS
<1>3. BeforeSavepoint(job[p]) \in SUBSET Links
  BY <1>1 DEF BeforeSavepoint, Job
<1>4. /\ j \in Job /\ j.drop = job[p].drop /\ j.op = job[p].op /\ j.media = job[p].media
      /\ j.add = job[p].add /\ j.path = job[p].path /\ j.rid = job[p].rid
      /\ j.cut = BeforeSavepoint(job[p]) /\ j.rows = job[p].rows
  BY ONLY <1>1, <1>2, <1>3 DEF Job
<1>5. job'[p] = Proceed(j)
  BY <1>2 DEF Victim, TypeOK
<1>6. GoesOn(p, j.drop, j.cut, j.rows)
  BY <1>1, <1>4, <1>5, ProceedGoes
<1>7. QED
  BY <1>1, <1>4, <1>6 DEF Victim, Spoils

\* Where a request begins.
Begins(p, stage, op, m, old, drop, add, cut) ==
    /\ job'[p] \in Job
    /\ job'[p].stage = stage /\ job'[p].op = op /\ job'[p].media = m /\ job'[p].old = old
    /\ job'[p].drop = drop /\ job'[p].add = add /\ job'[p].path = Unused
    /\ job'[p].rid = NoRid /\ job'[p].cut = cut /\ job'[p].rows = {}

LEMMA StartBegins ==
    ASSUME TypeOK, NEW p \in Procs, NEW stage \in {"save", "detach", "find", "attach"},
           NEW op \in AllOps, NEW m \in Media, NEW old \in SUBSET Entries,
           NEW drop \in SUBSET Paths, NEW add \in SUBSET Paths,
           Start(p, stage, op, m, old, drop, add)
    PROVE  Begins(p, stage, op, m, old, drop, add, {})
<1>1. PICK j : j = [stage |-> stage, op |-> op, media |-> m, old |-> old, drop |-> drop,
                    add |-> add, path |-> Unused, rid |-> NoRid, cut |-> {}, rows |-> {}]
  OBVIOUS
<1>2. job'[p] = j
  BY <1>1 DEF Start, TypeOK
<1>3. j \in Job
  BY <1>1 DEF Job, Stages
<1>4. QED
  BY <1>1, <1>2, <1>3 DEF Begins

LEMMA StartSpoils ==
    ASSUME NEW p, NEW stage, NEW op, NEW m, NEW old, NEW drop, NEW add,
           Start(p, stage, op, m, old, drop, add)
    PROVE  /\ op \in {"Post", "Patch"} =>
                 spoilt' = spoilt \cup
                     ((Collisions(p, add, drop) \cup (add \cap PathsIn(files[m]))) \cap Watched)
           /\ op \notin {"Post", "Patch"} =>
                 spoilt' = spoilt \cup (Collisions(p, add, drop) \cap Watched)
  BY DEF Start, Spoils

LEMMA StartWords ==
    /\ "save" \in {"save", "detach", "find", "attach"}
    /\ "detach" \in {"save", "detach", "find", "attach"}
    /\ "attach" \in {"save", "detach", "find", "attach"}
    /\ "Post" \in {"Post", "Patch"} /\ "Patch" \in {"Post", "Patch"}
    /\ "DeleteFile" \notin {"Post", "Patch"} /\ "Clone" \notin {"Post", "Patch"}
    /\ "Hide" \notin {"Post", "Patch"} /\ "Rewrite" \notin {"Post", "Patch"}
  OBVIOUS

LEMMA PostStep ==
    ASSUME TypeOK, NEW p \in Procs, PostFile(p)
    PROVE  /\ job[p].stage = "idle" /\ UNCHANGED <<media, stored, res, link>>
           /\ \E m \in Media, s \in Slots, x \in Paths :
                 /\ Editable(m) /\ Registrable(m, x)
                 /\ files' = [files EXCEPT ![m] = @ \cup {<<s, x>>}]
                 /\ IF x \in URLs THEN UNCHANGED <<job, spoilt>>
                    ELSE /\ Begins(p, "attach", "Post", m, {}, {}, {x}, {})
                         /\ spoilt' = spoilt \cup
                               ((Collisions(p, {x}, {}) \cup ({x} \cap PathsIn(files[m]))) \cap Watched)
<1>1. PICK m \in Media, s \in Slots, x \in Paths :
        /\ Editable(m) /\ Registrable(m, x)
        /\ files' = [files EXCEPT ![m] = @ \cup {<<s, x>>}]
        /\ IF x \in URLs THEN UNCHANGED <<job, spoilt>>
           ELSE Start(p, "attach", "Post", m, {}, {}, {x})
  BY DEF PostFile
<1>2. {} \in SUBSET Entries /\ {} \in SUBSET Paths /\ {x} \in SUBSET Paths /\ "Post" \in AllOps
  BY DEF AllOps
<1>3. CASE x \in URLs
  BY <1>1, <1>3 DEF PostFile, At
<1>4. CASE x \notin URLs
  <2>1. /\ Begins(p, "attach", "Post", m, {}, {}, {x}, {})
        /\ spoilt' = spoilt \cup ((Collisions(p, {x}, {}) \cup ({x} \cap PathsIn(files[m]))) \cap Watched)
    <3>1. Begins(p, "attach", "Post", m, {}, {}, {x}, {})
      BY <1>1, <1>2, <1>4, StartBegins, StartWords
    <3>2. spoilt' = spoilt \cup ((Collisions(p, {x}, {}) \cup ({x} \cap PathsIn(files[m]))) \cap Watched)
      BY <1>1, <1>2, <1>4, StartSpoils, StartWords
    <3>3. QED
      BY <3>1, <3>2
  <2>2. QED
    BY <1>1, <1>4, <2>1 DEF PostFile, At
<1>5. QED
  BY <1>3, <1>4

LEMMA PatchStep ==
    ASSUME TypeOK, NEW p \in Procs, PatchFile(p)
    PROVE  /\ job[p].stage = "idle" /\ UNCHANGED <<media, stored, res, link>>
           /\ \E m \in Media, s \in Slots, x \in Paths, y \in Paths :
                 /\ Editable(m) /\ Registrable(m, x) /\ y # x /\ <<s, y>> \in files[m]
                 /\ files' = [files EXCEPT ![m] = (@ \ {<<s, y>>}) \cup {<<s, x>>}]
                 /\ Begins(p, "detach", "Patch", m, {}, {y}, {x}, {})
                 /\ spoilt' = spoilt \cup
                       ((Collisions(p, {x}, {y}) \cup ({x} \cap PathsIn(files[m]))) \cap Watched)
<1>1. PICK m \in Media, x \in Paths : \E e \in files[m] :
        /\ Editable(m) /\ Registrable(m, x) /\ e[2] # x
        /\ files' = [files EXCEPT ![m] = (@ \ {e}) \cup {<<e[1], x>>}]
        /\ Start(p, "detach", "Patch", m, {}, {e[2]}, {x})
  BY DEF PatchFile
<1>2. PICK e \in files[m] :
        /\ Editable(m) /\ Registrable(m, x) /\ e[2] # x
        /\ files' = [files EXCEPT ![m] = (@ \ {e}) \cup {<<e[1], x>>}]
        /\ Start(p, "detach", "Patch", m, {}, {e[2]}, {x})
  BY <1>1
<1>3. PICK s \in Slots, y \in Paths : e = <<s, y>>
  BY <1>2 DEF TypeOK, Entries
<1>4. /\ {} \in SUBSET Entries /\ {y} \in SUBSET Paths /\ {x} \in SUBSET Paths
      /\ "Patch" \in AllOps
  BY DEF AllOps
<1>5. Start(p, "detach", "Patch", m, {}, {y}, {x})
  BY <1>2, <1>3
<1>6. /\ Begins(p, "detach", "Patch", m, {}, {y}, {x}, {})
      /\ spoilt' = spoilt \cup ((Collisions(p, {x}, {y}) \cup ({x} \cap PathsIn(files[m]))) \cap Watched)
  <2>1. Begins(p, "detach", "Patch", m, {}, {y}, {x}, {})
    BY <1>4, <1>5, StartBegins, StartWords
  <2>2. spoilt' = spoilt \cup ((Collisions(p, {x}, {y}) \cup ({x} \cap PathsIn(files[m]))) \cap Watched)
    BY <1>4, <1>5, StartSpoils, StartWords
  <2>3. QED
    BY <2>1, <2>2
<1>7. QED
  BY <1>2, <1>3, <1>6 DEF PatchFile, At

LEMMA DeleteStep ==
    ASSUME TypeOK, NEW p \in Procs, DeleteFile(p)
    PROVE  /\ job[p].stage = "idle" /\ UNCHANGED <<media, stored, res, link>>
           /\ \E m \in Media, s \in Slots, y \in Paths :
                 /\ Editable(m) /\ <<s, y>> \in files[m]
                 /\ files' = [files EXCEPT ![m] = @ \ {<<s, y>>}]
                 /\ Begins(p, "detach", "DeleteFile", m, {}, {y}, {}, {})
                 /\ spoilt' = spoilt \cup (Collisions(p, {}, {y}) \cap Watched)
<1>1. PICK m \in Media : \E e \in files[m] :
        /\ Editable(m)
        /\ files' = [files EXCEPT ![m] = @ \ {e}]
        /\ Start(p, "detach", "DeleteFile", m, {}, {e[2]}, {})
  BY DEF DeleteFile
<1>2. PICK e \in files[m] :
        /\ Editable(m)
        /\ files' = [files EXCEPT ![m] = @ \ {e}]
        /\ Start(p, "detach", "DeleteFile", m, {}, {e[2]}, {})
  BY <1>1
<1>3. PICK s \in Slots, y \in Paths : e = <<s, y>>
  BY <1>2 DEF TypeOK, Entries
<1>4. /\ {} \in SUBSET Entries /\ {y} \in SUBSET Paths /\ {} \in SUBSET Paths
      /\ "DeleteFile" \in AllOps
  BY DEF AllOps
<1>5. Start(p, "detach", "DeleteFile", m, {}, {y}, {})
  BY <1>2, <1>3
<1>6. /\ Begins(p, "detach", "DeleteFile", m, {}, {y}, {}, {})
      /\ spoilt' = spoilt \cup (Collisions(p, {}, {y}) \cap Watched)
  <2>1. Begins(p, "detach", "DeleteFile", m, {}, {y}, {}, {})
    BY <1>4, <1>5, StartBegins, StartWords
  <2>2. spoilt' = spoilt \cup (Collisions(p, {}, {y}) \cap Watched)
    BY <1>4, <1>5, StartSpoils, StartWords
  <2>3. QED
    BY <2>1, <2>2
<1>7. QED
  BY <1>2, <1>3, <1>6 DEF DeleteFile, At

LEMMA CloneStep ==
    ASSUME TypeOK, NEW p \in Procs, Clone(p)
    PROVE  /\ job[p].stage = "idle" /\ UNCHANGED <<stored, res, link>>
           /\ \E m \in Media, c \in Media :
                 /\ media[m] = "live" /\ media[c] = "free"
                 /\ media' = [media EXCEPT ![c] = "live"]
                 /\ files' = [files EXCEPT ![c] = files[m]]
                 /\ Begins(p, "attach", "Clone", c, {}, {}, PathsIn(files[m]), {})
                 /\ spoilt' = spoilt \cup (Collisions(p, PathsIn(files[m]), {}) \cap Watched)
<1>1. PICK m \in Media, c \in Media :
        /\ media[m] = "live" /\ media[c] = "free"
        /\ media' = [media EXCEPT ![c] = "live"]
        /\ files' = [files EXCEPT ![c] = files[m]]
        /\ Start(p, "attach", "Clone", c, {}, {}, PathsIn(files[m]))
  BY DEF Clone
<1>2. /\ {} \in SUBSET Entries /\ {} \in SUBSET Paths /\ "Clone" \in AllOps
      /\ PathsIn(files[m]) \in SUBSET Paths
  BY PathsInOK DEF AllOps, TypeOK
<1>3. /\ Begins(p, "attach", "Clone", c, {}, {}, PathsIn(files[m]), {})
      /\ spoilt' = spoilt \cup (Collisions(p, PathsIn(files[m]), {}) \cap Watched)
  <2>1. Begins(p, "attach", "Clone", c, {}, {}, PathsIn(files[m]), {})
    BY <1>1, <1>2, StartBegins, StartWords
  <2>2. spoilt' = spoilt \cup (Collisions(p, PathsIn(files[m]), {}) \cap Watched)
    BY <1>1, <1>2, StartSpoils, StartWords
  <2>3. QED
    BY <2>1, <2>2
<1>4. QED
  BY <1>1, <1>3 DEF Clone, At

LEMMA ReadStep ==
    ASSUME TypeOK, NEW p \in Procs, ReadMedia(p)
    PROVE  /\ job[p].stage = "idle" /\ UNCHANGED <<media, files, stored, res, link>>
           /\ \E op \in {"Hide", "Rewrite"}, m \in Media :
                 /\ media[m] = "live"
                 /\ Begins(p, "save", op, m, files[m], {}, {}, {})
           /\ spoilt' = spoilt
<1>1. PICK op \in {"Hide", "Rewrite"}, m \in Media :
        /\ media[m] = "live"
        /\ Start(p, "save", op, m, files[m], {}, {})
  BY DEF ReadMedia
<1>2. files[m] \in SUBSET Entries /\ {} \in SUBSET Paths /\ op \in AllOps /\ op \notin {"Post", "Patch"}
  BY DEF TypeOK, AllOps
<1>3. /\ Begins(p, "save", op, m, files[m], {}, {}, {})
      /\ spoilt' = spoilt \cup (Collisions(p, {}, {}) \cap Watched)
  <2>1. Begins(p, "save", op, m, files[m], {}, {}, {})
    BY <1>1, <1>2, StartBegins, StartWords
  <2>2. spoilt' = spoilt \cup (Collisions(p, {}, {}) \cap Watched)
    BY <1>1, <1>2, StartSpoils, StartWords
  <2>3. QED
    BY <2>1, <2>2
<1>4. Collisions(p, {}, {}) = {}
  BY DEF Collisions
<1>5. QED
  BY <1>1, <1>3, <1>4 DEF ReadMedia, At

LEMMA PruneStep ==
    ASSUME TypeOK, NEW p \in Procs, PruneMedia(p)
    PROVE  /\ job[p].stage = "idle" /\ UNCHANGED <<media, files, stored, res, link>>
           /\ \E m \in Media :
                 /\ media[m] = "hidden" /\ ~WorkedOn(m)
                 /\ Begins(p, "find", "Prune", m, {}, PathsIn(files[m]), {}, {l \in link : l[2] = m})
                 /\ spoilt' = spoilt \cup (Collisions(p, {}, PathsIn(files[m])) \cap Watched)
<1>1. PICK m \in Media :
        /\ media[m] = "hidden" /\ ~WorkedOn(m)
        /\ job' = [job EXCEPT ![p] =
                     [stage |-> "find", op |-> "Prune", media |-> m, old |-> {},
                      drop |-> PathsIn(files[m]), add |-> {}, path |-> Unused,
                      rid |-> NoRid, cut |-> {l \in link : l[2] = m}, rows |-> {}]]
        /\ Spoils(Collisions(p, {}, PathsIn(files[m])))
  BY DEF PruneMedia
<1>2. PICK j : j = [stage |-> "find", op |-> "Prune", media |-> m, old |-> {},
                    drop |-> PathsIn(files[m]), add |-> {}, path |-> Unused,
                    rid |-> NoRid, cut |-> {l \in link : l[2] = m}, rows |-> {}]
  OBVIOUS
<1>3. PathsIn(files[m]) \in SUBSET Paths /\ {l \in link : l[2] = m} \in SUBSET Links
  BY PathsInOK DEF TypeOK
<1>4. j \in Job
  BY <1>2, <1>3 DEF Job, Stages, AllOps
<1>5. job'[p] = j
  BY <1>1, <1>2 DEF TypeOK
<1>6. Begins(p, "find", "Prune", m, {}, PathsIn(files[m]), {}, {l \in link : l[2] = m})
  BY <1>2, <1>4, <1>5 DEF Begins
<1>7. QED
  BY <1>1, <1>6 DEF PruneMedia, At, Spoils

LEMMA SaveStep ==
    ASSUME TypeOK, NEW p \in Procs, SaveMedia(p)
    PROVE  /\ job[p] \in Job /\ job[p].stage = "save" /\ job'[p] = Idle
           /\ files' = [files EXCEPT ![job[p].media] = job[p].old]
           /\ media' = IF job[p].op = "Hide" THEN [media EXCEPT ![job[p].media] = "hidden"]
                       ELSE media
           /\ spoilt' = spoilt \cup
                 (((PathsIn(job[p].old) \ PathsIn(files[job[p].media]))
                    \cup (PathsIn(files[job[p].media]) \ PathsIn(job[p].old))) \cap Watched)
           /\ UNCHANGED <<stored, res, link>>
  BY JobFields DEF SaveMedia, At, Finish, Spoils, TypeOK

LEMMA AbortStep ==
    ASSUME TypeOK, NEW p \in Procs, Abort(p)
    PROVE  /\ job[p] \in Job /\ job'[p] = Idle
           /\ spoilt' = spoilt \cup (Concern(p) \cap Watched)
           /\ UNCHANGED <<media, files, stored, res, link>>
  BY JobFields DEF Abort, Finish, Spoils, TypeOK

LEMMA IdleStage == Idle.stage = "idle" /\ Idle.cut = {} /\ Idle.rows = {}
  BY DEF Idle

LEMMA JobStage == \A j \in Job : j.stage # "idle" /\ j # Idle
  BY DEF Job, Stages, Idle

\* A media that others work on keeps its row.
LEMMA OthersMediaStays ==
    ASSUME WorkInv, NEW p \in Procs, Own(p), NEW q \in Procs, q # p, job[q] # Idle,
           media[job[q].media] \in {"live", "hidden"}
    PROVE  media'[job[q].media] \in {"live", "hidden"}
<1>1. TypeOK /\ LinkInv /\ PruneAlone(p) /\ job[q] \in Job
  BY DEF WorkInv, LinkInv, TypeOK
<1>2. job[q].media \in Media /\ ~At(q, "idle")
  BY <1>1, JobStage DEF Job, At
<1>3. CASE UNCHANGED media
  BY <1>3
<1>4. CASE SaveMedia(p)
  BY <1>1, <1>2, <1>4, SaveStep DEF TypeOK
<1>5. CASE Clone(p)
  <2>1. PICK c \in Media : media' = [media EXCEPT ![c] = "live"]
    BY <1>1, <1>5, CloneStep
  <2>2. QED
    BY <1>1, <1>2, <2>1 DEF TypeOK
<1>6. CASE Commit(p)
  <2>1. CASE job[p].op # "Prune"
    BY <1>1, <1>6, <2>1, CommitStep
  <2>2. CASE job[p].op = "Prune"
    <3>1. job[p] \in Job /\ (media' = media \/ media' = [media EXCEPT ![job[p].media] = "pruned"])
      BY <1>1, <1>6, <2>2, CommitStep
    <3>2. ~At(p, "idle")
      BY <3>1, JobStage DEF At
    <3>3. job[q].media # job[p].media
      BY <1>1, <1>2, <2>2, <3>2 DEF PruneAlone, Others
    <3>4. QED
      BY <1>1, <1>2, <3>1, <3>3 DEF TypeOK
  <2>3. QED
    BY <2>1, <2>2
<1>7. QED
  BY <1>3, <1>4, <1>5, <1>6
     DEF Own, Request, Continue, PostFile, PatchFile, DeleteFile, ReadMedia, PruneMedia, Detach,
         FindRow, Count, Cascade, Remove, Attach, LinkNew, LinkFound, Victim, Abort

\* What is known of a row survives.
LEMMA RowsSurvive ==
    ASSUME LinkInv, NEW p \in Procs, Own(p), NEW r \in Rids
    PROVE  /\ res[r] # Unused => res'[r] # Unused
           /\ \A x \in Paths : res[r] \in {x, Deleted} => res'[r] \in {x, Deleted}
  BY RowsChange, ResourcesConstants

LEMMA ShapeOthers ==
    ASSUME WorkInv, NEW p \in Procs, Own(p), NEW q \in Procs, q # p, Shape(q)
    PROVE  Shape(q)'
<1>1. job'[q] = job[q] /\ LinkInv
  BY OthersStay DEF WorkInv, LinkInv
<1>2. CASE job[q] = Idle
  BY <1>1, <1>2 DEF Shape
<1>3. CASE job[q] # Idle
  <2>1. media'[job[q].media] \in {"live", "hidden"}
    BY <1>3, OthersMediaStays DEF Shape
  <2>2. (\A l \in job[q].cut : l[1] \in Rids) /\ \A r \in job[q].rows : r \in Rids
    BY <1>3 DEF Shape, Job, Links
  <2>3. QED
    BY <1>1, <1>3, <2>1, <2>2, RowsSurvive DEF Shape
<1>4. QED
  BY <1>2, <1>3

LEMMA ShapeRequest ==
    ASSUME WorkInv, NEW p \in Procs, Request(p)
    PROVE  Shape(p)'
<1>1. TypeOK /\ LinksHaveRows /\ Shape(p)
  BY DEF WorkInv, LinkInv
<1>2. CASE PostFile(p)
  <2>1. PICK m \in Media, x \in Paths :
          /\ Editable(m)
          /\ IF x \in URLs THEN job' = job
             ELSE Begins(p, "attach", "Post", m, {}, {}, {x}, {})
    BY <1>1, <1>2, PostStep
  <2>2. job[p] = Idle /\ media' = media
    BY <1>1, <1>2, PostStep, JobStage DEF TypeOK
  <2>3. CASE x \in URLs
    BY <2>1, <2>2, <2>3 DEF Shape
  <2>4. CASE x \notin URLs
    BY <2>1, <2>2, <2>4 DEF Shape, Begins, Editable, RowAtHand
  <2>5. QED
    BY <2>3, <2>4
<1>3. CASE PatchFile(p)
  <2>1. PICK m \in Media, x \in Paths, y \in Paths :
          /\ Editable(m) /\ y # x
          /\ Begins(p, "detach", "Patch", m, {}, {y}, {x}, {})
    BY <1>1, <1>3, PatchStep
  <2>2. media' = media
    BY <1>1, <1>3, PatchStep
  <2>3. QED
    BY <2>1, <2>2 DEF Shape, Begins, Editable, RowAtHand
<1>4. CASE DeleteFile(p)
  <2>1. PICK m \in Media, y \in Paths :
          /\ Editable(m)
          /\ Begins(p, "detach", "DeleteFile", m, {}, {y}, {}, {})
    BY <1>1, <1>4, DeleteStep
  <2>2. media' = media
    BY <1>1, <1>4, DeleteStep
  <2>3. QED
    BY <2>1, <2>2 DEF Shape, Begins, Editable, RowAtHand
<1>5. CASE Clone(p)
  <2>1. PICK m \in Media, c \in Media :
          /\ media' = [media EXCEPT ![c] = "live"]
          /\ Begins(p, "attach", "Clone", c, {}, {}, PathsIn(files[m]), {})
    BY <1>1, <1>5, CloneStep
  <2>2. media'[c] = "live"
    BY <1>1, <2>1 DEF TypeOK
  <2>3. QED
    BY <2>1, <2>2 DEF Shape, Begins, RowAtHand
<1>6. CASE ReadMedia(p)
  <2>1. PICK op \in {"Hide", "Rewrite"}, m \in Media :
          media[m] = "live" /\ Begins(p, "save", op, m, files[m], {}, {}, {})
    BY <1>1, <1>6, ReadStep
  <2>2. media' = media
    BY <1>1, <1>6, ReadStep
  <2>3. QED
    BY <2>1, <2>2 DEF Shape, Begins, RowAtHand
<1>7. CASE PruneMedia(p)
  <2>1. PICK m \in Media :
          /\ media[m] = "hidden"
          /\ Begins(p, "find", "Prune", m, {}, PathsIn(files[m]), {}, {l \in link : l[2] = m})
    BY <1>1, <1>7, PruneStep
  <2>2. media' = media /\ res' = res
    BY <1>1, <1>7, PruneStep
  <2>3. \A l \in {l \in link : l[2] = m} : res'[l[1]] # Unused
    BY <1>1, <2>2, ResourcesConstants DEF LinksHaveRows
  <2>4. QED
    BY <2>1, <2>2, <2>3 DEF Shape, Begins, RowAtHand
<1>8. QED
  BY <1>2, <1>3, <1>4, <1>5, <1>6, <1>7 DEF Request

\* Where Proceed() leaves a request of good shape.
LEMMA ShapeGoesOn ==
    ASSUME WorkInv, NEW p \in Procs, Own(p), Shape(p), job[p] \in Job,
           media'[job[p].media] \in {"live", "hidden"},
           NEW drop, NEW cut, NEW rows, GoesOn(p, drop, cut, rows),
           job[p].op # "Prune" => drop = {} /\ cut = {} /\ rows = {},
           drop \subseteq job[p].drop, cut \subseteq job[p].cut, rows \subseteq job[p].rows
    PROVE  Shape(p)'
<1>1. CASE job'[p] = Idle
  BY <1>1 DEF Shape
<1>2. CASE job'[p] # Idle
  <2>1. /\ job'[p] \in Job
        /\ job'[p].stage = IF job[p].op = "Prune" THEN "find" ELSE "attach"
        /\ job'[p].op = job[p].op /\ job'[p].media = job[p].media /\ job'[p].add = job[p].add
        /\ job'[p].drop = drop /\ job'[p].cut = cut /\ job'[p].rows = rows
    BY <1>2 DEF GoesOn, Goes
  <2>2. /\ \A l \in cut : l[1] \in Rids /\ res[l[1]] # Unused
        /\ \A r \in rows : r \in Rids /\ res[r] # Unused
    BY DEF Shape, Job, Links, Idle
  <2>3. (\A l \in cut : res'[l[1]] # Unused) /\ \A r \in rows : res'[r] # Unused
    BY <2>2, RowsSurvive DEF WorkInv
  <2>4. drop \cap job[p].add = {}
    BY DEF Shape, Job, Idle
  <2>5. QED
    BY <2>1, <2>3, <2>4 DEF Shape, RowAtHand
<1>3. QED
  BY <1>1, <1>2

\* The later steps leave a request of good shape, too.
LEMMA ShapeContinue ==
    ASSUME WorkInv, NEW p \in Procs, Continue(p) \/ Victim(p) \/ Abort(p)
    PROVE  Shape(p)'
<1>1. TypeOK /\ LinksHaveRows /\ Shape(p) /\ LinkInv /\ Own(p)
  BY DEF WorkInv, LinkInv, Own
<1>2. CASE job'[p] = Idle
  BY <1>2 DEF Shape
<1>3. CASE Detach(p)
  <2>1. /\ job[p] \in Job /\ job[p].stage = "detach"
        /\ Goes(p, "find", job[p].drop, job[p].add, job[p].path, job[p].rid, job[p].cut,
                job[p].rows)
        /\ media' = media /\ res' = res
    BY <1>1, <1>3, DetachStep DEF Detach
  <2>2. job[p] # Idle
    BY <2>1, JobStage
  <2>3. QED
    BY <1>1, <2>1, <2>2 DEF Goes, Shape, RowAtHand
<1>4. CASE FindRow(p)
  <2>1. /\ job[p] \in Job /\ job[p].stage = "find"
        /\ media' = media /\ res' = res
    BY <1>1, <1>4, FindStep DEF FindRow
  <2>2. PICK x \in job[p].drop :
           \/ \E r \in Rids :
                 /\ RowsOf(p, x) = {r}
                 /\ Goes(p, "count", job[p].drop \ {x}, job[p].add, x, r, job[p].cut,
                         job[p].rows)
           \/ GoesOn(p, job[p].drop \ {x}, job[p].cut, job[p].rows)
    BY <1>1, <1>4, FindStep
  <2>3. job[p] # Idle /\ x \in Paths
    BY <2>1, JobStage DEF Job
  <2>4. job[p].op # "Prune" => job[p].drop = {x} /\ job[p].cut = {} /\ job[p].rows = {}
    BY <1>1, <2>1, <2>3 DEF Shape
  <2>5. ASSUME NEW r \in Rids, RowsOf(p, x) = {r},
               Goes(p, "count", job[p].drop \ {x}, job[p].add, x, r, job[p].cut, job[p].rows)
        PROVE  Shape(p)'
    <3>1. res[r] = x
      BY <2>5 DEF RowsOf
    <3>2. QED
      BY <1>1, <2>1, <2>3, <2>4, <2>5, <3>1 DEF Goes, Shape, RowAtHand
  <2>6. ASSUME GoesOn(p, job[p].drop \ {x}, job[p].cut, job[p].rows)
        PROVE  Shape(p)'
    <3>1. media'[job[p].media] \in {"live", "hidden"}
      BY <1>1, <2>1, <2>3 DEF Shape
    <3>2. QED
      BY <1>1, <2>1, <2>4, <2>6, <3>1, ShapeGoesOn
  <2>7. QED
    BY <2>2, <2>5, <2>6
<1>5. CASE Count(p)
  <2>1. /\ job[p] \in Job /\ job[p].stage = "count" /\ job[p] # Idle
        /\ media' = media /\ res' = res
    BY <1>1, <1>5, CountStep, JobStage DEF Count
  <2>2. \/ GoesOn(p, job[p].drop, job[p].cut, job[p].rows)
        \/ Goes(p, "cascade", job[p].drop, job[p].add, job[p].path, job[p].rid, job[p].cut,
                job[p].rows)
    BY <1>1, <1>5, CountStep
  <2>3. job[p].op # "Prune" => job[p].drop = {} /\ job[p].cut = {} /\ job[p].rows = {}
    BY <1>1, <2>1 DEF Shape, RowAtHand
  <2>4. CASE GoesOn(p, job[p].drop, job[p].cut, job[p].rows)
    <3>1. media'[job[p].media] \in {"live", "hidden"}
      BY <1>1, <2>1 DEF Shape
    <3>2. QED
      BY <1>1, <2>1, <2>3, <2>4, <3>1, ShapeGoesOn
  <2>5. CASE Goes(p, "cascade", job[p].drop, job[p].add, job[p].path, job[p].rid, job[p].cut,
                  job[p].rows)
    BY <1>1, <2>1, <2>5 DEF Goes, Shape, RowAtHand
  <2>6. QED
    BY <2>2, <2>4, <2>5
<1>6. CASE Cascade(p)
  <2>1. /\ job[p] \in Job /\ job[p].stage = "cascade" /\ job[p] # Idle
        /\ media' = media /\ res' = res
    BY <1>1, <1>6, CascadeStep, JobStage DEF Cascade
  <2>2. Goes(p, "remove", job[p].drop, job[p].add, job[p].path, job[p].rid,
             job[p].cut \cup Users(p), job[p].rows)
    BY <1>1, <1>6, CascadeStep
  <2>3. \A l \in Users(p) : res[l[1]] # Unused
    BY <1>1, ResourcesConstants DEF Users, LinksHaveRows
  <2>4. QED
    BY <1>1, <2>1, <2>2, <2>3 DEF Goes, Shape, RowAtHand
<1>7. CASE Remove(p)
  <2>1. /\ job[p] \in Job /\ job[p].stage = "remove" /\ job[p] # Idle
        /\ media' = media /\ res' = res
    BY <1>1, <1>7, RemoveStep, JobStage DEF Remove
  <2>2. PICK rows : /\ rows = IF res[job[p].rid] = Deleted THEN job[p].rows
                               ELSE job[p].rows \cup {job[p].rid}
                    /\ Goes(p, IF job[p].op = "Prune" THEN "find" ELSE "commit", job[p].drop,
                            job[p].add, job[p].path, job[p].rid, job[p].cut, rows)
    BY <1>1, <1>7, RemoveStep
  <2>3. res[job[p].rid] # Unused
    BY <1>1, <2>1, ResourcesConstants DEF Shape, RowAtHand
  <2>4. \A r \in rows : res'[r] # Unused
    BY <1>1, <2>1, <2>2, <2>3 DEF Shape
  <2>5. QED
    BY <1>1, <2>1, <2>2, <2>4 DEF Goes, Shape, RowAtHand
<1>8. CASE Commit(p) /\ job[p].op # "Prune"
  <2>1. /\ job[p] \in Job /\ job[p].stage = "commit" /\ job[p] # Idle
        /\ GoesOn(p, job[p].drop, {}, {})
        /\ media' = media
    BY <1>1, <1>8, CommitStep, JobStage
  <2>2. media'[job[p].media] \in {"live", "hidden"} /\ job[p].drop = {}
    BY <1>1, <1>8, <2>1 DEF Shape, RowAtHand
  <2>3. QED
    BY <1>1, <2>1, <2>2, ShapeGoesOn
<1>9. CASE Attach(p)
  <2>1. /\ job[p] \in Job /\ job[p].stage = "attach" /\ job[p] # Idle
        /\ media' = media /\ res' = res
    BY <1>1, <1>9, AttachStep, JobStage DEF Attach
  <2>2. PICK x \in job[p].add :
           \/ \E r \in Rids \cup {NoRid} :
                 /\ r \in Rids => RowsOf(p, x) = {r}
                 /\ Goes(p, "link", job[p].drop, job[p].add \ {x}, x, r, job[p].cut,
                         job[p].rows)
           \/ job'[p] = Idle
    BY <1>1, <1>9, AttachStep, ResourcesConstants
  <2>3. x \in Paths
    BY <2>1 DEF Job
  <2>4. ASSUME NEW r \in Rids \cup {NoRid}, r \in Rids => RowsOf(p, x) = {r},
               Goes(p, "link", job[p].drop, job[p].add \ {x}, x, r, job[p].cut, job[p].rows)
        PROVE  Shape(p)'
    <3>1. r \in Rids => res[r] = x
      BY <2>4 DEF RowsOf
    <3>2. QED
      BY <1>1, <2>1, <2>3, <2>4, <3>1 DEF Goes, Shape, RowAtHand
  <2>5. QED
    BY <1>2, <2>2, <2>4
<1>10. CASE LinkNew(p)
  <2>1. /\ job[p] \in Job /\ job[p].stage = "link" /\ job[p] # Idle
        /\ GoesOn(p, job[p].drop, job[p].cut, job[p].rows)
        /\ media' = media
    BY <1>1, <1>10, LinkNewStep, JobStage DEF LinkNew
  <2>2. /\ media'[job[p].media] \in {"live", "hidden"}
        /\ job[p].drop = {} /\ job[p].op # "Prune" /\ job[p].cut = {} /\ job[p].rows = {}
    BY <1>1, <2>1 DEF Shape, RowAtHand
  <2>3. QED
    BY <1>1, <2>1, <2>2, ShapeGoesOn
<1>11. CASE LinkFound(p)
  <2>1. /\ job[p] \in Job /\ job[p].stage = "link" /\ job[p] # Idle
        /\ GoesOn(p, job[p].drop, job[p].cut, job[p].rows) \/ job'[p] = Idle
        /\ media' = media
    BY <1>1, <1>11, LinkFoundStep, JobStage DEF LinkFound
  <2>2. /\ media'[job[p].media] \in {"live", "hidden"}
        /\ job[p].drop = {} /\ job[p].op # "Prune" /\ job[p].cut = {} /\ job[p].rows = {}
    BY <1>1, <2>1 DEF Shape, RowAtHand
  <2>3. QED
    BY <1>1, <1>2, <2>1, <2>2, ShapeGoesOn
<1>12. CASE Victim(p)
  <2>1. /\ job[p] \in Job /\ job[p].stage \in {"cascade", "remove"} /\ job[p] # Idle
        /\ GoesOn(p, job[p].drop, BeforeSavepoint(job[p]), job[p].rows)
        /\ media' = media
    BY <1>1, <1>12, VictimStep, JobStage DEF Victim
  <2>2. BeforeSavepoint(job[p]) \subseteq job[p].cut
    BY DEF BeforeSavepoint
  <2>3. job[p].op # "Prune" => job[p].drop = {} /\ BeforeSavepoint(job[p]) = {} /\ job[p].rows = {}
    BY <1>1, <2>1 DEF Shape, RowAtHand, BeforeSavepoint
  <2>4. media'[job[p].media] \in {"live", "hidden"}
    BY <1>1, <2>1 DEF Shape
  <2>5. QED
    BY <1>1, <2>1, <2>2, <2>3, <2>4, ShapeGoesOn
<1>13. SaveMedia(p) \/ Abort(p) \/ (Commit(p) /\ job[p].op = "Prune") => job'[p] = Idle
  BY <1>1, SaveStep, AbortStep, CommitStep
<1>14. QED
  BY <1>2, <1>3, <1>4, <1>5, <1>6, <1>7, <1>8, <1>9, <1>10, <1>11, <1>12, <1>13 DEF Continue


\* A media that is being pruned is out of reach of the others.
LEMMA PruneOutOfReach ==
    ASSUME WorkInv, NEW p \in Procs, Own(p), NEW q \in Procs, q # p, ~At(q, "idle"),
           job[q].op = "Prune"
    PROVE  /\ media'[job[q].media] = "hidden"
           /\ files'[job[q].media] = files[job[q].media]
           /\ \A l \in link' : l[2] = job[q].media => l \in link
           /\ job'[p] # Idle => job'[p].media # job[q].media
<1> DEFINE n == job[q].media
<1>1. TypeOK /\ PruneAlone(p) /\ PruneAlone(q)
  BY DEF WorkInv, LinkInv
<1>2. n \in Media /\ media[n] = "hidden"
  BY <1>1, JobFields DEF PruneAlone
<1>3. \A m \in Media : Editable(m) \/ media[m] = "live" \/ ~WorkedOn(m) => m # n
  BY <1>2 DEF Editable, Pruning, WorkedOn
<1>4. ~At(p, "idle") => job[p].media # n
  BY <1>1 DEF PruneAlone, Others
<1>5. job[p] \in Job => ~At(p, "idle")
  BY JobStage DEF At
<1> HIDE DEF n
<1> SUFFICES media'[n] = "hidden" /\ files'[n] = files[n]
             /\ (\A l \in link' : l[2] = n => l \in link) /\ (job'[p] # Idle => job'[p].media # n)
  BY DEF n
<1>6. CASE PostFile(p)
  <2>1. PICK m \in Media, s \in Slots, x \in Paths :
          /\ Editable(m)
          /\ files' = [files EXCEPT ![m] = @ \cup {<<s, x>>}]
          /\ IF x \in URLs THEN job' = job
             ELSE Begins(p, "attach", "Post", m, {}, {}, {x}, {})
    BY <1>1, <1>6, PostStep
  <2>2. job[p] = Idle /\ media' = media /\ link' = link
    BY <1>1, <1>6, PostStep, JobStage DEF TypeOK
  <2>3. QED
    BY <1>1, <1>2, <1>3, <2>1, <2>2 DEF TypeOK, Begins
<1>7. CASE PatchFile(p)
  <2>1. PICK m \in Media, s \in Slots, x \in Paths, y \in Paths :
          /\ Editable(m)
          /\ files' = [files EXCEPT ![m] = (@ \ {<<s, y>>}) \cup {<<s, x>>}]
          /\ Begins(p, "detach", "Patch", m, {}, {y}, {x}, {})
    BY <1>1, <1>7, PatchStep
  <2>2. media' = media /\ link' = link
    BY <1>1, <1>7, PatchStep
  <2>3. QED
    BY <1>1, <1>2, <1>3, <2>1, <2>2 DEF TypeOK, Begins
<1>8. CASE DeleteFile(p)
  <2>1. PICK m \in Media, s \in Slots, y \in Paths :
          /\ Editable(m)
          /\ files' = [files EXCEPT ![m] = @ \ {<<s, y>>}]
          /\ Begins(p, "detach", "DeleteFile", m, {}, {y}, {}, {})
    BY <1>1, <1>8, DeleteStep
  <2>2. media' = media /\ link' = link
    BY <1>1, <1>8, DeleteStep
  <2>3. QED
    BY <1>1, <1>2, <1>3, <2>1, <2>2 DEF TypeOK, Begins
<1>9. CASE Clone(p)
  <2>1. PICK m \in Media, c \in Media :
          /\ media[c] = "free"
          /\ media' = [media EXCEPT ![c] = "live"]
          /\ files' = [files EXCEPT ![c] = files[m]]
          /\ Begins(p, "attach", "Clone", c, {}, {}, PathsIn(files[m]), {})
    BY <1>1, <1>9, CloneStep
  <2>2. link' = link
    BY <1>1, <1>9, CloneStep
  <2>3. QED
    BY <1>1, <1>2, <1>3, <2>1, <2>2 DEF TypeOK, Begins
<1>10. CASE ReadMedia(p)
  <2>1. PICK op \in {"Hide", "Rewrite"}, m \in Media :
          media[m] = "live" /\ Begins(p, "save", op, m, files[m], {}, {}, {})
    BY <1>1, <1>10, ReadStep
  <2>2. media' = media /\ files' = files /\ link' = link
    BY <1>1, <1>10, ReadStep
  <2>3. QED
    BY <1>2, <1>3, <2>1, <2>2 DEF Begins
<1>11. CASE PruneMedia(p)
  <2>1. PICK m \in Media :
          /\ ~WorkedOn(m)
          /\ Begins(p, "find", "Prune", m, {}, PathsIn(files[m]), {}, {l \in link : l[2] = m})
    BY <1>1, <1>11, PruneStep
  <2>2. media' = media /\ files' = files /\ link' = link
    BY <1>1, <1>11, PruneStep
  <2>3. QED
    BY <1>2, <1>3, <2>1, <2>2 DEF Begins
<1>12. CASE SaveMedia(p)
  <2>1. /\ job[p] \in Job /\ job'[p] = Idle /\ link' = link
        /\ files' = [files EXCEPT ![job[p].media] = job[p].old]
        /\ media' = media \/ media' = [media EXCEPT ![job[p].media] = "hidden"]
    BY <1>1, <1>12, SaveStep
  <2>2. QED
    BY <1>1, <1>2, <1>4, <1>5, <2>1 DEF TypeOK
<1>13. CASE Commit(p)
  <2>1. /\ job[p] \in Job
        /\ job'[p] # Idle => job'[p].media = job[p].media
        /\ link' \subseteq link
        /\ files' = files \/ files' = [files EXCEPT ![job[p].media] = {}]
        /\ media' = media \/ media' = [media EXCEPT ![job[p].media] = "pruned"]
    BY <1>1, <1>13, CommitStep DEF GoesOn, Goes
  <2>2. QED
    BY <1>1, <1>2, <1>4, <1>5, <2>1 DEF TypeOK
<1>14. CASE LinkNew(p) \/ LinkFound(p)
  <2>1. /\ job[p] \in Job
        /\ job'[p] # Idle => job'[p].media = job[p].media
        /\ files' = files /\ media' = media
    BY <1>1, <1>14, LinkNewStep, LinkFoundStep DEF GoesOn, Goes, LinkNew, LinkFound
  <2>2. \E r : link' \subseteq link \cup {<<r, job[p].media>>}
    BY <1>14 DEF LinkNew, LinkFound
  <2>3. QED
    BY <1>2, <1>4, <1>5, <2>1, <2>2
<1>15. CASE FindRow(p) \/ Count(p) \/ Cascade(p) \/ Remove(p) \/ Detach(p) \/ Attach(p) \/ Victim(p) \/ Abort(p)
  <2>1. /\ job[p] \in Job
        /\ job'[p] # Idle => job'[p].media = job[p].media
    BY <1>1, <1>15, FindStep, CountStep, CascadeStep, RemoveStep, DetachStep, AttachStep,
       VictimStep, AbortStep DEF GoesOn, Goes
  <2>2. files' = files /\ media' = media /\ link' \subseteq link
    BY <1>15 DEF FindRow, Count, Cascade, Remove, Detach, Attach, Victim, Abort
  <2>3. QED
    BY <1>2, <1>4, <1>5, <2>1, <2>2
<1>16. QED
  BY <1>6, <1>7, <1>8, <1>9, <1>10, <1>11, <1>12, <1>13, <1>14, <1>15
     DEF Own, Request, Continue


LEMMA PruneOthers ==
    ASSUME WorkInv, NEW p \in Procs, Own(p), NEW q \in Procs, q # p
    PROVE  PruneAlone(q)'
<1>1. TypeOK /\ PruneAlone(q) /\ job'[q] = job[q]
  BY OthersStay DEF WorkInv, LinkInv
<1>2. CASE At(q, "idle") \/ job[q].op # "Prune"
  BY <1>1, <1>2 DEF PruneAlone, At
<1>3. CASE ~At(q, "idle") /\ job[q].op = "Prune"
  <2>1. /\ media'[job[q].media] = "hidden"
        /\ files'[job[q].media] = files[job[q].media]
        /\ \A l \in link' : l[2] = job[q].media => l \in link
        /\ job'[p] # Idle => job'[p].media # job[q].media
    BY <1>3, PruneOutOfReach
  <2>2. ASSUME NEW o \in Procs, o # q, job'[o].stage # "idle"
        PROVE  job'[o].media # job[q].media
    <3>1. CASE o = p
      BY <2>1, <2>2, <3>1, IdleStage
    <3>2. CASE o # p
      BY <1>1, <1>3, <2>2, <3>2, OthersStay DEF PruneAlone, Others, At
    <3>3. QED
      BY <3>1, <3>2
  <2>3. QED
    BY <1>1, <1>3, <2>1, <2>2 DEF PruneAlone, Others, At
<1>4. QED
  BY <1>2, <1>3

\* The prune command goes on with the media it has.
LEMMA PruneGoesOn ==
    ASSUME WorkInv, NEW p \in Procs, Own(p), job[p] \in Job, job[p].op = "Prune",
           job'[p].op = "Prune", job'[p].media = job[p].media,
           UNCHANGED <<media, files, link>>, job'[p].add = job[p].add,
           job'[p].drop \subseteq job[p].drop,
           job'[p].stage # "find" => job'[p].path \in PathsIn(files[job[p].media]),
           \A l \in job[p].cut : l[2] = job[p].media => l \in job'[p].cut
    PROVE  PruneAlone(p)'
<1>1. ~At(p, "idle") /\ PruneAlone(p) /\ TypeOK
  BY JobStage DEF At, WorkInv, LinkInv
<1>2. \A q \in Procs : q # p => job'[q] = job[q]
  BY <1>1, OthersStay
<1>3. QED
  BY <1>1, <1>2 DEF PruneAlone, Others, At

LEMMA PruneOwn ==
    ASSUME WorkInv, NEW p \in Procs, Own(p)
    PROVE  PruneAlone(p)'
<1>1. TypeOK /\ PruneAlone(p) /\ Shape(p)
  BY DEF WorkInv, LinkInv
<1>2. CASE job'[p].stage = "idle" \/ job'[p].op # "Prune"
  BY <1>2 DEF PruneAlone, At
<1>3. CASE PruneMedia(p)
  <2>1. PICK m \in Media :
          /\ media[m] = "hidden" /\ ~WorkedOn(m)
          /\ Begins(p, "find", "Prune", m, {}, PathsIn(files[m]), {}, {l \in link : l[2] = m})
    BY <1>1, <1>3, PruneStep
  <2>2. UNCHANGED <<media, files, link>>
    BY <1>1, <1>3, PruneStep
  <2>3. ASSUME NEW q \in Procs, q # p, job'[q].stage # "idle" PROVE job'[q].media # m
    BY <1>1, <2>1, <2>3, OthersStay DEF WorkedOn, At
  <2>4. QED
    BY <2>1, <2>2, <2>3 DEF PruneAlone, Begins, Others, At
<1>4. CASE PostFile(p) \/ PatchFile(p) \/ DeleteFile(p) \/ Clone(p) \/ ReadMedia(p)
  <2>1. \/ job'[p] = job[p] /\ job[p].stage = "idle"
        \/ job'[p].op \in {"Post", "Patch", "DeleteFile", "Clone", "Hide", "Rewrite"}
    <3>1. CASE PostFile(p)
      BY <1>1, <3>1, PostStep DEF Begins
    <3>2. CASE PatchFile(p)
      BY <1>1, <3>2, PatchStep DEF Begins
    <3>3. CASE DeleteFile(p)
      BY <1>1, <3>3, DeleteStep DEF Begins
    <3>4. CASE Clone(p)
      BY <1>1, <3>4, CloneStep DEF Begins
    <3>5. CASE ReadMedia(p)
      BY <1>1, <3>5, ReadStep DEF Begins
    <3>6. QED
      BY <1>4, <3>1, <3>2, <3>3, <3>4, <3>5
  <2>2. QED
    BY <1>2, <2>1
<1>5. CASE ~Request(p) /\ job'[p].stage # "idle" /\ job'[p].op = "Prune"
  <2>1. CASE FindRow(p)
    <3>1. job[p] \in Job /\ job[p].stage = "find" /\ UNCHANGED <<media, files, link>>
      BY <1>1, <2>1, FindStep DEF FindRow
    <3>2. PICK x \in job[p].drop :
             \/ \E r \in Rids : Goes(p, "count", job[p].drop \ {x}, job[p].add, x, r, job[p].cut,
                                     job[p].rows)
             \/ GoesOn(p, job[p].drop \ {x}, job[p].cut, job[p].rows)
      BY <1>1, <2>1, FindStep
    <3>3. /\ job[p].op = "Prune" /\ job'[p].media = job[p].media /\ job'[p].add = job[p].add
          /\ job'[p].drop = job[p].drop \ {x} /\ job'[p].cut = job[p].cut
          /\ job'[p].stage # "find" => job'[p].path = x
      BY <1>5, <3>2, IdleStage DEF Goes, GoesOn
    <3>4. x \in PathsIn(files[job[p].media])
      BY <1>1, <3>1, <3>2, <3>3, JobStage DEF PruneAlone, At
    <3>5. QED
      BY <1>5, <3>1, <3>3, <3>4, PruneGoesOn
  <2>2. CASE Count(p) \/ Cascade(p) \/ Remove(p)
    <3>1. /\ job[p] \in Job /\ job[p].stage \in RowStages /\ UNCHANGED <<media, files, link>>
          /\ job'[p].op = job[p].op /\ job'[p].media = job[p].media /\ job'[p].add = job[p].add
          /\ job'[p].drop = job[p].drop /\ job[p].cut \subseteq job'[p].cut
          /\ job'[p].path = job[p].path
      BY <1>1, <1>5, <2>2, CountStep, CascadeStep, RemoveStep, IdleStage
         DEF GoesOn, Goes, Count, Cascade, Remove, RowStages
    <3>2. job[p].path \in PathsIn(files[job[p].media])
      BY <1>1, <1>5, <3>1, JobStage DEF PruneAlone, At, RowStages
    <3>3. QED
      BY <1>5, <3>1, <3>2, PruneGoesOn
  <2>3. CASE Victim(p)
    <3>1. /\ job[p] \in Job /\ UNCHANGED <<media, files, link>>
          /\ job'[p].op = job[p].op /\ job'[p].media = job[p].media /\ job'[p].add = job[p].add
          /\ job'[p].drop = job[p].drop /\ job'[p].cut = BeforeSavepoint(job[p])
          /\ job[p].op = "Prune" => job'[p].stage = "find"
      BY <1>1, <1>5, <2>3, VictimStep, IdleStage DEF GoesOn, Goes, Victim
    <3>2. \A l \in job[p].cut : l[2] = job[p].media => l \in job'[p].cut
      BY <1>5, <3>1 DEF BeforeSavepoint
    <3>3. QED
      BY <1>5, <3>1, <3>2, PruneGoesOn
  <2>4. CASE SaveMedia(p) \/ Abort(p) \/ Commit(p) \/ Detach(p) \/ Attach(p) \/ LinkNew(p) \/ LinkFound(p)
    <3>1. /\ job[p] \in Job
          /\ job'[p].stage # "idle" => /\ job'[p].op = job[p].op
                                       /\ job[p].op # "Prune" \/ job[p].stage \in {"detach", "attach", "link"}
      BY <1>1, <2>4, SaveStep, AbortStep, CommitStep, DetachStep, AttachStep, LinkNewStep,
         LinkFoundStep, IdleStage DEF GoesOn, Goes
    <3>2. job[p] # Idle
      BY <3>1, JobStage
    <3>3. QED
      BY <1>1, <1>5, <3>1, <3>2 DEF Shape
  <2>5. QED
    BY <1>5, <2>1, <2>2, <2>3, <2>4 DEF Own, Continue
<1>6. QED
  BY <1>2, <1>3, <1>4, <1>5 DEF Request

LEMMA NoFilesKept ==
    ASSUME WorkInv, NEW p \in Procs, Own(p)
    PROVE  NoFiles'
<1>1. TypeOK /\ NoFiles /\ Shape(p)
  BY DEF WorkInv, LinkInv
<1> SUFFICES ASSUME NEW m \in Media, media'[m] \in {"free", "pruned"}
             PROVE  files'[m] = {}
  BY DEF NoFiles
<1>2. CASE PostFile(p)
  BY <1>1, <1>2, PostStep DEF NoFiles, TypeOK, Editable
<1>3. CASE PatchFile(p)
  BY <1>1, <1>3, PatchStep DEF NoFiles, TypeOK, Editable
<1>4. CASE DeleteFile(p)
  BY <1>1, <1>4, DeleteStep DEF NoFiles, TypeOK, Editable
<1>5. CASE Clone(p)
  BY <1>1, <1>5, CloneStep DEF NoFiles, TypeOK
<1>6. CASE SaveMedia(p)
  <2>1. job[p] \in Job /\ job[p] # Idle
    BY <1>1, <1>6, SaveStep, JobStage
  <2>2. media[job[p].media] \in {"live", "hidden"} /\ job[p].media \in Media
    BY <1>1, <2>1 DEF Shape, Job
  <2>3. QED
    BY <1>1, <1>6, <2>2, SaveStep DEF NoFiles, TypeOK
<1>7. CASE Commit(p)
  <2>1. job[p].media \in Media
    BY <1>1, <1>7, CommitStep DEF Job
  <2>2. \/ media' = media /\ files' = files
        \/ /\ media' = [media EXCEPT ![job[p].media] = "pruned"]
           /\ files' = [files EXCEPT ![job[p].media] = {}]
    BY <1>1, <1>7, CommitStep
  <2>3. QED
    BY <1>1, <2>1, <2>2 DEF NoFiles, TypeOK
<1>8. CASE UNCHANGED <<media, files>>
  BY <1>1, <1>8 DEF NoFiles
<1>9. QED
  BY <1>2, <1>3, <1>4, <1>5, <1>6, <1>7, <1>8
     DEF Own, Request, Continue, ReadMedia, PruneMedia, Detach, FindRow, Count, Cascade, Remove,
         Attach, LinkNew, LinkFound, Victim, Abort


LEMMA WorkKept == WorkInv /\ [Next]_vars => WorkInv'
<1> SUFFICES ASSUME WorkInv, [Next]_vars PROVE WorkInv'
  OBVIOUS
<1>1. LinkInv'
  BY LinkInvKept DEF WorkInv
<1>2. CASE UNCHANGED vars
  BY <1>1, <1>2 DEF WorkInv, vars, Shape, PruneAlone, NoFiles, At, Others
<1>3. CASE Upload
  BY <1>1, <1>3 DEF WorkInv, Upload, Shape, PruneAlone, NoFiles, At, Others
<1>4. ASSUME NEW p \in Procs, Own(p) PROVE WorkInv'
  <2>1. ASSUME NEW q \in Procs PROVE Shape(q)' /\ PruneAlone(q)'
    <3>1. CASE q # p
      BY <1>4, <3>1, ShapeOthers, PruneOthers DEF WorkInv
    <3>2. CASE q = p
      BY <1>4, <3>2, ShapeRequest, ShapeContinue, PruneOwn DEF Own
    <3>3. QED
      BY <3>1, <3>2
  <2>2. NoFiles'
    BY <1>4, NoFilesKept
  <2>3. QED
    BY <1>1, <2>1, <2>2 DEF WorkInv
<1>5. QED
  BY <1>2, <1>3, <1>4 DEF Next, Own


(***************************************************************************)
(* Steps that do not concern a path                                        *)
(***************************************************************************)
\* The path is to the tables what it was before.
SameTables(a) ==
    /\ \A m \in Media : (a \in PathsIn(files'[m]) <=> Named(m, a)) /\ ~Twice(files'[m], a)
    /\ \A r \in Rids : res'[r] = a <=> res[r] = a
    /\ \A l \in Links : res[l[1]] = a => (l \in link' <=> l \in link)
    /\ a \in stored' <=> a \in stored

\* The request has to do with it what it had before, or may have stopped leaving it.
SameWork(p, a) ==
    /\ job'[p].stage = "save" => ~Twice(job'[p].old, a)
    /\ a \in Attaching(p)' <=> a \in Attaching(p)
    /\ a \in Attaching(p) => job'[p].media = job[p].media
    /\ a \in Leaving(p)' => a \in Leaving(p)
    /\ \A m \in Media : Detaching(p, m, a)' <=> Detaching(p, m, a)
    /\ job'[p].stage = "link" /\ job'[p].path = a =>
          IF job'[p].rid = NoRid THEN \A r \in Rids : res[r] # a ELSE res[job'[p].rid] = a
    /\ job'[p].stage \in RowAtHand /\ job'[p].path = a =>
          \A s \in Rids : res[s] = a => s = job'[p].rid
    /\ (\E r \in Rids : res[r] = a) => (Counting(p, a)' <=> Counting(p, a))
    /\ \A r \in Rids : res[r] = a =>
          /\ Decided(p, r)' <=> Decided(p, r)
          /\ r \in job'[p].rows <=> r \in job[p].rows
          /\ r \in job[p].rows => a \in Leaving(p)'
    /\ \A l \in link : res[l[1]] = a => (l \in job'[p].cut <=> l \in job[p].cut)
    /\ \A l \in job'[p].cut : res[l[1]] = a =>
          job'[p].op = "Prune" /\ l[2] = job'[p].media

\* What others have to do with it.
LEMMA OthersAt ==
    ASSUME WorkInv, NEW p \in Procs, Own(p), NEW q \in Procs, q # p
    PROVE  /\ job'[q] = job[q]
           /\ Attaching(q)' = Attaching(q) /\ Leaving(q)' = Leaving(q)
<1>1. job'[q] = job[q] /\ TypeOK
  BY OthersStay DEF WorkInv, LinkInv
<1>2. Attaching(q)' = Attaching(q)
  BY <1>1 DEF Attaching, At
<1>3. CASE At(q, "idle") \/ job[q].op # "Prune"
  BY <1>1, <1>2, <1>3 DEF Leaving, At
<1>4. CASE ~At(q, "idle") /\ job[q].op = "Prune"
  <2>1. files'[job[q].media] = files[job[q].media]
    BY <1>4, PruneOutOfReach
  <2>2. QED
    BY <1>1, <1>2, <2>1 DEF Leaving, At
<1>5. QED
  BY <1>3, <1>4

LEMMA OthersSame ==
    ASSUME WorkInv, NEW p \in Procs, Own(p), NEW q \in Procs, q # p, NEW a, PathOK(a)
    PROVE  SameWork(q, a)
<1>1. job'[q] = job[q] /\ Attaching(q)' = Attaching(q) /\ Leaving(q)' = Leaving(q)
  BY OthersAt
<1>2. NamedOnce(a) /\ RowsKnown(a) /\ CutKnown(a)
  BY DEF PathOK
<1>3. \A m \in Media : Detaching(q, m, a)' <=> Detaching(q, m, a)
  BY <1>1 DEF Detaching, At
<1>4. Counting(q, a)' <=> Counting(q, a)
  BY <1>1 DEF Counting, At
<1>5. \A r \in Rids : Decided(q, r)' <=> Decided(q, r)
  BY <1>1 DEF Decided, At
<1>6. job'[q].stage = "save" => ~Twice(job'[q].old, a)
  BY <1>1, <1>2 DEF NamedOnce, At
<1>7. \A r \in Rids : res[r] = a /\ r \in job[q].rows => a \in Leaving(q)'
  BY <1>1, <1>2 DEF RowsKnown
<1>8. \A l \in job'[q].cut : res[l[1]] = a => job'[q].op = "Prune" /\ l[2] = job'[q].media
  BY <1>1, <1>2 DEF CutKnown
<1>9. job'[q].stage \in RowAtHand /\ job'[q].path = a =>
         \A s \in Rids : res[s] = a => s = job'[q].rid
  BY <1>1 DEF PathOK, RowKnown
<1>10. job'[q].stage = "link" /\ job'[q].path = a =>
          IF job'[q].rid = NoRid THEN \A r \in Rids : res[r] # a ELSE res[job'[q].rid] = a
  BY <1>1 DEF PathOK, AttachKnown, Attaching, At
<1>11. QED
  BY <1>1, <1>3, <1>4, <1>5, <1>6, <1>7, <1>8, <1>9, <1>10 DEF SameWork

\* What is known of the path stays so.
LEMMA SameKeeps ==
    ASSUME WorkInv, NEW a \in Paths, PathOK(a), SameTables(a), \A p \in Procs : SameWork(p, a),
           TypeOK'
    PROVE  PathOK(a)'
<1>1. /\ SoleRow(a) /\ NamedOnce(a) /\ Apart(a) /\ AttachKnown(a) /\ Settled(a) /\ Linked(a)
      /\ DetachKnown(a) /\ RowKnown(a) /\ DecidedKnown(a) /\ RowsKnown(a) /\ CutKnown(a)
      /\ Kept(a) /\ Held(a)
  BY DEF PathOK
<1>2. \A l \in link \cup link' : l \in Links /\ l[1] \in Rids /\ l[2] \in Media
  BY DEF WorkInv, LinkInv, TypeOK, Links
<1>3. \A r \in Rids, m \in Media : <<r, m>> \in Links /\ <<r, m>>[1] = r
  BY DEF Links
<1>4. \A p \in Procs : \A l \in job'[p].cut : l[1] \in Rids
  BY DEF TypeOK, Idle, Job, Links
<1>5. \A r \in Rids, m \in Media : res[r] = a => (<<r, m>> \in link' <=> <<r, m>> \in link)
  BY <1>3 DEF SameTables
<1>6. \A r \in Rids : res'[r] = a <=> res[r] = a
  BY DEF SameTables
<1>7. SoleRow(a)'
  BY <1>1, <1>6 DEF SoleRow
<1>8. NamedOnce(a)'
  BY DEF SameTables, SameWork, NamedOnce, At
<1>9. Apart(a)'
  BY <1>1, <1>6 DEF SameWork, Apart
<1>10. AttachKnown(a)'
  <2> SUFFICES ASSUME NEW p \in Procs, a \in Attaching(p)'
               PROVE  /\ a \in PathsIn(files'[job'[p].media])
                      /\ a \in stored'
                      /\ \A r \in Rids : res'[r] = a => <<r, job'[p].media>> \notin link'
                      /\ job'[p].stage = "link" /\ job'[p].path = a =>
                            IF job'[p].rid = NoRid THEN \A r \in Rids : res'[r] # a
                            ELSE res'[job'[p].rid] = a
    BY DEF AttachKnown, Named, At
  <2>1. a \in Attaching(p) /\ job'[p].media = job[p].media /\ job[p].stage # "idle"
    BY DEF SameWork, Attaching, At
  <2>2. job[p].media \in Media
    BY <2>1, JobFields DEF WorkInv, LinkInv, At
  <2>3. a \in PathsIn(files'[job'[p].media]) /\ a \in stored'
    BY <1>1, <2>1, <2>2 DEF AttachKnown, SameTables
  <2>4. \A r \in Rids : res'[r] = a => <<r, job'[p].media>> \notin link'
    BY <1>1, <1>5, <1>6, <2>1, <2>2 DEF AttachKnown
  <2>5. ASSUME job'[p].stage = "link" /\ job'[p].path = a
        PROVE  IF job'[p].rid = NoRid THEN \A r \in Rids : res'[r] # a
               ELSE res'[job'[p].rid] = a
    <3>1. IF job'[p].rid = NoRid THEN \A r \in Rids : res[r] # a ELSE res[job'[p].rid] = a
      BY <2>5 DEF SameWork
    <3>2. job'[p].rid \in Rids \cup {NoRid}
      BY <2>5 DEF TypeOK, Job, Idle
    <3>3. QED
      BY <1>6, <3>1, <3>2
  <2>6. QED
    BY <2>3, <2>4, <2>5
<1>11. Settled(a)'
  <2> SUFFICES ASSUME NEW m \in Media, a \in PathsIn(files'[m])
               PROVE  \/ \E p \in Procs : a \in Attaching(p)' /\ job'[p].media = m
                      \/ \E r \in Rids : res'[r] = a /\ <<r, m>> \in link'
    BY DEF Settled, Named
  <2>1. Named(m, a)
    BY DEF SameTables
  <2>2. QED
    BY <1>1, <1>5, <1>6, <2>1 DEF Settled, SameWork
<1>12. Linked(a)'
  BY <1>1, <1>5, <1>6 DEF Linked, SameTables, SameWork, Named
<1>13. DetachKnown(a)'
  BY <1>1 DEF DetachKnown, SameTables, SameWork, Named
<1>14. RowKnown(a)'
  BY <1>1, <1>6 DEF RowKnown, SameWork
<1>15. DecidedKnown(a)'
  BY <1>1, <1>2, <1>6 DEF DecidedKnown, SameTables, SameWork
<1>16. RowsKnown(a)'
  BY <1>1, <1>6 DEF RowsKnown, SameWork
<1>17. CutKnown(a)'
  BY <1>4, <1>6 DEF CutKnown, SameWork
<1>18. Kept(a)'
  BY <1>1, <1>6 DEF Kept, SameTables, SameWork
<1>19. Held(a)'
  BY <1>1, <1>2, <1>6 DEF Held, SameTables, SameWork
<1>20. QED
  BY <1>7, <1>8, <1>9, <1>10, <1>11, <1>12, <1>13, <1>14, <1>15, <1>16, <1>17, <1>18, <1>19
     DEF PathOK


\* A request whose concern it is not has nothing to do with its row or its links.
LEMMA AsideBefore ==
    ASSUME WorkInv, NEW a \in Paths, PathOK(a), NEW p \in Procs, a \notin Concern(p)
    PROVE  /\ a \notin Attaching(p) /\ a \notin Leaving(p) /\ ~Counting(p, a)
           /\ \A m \in Media : ~Detaching(p, m, a)
           /\ \A r \in Rids : res[r] = a => ~Decided(p, r) /\ r \notin job[p].rows
           /\ \A l \in link : res[l[1]] = a => l \notin job[p].cut
           /\ job[p].stage = "link" => job[p].path # a
           /\ job[p].stage \in RowAtHand => job[p].path # a
<1>1. TypeOK /\ Shape(p) /\ PruneAlone(p) /\ RowsKnown(a) /\ CutKnown(a) /\ Linked(a)
  BY DEF WorkInv, LinkInv, PathOK
<1>2. a \notin Attaching(p) /\ a \notin Leaving(p)
  BY DEF Concern
<1>3. ~Counting(p, a)
  BY <1>2 DEF Counting, Leaving, At
<1>4. \A m \in Media : ~Detaching(p, m, a)
  BY <1>2 DEF Detaching, Leaving, At
<1>5. job[p].stage \in RowAtHand => job[p].path # a
  BY <1>2 DEF Leaving, At, RowAtHand
<1>6. job[p].stage = "link" => job[p].path # a
  BY <1>2 DEF Attaching, At
<1>7. a # Deleted
  BY ResourcesConstants
<1>8. \A r \in Rids : res[r] = a => r \notin job[p].rows
  BY <1>1, <1>2 DEF RowsKnown
<1>9. \A r \in Rids : res[r] = a => ~Decided(p, r)
  BY <1>1, <1>5, <1>7, <1>8, IdleStage DEF Decided, Shape, RowAtHand, At
<1>10. \A l \in link : res[l[1]] = a => l \notin job[p].cut
  <2> SUFFICES ASSUME NEW l \in link, res[l[1]] = a, l \in job[p].cut PROVE FALSE
    OBVIOUS
  <2>1. job[p].op = "Prune" /\ l[2] = job[p].media
    BY <1>1 DEF CutKnown
  <2>2. l = <<l[1], l[2]>> /\ l[1] \in Rids /\ l[2] \in Media
    BY <1>1 DEF TypeOK, Links
  <2>3. job[p] # Idle /\ job[p] \in Job
    BY <1>1 DEF Idle, TypeOK
  <2>4. ~At(p, "idle")
    BY <2>3, JobStage DEF At
  <2>5. ~Named(job[p].media, a)
    BY <1>2, <2>1, <2>4 DEF Leaving, Named
  <2>6. PICK q \in Procs : Detaching(q, job[p].media, a)
    BY <1>1, <2>1, <2>2, <2>5 DEF Linked
  <2>7. CASE q = p
    BY <1>1, <2>1, <2>3, <2>6, <2>7 DEF Shape, Detaching, At
  <2>8. CASE q # p
    BY <1>1, <2>1, <2>4, <2>6, <2>8 DEF PruneAlone, Others, Detaching, At
  <2>9. QED
    BY <2>7, <2>8
<1>11. QED
  BY <1>2, <1>3, <1>4, <1>5, <1>6, <1>8, <1>9, <1>10

\* It is neither before nor after a step of p the concern of p.
LEMMA AsideKeeps ==
    ASSUME WorkInv, WorkInv', NEW a \in Paths, PathOK(a), NEW p \in Procs, Own(p),
           SameTables(a), a \notin Concern(p), a \notin Attaching(p)', a \notin Leaving(p)',
           job'[p].stage = "save" => ~Twice(job'[p].old, a),
           \A r \in job'[p].rows : res[r] # a,
           \A l \in job'[p].cut : res[l[1]] # a
    PROVE  PathOK(a)'
<1>1. TypeOK' /\ Shape(p)' /\ a # Deleted
  BY ResourcesConstants DEF WorkInv, LinkInv
<1>2. /\ a \notin Attaching(p) /\ a \notin Leaving(p) /\ ~Counting(p, a)
      /\ \A m \in Media : ~Detaching(p, m, a)
      /\ \A r \in Rids : res[r] = a => ~Decided(p, r) /\ r \notin job[p].rows
      /\ \A l \in link : res[l[1]] = a => l \notin job[p].cut
  BY AsideBefore
<1>3. ~Counting(p, a)'
  BY DEF Counting, Leaving, At
<1>4. \A m \in Media : ~Detaching(p, m, a)'
  BY DEF Detaching, Leaving, At
<1>5. job'[p].stage \in RowAtHand => job'[p].path # a
  BY DEF Leaving, At, RowAtHand
<1>6. job'[p].stage = "link" => job'[p].path # a
  BY DEF Attaching, At
<1>7. \A r \in Rids : res[r] = a => ~Decided(p, r)'
  <2> SUFFICES ASSUME NEW r \in Rids, res[r] = a, Decided(p, r)' PROVE FALSE
    OBVIOUS
  <2>1. res'[r] = a
    BY DEF SameTables
  <2>2. QED
    BY <1>1, <1>5, <2>1, IdleStage DEF Decided, Shape, RowAtHand, At
<1>8. SameWork(p, a)
  BY <1>2, <1>3, <1>4, <1>5, <1>6, <1>7 DEF SameWork
<1>9. \A q \in Procs : SameWork(q, a)
  BY <1>8, OthersSame
<1>10. QED
  BY <1>1, <1>9, SameKeeps

\* p goes on, and it is not the path at hand.
LEMMA OnwardKeeps ==
    ASSUME WorkInv, WorkInv', NEW a \in Paths, PathOK(a), NEW p \in Procs, Own(p),
           SameTables(a), job[p] \in Job,
           \/ /\ job'[p] \in Job /\ job'[p].op = job[p].op /\ job'[p].media = job[p].media
              /\ a \in job'[p].drop <=> a \in job[p].drop
              /\ a \in job'[p].add <=> a \in job[p].add
           \/ /\ job'[p] = Idle /\ job[p].op # "Prune"
              /\ a \notin job[p].drop /\ a \notin job[p].add,
           job'[p].stage \notin {"save", "detach"},
           job[p].stage = "detach" => a \notin job[p].drop,
           job[p].stage \in RowAtHand \cup {"link"} => job[p].path # a,
           job'[p].stage \in RowAtHand \cup {"link"} => job'[p].path # a,
           \A r \in Rids : res[r] = a => (r \in job'[p].rows <=> r \in job[p].rows),
           \A l \in Links : res[l[1]] = a => (l \in job'[p].cut <=> l \in job[p].cut)
    PROVE  PathOK(a)'
<1>1. TypeOK' /\ TypeOK /\ Shape(p)' /\ Shape(p) /\ a # Deleted /\ RowsKnown(a) /\ CutKnown(a)
  BY ResourcesConstants DEF WorkInv, LinkInv, PathOK
<1>2. ~At(p, "idle") /\ job[p] # Idle /\ job[p].media \in Media
  BY JobStage DEF At, Job
<1>3. a \in Attaching(p)' <=> a \in Attaching(p)
  BY <1>2, JobStage, IdleStage DEF Attaching, At
<1>4. a \in PathsIn(files'[job[p].media]) <=> a \in PathsIn(files[job[p].media])
  BY <1>2 DEF SameTables, Named
<1>5. job'[p] # Idle => (a \in Leaving(p)' <=> a \in Leaving(p))
  BY <1>2, <1>4, JobStage DEF Leaving, At, RowAtHand
<1>6. a \in Leaving(p)' => a \in Leaving(p)
  BY <1>5, IdleStage DEF Leaving, At
<1>7. a \in Attaching(p) => job'[p].media = job[p].media
  BY DEF Attaching, At
<1>8. \A m \in Media : Detaching(p, m, a)' <=> Detaching(p, m, a)
  BY DEF Detaching, At
<1>9. Counting(p, a)' <=> Counting(p, a)
  BY <1>2, JobStage, IdleStage DEF Counting, At, RowAtHand
<1>10. \A r \in Rids : res[r] = a => (Decided(p, r)' <=> Decided(p, r))
  <2> SUFFICES ASSUME NEW r \in Rids, res[r] = a PROVE Decided(p, r)' <=> Decided(p, r)
    OBVIOUS
  <2>1. res'[r] = a
    BY DEF SameTables
  <2>2. ~(job[p].stage \in {"cascade", "remove"} /\ job[p].rid = r)
    BY <1>1, <1>2 DEF Shape, RowAtHand
  <2>3. ~(job'[p].stage \in {"cascade", "remove"} /\ job'[p].rid = r)
    BY <1>1, <2>1, IdleStage DEF Shape, RowAtHand
  <2>4. QED
    BY <2>2, <2>3 DEF Decided, At
<1>11. \A r \in Rids : res[r] = a /\ r \in job[p].rows => a \in Leaving(p)'
  <2> SUFFICES ASSUME NEW r \in Rids, res[r] = a, r \in job[p].rows PROVE a \in Leaving(p)'
    OBVIOUS
  <2>1. a \in Leaving(p) /\ ~Counting(p, a)
    BY <1>1 DEF RowsKnown
  <2>2. a \notin job[p].drop
    BY <1>2, <2>1 DEF Counting
  <2>3. job[p].op = "Prune"
    BY <1>2, <2>1, <2>2 DEF Leaving, At, RowAtHand
  <2>4. QED
    BY <1>5, <2>1, <2>3, JobStage
<1>12. \A l \in job'[p].cut : res[l[1]] = a => job'[p].op = "Prune" /\ l[2] = job'[p].media
  <2> SUFFICES ASSUME NEW l \in job'[p].cut, res[l[1]] = a
               PROVE  job'[p].op = "Prune" /\ l[2] = job'[p].media
    OBVIOUS
  <2>1. l \in Links
    BY <1>1, IdleStage DEF TypeOK, Job
  <2>2. job[p].op = "Prune" /\ l[2] = job[p].media
    BY <1>1, <2>1 DEF CutKnown
  <2>3. QED
    BY <2>2
<1>13. SameWork(p, a)
  BY <1>1, <1>3, <1>6, <1>7, <1>8, <1>9, <1>10, <1>11, <1>12
     DEF SameWork, TypeOK
<1>14. \A q \in Procs : SameWork(q, a)
  BY <1>13, OthersSame
<1>15. QED
  BY <1>1, <1>14, SameKeeps


(***************************************************************************)
(* Each step keeps what is known of a path that is still sound             *)
(***************************************************************************)
LEMMA TablesStay ==
    ASSUME NEW a, PathOK(a), UNCHANGED <<files, res, link>>, a \in stored' <=> a \in stored
    PROVE  SameTables(a)
  BY DEF SameTables, Named, PathOK, NamedOnce

LEMMA IsPath ==
    ASSUME NEW a \in Watched
    PROVE  a \in Paths /\ a \notin URLs /\ a # Deleted /\ a # Unused
  BY ResourcesConstants

LEMMA IdleKnows ==
    ASSUME NEW p \in Procs, job'[p] = Idle
    PROVE  /\ Attaching(p)' = {} /\ Leaving(p)' = {} /\ job'[p].stage # "save"
           /\ job'[p].rows = {} /\ job'[p].cut = {}
  BY IdleStage DEF Attaching, Leaving, At

\* A request that dies or fails.
LEMMA EndKeeps ==
    ASSUME WorkInv, WorkInv', NEW a \in Watched, PathOK(a), NEW p \in Procs, Own(p),
           UNCHANGED <<files, stored, res, link>>, job'[p] = Idle, a \notin Concern(p)
    PROVE  PathOK(a)'
<1>1. SameTables(a)
  BY TablesStay
<1>2. QED
  BY <1>1, IsPath, IdleKnows, AsideKeeps

LEMMA ReadKeeps ==
    ASSUME WorkInv, WorkInv', NEW a \in Watched, PathOK(a), NEW p \in Procs, ReadMedia(p)
    PROVE  PathOK(a)'
<1>1. TypeOK /\ Own(p)
  BY DEF WorkInv, LinkInv, Own, Request
<1>2. PICK op \in {"Hide", "Rewrite"}, m \in Media :
        Begins(p, "save", op, m, files[m], {}, {}, {})
  BY <1>1, ReadStep
<1>3. job[p].stage = "idle" /\ UNCHANGED <<files, stored, res, link>>
  BY <1>1, ReadStep
<1>4. a \notin Concern(p)
  BY <1>3 DEF Concern, Attaching, Leaving, At
<1>5. a \notin Attaching(p)' /\ a \notin Leaving(p)'
  BY <1>2 DEF Begins, Attaching, Leaving, At
<1>6. SameTables(a)
  BY <1>3, TablesStay
<1>7. ~Twice(job'[p].old, a)
  BY <1>2 DEF Begins, PathOK, NamedOnce
<1>8. job'[p].rows = {} /\ job'[p].cut = {}
  BY <1>2 DEF Begins
<1>9. QED
  BY <1>1, <1>4, <1>5, <1>6, <1>7, <1>8, IsPath, AsideKeeps

LEMMA SaveKeeps ==
    ASSUME WorkInv, WorkInv', NEW a \in Watched, a \notin spoilt', PathOK(a), NEW p \in Procs,
           SaveMedia(p)
    PROVE  PathOK(a)'
<1>1. TypeOK /\ Own(p) /\ Shape(p)
  BY DEF WorkInv, LinkInv, Own, Continue
<1>2. /\ job[p] \in Job /\ job[p].stage = "save" /\ job'[p] = Idle
      /\ files' = [files EXCEPT ![job[p].media] = job[p].old]
      /\ UNCHANGED <<stored, res, link>>
      /\ spoilt' = spoilt \cup
            (((PathsIn(job[p].old) \ PathsIn(files[job[p].media]))
               \cup (PathsIn(files[job[p].media]) \ PathsIn(job[p].old))) \cap Watched)
  BY <1>1, SaveStep
<1>3. job[p].media \in Media /\ job[p] # Idle
  BY <1>2, JobStage DEF Job
<1>4. a \in PathsIn(job[p].old) <=> a \in PathsIn(files[job[p].media])
  BY <1>2
<1>5. ~Twice(job[p].old, a) /\ \A m \in Media : ~Twice(files[m], a)
  BY <1>2 DEF PathOK, NamedOnce, At
<1>6. \A m \in Media : files'[m] = IF m = job[p].media THEN job[p].old ELSE files[m]
  BY <1>1, <1>2, <1>3 DEF TypeOK
<1>7. SameTables(a)
  BY <1>2, <1>4, <1>5, <1>6 DEF SameTables, Named
<1>8. job[p].add = {} /\ job[p].drop = {} /\ job[p].op # "Prune"
  BY <1>1, <1>2, <1>3 DEF Shape
<1>9. a \notin Concern(p)
  BY <1>2, <1>8 DEF Concern, Attaching, Leaving, At
<1>10. QED
  BY <1>1, <1>2, <1>7, <1>9, IsPath, IdleKnows, AsideKeeps

LEMMA CascadeKeeps ==
    ASSUME WorkInv, WorkInv', NEW a \in Watched, PathOK(a), NEW p \in Procs, Cascade(p)
    PROVE  PathOK(a)'
<1>1. TypeOK /\ TypeOK' /\ Own(p) /\ Shape(p) /\ DecidedKnown(a) /\ RowsKnown(a) /\ CutKnown(a)
  BY DEF WorkInv, LinkInv, Own, Continue, PathOK
<1>2. /\ job[p] \in Job /\ job[p].stage = "cascade" /\ job[p] # Idle
      /\ UNCHANGED <<media, files, stored, res, link>>
  BY <1>1, CascadeStep, JobStage DEF Cascade
<1>3. /\ job'[p].stage = "remove"
      /\ job'[p].op = job[p].op /\ job'[p].media = job[p].media
      /\ job'[p].drop = job[p].drop /\ job'[p].add = job[p].add
      /\ job'[p].path = job[p].path /\ job'[p].rid = job[p].rid
      /\ job'[p].cut = job[p].cut \cup Users(p) /\ job'[p].rows = job[p].rows
  BY <1>1, CascadeStep DEF Goes
<1>4. job[p].rid \in Rids
  BY <1>1, <1>2 DEF Shape, RowAtHand
<1>5. res[job[p].rid] = a => Users(p) = {}
  BY <1>1, <1>2, <1>4 DEF DecidedKnown, Decided, Users, At
<1>6. \A l \in Users(p) : l[1] = job[p].rid
  BY DEF Users
<1>7. \A l : res[l[1]] = a => (l \in job'[p].cut <=> l \in job[p].cut)
  BY <1>3, <1>5, <1>6
<1>8. Attaching(p)' = Attaching(p) /\ Leaving(p)' = Leaving(p)
  BY <1>2, <1>3 DEF Attaching, Leaving, At
<1>9. Counting(p, a)' <=> Counting(p, a)
  BY <1>2, <1>3 DEF Counting, At
<1>10. \A r \in Rids : Decided(p, r)' <=> Decided(p, r)
  BY <1>2, <1>3 DEF Decided, At
<1>11. \A m \in Media : Detaching(p, m, a)' <=> Detaching(p, m, a)
  BY <1>2, <1>3 DEF Detaching, At
<1>12. \A r \in Rids : res[r] = a /\ r \in job[p].rows => a \in Leaving(p)'
  BY <1>1, <1>8 DEF RowsKnown
<1>13. \A l \in job'[p].cut : res[l[1]] = a => job'[p].op = "Prune" /\ l[2] = job'[p].media
  BY <1>1, <1>3, <1>7 DEF CutKnown
<1>14. job[p].path = a => \A s \in Rids : res[s] = a => s = job[p].rid
  BY <1>2 DEF PathOK, RowKnown, RowAtHand
<1>15. SameWork(p, a)
  BY <1>2, <1>3, <1>7, <1>8, <1>9, <1>10, <1>11, <1>12, <1>13, <1>14 DEF SameWork, RowAtHand
<1>16. SameTables(a)
  BY <1>2, TablesStay
<1>17. \A q \in Procs : SameWork(q, a)
  BY <1>1, <1>15, OthersSame
<1>18. QED
  BY <1>1, <1>16, <1>17, IsPath, SameKeeps

LEMMA VictimKeeps ==
    ASSUME WorkInv, WorkInv', NEW a \in Watched, a \notin spoilt', PathOK(a), NEW p \in Procs,
           Victim(p)
    PROVE  PathOK(a)'
<1>1. TypeOK /\ Own(p) /\ Shape(p) /\ CutKnown(a)
  BY DEF WorkInv, LinkInv, Own, PathOK
<1>2. /\ job[p] \in Job /\ job[p].stage \in {"cascade", "remove"} /\ job[p] # Idle
      /\ GoesOn(p, job[p].drop, BeforeSavepoint(job[p]), job[p].rows)
      /\ UNCHANGED <<media, files, stored, res, link>>
      /\ job[p].path # a
  BY <1>1, VictimStep, JobStage DEF Victim
<1>3. /\ job[p].rid \in Rids /\ res[job[p].rid] \in {job[p].path, Deleted}
      /\ job[p].op # "Prune" => job[p].drop = {} /\ job[p].rows = {}
  BY <1>1, <1>2 DEF Shape, RowAtHand
<1>4. \A l \in Links : res[l[1]] = a => (l \in BeforeSavepoint(job[p]) <=> l \in job[p].cut)
  BY <1>1, <1>2, <1>3, IsPath DEF BeforeSavepoint, CutKnown
<1>5. SameTables(a)
  BY <1>2, TablesStay
<1>6. \/ /\ job'[p] \in Job /\ job'[p].op = job[p].op /\ job'[p].media = job[p].media
         /\ a \in job'[p].drop <=> a \in job[p].drop
         /\ a \in job'[p].add <=> a \in job[p].add
         /\ job'[p].rows = job[p].rows /\ job'[p].cut = BeforeSavepoint(job[p])
         /\ job'[p].stage \in {"find", "attach"}
      \/ /\ job'[p] = Idle /\ job[p].op # "Prune"
         /\ a \notin job[p].drop /\ a \notin job[p].add
         /\ job'[p].rows = job[p].rows /\ job'[p].cut = BeforeSavepoint(job[p])
         /\ job'[p].stage = "idle"
  BY <1>2, <1>3, IdleStage DEF GoesOn, Goes, BeforeSavepoint
<1>7. QED
  BY <1>1, <1>2, <1>4, <1>5, <1>6, IsPath, OnwardKeeps DEF RowAtHand


LEMMA UploadKeeps ==
    ASSUME WorkInv, NEW a \in Watched, PathOK(a), Upload
    PROVE  PathOK(a)'
<1>1. UNCHANGED <<media, files, res, link, job>> /\ stored \subseteq stored'
  BY DEF Upload
<1>2. \A p : /\ Attaching(p)' = Attaching(p)
              /\ Leaving(p)' = Leaving(p)
  BY <1>1 DEF Attaching, Leaving, At
<1>3. (SoleRow(a) /\ NamedOnce(a) /\ Settled(a) /\ Linked(a) /\ DetachKnown(a) /\ RowKnown(a)
       /\ DecidedKnown(a) /\ RowsKnown(a) /\ CutKnown(a) /\ Held(a) /\ Apart(a))'
  BY <1>1, <1>2
     DEF PathOK, SoleRow, NamedOnce, Settled, Linked, DetachKnown, RowKnown, DecidedKnown,
         RowsKnown, CutKnown, Held, Apart, Named, Detaching, Counting, Decided, At
<1>4. AttachKnown(a)'
  BY <1>1, <1>2 DEF PathOK, AttachKnown, Named, At
<1>5. Kept(a)'
  BY <1>1 DEF PathOK, Kept
<1>6. QED
  BY <1>3, <1>4, <1>5 DEF PathOK

LEMMA FindKeeps ==
    ASSUME WorkInv, WorkInv', NEW a \in Watched, PathOK(a), NEW p \in Procs, FindRow(p)
    PROVE  PathOK(a)'
<1>1. TypeOK /\ TypeOK' /\ Own(p) /\ Shape(p) /\ PruneAlone(p) /\ SoleRow(a) /\ RowsKnown(a) /\ CutKnown(a)
  BY DEF WorkInv, LinkInv, Own, Continue, PathOK
<1>2. /\ job[p] \in Job /\ job[p].stage = "find" /\ job[p] # Idle
      /\ UNCHANGED <<media, files, stored, res, link>>
  BY <1>1, FindStep, JobStage DEF FindRow
<1>3. PICK x \in job[p].drop :
         \/ \E r \in Rids :
               /\ RowsOf(p, x) = {r}
               /\ Goes(p, "count", job[p].drop \ {x}, job[p].add, x, r, job[p].cut, job[p].rows)
         \/ /\ \A r \in Rids : RowsOf(p, x) # {r}
            /\ GoesOn(p, job[p].drop \ {x}, job[p].cut, job[p].rows)
  BY <1>1, FindStep
<1>4. SameTables(a)
  BY <1>2, TablesStay
<1>5. job[p].op # "Prune" => job[p].drop = {x}
  BY <1>1, <1>2, <1>3 DEF Shape
<1>6. /\ job'[p].rows = job[p].rows \/ (job'[p] = Idle /\ job[p].op # "Prune" /\ job[p].add = {})
      /\ job'[p].cut = job[p].cut \/ (job'[p] = Idle /\ job[p].op # "Prune" /\ job[p].add = {})
  BY <1>3 DEF Goes, GoesOn
<1>7. job[p].op # "Prune" => job[p].cut = {} /\ job[p].rows = {}
  BY <1>1, <1>2 DEF Shape
<1>8. job'[p].rows = job[p].rows /\ job'[p].cut = job[p].cut
  BY <1>6, <1>7, IdleStage
<1>9. \/ /\ job'[p] \in Job /\ job'[p].op = job[p].op /\ job'[p].media = job[p].media
         /\ job'[p].drop = job[p].drop \ {x} /\ job'[p].add = job[p].add
         /\ job'[p].stage \in {"count", "find", "attach"}
         /\ job'[p].stage = "count" =>
               job'[p].path = x /\ job'[p].rid \in Rids /\ RowsOf(p, x) = {job'[p].rid}
         /\ job'[p].stage # "count" => \A r \in Rids : RowsOf(p, x) # {r}
      \/ /\ job'[p] = Idle /\ job[p].op # "Prune" /\ job[p].add = {}
         /\ \A r \in Rids : RowsOf(p, x) # {r}
  BY <1>3 DEF Goes, GoesOn
<1>10. CASE x # a
  BY <1>1, <1>2, <1>4, <1>5, <1>8, <1>9, <1>10, IsPath, IdleStage, OnwardKeeps DEF RowAtHand
<1>11. CASE x = a
  <2>1. Counting(p, a) /\ ~At(p, "idle") /\ a \in Leaving(p)
    BY <1>2, <1>3, <1>11 DEF Counting, Leaving, At
  <2>2. \A r \in Rids : res[r] = a => r \notin job[p].rows
    BY <1>1, <2>1 DEF RowsKnown
  <2>3. RowsOf(p, a) = {r \in Rids : res[r] = a}
    BY <2>2 DEF RowsOf
  <2>4. job'[p].stage # "count" => \A r \in Rids : res[r] # a
    <3>1. ASSUME NEW r \in Rids, res[r] = a PROVE RowsOf(p, a) = {r}
      BY <1>1, <2>3, <3>1 DEF SoleRow
    <3>2. QED
      BY <1>9, <1>11, <3>1
  <2>5. job'[p].stage = "count" => res[job'[p].rid] = a /\ \A s \in Rids : res[s] = a => s = job'[p].rid
    BY <1>9, <1>11, <2>3, IdleStage
  <2>6. a \notin job[p].add
    BY <1>1, <1>2, <1>3, <1>11 DEF Shape
  <2>7. a \notin Attaching(p) /\ a \notin Attaching(p)'
    BY <1>2, <1>9, <2>6, IdleStage DEF Attaching, At
  <2>8. \A m \in Media : ~Detaching(p, m, a)' /\ ~Detaching(p, m, a)
    BY <1>2, <1>9, IdleStage DEF Detaching, At
  <2>9. (\E r \in Rids : res[r] = a) => Counting(p, a)'
    BY <1>9, <1>11, <2>4, IdleStage DEF Counting, At
  <2>10. \A r \in Rids : Decided(p, r)' <=> Decided(p, r)
    BY <1>2, <1>8, <1>9, IdleStage DEF Decided, At
  <2>11. \A l \in job'[p].cut : res[l[1]] = a => job'[p].op = "Prune" /\ l[2] = job'[p].media
    BY <1>1, <1>7, <1>8, <1>9 DEF CutKnown
  <2>12. SameWork(p, a)
    BY <1>8, <1>9, <2>1, <2>2, <2>4, <2>5, <2>7, <2>8, <2>9, <2>10, <2>11, IdleStage
       DEF SameWork, RowAtHand
  <2>13. QED
    BY <1>1, <1>4, <2>12, OthersSame, IsPath, SameKeeps
<1>12. QED
  BY <1>10, <1>11

LEMMA AttachKeeps ==
    ASSUME WorkInv, WorkInv', NEW a \in Watched, a \notin spoilt', PathOK(a), NEW p \in Procs,
           Attach(p)
    PROVE  PathOK(a)'
<1>1. TypeOK /\ TypeOK' /\ Own(p) /\ Shape(p)
  BY DEF WorkInv, LinkInv, Own, Continue
<1>2. /\ job[p] \in Job /\ job[p].stage = "attach" /\ job[p] # Idle
      /\ UNCHANGED <<media, files, stored, res, link>>
  BY <1>1, AttachStep, JobStage DEF Attach
<1>3. job[p].op # "Prune" /\ job[p].cut = {} /\ job[p].rows = {} /\ job[p].drop = {}
  BY <1>1, <1>2 DEF Shape
<1>4. SameTables(a)
  BY <1>2, TablesStay
<1>5. PICK x \in job[p].add :
         \/ /\ RowsOf(p, x) = {}
            /\ Goes(p, "link", job[p].drop, job[p].add \ {x}, x, NoRid, job[p].cut, job[p].rows)
         \/ \E r \in Rids :
               /\ RowsOf(p, x) = {r}
               /\ Goes(p, "link", job[p].drop, job[p].add \ {x}, x, r, job[p].cut, job[p].rows)
         \/ job'[p] = Idle /\ spoilt' = spoilt \cup (Concern(p) \cap Watched)
  BY <1>1, AttachStep
<1>6. RowsOf(p, x) = {r \in Rids : res[r] = x}
  BY <1>3 DEF RowsOf
<1>7. CASE job'[p] = Idle /\ spoilt' = spoilt \cup (Concern(p) \cap Watched)
  BY <1>1, <1>2, <1>7, EndKeeps
<1>8. ASSUME NEW r \in Rids \cup {NoRid}, RowsOf(p, x) = IF r = NoRid THEN {} ELSE {r},
             Goes(p, "link", job[p].drop, job[p].add \ {x}, x, r, job[p].cut, job[p].rows)
      PROVE  PathOK(a)'
  <2>1. /\ job'[p] \in Job /\ job'[p].stage = "link" /\ job'[p].op = job[p].op
        /\ job'[p].media = job[p].media /\ job'[p].drop = {} /\ job'[p].add = job[p].add \ {x}
        /\ job'[p].path = x /\ job'[p].rid = r /\ job'[p].cut = {} /\ job'[p].rows = {}
    BY <1>3, <1>8 DEF Goes
  <2>2. CASE x # a
    BY <1>1, <1>2, <1>3, <1>4, <2>1, <2>2, IsPath, OnwardKeeps DEF RowAtHand
  <2>3. CASE x = a
    <3>1. a \in Attaching(p) /\ a \in Attaching(p)'
      BY <1>2, <2>1, <2>3 DEF Attaching, At
    <3>2. a \notin Leaving(p)'
      BY <1>3, <2>1 DEF Leaving, At
    <3>3. IF r = NoRid THEN \A s \in Rids : res[s] # a ELSE res[r] = a
      BY <1>6, <1>8, <2>3
    <3>4. \A m \in Media : ~Detaching(p, m, a)' /\ ~Detaching(p, m, a)
      BY <1>2, <2>1 DEF Detaching, At
    <3>5. ~Counting(p, a)' /\ ~Counting(p, a)
      BY <1>2, <1>3, <2>1 DEF Counting, At
    <3>6. \A s \in Rids : ~Decided(p, s)' /\ ~Decided(p, s)
      BY <1>2, <1>3, <2>1 DEF Decided, At
    <3>7. SameWork(p, a)
      BY <1>3, <2>1, <3>1, <3>2, <3>3, <3>4, <3>5, <3>6 DEF SameWork, RowAtHand
    <3>8. QED
      BY <1>1, <1>4, <3>7, OthersSame, IsPath, SameKeeps
  <2>4. QED
    BY <2>2, <2>3
<1>9. NoRid \notin Rids
  BY ResourcesConstants
<1>10. QED
  BY <1>5, <1>7, <1>8, <1>9


(***************************************************************************)
(* Steps at the path                                                       *)
(***************************************************************************)
LEMMA OthersWork ==
    ASSUME WorkInv, NEW p \in Procs, Own(p), NEW a
    PROVE  \A q \in Procs : q # p =>
              /\ job'[q] = job[q]
              /\ Attaching(q)' = Attaching(q) /\ Leaving(q)' = Leaving(q)
              /\ Counting(q, a)' <=> Counting(q, a)
              /\ \A r \in Rids : Decided(q, r)' <=> Decided(q, r)
              /\ \A m \in Media : Detaching(q, m, a)' <=> Detaching(q, m, a)
<1> SUFFICES ASSUME NEW q \in Procs, q # p
             PROVE  /\ job'[q] = job[q]
                    /\ Attaching(q)' = Attaching(q) /\ Leaving(q)' = Leaving(q)
                    /\ Counting(q, a)' <=> Counting(q, a)
                    /\ \A r \in Rids : Decided(q, r)' <=> Decided(q, r)
                    /\ \A m \in Media : Detaching(q, m, a)' <=> Detaching(q, m, a)
  OBVIOUS
<1>1. job'[q] = job[q] /\ Attaching(q)' = Attaching(q) /\ Leaving(q)' = Leaving(q)
  BY OthersAt
<1>2. Counting(q, a)' <=> Counting(q, a)
  BY <1>1 DEF Counting, At
<1>3. \A r \in Rids : Decided(q, r)' <=> Decided(q, r)
  BY <1>1 DEF Decided, At
<1>4. \A m \in Media : Detaching(q, m, a)' <=> Detaching(q, m, a)
  BY <1>1 DEF Detaching, At
<1>5. QED
  BY <1>1, <1>2, <1>3, <1>4

\* What is deleted with p's media detached: the link of that media to the path's resource.
LEMMA DetachLinks ==
    ASSUME WorkInv, NEW a \in Watched, PathOK(a), NEW p \in Procs, Detach(p), job[p].drop = {a},
           job[p].rows = {}
    PROVE  \A l \in Links : res[l[1]] = a =>
              (l \in link' <=> l \in link /\ l[2] # job[p].media)
<1>1. SoleRow(a) /\ TypeOK
  BY DEF PathOK, WorkInv, LinkInv
<1>2. PICK gone : /\ gone = {<<r, job[p].media>> : r \in RowsOf(p, a)}
                  /\ link' = IF Cardinality(gone) = 1 THEN link \ gone ELSE link
  BY DEF Detach
<1>3. RowsOf(p, a) = {r \in Rids : res[r] = a}
  BY DEF RowsOf
<1> SUFFICES ASSUME NEW l \in Links, res[l[1]] = a
             PROVE  l \in link' <=> l \in link /\ l[2] # job[p].media
  OBVIOUS
<1>4. l = <<l[1], l[2]>> /\ l[1] \in Rids
  BY DEF Links
<1>5. RowsOf(p, a) = {l[1]}
  BY <1>1, <1>3, <1>4 DEF SoleRow
<1>6. gone = {<<l[1], job[p].media>>}
  BY <1>2, <1>5
<1>7. link' = link \ {<<l[1], job[p].media>>}
  BY <1>2, <1>6, FS_Singleton
<1>8. QED
  BY <1>4, <1>7

LEMMA DetachOther ==
    ASSUME WorkInv, NEW a \in Watched, NEW p \in Procs, Detach(p), a \notin job[p].drop
    PROVE  \A l \in Links : res[l[1]] = a => (l \in link' <=> l \in link)
<1>1. PICK x \in job[p].drop :
        link' \in {link, link \ {<<r, job[p].media>> : r \in RowsOf(p, x)}}
  BY DEF Detach
<1>2. \A r \in RowsOf(p, x) : res[r] = x
  BY DEF RowsOf
<1>3. QED
  BY <1>1, <1>2

LEMMA DetachKeeps ==
    ASSUME WorkInv, WorkInv', NEW a \in Watched, PathOK(a), NEW p \in Procs, Detach(p)
    PROVE  PathOK(a)'
<1>1. TypeOK /\ TypeOK' /\ Own(p) /\ Shape(p)
  BY DEF WorkInv, LinkInv, Own, Continue, PathOK
<1>2. /\ job[p] \in Job /\ job[p].stage = "detach" /\ job[p] # Idle
      /\ UNCHANGED <<media, files, stored, res>>
  BY <1>1, DetachStep, JobStage DEF Detach
<1>3. /\ job'[p] \in Job /\ job'[p].stage = "find"
      /\ job'[p].op = job[p].op /\ job'[p].media = job[p].media
      /\ job'[p].drop = job[p].drop /\ job'[p].add = job[p].add
      /\ job'[p].cut = job[p].cut /\ job'[p].rows = job[p].rows
  BY <1>1, DetachStep DEF Goes
<1>4. /\ job[p].op # "Prune" /\ job[p].cut = {} /\ job[p].rows = {} /\ job[p].media \in Media
      /\ job[p].drop \cap job[p].add = {}
  BY <1>1, <1>2 DEF Shape, Job
<1>5. PICK x \in Paths : job[p].drop = {x}
  BY <1>1, <1>2, <1>4 DEF Shape
<1>6. CASE x # a
  <2>1. \A l \in Links : res[l[1]] = a => (l \in link' <=> l \in link)
    BY <1>5, <1>6, DetachOther
  <2>2. SameTables(a)
    BY <1>2, <2>1 DEF SameTables, Named, PathOK, NamedOnce
  <2>3. QED
    BY <1>1, <1>2, <1>3, <1>5, <1>6, <2>2, IsPath, OnwardKeeps DEF RowAtHand
<1>7. CASE x = a
  <2>1. \A l \in Links : res[l[1]] = a => (l \in link' <=> l \in link /\ l[2] # job[p].media)
    BY <1>4, <1>5, <1>7, DetachLinks
  <2>2. \A r \in Rids, m \in Media :
           res[r] = a => (<<r, m>> \in link' <=> <<r, m>> \in link /\ m # job[p].media)
    <3>1. \A r \in Rids, m \in Media : <<r, m>> \in Links /\ <<r, m>>[1] = r /\ <<r, m>>[2] = m
      BY DEF Links
    <3>2. QED
      BY <2>1, <3>1
  <2>3. link' \subseteq link
    BY DEF Detach
  <2>4. \A q \in Procs : q # p =>
              /\ job'[q] = job[q]
              /\ Attaching(q)' = Attaching(q) /\ Leaving(q)' = Leaving(q)
              /\ Counting(q, a)' <=> Counting(q, a)
              /\ \A r \in Rids : Decided(q, r)' <=> Decided(q, r)
              /\ \A m \in Media : Detaching(q, m, a)' <=> Detaching(q, m, a)
    BY <1>1, OthersWork
  <2>5. a \notin Attaching(p) /\ a \notin Attaching(p)'
    BY <1>2, <1>3, <1>4, <1>5, <1>7 DEF Attaching, At
  <2>6. a \in Leaving(p) /\ a \in Leaving(p)' /\ Detaching(p, job[p].media, a)
    BY <1>2, <1>3, <1>4, <1>5, <1>7 DEF Leaving, At, Detaching
  <2>7. Counting(p, a)' /\ \A m \in Media : ~Detaching(p, m, a)'
    BY <1>3, <1>5, <1>7, JobStage DEF Counting, At, Detaching
  <2>8. \A r \in Rids : ~Decided(p, r)'
    BY <1>3, <1>4 DEF Decided, At
  <2>9. ~Named(job[p].media, a)
    BY <1>4, <2>6 DEF PathOK, DetachKnown
  <2>10. SoleRow(a)' /\ NamedOnce(a)'
    BY <1>2, <1>3, <2>4 DEF PathOK, SoleRow, NamedOnce, At
  <2>11. Apart(a)'
    BY <1>2, <2>4, <2>5, <2>6 DEF PathOK, Apart
  <2>12. AttachKnown(a)'
    BY <1>2, <2>3, <2>4, <2>5 DEF PathOK, AttachKnown, Named, At
  <2>13. Settled(a)'
    <3> SUFFICES ASSUME NEW m \in Media, Named(m, a)
                 PROVE  \/ \E q \in Procs : a \in Attaching(q)' /\ job'[q].media = m
                        \/ \E r \in Rids : res'[r] = a /\ <<r, m>> \in link'
      BY <1>2 DEF Settled, Named
    <3>1. m # job[p].media
      BY <2>9
    <3>2. QED
      BY <1>2, <2>2, <2>4, <2>5, <3>1 DEF PathOK, Settled
  <2>14. Linked(a)'
    <3> SUFFICES ASSUME NEW r \in Rids, NEW m \in Media, res[r] = a, <<r, m>> \in link'
                 PROVE  Named(m, a) \/ \E q \in Procs : Detaching(q, m, a)'
      BY <1>2 DEF Linked, Named
    <3>1. <<r, m>> \in link /\ m # job[p].media
      BY <2>2
    <3>2. ~Detaching(p, m, a)
      BY <3>1 DEF Detaching
    <3>3. QED
      BY <2>4, <3>1, <3>2 DEF PathOK, Linked
  <2>15. DetachKnown(a)'
    BY <1>2, <2>4, <2>7 DEF PathOK, DetachKnown, Named
  <2>16. RowKnown(a)'
    BY <1>2, <1>3, <2>4 DEF PathOK, RowKnown, RowAtHand
  <2>17. DecidedKnown(a)'
    BY <1>2, <2>3, <2>4, <2>8 DEF PathOK, DecidedKnown
  <2>18. RowsKnown(a)'
    BY <1>2, <1>3, <1>4, <2>4 DEF PathOK, RowsKnown
  <2>19. CutKnown(a)'
    BY <1>2, <1>3, <1>4, <2>4 DEF PathOK, CutKnown
  <2>20. Kept(a)'
    BY <1>2, <1>3, <2>4 DEF PathOK, Kept
  <2>21. Held(a)'
    BY <2>7 DEF Held
  <2>22. QED
    BY <2>10, <2>11, <2>12, <2>13, <2>14, <2>15, <2>16, <2>17, <2>18, <2>19, <2>20, <2>21
       DEF PathOK
<1>8. QED
  BY <1>6, <1>7


LEMMA CountKeeps ==
    ASSUME WorkInv, WorkInv', NEW a \in Watched, a \notin spoilt', PathOK(a), NEW p \in Procs,
           Count(p)
    PROVE  PathOK(a)'
<1>1. TypeOK /\ TypeOK' /\ Own(p) /\ Shape(p)
  BY DEF WorkInv, LinkInv, Own, Continue, PathOK
<1>2. /\ job[p] \in Job /\ job[p].stage = "count" /\ job[p] # Idle
      /\ UNCHANGED <<media, files, stored, res, link>>
  BY <1>1, CountStep, JobStage DEF Count
<1>3. /\ job[p].rid \in Rids /\ job[p].path \notin job[p].drop /\ job[p].path \notin job[p].add
      /\ job[p].op # "Prune" => job[p].drop = {} /\ job[p].cut = {} /\ job[p].rows = {}
  BY <1>1, <1>2 DEF Shape, RowAtHand
<1>4. PICK next : /\ job'[p].stage = next
                  /\ Users(p) = {} => next = "cascade" /\ job'[p].path = job[p].path
                                      /\ job'[p].rid = job[p].rid
                  /\ Users(p) # {} => next \in {"idle", "find", "attach"}
                  /\ \/ /\ job'[p] \in Job /\ job'[p].op = job[p].op /\ job'[p].media = job[p].media
                        /\ job'[p].drop = job[p].drop /\ job'[p].add = job[p].add
                     \/ job'[p] = Idle /\ job[p].op # "Prune" /\ job[p].add = {}
                  /\ job'[p].cut = job[p].cut /\ job'[p].rows = job[p].rows
  <2>1. CASE Users(p) = {}
    BY <1>1, <2>1, CountStep DEF Goes
  <2>2. CASE Users(p) # {}
    BY <1>1, <1>3, <2>2, CountStep, IdleStage DEF Goes, GoesOn
  <2>3. QED
    BY <2>1, <2>2
<1>5. SameTables(a)
  BY <1>2, TablesStay
<1>6. CASE job[p].path # a
  BY <1>1, <1>2, <1>3, <1>4, <1>5, <1>6, IsPath, OnwardKeeps DEF RowAtHand
<1>7. CASE job[p].path = a
  <2>1. \A q \in Procs : q # p =>
              /\ job'[q] = job[q]
              /\ Attaching(q)' = Attaching(q) /\ Leaving(q)' = Leaving(q)
              /\ Counting(q, a)' <=> Counting(q, a)
              /\ \A r \in Rids : Decided(q, r)' <=> Decided(q, r)
              /\ \A m \in Media : Detaching(q, m, a)' <=> Detaching(q, m, a)
    BY <1>1, OthersWork
  <2>2. a \notin Attaching(p) /\ a \notin Attaching(p)'
    BY <1>2, <1>3, <1>4, <1>7, IdleStage DEF Attaching, At
  <2>3. a \in Leaving(p) /\ Counting(p, a)
    BY <1>2, <1>7 DEF Leaving, Counting, At
  <2>4. \A m \in Media : ~Detaching(p, m, a) /\ ~Detaching(p, m, a)'
    BY <1>2, <1>4 DEF Detaching, At
  <2>5. \A s \in Rids : res[s] = a => s = job[p].rid
    BY <1>2, <1>7 DEF PathOK, RowKnown, RowAtHand
  <2>6. \A r \in Rids : res[r] = a => r \notin job[p].rows
    BY <2>3 DEF PathOK, RowsKnown
  <2>7. SoleRow(a)' /\ NamedOnce(a)'
    BY <1>2, <1>4, <2>1 DEF PathOK, SoleRow, NamedOnce, At
  <2>8. Apart(a)'
    BY <1>2, <2>1, <2>2, <2>3 DEF PathOK, Apart
  <2>9. AttachKnown(a)'
    BY <1>2, <2>1, <2>2 DEF PathOK, AttachKnown, Named, At
  <2>10. Settled(a)'
    BY <1>2, <2>1, <2>2 DEF PathOK, Settled, Named
  <2>11. Linked(a)'
    BY <1>2, <2>1, <2>4 DEF PathOK, Linked, Named
  <2>12. DetachKnown(a)'
    BY <1>2, <2>1, <2>4 DEF PathOK, DetachKnown, Named
  <2>13. RowKnown(a)'
    BY <1>2, <1>4, <2>1, <2>5 DEF PathOK, RowKnown, RowAtHand
  <2>14. DecidedKnown(a)'
    <3> SUFFICES ASSUME NEW r \in Rids, res[r] = a, Decided(p, r)', NEW l \in link, l[1] = r
                 PROVE  l \in job'[p].cut
      BY <1>2, <2>1 DEF PathOK, DecidedKnown
    <3>1. r = job[p].rid /\ r \notin job'[p].rows
      BY <1>4, <2>5, <2>6
    <3>2. Users(p) = {}
      BY <1>4, <3>1 DEF Decided, At
    <3>3. QED
      BY <1>4, <3>1, <3>2 DEF Users
  <2>15. RowsKnown(a)'
    BY <1>2, <1>4, <2>1, <2>6 DEF PathOK, RowsKnown
  <2>16. CutKnown(a)'
    BY <1>2, <1>3, <1>4, <2>1 DEF PathOK, CutKnown
  <2>17. Kept(a)'
    BY <1>2, <1>4, <2>1 DEF PathOK, Kept
  <2>18. Held(a)'
    <3> SUFFICES ASSUME NEW r \in Rids, res[r] = a
                 PROVE  \/ \E l \in link : l[1] = r /\ \A q \in Procs : l \notin job'[q].cut
                        \/ \E q \in Procs : Decided(q, r)'
      BY <1>2 DEF Held
    <3>1. r = job[p].rid
      BY <2>5
    <3>2. CASE Users(p) = {}
      BY <1>4, <3>1, <3>2 DEF Decided, At
    <3>3. CASE Users(p) # {}
      <4>1. ~(\A l \in Users(p) : LinkLocked(p, l))
        BY <1>7, <3>3 DEF Count, Spoils
      <4>2. PICK l \in Users(p) : ~LinkLocked(p, l)
        BY <4>1
      <4>3. l \in link /\ l[1] = r /\ l \notin job[p].cut
        BY <3>1 DEF Users
      <4>4. \A q \in Procs : l \notin job'[q].cut
        BY <1>4, <2>1, <4>2, <4>3 DEF LinkLocked, Others
      <4>5. QED
        BY <4>3, <4>4
    <3>4. QED
      BY <3>2, <3>3
  <2>19. QED
    BY <2>7, <2>8, <2>9, <2>10, <2>11, <2>12, <2>13, <2>14, <2>15, <2>16, <2>17, <2>18
       DEF PathOK
<1>8. QED
  BY <1>6, <1>7

LEMMA RemoveKeeps ==
    ASSUME WorkInv, WorkInv', NEW a \in Watched, PathOK(a), NEW p \in Procs, Remove(p)
    PROVE  PathOK(a)'
<1>1. TypeOK /\ TypeOK' /\ Own(p) /\ Shape(p) /\ PruneAlone(p)
  BY DEF WorkInv, LinkInv, Own, Continue, PathOK
<1>2. /\ job[p] \in Job /\ job[p].stage = "remove" /\ job[p] # Idle
      /\ UNCHANGED <<media, files, res, link>> /\ stored' = stored \ {job[p].path}
  BY <1>1, RemoveStep, JobStage DEF Remove
<1>3. /\ job[p].rid \in Rids /\ job[p].path \notin job[p].drop /\ job[p].path \notin job[p].add
      /\ job[p].op # "Prune" => job[p].drop = {}
      /\ res[job[p].rid] \in {job[p].path, Deleted}
  BY <1>1, <1>2 DEF Shape, RowAtHand
<1>4. /\ job'[p] \in Job /\ job'[p].op = job[p].op /\ job'[p].media = job[p].media
      /\ job'[p].stage = IF job[p].op = "Prune" THEN "find" ELSE "commit"
      /\ job'[p].drop = job[p].drop /\ job'[p].add = job[p].add
      /\ job'[p].path = job[p].path /\ job'[p].rid = job[p].rid /\ job'[p].cut = job[p].cut
      /\ job'[p].rows = IF res[job[p].rid] = Deleted THEN job[p].rows
                        ELSE job[p].rows \cup {job[p].rid}
  BY <1>1, RemoveStep DEF Goes
<1>5. CASE job[p].path # a
  <2>1. SameTables(a)
    BY <1>2, <1>5, TablesStay
  <2>2. \A r \in Rids : res[r] = a => (r \in job'[p].rows <=> r \in job[p].rows)
    BY <1>3, <1>4, <1>5, IsPath
  <2>3. QED
    BY <1>1, <1>2, <1>4, <1>5, <2>1, <2>2, IsPath, OnwardKeeps DEF RowAtHand
<1>6. CASE job[p].path = a
  <2>1. \A q \in Procs : q # p =>
              /\ job'[q] = job[q]
              /\ Attaching(q)' = Attaching(q) /\ Leaving(q)' = Leaving(q)
              /\ Counting(q, a)' <=> Counting(q, a)
              /\ \A r \in Rids : Decided(q, r)' <=> Decided(q, r)
              /\ \A m \in Media : Detaching(q, m, a)' <=> Detaching(q, m, a)
    BY <1>1, OthersWork
  <2>2. a \notin Attaching(p) /\ a \notin Attaching(p)'
    BY <1>2, <1>3, <1>4, <1>6 DEF Attaching, At
  <2>3. a \in Leaving(p)
    BY <1>2, <1>6 DEF Leaving, At
  <2>4. a \in Leaving(p)'
    <3>1. CASE job[p].op = "Prune"
      <4>1. a \in PathsIn(files[job[p].media])
        BY <1>1, <1>2, <1>6, <3>1 DEF PruneAlone, At
      <4>2. QED
        BY <1>2, <1>4, <3>1, <4>1 DEF Leaving, At
    <3>2. CASE job[p].op # "Prune"
      BY <1>4, <1>6, <3>2 DEF Leaving, At
    <3>3. QED
      BY <3>1, <3>2
  <2>5. \A m \in Media : ~Detaching(p, m, a) /\ ~Detaching(p, m, a)'
    BY <1>2, <1>4 DEF Detaching, At
  <2>6. \A s \in Rids : res[s] = a => s = job[p].rid
    BY <1>2, <1>6 DEF PathOK, RowKnown, RowAtHand
  <2>7. ~Counting(p, a) /\ ~Counting(p, a)'
    BY <1>2, <1>3, <1>4, <1>6 DEF Counting, At
  <2>8. \A r \in Rids : res[r] = a => Decided(p, r) /\ r \in job'[p].rows /\ Decided(p, r)'
    BY <1>2, <1>4, <2>6, IsPath DEF Decided, At
  <2>9. SoleRow(a)' /\ NamedOnce(a)'
    BY <1>2, <1>4, <2>1 DEF PathOK, SoleRow, NamedOnce, At
  <2>10. \A q \in Procs : a \notin Attaching(q)'
    BY <2>1, <2>2, <2>3 DEF PathOK, Apart
  <2>11. Apart(a)' /\ AttachKnown(a)'
    BY <2>10 DEF Apart, AttachKnown
  <2>12. Settled(a)'
    BY <1>2, <2>1, <2>2 DEF PathOK, Settled, Named
  <2>13. Linked(a)'
    BY <1>2, <2>1, <2>5 DEF PathOK, Linked, Named
  <2>14. DetachKnown(a)'
    BY <1>2, <2>1, <2>5 DEF PathOK, DetachKnown, Named
  <2>15. RowKnown(a)'
    BY <1>2, <1>4, <2>1, <2>6 DEF PathOK, RowKnown, RowAtHand
  <2>16. DecidedKnown(a)'
    BY <1>2, <1>4, <2>1, <2>8 DEF PathOK, DecidedKnown
  <2>17. RowsKnown(a)'
    BY <1>2, <2>1, <2>4, <2>7 DEF PathOK, RowsKnown
  <2>18. CutKnown(a)'
    BY <1>2, <1>4, <2>1 DEF PathOK, CutKnown
  <2>19. Kept(a)'
    BY <1>2, <2>8 DEF Kept
  <2>20. Held(a)'
    BY <1>2, <2>8 DEF Held
  <2>21. QED
    BY <2>9, <2>11, <2>12, <2>13, <2>14, <2>15, <2>16, <2>17, <2>18, <2>19, <2>20 DEF PathOK
<1>7. QED
  BY <1>5, <1>6


LEMMA FailedCommitKeeps ==
    ASSUME WorkInv, WorkInv', NEW a \in Watched, a \notin spoilt', PathOK(a), NEW p \in Procs,
           Commit(p), Fails(p)
    PROVE  PathOK(a)'
<1>1. TypeOK /\ Own(p) /\ Shape(p)
  BY DEF WorkInv, LinkInv, Own, Continue
<1>2. /\ job[p] \in Job /\ job[p] # Idle
      /\ UNCHANGED <<media, files, stored, res, link>> /\ a \notin Concern(p)
  BY <1>1, CommitStep, JobStage
<1>3. CASE job[p].op = "Prune"
  BY <1>1, <1>2, <1>3, CommitStep, EndKeeps
<1>4. CASE job[p].op # "Prune"
  <2>1. /\ job[p].stage = "commit" /\ GoesOn(p, job[p].drop, {}, {})
    BY <1>1, <1>4, CommitStep
  <2>2. job[p].drop = {} /\ a \notin job[p].add
    BY <1>1, <1>2, <1>4, <2>1, JobStage DEF Shape, RowAtHand, Concern, Attaching, At
  <2>3. job'[p].stage \in {"idle", "attach"} /\ job'[p].cut = {} /\ job'[p].rows = {}
    BY <1>4, <2>1, IdleStage DEF GoesOn, Goes
  <2>4. a \notin Attaching(p)' /\ a \notin Leaving(p)'
    BY <1>4, <2>1, <2>2, IdleStage DEF GoesOn, Goes, Attaching, Leaving, At
  <2>5. SameTables(a)
    BY <1>2, TablesStay
  <2>6. QED
    BY <1>1, <1>2, <2>3, <2>4, <2>5, IsPath, AsideKeeps
<1>5. QED
  BY <1>3, <1>4

\* The commit of a request that leaves the path, which then has no resource or the one
\* that somebody else sees to.
LEMMA LeaveKeeps ==
    ASSUME WorkInv, WorkInv', NEW a \in Watched, a \notin spoilt', PathOK(a), NEW p \in Procs,
           Commit(p), ~Fails(p), a \in Leaving(p)
    PROVE  PathOK(a)'
<1> DEFINE n == job[p].media
<1>1. TypeOK /\ TypeOK' /\ Own(p) /\ Shape(p) /\ PruneAlone(p)
  BY DEF WorkInv, LinkInv, Own, Continue
<1>2. /\ job[p] \in Job /\ job[p] # Idle
      /\ \/ job[p].stage = "commit"
         \/ job[p].stage = "find" /\ job[p].op = "Prune" /\ job[p].drop = {}
      /\ IF job[p].op = "Prune" THEN job'[p] = Idle ELSE GoesOn(p, job[p].drop, {}, {})
      /\ stored' = stored
      /\ res' = [r \in Rids |-> IF r \in job[p].rows THEN Deleted ELSE res[r]]
      /\ link' = link \ job[p].cut
      /\ files' = IF job[p].op = "Prune" THEN [files EXCEPT ![n] = {}] ELSE files
  BY <1>1, CommitStep, JobStage
<1>3. \A q \in Procs : q # p =>
              /\ job'[q] = job[q]
              /\ Attaching(q)' = Attaching(q) /\ Leaving(q)' = Leaving(q)
              /\ Counting(q, a)' <=> Counting(q, a)
              /\ \A r \in Rids : Decided(q, r)' <=> Decided(q, r)
              /\ \A m \in Media : Detaching(q, m, a)' <=> Detaching(q, m, a)
  BY <1>1, OthersWork
<1>4. n \in Media /\ job[p].stage # "idle" /\ job[p].drop = {}
  BY <1>1, <1>2 DEF Shape, RowAtHand, Job
<1>5. a \notin Attaching(p)
  BY <1>1, <1>2 DEF Shape, PruneAlone, RowAtHand, Attaching, Leaving, At
<1>6. a \notin Attaching(p)'
  BY <1>1, <1>2, <1>5, IdleStage DEF GoesOn, Goes, Attaching, At
<1>7. \A q \in Procs : a \notin Attaching(q) /\ a \notin Attaching(q)'
  BY <1>3, <1>5, <1>6 DEF PathOK, Apart
<1>8. /\ job'[p].stage \in {"idle", "attach"} /\ job'[p].cut = {} /\ job'[p].rows = {}
  BY <1>2, IdleStage DEF GoesOn, Goes
<1>9. \A m \in Media : ~Detaching(p, m, a) /\ ~Detaching(p, m, a)'
  BY <1>2, <1>8 DEF Detaching, At
<1>10. ~Counting(p, a) /\ ~(a \in job[p].drop)
  BY <1>2, <1>4 DEF Counting, At
<1>11. a # Deleted
  BY IsPath
<1>12. \A r \in Rids : res'[r] = a <=> res[r] = a /\ r \notin job[p].rows
  BY <1>2, <1>11
<1>13. \A m \in Media : a \in PathsIn(files'[m]) <=> Named(m, a) /\ (job[p].op = "Prune" => m # n)
  BY <1>1, <1>2, <1>4 DEF Named, TypeOK, PathsIn
<1>14. \A m \in Media : ~Twice(files'[m], a)
  <2>1. \A m \in Media : files'[m] \subseteq files[m]
    BY <1>1, <1>2, <1>4 DEF TypeOK
  <2>2. QED
    BY <2>1 DEF PathOK, NamedOnce, Twice
<1>15. \A r \in Rids, m \in Media : <<r, m>> \in Links /\ <<r, m>>[1] = r /\ <<r, m>>[2] = m
  BY DEF Links
<1>16. \A r \in Rids, m \in Media : res[r] = a /\ <<r, m>> \in job[p].cut => job[p].op = "Prune" /\ m = n
  BY <1>15 DEF PathOK, CutKnown
<1>17. job[p].op = "Prune" => \A r \in Rids : <<r, n>> \notin link'
  BY <1>2, <1>4, <1>15 DEF PruneAlone, At, WorkInv
<1> HIDE DEF n
<1>18. SoleRow(a)' /\ NamedOnce(a)'
  BY <1>3, <1>8, <1>12, <1>14 DEF PathOK, SoleRow, NamedOnce, At
<1>19. Apart(a)' /\ AttachKnown(a)'
  BY <1>7 DEF Apart, AttachKnown
<1>20. Settled(a)'
  <2> SUFFICES ASSUME NEW m \in Media, Named(m, a), job[p].op = "Prune" => m # n
               PROVE  \E r \in Rids : res'[r] = a /\ <<r, m>> \in link'
    BY <1>13 DEF Settled, Named
  <2>1. PICK r \in Rids : res[r] = a /\ <<r, m>> \in link
    BY <1>7 DEF PathOK, Settled
  <2>2. <<r, m>> \notin job[p].cut
    BY <1>16, <2>1
  <2>3. r \notin job[p].rows
    BY <1>15, <2>1, <2>2 DEF Fails
  <2>4. QED
    BY <1>2, <1>12, <2>1, <2>2, <2>3
<1>21. Linked(a)'
  <2> SUFFICES ASSUME NEW r \in Rids, NEW m \in Media, res'[r] = a, <<r, m>> \in link'
               PROVE  a \in PathsIn(files'[m]) \/ \E q \in Procs : Detaching(q, m, a)'
    BY DEF Linked, Named
  <2>1. res[r] = a /\ <<r, m>> \in link /\ (job[p].op = "Prune" => m # n)
    BY <1>2, <1>12, <1>17
  <2>2. Named(m, a) \/ \E q \in Procs : Detaching(q, m, a)
    BY <2>1 DEF PathOK, Linked
  <2>3. QED
    BY <1>3, <1>9, <1>13, <2>1, <2>2
<1>22. DetachKnown(a)'
  BY <1>3, <1>9, <1>13 DEF PathOK, DetachKnown, Named
<1>23. RowKnown(a)'
  BY <1>3, <1>8, <1>12 DEF PathOK, RowKnown, RowAtHand
<1>24. \A r \in Rids : ~Decided(p, r)'
  BY <1>8 DEF Decided, At
<1>25. DecidedKnown(a)'
  BY <1>2, <1>3, <1>12, <1>24 DEF PathOK, DecidedKnown
<1>26. RowsKnown(a)'
  BY <1>3, <1>8, <1>12 DEF PathOK, RowsKnown
<1>27. \A q \in Procs : \A l \in job'[q].cut : l[1] \in Rids
  BY <1>1 DEF TypeOK, Idle, Job, Links
<1>28. CutKnown(a)'
  BY <1>3, <1>8, <1>12, <1>27 DEF PathOK, CutKnown
<1>29. Kept(a)'
  BY <1>2, <1>3, <1>12 DEF PathOK, Kept
<1>30. Held(a)'
  <2> SUFFICES ASSUME NEW r \in Rids, res'[r] = a
               PROVE  \/ \E l \in link' : l[1] = r /\ \A q \in Procs : l \notin job'[q].cut
                      \/ \E q \in Procs : Counting(q, a)' \/ Decided(q, r)'
    BY DEF Held
  <2>1. res[r] = a /\ r \notin job[p].rows
    BY <1>12
  <2>2. ~Decided(p, r)
    BY <1>2, <2>1 DEF Decided, At
  <2>3. CASE \E l \in link : l[1] = r /\ \A q \in Procs : l \notin job[q].cut
    <3>1. PICK l \in link : l[1] = r /\ \A q \in Procs : l \notin job[q].cut
      BY <2>3
    <3>2. l \in link' /\ \A q \in Procs : l \notin job'[q].cut
      BY <1>2, <1>3, <1>8, <3>1
    <3>3. QED
      BY <3>1, <3>2
  <2>4. CASE \E q \in Procs : Counting(q, a) \/ Decided(q, r)
    BY <1>3, <1>10, <2>2, <2>4
  <2>5. QED
    BY <2>1, <2>3, <2>4 DEF PathOK, Held
<1>31. QED
  BY <1>18, <1>19, <1>20, <1>21, <1>22, <1>23, <1>25, <1>26, <1>28, <1>29, <1>30 DEF PathOK

LEMMA CommitKeeps ==
    ASSUME WorkInv, WorkInv', NEW a \in Watched, a \notin spoilt', PathOK(a), NEW p \in Procs,
           Commit(p)
    PROVE  PathOK(a)'
<1>1. TypeOK /\ Own(p) /\ Shape(p)
  BY DEF WorkInv, LinkInv, Own, Continue
<1>2. CASE ~Fails(p) /\ a \notin Leaving(p)
  <2>1. /\ job[p] \in Job /\ job[p] # Idle
        /\ \/ job[p].stage = "commit"
           \/ job[p].stage = "find" /\ job[p].op = "Prune" /\ job[p].drop = {}
        /\ IF job[p].op = "Prune" THEN job'[p] = Idle ELSE GoesOn(p, job[p].drop, {}, {})
        /\ stored' = stored
        /\ res' = [r \in Rids |-> IF r \in job[p].rows THEN Deleted ELSE res[r]]
        /\ link' = link \ job[p].cut
        /\ files' = IF job[p].op = "Prune" THEN [files EXCEPT ![job[p].media] = {}] ELSE files
    BY <1>1, <1>2, CommitStep, JobStage
  <2>2. job[p].media \in Media /\ job[p].stage # "idle" /\ a # Deleted
    BY <2>1, IsPath DEF Job
  <2>3. \A r \in Rids : res[r] = a => r \notin job[p].rows
    BY <1>2 DEF PathOK, RowsKnown
  <2>4. job[p].op = "Prune" => ~Named(job[p].media, a)
    BY <1>2, <2>2 DEF Leaving, At, Named
  <2>5. ASSUME NEW l \in link, res[l[1]] = a PROVE l \notin job[p].cut
    <3>1. CASE job[p].op # "Prune"
      BY <2>5, <3>1 DEF PathOK, CutKnown
    <3>2. CASE job[p].op = "Prune"
      <4>1. a \notin Concern(p)
        BY <1>2, <2>1, <2>2, <3>2 DEF Concern, Attaching, At, WorkInv, PruneAlone
      <4>2. QED
        BY <2>5, <4>1, IsPath, AsideBefore
    <3>3. QED
      BY <3>1, <3>2
  <2>6. \A m \in Media : a \in PathsIn(files'[m]) <=> Named(m, a)
    BY <1>1, <2>1, <2>2, <2>4 DEF Named, TypeOK, PathsIn
  <2>7. \A m \in Media : ~Twice(files'[m], a)
    <3>1. \A m \in Media : files'[m] \subseteq files[m]
      BY <1>1, <2>1, <2>2 DEF TypeOK
    <3>2. QED
      BY <3>1 DEF PathOK, NamedOnce, Twice
  <2>8. SameTables(a)
    BY <2>1, <2>2, <2>3, <2>5, <2>6, <2>7 DEF SameTables
  <2>9. CASE job[p].op = "Prune"
    <3>1. a \notin Concern(p)
      BY <1>2, <2>1, <2>2, <2>9 DEF Concern, Attaching, At, WorkInv, PruneAlone
    <3>2. QED
      BY <1>1, <2>1, <2>8, <2>9, <3>1, IsPath, IdleKnows, AsideKeeps
  <2>10. CASE job[p].op # "Prune"
    <3>1. job[p].stage = "commit" /\ job[p].path # a /\ job[p].drop = {}
      BY <1>1, <1>2, <2>1, <2>2, <2>10 DEF Leaving, At, Shape, RowAtHand
    <3>2. GoesOn(p, job[p].drop, {}, {})
      BY <2>1, <2>10
    <3>3. \/ /\ job'[p] \in Job /\ job'[p].op = job[p].op /\ job'[p].media = job[p].media
             /\ a \in job'[p].drop <=> a \in job[p].drop
             /\ a \in job'[p].add <=> a \in job[p].add
          \/ /\ job'[p] = Idle /\ job[p].op # "Prune"
             /\ a \notin job[p].drop /\ a \notin job[p].add
      BY <2>10, <3>1, <3>2 DEF GoesOn, Goes
    <3>4. job'[p].stage \in {"idle", "attach"} /\ job'[p].cut = {} /\ job'[p].rows = {}
      BY <2>10, <3>2, IdleStage DEF GoesOn, Goes
    <3>5. \A l \in Links : res[l[1]] = a => l \notin job[p].cut
      BY <2>10 DEF PathOK, CutKnown
    <3>6. QED
      BY <1>1, <2>1, <2>3, <2>8, <3>1, <3>3, <3>4, <3>5, IsPath, OnwardKeeps DEF RowAtHand
  <2>11. QED
    BY <2>9, <2>10
<1>3. QED
  BY <1>2, FailedCommitKeeps, LeaveKeeps


LEMMA LinkNewKeeps ==
    ASSUME WorkInv, WorkInv', NEW a \in Watched, PathOK(a), NEW p \in Procs, LinkNew(p)
    PROVE  PathOK(a)'
<1>1. TypeOK /\ TypeOK' /\ Own(p) /\ Shape(p) /\ LinksHaveRows
  BY DEF WorkInv, LinkInv, Own, Continue
<1>2. /\ job[p] \in Job /\ job[p].stage = "link" /\ job[p].rid = NoRid /\ job[p] # Idle
      /\ GoesOn(p, job[p].drop, job[p].cut, job[p].rows)
      /\ UNCHANGED <<media, files, stored>>
  BY <1>1, LinkNewStep, JobStage DEF LinkNew
<1>3. PICK r \in Rids : /\ res[r] = Unused
                        /\ res' = [res EXCEPT ![r] = job[p].path]
                        /\ link' = link \cup {<<r, job[p].media>>}
  BY DEF LinkNew
<1>4. /\ job[p].op # "Prune" /\ job[p].cut = {} /\ job[p].rows = {} /\ job[p].drop = {}
      /\ job[p].path \in Paths /\ job[p].path \notin job[p].add /\ job[p].media \in Media
  BY <1>1, <1>2 DEF Shape, RowAtHand, Job
<1>5. \A s \in Rids : res'[s] = IF s = r THEN job[p].path ELSE res[s]
  BY <1>1, <1>3 DEF TypeOK
<1>6. job'[p].stage \in {"idle", "attach"} /\ job'[p].cut = {} /\ job'[p].rows = {}
  BY <1>2, <1>4, IdleStage DEF GoesOn, Goes
<1>7. \A l \in link : l[1] # r
  BY <1>1, <1>3, ResourcesConstants DEF LinksHaveRows
<1>8. CASE job[p].path # a
  <2>1. \A l \in Links : res[l[1]] = a => (l \in link' <=> l \in link)
    BY <1>3, IsPath
  <2>2. \A s \in Rids : res'[s] = a <=> res[s] = a
    BY <1>3, <1>5, <1>8, IsPath
  <2>3. SameTables(a)
    BY <1>2, <2>1, <2>2 DEF SameTables, Named, PathOK, NamedOnce
  <2>4. \/ /\ job'[p] \in Job /\ job'[p].op = job[p].op /\ job'[p].media = job[p].media
           /\ a \in job'[p].drop <=> a \in job[p].drop
           /\ a \in job'[p].add <=> a \in job[p].add
        \/ /\ job'[p] = Idle /\ job[p].op # "Prune"
           /\ a \notin job[p].drop /\ a \notin job[p].add
    BY <1>2, <1>4 DEF GoesOn, Goes
  <2>5. QED
    BY <1>1, <1>2, <1>4, <1>6, <1>8, <2>3, <2>4, IsPath, OnwardKeeps DEF RowAtHand
<1>9. CASE job[p].path = a
  <2>1. \A q \in Procs : q # p =>
              /\ job'[q] = job[q]
              /\ Attaching(q)' = Attaching(q) /\ Leaving(q)' = Leaving(q)
              /\ Counting(q, a)' <=> Counting(q, a)
              /\ \A s \in Rids : Decided(q, s)' <=> Decided(q, s)
              /\ \A m \in Media : Detaching(q, m, a)' <=> Detaching(q, m, a)
    BY <1>1, OthersWork
  <2>2. a \in Attaching(p) /\ a \notin Attaching(p)'
    BY <1>2, <1>4, <1>6, <1>9, IdleStage DEF Attaching, At, GoesOn, Goes
  <2>3. /\ a \in PathsIn(files[job[p].media]) /\ a \in stored
        /\ \A s \in Rids : res[s] # a
    BY <1>2, <1>9, <2>2 DEF PathOK, AttachKnown, Named, At
  <2>4. \A q \in Procs : q # p => a \notin Leaving(q) /\ a \notin Attaching(q)
    BY <2>2, <2>3 DEF PathOK, Apart
  <2>5. a \notin Leaving(p)'
    BY <1>2, <1>4, IdleStage DEF Leaving, At, GoesOn, Goes
  <2>6. \A q \in Procs : a \notin Leaving(q)' /\ a \notin Attaching(q)'
    BY <2>1, <2>2, <2>4, <2>5
  <2>7. \A s \in Rids : res'[s] = a <=> s = r
    BY <1>5, <1>9, <2>3
  <2>8. \A q \in Procs : r \notin job'[q].rows /\ \A l \in job'[q].cut : l[1] # r
    <3>1. ASSUME NEW q \in Procs, q # p
          PROVE  r \notin job[q].rows /\ \A l \in job[q].cut : l[1] # r
      <4>1. Shape(q)
        BY DEF WorkInv
      <4>2. QED
        BY <1>3, <4>1, IdleStage DEF Shape
    <3>2. QED
      BY <1>6, <2>1, <3>1
  <2>9. \A m \in Media, q \in Procs : ~Detaching(q, m, a)'
    BY <2>6 DEF Detaching, Leaving, At
  <2>10. \A l \in link' : l[1] = r => l = <<r, job[p].media>>
    BY <1>3, <1>7
  <2>11. SoleRow(a)'
    BY <2>7 DEF SoleRow
  <2>12. NamedOnce(a)'
    BY <1>2, <1>6, <2>1 DEF PathOK, NamedOnce, At
  <2>13. Apart(a)' /\ AttachKnown(a)'
    BY <2>6 DEF Apart, AttachKnown
  <2>14. Settled(a)'
    <3> SUFFICES ASSUME NEW m \in Media, Named(m, a)
                 PROVE  res'[r] = a /\ <<r, m>> \in link'
      BY <1>2 DEF Settled, Named
    <3>1. PICK q \in Procs : a \in Attaching(q) /\ job[q].media = m
      BY <2>3 DEF PathOK, Settled
    <3>2. q = p
      BY <2>4, <3>1
    <3>3. QED
      BY <1>3, <2>7, <3>1, <3>2
  <2>15. Linked(a)'
    <3> SUFFICES ASSUME NEW s \in Rids, NEW m \in Media, res'[s] = a, <<s, m>> \in link'
                 PROVE  a \in PathsIn(files'[m])
      BY DEF Linked, Named
    <3>1. <<s, m>> = <<r, job[p].media>>
      BY <2>7, <2>10
    <3>2. QED
      BY <1>2, <2>3, <3>1
  <2>16. DetachKnown(a)'
    BY <2>9 DEF DetachKnown
  <2>17. RowKnown(a)'
    <3> SUFFICES ASSUME NEW q \in Procs, job'[q].stage \in RowAtHand, job'[q].path = a
                 PROVE  FALSE
      BY DEF RowKnown
    <3>1. QED
      BY <2>6 DEF Leaving, At, RowAtHand
  <2>18. \A q \in Procs : ~Decided(q, r)'
    <3>1. ASSUME NEW q \in Procs, job'[q].stage \in {"cascade", "remove"}, job'[q].rid = r
          PROVE  FALSE
      <4>1. Shape(q)' /\ job'[q] # Idle
        BY <3>1, IdleStage DEF WorkInv
      <4>2. job'[q].path = a
        BY <2>7, <3>1, <4>1, IsPath DEF Shape, RowAtHand
      <4>3. QED
        BY <2>6, <3>1, <4>2 DEF Leaving, At
    <3>2. QED
      BY <2>8, <3>1 DEF Decided, At
  <2>19. DecidedKnown(a)'
    BY <2>7, <2>18 DEF DecidedKnown
  <2>20. RowsKnown(a)'
    BY <2>7, <2>8 DEF RowsKnown
  <2>21. \A q \in Procs : \A l \in job'[q].cut : l[1] \in Rids
    BY <1>1 DEF TypeOK, Idle, Job, Links
  <2>22. CutKnown(a)'
    BY <2>7, <2>8, <2>21 DEF CutKnown
  <2>23. Kept(a)'
    BY <1>2, <2>3 DEF Kept
  <2>24. Held(a)'
    <3>1. <<r, job[p].media>> \in link' /\ <<r, job[p].media>>[1] = r
      BY <1>3
    <3>2. \A q \in Procs : <<r, job[p].media>> \notin job'[q].cut
      BY <2>8, <3>1
    <3>3. QED
      BY <2>7, <3>1, <3>2 DEF Held
  <2>25. QED
    BY <2>11, <2>12, <2>13, <2>14, <2>15, <2>16, <2>17, <2>19, <2>20, <2>22, <2>23, <2>24
       DEF PathOK
<1>10. QED
  BY <1>8, <1>9

LEMMA LinkFoundKeeps ==
    ASSUME WorkInv, WorkInv', NEW a \in Watched, a \notin spoilt', PathOK(a), NEW p \in Procs,
           LinkFound(p)
    PROVE  PathOK(a)'
<1>0. PICK r, n : r = job[p].rid /\ n = job[p].media
  OBVIOUS
<1> USE <1>0
<1>1. TypeOK /\ TypeOK' /\ Own(p) /\ Shape(p)
  BY DEF WorkInv, LinkInv, Own, Continue
<1>2. /\ job[p] \in Job /\ job[p].stage = "link" /\ job[p] # Idle /\ r \in Rids
      /\ UNCHANGED <<media, files, stored, res>>
  BY <1>1, LinkFoundStep, JobStage DEF LinkFound
<1>3. /\ job[p].op # "Prune" /\ job[p].cut = {} /\ job[p].rows = {} /\ job[p].drop = {}
      /\ job[p].path \in Paths /\ job[p].path \notin job[p].add /\ n \in Media
      /\ res[r] \in {job[p].path, Deleted}
  BY <1>1, <1>2, ResourcesConstants DEF Shape, RowAtHand, Job
<1>4. CASE res[r] = Deleted
  BY <1>1, <1>2, <1>4, LinkFoundStep, EndKeeps
<1>5. CASE res[r] # Deleted
  <2>1. /\ GoesOn(p, job[p].drop, job[p].cut, job[p].rows)
        /\ link' = link \cup {<<r, n>>}
    BY <1>1, <1>5, LinkFoundStep
  <2>2. job'[p].stage \in {"idle", "attach"} /\ job'[p].cut = {} /\ job'[p].rows = {}
    BY <1>3, <2>1, IdleStage DEF GoesOn, Goes
  <2>3. CASE job[p].path # a
    <3>1. \A l \in Links : res[l[1]] = a => (l \in link' <=> l \in link)
      BY <1>3, <2>1, <2>3, IsPath
    <3>2. SameTables(a)
      BY <1>2, <3>1 DEF SameTables, Named, PathOK, NamedOnce
    <3>3. \/ /\ job'[p] \in Job /\ job'[p].op = job[p].op /\ job'[p].media = job[p].media
             /\ a \in job'[p].drop <=> a \in job[p].drop
             /\ a \in job'[p].add <=> a \in job[p].add
          \/ /\ job'[p] = Idle /\ job[p].op # "Prune"
             /\ a \notin job[p].drop /\ a \notin job[p].add
      BY <1>3, <2>1 DEF GoesOn, Goes
    <3>4. QED
      BY <1>1, <1>2, <1>3, <2>2, <2>3, <3>2, <3>3, IsPath, OnwardKeeps DEF RowAtHand
  <2>4. CASE job[p].path = a
    <3>1. \A q \in Procs : q # p =>
                /\ job'[q] = job[q]
                /\ Attaching(q)' = Attaching(q) /\ Leaving(q)' = Leaving(q)
                /\ Counting(q, a)' <=> Counting(q, a)
                /\ \A s \in Rids : Decided(q, s)' <=> Decided(q, s)
                /\ \A m \in Media : Detaching(q, m, a)' <=> Detaching(q, m, a)
      BY <1>1, OthersWork
    <3>2. a \in Attaching(p) /\ a \notin Attaching(p)'
      BY <1>2, <1>3, <2>1, <2>2, <2>4, IdleStage DEF Attaching, At, GoesOn, Goes
    <3>3. a \in PathsIn(files[n]) /\ res[r] = a /\ a \in stored
      BY <1>2, <1>3, <1>5, <2>4, <3>2 DEF PathOK, AttachKnown, Named, At
    <3>4. \A s \in Rids : res[s] = a <=> s = r
      BY <1>2, <3>3 DEF PathOK, SoleRow
    <3>5. \A q \in Procs : q # p => a \notin Leaving(q) /\ (a \in Attaching(q) => job[q].media # n)
      BY <3>2 DEF PathOK, Apart
    <3>6. a \notin Leaving(p)'
      BY <1>3, <2>1, IdleStage DEF Leaving, At, GoesOn, Goes
    <3>7. \A q \in Procs : a \notin Leaving(q)'
      BY <3>1, <3>5, <3>6
    <3>8. \A q \in Procs : r \notin job'[q].rows
      <4>1. ASSUME NEW q \in Procs, q # p PROVE r \notin job[q].rows
        BY <1>2, <3>3, <3>5, <4>1 DEF PathOK, RowsKnown
      <4>2. QED
        BY <2>2, <3>1, <4>1
    <3>9. \A q \in Procs : <<r, n>> \notin job'[q].cut
      <4>1. ASSUME NEW q \in Procs, q # p, <<r, n>> \in job[q].cut PROVE FALSE
        <5>1. job[q].op = "Prune" /\ job[q].media = n
          BY <3>3, <4>1 DEF PathOK, CutKnown
        <5>2. job[q] # Idle
          BY <4>1, IdleStage
        <5>3. ~At(q, "idle") /\ ~At(p, "idle")
          BY <1>1, <1>2, <5>2, JobStage DEF TypeOK, At
        <5>4. PruneAlone(q)
          BY DEF WorkInv
        <5>5. QED
          BY <4>1, <5>1, <5>3, <5>4 DEF PruneAlone, Others
      <4>2. QED
        BY <2>2, <3>1, <4>1
    <3>10. \A m \in Media, q \in Procs : ~Detaching(q, m, a)'
      BY <3>7 DEF Detaching, Leaving, At
    <3>11. \A q \in Procs : ~Decided(q, r)'
      <4>1. ASSUME NEW q \in Procs, job'[q].stage \in {"cascade", "remove"}, job'[q].rid = r
            PROVE  FALSE
        <5>1. Shape(q)' /\ job'[q] # Idle
          BY <4>1, IdleStage DEF WorkInv
        <5>2. job'[q].path = a
          BY <1>2, <3>3, <4>1, <5>1, IsPath DEF Shape, RowAtHand
        <5>3. QED
          BY <3>7, <4>1, <5>2 DEF Leaving, At
      <4>2. QED
        BY <3>8, <4>1 DEF Decided, At
    <3>12. SoleRow(a)' /\ NamedOnce(a)'
      BY <1>2, <2>2, <3>1 DEF PathOK, SoleRow, NamedOnce, At
    <3>13. Apart(a)'
      BY <1>2, <3>1, <3>2, <3>7 DEF PathOK, Apart
    <3>14. AttachKnown(a)'
      <4> SUFFICES ASSUME NEW q \in Procs, a \in Attaching(q)'
                   PROVE  /\ a \in PathsIn(files'[job'[q].media])
                          /\ a \in stored'
                          /\ \A s \in Rids : res'[s] = a => <<s, job'[q].media>> \notin link'
                          /\ job'[q].stage = "link" /\ job'[q].path = a =>
                                IF job'[q].rid = NoRid THEN \A s \in Rids : res'[s] # a
                                ELSE res'[job'[q].rid] = a
        BY DEF AttachKnown, Named, At
      <4>1. q # p /\ job'[q] = job[q] /\ a \in Attaching(q)
        BY <3>1, <3>2
      <4>2. job[q].media # n
        BY <3>5, <4>1
      <4>3. QED
        BY <1>2, <2>1, <4>1, <4>2 DEF PathOK, AttachKnown, Named, At
    <3>15. Settled(a)'
      <4> SUFFICES ASSUME NEW m \in Media, Named(m, a)
                   PROVE  \/ \E q \in Procs : a \in Attaching(q)' /\ job'[q].media = m
                          \/ \E s \in Rids : res'[s] = a /\ <<s, m>> \in link'
        BY <1>2 DEF Settled, Named
      <4>1. CASE m = n
        BY <1>2, <2>1, <3>3, <4>1
      <4>2. CASE m # n
        BY <1>2, <2>1, <3>1, <4>2 DEF PathOK, Settled
      <4>3. QED
        BY <4>1, <4>2
    <3>16. Linked(a)'
      <4> SUFFICES ASSUME NEW s \in Rids, NEW m \in Media, res'[s] = a, <<s, m>> \in link'
                   PROVE  a \in PathsIn(files'[m])
        BY DEF Linked, Named
      <4>1. CASE <<s, m>> = <<r, n>>
        BY <1>2, <3>3, <4>1
      <4>2. CASE <<s, m>> \in link
        <5>1. Named(m, a) \/ \E q \in Procs : Detaching(q, m, a)
          BY <1>2, <4>2 DEF PathOK, Linked
        <5>2. \A q \in Procs : ~Detaching(q, m, a)
          BY <1>2, <3>1, <3>10 DEF Detaching, At
        <5>3. QED
          BY <1>2, <5>1, <5>2 DEF Named
      <4>3. QED
        BY <2>1, <4>1, <4>2
    <3>17. DetachKnown(a)'
      BY <3>10 DEF DetachKnown
    <3>18. RowKnown(a)'
      <4> SUFFICES ASSUME NEW q \in Procs, job'[q].stage \in RowAtHand, job'[q].path = a
                   PROVE  FALSE
        BY DEF RowKnown
      <4>1. QED
        BY <3>7 DEF Leaving, At, RowAtHand
    <3>19. DecidedKnown(a)'
      BY <1>2, <3>4, <3>11 DEF DecidedKnown
    <3>20. RowsKnown(a)'
      BY <1>2, <3>4, <3>8 DEF RowsKnown
    <3>21. CutKnown(a)'
      BY <1>2, <2>2, <3>1 DEF PathOK, CutKnown
    <3>22. Kept(a)'
      BY <1>2, <3>3 DEF Kept
    <3>23. Held(a)'
      <4>1. <<r, n>> \in link' /\ <<r, n>>[1] = r
        BY <2>1
      <4>2. QED
        BY <1>2, <3>4, <3>9, <4>1 DEF Held
    <3>24. QED
      BY <3>12, <3>13, <3>14, <3>15, <3>16, <3>17, <3>18, <3>19, <3>20, <3>21, <3>22, <3>23
         DEF PathOK
  <2>5. QED
    BY <2>3, <2>4
<1>6. QED
  BY <1>4, <1>5


\* A request begins with which p attaches the path to the media m.
LEMMA TakeKeeps ==
    ASSUME WorkInv, WorkInv', NEW a \in Watched, PathOK(a), NEW p \in Procs, Own(p),
           NEW m \in Media, NEW drop, NEW add, NEW stage \in {"attach", "detach"},
           NEW op, op # "Prune", Begins(p, stage, op, m, {}, drop, add, {}),
           a \in add, a \notin drop, UNCHANGED <<stored, res, link>>,
           \A n \in Media : a \in PathsIn(files'[n]) <=> Named(n, a) \/ n = m,
           \A n \in Media : ~Twice(files'[n], a),
           ~Named(m, a), a \in stored, job[p].stage = "idle",
           \A q \in Others(p) : /\ a \notin Leaving(q)
                                /\ a \in Attaching(q) => \E r \in Rids : res[r] = a
    PROVE  PathOK(a)'
<1>1. TypeOK /\ TypeOK'
  BY DEF WorkInv, LinkInv
<1>2. /\ job'[p].stage = stage /\ job'[p].media = m /\ job'[p].op = op
      /\ job'[p].drop = drop /\ job'[p].add = add /\ job'[p].cut = {} /\ job'[p].rows = {}
  BY DEF Begins
<1>3. \A q \in Procs : q # p =>
            /\ job'[q] = job[q]
            /\ Attaching(q)' = Attaching(q) /\ Leaving(q)' = Leaving(q)
            /\ Counting(q, a)' <=> Counting(q, a)
            /\ \A s \in Rids : Decided(q, s)' <=> Decided(q, s)
            /\ \A n \in Media : Detaching(q, n, a)' <=> Detaching(q, n, a)
  BY OthersWork
<1>4. job[p] = Idle
  BY <1>1, JobStage DEF TypeOK
<1>5. a \in Attaching(p)' /\ a \notin Leaving(p)'
  BY <1>2 DEF Attaching, Leaving, At
<1>6. a \notin Attaching(p) /\ a \notin Leaving(p)
  BY <1>4, IdleStage DEF Attaching, Leaving, At
<1>7. \A q \in Procs : a \notin Leaving(q) /\ a \notin Leaving(q)'
  BY <1>3, <1>5, <1>6 DEF Others
<1>8. \A q \in Procs : a \in Attaching(q) =>
         q # p /\ job[q].media # m /\ \E r \in Rids : res[r] = a
  BY <1>6 DEF PathOK, AttachKnown, Others
<1>9. \A n \in Media, q \in Procs : ~Detaching(q, n, a) /\ ~Detaching(q, n, a)'
  BY <1>7 DEF Detaching, Leaving, At
<1>10. ~Counting(p, a) /\ ~Counting(p, a)'
  BY <1>2, <1>4, IdleStage DEF Counting, At
<1>11. \A r \in Rids : ~Decided(p, r) /\ ~Decided(p, r)'
  BY <1>2, <1>4, IdleStage DEF Decided, At
<1>12. \A r \in Rids : res[r] = a => <<r, m>> \notin link
  BY <1>9 DEF PathOK, Linked
<1>13. SoleRow(a)' /\ NamedOnce(a)'
  BY <1>2, <1>3 DEF PathOK, SoleRow, NamedOnce, At
<1>14. Apart(a)'
  <2> SUFFICES ASSUME NEW q \in Procs, NEW o \in Procs, q # o, a \in Attaching(q)'
               PROVE  a \in Attaching(o)' => /\ job'[o].media # job'[q].media
                                             /\ \E r \in Rids : res[r] = a
    BY <1>7 DEF Apart
  <2>1. CASE q = p
    BY <1>2, <1>3, <1>8, <2>1
  <2>2. CASE o = p
    BY <1>2, <1>3, <1>8, <2>2
  <2>3. CASE q # p /\ o # p
    BY <1>3, <2>3 DEF PathOK, Apart
  <2>4. QED
    BY <2>1, <2>2, <2>3
<1>15. AttachKnown(a)'
  <2> SUFFICES ASSUME NEW q \in Procs, a \in Attaching(q)'
               PROVE  /\ a \in PathsIn(files'[job'[q].media])
                      /\ a \in stored'
                      /\ \A s \in Rids : res'[s] = a => <<s, job'[q].media>> \notin link'
                      /\ job'[q].stage = "link" /\ job'[q].path = a =>
                            IF job'[q].rid = NoRid THEN \A s \in Rids : res'[s] # a
                            ELSE res'[job'[q].rid] = a
    BY DEF AttachKnown, Named, At
  <2>1. CASE q = p
    BY <1>2, <1>12, <2>1
  <2>2. CASE q # p
    <3>1. job'[q] = job[q] /\ a \in Attaching(q)
      BY <1>3, <2>2
    <3>2. job[q].media \in Media
      BY <1>1, <3>1, JobFields DEF Attaching
    <3>3. QED
      BY <3>1, <3>2 DEF PathOK, AttachKnown, At
  <2>3. QED
    BY <2>1, <2>2
<1>16. Settled(a)'
  <2> SUFFICES ASSUME NEW n \in Media, Named(n, a) \/ n = m
               PROVE  \/ \E q \in Procs : a \in Attaching(q)' /\ job'[q].media = n
                      \/ \E s \in Rids : res'[s] = a /\ <<s, n>> \in link'
    BY DEF Settled, Named
  <2>1. CASE n = m
    BY <1>2, <1>5, <2>1
  <2>2. CASE Named(n, a)
    BY <1>3, <1>6, <2>2 DEF PathOK, Settled
  <2>3. QED
    BY <2>1, <2>2
<1>17. Linked(a)'
  BY <1>9 DEF PathOK, Linked, Named
<1>18. DetachKnown(a)'
  BY <1>9 DEF DetachKnown
<1>19. RowKnown(a)'
  BY <1>2, <1>3 DEF PathOK, RowKnown, RowAtHand
<1>20. DecidedKnown(a)'
  BY <1>3, <1>11 DEF PathOK, DecidedKnown
<1>21. RowsKnown(a)'
  BY <1>2, <1>3 DEF PathOK, RowsKnown
<1>22. CutKnown(a)'
  BY <1>2, <1>3 DEF PathOK, CutKnown
<1>23. Kept(a)'
  BY <1>2, <1>3 DEF Kept
<1>24. Held(a)'
  <2>1. \A l : (\A q \in Procs : l \notin job[q].cut) => (\A q \in Procs : l \notin job'[q].cut)
    BY <1>2, <1>3
  <2>2. QED
    BY <1>3, <1>10, <1>11, <2>1 DEF PathOK, Held
<1>25. QED
  BY <1>13, <1>14, <1>15, <1>16, <1>17, <1>18, <1>19, <1>20, <1>21, <1>22, <1>23, <1>24
     DEF PathOK

\* A request begins with which p drops the path from the media m: it is the media's no
\* more, or the media is being pruned.
LEMMA DropKeeps ==
    ASSUME WorkInv, WorkInv', NEW a \in Watched, PathOK(a), NEW p \in Procs, Own(p),
           NEW m \in Media, NEW drop, NEW add, NEW stage, NEW op, NEW cut,
           Begins(p, stage, op, m, {}, drop, add, cut),
           \/ stage = "detach" /\ op # "Prune" /\ cut = {}
           \/ stage = "find" /\ op = "Prune" /\ cut = {l \in link : l[2] = m},
           a \in drop, a \notin add, UNCHANGED <<stored, res, link>>,
           \A n \in Media : a \in PathsIn(files'[n]) <=> Named(n, a) /\ (op # "Prune" => n # m),
           \A n \in Media : ~Twice(files'[n], a),
           job[p].stage = "idle",
           \A q \in Others(p) : a \notin Attaching(q)
    PROVE  PathOK(a)'
<1>1. TypeOK /\ TypeOK'
  BY DEF WorkInv, LinkInv
<1>2. /\ job'[p].stage = stage /\ job'[p].media = m /\ job'[p].op = op
      /\ job'[p].drop = drop /\ job'[p].add = add /\ job'[p].cut = cut /\ job'[p].rows = {}
  BY DEF Begins
<1>3. \A q \in Procs : q # p =>
            /\ job'[q] = job[q]
            /\ Attaching(q)' = Attaching(q) /\ Leaving(q)' = Leaving(q)
            /\ Counting(q, a)' <=> Counting(q, a)
            /\ \A s \in Rids : Decided(q, s)' <=> Decided(q, s)
            /\ \A n \in Media : Detaching(q, n, a)' <=> Detaching(q, n, a)
  BY OthersWork
<1>4. job[p] = Idle
  BY <1>1, JobStage DEF TypeOK
<1>5. a \notin Attaching(p)' /\ a \in Leaving(p)'
  BY <1>2 DEF Attaching, Leaving, At
<1>6. a \notin Attaching(p) /\ \A n \in Media : ~Detaching(p, n, a)
  BY <1>4, IdleStage DEF Attaching, Detaching, At
<1>7. \A q \in Procs : a \notin Attaching(q) /\ a \notin Attaching(q)'
  BY <1>3, <1>5, <1>6 DEF Others
<1>8. \A n \in Media : Detaching(p, n, a)' <=> stage = "detach" /\ n = m
  BY <1>2 DEF Detaching, At
<1>9. Counting(p, a)'
  BY <1>2 DEF Counting, At
<1>10. \A r \in Rids : ~Decided(p, r)'
  BY <1>2 DEF Decided, At
<1>11. SoleRow(a)' /\ NamedOnce(a)'
  BY <1>2, <1>3 DEF PathOK, SoleRow, NamedOnce, At
<1>12. Apart(a)' /\ AttachKnown(a)'
  BY <1>7 DEF Apart, AttachKnown
<1>13. Settled(a)'
  BY <1>7 DEF PathOK, Settled, Named
<1>14. Linked(a)'
  BY <1>3, <1>6, <1>8 DEF PathOK, Linked, Named
<1>15. DetachKnown(a)'
  BY <1>3, <1>8 DEF PathOK, DetachKnown, Named
<1>16. RowKnown(a)'
  BY <1>2, <1>3 DEF PathOK, RowKnown, RowAtHand
<1>17. DecidedKnown(a)'
  BY <1>3, <1>10 DEF PathOK, DecidedKnown
<1>18. RowsKnown(a)'
  BY <1>2, <1>3 DEF PathOK, RowsKnown
<1>19. CutKnown(a)'
  BY <1>2, <1>3 DEF PathOK, CutKnown
<1>20. Kept(a)'
  BY <1>2, <1>3, <1>4, IdleStage DEF PathOK, Kept
<1>21. Held(a)'
  BY <1>9 DEF Held
<1>22. QED
  BY <1>11, <1>12, <1>13, <1>14, <1>15, <1>16, <1>17, <1>18, <1>19, <1>20, <1>21 DEF PathOK


\* A request begins that is not about the path.
LEMMA ElseKeeps ==
    ASSUME WorkInv, WorkInv', NEW a \in Watched, PathOK(a), NEW p \in Procs, Own(p),
           NEW m, NEW drop, NEW add, NEW stage \in {"attach", "detach"},
           NEW op, op # "Prune", Begins(p, stage, op, m, {}, drop, add, {}),
           a \notin add, a \notin drop, job[p].stage = "idle", SameTables(a)
    PROVE  PathOK(a)'
<1>1. a \notin Concern(p)
  BY DEF Concern, Attaching, Leaving, At
<1>2. a \notin Attaching(p)' /\ a \notin Leaving(p)'
  BY DEF Begins, Attaching, Leaving, At
<1>3. job'[p].stage # "save" /\ job'[p].rows = {} /\ job'[p].cut = {}
  BY DEF Begins
<1>4. QED
  BY <1>1, <1>2, <1>3, IsPath, AsideKeeps

LEMMA Spared ==
    ASSUME NEW a \in Watched, a \notin spoilt', NEW p, NEW add, NEW drop, NEW spoils,
           spoilt' = spoilt \cup (spoils \cap Watched), Collisions(p, add, drop) \subseteq spoils
    PROVE  /\ a \in add => \A q \in Others(p) :
                 a \notin Leaving(q) /\ (a \in Attaching(q) => \E r \in Rids : res[r] = a)
           /\ a \in drop => \A q \in Others(p) : a \notin Attaching(q)
           /\ a \notin spoils
  BY DEF Collisions

LEMMA PathsInAdd ==
    ASSUME NEW entries, NEW s, NEW x
    PROVE  PathsIn(entries \cup {<<s, x>>}) = PathsIn(entries) \cup {x}
<1>1. PICK e : e = <<s, x>>
  OBVIOUS
<1>2. e[2] = x
  BY <1>1
<1>3. \A b : b \in PathsIn(entries \cup {e}) <=> \E f \in entries \cup {e} : f[2] = b
  BY DEF PathsIn
<1>4. \A b : b \in PathsIn(entries) <=> \E f \in entries : f[2] = b
  BY DEF PathsIn
<1>5. \A b : b \in PathsIn(entries \cup {e}) <=> b \in PathsIn(entries) \/ b = x
  BY ONLY <1>2, <1>3, <1>4
<1>6. PathsIn(entries \cup {e}) = PathsIn(entries) \cup {x}
  BY ONLY <1>5
<1>7. QED
  BY <1>1, <1>6

LEMMA PostKeeps ==
    ASSUME WorkInv, WorkInv', NEW a \in Watched, a \notin spoilt', PathOK(a), NEW p \in Procs,
           PostFile(p)
    PROVE  PathOK(a)'
<1>1. TypeOK /\ TypeOK' /\ Own(p)
  BY DEF WorkInv, LinkInv, Own, Request
<1>2. job[p].stage = "idle" /\ UNCHANGED <<stored, res, link>>
  BY <1>1, PostStep
<1>3. PICK m \in Media, s \in Slots, x \in Paths :
        /\ Editable(m) /\ Registrable(m, x)
        /\ files' = [files EXCEPT ![m] = @ \cup {<<s, x>>}]
        /\ IF x \in URLs THEN UNCHANGED <<job, spoilt>>
           ELSE /\ Begins(p, "attach", "Post", m, {}, {}, {x}, {})
                /\ spoilt' = spoilt \cup
                      ((Collisions(p, {x}, {}) \cup ({x} \cap PathsIn(files[m]))) \cap Watched)
  BY <1>1, PostStep
<1>4. \A n \in Media : files'[n] = IF n = m THEN files[m] \cup {<<s, x>>} ELSE files[n]
  BY <1>1, <1>3 DEF TypeOK
<1>5. \A n \in Media : a \in PathsIn(files'[n]) <=> Named(n, a) \/ (n = m /\ x = a)
  <2>1. PathsIn(files[m] \cup {<<s, x>>}) = PathsIn(files[m]) \cup {x}
    BY ONLY PathsInAdd
  <2>2. QED
    BY <1>4, <2>1 DEF Named
<1>6. x # a \/ ~Named(m, a) => \A n \in Media : ~Twice(files'[n], a)
  BY <1>4 DEF PathOK, NamedOnce, Named, PathsIn, Twice
<1>7. CASE x # a
  <2>1. SameTables(a)
    BY <1>2, <1>5, <1>6, <1>7 DEF SameTables
  <2>2. CASE x \notin URLs
    BY <1>1, <1>2, <1>3, <1>7, <2>1, <2>2, ElseKeeps
  <2>3. CASE x \in URLs
    <3>1. job'[p] = Idle /\ job[p] = Idle
      BY <1>1, <1>2, <1>3, <2>3, JobStage DEF TypeOK
    <3>2. a \notin Concern(p)
      BY <1>2 DEF Concern, Attaching, Leaving, At
    <3>3. QED
      BY <1>1, <2>1, <3>1, <3>2, IsPath, IdleKnows, AsideKeeps
  <2>4. QED
    BY <2>2, <2>3
<1>8. CASE x = a
  <2>1. /\ Begins(p, "attach", "Post", m, {}, {}, {a}, {})
        /\ spoilt' = spoilt \cup
              ((Collisions(p, {a}, {}) \cup ({a} \cap PathsIn(files[m]))) \cap Watched)
    BY <1>3, <1>8, IsPath
  <2>2. /\ \A q \in Others(p) :
              a \notin Leaving(q) /\ (a \in Attaching(q) => \E r \in Rids : res[r] = a)
        /\ ~Named(m, a)
    BY <2>1, Spared DEF Named
  <2>3. a \in stored
    BY <1>3, <1>8, IsPath DEF Registrable
  <2>4. \A n \in Media : a \in PathsIn(files'[n]) <=> Named(n, a) \/ n = m
    BY <1>5, <1>8
  <2>5. QED
    BY <1>1, <1>2, <1>6, <2>1, <2>2, <2>3, <2>4, TakeKeeps
<1>9. QED
  BY <1>7, <1>8

LEMMA DeleteKeeps ==
    ASSUME WorkInv, WorkInv', NEW a \in Watched, a \notin spoilt', PathOK(a), NEW p \in Procs,
           DeleteFile(p)
    PROVE  PathOK(a)'
<1>1. TypeOK /\ TypeOK' /\ Own(p)
  BY DEF WorkInv, LinkInv, Own, Request
<1>2. job[p].stage = "idle" /\ UNCHANGED <<stored, res, link>>
  BY <1>1, DeleteStep
<1>3. PICK m \in Media, s \in Slots, y \in Paths :
        /\ Editable(m) /\ <<s, y>> \in files[m]
        /\ files' = [files EXCEPT ![m] = @ \ {<<s, y>>}]
        /\ Begins(p, "detach", "DeleteFile", m, {}, {y}, {}, {})
        /\ spoilt' = spoilt \cup (Collisions(p, {}, {y}) \cap Watched)
  BY <1>1, DeleteStep
<1>4. \A n \in Media : files'[n] = IF n = m THEN files[m] \ {<<s, y>>} ELSE files[n]
  BY <1>1, <1>3 DEF TypeOK
<1>5. \A n \in Media : ~Twice(files'[n], a)
  BY <1>4 DEF PathOK, NamedOnce, Twice
<1>6. CASE y # a
  <2>1. \A n \in Media : a \in PathsIn(files'[n]) <=> Named(n, a)
    BY <1>4, <1>6 DEF Named, PathsIn
  <2>2. SameTables(a)
    BY <1>2, <1>5, <2>1 DEF SameTables
  <2>3. QED
    BY <1>1, <1>2, <1>3, <1>6, <2>2, ElseKeeps
<1>7. CASE y = a
  <2>1. \A n \in Media : a \in PathsIn(files'[n]) <=> Named(n, a) /\ n # m
    BY <1>3, <1>4, <1>7 DEF Named, PathsIn, PathOK, NamedOnce, Twice
  <2>2. \A q \in Others(p) : a \notin Attaching(q)
    BY <1>3, <1>7, Spared
  <2>3. Begins(p, "detach", "DeleteFile", m, {}, {a}, {}, {})
    BY <1>3, <1>7
  <2>4. QED
    BY <1>1, <1>2, <1>5, <2>1, <2>2, <2>3, DropKeeps
<1>8. QED
  BY <1>6, <1>7

LEMMA PatchKeeps ==
    ASSUME WorkInv, WorkInv', NEW a \in Watched, a \notin spoilt', PathOK(a), NEW p \in Procs,
           PatchFile(p)
    PROVE  PathOK(a)'
<1>1. TypeOK /\ TypeOK' /\ Own(p)
  BY DEF WorkInv, LinkInv, Own, Request
<1>2. job[p].stage = "idle" /\ UNCHANGED <<stored, res, link>>
  BY <1>1, PatchStep
<1>3. PICK m \in Media, s \in Slots, x \in Paths, y \in Paths :
        /\ Editable(m) /\ Registrable(m, x) /\ y # x /\ <<s, y>> \in files[m]
        /\ files' = [files EXCEPT ![m] = (@ \ {<<s, y>>}) \cup {<<s, x>>}]
        /\ Begins(p, "detach", "Patch", m, {}, {y}, {x}, {})
        /\ spoilt' = spoilt \cup
              ((Collisions(p, {x}, {y}) \cup ({x} \cap PathsIn(files[m]))) \cap Watched)
  BY <1>1, PatchStep
<1>4. \A n \in Media :
         files'[n] = IF n = m THEN (files[m] \ {<<s, y>>}) \cup {<<s, x>>} ELSE files[n]
  BY <1>1, <1>3 DEF TypeOK
<1>5. x # a \/ ~Named(m, a) => \A n \in Media : ~Twice(files'[n], a)
  BY <1>4 DEF PathOK, NamedOnce, Named, PathsIn, Twice
<1>6. CASE x # a /\ y # a
  <2>1. \A n \in Media : a \in PathsIn(files'[n]) <=> Named(n, a)
    BY <1>4, <1>6 DEF Named, PathsIn
  <2>2. SameTables(a)
    BY <1>2, <1>5, <1>6, <2>1 DEF SameTables
  <2>3. QED
    BY <1>1, <1>2, <1>3, <1>6, <2>2, ElseKeeps
<1>7. CASE y = a
  <2>1. \A n \in Media : a \in PathsIn(files'[n]) <=> Named(n, a) /\ n # m
    BY <1>3, <1>4, <1>7 DEF Named, PathsIn, PathOK, NamedOnce, Twice
  <2>2. \A q \in Others(p) : a \notin Attaching(q)
    <3>1. spoilt' = spoilt \cup
             ((Collisions(p, {x}, {a}) \cup ({x} \cap PathsIn(files[m]))) \cap Watched)
      BY <1>3, <1>7
    <3>2. PICK spoils : spoils = Collisions(p, {x}, {a}) \cup ({x} \cap PathsIn(files[m]))
      OBVIOUS
    <3>3. spoilt' = spoilt \cup (spoils \cap Watched) /\ Collisions(p, {x}, {a}) \subseteq spoils
      BY <3>1, <3>2
    <3>4. a \in {a} => \A q \in Others(p) : a \notin Attaching(q)
      BY ONLY <3>3, Spared, a \in Watched, a \notin spoilt'
    <3>5. QED
      BY <3>4
  <2>3. Begins(p, "detach", "Patch", m, {}, {a}, {x}, {}) /\ a \notin {x}
    BY <1>3, <1>7
  <2>4. \A n \in Media : ~Twice(files'[n], a)
    BY <1>3, <1>5, <1>7
  <2>5. QED
    BY <1>1, <1>2, <2>1, <2>2, <2>3, <2>4, DropKeeps
<1>8. CASE x = a
  <2>1. /\ \A q \in Others(p) :
              a \notin Leaving(q) /\ (a \in Attaching(q) => \E r \in Rids : res[r] = a)
        /\ ~Named(m, a)
    <3>1. spoilt' = spoilt \cup
             ((Collisions(p, {a}, {y}) \cup ({a} \cap PathsIn(files[m]))) \cap Watched)
      BY <1>3, <1>8
    <3>2. PICK spoils : spoils = Collisions(p, {a}, {y}) \cup ({a} \cap PathsIn(files[m]))
      OBVIOUS
    <3>3. spoilt' = spoilt \cup (spoils \cap Watched) /\ Collisions(p, {a}, {y}) \subseteq spoils
      BY <3>1, <3>2
    <3>4. /\ a \in {a} => \A q \in Others(p) :
                a \notin Leaving(q) /\ (a \in Attaching(q) => \E r \in Rids : res[r] = a)
          /\ a \notin spoils
      BY ONLY <3>3, Spared, a \in Watched, a \notin spoilt'
    <3>5. QED
      BY <3>2, <3>4 DEF Named
  <2>2. a \in stored
    BY <1>3, <1>8, IsPath DEF Registrable
  <2>3. \A n \in Media : a \in PathsIn(files'[n]) <=> Named(n, a) \/ n = m
    <3>1. PathsIn((files[m] \ {<<s, y>>}) \cup {<<s, x>>}) = PathsIn(files[m] \ {<<s, y>>}) \cup {x}
      BY ONLY PathsInAdd
    <3>2. a \in PathsIn(files'[m])
      BY <1>4, <1>8, <3>1
    <3>3. QED
      BY <1>4, <3>2 DEF Named
  <2>4. Begins(p, "detach", "Patch", m, {}, {y}, {a}, {}) /\ a \notin {y}
    BY <1>3, <1>8
  <2>5. QED
    BY <1>1, <1>2, <1>5, <2>1, <2>2, <2>3, <2>4, TakeKeeps
<1>9. QED
  BY <1>6, <1>7, <1>8

LEMMA CloneKeeps ==
    ASSUME WorkInv, WorkInv', NEW a \in Watched, a \notin spoilt', PathOK(a), NEW p \in Procs,
           Clone(p)
    PROVE  PathOK(a)'
<1>1. TypeOK /\ TypeOK' /\ Own(p) /\ NoFiles
  BY DEF WorkInv, LinkInv, Own, Request
<1>2. job[p].stage = "idle" /\ UNCHANGED <<stored, res, link>>
  BY <1>1, CloneStep
<1>3. PICK m \in Media, c \in Media :
        /\ media[c] = "free"
        /\ files' = [files EXCEPT ![c] = files[m]]
        /\ Begins(p, "attach", "Clone", c, {}, {}, PathsIn(files[m]), {})
        /\ spoilt' = spoilt \cup (Collisions(p, PathsIn(files[m]), {}) \cap Watched)
  BY <1>1, CloneStep
<1>4. \A n \in Media : files'[n] = IF n = c THEN files[m] ELSE files[n]
  BY <1>1, <1>3 DEF TypeOK
<1>5. \A n \in Media : ~Twice(files'[n], a)
  BY <1>4 DEF PathOK, NamedOnce
<1>6. ~Named(c, a)
  BY <1>1, <1>3 DEF NoFiles, Named, PathsIn
<1>7. \A n \in Media : a \in PathsIn(files'[n]) <=> Named(n, a) \/ (n = c /\ Named(m, a))
  BY <1>4, <1>6 DEF Named
<1>8. CASE ~Named(m, a)
  <2>1. SameTables(a)
    BY <1>2, <1>5, <1>7, <1>8 DEF SameTables
  <2>2. QED
    BY <1>1, <1>2, <1>3, <1>8, <2>1, ElseKeeps DEF Named
<1>9. CASE Named(m, a)
  <2>1. a \in PathsIn(files[m])
    BY <1>9 DEF Named
  <2>2. \A q \in Others(p) :
           a \notin Leaving(q) /\ (a \in Attaching(q) => \E r \in Rids : res[r] = a)
    BY <1>3, <2>1, Spared
  <2>3. a \in stored
    <3>1. CASE \E q \in Procs : a \in Attaching(q)
      BY <3>1 DEF PathOK, AttachKnown
    <3>2. CASE \E r \in Rids : res[r] = a
      <4>1. PICK r \in Rids : res[r] = a
        BY <3>2
      <4>2. job[p] = Idle
        BY <1>1, <1>2, JobStage DEF TypeOK
      <4>3. \A q \in Procs : r \notin job[q].rows
        BY <2>2, <4>1, <4>2, IdleStage DEF PathOK, RowsKnown, Others
      <4>4. QED
        BY <4>1, <4>3 DEF PathOK, Kept
    <3>3. QED
      BY <1>9, <3>1, <3>2 DEF PathOK, Settled
  <2>4. QED
    BY <1>1, <1>2, <1>3, <1>5, <1>6, <1>7, <1>9, <2>1, <2>2, <2>3, TakeKeeps
<1>10. QED
  BY <1>8, <1>9

LEMMA PruneKeeps ==
    ASSUME WorkInv, WorkInv', NEW a \in Watched, a \notin spoilt', PathOK(a), NEW p \in Procs,
           PruneMedia(p)
    PROVE  PathOK(a)'
<1>1. TypeOK /\ TypeOK' /\ Own(p)
  BY DEF WorkInv, LinkInv, Own, Request
<1>2. job[p].stage = "idle" /\ UNCHANGED <<files, stored, res, link>>
  BY <1>1, PruneStep
<1>3. PICK m \in Media :
        /\ ~WorkedOn(m)
        /\ Begins(p, "find", "Prune", m, {}, PathsIn(files[m]), {}, {l \in link : l[2] = m})
        /\ spoilt' = spoilt \cup (Collisions(p, {}, PathsIn(files[m])) \cap Watched)
  BY <1>1, PruneStep
<1>4. SameTables(a)
  BY <1>2, TablesStay
<1>5. CASE Named(m, a)
  <2>1. a \in PathsIn(files[m])
    BY <1>5 DEF Named
  <2>2. \A q \in Others(p) : a \notin Attaching(q)
    BY <1>3, <2>1, Spared
  <2>3. \A n \in Media : a \in PathsIn(files'[n]) <=> Named(n, a)
    BY <1>2 DEF Named
  <2>4. \A n \in Media : ~Twice(files'[n], a)
    BY <1>2 DEF PathOK, NamedOnce
  <2>5. QED
    BY <1>1, <1>2, <1>3, <2>1, <2>2, <2>3, <2>4, DropKeeps
<1>6. CASE ~Named(m, a)
  <2>1. a \notin Concern(p)
    BY <1>2 DEF Concern, Attaching, Leaving, At
  <2>2. a \notin Attaching(p)' /\ a \notin Leaving(p)'
    BY <1>2, <1>3, <1>6 DEF Begins, Attaching, Leaving, At, Named
  <2>3. \A l \in link : l[2] = m => res[l[1]] # a
    <3> SUFFICES ASSUME NEW l \in link, l[2] = m, res[l[1]] = a PROVE FALSE
      OBVIOUS
    <3>1. l = <<l[1], m>> /\ l[1] \in Rids
      BY <1>1 DEF TypeOK, Links
    <3>2. PICK q \in Procs : Detaching(q, m, a)
      BY <1>6, <3>1 DEF PathOK, Linked
    <3>3. QED
      BY <1>3, <3>2 DEF WorkedOn, Detaching, At
  <2>4. job'[p].stage # "save" /\ job'[p].rows = {} /\ job'[p].cut = {l \in link : l[2] = m}
    BY <1>3 DEF Begins
  <2>5. QED
    BY <1>1, <1>4, <2>1, <2>2, <2>3, <2>4, IsPath, AsideKeeps
<1>7. QED
  BY <1>5, <1>6


(***************************************************************************)
(* The invariant                                                           *)
(***************************************************************************)
LEMMA InitWork == Init => WorkInv
<1> SUFFICES ASSUME Init PROVE WorkInv
  OBVIOUS
<1>1. LinkInv
  BY InitLinks
<1>2. \A p \in Procs : Shape(p)
  BY DEF Init, Shape
<1>3. \A p \in Procs : PruneAlone(p)
  BY IdleStage DEF Init, PruneAlone, At
<1>4. NoFiles
  BY ResourcesConstants DEF Init, NoFiles
<1>5. QED
  BY <1>1, <1>2, <1>3, <1>4 DEF WorkInv

\* The seeds fit together.
LEMMA InitPaths ==
    ASSUME Init, NEW a \in Watched
    PROVE  PathOK(a)
<1>1. a \in Paths /\ a \notin URLs /\ a # Unused
  BY IsPath, ResourcesConstants
<1>2. /\ \A p \in Procs : job[p] = Idle
      /\ \A r \in Rids : res[r] = SeedRes[r]
      /\ \A m \in Media : files[m] = SeedFiles[m] /\ SeedFiles[m] \subseteq Entries
      /\ \A r \in Rids, m \in Media :
            <<r, m>> \in link <=> SeedRes[r] \in PathsIn(SeedFiles[m])
      /\ \A r \in Rids : SeedRes[r] = a => a \in stored
  <2>1. \A r \in Rids, m \in Media :
            <<r, m>> \in link <=> SeedRes[r] \in PathsIn(SeedFiles[m])
    <3> SUFFICES ASSUME NEW r \in Rids, NEW m \in Media
                 PROVE  <<r, m>> \in link <=> SeedRes[r] \in PathsIn(SeedFiles[m])
      OBVIOUS
    <3>1. PICK l : l = <<r, m>>
      OBVIOUS
    <3>2. l \in Links /\ l[1] = r /\ l[2] = m
      BY <3>1 DEF Links
    <3>3. l \in link <=> SeedRes[l[1]] \in PathsIn(SeedFiles[l[2]])
      BY <3>2 DEF Init
    <3>4. QED
      BY <3>1, <3>2, <3>3
  <2>2. QED
    BY <1>1, <2>1, ResourcesConstants DEF Init
<1>3. \A p \in Procs : /\ job[p].stage = "idle" /\ job[p].cut = {} /\ job[p].rows = {}
                       /\ a \notin Attaching(p) /\ a \notin Leaving(p)
  BY <1>2, IdleStage DEF Attaching, Leaving, At
<1>4. \A m \in Media : Named(m, a) <=> \E e \in SeedFiles[m] : e[2] = a
  BY <1>2 DEF Named, PathsIn
<1>5. SoleRow(a)
  BY <1>1, <1>2, ResourcesConstants DEF SoleRow
<1>6. NamedOnce(a)
  BY <1>2, <1>3, SeedsMatch DEF NamedOnce, Twice, At
<1>7. Apart(a) /\ AttachKnown(a)
  BY <1>3 DEF Apart, AttachKnown
<1>8. Settled(a)
  <2> SUFFICES ASSUME NEW m \in Media, Named(m, a)
               PROVE  \E r \in Rids : res[r] = a /\ <<r, m>> \in link
    BY DEF Settled
  <2>1. PICK r \in Rids : SeedRes[r] = a
    BY <1>1, <1>4, SeedsMatch
  <2>2. SeedRes[r] \in PathsIn(SeedFiles[m])
    BY <1>4, <2>1 DEF PathsIn
  <2>3. QED
    BY <1>2, <2>1, <2>2
<1>9. Linked(a)
  BY <1>2 DEF Linked, Named
<1>10. DetachKnown(a) /\ RowKnown(a) /\ RowsKnown(a) /\ CutKnown(a)
  BY <1>3 DEF DetachKnown, Detaching, At, RowKnown, RowAtHand, RowsKnown, CutKnown
<1>11. DecidedKnown(a)
  BY <1>3 DEF DecidedKnown, Decided, At
<1>12. Kept(a)
  BY <1>2 DEF Kept
<1>13. Held(a)
  <2> SUFFICES ASSUME NEW r \in Rids, res[r] = a
               PROVE  \E l \in link : l[1] = r /\ \A p \in Procs : l \notin job[p].cut
    BY DEF Held
  <2>1. PICK m \in Media : \E e \in SeedFiles[m] : e[2] = SeedRes[r]
    BY <1>1, <1>2, SeedsMatch
  <2>2. SeedRes[r] \in PathsIn(SeedFiles[m])
    BY <2>1 DEF PathsIn
  <2>3. PICK l : l = <<r, m>>
    OBVIOUS
  <2>4. l \in link /\ l[1] = r
    BY <1>2, <2>2, <2>3
  <2>5. QED
    BY <1>3, <2>4
<1>14. QED
  BY <1>5, <1>6, <1>7, <1>8, <1>9, <1>10, <1>11, <1>12, <1>13 DEF PathOK

LEMMA InitSound == Init => SoundInv
<1> SUFFICES ASSUME Init PROVE SoundInv
  OBVIOUS
<1>1. \A a \in Sound : PathOK(a)
  BY InitPaths DEF Sound
<1>2. QED
  BY <1>1, InitWork DEF SoundInv

LEMMA AbortKeeps ==
    ASSUME WorkInv, WorkInv', NEW a \in Watched, a \notin spoilt', PathOK(a), NEW p \in Procs,
           Abort(p)
    PROVE  PathOK(a)'
<1>1. TypeOK /\ Own(p)
  BY DEF WorkInv, LinkInv, Own
<1>2. /\ job'[p] = Idle /\ a \notin Concern(p)
      /\ UNCHANGED <<files, stored, res, link>>
  BY <1>1, AbortStep
<1>3. QED
  BY <1>1, <1>2, EndKeeps

LEMMA StutterKeeps ==
    ASSUME WorkInv, WorkInv', NEW a \in Watched, PathOK(a), UNCHANGED vars
    PROVE  PathOK(a)'
<1>1. UNCHANGED <<media, files, stored, res, link, job>>
  BY DEF vars
<1>2. \A p : Attaching(p)' = Attaching(p) /\ Leaving(p)' = Leaving(p)
  BY <1>1 DEF Attaching, Leaving, At
<1>3. (SoleRow(a) /\ NamedOnce(a) /\ Settled(a) /\ Linked(a) /\ DetachKnown(a) /\ RowKnown(a)
       /\ DecidedKnown(a) /\ RowsKnown(a) /\ CutKnown(a) /\ Held(a) /\ Apart(a))'
  BY <1>1, <1>2
     DEF PathOK, SoleRow, NamedOnce, Settled, Linked, DetachKnown, RowKnown, DecidedKnown,
         RowsKnown, CutKnown, Held, Apart, Twice, Named, Detaching, Counting, Decided, At
<1>4. (Kept(a) /\ AttachKnown(a))'
  BY <1>1, <1>2 DEF PathOK, Kept, AttachKnown, Named, At
<1>5. QED
  BY <1>3, <1>4 DEF PathOK

\* A path that is spoilt stays so.
LEMMA SpoiltGrows ==
    ASSUME TypeOK, [Next]_vars
    PROVE  spoilt \subseteq spoilt'
<1>1. (\E S : Spoils(S)) => spoilt \subseteq spoilt'
  BY DEF Spoils
<1>2. ASSUME NEW p \in Procs, Request(p) PROVE spoilt \subseteq spoilt'
  BY <1>1, <1>2
     DEF Request, PostFile, PatchFile, DeleteFile, Clone, ReadMedia, PruneMedia, Start
<1>3. ASSUME NEW p \in Procs, Continue(p) PROVE spoilt \subseteq spoilt'
  BY <1>1, <1>3
     DEF Continue, SaveMedia, Detach, FindRow, Count, Cascade, Remove, Commit, Attach,
         LinkNew, LinkFound
<1>4. QED
  BY <1>1, <1>2, <1>3 DEF Next, vars, Upload, Victim, Abort

LEMMA SoundKept == SoundInv /\ [Next]_vars => SoundInv'
<1> SUFFICES ASSUME SoundInv, [Next]_vars PROVE SoundInv'
  OBVIOUS
<1>1. WorkInv /\ WorkInv' /\ TypeOK
  BY WorkKept DEF SoundInv, WorkInv, LinkInv
<1>2. ASSUME NEW a \in Watched, a \notin spoilt' PROVE PathOK(a)'
  <2>1. PathOK(a)
    BY <1>1, <1>2, SpoiltGrows DEF SoundInv, Sound
  <2>2. CASE UNCHANGED vars
    BY <1>1, <2>1, <2>2, StutterKeeps
  <2>3. CASE Upload
    BY <1>1, <2>1, <2>3, UploadKeeps
  <2>4. ASSUME NEW p \in Procs, Request(p) PROVE PathOK(a)'
    <3>1. CASE PostFile(p)
      BY <1>1, <1>2, <2>1, <3>1, PostKeeps
    <3>2. CASE PatchFile(p)
      BY <1>1, <1>2, <2>1, <3>2, PatchKeeps
    <3>3. CASE DeleteFile(p)
      BY <1>1, <1>2, <2>1, <3>3, DeleteKeeps
    <3>4. CASE Clone(p)
      BY <1>1, <1>2, <2>1, <3>4, CloneKeeps
    <3>5. CASE ReadMedia(p)
      BY <1>1, <2>1, <3>5, ReadKeeps
    <3>6. CASE PruneMedia(p)
      BY <1>1, <1>2, <2>1, <3>6, PruneKeeps
    <3>7. QED
      BY <2>4, <3>1, <3>2, <3>3, <3>4, <3>5, <3>6 DEF Request
  <2>5. ASSUME NEW p \in Procs, Continue(p) PROVE PathOK(a)'
    <3>1. CASE SaveMedia(p)
      BY <1>1, <1>2, <2>1, <3>1, SaveKeeps
    <3>2. CASE Detach(p)
      BY <1>1, <2>1, <3>2, DetachKeeps
    <3>3. CASE FindRow(p)
      BY <1>1, <2>1, <3>3, FindKeeps
    <3>4. CASE Count(p)
      BY <1>1, <1>2, <2>1, <3>4, CountKeeps
    <3>5. CASE Cascade(p)
      BY <1>1, <2>1, <3>5, CascadeKeeps
    <3>6. CASE Remove(p)
      BY <1>1, <2>1, <3>6, RemoveKeeps
    <3>7. CASE Commit(p)
      BY <1>1, <1>2, <2>1, <3>7, CommitKeeps
    <3>8. CASE Attach(p)
      BY <1>1, <1>2, <2>1, <3>8, AttachKeeps
    <3>9. CASE LinkNew(p)
      BY <1>1, <2>1, <3>9, LinkNewKeeps
    <3>10. CASE LinkFound(p)
      BY <1>1, <1>2, <2>1, <3>10, LinkFoundKeeps
    <3>11. QED
      BY <2>5, <3>1, <3>2, <3>3, <3>4, <3>5, <3>6, <3>7, <3>8, <3>9, <3>10 DEF Continue
  <2>6. ASSUME NEW p \in Procs, Victim(p) PROVE PathOK(a)'
    BY <1>1, <1>2, <2>1, <2>6, VictimKeeps
  <2>7. ASSUME NEW p \in Procs, Abort(p) PROVE PathOK(a)'
    BY <1>1, <1>2, <2>1, <2>7, AbortKeeps
  <2>8. QED
    BY <2>2, <2>3, <2>4, <2>5, <2>6, <2>7 DEF Next
<1>3. QED
  BY <1>1, <1>2 DEF SoundInv, Sound

(***************************************************************************)
(* What follows from it                                                    *)
(***************************************************************************)
\* Requests that may overlap, deadlock and die: on a path that no two of them took and left
\* at once and on which none died, what an undeleted media names is in the store
\* (models.py:1714-1775, media_util's and the endpoints' calls of them).
THEOREM EntriesStayStored == Spec => []EntryIsStored
<1>1. SoundInv => EntryIsStored
  <2> SUFFICES ASSUME SoundInv, NEW m \in Media, media[m] = "live", NEW a \in PathsOf(m) \cap Sound
               PROVE  a \in stored
    BY DEF EntryIsStored
  <2>1. Named(m, a) /\ PathOK(a) /\ WorkInv
    BY DEF PathsOf, Named, SoundInv
  <2>2. CASE \E p \in Procs : a \in Attaching(p)
    BY <2>1, <2>2 DEF PathOK, AttachKnown
  <2>3. CASE ~\E p \in Procs : a \in Attaching(p)
    <3>1. PICK r \in Rids : res[r] = a /\ <<r, m>> \in link
      BY <2>1, <2>3 DEF PathOK, Settled
    <3>2. ASSUME NEW p \in Procs, r \in job[p].rows PROVE FALSE
      <4>1. PICK l : l = <<r, m>>
        OBVIOUS
      <4>2. l \in link /\ l[1] = r /\ l[2] = m
        BY <3>1, <4>1
      <4>3. l \in job[p].cut
        BY <2>1, <3>1, <3>2, <4>2 DEF PathOK, DecidedKnown, Decided
      <4>4. job[p].op = "Prune" /\ job[p].media = m
        BY <2>1, <3>1, <4>2, <4>3 DEF PathOK, CutKnown
      <4>5. job[p].stage # "idle"
        BY <2>1, <4>3, IdleStage, JobStage DEF WorkInv, LinkInv, TypeOK
      <4>6. QED
        BY <2>1, <4>4, <4>5 DEF WorkInv, PruneAlone, At
    <3>3. QED
      BY <2>1, <3>1, <3>2 DEF PathOK, Kept
  <2>4. QED
    BY <2>2, <2>3
<1>2. QED
  BY <1>1, InitSound, SoundKept, PTL DEF Spec

LEMMA QuietIdle ==
    ASSUME TypeOK, Quiet, NEW p \in Procs
    PROVE  job[p] = Idle
  BY JobStage DEF TypeOK, Quiet, At

\* With no request under way, on such a path the resources say of every media what its
\* media_files says: the next deletion counts the users there are.
THEOREM CountsStayRight == Spec => []CountsAreRight
<1>1. SoundInv => CountsAreRight
  <2> SUFFICES ASSUME SoundInv, Quiet, NEW m \in Media, NEW a \in Sound
               PROVE  a \in UsedBy(m) <=> a \in PathsOf(m)
    BY DEF CountsAreRight
  <2>1. PathOK(a) /\ TypeOK /\ a \notin URLs
    BY ResourcesConstants DEF SoundInv, WorkInv, LinkInv, Sound
  <2>2. \A p \in Procs : a \notin Attaching(p) /\ ~Detaching(p, m, a)
    BY DEF Quiet, Attaching, Detaching, At
  <2>3. ASSUME a \in UsedBy(m) PROVE a \in PathsOf(m)
    <3>1. PICK l \in link : l[2] = m /\ res[l[1]] = a
      BY <2>3 DEF UsedBy
    <3>2. l[1] \in Rids /\ l = <<l[1], m>>
      BY <2>1, <3>1 DEF TypeOK, Links
    <3>3. Named(m, a)
      BY <2>1, <2>2, <3>1, <3>2 DEF PathOK, Linked
    <3>4. QED
      BY <2>1, <3>3 DEF Named, PathsOf
  <2>4. ASSUME a \in PathsOf(m) PROVE a \in UsedBy(m)
    <3>1. PICK r \in Rids : res[r] = a /\ <<r, m>> \in link
      BY <2>1, <2>2, <2>4 DEF PathsOf, PathOK, Settled, Named
    <3>2. PICK l : l = <<r, m>>
      OBVIOUS
    <3>3. l \in link /\ l[1] = r /\ l[2] = m
      BY <3>1, <3>2
    <3>4. QED
      BY <3>1, <3>3 DEF UsedBy
  <2>5. QED
    BY <2>3, <2>4
<1>2. QED
  BY <1>1, InitSound, SoundKept, PTL DEF Spec

\* Of the requests that leave a file, however they overlap and wherever else they die, one
\* deletes its resource: with none under way, every resource of such a path has a user.
THEOREM NothingEverLeaks == Spec => []NothingLeaks
<1>1. SoundInv => NothingLeaks
  <2> SUFFICES ASSUME SoundInv, Quiet, NEW r \in Rids, res[r] \in Sound
               PROVE  \E m \in Media : <<r, m>> \in link
    BY DEF NothingLeaks
  <2>1. PICK a \in Sound : res[r] = a /\ PathOK(a)
    BY DEF SoundInv
  <2>2. TypeOK
    BY DEF SoundInv, WorkInv, LinkInv
  <2>3. \A p \in Procs : ~Counting(p, a) /\ ~Decided(p, r)
    BY <2>2, QuietIdle, IdleStage DEF Counting, Decided, At
  <2>4. PICK l \in link : l[1] = r
    BY <2>1, <2>3 DEF PathOK, Held
  <2>5. l[2] \in Media /\ l = <<r, l[2]>>
    BY <2>2, <2>4 DEF TypeOK, Links
  <2>6. QED
    BY <2>4, <2>5
<1>2. QED
  BY <1>1, InitSound, SoundKept, PTL DEF Spec

=============================================================================
