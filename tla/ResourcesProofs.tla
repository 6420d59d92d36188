-------------------------- MODULE ResourcesProofs --------------------------
(***************************************************************************)
(* Proofs about Resources, for every set of media, paths and requests.     *)
(***************************************************************************)
EXTENDS Resources, TLAPS

(***************************************************************************)
(* Type correctness                                                        *)
(***************************************************************************)
RowStages == {"count", "cascade", "remove"}

\* What TypeOK says of one request.
JobOK(j) == j \in {Idle} \cup Job /\ (j.stage \in RowStages => j.rid \in Rids)

LEMMA StartOK ==
    ASSUME TypeOK, NEW p \in Procs, NEW stage \in Stages \ RowStages, NEW op \in AllOps,
           NEW m \in Media, NEW old \in SUBSET Entries,
           NEW drop \in SUBSET Paths, NEW add \in SUBSET Paths, NEW cut \in SUBSET Links
    PROVE  JobOK([stage |-> stage, op |-> op, media |-> m, old |-> old, drop |-> drop,
                  add |-> add, path |-> Unused, rid |-> NoRid, cut |-> cut, rows |-> {}])
  BY DEF JobOK, Job, RowStages

LEMMA IdleOK == JobOK(Idle)
  BY DEF JobOK, Idle, RowStages

LEMMA ProceedOK ==
    ASSUME NEW j \in Job
    PROVE  JobOK(Proceed(j))
  BY IdleOK DEF JobOK, Proceed, Job, RowStages, Stages

\* A request that is not idle has all its fields.
LEMMA JobFields ==
    ASSUME TypeOK, NEW p \in Procs, ~At(p, "idle")
    PROVE  /\ job[p] \in Job
           /\ job[p].media \in Media /\ job[p].old \in SUBSET Entries
           /\ job[p].drop \in SUBSET Paths /\ job[p].add \in SUBSET Paths
           /\ job[p].cut \in SUBSET Links /\ job[p].rows \in SUBSET Rids
  BY DEF TypeOK, At, Idle, Job

\* One request moves on, the others stay: TypeOK holds if it does of that one.
LEMMA JobsKeepOK ==
    ASSUME TypeOK, NEW p \in Procs, NEW j, JobOK(j), job' = [job EXCEPT ![p] = j],
           media' \in [Media -> {"free", "live", "hidden", "pruned"}],
           files' \in [Media -> SUBSET Entries],
           stored' \subseteq Paths,
           res' \in [Rids -> Paths \cup {Unused, Deleted}],
           link' \subseteq Links,
           spoilt' \subseteq Watched
    PROVE  TypeOK'
<1>1. \A q \in Procs : JobOK(job'[q])
  BY DEF TypeOK, JobOK, RowStages
<1>2. job' \in [Procs -> {Idle} \cup Job]
  BY DEF TypeOK, JobOK
<1>3. QED
  BY <1>1, <1>2 DEF TypeOK, JobOK, RowStages

\* Who is picked in a deadlock was waiting, with a row at hand.
LEMMA VictimKnown ==
    ASSUME TypeOK, NEW p \in Procs, Victim(p)
    PROVE  job[p] \in Job /\ job[p].stage \in {"cascade", "remove"}
<1>1. \E q : WaitsFor(p, q)
  BY DEF Victim, Deadlocked, AllWait
<1>2. job[p].stage \in {"cascade", "remove"}
  BY <1>1 DEF WaitsFor, At
<1>3. QED
  BY <1>2, JobFields DEF At

\* A request that starts, whatever it did to files and media.
LEMMA StartTyped ==
    ASSUME TypeOK, NEW p \in Procs, NEW stage \in Stages \ RowStages, NEW op \in AllOps,
           NEW m \in Media, NEW old \in SUBSET Entries,
           NEW drop \in SUBSET Paths, NEW add \in SUBSET Paths,
           Start(p, stage, op, m, old, drop, add),
           media' \in [Media -> {"free", "live", "hidden", "pruned"}],
           files' \in [Media -> SUBSET Entries],
           UNCHANGED <<stored, res, link>>,
           spoilt' \subseteq Watched
    PROVE  TypeOK'
<1> DEFINE j == [stage |-> stage, op |-> op, media |-> m, old |-> old, drop |-> drop,
                 add |-> add, path |-> Unused, rid |-> NoRid, cut |-> {}, rows |-> {}]
<1>1. JobOK(j)
  BY StartOK
<1>2. job' = [job EXCEPT ![p] = j]
  BY DEF Start
<1>3. stored' \subseteq Paths /\ res' \in [Rids -> Paths \cup {Unused, Deleted}] /\ link' \subseteq Links
  BY DEF TypeOK
<1> HIDE DEF j
<1>4. QED
  BY <1>1, <1>2, <1>3, JobsKeepOK

LEMMA StageNames ==
    /\ {"save", "detach", "find", "attach"} \subseteq Stages \ RowStages
    /\ {"Post", "Patch", "DeleteFile", "Clone", "Hide", "Rewrite", "Prune"} \subseteq AllOps
  BY DEF Stages, RowStages, AllOps

LEMMA PathsInOK ==
    ASSUME NEW entries \in SUBSET Entries
    PROVE  PathsIn(entries) \in SUBSET Paths
  BY DEF PathsIn, Entries

\* The first transaction of a request
LEMMA RequestTyped ==
    ASSUME TypeOK, NEW p \in Procs, Request(p), spoilt' \subseteq Watched
    PROVE  TypeOK'
<1> USE DEF TypeOK
<1>1. CASE PostFile(p)
  <2>1. PICK m \in Media, s \in Slots, a \in Paths :
          /\ files' = [files EXCEPT ![m] = @ \cup {<<s, a>>}]
          /\ IF a \in URLs THEN UNCHANGED <<job, spoilt>>
             ELSE Start(p, "attach", "Post", m, {}, {}, {a})
    BY <1>1 DEF PostFile
  <2>2. files' \in [Media -> SUBSET Entries]
    BY <2>1 DEF Entries
  <2>3. {a} \in SUBSET Paths /\ {} \in SUBSET Paths /\ {} \in SUBSET Entries
    OBVIOUS
  <2>4. CASE a \in URLs
    BY <1>1, <2>1, <2>2, <2>4 DEF PostFile
  <2>5. CASE a \notin URLs
    BY <1>1, <2>1, <2>2, <2>3, <2>5, StageNames, StartTyped DEF PostFile
  <2>6. QED
    BY <2>4, <2>5
<1>2. CASE PatchFile(p)
  <2>1. PICK m \in Media, a \in Paths : \E e \in files[m] :
          /\ files' = [files EXCEPT ![m] = (@ \ {e}) \cup {<<e[1], a>>}]
          /\ Start(p, "detach", "Patch", m, {}, {e[2]}, {a})
    BY <1>2 DEF PatchFile
  <2>2. PICK e \in files[m] :
          /\ files' = [files EXCEPT ![m] = (@ \ {e}) \cup {<<e[1], a>>}]
          /\ Start(p, "detach", "Patch", m, {}, {e[2]}, {a})
    BY <2>1
  <2>3. /\ e[1] \in Slots /\ {e[2]} \in SUBSET Paths
        /\ {a} \in SUBSET Paths /\ {} \in SUBSET Entries
    BY <2>2 DEF Entries
  <2>4. files' \in [Media -> SUBSET Entries]
    BY <2>2, <2>3 DEF Entries
  <2>5. QED
    BY <1>2, <2>2, <2>3, <2>4, StageNames, StartTyped DEF PatchFile
<1>3. CASE DeleteFile(p)
  <2>1. PICK m \in Media : \E e \in files[m] :
          /\ files' = [files EXCEPT ![m] = @ \ {e}]
          /\ Start(p, "detach", "DeleteFile", m, {}, {e[2]}, {})
    BY <1>3 DEF DeleteFile
  <2>2. PICK e \in files[m] :
          /\ files' = [files EXCEPT ![m] = @ \ {e}]
          /\ Start(p, "detach", "DeleteFile", m, {}, {e[2]}, {})
    BY <2>1
  <2>3. {e[2]} \in SUBSET Paths /\ {} \in SUBSET Paths /\ {} \in SUBSET Entries
    BY <2>2 DEF Entries
  <2>4. files' \in [Media -> SUBSET Entries]
    BY <2>2
  <2>5. QED
    BY <1>3, <2>2, <2>3, <2>4, StageNames, StartTyped DEF DeleteFile
<1>4. CASE Clone(p)
  <2>1. PICK m \in Media, c \in Media :
          /\ media' = [media EXCEPT ![c] = "live"]
          /\ files' = [files EXCEPT ![c] = files[m]]
          /\ Start(p, "attach", "Clone", c, {}, {}, PathsIn(files[m]))
    BY <1>4 DEF Clone
  <2>2. PathsIn(files[m]) \in SUBSET Paths /\ {} \in SUBSET Paths /\ {} \in SUBSET Entries
    BY PathsInOK
  <2>3. QED
    BY <1>4, <2>1, <2>2, StageNames, StartTyped DEF Clone
<1>5. CASE ReadMedia(p)
  <2>1. PICK op \in Ops \cap {"Hide", "Rewrite"}, m \in Media :
          Start(p, "save", op, m, files[m], {}, {})
    BY <1>5 DEF ReadMedia
  <2>2. op \in AllOps /\ {} \in SUBSET Paths /\ files[m] \in SUBSET Entries
    BY StageNames
  <2>3. QED
    BY <1>5, <2>1, <2>2, StageNames, StartTyped DEF ReadMedia
<1>6. CASE PruneMedia(p)
  <2>1. PICK m \in Media :
          job' = [job EXCEPT ![p] =
                     [stage |-> "find", op |-> "Prune", media |-> m, old |-> {},
                      drop |-> PathsIn(files[m]), add |-> {}, path |-> Unused,
                      rid |-> NoRid, cut |-> {l \in link : l[2] = m}, rows |-> {}]]
    BY <1>6 DEF PruneMedia
  <2>2. PathsIn(files[m]) \in SUBSET Paths /\ {l \in link : l[2] = m} \in SUBSET Links
    BY PathsInOK
  <2>3. QED
    BY <1>6, <2>1, <2>2, StartOK, JobsKeepOK DEF PruneMedia, Stages, RowStages, AllOps
<1>7. QED
  BY <1>1, <1>2, <1>3, <1>4, <1>5, <1>6 DEF Request

\* A request that goes on
LEMMA ContinueTyped ==
    ASSUME TypeOK, NEW p \in Procs, Continue(p), spoilt' \subseteq Watched
    PROVE  TypeOK'
<1>1. CASE SaveMedia(p)
  <2>1. /\ files' = [files EXCEPT ![job[p].media] = job[p].old]
        /\ media' \in [Media -> {"free", "live", "hidden", "pruned"}]
        /\ job' = [job EXCEPT ![p] = Idle]
        /\ UNCHANGED <<stored, res, link>>
    BY <1>1 DEF SaveMedia, Finish, TypeOK
  <2>2. files' \in [Media -> SUBSET Entries]
    BY <1>1, <2>1, JobFields DEF SaveMedia, At, TypeOK
  <2>3. QED
    BY <2>1, <2>2, IdleOK, JobsKeepOK DEF TypeOK
<1>2. CASE Detach(p)
  <2>1. job[p] \in Job /\ link' \subseteq link
    BY <1>2, JobFields DEF Detach, At
  <2>2. JobOK([job[p] EXCEPT !.stage = "find"])
    BY <2>1 DEF JobOK, Job, Stages, RowStages
  <2>3. job' = [job EXCEPT ![p] = [job[p] EXCEPT !.stage = "find"]]
    BY <1>2, <2>1 DEF Detach, TypeOK
  <2>4. QED
    BY <1>2, <2>1, <2>2, <2>3, JobsKeepOK DEF Detach, TypeOK
<1>3. CASE FindRow(p)
  <2>1. job[p] \in Job
    BY <1>3, JobFields DEF FindRow, At
  <2>2. PICK a \in job[p].drop :
          \/ \E r \in RowsOf(p, a) :
                job' = [job EXCEPT ![p] = [[job[p] EXCEPT !.drop = @ \ {a}]
                                             EXCEPT !.stage = "count", !.path = a, !.rid = r]]
          \/ job' = [job EXCEPT ![p] = Proceed([job[p] EXCEPT !.drop = @ \ {a}])]
    BY <1>3 DEF FindRow
  <2>3. a \in Paths /\ [job[p] EXCEPT !.drop = @ \ {a}] \in Job
    BY <2>1 DEF Job
  <2> DEFINE j == [job[p] EXCEPT !.drop = @ \ {a}]
  <2> HIDE DEF j
  <2>4. CASE job' = [job EXCEPT ![p] = Proceed(j)]
    BY <1>3, <2>3, <2>4, ProceedOK, JobsKeepOK DEF j, FindRow, TypeOK
  <2>5. ASSUME NEW r \in RowsOf(p, a),
               job' = [job EXCEPT ![p] = [j EXCEPT !.stage = "count", !.path = a, !.rid = r]]
        PROVE  TypeOK'
    <3>1. j \in Job /\ r \in Rids
      BY <2>3 DEF j, RowsOf
    <3>2. JobOK([j EXCEPT !.stage = "count", !.path = a, !.rid = r])
      BY <2>3, <3>1 DEF JobOK, Job, Stages, RowStages
    <3>3. QED
      BY <1>3, <2>5, <3>2, JobsKeepOK DEF FindRow, TypeOK
  <2>6. QED
    BY <2>2, <2>4, <2>5 DEF j
<1>4. CASE Count(p)
  <2>1. job[p] \in Job /\ job[p].rid \in Rids
    BY <1>4, JobFields DEF Count, At, TypeOK
  <2>2. JobOK([job[p] EXCEPT !.stage = "cascade"])
    BY <2>1 DEF JobOK, Job, Stages, RowStages
  <2>3. JobOK(Proceed(job[p]))
    BY <2>1, ProceedOK
  <2>4. \/ job' = [job EXCEPT ![p] = [job[p] EXCEPT !.stage = "cascade"]]
        \/ job' = [job EXCEPT ![p] = Proceed(job[p])]
    BY <1>4 DEF Count, TypeOK
  <2>5. QED
    BY <1>4, <2>2, <2>3, <2>4, JobsKeepOK DEF Count, TypeOK
<1>5. CASE Cascade(p)
  <2>1. job[p] \in Job /\ job[p].rid \in Rids
    BY <1>5, JobFields DEF Cascade, At, TypeOK
  <2>2. Users(p) \in SUBSET Links
    BY DEF Users, TypeOK
  <2>3. JobOK([job[p] EXCEPT !.stage = "remove", !.cut = @ \cup Users(p)])
    BY <2>1, <2>2 DEF JobOK, Job, Stages, RowStages
  <2>4. job' = [job EXCEPT ![p] = [job[p] EXCEPT !.stage = "remove", !.cut = @ \cup Users(p)]]
    BY <1>5, <2>1 DEF Cascade, TypeOK, Job
  <2>5. QED
    BY <1>5, <2>3, <2>4, JobsKeepOK DEF Cascade, TypeOK
<1>6. CASE Remove(p)
  <2>1. job[p] \in Job /\ job[p].rid \in Rids
    BY <1>6, JobFields DEF Remove, At, TypeOK
  <2> DEFINE rows == IF res[job[p].rid] = Deleted THEN job[p].rows
                     ELSE job[p].rows \cup {job[p].rid}
             next == IF job[p].op = "Prune" THEN "find" ELSE "commit"
  <2>2. rows \in SUBSET Rids /\ next \in {"find", "commit"}
    BY <2>1 DEF Job
  <2>3. job' = [job EXCEPT ![p] = [job[p] EXCEPT !.rows = rows, !.stage = next]]
    BY <1>6, <2>1 DEF Remove, TypeOK, Job
  <2> HIDE DEF rows, next
  <2>4. JobOK([job[p] EXCEPT !.rows = rows, !.stage = next])
    BY <2>1, <2>2 DEF JobOK, Job, Stages, RowStages
  <2>5. QED
    BY <1>6, <2>3, <2>4, JobsKeepOK DEF Remove, TypeOK
<1>7. CASE Commit(p)
  <2>1. job[p] \in Job
    BY <1>7, JobFields DEF Commit, At
  <2>2. [job[p] EXCEPT !.cut = {}, !.rows = {}] \in Job
    BY <2>1 DEF Job
  <2> DEFINE j == [job[p] EXCEPT !.cut = {}, !.rows = {}]
  <2>3. job' = [job EXCEPT ![p] = Idle] \/ job' = [job EXCEPT ![p] = Proceed(j)]
    BY <1>7 DEF Commit
  <2>4. JobOK(Proceed(j))
    BY <2>2, ProceedOK
  <2> HIDE DEF j
  <2>5. /\ media' \in [Media -> {"free", "live", "hidden", "pruned"}]
        /\ files' \in [Media -> SUBSET Entries]
        /\ stored' = stored
        /\ res' \in [Rids -> Paths \cup {Unused, Deleted}]
        /\ link' \subseteq Links
    BY <1>7, <2>1 DEF Commit, TypeOK
  <2>6. QED
    BY <2>3, <2>4, <2>5, IdleOK, JobsKeepOK DEF TypeOK
<1>8. CASE Attach(p)
  <2>1. job[p] \in Job
    BY <1>8, JobFields DEF Attach, At
  <2>2. PICK a \in job[p].add :
          \/ \E r \in RowsOf(p, a) \cup {NoRid} :
                job' = [job EXCEPT ![p] =
                           [job[p] EXCEPT !.stage = "link", !.path = a, !.add = @ \ {a}, !.rid = r]]
          \/ job' = [job EXCEPT ![p] = Idle]
    BY <1>8, <2>1 DEF Attach, Finish, Job
  <2>3. CASE job' = [job EXCEPT ![p] = Idle]
    BY <1>8, <2>3, IdleOK, JobsKeepOK DEF Attach, TypeOK
  <2>4. ASSUME NEW r \in RowsOf(p, a) \cup {NoRid},
               job' = [job EXCEPT ![p] =
                          [job[p] EXCEPT !.stage = "link", !.path = a, !.add = @ \ {a}, !.rid = r]]
        PROVE  TypeOK'
    <3>1. JobOK([job[p] EXCEPT !.stage = "link", !.path = a, !.add = @ \ {a}, !.rid = r])
      BY <2>1 DEF JobOK, Job, Stages, RowStages, RowsOf
    <3>2. QED
      BY <1>8, <2>4, <3>1, JobsKeepOK DEF Attach, TypeOK
  <2>5. QED
    BY <2>2, <2>3, <2>4
<1>9. CASE LinkNew(p) \/ LinkFound(p)
  <2>1. job[p] \in Job
    BY <1>9, JobFields DEF LinkNew, LinkFound, At
  <2>2. /\ res' \in [Rids -> Paths \cup {Unused, Deleted}]
        /\ link' \subseteq Links
        /\ UNCHANGED <<media, files, stored>>
    BY <1>9, <2>1 DEF LinkNew, LinkFound, TypeOK, Job, Links
  <2>3. job' = [job EXCEPT ![p] = Idle] \/ job' = [job EXCEPT ![p] = Proceed(job[p])]
    BY <1>9 DEF LinkNew, LinkFound, Finish, TypeOK
  <2>4. QED
    BY <2>1, <2>2, <2>3, IdleOK, ProceedOK, JobsKeepOK DEF TypeOK
<1>10. QED
  BY <1>1, <1>2, <1>3, <1>4, <1>5, <1>6, <1>7, <1>8, <1>9 DEF Continue

LEMMA InitTyped == Init => TypeOK
  BY ResourcesConstants, IdleOK DEF Init, TypeOK, Idle, PathsIn, Entries

LEMMA HistoryTyped ==
    ASSUME TypeOK, [Next]_vars
    PROVE  spoilt' \subseteq Watched
<1>1. (\E S : Spoils(S)) => spoilt' \subseteq Watched
  BY DEF Spoils, TypeOK
<1>2. UNCHANGED spoilt => spoilt' \subseteq Watched
  BY DEF TypeOK
<1>3. ASSUME NEW p \in Procs, Request(p) PROVE spoilt' \subseteq Watched
  BY <1>1, <1>2, <1>3
     DEF Request, PostFile, PatchFile, DeleteFile, Clone, ReadMedia, PruneMedia, Start
<1>4. ASSUME NEW p \in Procs, Continue(p) PROVE spoilt' \subseteq Watched
  BY <1>1, <1>2, <1>4
     DEF Continue, SaveMedia, Detach, FindRow, Count, Cascade, Remove, Commit, Attach,
         LinkNew, LinkFound
<1>5. QED
  BY <1>1, <1>2, <1>3, <1>4 DEF Next, vars, Upload, Victim, Abort

LEMMA NextTyped ==
    ASSUME TypeOK, [Next]_vars
    PROVE  TypeOK'
<1>0. spoilt' \subseteq Watched
  BY HistoryTyped
<1>1. CASE UNCHANGED vars
  BY <1>1 DEF vars, TypeOK
<1>2. CASE Upload
  BY <1>2 DEF Upload, TypeOK
<1>3. ASSUME NEW p \in Procs, Abort(p) PROVE TypeOK'
  BY <1>0, <1>3, IdleOK, JobsKeepOK DEF Abort, Finish, TypeOK
<1>4. ASSUME NEW p \in Procs, Victim(p) PROVE TypeOK'
  <2>1. job[p] \in Job
    BY <1>4, VictimKnown
  <2>2. BeforeSavepoint(job[p]) \in SUBSET Links
    BY <2>1 DEF BeforeSavepoint, Job
  <2>3. [job[p] EXCEPT !.cut = BeforeSavepoint(job[p])] \in Job
    BY <2>1, <2>2 DEF Job
  <2>4. JobOK(Proceed([job[p] EXCEPT !.cut = BeforeSavepoint(job[p])]))
    BY <2>3, ProceedOK
  <2>5. QED
    BY <1>0, <1>4, <2>4, JobsKeepOK DEF Victim, TypeOK
<1>5. QED
  BY <1>0, <1>1, <1>2, <1>3, <1>4, RequestTyped, ContinueTyped DEF Next

\* What is stored in any reachable state has its type.
THEOREM TypeCorrect == Spec => []TypeOK
<1>1. QED
  BY InitTyped, NextTyped, PTL DEF Spec

(***************************************************************************)
(* No media stays attached to a resource that is gone.                     *)
(***************************************************************************)

\* A request that is about to attach a resource knows its path, and the row it
\* found was there.
LinkKnown(p) ==
    At(p, "link") => /\ job[p].path \in Paths
                     /\ job[p].rid # NoRid => job[p].rid \in Rids /\ res[job[p].rid] # Unused

LinkInv ==
    /\ TypeOK
    /\ LinksHaveRows
    /\ \A p \in Procs : LinkKnown(p)

\* The rows of Resource are never unused again.
LEMMA StaysUsed ==
    ASSUME TypeOK, [Next]_vars, NEW r \in Rids, res[r] # Unused
    PROVE  res'[r] # Unused
<1>1. CASE UNCHANGED res
  BY <1>1
<1>2. ASSUME NEW p \in Procs, Commit(p) PROVE res'[r] # Unused
  BY <1>2, ResourcesConstants DEF Commit, TypeOK
<1>3. ASSUME NEW p \in Procs, LinkNew(p) PROVE res'[r] # Unused
  BY <1>3 DEF LinkNew, TypeOK
<1>4. QED
  BY <1>1, <1>2, <1>3
     DEF Next, vars, Upload, Request, Continue, Victim, Abort, PostFile, PatchFile, DeleteFile, Clone,
         ReadMedia, PruneMedia, SaveMedia, Detach, FindRow, Count, Cascade, Remove, Attach,
         LinkFound

\* Only LinkNew, LinkFound, Detach and Commit write the links.
LEMMA LinksKeepRows ==
    ASSUME LinkInv, [Next]_vars
    PROVE  LinksHaveRows'
<1>1. TypeOK /\ LinksHaveRows /\ \A p \in Procs : LinkKnown(p)
  BY DEF LinkInv
<1>2. CASE UNCHANGED <<res, link>>
  BY <1>1, <1>2 DEF LinksHaveRows
<1>3. ASSUME NEW p \in Procs, Detach(p) PROVE LinksHaveRows'
  BY <1>1, <1>3 DEF Detach, LinksHaveRows
<1>4. ASSUME NEW p \in Procs, Commit(p) PROVE LinksHaveRows'
  <2> DEFINE ok == \A l \in link : l[1] \in job[p].rows => l \in job[p].cut
  <2>1. CASE ~ok
    BY <1>1, <1>4, <2>1 DEF Commit, LinksHaveRows
  <2>2. CASE ok
    <3>1. /\ link' = link \ job[p].cut
          /\ \A r \in Rids : r \notin job[p].rows => res'[r] = res[r]
      BY <1>4, <2>2 DEF Commit
    <3>2. \A l \in link' : l \in link /\ l[1] \in Rids /\ l[1] \notin job[p].rows
      BY <1>1, <2>2, <3>1 DEF TypeOK, Links
    <3>3. QED
      BY <1>1, <3>1, <3>2 DEF LinksHaveRows
  <2>3. QED
    BY <2>1, <2>2
<1>5. ASSUME NEW p \in Procs, LinkNew(p) PROVE LinksHaveRows'
  <2>1. PICK r \in Rids : /\ res' = [res EXCEPT ![r] = job[p].path]
                          /\ link' = link \cup {<<r, job[p].media>>}
    BY <1>5 DEF LinkNew
  <2>2. job[p].path \in Paths
    BY <1>1, <1>5 DEF LinkNew, LinkKnown
  <2>3. \A l \in link : l[1] \in Rids
    BY <1>1 DEF TypeOK, Links
  <2>4. QED
    BY <1>1, <2>1, <2>2, <2>3 DEF LinksHaveRows, TypeOK
<1>6. ASSUME NEW p \in Procs, LinkFound(p) PROVE LinksHaveRows'
  <2>1. /\ link' = link \/ (link' = link \cup {<<job[p].rid, job[p].media>>} /\ res[job[p].rid] # Deleted)
        /\ res' = res
    BY <1>6 DEF LinkFound
  <2>2. job[p].rid \in Rids /\ res[job[p].rid] # Unused
    BY <1>1, <1>6 DEF LinkFound, LinkKnown
  <2>3. res[job[p].rid] \in Paths \cup {Unused, Deleted}
    BY <1>1, <2>2 DEF TypeOK
  <2>4. QED
    BY <1>1, <2>1, <2>2, <2>3 DEF LinksHaveRows
<1>7. QED
  BY <1>2, <1>3, <1>4, <1>5, <1>6
     DEF Next, vars, Upload, Request, Continue, Victim, Abort, PostFile, PatchFile, DeleteFile, Clone,
         ReadMedia, PruneMedia, SaveMedia, FindRow, Count, Cascade, Remove, Attach

\* The stage of a request changes only by its own steps.
LEMMA StepsAlone ==
    ASSUME TypeOK, [Next]_vars, NEW q \in Procs, job'[q] # job[q]
    PROVE  Request(q) \/ Continue(q) \/ Victim(q) \/ Abort(q)
<1>1. Next /\ ~Upload
  BY DEF vars, Upload
<1>2. PICK p \in Procs : Request(p) \/ Continue(p) \/ Victim(p) \/ Abort(p)
  BY <1>1 DEF Next
<1>3. \E j : job' = [job EXCEPT ![p] = j]
  <2>1. CASE Detach(p)
    BY <2>1 DEF Detach
  <2>2. CASE Remove(p) \/ Cascade(p)
    BY <2>2 DEF Remove, Cascade
  <2>3. QED
    BY <1>2, <2>1, <2>2
       DEF Request, Continue, Victim, Abort, PostFile, PatchFile, DeleteFile, Clone, ReadMedia,
           PruneMedia, SaveMedia, FindRow, Count, Commit, Attach, LinkNew, LinkFound,
           Start, Finish
<1>4. q = p
  BY <1>3 DEF TypeOK
<1>5. QED
  BY <1>2, <1>4

LEMMA LinkKnownKept ==
    ASSUME LinkInv, [Next]_vars, NEW q \in Procs
    PROVE  LinkKnown(q)'
<1>1. TypeOK /\ TypeOK' /\ LinkKnown(q)
  <2>1. TypeOK /\ LinkKnown(q)
    BY DEF LinkInv
  <2>2. TypeOK'
    BY <2>1, NextTyped
  <2>3. QED
    BY <2>1, <2>2
<1>2. CASE job'[q] = job[q]
  BY <1>1, <1>2, StaysUsed DEF LinkKnown, At
<1>3. CASE job'[q] # job[q]
  <2> SUFFICES ASSUME At(q, "link")'
               PROVE  /\ job'[q].path \in Paths
                      /\ job'[q].rid # NoRid => job'[q].rid \in Rids /\ res'[job'[q].rid] # Unused
    BY DEF LinkKnown
  <2>1. Request(q) \/ Continue(q) \/ Victim(q) \/ Abort(q)
    BY <1>1, <1>3, StepsAlone
  <2>2. ~Request(q) /\ ~Abort(q) /\ ~Victim(q)
    <3>1. ~PostFile(q)
      <4>1. ASSUME PostFile(q), job' # job PROVE job'[q].stage = "attach"
        BY <1>1, <4>1 DEF PostFile, Start, TypeOK
      <4>2. QED
        BY <1>3, <4>1 DEF At
    <3>2. ~PatchFile(q) /\ ~DeleteFile(q)
      <4>1. ASSUME PatchFile(q) \/ DeleteFile(q) PROVE job'[q].stage = "detach"
        <5>1. \E op, m, drop, add : Start(q, "detach", op, m, {}, drop, add)
          BY <4>1 DEF PatchFile, DeleteFile
        <5>2. QED
          BY <1>1, <5>1 DEF Start, TypeOK
      <4>2. QED
        BY <4>1 DEF At
    <3>3. ~Clone(q) /\ ~ReadMedia(q)
      BY <1>1 DEF Clone, ReadMedia, Start, At, TypeOK
    <3>4. ~PruneMedia(q) /\ ~Abort(q)
      BY <1>1 DEF PruneMedia, Abort, Finish, Idle, At, TypeOK
    <3>5. ~Victim(q)
      <4>1. ASSUME Victim(q) PROVE job'[q].stage \in {"idle", "find", "attach"}
        <5>1. job[q] \in Job
          BY <1>1, <4>1, VictimKnown
        <5>2. job'[q] = Proceed([job[q] EXCEPT !.cut = BeforeSavepoint(job[q])])
          BY <1>1, <4>1 DEF Victim, TypeOK
        <5>3. ASSUME NEW j \in Job PROVE Proceed(j).stage \in {"idle", "find", "attach"}
          BY DEF Proceed, Idle, Job
        <5>4. BeforeSavepoint(job[q]) \in SUBSET Links
          BY <5>1 DEF BeforeSavepoint, Job
        <5>5. [job[q] EXCEPT !.cut = BeforeSavepoint(job[q])] \in Job
          BY <5>1, <5>4 DEF Job
        <5>6. QED
          BY <5>2, <5>3, <5>5
      <4>2. QED
        BY <4>1 DEF At
    <3>6. QED
      BY <3>1, <3>2, <3>3, <3>4, <3>5 DEF Request
  <2>3. ~SaveMedia(q) /\ ~Detach(q) /\ ~Cascade(q) /\ ~Remove(q)
    BY <1>1 DEF SaveMedia, Detach, Cascade, Remove, Finish, Idle, At, TypeOK, Job
  <2>4. ASSUME NEW j \in Job PROVE Proceed(j).stage # "link"
    BY DEF Proceed, Idle, Job
  <2>5. ~Count(q) /\ ~LinkNew(q) /\ ~LinkFound(q)
    <3>1. CASE Count(q) \/ LinkNew(q) \/ LinkFound(q)
      <4>1. job[q] \in Job
        BY <1>1, <3>1, JobFields DEF Count, LinkNew, LinkFound, At
      <4>2. job'[q] \in {Idle, Proceed(job[q]), [job[q] EXCEPT !.stage = "cascade"]}
        BY <1>1, <3>1 DEF Count, LinkNew, LinkFound, Finish, TypeOK
      <4>3. QED
        BY <2>4, <4>1, <4>2 DEF At, Idle, Job
    <3>2. QED
      BY <3>1
  <2>6. ~Commit(q)
    <3>1. CASE Commit(q)
      <4>1. job[q] \in Job
        BY <1>1, <3>1, JobFields DEF Commit, At
      <4>2. [job[q] EXCEPT !.cut = {}, !.rows = {}] \in Job
        BY <4>1 DEF Job
      <4>3. job'[q] \in {Idle, Proceed([job[q] EXCEPT !.cut = {}, !.rows = {}])}
        BY <1>1, <3>1 DEF Commit, TypeOK
      <4>4. QED
        BY <2>4, <4>2, <4>3 DEF At, Idle
    <3>2. QED
      BY <3>1
  <2>7. ~FindRow(q)
    <3>1. CASE FindRow(q)
      <4>1. job[q] \in Job
        BY <1>1, <3>1, JobFields DEF FindRow, At
      <4>2. PICK a \in job[q].drop :
              \/ job'[q] = Proceed([job[q] EXCEPT !.drop = @ \ {a}])
              \/ \E r \in RowsOf(q, a) :
                    job'[q] = [[job[q] EXCEPT !.drop = @ \ {a}]
                                 EXCEPT !.stage = "count", !.path = a, !.rid = r]
        BY <1>1, <3>1 DEF FindRow, TypeOK
      <4>3. [job[q] EXCEPT !.drop = @ \ {a}] \in Job
        BY <4>1 DEF Job
      <4>4. QED
        BY <2>4, <4>2, <4>3 DEF At, Job
    <3>2. QED
      BY <3>1
  <2>8. Attach(q)
    BY <2>1, <2>2, <2>3, <2>5, <2>6, <2>7 DEF Continue
  <2>9. job[q] \in Job
    BY <1>1, <2>8, JobFields DEF Attach, At
  <2>10. PICK a \in job[q].add :
           \/ \E r \in RowsOf(q, a) \cup {NoRid} :
                 job'[q] = [job[q] EXCEPT !.stage = "link", !.path = a, !.add = @ \ {a}, !.rid = r]
           \/ job'[q] = Idle
    BY <1>1, <2>8, <2>9, ZenonT(60) DEF Attach, Finish, TypeOK, Job
  <2>11. PICK r \in RowsOf(q, a) \cup {NoRid} : job'[q].path = a /\ job'[q].rid = r
    <3>1. job'[q] # Idle
      BY DEF At, Idle
    <3>2. PICK r \in RowsOf(q, a) \cup {NoRid} :
            job'[q] = [job[q] EXCEPT !.stage = "link", !.path = a, !.add = @ \ {a}, !.rid = r]
      BY <2>10, <3>1
    <3>3. job'[q].path = a /\ job'[q].rid = r
      BY <2>9, <3>2 DEF Job
    <3>4. QED
      BY <3>3
  <2>12. a \in Paths /\ res' = res
    BY <2>8, <2>9 DEF Attach, Job
  <2>13. QED
    BY <2>11, <2>12, ResourcesConstants DEF RowsOf
<1>4. QED
  BY <1>2, <1>3

LEMMA InitLinks == Init => LinkInv
<1> SUFFICES ASSUME Init PROVE LinkInv
  OBVIOUS
<1>1. TypeOK
  BY InitTyped
<1>2. LinksHaveRows
  BY ResourcesConstants DEF Init, LinksHaveRows, PathsIn, Entries, Links
<1>3. \A p \in Procs : LinkKnown(p)
  BY DEF Init, LinkKnown, At, Idle
<1>4. QED
  BY <1>1, <1>2, <1>3 DEF LinkInv

LEMMA LinkInvKept == LinkInv /\ [Next]_vars => LinkInv'
<1> SUFFICES ASSUME LinkInv, [Next]_vars PROVE LinkInv'
  OBVIOUS
<1>1. TypeOK'
  BY NextTyped DEF LinkInv
<1>2. QED
  BY <1>1, LinksKeepRows, LinkKnownKept DEF LinkInv

\* For any number of requests that attach, detach and delete the same files, with
\* any of them dying anywhere: what is attached is a resource that exists.
THEOREM LinksStayValid == Spec => []LinksHaveRows
<1>1. LinkInv => LinksHaveRows
  BY DEF LinkInv
<1>2. QED
  BY <1>1, InitLinks, LinkInvKept, PTL DEF Spec

(***************************************************************************)
(* Tearing down shared files                                               *)
(***************************************************************************)

\* A path has one resource.
OneRowPerPath == \A r, s \in Rids : res[r] \in Paths /\ res[r] = res[s] => r = s

OnlyTearDown == Ops \subseteq TearDownOps

\* What is known of a request that tears down: it has nothing to attach, and its
\* transaction detaches no undeleted media; the path at hand is that of its row
\* only, and once it has counted, no undeleted media uses it.
FileJob(p) ==
    /\ ~At(p, "attach") /\ ~At(p, "link")
    /\ ~At(p, "idle") => job[p].add = {}
    /\ \A l \in job[p].cut : media[l[2]] # "live"
    /\ job[p].stage \in RowStages =>
           \A r \in Rids : res[r] = job[p].path => r = job[p].rid
    /\ job[p].stage \in {"cascade", "remove"} =>
           \A l \in link : l[1] = job[p].rid => media[l[2]] # "live"

TearInv ==
    /\ TypeOK
    /\ AttachedIsStored
    /\ OneRowPerPath
    /\ \A p \in Procs : FileJob(p)

\* The tables only shrink: no link appears, a row that is deleted has no link left,
\* no media comes back.
Shrinks ==
    /\ link' \subseteq link
    /\ \A r \in Rids : \/ res'[r] = res[r]
                       \/ res'[r] = Deleted /\ \A l \in link' : l[1] # r
    /\ \A m \in Media : media[m] # "live" => media'[m] # "live"

LEMMA TablesShrink ==
    ASSUME OnlyTearDown, TearInv, [Next]_vars
    PROVE  Shrinks
<1>1. TypeOK /\ \A p \in Procs : FileJob(p)
  BY DEF TearInv
<1>2. CASE UNCHANGED <<media, res, link>>
  BY <1>2 DEF Shrinks
<1>3. ASSUME NEW p \in Procs, Detach(p) PROVE Shrinks
  BY <1>3 DEF Detach, Shrinks
<1>4. ASSUME NEW p \in Procs, SaveMedia(p) PROVE Shrinks
  BY <1>1, <1>4 DEF SaveMedia, Shrinks, TypeOK
<1>5. ASSUME NEW p \in Procs, Commit(p) PROVE Shrinks
  <2> DEFINE ok == \A l \in link : l[1] \in job[p].rows => l \in job[p].cut
  <2>1. CASE ~ok
    BY <1>5, <2>1 DEF Commit, Shrinks
  <2>2. CASE ok
    <3>1. /\ link' = link \ job[p].cut
          /\ res' = [r \in Rids |-> IF r \in job[p].rows THEN Deleted ELSE res[r]]
          /\ media' = media \/ media' = [media EXCEPT ![job[p].media] = "pruned"]
      BY <1>5, <2>2 DEF Commit
    <3>2. \A l \in link' : l[1] \notin job[p].rows
      BY <2>2, <3>1
    <3>3. QED
      BY <1>1, <3>1, <3>2 DEF Shrinks, TypeOK
  <2>3. QED
    BY <2>1, <2>2
<1>6. ASSUME NEW p \in Procs PROVE ~LinkNew(p) /\ ~LinkFound(p) /\ ~Clone(p)
  BY <1>1 DEF FileJob, LinkNew, LinkFound, Clone, OnlyTearDown, TearDownOps
<1>7. QED
  BY <1>2, <1>3, <1>4, <1>5, <1>6
     DEF Next, vars, Upload, Request, Continue, Victim, Abort, PostFile, PatchFile, DeleteFile,
         ReadMedia, PruneMedia, FindRow, Count, Cascade, Remove, Attach

\* Only Remove takes something out of the store, and only a file that no undeleted
\* media uses.
LEMMA FilesStay ==
    ASSUME OnlyTearDown, TearInv, [Next]_vars
    PROVE  AttachedIsStored'
<1>1. /\ TypeOK /\ AttachedIsStored /\ Shrinks
      /\ \A p \in Procs : FileJob(p)
  BY TablesShrink DEF TearInv
<1> SUFFICES ASSUME NEW m \in Media, media'[m] = "live", NEW l \in link', l[2] = m
             PROVE  res'[l[1]] \in stored'
  BY DEF AttachedIsStored, UsedBy
<1>2. l \in link /\ l[1] \in Rids /\ res'[l[1]] = res[l[1]] /\ media[m] = "live"
  BY <1>1 DEF Shrinks, TypeOK, Links
<1>3. res[l[1]] \in stored
  BY <1>1, <1>2 DEF AttachedIsStored, UsedBy
<1>4. ASSUME NEW p \in Procs, Remove(p) PROVE res[l[1]] \in stored'
  <2>1. /\ stored' = stored \ {job[p].path}
        /\ job[p].stage = "remove"
    BY <1>4 DEF Remove, At
  <2>2. l[1] # job[p].rid
    BY <1>1, <1>2, <2>1 DEF FileJob
  <2>3. res[l[1]] # job[p].path
    BY <1>1, <1>2, <2>1, <2>2 DEF FileJob, RowStages
  <2>4. QED
    BY <1>3, <2>1, <2>3
<1>5. CASE UNCHANGED stored
  BY <1>2, <1>3, <1>5
<1>6. CASE Upload
  BY <1>2, <1>3, <1>6 DEF Upload
<1>7. QED
  BY <1>2, <1>4, <1>5, <1>6
     DEF Next, vars, Request, Continue, Victim, Abort, PostFile, PatchFile, DeleteFile, Clone,
         ReadMedia, PruneMedia, SaveMedia, Detach, FindRow, Count, Cascade, Commit, Attach,
         LinkNew, LinkFound

LEMMA PathsStayUnique ==
    ASSUME OneRowPerPath, Shrinks
    PROVE  OneRowPerPath'
  BY ResourcesConstants DEF OneRowPerPath, Shrinks

\* A request that starts: it tears down, so it is one of three.
LEMMA RequestKnown ==
    ASSUME OnlyTearDown, TearInv, NEW p \in Procs, Request(p)
    PROVE  FileJob(p)'
<1>1. TypeOK
  BY DEF TearInv
<1>2. ~PostFile(p) /\ ~PatchFile(p) /\ ~Clone(p)
  BY DEF PostFile, PatchFile, Clone, OnlyTearDown, TearDownOps
<1>3. CASE DeleteFile(p) \/ ReadMedia(p)
  <2>1. \E stage \in {"detach", "save"} : \E op, m, old, drop : Start(p, stage, op, m, old, drop, {})
    BY <1>3 DEF DeleteFile, ReadMedia
  <2>2. job'[p].stage \in {"detach", "save"} /\ job'[p].add = {} /\ job'[p].cut = {}
    BY <1>1, <2>1 DEF Start, TypeOK
  <2>3. QED
    BY <2>2 DEF FileJob, At, RowStages
<1>4. CASE PruneMedia(p)
  <2>1. PICK m \in Media :
          /\ media[m] = "hidden" /\ media' = media
          /\ job'[p] = [stage |-> "find", op |-> "Prune", media |-> m, old |-> {},
                        drop |-> PathsIn(files[m]), add |-> {}, path |-> Unused,
                        rid |-> NoRid, cut |-> {l \in link : l[2] = m}, rows |-> {}]
    BY <1>1, <1>4 DEF PruneMedia, TypeOK
  <2>2. job'[p].stage = "find" /\ job'[p].add = {} /\ job'[p].cut = {l \in link : l[2] = m}
    BY <2>1
  <2>3. QED
    BY <2>1, <2>2 DEF FileJob, At, RowStages
<1>5. QED
  BY <1>2, <1>3, <1>4 DEF Request

\* A request that goes on with nothing to attach.
LEMMA ProceedKnown ==
    ASSUME NEW j \in Job, j.add = {}
    PROVE  /\ Proceed(j).stage \in {"idle", "find"}
           /\ Proceed(j).cut \in {{}, j.cut}
           /\ Proceed(j).stage # "idle" => Proceed(j).add = {}
  BY DEF Proceed, Idle, Job

\* A request at a stage that has no row at hand.
LEMMA NoRowAtHand ==
    ASSUME Shrinks, NEW p \in Procs, FileJob(p), TypeOK,
           job'[p].stage \in {"idle", "find", "commit"},
           job'[p].stage # "idle" => job'[p].add = {},
           \A l \in job'[p].cut : l \in Links /\ media[l[2]] # "live"
    PROVE  FileJob(p)'
<1>1. \A l \in job'[p].cut : media'[l[2]] # "live"
  BY DEF Shrinks, Links
<1>2. QED
  BY <1>1 DEF FileJob, At, RowStages

LEMMA ContinueKnown ==
    ASSUME OnlyTearDown, TearInv, [Next]_vars, NEW p \in Procs, Continue(p)
    PROVE  FileJob(p)'
<1>1. /\ TypeOK /\ OneRowPerPath /\ FileJob(p) /\ Shrinks
  BY TablesShrink DEF TearInv
<1>2. /\ ~Attach(p) /\ ~LinkNew(p) /\ ~LinkFound(p)
  BY <1>1 DEF FileJob, Attach, LinkNew, LinkFound
<1>3. \A l \in job[p].cut : l \in Links /\ media[l[2]] # "live"
  BY <1>1 DEF FileJob, TypeOK, Idle, Job
<1>4. CASE SaveMedia(p)
  BY <1>1, <1>4, NoRowAtHand DEF SaveMedia, Finish, Idle, TypeOK
<1>5. CASE Detach(p)
  <2>1. job[p] \in Job /\ job'[p] = [job[p] EXCEPT !.stage = "find"] /\ job[p].add = {}
    BY <1>1, <1>5, JobFields DEF Detach, TypeOK, At, FileJob
  <2>2. job'[p].stage = "find" /\ job'[p].add = {} /\ job'[p].cut = job[p].cut
    BY <2>1 DEF Job
  <2>3. QED
    BY <1>1, <1>3, <2>2, NoRowAtHand
<1>6. CASE FindRow(p)
  <2>1. job[p] \in Job /\ job[p].add = {}
    BY <1>1, <1>6, JobFields DEF FindRow, At, FileJob
  <2>2. PICK a \in job[p].drop :
          \/ job'[p] = Proceed([job[p] EXCEPT !.drop = @ \ {a}])
          \/ \E r \in RowsOf(p, a) :
                job'[p] = [[job[p] EXCEPT !.drop = @ \ {a}]
                             EXCEPT !.stage = "count", !.path = a, !.rid = r]
    BY <1>1, <1>6 DEF FindRow, TypeOK
  <2> DEFINE j == [job[p] EXCEPT !.drop = @ \ {a}]
  <2>3. j \in Job /\ j.add = {} /\ j.cut = job[p].cut /\ a \in Paths
    BY <2>1 DEF Job
  <2> HIDE DEF j
  <2>4. CASE job'[p] = Proceed(j)
    <3>1. /\ job'[p].stage \in {"idle", "find"}
          /\ job'[p].cut \in {{}, job[p].cut}
          /\ job'[p].stage # "idle" => job'[p].add = {}
      BY <2>3, <2>4, ProceedKnown
    <3>2. QED
      BY <1>1, <1>3, <3>1, NoRowAtHand
  <2>5. ASSUME NEW r \in RowsOf(p, a),
               job'[p] = [j EXCEPT !.stage = "count", !.path = a, !.rid = r]
        PROVE  FileJob(p)'
    <3>1. /\ job'[p].stage = "count" /\ job'[p].path = a /\ job'[p].rid = r
          /\ job'[p].add = {} /\ job'[p].cut = job[p].cut
      BY <2>3, <2>5 DEF Job
    <3>2. \A s \in Rids : res[s] = a => s = r
      BY <1>1, <2>3 DEF RowsOf, OneRowPerPath
    <3>3. res' = res /\ media' = media
      BY <1>6 DEF FindRow
    <3>4. QED
      BY <1>3, <3>1, <3>2, <3>3 DEF FileJob, At, RowStages
  <2>6. QED
    BY <2>2, <2>4, <2>5 DEF j
<1>7. CASE Count(p)
  <2>1. job[p] \in Job /\ job[p].add = {}
    BY <1>1, <1>7, JobFields DEF Count, At, FileJob
  <2>2. CASE Users(p) # {}
    <3>1. job'[p] = Proceed(job[p])
      BY <1>1, <1>7, <2>2 DEF Count, TypeOK
    <3>2. /\ job'[p].stage \in {"idle", "find"}
          /\ job'[p].cut \in {{}, job[p].cut}
          /\ job'[p].stage # "idle" => job'[p].add = {}
      BY <2>1, <3>1, ProceedKnown
    <3>3. QED
      BY <1>1, <1>3, <3>2, NoRowAtHand
  <2>3. CASE Users(p) = {}
    <3>1. job'[p] = [job[p] EXCEPT !.stage = "cascade"]
      BY <1>1, <1>7, <2>3 DEF Count, TypeOK
    <3>2. /\ job'[p].stage = "cascade" /\ job'[p].path = job[p].path
          /\ job'[p].rid = job[p].rid
          /\ job'[p].add = {} /\ job'[p].cut = job[p].cut
      BY <2>1, <3>1 DEF Job
    <3>3. \A l \in link : l[1] = job[p].rid => l \in job[p].cut
      BY <2>3 DEF Users
    <3>4. \A s \in Rids : res[s] = job[p].path => s = job[p].rid
      BY <1>1, <1>7 DEF FileJob, Count, At, RowStages
    <3>5. res' = res /\ media' = media /\ link' = link
      BY <1>7 DEF Count
    <3>6. QED
      BY <1>3, <3>2, <3>3, <3>4, <3>5 DEF FileJob, At, RowStages
  <2>4. QED
    BY <2>2, <2>3
<1>8. CASE Cascade(p)
  <2>1. job[p] \in Job /\ job[p].add = {}
    BY <1>1, <1>8, JobFields DEF Cascade, At, FileJob
  <2>2. job'[p] = [job[p] EXCEPT !.stage = "remove", !.cut = @ \cup Users(p)]
    BY <1>1, <1>8, <2>1 DEF Cascade, TypeOK, Job
  <2>3. /\ job'[p].stage = "remove" /\ job'[p].path = job[p].path
        /\ job'[p].rid = job[p].rid
        /\ job'[p].add = {} /\ job'[p].cut = job[p].cut \cup Users(p)
    BY <2>1, <2>2 DEF Job
  <2>4. /\ \A s \in Rids : res[s] = job[p].path => s = job[p].rid
        /\ \A l \in link : l[1] = job[p].rid => media[l[2]] # "live"
    BY <1>1, <1>8 DEF FileJob, Cascade, At, RowStages
  <2>5. \A l \in Users(p) : media[l[2]] # "live"
    BY <2>4 DEF Users
  <2>6. res' = res /\ media' = media /\ link' = link
    BY <1>8 DEF Cascade
  <2>7. QED
    BY <1>3, <2>3, <2>4, <2>5, <2>6 DEF FileJob, At, RowStages
<1>9. CASE Remove(p)
  <2>1. job[p] \in Job /\ job[p].add = {}
    BY <1>1, <1>9, JobFields DEF Remove, At, FileJob
  <2>2. /\ job'[p].stage \in {"find", "commit"}
        /\ job'[p].add = {} /\ job'[p].cut = job[p].cut
    BY <1>1, <1>9, <2>1 DEF Remove, TypeOK, Job
  <2>3. QED
    BY <1>1, <1>3, <2>2, NoRowAtHand
<1>10. CASE Commit(p)
  <2>1. job[p] \in Job /\ job[p].add = {}
    BY <1>1, <1>10, JobFields DEF Commit, At, FileJob
  <2> DEFINE j == [job[p] EXCEPT !.cut = {}, !.rows = {}]
  <2>2. j \in Job /\ j.add = {} /\ j.cut = {}
    BY <2>1 DEF Job
  <2>3. job'[p] = Idle \/ job'[p] = Proceed(j)
    BY <1>1, <1>10 DEF Commit, TypeOK
  <2> HIDE DEF j
  <2>4. /\ job'[p].stage \in {"idle", "find"}
        /\ job'[p].cut = {}
        /\ job'[p].stage # "idle" => job'[p].add = {}
    BY <2>2, <2>3, ProceedKnown DEF Idle
  <2>5. QED
    BY <1>1, <2>4, NoRowAtHand
<1>11. QED
  BY <1>2, <1>4, <1>5, <1>6, <1>7, <1>8, <1>9, <1>10 DEF Continue

LEMMA VictimGoesOn ==
    ASSUME TypeOK, Shrinks, NEW p \in Procs, FileJob(p), Victim(p)
    PROVE  FileJob(p)'
<1>1. job[p] \in Job /\ job[p].add = {}
  BY VictimKnown DEF FileJob, At
<1> DEFINE j == [job[p] EXCEPT !.cut = BeforeSavepoint(job[p])]
<1>2. BeforeSavepoint(job[p]) \in SUBSET job[p].cut
  BY DEF BeforeSavepoint
<1>3. j \in Job /\ j.add = {} /\ j.cut \in SUBSET job[p].cut
  BY <1>1, <1>2 DEF Job
<1>4. job'[p] = Proceed(j)
  BY DEF Victim, TypeOK
<1> HIDE DEF j
<1>5. /\ job'[p].stage \in {"idle", "find"}
      /\ job'[p].cut \in {{}, j.cut}
      /\ job'[p].stage # "idle" => job'[p].add = {}
  BY <1>3, <1>4, ProceedKnown
<1>6. \A l \in job[p].cut : l \in Links /\ media[l[2]] # "live"
  BY <1>1 DEF FileJob, Job
<1>7. QED
  BY <1>3, <1>5, <1>6, NoRowAtHand

\* What another request knows survives, because the tables only shrink.
LEMMA OthersKnown ==
    ASSUME TypeOK, Shrinks, NEW q \in Procs, FileJob(q), job'[q] = job[q]
    PROVE  FileJob(q)'
<1>1. \A l \in job[q].cut : l[2] \in Media
  BY DEF TypeOK, Idle, Job, Links
<1>2. \A l \in job[q].cut : media'[l[2]] # "live"
  BY <1>1 DEF FileJob, Shrinks
<1>3. job[q].stage \in RowStages => \A r \in Rids : res'[r] = job[q].path => r = job[q].rid
  <2> SUFFICES ASSUME job[q].stage \in RowStages, NEW r \in Rids, res'[r] = job[q].path
               PROVE  r = job[q].rid
    OBVIOUS
  <2>1. job[q].path # Deleted
    BY ResourcesConstants DEF TypeOK, Job, Idle, RowStages
  <2>2. QED
    BY <2>1 DEF Shrinks, FileJob
<1>4. job[q].stage \in {"cascade", "remove"} =>
         \A l \in link' : l[1] = job[q].rid => media'[l[2]] # "live"
  BY DEF FileJob, Shrinks, TypeOK, Links
<1>5. QED
  BY <1>2, <1>3, <1>4 DEF FileJob, At

LEMMA InitTear == Init => TearInv
<1> SUFFICES ASSUME Init PROVE TearInv
  OBVIOUS
<1>1. TypeOK
  BY InitTyped
<1>2. AttachedIsStored
  BY ResourcesConstants DEF Init, AttachedIsStored, UsedBy, Links, PathsIn, Entries
<1>3. OneRowPerPath
  BY ResourcesConstants DEF Init, OneRowPerPath
<1>4. \A p \in Procs : FileJob(p)
  BY DEF Init, FileJob, At, Idle, RowStages
<1>5. QED
  BY <1>1, <1>2, <1>3, <1>4 DEF TearInv

\* For any number of media that share any files, and any number of requests and
\* prune commands that tear them down, each of which may die anywhere: a file stays
\* in the store as long as a media that is not deleted is attached to it.
THEOREM TearDownIsSafe ==
    ASSUME OnlyTearDown
    PROVE  Spec => []AttachedIsStored
<1>1. TearInv /\ [Next]_vars => TearInv'
  <2> SUFFICES ASSUME TearInv, [Next]_vars PROVE TearInv'
    OBVIOUS
  <2>1. TypeOK /\ Shrinks
    BY TablesShrink DEF TearInv
  <2>2. TypeOK' /\ AttachedIsStored' /\ OneRowPerPath'
    BY <2>1, NextTyped, FilesStay, PathsStayUnique DEF TearInv
  <2>3. ASSUME NEW q \in Procs PROVE FileJob(q)'
    <3>1. CASE job'[q] = job[q]
      BY <2>1, <3>1, OthersKnown DEF TearInv
    <3>2. CASE Abort(q)
      BY <2>1, <3>2, NoRowAtHand DEF Abort, Finish, Idle, TypeOK, TearInv
    <3>3. CASE Victim(q)
      BY <2>1, <3>3, VictimGoesOn DEF TearInv
    <3>4. QED
      BY <2>1, <3>1, <3>2, <3>3, StepsAlone, RequestKnown, ContinueKnown
  <2>4. QED
    BY <2>2, <2>3 DEF TearInv
<1>2. TearInv => AttachedIsStored
  BY DEF TearInv
<1>3. QED
  BY <1>1, <1>2, InitTear, PTL DEF Spec
=============================================================================
