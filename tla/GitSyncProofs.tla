--------------------------- MODULE GitSyncProofs ----------------------------
(***************************************************************************)
(* For any number of processes, directories, remotes, branches, files and  *)
(* commits: overlapping syncs of a directory leave the files of one commit *)
(* if all of them report success, and a sync that meets no other one       *)
(* brings what the server sent.  At the end, a sync that nothing disturbs, *)
(* step by step.                                                           *)
(*                                                                         *)
(* A process is a writer from the look at its branch until it moves it.    *)
(* The argument for the first is that a writer that finds its branch where *)
(* it was has been the only one since, or has company that will not: the   *)
(* others then find it moved and fail.                                     *)
(***************************************************************************)
EXTENDS GitSync, TLAPS

-----------------------------------------------------------------------------
(***************************************************************************)
(* Types.                                                                  *)
(***************************************************************************)
\* A branch is created before any file is written.
TypeInv ==
  /\ TypeOK
  /\ \A p \in Pid : pc[p] = "create" => job[p].left # {}

\* What a step of p leaves alone.
LEMMA StepIsLocal ==
  ASSUME NEW p \in Pid, TypeOK, GitStep(p) \/ GitFails(p)
  PROVE  /\ pc[p] # "idle" /\ job[p] \in Job /\ job[p].dir \in Dir
         /\ \A q \in Pid \ {p} : pc'[q] = pc[q] /\ job'[q] = job[q] /\ result'[q] = result[q]
         /\ \A d \in Dir \ {job[p].dir} : git'[d] = git[d]
         /\ past \subseteq past'
         /\ \A d \in Dir \ {job[p].dir}, m \in Mishap : <<d, m>> \in past' => <<d, m>> \in past
<1> USE DEF Goto, Fail, Return, MoveBranch, At, Here, There
<1>1. pc[p] # "idle" /\ job[p] \in Job /\ job[p].dir \in Dir
  BY DEF GitStep, GitFails, OpenRepository, Fetch, LookupTrackingRef, LookupBranch, CreateBranch,
         CheckoutFile, SetTarget, SetHead, TypeOK, Steps, Job
<1>2. \A q \in Pid \ {p} : pc'[q] = pc[q] /\ job'[q] = job[q] /\ result'[q] = result[q]
  BY DEF GitStep, GitFails, OpenRepository, Fetch, LookupTrackingRef, LookupBranch, CreateBranch,
         CheckoutFile, SetTarget, SetHead, TypeOK
<1>3. \A d \in Dir \ {job[p].dir} : git'[d] = git[d]
  BY DEF GitStep, GitFails, OpenRepository, Fetch, LookupTrackingRef, LookupBranch, CreateBranch,
         CheckoutFile, SetTarget, SetHead, TypeOK
<1>4. /\ past \subseteq past'
      /\ \A d \in Dir \ {job[p].dir}, m \in Mishap : <<d, m>> \in past' => <<d, m>> \in past
  <2>1. CASE past' = past
    BY <2>1
  <2>2. CASE past' = past \cup {<<job[p].dir, "failed">>}
    BY <2>2
  <2>3. CASE past' = past \cup {<<job[p].dir, m>> : m \in {x \in {"back"} : ComesBack(p)}}
    BY <2>3
  <2> QED
    BY <2>1, <2>2, <2>3
    DEF GitStep, GitFails, OpenRepository, Fetch, LookupTrackingRef, LookupBranch, CreateBranch,
        CheckoutFile, SetTarget, SetHead
<1> QED BY <1>1, <1>2, <1>3, <1>4

\* Every field of a job and of a repository stays what it is.
LEMMA StepKeepsTypes ==
  ASSUME NEW p \in Pid, TypeInv, GitStep(p) \/ GitFails(p)
  PROVE  TypeInv'
<1> USE DEF At, Here, There
<1> DEFINE j == job[p]
           g == git[job[p].dir]
<1>1. /\ j \in Job /\ j.dir \in Dir /\ j.url \in Url /\ j.branch \in Branch
      /\ j.tip \in Version /\ j.old \in Version /\ j.left \subseteq File
      /\ g \in Repository
      /\ g.heads \in [Branch -> Version] /\ g.tracking \in [Branch -> Version]
      /\ g.files \in [File -> Version] /\ g.head \in Branch \cup {None}
  BY StepIsLocal DEF TypeInv, TypeOK, Job, Repository
<1>2. ASSUME remote' \in [Url -> [Branch -> Version]], git' \in [Dir -> Repository],
             job' \in [Pid -> Job \cup {None}], pc' \in [Pid -> Steps \cup {"idle"}],
             result' \in [Pid -> {"none", "ok", "error"}], past' \subseteq Dir \X Mishap,
             pc'[p] # "idle" => job'[p] \in Job,
             pc'[p] \in {"branch", "create", "checkout", "target", "head"} => job'[p].tip # 0,
             pc'[p] \in {"create", "checkout"} => job'[p].left # {}
      PROVE  TypeInv'
  BY <1>2, StepIsLocal DEF TypeInv, TypeOK
<1>3. ASSUME Fail(p)
      PROVE  TypeInv'
  <2>1. past' \subseteq Dir \X Mishap
    BY <1>1, <1>3 DEF Fail, Return, TypeInv, TypeOK, Mishap
  <2> QED BY <1>2, <1>3, <2>1 DEF Fail, Return, TypeInv, TypeOK
<1>4. ASSUME NEW step \in Steps, Goto(p, step)
      PROVE  /\ pc' \in [Pid -> Steps \cup {"idle"}] /\ pc'[p] = step
             /\ result' \in [Pid -> {"none", "ok", "error"}] /\ past' \subseteq Dir \X Mishap
  BY <1>4 DEF Goto, TypeInv, TypeOK
<1>5. Commit \subseteq Version /\ 0 \in Version /\ \A c \in Version \ {0} : c \in Commit
  BY CommitAssumption DEF Commit, Version
<1>6. CASE OpenRepository(p)
  <2>1. Blank("repo") \in Repository
    BY <1>5 DEF Blank, Repository
  <2>2. CASE Fail(p)
    BY <2>2, <1>3
  <2>3. CASE g.is = "empty"
    BY <2>1, <2>3, <1>1, <1>2, <1>4, <1>6 DEF OpenRepository, TypeInv, TypeOK, Steps
  <2>4. CASE g.is = "repo"
    BY <2>4, <1>1, <1>2, <1>4, <1>6 DEF OpenRepository, TypeInv, TypeOK, Steps
  <2> QED BY <2>2, <2>3, <2>4, <1>6 DEF OpenRepository
<1>7. CASE Fetch(p)
  <2> DEFINE sent == remote[j.url][j.branch]
  <2>1. sent \in Version /\ Fetched(g.tracking[j.branch], sent) \in Version
    BY <1>1 DEF Fetched, TypeInv, TypeOK
  <2>2. [g EXCEPT !.tracking[j.branch] = Fetched(@, sent)] \in Repository
    BY <2>1, <1>1 DEF Repository
  <2>3. [j EXCEPT !.seen = sent] \in Job
    BY <2>1, <1>1 DEF Job
  <2>4. git' \in [Dir -> Repository]
    BY <2>2, <1>1, <1>7 DEF Fetch, TypeInv, TypeOK
  <2>5. job' \in [Pid -> Job \cup {None}] /\ job'[p] \in Job
    BY <2>3, <1>7 DEF Fetch, TypeInv, TypeOK
  <2> QED BY <2>4, <2>5, <1>2, <1>4, <1>7 DEF Fetch, TypeInv, TypeOK, Steps
<1>8. CASE LookupTrackingRef(p)
  <2>1. CASE Fail(p)
    BY <2>1, <1>3
  <2>2. CASE ~Fail(p)
    <3> DEFINE tip == g.tracking[j.branch]
    <3>1. tip \in Version /\ tip # 0 /\ job' = [job EXCEPT ![p].tip = tip]
          /\ Goto(p, "branch") /\ UNCHANGED <<remote, git>>
      BY <2>2, <1>1, <1>8 DEF LookupTrackingRef
    <3>2. [j EXCEPT !.tip = tip] \in Job /\ [j EXCEPT !.tip = tip].tip = tip
      BY <3>1, <1>1 DEF Job
    <3>3. job' \in [Pid -> Job \cup {None}] /\ job'[p] \in Job /\ job'[p].tip # 0
      BY <3>1, <3>2 DEF TypeInv, TypeOK
    <3> QED BY <3>1, <3>3, <1>2, <1>4 DEF TypeInv, TypeOK, Steps
  <2> QED BY <2>1, <2>2
<1>9. CASE LookupBranch(p)
  <2> DEFINE old == g.heads[j.branch]
  <2>1. old \in Version
    BY <1>1
  <2>2. [j EXCEPT !.old = old, !.left = File] \in Job
        /\ [j EXCEPT !.old = old, !.left = File].tip = j.tip
        /\ [j EXCEPT !.old = old, !.left = File].left = File
    BY <2>1, <1>1 DEF Job
  <2>3. job' \in [Pid -> Job \cup {None}] /\ job'[p] \in Job /\ job'[p].tip = j.tip
        /\ job'[p].left = File
    BY <2>2, <1>9 DEF LookupBranch, TypeInv, TypeOK
  <2>4. j.tip # 0
    BY <1>9 DEF LookupBranch, TypeInv, TypeOK
  <2>5. \E step \in {"head", "create", "checkout"} : Goto(p, step)
    BY <1>9 DEF LookupBranch
  <2> QED
    BY <2>3, <2>4, <2>5, <1>2, <1>4, <1>9, FileAssumption DEF LookupBranch, TypeInv, TypeOK, Steps
<1>10. CASE CreateBranch(p)
  <2>1. CASE Fail(p)
    BY <2>1, <1>3
  <2>2. CASE ~Fail(p)
    <3>1. /\ git' = [git EXCEPT ![j.dir].heads[j.branch] = j.tip]
          /\ job' = [job EXCEPT ![p].old = j.tip]
          /\ Goto(p, "checkout") /\ UNCHANGED remote /\ j.tip # 0 /\ j.left # {}
      BY <2>2, <1>10 DEF CreateBranch, TypeInv, TypeOK
    <3>2. [j EXCEPT !.old = j.tip] \in Job /\ [j EXCEPT !.old = j.tip].tip = j.tip
          /\ [j EXCEPT !.old = j.tip].left = j.left
      BY <1>1 DEF Job
    <3>3. [g EXCEPT !.heads[j.branch] = j.tip] \in Repository
      BY <1>1 DEF Repository
    <3>4. job' \in [Pid -> Job \cup {None}] /\ job'[p] \in Job /\ job'[p].tip # 0
          /\ job'[p].left # {}
      BY <3>1, <3>2 DEF TypeInv, TypeOK
    <3>5. git' \in [Dir -> Repository]
      BY <3>1, <3>3, <1>1 DEF TypeInv, TypeOK
    <3> QED BY <3>1, <3>4, <3>5, <1>2, <1>4 DEF TypeInv, TypeOK, Steps
  <2> QED BY <2>1, <2>2
<1>11. CASE CheckoutFile(p)
  <2>1. PICK f \in j.left :
          /\ git' = [git EXCEPT ![j.dir].files[f] = j.tip]
          /\ job' = [job EXCEPT ![p].left = @ \ {f}]
          /\ Goto(p, IF j.left = {f} THEN "target" ELSE "checkout")
    BY <1>11 DEF CheckoutFile
  <2>2. j.tip # 0 /\ UNCHANGED remote
    BY <1>11 DEF CheckoutFile, TypeInv, TypeOK
  <2>3. [j EXCEPT !.left = @ \ {f}] \in Job /\ [j EXCEPT !.left = @ \ {f}].tip = j.tip
        /\ [j EXCEPT !.left = @ \ {f}].left = j.left \ {f}
    BY <1>1 DEF Job
  <2>4. [g EXCEPT !.files[f] = j.tip] \in Repository
    BY <1>1, <2>1 DEF Repository
  <2>5. job' \in [Pid -> Job \cup {None}] /\ job'[p] \in Job /\ job'[p].tip # 0
        /\ job'[p].left = j.left \ {f}
    BY <2>1, <2>2, <2>3 DEF TypeInv, TypeOK
  <2>6. git' \in [Dir -> Repository]
    BY <2>1, <2>4, <1>1 DEF TypeInv, TypeOK
  <2>7. /\ pc' \in [Pid -> Steps \cup {"idle"}]
        /\ pc'[p] = IF j.left = {f} THEN "target" ELSE "checkout"
        /\ result' \in [Pid -> {"none", "ok", "error"}] /\ past' \subseteq Dir \X Mishap
    BY <2>1, <1>4 DEF Steps
  <2> QED BY <2>2, <2>5, <2>6, <2>7, <1>2 DEF TypeInv, TypeOK
<1>12. CASE SetTarget(p)
  <2>1. CASE Fail(p)
    BY <2>1, <1>3
  <2>2. CASE MoveBranch(p)
    <3>1. [g EXCEPT !.heads[j.branch] = j.tip] \in Repository
      BY <1>1 DEF Repository
    <3>2. git' \in [Dir -> Repository]
      BY <2>2, <3>1, <1>1 DEF MoveBranch, TypeInv, TypeOK
    <3>3. past' \subseteq Dir \X Mishap
      BY <2>2, <1>1 DEF MoveBranch, TypeInv, TypeOK, Mishap
    <3> QED BY <2>2, <3>2, <3>3, <1>1, <1>2, <1>12 DEF SetTarget, MoveBranch, TypeInv, TypeOK, Steps
  <2> QED BY <2>1, <2>2, <1>12 DEF SetTarget
<1>13. CASE SetHead(p)
  <2>1. [g EXCEPT !.head = j.branch] \in Repository
    BY <1>1 DEF Repository
  <2>2. git' \in [Dir -> Repository]
    BY <2>1, <1>1, <1>13 DEF SetHead, TypeInv, TypeOK
  <2> QED BY <2>2, <1>2, <1>13 DEF SetHead, Return, TypeInv, TypeOK
<1> QED
  BY <1>3, <1>6, <1>7, <1>8, <1>9, <1>10, <1>11, <1>12, <1>13 DEF GitStep, GitFails

\* What the start of a sync leaves alone, and the job it begins with.
LEMMA StartIsLocal ==
  ASSUME NEW p \in Pid, NEW e \in Dir, NEW u \in Url, NEW b \in Branch,
         TypeOK, SyncStart(p, e, u, b)
  PROVE  /\ \A q \in Pid \ {p} : pc'[q] = pc[q] /\ job'[q] = job[q]
         /\ pc[p] = "idle" /\ pc'[p] = "open" /\ job'[p] \in Job
         /\ job'[p].dir = e /\ job'[p].branch = b
         /\ git' = git /\ past \subseteq past'
         /\ \A d \in Dir \ {e}, m \in Mishap : <<d, m>> \in past' => <<d, m>> \in past
         /\ past' \subseteq Dir \X Mishap
         /\ (\E q \in Pid : pc[q] # "idle" /\ job[q].dir = e) => <<e, "overlap">> \in past'
         /\ git[e].head # b => <<e, "switched">> \in past'
<1> DEFINE new == [dir |-> e, url |-> u, branch |-> b, seen |-> 0, tip |-> 0, old |-> 0, left |-> {}]
           busy == \E q \in Pid : pc[q] # "idle" /\ job[q].dir = e
           mishaps == {x \in {"overlap"} : busy} \cup {x \in {"switched"} : git[e].head # b}
<1>1. 0 \in Version
  BY CommitAssumption DEF Version
<1>2. new \in Job
  BY <1>1 DEF Job
<1>3. /\ pc[p] = "idle" /\ pc' = [pc EXCEPT ![p] = "open"] /\ job' = [job EXCEPT ![p] = new]
      /\ past' = past \cup {<<e, m>> : m \in mishaps} /\ UNCHANGED <<remote, git, result>>
  BY DEF SyncStart, At
<1>4. /\ \A q \in Pid \ {p} : pc'[q] = pc[q] /\ job'[q] = job[q]
      /\ pc'[p] = "open" /\ job'[p] = new
  BY <1>3 DEF TypeOK
<1>5. mishaps \subseteq Mishap
  BY DEF Mishap
<1>6. past' \subseteq Dir \X Mishap /\ past \subseteq past'
  BY <1>3, <1>5 DEF TypeOK
<1>7. \A d \in Dir \ {e}, m \in Mishap : <<d, m>> \in past' => <<d, m>> \in past
  BY <1>3
<1>8. busy => <<e, "overlap">> \in past'
  BY <1>3
<1>9. git[e].head # b => <<e, "switched">> \in past'
  BY <1>3
<1> QED BY <1>2, <1>3, <1>4, <1>6, <1>7, <1>8, <1>9

LEMMA InitTypes == Init => TypeInv
<1> SUFFICES ASSUME Init
             PROVE  TypeInv
  OBVIOUS
<1>1. 0 \in Version /\ Commit \subseteq Version
  BY CommitAssumption DEF Commit, Version
<1>2. Blank("empty") \in Repository /\ Blank("repo") \in Repository
  BY <1>1 DEF Blank, Repository
<1>3. \A b \in Branch, c \in Version : Clone(b, c) \in Repository
  BY <1>1 DEF Clone, Blank, Repository
<1>4. git \in [Dir -> Repository]
  <2>1. PICK u \in Url, b \in Branch :
          git \in [Dir -> {Blank("empty"), Blank("repo")}
                       \cup (IF remote[u][b] = 0 THEN {} ELSE {Clone(b, remote[u][b])})]
    BY DEF Init
  <2>2. Clone(b, remote[u][b]) \in Repository
    BY <1>3 DEF Init
  <2> QED BY <2>1, <2>2, <1>2
<1> QED BY <1>4 DEF Init, TypeInv, TypeOK, Steps

LEMMA NextTypes == TypeInv /\ [Next]_vars => TypeInv'
<1> SUFFICES ASSUME TypeInv, [Next]_vars
             PROVE  TypeInv'
  OBVIOUS
<1>1. CASE UNCHANGED vars
  BY <1>1 DEF vars, TypeInv, TypeOK
<1>2. ASSUME NEW p \in Pid, GitStep(p) \/ GitFails(p)
      PROVE  TypeInv'
  BY <1>2, StepKeepsTypes
<1>3. ASSUME NEW p \in Pid, NEW d \in Dir, NEW u \in Url, NEW b \in Branch, SyncStart(p, d, u, b)
      PROVE  TypeInv'
  <2>1. TypeOK
    BY DEF TypeInv
  <2>2. job' \in [Pid -> Job \cup {None}] /\ pc' \in [Pid -> Steps \cup {"idle"}]
    BY <2>1, <1>3, StartIsLocal DEF SyncStart, TypeOK, Steps
  <2>3. remote' = remote /\ git' = git /\ result' = result
    BY <1>3 DEF SyncStart
  <2>4. past' \subseteq Dir \X Mishap /\ pc'[p] = "open" /\ job'[p] \in Job
        /\ \A q \in Pid \ {p} : pc'[q] = pc[q] /\ job'[q] = job[q]
    BY <2>1, <1>3, StartIsLocal
  <2> QED BY <2>2, <2>3, <2>4 DEF TypeInv, TypeOK
<1>4. ASSUME NEW u \in Url, NEW b \in Branch, NEW c \in Commit, Push(u, b, c)
      PROVE  TypeInv'
  <2>1. c \in Version
    BY CommitAssumption DEF Commit, Version
  <2> QED BY <2>1, <1>4 DEF Push, TypeInv, TypeOK
<1> QED BY <1>1, <1>2, <1>3, <1>4 DEF Next

\* Every variable is of its type; a process that needs a commit has one.
THEOREM TypeCorrect == Spec => []TypeOK
<1>1. TypeInv => TypeOK
  BY DEF TypeInv
<1> QED BY <1>1, InitTypes, NextTypes, PTL DEF Spec

-----------------------------------------------------------------------------
(***************************************************************************)
(* Overlapping syncs.  Every conjunct speaks of one directory.             *)
(***************************************************************************)
Active(d)  == {p \in Pid : pc[p] # "idle" /\ job[p].dir = d}
Writers(d) == {p \in Pid : pc[p] \in {"checkout", "target"} /\ job[p].dir = d}

\* The commit of the branch that HEAD names.
Top(d) == git[d].heads[git[d].head]

FilesAre(d, c) == \A f \in File : git[d].files[f] = c

\* The files that p has written are still as p wrote them.
Done(p) == \A f \in File \ job[p].left : git[job[p].dir].files[f] = job[p].tip

\* The syncs of a directory that has not been switched are all for the branch that
\* HEAD names, which exists, and a writer moves it to another commit.
StaysOn(d) ==
  Spared(d, {"switched"}) =>
    /\ git[d].head # None => git[d].is = "repo" /\ Top(d) # 0
    /\ \A p \in Active(d) : git[d].head # None /\ job[p].branch = git[d].head /\ pc[p] # "create"
    /\ \A p \in Writers(d) : job[p].old # job[p].tip

\* With no writer the directory is clean.  A sole writer that finds its branch where it
\* was has been alone: what it has written is there.
IsClean(d) ==
  Spared(d, {"failed", "switched", "back"}) /\ git[d].head # None =>
    /\ Writers(d) = {} => FilesAre(d, Top(d))
    /\ \A p \in Pid : Writers(d) = {p} /\ job[p].old = Top(d) => Done(p)

WritersInv ==
  /\ TypeInv
  /\ \A p \in Pid : pc[p] = "target" => job[p].left = {}
  /\ \A d \in Dir : StaysOn(d) /\ IsClean(d)

LEMMA StepKeepsArguments ==
  ASSUME NEW p \in Pid, TypeOK, GitStep(p) \/ GitFails(p)
  PROVE  /\ job'[p].dir = job[p].dir /\ job'[p].branch = job[p].branch
         /\ job'[p].url = job[p].url
<1>1. job[p] \in Job
  BY StepIsLocal
<1> QED
  BY <1>1 DEF GitStep, GitFails, OpenRepository, Fetch, LookupTrackingRef, LookupBranch,
              CreateBranch, CheckoutFile, SetTarget, SetHead, MoveBranch, Goto, Fail, Return,
              TypeOK, Job

\* A step in one directory is nothing to another one.
LEMMA OtherDirectory ==
  ASSUME NEW p \in Pid, NEW d \in Dir, WritersInv, GitStep(p) \/ GitFails(p), job[p].dir # d
  PROVE  StaysOn(d)' /\ IsClean(d)'
<1>1. TypeOK
  BY DEF WritersInv, TypeInv
<1>2. /\ job'[p].dir # d /\ git'[d] = git[d]
      /\ \A q \in Pid \ {p} : pc'[q] = pc[q] /\ job'[q] = job[q]
      /\ \A m \in Mishap : <<d, m>> \in past' <=> <<d, m>> \in past
  BY <1>1, StepIsLocal, StepKeepsArguments
<1>3. Active(d)' = Active(d) /\ Writers(d)' = Writers(d)
  BY <1>2 DEF Active, Writers
<1>4. \A q \in Active(d) : pc'[q] = pc[q] /\ job'[q] = job[q]
  BY <1>2 DEF Active
<1>5. Writers(d) \subseteq Active(d) /\ \A q \in Writers(d) : job[q].dir = d
  BY DEF Active, Writers
<1>6. /\ Spared(d, {"switched"})' <=> Spared(d, {"switched"})
      /\ Spared(d, {"failed", "switched", "back"})' <=> Spared(d, {"failed", "switched", "back"})
  BY <1>2 DEF Spared, Mishap
<1>7. StaysOn(d)'
  BY <1>2, <1>3, <1>4, <1>5, <1>6 DEF StaysOn, Top, WritersInv
<1>8. ASSUME NEW q \in Pid, Writers(d) = {q}
      PROVE  job'[q] = job[q] /\ Done(q)' = Done(q)
  BY <1>2, <1>4, <1>5, <1>8 DEF Done
<1>9. IsClean(d)'
  BY <1>2, <1>3, <1>6, <1>8 DEF IsClean, Top, FilesAre, WritersInv
<1> QED BY <1>7, <1>9

\* The directory of the step.
LEMMA ThisDirectory ==
  ASSUME NEW p \in Pid, NEW d \in Dir, WritersInv, GitStep(p) \/ GitFails(p), job[p].dir = d
  PROVE  StaysOn(d)' /\ IsClean(d)'
<1> USE DEF At, Here, There
<1> DEFINE j == job[p]
           g == git[d]
           clean == {"failed", "switched", "back"}
<1>1. SUFFICES ASSUME Spared(d, {"switched"})'
               PROVE  StaysOn(d)' /\ IsClean(d)'
  BY DEF StaysOn, IsClean, Spared
<1>2. TypeOK
  BY DEF WritersInv, TypeInv
<1>3. /\ pc[p] # "idle" /\ j \in Job /\ g \in Repository
      /\ \A q \in Pid \ {p} : pc'[q] = pc[q] /\ job'[q] = job[q]
      /\ past \subseteq past'
      /\ job'[p].dir = d /\ job'[p].branch = j.branch
  BY <1>2, StepIsLocal, StepKeepsArguments DEF TypeOK
<1>4. /\ Spared(d, {"switched"})
      /\ Spared(d, clean)' => Spared(d, clean)
  BY <1>1, <1>3 DEF Spared
<1>5. p \in Active(d)
  BY <1>3 DEF Active
<1>6. /\ g.head # None /\ g.is = "repo" /\ Top(d) # 0
      /\ \A q \in Active(d) : job[q].branch = g.head /\ pc[q] # "create"
      /\ \A q \in Writers(d) : job[q].old # job[q].tip
  BY <1>4, <1>5 DEF StaysOn, WritersInv
<1>7. /\ g.heads[j.branch] = Top(d) /\ Top(d) # 0 /\ pc[p] # "create"
      /\ Spared(d, clean) /\ Writers(d) = {} => FilesAre(d, Top(d))
      /\ \A q \in Pid : Spared(d, clean) /\ Writers(d) = {q} /\ job[q].old = Top(d) => Done(q)
      /\ pc[p] = "target" => j.left = {}
  BY <1>5, <1>6 DEF Top, IsClean, WritersInv
<1>8. /\ \A q \in Pid \ {p} : q \in Active(d)' <=> q \in Active(d)
      /\ \A q \in Pid \ {p} : q \in Writers(d)' <=> q \in Writers(d)
      /\ Writers(d) \subseteq Pid /\ Writers(d)' \subseteq Pid
      /\ Active(d) \subseteq Pid /\ Active(d)' \subseteq Pid
      /\ Writers(d) \subseteq Active(d)
  BY <1>3 DEF Active, Writers
\* The first half for a step that keeps the branch of HEAD at a commit.
<1>9. ASSUME git'[d].head = g.head, git'[d].is = "repo", Top(d)' # 0, pc'[p] # "create",
             p \in Writers(d)' => job'[p].old # job'[p].tip
      PROVE  StaysOn(d)'
  BY <1>3, <1>5, <1>6, <1>8, <1>9 DEF StaysOn
<1>10. CASE Fail(p)
  <2>1. /\ git' = git /\ job' = job /\ pc'[p] = "idle"
        /\ <<d, "failed">> \in past'
    BY <1>2, <1>10 DEF Fail, Return, TypeOK
  <2>2. StaysOn(d)'
    BY <2>1, <1>6, <1>9 DEF Top, Writers
  <2>3. IsClean(d)'
    BY <2>1 DEF IsClean, Spared
  <2> QED BY <2>2, <2>3
\* A step that neither writes nor begins or ends to be a writer.
<1>11. ASSUME git'[d].head = g.head, git'[d].is = "repo", git'[d].heads = g.heads,
              git'[d].files = g.files, pc'[p] \notin {"create", "checkout", "target"},
              pc[p] \notin {"checkout", "target"}
       PROVE  StaysOn(d)' /\ IsClean(d)'
  <2>1. Top(d)' = Top(d)
    BY <1>11 DEF Top
  <2>2. Writers(d)' = Writers(d) /\ p \notin Writers(d)
    BY <1>8, <1>11 DEF Writers
  <2>3. StaysOn(d)'
    BY <2>1, <2>2, <1>6, <1>9, <1>11
  <2>4. ASSUME NEW q \in Pid, Writers(d)' = {q}, job'[q].old = Top(d)', Spared(d, clean)'
        PROVE  Done(q)'
    <3>1. q # p /\ job'[q] = job[q] /\ Done(q)
      BY <2>1, <2>2, <2>4, <1>3, <1>4, <1>7
    <3>2. job[q].dir = d
      BY <2>2, <2>4 DEF Writers
    <3> QED BY <3>1, <3>2, <1>11 DEF Done
  <2>5. Spared(d, clean)' /\ Writers(d)' = {} => FilesAre(d, Top(d))'
    BY <2>1, <2>2, <1>4, <1>7, <1>11 DEF FilesAre
  <2> QED BY <2>3, <2>4, <2>5 DEF IsClean
<1>12. ASSUME NEW step, Goto(p, step)
       PROVE  pc'[p] = step
  BY <1>2, <1>12 DEF Goto, TypeOK
<1>13. CASE OpenRepository(p)
  <2>1. git' = git /\ pc[p] = "open" /\ (Fail(p) \/ Goto(p, "fetch"))
    BY <1>6, <1>13 DEF OpenRepository
  <2> QED BY <2>1, <1>6, <1>10, <1>11, <1>12
<1>14. CASE Fetch(p)
  <2>1. /\ git'[d].head = g.head /\ git'[d].is = "repo" /\ git'[d].heads = g.heads
        /\ git'[d].files = g.files
    BY <1>2, <1>3, <1>6, <1>14 DEF Fetch, TypeOK, Repository
  <2>2. pc[p] = "fetch" /\ pc'[p] = "tip"
    BY <1>12, <1>14 DEF Fetch
  <2> QED BY <2>1, <2>2, <1>11
<1>15. CASE LookupTrackingRef(p)
  <2>1. pc[p] = "tip" /\ (Fail(p) \/ (Goto(p, "branch") /\ git' = git))
    BY <1>15 DEF LookupTrackingRef
  <2> QED BY <2>1, <1>6, <1>10, <1>11, <1>12
<1>16. CASE LookupBranch(p)
  <2>1. /\ pc[p] = "branch" /\ git' = git
        /\ job' = [job EXCEPT ![p] = [j EXCEPT !.old = Top(d), !.left = File]]
        /\ Goto(p, IF Top(d) = j.tip THEN "head" ELSE "checkout")
    BY <1>7, <1>16 DEF LookupBranch
  <2>2. /\ job'[p].old = Top(d) /\ job'[p].left = File /\ job'[p].tip = j.tip
        /\ pc'[p] = IF Top(d) = j.tip THEN "head" ELSE "checkout"
    BY <2>1, <1>2, <1>3, <1>12 DEF TypeOK, Job
  <2>3. CASE Top(d) = j.tip
    BY <2>1, <2>2, <2>3, <1>6, <1>11
  <2>4. CASE Top(d) # j.tip
    <3>1. p \in Writers(d)' /\ p \notin Writers(d)
      BY <2>1, <2>2, <2>4, <1>3 DEF Writers
    <3>2. StaysOn(d)'
      BY <2>1, <2>2, <2>4, <1>6, <1>9 DEF Top
    <3>3. ASSUME NEW q \in Pid, Writers(d)' = {q}
          PROVE  Done(q)'
      <4>1. q = p
        BY <3>1, <3>3
      <4> QED BY <4>1, <2>2 DEF Done
    <3> QED BY <3>1, <3>2, <3>3 DEF IsClean
  <2> QED BY <2>3, <2>4
<1>17. CASE CreateBranch(p)
  BY <1>7, <1>17 DEF CreateBranch
<1>18. CASE CheckoutFile(p)
  <2>1. PICK f \in j.left :
          /\ git' = [git EXCEPT ![d].files[f] = j.tip]
          /\ job' = [job EXCEPT ![p].left = @ \ {f}]
          /\ Goto(p, IF j.left = {f} THEN "target" ELSE "checkout")
    BY <1>18 DEF CheckoutFile
  <2>2. /\ pc[p] = "checkout" /\ pc'[p] \in {"checkout", "target"}
    BY <2>1, <1>12, <1>18 DEF CheckoutFile
  <2>3. /\ job'[p].old = j.old /\ job'[p].tip = j.tip /\ job'[p].left = j.left \ {f}
    BY <2>1, <1>2, <1>3 DEF TypeOK, Job
  <2>4. /\ git'[d].head = g.head /\ git'[d].is = "repo" /\ git'[d].heads = g.heads
        /\ git'[d].files = [g.files EXCEPT ![f] = j.tip]
        /\ f \in File /\ g.files \in [File -> Version]
    BY <2>1, <1>2, <1>3, <1>6 DEF TypeOK, Repository, Job
  <2>5. p \in Writers(d) /\ p \in Writers(d)'
    BY <2>2, <1>3 DEF Writers
  <2>6. Top(d)' = Top(d)
    BY <2>4 DEF Top
  <2>7. StaysOn(d)'
    BY <2>2, <2>3, <2>4, <2>5, <2>6, <1>6, <1>9
  <2>8. ASSUME NEW q \in Pid, Writers(d)' = {q}, job'[q].old = Top(d)', Spared(d, clean)'
        PROVE  Done(q)'
    <3>1. q = p /\ Writers(d) = {p}
      BY <2>5, <2>8, <1>8
    <3>2. Done(p)
      BY <3>1, <2>3, <2>6, <2>8, <1>4, <1>7
    <3> QED BY <3>1, <3>2, <2>3, <2>4, <1>3 DEF Done
  <2> QED BY <2>5, <2>7, <2>8 DEF IsClean
<1>19. CASE SetTarget(p)
  <2>1. CASE Fail(p)
    BY <2>1, <1>10
  <2>2. CASE ~Fail(p)
    <3>1. /\ pc[p] = "target" /\ j.old = Top(d) /\ j.left = {} /\ MoveBranch(p)
      BY <2>2, <1>7, <1>19 DEF SetTarget
    <3>2. p \in Writers(d) /\ j.old # j.tip /\ j.tip # 0
      BY <3>1, <1>2, <1>6 DEF Writers, TypeOK
    <3>3. /\ git'[d].head = g.head /\ git'[d].is = "repo" /\ git'[d].files = g.files
          /\ git'[d].heads = [g.heads EXCEPT ![j.branch] = j.tip] /\ j.branch \in Branch
          /\ g.heads \in [Branch -> Version]
      BY <3>1, <1>2, <1>3, <1>6 DEF MoveBranch, TypeOK, Repository, Job
    <3>4. Top(d)' = j.tip
      BY <3>3, <1>5, <1>6 DEF Top
    <3>5. pc'[p] = "head" /\ job' = job
      BY <3>1, <1>2 DEF MoveBranch, TypeOK
    <3>6. Writers(d)' = Writers(d) \ {p}
      BY <3>5, <1>8 DEF Writers
    <3>7. StaysOn(d)'
      BY <3>2, <3>3, <3>4, <3>5, <3>6, <1>9
    <3>8. ASSUME Writers(d)' = {}, Spared(d, clean)'
          PROVE  FilesAre(d, Top(d))'
      <4>1. Writers(d) = {p}
        BY <3>2, <3>6, <3>8
      <4>2. Done(p)
        BY <4>1, <3>1, <3>8, <1>4, <1>7
      <4> QED BY <4>2, <3>1, <3>3, <3>4 DEF Done, FilesAre
    \* The others find the branch moved: it does not come back.
    <3>9. ASSUME NEW q \in Pid, Writers(d)' = {q}, job'[q].old = Top(d)', Spared(d, clean)'
          PROVE  FALSE
      <4>1. q # p /\ pc[q] \in {"checkout", "target"} /\ job[q].dir = d /\ job[q].old = j.tip
        BY <3>4, <3>5, <3>6, <3>9 DEF Writers
      <4>2. ComesBack(p)
        BY <4>1 DEF ComesBack
      <4>3. <<d, "back">> \in past'
        BY <4>2, <3>1 DEF MoveBranch
      <4> QED BY <4>3, <3>9 DEF Spared
    <3> QED BY <3>7, <3>8, <3>9 DEF IsClean
  <2> QED BY <2>1, <2>2
<1>20. CASE SetHead(p)
  <2>1. /\ git' = [git EXCEPT ![d].head = j.branch] /\ pc[p] = "head" /\ pc'[p] = "idle"
    BY <1>2, <1>20 DEF SetHead, Return, TypeOK
  <2>2. /\ git'[d].head = g.head /\ git'[d].is = "repo" /\ git'[d].heads = g.heads
        /\ git'[d].files = g.files
    BY <2>1, <1>2, <1>3, <1>5, <1>6 DEF TypeOK, Repository
  <2> QED BY <2>1, <2>2, <1>11
<1> QED
  BY <1>10, <1>13, <1>14, <1>15, <1>16, <1>17, <1>18, <1>19, <1>20 DEF GitStep, GitFails

LEMMA InitWriters == Init => WritersInv
<1> SUFFICES ASSUME Init
             PROVE  WritersInv
  OBVIOUS
<1>1. TypeInv /\ \A p \in Pid : pc[p] = "idle"
  BY InitTypes DEF Init
<1>2. ASSUME NEW d \in Dir
      PROVE  StaysOn(d) /\ IsClean(d)
  <2>1. Active(d) = {} /\ Writers(d) = {}
    BY <1>1 DEF Active, Writers
  <2>2. PICK u \in Url, b \in Branch :
          git[d] \in {Blank("empty"), Blank("repo")}
                     \cup (IF remote[u][b] = 0 THEN {} ELSE {Clone(b, remote[u][b])})
    BY DEF Init
  <2>3. CASE git[d].head = None
    BY <2>1, <2>3 DEF StaysOn, IsClean
  <2>4. CASE git[d].head # None
    <3>1. git[d] = Clone(b, remote[u][b]) /\ remote[u][b] # 0
      BY <2>2, <2>4 DEF Blank
    <3>2. /\ git[d].head = b /\ git[d].is = "repo" /\ Top(d) = remote[u][b]
          /\ FilesAre(d, Top(d))
      BY <3>1 DEF Clone, Blank, Top, FilesAre
    <3> QED BY <2>1, <3>1, <3>2 DEF StaysOn, IsClean
  <2> QED BY <2>3, <2>4
<1> QED BY <1>1, <1>2 DEF WritersInv

\* A sync that begins on another branch is remembered; one on the same branch makes one
\* more process active.
LEMMA StartKeepsWriters ==
  ASSUME NEW p \in Pid, NEW e \in Dir, NEW u \in Url, NEW b \in Branch, NEW d \in Dir,
         WritersInv, SyncStart(p, e, u, b)
  PROVE  StaysOn(d)' /\ IsClean(d)'
<1>1. TypeOK
  BY DEF WritersInv, TypeInv
<1>2. /\ \A q \in Pid \ {p} : pc'[q] = pc[q] /\ job'[q] = job[q]
      /\ pc[p] = "idle" /\ pc'[p] = "open" /\ job'[p].dir = e /\ job'[p].branch = b
      /\ git' = git /\ past \subseteq past'
      /\ git[e].head # b => <<e, "switched">> \in past'
  BY <1>1, StartIsLocal
<1>3. /\ Writers(d)' = Writers(d) /\ p \notin Writers(d)
      /\ \A q \in Active(d)' : q # p => q \in Active(d)
      /\ Writers(d) \subseteq Pid \ {p}
      /\ Active(d)' \subseteq Pid
  BY <1>2 DEF Writers, Active
<1>4. /\ Spared(d, {"switched"})' => Spared(d, {"switched"})
      /\ Spared(d, {"failed", "switched", "back"})' => Spared(d, {"failed", "switched", "back"})
  BY <1>2 DEF Spared
<1>5. ASSUME Spared(d, {"switched"})', p \in Active(d)'
      PROVE  git[d].head = b /\ b # None
  <2>1. d = e
    BY <1>2, <1>5 DEF Active
  <2> QED BY <2>1, <1>2, <1>5, MarkAssumption DEF Spared
<1>6. StaysOn(d)'
  BY <1>2, <1>3, <1>4, <1>5 DEF StaysOn, Top, WritersInv
<1>7. ASSUME NEW q \in Pid, Writers(d)' = {q}
      PROVE  job'[q] = job[q] /\ Done(q)' = Done(q)
  BY <1>2, <1>3, <1>7 DEF Done
<1>8. IsClean(d)'
  BY <1>2, <1>3, <1>4, <1>7 DEF IsClean, Top, FilesAre, WritersInv
<1> QED BY <1>6, <1>8

\* Nothing but a step of p changes what is left for p to write.
LEMMA StepKeepsLeft ==
  ASSUME NEW p \in Pid, WritersInv, GitStep(p) \/ GitFails(p), pc'[p] = "target"
  PROVE  job'[p].left = {}
<1>1. TypeOK /\ job[p] \in Job
  BY StepIsLocal DEF WritersInv, TypeInv
<1>2. ASSUME NEW step, Goto(p, step)
      PROVE  pc'[p] = step
  BY <1>1, <1>2 DEF Goto, TypeOK
<1>3. ASSUME Fail(p)
      PROVE  FALSE
  BY <1>1, <1>3 DEF Fail, Return, TypeOK
<1>4. CASE CheckoutFile(p)
  <2>1. PICK f \in job[p].left :
          /\ job' = [job EXCEPT ![p].left = @ \ {f}]
          /\ Goto(p, IF job[p].left = {f} THEN "target" ELSE "checkout")
    BY <1>4 DEF CheckoutFile
  <2>2. job[p].left = {f} /\ job'[p].left = job[p].left \ {f}
    BY <2>1, <1>1, <1>2 DEF TypeOK, Job
  <2> QED BY <2>2
<1>5. CASE ~CheckoutFile(p)
  BY <1>1, <1>2, <1>3, <1>5
  DEF GitStep, GitFails, OpenRepository, Fetch, LookupTrackingRef, LookupBranch, CreateBranch,
      SetTarget, MoveBranch, SetHead, Return, TypeOK
<1> QED BY <1>4, <1>5

LEMMA NextWriters == WritersInv /\ [Next]_vars => WritersInv'
<1> SUFFICES ASSUME WritersInv, [Next]_vars
             PROVE  WritersInv'
  OBVIOUS
<1>1. TypeInv' /\ TypeOK
  BY NextTypes DEF WritersInv, TypeInv
<1>2. CASE UNCHANGED <<git, pc, job, result, past>>
  BY <1>1, <1>2
  DEF WritersInv, StaysOn, IsClean, Active, Writers, Top, FilesAre, Done, Spared
<1>3. ASSUME NEW p \in Pid, GitStep(p) \/ GitFails(p)
      PROVE  WritersInv'
  <2>1. \A q \in Pid : pc'[q] = "target" => job'[q].left = {}
    BY <1>1, <1>3, StepIsLocal, StepKeepsLeft DEF WritersInv
  <2>2. \A d \in Dir : StaysOn(d)' /\ IsClean(d)'
    BY <1>3, ThisDirectory, OtherDirectory
  <2> QED BY <1>1, <2>1, <2>2 DEF WritersInv
<1>4. ASSUME NEW p \in Pid, NEW d \in Dir, NEW u \in Url, NEW b \in Branch, SyncStart(p, d, u, b)
      PROVE  WritersInv'
  <2>1. \A q \in Pid : pc'[q] = "target" => job'[q].left = {}
    BY <1>1, <1>4, StartIsLocal DEF WritersInv
  <2>2. \A e \in Dir : StaysOn(e)' /\ IsClean(e)'
    BY <1>4, StartKeepsWriters
  <2> QED BY <1>1, <2>1, <2>2 DEF WritersInv
<1> QED BY <1>2, <1>3, <1>4 DEF Next, Push, vars

\* However many syncs of a directory overlap, if all have succeeded the files are those
\* of the branch that HEAD names: uppm_git_sync moves the branch last, and only from
\* where it found it.
THEOREM CleanIfAllSucceed == Spec => []SuccessMeansClean
<1>1. WritersInv => SuccessMeansClean
  <2> SUFFICES ASSUME WritersInv, NEW d \in Dir, Spared(d, {"failed", "switched", "back"}),
                      git[d].head # None, \A p \in Pid : pc[p] # "idle" => job[p].dir # d
               PROVE  \A f \in File : git[d].files[f] = git[d].heads[git[d].head]
    BY DEF SuccessMeansClean
  <2>1. Writers(d) = {}
    BY DEF Writers
  <2> QED BY <2>1 DEF WritersInv, IsClean, FilesAre, Top
<1> QED BY <1>1, InitWriters, NextWriters, PTL DEF Spec

-----------------------------------------------------------------------------
(***************************************************************************)
(* Syncs that meet no other one.  Two assumptions, beside the names of     *)
(* constants: a push never takes commits back (git fetch would not follow  *)
(* it), and there is one remote.                                           *)
(***************************************************************************)
ForwardOnly == \A c, e \in Commit : c < e => <<c, e>> \in Descends

Tracked(d) == git[d].tracking[git[d].head]

\* The files are those of the branch, or the branch is behind what was fetched, so that
\* the next sync will write them.
LeftOrClean(d) == FilesAre(d, Top(d)) \/ Top(d) # Tracked(d)

\* Where the process is that works on a directory alone.
Knows(p, d) ==
  /\ pc[p] \in {"tip", "branch", "checkout", "target", "head"} => job[p].seen = Tracked(d)
  /\ pc[p] \in {"branch", "checkout", "target", "head"} => job[p].tip = Tracked(d)
  /\ pc[p] \in {"checkout", "target"} => job[p].old = Top(d) /\ Done(p)
  /\ pc[p] = "head" => Top(d) = Tracked(d)

AloneThere(u, d) ==
  Spared(d, {"overlap", "switched"}) =>
    /\ \A p, q \in Active(d) : p = q
    /\ git[d].head # None =>
         /\ Top(d) <= Tracked(d) /\ Tracked(d) <= remote[u][git[d].head]
         /\ LeftOrClean(d)
    /\ \A p \in Active(d) : Knows(p, d)

AloneInv(u) == WritersInv /\ \A d \in Dir : AloneThere(u, d)

LEMMA InitAlone == ASSUME NEW u \in Url, Url = {u}, Init PROVE AloneInv(u)
<1>1. WritersInv /\ TypeInv
  BY InitWriters, InitTypes
<1>2. ASSUME NEW d \in Dir
      PROVE  AloneThere(u, d)
  <2>1. Active(d) = {}
    BY DEF Init, Active
  <2>2. PICK b \in Branch :
          git[d] \in {Blank("empty"), Blank("repo")}
                     \cup (IF remote[u][b] = 0 THEN {} ELSE {Clone(b, remote[u][b])})
    BY DEF Init
  <2>3. CASE git[d].head = None
    BY <2>1, <2>3 DEF AloneThere
  <2>4. CASE git[d].head # None
    <3>1. git[d] = Clone(b, remote[u][b])
      BY <2>2, <2>4 DEF Blank
    <3>2. git[d].head = b /\ Top(d) = remote[u][b] /\ Tracked(d) = remote[u][b]
          /\ FilesAre(d, Top(d))
      BY <3>1 DEF Clone, Blank, Top, Tracked, FilesAre
    <3>3. remote[u][b] <= remote[u][b]
      BY <1>1, CommitAssumption DEF TypeInv, TypeOK, Version
    <3> QED BY <2>1, <3>2, <3>3 DEF AloneThere, LeftOrClean
  <2> QED BY <2>3, <2>4
<1> QED BY <1>1, <1>2 DEF AloneInv

\* What others do: in another directory, or to the remote.
LEMMA OthersKeepAlone ==
  ASSUME NEW u \in Url, NEW d \in Dir, AloneInv(u), WritersInv', git'[d] = git[d],
         \A q \in Active(d) : pc'[q] = pc[q] /\ job'[q] = job[q],
         Active(d)' = Active(d), past \subseteq past',
         \A b \in Branch : remote'[u][b] \in Nat /\ remote[u][b] <= remote'[u][b]
  PROVE  AloneThere(u, d)'
<1> SUFFICES ASSUME Spared(d, {"overlap", "switched"})'
             PROVE  /\ \A p, q \in Active(d)' : p = q
                    /\ git'[d].head # None =>
                         /\ Top(d)' <= Tracked(d)'
                         /\ Tracked(d)' <= remote'[u][git'[d].head]
                         /\ LeftOrClean(d)'
                    /\ \A p \in Active(d)' : Knows(p, d)'
  BY DEF AloneThere
<1>1. AloneThere(u, d) /\ Spared(d, {"overlap", "switched"})
  BY DEF AloneInv, Spared
<1>2. /\ Top(d)' = Top(d) /\ Tracked(d)' = Tracked(d)
      /\ LeftOrClean(d) => LeftOrClean(d)'
  BY DEF Top, Tracked, LeftOrClean, FilesAre
<1>3. git[d].head # None =>
        /\ git[d].head \in Branch /\ Top(d) \in Nat /\ Tracked(d) \in Nat
        /\ remote[u][git[d].head] \in Nat
  BY CommitAssumption DEF AloneInv, WritersInv, TypeInv, TypeOK, Repository, Version, Top, Tracked
<1>4. ASSUME NEW p \in Active(d)
      PROVE  Knows(p, d)'
  <2>1. Knows(p, d) /\ job[p].dir = d
    BY <1>1, <1>4 DEF AloneThere, Active
  <2>2. Done(p) => Done(p)'
    BY <1>4, <2>1 DEF Done
  <2>3. pc'[p] = pc[p] /\ job'[p] = job[p]
    BY <1>4
  <2> QED BY <2>1, <2>2, <2>3, <1>2 DEF Knows
<1>5. git'[d].head # None => Tracked(d)' <= remote'[u][git'[d].head]
  BY <1>1, <1>2, <1>3 DEF AloneThere
<1> QED BY <1>1, <1>2, <1>4, <1>5 DEF AloneThere

\* A step of the only process that is active in d.
LEMMA StepKeepsAlone ==
  ASSUME NEW u \in Url, Url = {u}, ForwardOnly, NEW p \in Pid, NEW d \in Dir,
         AloneInv(u), GitStep(p) \/ GitFails(p), job[p].dir = d
  PROVE  AloneThere(u, d)'
<1> USE DEF At, Here, There
<1> DEFINE j == job[p]
           g == git[d]
<1>1. SUFFICES ASSUME Spared(d, {"overlap", "switched"})'
               PROVE  AloneThere(u, d)'
  BY DEF AloneThere
<1>2. TypeOK /\ WritersInv
  BY DEF AloneInv, WritersInv, TypeInv
<1>3. /\ pc[p] # "idle" /\ j \in Job /\ g \in Repository
      /\ \A q \in Pid \ {p} : pc'[q] = pc[q] /\ job'[q] = job[q]
      /\ past \subseteq past'
      /\ job'[p].dir = d /\ job'[p].branch = j.branch
  BY <1>2, StepIsLocal, StepKeepsArguments DEF TypeOK
<1>4. Spared(d, {"overlap", "switched"}) /\ Spared(d, {"switched"})
  BY <1>1, <1>3 DEF Spared
<1>5. p \in Active(d)
  BY <1>3 DEF Active
<1>6. /\ g.head # None /\ g.is = "repo" /\ Top(d) # 0 /\ j.branch = g.head /\ pc[p] # "create"
      /\ pc[p] \in {"checkout", "target"} => j.old # j.tip
      /\ pc[p] = "target" => j.left = {}
  <2>1. p \in Writers(d) <=> pc[p] \in {"checkout", "target"}
    BY DEF Writers
  <2> QED BY <2>1, <1>2, <1>4, <1>5 DEF StaysOn, WritersInv
<1>7. /\ \A q \in Active(d) : q = p
      /\ Top(d) <= Tracked(d) /\ Tracked(d) <= remote[u][g.head]
      /\ LeftOrClean(d) /\ Knows(p, d)
  BY <1>4, <1>5, <1>6 DEF AloneInv, AloneThere
<1>8. /\ \A q, r \in Active(d)' : q = r
      /\ \A q \in Active(d)' : q = p
  BY <1>3, <1>7 DEF Active
<1>9. /\ g.heads[g.head] = Top(d) /\ g.tracking[g.head] = Tracked(d) /\ g.head \in Branch
      /\ Top(d) \in Nat /\ Tracked(d) \in Nat /\ remote[u][g.head] \in Version
      /\ Version \subseteq Nat /\ Top(d) \in Version /\ Tracked(d) \in Version
      /\ g.heads \in [Branch -> Version] /\ g.tracking \in [Branch -> Version]
      /\ g.files \in [File -> Version] /\ j.left \subseteq File
  BY <1>2, <1>3, <1>6, CommitAssumption DEF TypeOK, Repository, Job, Version, Top, Tracked
<1>10. ASSUME git'[d].head = g.head, Top(d)' <= Tracked(d)', Tracked(d)' <= remote'[u][g.head],
              LeftOrClean(d)', Knows(p, d)'
       PROVE  AloneThere(u, d)'
  BY <1>8, <1>10 DEF AloneThere
\* A step that changes neither the branch nor what was fetched nor the files.
<1>11. ASSUME git'[d].head = g.head, git'[d].heads = g.heads, git'[d].tracking = g.tracking,
              git'[d].files = g.files, remote' = remote, Knows(p, d)'
       PROVE  AloneThere(u, d)'
  <2>1. Top(d)' = Top(d) /\ Tracked(d)' = Tracked(d)
    BY <1>11 DEF Top, Tracked
  <2>2. LeftOrClean(d)'
    BY <2>1, <1>7, <1>11 DEF LeftOrClean, FilesAre
  <2> QED BY <2>1, <2>2, <1>7, <1>10, <1>11
<1>12. CASE Fail(p)
  <2>1. git' = git /\ remote' = remote /\ pc'[p] = "idle"
    BY <1>2, <1>12 DEF Fail, Return, TypeOK
  <2> QED BY <2>1, <1>11 DEF Knows
<1>13. ASSUME NEW step, Goto(p, step)
       PROVE  pc'[p] = step
  BY <1>2, <1>13 DEF Goto, TypeOK
<1>14. CASE OpenRepository(p)
  <2>1. git' = git /\ remote' = remote /\ (Fail(p) \/ Goto(p, "fetch"))
    BY <1>6, <1>14 DEF OpenRepository, Fail
  <2>2. CASE Goto(p, "fetch")
    BY <2>1, <2>2, <1>11, <1>13 DEF Knows
  <2> QED BY <2>1, <2>2, <1>12
\* What the server sends is where the tracking branch goes.
<1>15. CASE Fetch(p)
  <2> DEFINE sent == remote[u][g.head]
  <2>1. /\ git'[d].head = g.head /\ git'[d].heads = g.heads /\ git'[d].files = g.files
        /\ git'[d].tracking = [g.tracking EXCEPT ![g.head] = Fetched(@, sent)]
        /\ remote' = remote /\ job'[p].seen = sent /\ pc'[p] = "tip"
    <3>1. j.url = u
      BY <1>3 DEF Job
    <3>2. /\ git' = [git EXCEPT ![d].tracking[g.head] = Fetched(@, sent)]
          /\ job' = [job EXCEPT ![p].seen = sent] /\ Goto(p, "tip") /\ remote' = remote
      BY <3>1, <1>6, <1>15 DEF Fetch
    <3> QED BY <3>2, <1>2, <1>3, <1>13 DEF TypeOK, Repository, Job
  <2>2. Fetched(Tracked(d), sent) = sent
    <3>1. CASE Tracked(d) = sent
      BY <3>1 DEF Fetched
    <3>2. CASE Tracked(d) # sent
      <4>1. Tracked(d) < sent /\ Tracked(d) \in Commit /\ sent \in Commit
        BY <3>2, <1>6, <1>7, <1>9, CommitAssumption DEF Version, Commit
      <4> QED BY <4>1, <1>9 DEF Fetched, ForwardOnly, Commit
    <3> QED BY <3>1, <3>2
  <2>3. Top(d)' = Top(d) /\ Tracked(d)' = sent
    BY <2>1, <2>2, <1>9 DEF Top, Tracked
  <2>4. LeftOrClean(d)'
    <3>1. CASE Tracked(d) = sent
      BY <3>1, <2>1, <2>3, <1>7 DEF LeftOrClean, FilesAre
    <3>2. CASE Tracked(d) # sent
      BY <3>2, <2>3, <1>7, <1>9 DEF LeftOrClean
    <3> QED BY <3>1, <3>2
  <2>5. Knows(p, d)'
    BY <2>1, <2>3 DEF Knows
  <2>6. Top(d) <= sent /\ sent <= sent
    <3>1. sent \in Nat /\ Top(d) \in Nat /\ Tracked(d) \in Nat
      BY <1>9
    <3>2. Top(d) <= Tracked(d) /\ Tracked(d) <= sent
      BY <1>7
    <3> QED BY <3>1, <3>2
  <2> QED BY <2>1, <2>3, <2>4, <2>5, <2>6, <1>10
<1>16. CASE LookupTrackingRef(p)
  <2>1. CASE Fail(p)
    BY <2>1, <1>12
  <2>2. CASE ~Fail(p)
    <3>1. /\ job' = [job EXCEPT ![p].tip = Tracked(d)] /\ Goto(p, "branch")
          /\ git' = git /\ remote' = remote /\ pc[p] = "tip"
      BY <2>2, <1>6, <1>9, <1>16 DEF LookupTrackingRef
    <3>2. job'[p].tip = Tracked(d) /\ job'[p].seen = j.seen /\ pc'[p] = "branch"
      BY <3>1, <1>2, <1>3, <1>13 DEF TypeOK, Job
    <3>3. Tracked(d)' = Tracked(d)
      BY <3>1 DEF Tracked
    <3>4. Knows(p, d)'
      BY <3>1, <3>2, <3>3, <1>7 DEF Knows
    <3> QED BY <3>1, <3>4, <1>11
  <2> QED BY <2>1, <2>2
<1>17. CASE LookupBranch(p)
  <2>1. /\ pc[p] = "branch" /\ git' = git /\ remote' = remote
        /\ job' = [job EXCEPT ![p] = [j EXCEPT !.old = Top(d), !.left = File]]
        /\ Goto(p, IF Top(d) = j.tip THEN "head" ELSE "checkout")
    BY <1>6, <1>9, <1>17 DEF LookupBranch
  <2>2. /\ job'[p].old = Top(d) /\ job'[p].left = File /\ job'[p].tip = j.tip
        /\ job'[p].seen = j.seen
        /\ pc'[p] = IF Top(d) = j.tip THEN "head" ELSE "checkout"
    BY <2>1, <1>2, <1>3, <1>13 DEF TypeOK, Job
  <2>3. Tracked(d)' = Tracked(d) /\ Top(d)' = Top(d)
    BY <2>1 DEF Tracked, Top
  <2>4. Done(p)'
    BY <2>2 DEF Done
  <2>5. j.tip = Tracked(d) /\ j.seen = Tracked(d)
    BY <2>1, <1>7 DEF Knows
  <2>6. Knows(p, d)'
    BY <2>2, <2>3, <2>4, <2>5 DEF Knows
  <2> QED BY <2>1, <2>6, <1>11
<1>18. CASE CreateBranch(p)
  BY <1>6, <1>18 DEF CreateBranch
<1>19. CASE CheckoutFile(p)
  <2>1. PICK f \in j.left :
          /\ git' = [git EXCEPT ![d].files[f] = j.tip]
          /\ job' = [job EXCEPT ![p].left = @ \ {f}]
          /\ Goto(p, IF j.left = {f} THEN "target" ELSE "checkout")
    BY <1>19 DEF CheckoutFile
  <2>2. pc[p] = "checkout" /\ pc'[p] \in {"checkout", "target"} /\ remote' = remote
    BY <2>1, <1>13, <1>19 DEF CheckoutFile
  <2>3. /\ job'[p].old = j.old /\ job'[p].tip = j.tip /\ job'[p].left = j.left \ {f}
        /\ job'[p].seen = j.seen
    BY <2>1, <1>2, <1>3 DEF TypeOK, Job
  <2>4. /\ git'[d].head = g.head /\ git'[d].heads = g.heads /\ git'[d].tracking = g.tracking
        /\ git'[d].files = [g.files EXCEPT ![f] = j.tip] /\ f \in File
    BY <2>1, <1>2, <1>3, <1>9 DEF TypeOK, Repository
  <2>5. Top(d)' = Top(d) /\ Tracked(d)' = Tracked(d)
    BY <2>4 DEF Top, Tracked
  <2>6. /\ j.seen = Tracked(d) /\ j.tip = Tracked(d) /\ j.old = Top(d) /\ Done(p)
        /\ j.old # j.tip
    BY <2>2, <1>6, <1>7 DEF Knows
  <2>7. Done(p)'
    BY <2>3, <2>4, <2>6, <1>3, <1>9 DEF Done
  <2>8. Knows(p, d)'
    BY <2>2, <2>3, <2>5, <2>6, <2>7 DEF Knows
  <2>9. LeftOrClean(d)'
    BY <2>5, <2>6 DEF LeftOrClean
  <2> QED BY <2>2, <2>4, <2>5, <2>8, <2>9, <1>7, <1>10
<1>20. CASE SetTarget(p)
  <2>1. CASE Fail(p)
    BY <2>1, <1>12
  <2>2. CASE ~Fail(p)
    <3>1. pc[p] = "target" /\ j.left = {} /\ MoveBranch(p)
      BY <2>2, <1>6, <1>20 DEF SetTarget
    <3>2. j.seen = Tracked(d) /\ j.tip = Tracked(d) /\ Done(p)
      BY <3>1, <1>7 DEF Knows
    <3>3. /\ git'[d].head = g.head /\ git'[d].files = g.files
          /\ git'[d].tracking = g.tracking
          /\ git'[d].heads = [g.heads EXCEPT ![g.head] = j.tip]
          /\ remote' = remote /\ job' = job /\ pc'[p] = "head"
      BY <3>1, <1>2, <1>3, <1>6 DEF MoveBranch, TypeOK, Repository
    <3>4. Top(d)' = j.tip /\ Tracked(d)' = Tracked(d)
      BY <3>3, <1>9 DEF Top, Tracked
    <3>5. LeftOrClean(d)'
      BY <3>1, <3>2, <3>3, <3>4 DEF LeftOrClean, FilesAre, Done
    <3>6. Knows(p, d)'
      BY <3>2, <3>3, <3>4 DEF Knows
    <3>7. Tracked(d) <= Tracked(d)
      BY <1>9
    <3> QED BY <3>2, <3>3, <3>4, <3>5, <3>6, <3>7, <1>7, <1>10
  <2> QED BY <2>1, <2>2
<1>21. CASE SetHead(p)
  <2>1. /\ git' = [git EXCEPT ![d].head = g.head] /\ pc'[p] = "idle" /\ remote' = remote
    BY <1>2, <1>6, <1>21 DEF SetHead, Return, TypeOK
  <2>2. git'[d] = g
    BY <2>1, <1>2, <1>3 DEF TypeOK, Repository
  <2> QED BY <2>1, <2>2, <1>11 DEF Knows
<1> QED
  BY <1>12, <1>14, <1>15, <1>16, <1>17, <1>18, <1>19, <1>20, <1>21 DEF GitStep, GitFails

\* A sync that begins in a directory where another one is under way is remembered.
LEMMA StartKeepsAlone ==
  ASSUME NEW u \in Url, NEW p \in Pid, NEW e \in Dir, NEW v \in Url, NEW b \in Branch,
         NEW d \in Dir, AloneInv(u), SyncStart(p, e, v, b)
  PROVE  AloneThere(u, d)'
<1> SUFFICES ASSUME Spared(d, {"overlap", "switched"})'
             PROVE  AloneThere(u, d)'
  BY DEF AloneThere
<1>1. TypeOK
  BY DEF AloneInv, WritersInv, TypeInv
<1>2. /\ \A q \in Pid \ {p} : pc'[q] = pc[q] /\ job'[q] = job[q]
      /\ pc[p] = "idle" /\ pc'[p] = "open" /\ job'[p].dir = e
      /\ git' = git /\ past \subseteq past'
      /\ (\E q \in Pid : pc[q] # "idle" /\ job[q].dir = e) => <<e, "overlap">> \in past'
  BY <1>1, StartIsLocal
<1>3. remote' = remote
  BY DEF SyncStart
<1>4. Spared(d, {"overlap", "switched"}) /\ AloneThere(u, d)
  BY <1>2 DEF Spared, AloneInv
<1>5. /\ \A q \in Active(d)' : q # p => q \in Active(d) /\ Knows(q, d) /\ job[q].dir = d
      /\ p \in Active(d)' => e = d
      /\ Active(d)' \subseteq Pid
  BY <1>2, <1>4 DEF Active, AloneThere
<1>6. p \in Active(d)' => Active(d) = {}
  BY <1>2, <1>5 DEF Active, Spared
<1>7. \A q, r \in Active(d)' : q = r
  BY <1>4, <1>5, <1>6 DEF AloneThere
<1>8. Top(d)' = Top(d) /\ Tracked(d)' = Tracked(d) /\ (LeftOrClean(d) => LeftOrClean(d)')
  BY <1>2 DEF Top, Tracked, LeftOrClean, FilesAre
<1>9. ASSUME NEW q \in Active(d)'
      PROVE  Knows(q, d)'
  <2>1. CASE q = p
    BY <2>1, <1>2 DEF Knows
  <2>2. CASE q # p
    <3>1. /\ Knows(q, d) /\ pc'[q] = pc[q] /\ job'[q] = job[q] /\ job[q].dir = d
      BY <2>2, <1>2, <1>5, <1>9
    <3>2. Done(q) => Done(q)'
      BY <3>1, <1>2 DEF Done
    <3> QED BY <3>1, <3>2, <1>8 DEF Knows
  <2> QED BY <2>1, <2>2
<1> QED BY <1>2, <1>3, <1>4, <1>7, <1>8, <1>9 DEF AloneThere

LEMMA NextAlone ==
  ASSUME NEW u \in Url, Url = {u}, ForwardOnly, AloneInv(u), [Next]_vars
  PROVE  AloneInv(u)'
<1>1. WritersInv' /\ TypeOK /\ TypeOK'
  BY NextWriters DEF AloneInv, WritersInv, TypeInv
<1>2. /\ Version \subseteq Nat
      /\ \A b \in Branch : remote[u][b] \in Nat /\ remote'[u][b] \in Nat
  BY <1>1, CommitAssumption DEF TypeOK, Version
<1>3. ASSUME git' = git, pc' = pc, job' = job, past' = past,
             \A b \in Branch : remote[u][b] <= remote'[u][b]
      PROVE  AloneInv(u)'
  <2>1. \A d \in Dir : Active(d)' = Active(d)
    BY <1>3 DEF Active
  <2>2. ASSUME NEW d \in Dir
        PROVE  AloneThere(u, d)'
    BY <2>1, <1>1, <1>2, <1>3, OthersKeepAlone
  <2> QED BY <2>2, <1>1 DEF AloneInv
<1>4. \A b \in Branch : remote[u][b] <= remote[u][b]
  BY <1>2
<1>5. CASE UNCHANGED vars
  BY <1>3, <1>4, <1>5 DEF vars
<1>6. ASSUME NEW v \in Url, NEW b \in Branch, NEW c \in Commit, Push(v, b, c)
      PROVE  AloneInv(u)'
  <2>1. ASSUME NEW x \in Branch
        PROVE  remote[u][x] <= remote'[u][x]
    <3>1. v = u /\ c > remote[u][b] /\ remote' = [remote EXCEPT ![u][b] = c] /\ c \in Nat
      BY <1>6, CommitAssumption DEF Push, Commit
    <3>2. remote'[u][x] = IF x = b THEN c ELSE remote[u][x]
      BY <3>1, <1>1 DEF TypeOK
    <3>3. remote[u][x] \in Nat
      BY <1>2
    <3> QED BY <3>1, <3>2, <3>3
  <2> QED BY <2>1, <1>3, <1>6 DEF Push
<1>7. ASSUME NEW p \in Pid, NEW d \in Dir, NEW v \in Url, NEW b \in Branch, SyncStart(p, d, v, b)
      PROVE  AloneInv(u)'
  BY <1>1, <1>7, StartKeepsAlone DEF AloneInv
<1>8. ASSUME NEW p \in Pid, GitStep(p) \/ GitFails(p)
      PROVE  AloneInv(u)'
  <2>1. ASSUME NEW d \in Dir, job[p].dir # d
        PROVE  AloneThere(u, d)'
    <3>1. /\ git'[d] = git[d] /\ past \subseteq past' /\ job'[p].dir # d
          /\ \A q \in Pid \ {p} : pc'[q] = pc[q] /\ job'[q] = job[q]
      BY <2>1, <1>1, <1>8, StepIsLocal, StepKeepsArguments
    <3>2. Active(d)' = Active(d) /\ \A q \in Active(d) : pc'[q] = pc[q] /\ job'[q] = job[q]
      BY <2>1, <3>1 DEF Active
    <3>3. remote' = remote
      BY <1>8 DEF GitStep, GitFails, OpenRepository, Fetch, LookupTrackingRef, LookupBranch,
                  CreateBranch, CheckoutFile, SetTarget, SetHead, MoveBranch, Fail
    <3> QED BY <3>1, <3>2, <3>3, <1>1, <1>2, <1>4, OthersKeepAlone
  <2>2. ASSUME NEW d \in Dir, job[p].dir = d
        PROVE  AloneThere(u, d)'
    BY <2>2, <1>8, StepKeepsAlone
  <2> QED BY <2>1, <2>2, <1>1 DEF AloneInv
<1> QED BY <1>5, <1>6, <1>7, <1>8 DEF Next

\* A sync that has met no other one and succeeds has brought what the server sent,
\* whatever calls before it have left undone.
THEOREM SyncBringsRemote ==
  ASSUME NEW u \in Url, Url = {u}, ForwardOnly
  PROVE  Spec => SyncedIsRemote
<1>1. Init => AloneInv(u)
  BY InitAlone
<1>2. AloneInv(u) /\ [Next]_vars => AloneInv(u)'
  BY NextAlone
<1> DEFINE Brings(p) ==
             pc[p] # "idle" /\ pc'[p] = "idle" /\ result'[p] = "ok"
               /\ Spared(job[p].dir, {"overlap", "switched"}) =>
                 \A f \in File : git'[job[p].dir].files[f] = job[p].seen
<1>3. ASSUME AloneInv(u), [Next]_vars, NEW p \in Pid,
             pc[p] # "idle", pc'[p] = "idle", result'[p] = "ok",
             Spared(job[p].dir, {"overlap", "switched"})
      PROVE  \A f \in File : git'[job[p].dir].files[f] = job[p].seen
  <2> DEFINE d == job[p].dir
  <2>1. TypeOK
    BY <1>3 DEF AloneInv, WritersInv, TypeInv
  <2>2. GitStep(p) \/ GitFails(p)
    <3>1. ASSUME NEW q \in Pid, GitStep(q) \/ GitFails(q)
          PROVE  q = p
      BY <2>1, <3>1, <1>3, StepIsLocal
    <3>2. ASSUME NEW q \in Pid, NEW e \in Dir, NEW v \in Url, NEW b \in Branch,
                 SyncStart(q, e, v, b)
          PROVE  FALSE
      BY <2>1, <3>2, <1>3, StartIsLocal
    <3> QED BY <3>1, <3>2, <1>3 DEF Next, vars, Push
  <2>3. ~Fail(p)
    BY <2>1, <1>3 DEF Fail, Return, TypeOK
  <2>4. SetHead(p)
    <3>1. ASSUME NEW step, Goto(p, step)
          PROVE  step = "idle"
      BY <2>1, <3>1, <1>3 DEF Goto, TypeOK
    <3> QED
      BY <2>1, <2>2, <2>3, <3>1, <1>3
      DEF GitStep, GitFails, OpenRepository, Fetch, LookupTrackingRef, LookupBranch, CreateBranch,
          CheckoutFile, SetTarget, MoveBranch, TypeOK
  <2>5. pc[p] = "head" /\ d \in Dir /\ p \in Active(d)
    BY <2>1, <2>2, <2>4, StepIsLocal DEF SetHead, At, Active
  <2>6. git[d].head # None
    BY <2>5, <1>3 DEF AloneInv, WritersInv, StaysOn, Spared
  <2>7. Knows(p, d) /\ LeftOrClean(d)
    BY <2>5, <2>6, <1>3 DEF AloneInv, AloneThere
  <2>8. FilesAre(d, job[p].seen)
    BY <2>5, <2>7 DEF Knows, LeftOrClean
  <2>9. git'[d].files = git[d].files
    BY <2>1, <2>4, <2>5 DEF SetHead, Here, TypeOK, Repository
  <2> QED BY <2>8, <2>9 DEF FilesAre
<1>4. AloneInv(u) /\ [Next]_vars => [\A p \in Pid : Brings(p)]_vars
  BY <1>3
<1> QED BY <1>1, <1>2, <1>4, PTL DEF Spec, SyncedIsRemote

-----------------------------------------------------------------------------
(***************************************************************************)
(* A sync that nothing disturbs, neither another one nor a push, in a      *)
(* directory whose files, branch and tracking branch were at one commit.   *)
(***************************************************************************)
Even(g, b) ==
  /\ g.heads[b] = g.tracking[b]
  /\ \A f \in File : g.files[f] = g.heads[b]

\* Where it stands.
Undisturbed(p) ==
  LET j == job[p]
      g == git[j.dir]
      r == remote[j.url][j.branch]
  IN  /\ pc[p] \in {"open", "fetch"} => Even(g, j.branch) /\ g.tracking[j.branch] <= r
      /\ pc[p] \in Steps \ {"open", "fetch"} => g.tracking[j.branch] = r
      /\ pc[p] \in {"tip", "branch"} => \A f \in File : g.files[f] = g.heads[j.branch]
      /\ pc[p] \in {"branch", "create", "checkout", "target", "head"} => j.tip = r
      /\ pc[p] = "create" => j.left = File
      /\ pc[p] = "checkout" => \A f \in File \ j.left : g.files[f] = r
      /\ pc[p] \in {"target", "head"} => \A f \in File : g.files[f] = r
      /\ pc[p] = "head" => g.heads[j.branch] = r

\* How a call of it ends: it goes on, it has failed, or it has brought what is there.
Brought(p) ==
  LET j == job[p]
      g == git'[j.dir]
  IN  /\ g.is = "repo" /\ Even(g, j.branch)
      /\ g.tracking[j.branch] = remote[j.url][j.branch]

GoesWell(p) ==
  \/ pc'[p] # "idle" /\ Undisturbed(p)'
  \/ pc'[p] = "idle" /\ result'[p] = "error" /\ <<job[p].dir, "failed">> \in past'
  \/ pc'[p] = "idle" /\ result'[p] = "ok" /\ Brought(p)

\* git fetch brings what is there, since the tracking branch is not ahead of it.
LEMMA FetchedIsSent ==
  ASSUME ForwardOnly, NEW old \in Version, NEW sent \in Version, old <= sent
  PROVE  Fetched(old, sent) = sent
<1>1. old \in Nat /\ sent \in Nat
  BY CommitAssumption DEF Version
<1>2. CASE old = sent
  BY <1>2 DEF Fetched
<1>3. CASE old = 0
  BY <1>3 DEF Fetched
<1>4. CASE old # 0 /\ old # sent
  BY <1>1, <1>4, CommitAssumption DEF Fetched, ForwardOnly, Commit, Version
<1> QED BY <1>2, <1>3, <1>4

LEMMA UndisturbedGoesOn ==
  ASSUME TypeInv, ForwardOnly, NEW p \in Pid, GitStep(p) \/ GitFails(p), Undisturbed(p)
  PROVE  GoesWell(p)
<1> USE DEF At, Here, There
<1> DEFINE j == job[p]
           d == j.dir
           b == j.branch
           g == git[d]
           r == remote[j.url][b]
<1>1. /\ j \in Job /\ d \in Dir /\ j.url \in Url /\ b \in Branch
      /\ j.left \subseteq File /\ r \in Version
      /\ g \in Repository /\ git \in [Dir -> Repository] /\ job \in [Pid -> Job \cup {None}]
      /\ pc \in [Pid -> Steps \cup {"idle"}] /\ result \in [Pid -> {"none", "ok", "error"}]
      /\ g.heads \in [Branch -> Version] /\ g.tracking \in [Branch -> Version]
      /\ g.files \in [File -> Version] /\ pc[p] # "idle"
  BY StepIsLocal DEF TypeInv, TypeOK, Job, Repository
<1>2. ASSUME Fail(p)
      PROVE  GoesWell(p)
  BY <1>1, <1>2 DEF Fail, Return, GoesWell
<1>3. ASSUME NEW step, Goto(p, step)
      PROVE  pc'[p] = step
  BY <1>1, <1>3 DEF Goto
<1>4. CASE OpenRepository(p)
  <2>1. Fail(p) \/ (Goto(p, "fetch") /\ UNCHANGED <<remote, job>>
                    /\ git' \in {git, [git EXCEPT ![d] = Blank("repo")]})
    BY <1>4 DEF OpenRepository
  <2>2. Even(Blank("repo"), b) /\ Blank("repo").tracking[b] <= r
    <3>1. r \in Nat
      BY <1>1, CommitAssumption DEF Version
    <3> QED BY <1>1, <3>1 DEF Blank, Even
  <2>3. Even(g, b) /\ g.tracking[b] <= r
    BY <1>4 DEF OpenRepository, Undisturbed
  <2>4. CASE ~Fail(p)
    <3>1. git'[d] \in {g, Blank("repo")} /\ pc'[p] = "fetch" /\ job'[p] = j /\ remote' = remote
      BY <2>1, <2>4, <1>1, <1>3
    <3>2. Even(git'[d], b) /\ git'[d].tracking[b] <= r
      BY <3>1, <2>2, <2>3
    <3> QED BY <3>1, <3>2 DEF GoesWell, Undisturbed, Steps, Even
  <2> QED BY <2>4, <1>2
<1>5. CASE Fetch(p)
  <2>1. Even(g, b) /\ g.tracking[b] <= r
    BY <1>5 DEF Fetch, Undisturbed
  <2>2. Fetched(g.tracking[b], r) = r
    BY <2>1, <1>1, FetchedIsSent
  <2>3. /\ git' = [git EXCEPT ![d].tracking[b] = Fetched(@, r)] /\ remote' = remote
        /\ job' = [job EXCEPT ![p].seen = r] /\ Goto(p, "tip")
    BY <1>5 DEF Fetch
  <2>4. /\ git'[d].tracking[b] = r /\ git'[d].heads = g.heads /\ git'[d].files = g.files
        /\ job'[p].dir = d /\ job'[p].url = j.url /\ job'[p].branch = b
    BY <2>2, <2>3, <1>1 DEF Job, Repository
  <2>5. pc'[p] = "tip"
    BY <2>3, <1>3
  <2> QED BY <2>1, <2>3, <2>4, <2>5 DEF GoesWell, Undisturbed, Steps, Even
<1>6. CASE LookupTrackingRef(p) /\ ~Fail(p)
  <2>1. /\ g.tracking[b] = r /\ \A f \in File : g.files[f] = g.heads[b]
    BY <1>6 DEF LookupTrackingRef, Undisturbed, Steps
  <2>2. job' = [job EXCEPT ![p].tip = r] /\ Goto(p, "branch") /\ UNCHANGED <<remote, git>>
    BY <2>1, <1>6 DEF LookupTrackingRef
  <2>3. /\ job'[p].dir = d /\ job'[p].url = j.url /\ job'[p].branch = b /\ job'[p].tip = r
    BY <2>2, <1>1 DEF Job
  <2>4. pc'[p] = "branch"
    BY <2>2, <1>3
  <2> QED BY <2>1, <2>2, <2>3, <2>4 DEF GoesWell, Undisturbed, Steps
<1>7. CASE LookupBranch(p)
  <2>1. g.tracking[b] = r /\ j.tip = r /\ \A f \in File : g.files[f] = g.heads[b]
    BY <1>7 DEF LookupBranch, Undisturbed, Steps
  <2>2. /\ job' = [job EXCEPT ![p].old = g.heads[b], ![p].left = File]
        /\ Goto(p, IF g.heads[b] = r THEN "head"
                   ELSE IF g.heads[b] = 0 THEN "create" ELSE "checkout")
        /\ UNCHANGED <<remote, git>>
    BY <2>1, <1>7 DEF LookupBranch
  <2>3. /\ job'[p].dir = d /\ job'[p].url = j.url /\ job'[p].branch = b /\ job'[p].tip = r
        /\ job'[p].left = File
    BY <2>1, <2>2, <1>1 DEF Job
  <2>4. pc'[p] = IF g.heads[b] = r THEN "head"
                 ELSE IF g.heads[b] = 0 THEN "create" ELSE "checkout"
    BY <2>2, <1>3
  <2> QED BY <2>1, <2>2, <2>3, <2>4 DEF GoesWell, Undisturbed, Steps
<1>8. CASE CreateBranch(p) /\ ~Fail(p)
  <2>1. g.tracking[b] = r /\ j.tip = r /\ j.left = File
    BY <1>8 DEF CreateBranch, Undisturbed, Steps
  <2>2. /\ git' = [git EXCEPT ![d].heads[b] = r] /\ job' = [job EXCEPT ![p].old = r]
        /\ Goto(p, "checkout") /\ UNCHANGED remote
    BY <2>1, <1>8 DEF CreateBranch
  <2>3. /\ git'[d].tracking = g.tracking
        /\ job'[p].dir = d /\ job'[p].url = j.url /\ job'[p].branch = b /\ job'[p].tip = r
        /\ job'[p].left = File
    BY <2>1, <2>2, <1>1 DEF Job, Repository
  <2>4. pc'[p] = "checkout"
    BY <2>2, <1>3
  <2> QED BY <2>1, <2>2, <2>3, <2>4 DEF GoesWell, Undisturbed, Steps
<1>9. CASE CheckoutFile(p)
  <2>1. g.tracking[b] = r /\ j.tip = r /\ \A f \in File \ j.left : g.files[f] = r
    BY <1>9 DEF CheckoutFile, Undisturbed, Steps
  <2>2. PICK f \in j.left :
          /\ git' = [git EXCEPT ![d].files[f] = r]
          /\ job' = [job EXCEPT ![p].left = @ \ {f}]
          /\ Goto(p, IF j.left = {f} THEN "target" ELSE "checkout")
    BY <2>1, <1>9 DEF CheckoutFile
  <2>3. /\ git'[d].tracking = g.tracking /\ git'[d].files = [g.files EXCEPT ![f] = r]
        /\ job'[p].dir = d /\ job'[p].url = j.url /\ job'[p].branch = b /\ job'[p].tip = r
        /\ job'[p].left = j.left \ {f} /\ remote' = remote
    BY <2>1, <2>2, <1>1, <1>9 DEF Job, Repository, CheckoutFile
  <2>4. pc'[p] = IF j.left = {f} THEN "target" ELSE "checkout"
    BY <2>2, <1>3
  <2>5. \A e \in File \ (j.left \ {f}) : git'[d].files[e] = r
    BY <2>1, <2>3, <1>1
  <2>6. j.left = {f} => \A e \in File : git'[d].files[e] = r
    BY <2>5
  <2> QED BY <2>1, <2>3, <2>4, <2>5, <2>6 DEF GoesWell, Undisturbed, Steps
<1>10. CASE SetTarget(p) /\ ~Fail(p)
  <2>1. g.tracking[b] = r /\ j.tip = r /\ \A f \in File : g.files[f] = r
    BY <1>10 DEF SetTarget, Undisturbed, Steps
  <2>2. /\ git' = [git EXCEPT ![d].heads[b] = r] /\ pc' = [pc EXCEPT ![p] = "head"]
        /\ UNCHANGED <<remote, job>>
    BY <2>1, <1>10 DEF SetTarget, MoveBranch
  <2>3. /\ git'[d].tracking = g.tracking /\ git'[d].files = g.files /\ git'[d].heads[b] = r
        /\ pc'[p] = "head"
    BY <2>2, <1>1 DEF Repository
  <2> QED BY <2>1, <2>2, <2>3 DEF GoesWell, Undisturbed, Steps
<1>11. CASE SetHead(p)
  <2>1. g.tracking[b] = r /\ g.heads[b] = r /\ g.is = "repo" /\ \A f \in File : g.files[f] = r
    BY <1>11 DEF SetHead, Undisturbed, Steps
  <2>2. git' = [git EXCEPT ![d].head = b] /\ Return(p, "ok")
    BY <1>11 DEF SetHead
  <2>3. /\ git'[d].tracking = g.tracking /\ git'[d].files = g.files /\ git'[d].heads = g.heads
        /\ git'[d].is = "repo" /\ pc'[p] = "idle" /\ result'[p] = "ok"
    BY <2>1, <2>2, <1>1 DEF Repository, Return
  <2> QED BY <2>1, <2>3 DEF GoesWell, Brought, Even
<1> QED
  BY <1>2, <1>4, <1>5, <1>6, <1>7, <1>8, <1>9, <1>10, <1>11 DEF GitStep, GitFails
=============================================================================
