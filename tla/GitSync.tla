------------------------------ MODULE GitSync ------------------------------
(***************************************************************************)
(* uppm_git_sync: bringing the worktree of a formula repository to the     *)
(* commit of a branch of its remote, with libgit2.                         *)
(*                                                                         *)
(* One action is one call of libgit2 that reads or writes the repository;  *)
(* the checkout is one action per file.  Several processes may work on one *)
(* directory: libgit2 locks single references while it writes them, and    *)
(* nothing else.  What libgit2 and the server do is modelled from how the  *)
(* code uses them.                                                         *)
(*                                                                         *)
(* Commits are numbered in the order in which they are made.  Every commit *)
(* changes every file, so that a file is known by the commit it is from;   *)
(* 0 stands for no commit, no reference, no file.                          *)
(***************************************************************************)
EXTENDS Naturals

CONSTANTS
  Pid,         \* processes
  Dir,         \* directories that hold a repository
  Url,         \* remotes
  Branch,      \* names of branches
  File,        \* the files of the formula directory
  MaxCommit,   \* number of commits (bound)
  Descends,    \* pairs <<c, d>> of commits: d is a descendant of c
  None

Commit  == 1 .. MaxCommit
Version == 0 .. MaxCommit

ASSUME FileAssumption == File # {}

ASSUME CommitAssumption == MaxCommit \in Nat \ {0} /\ Descends \subseteq Commit \X Commit


VARIABLES
  remote,      \* remote[u][b]: the commit of branch b at u
  git,         \* git[d]: the repository in directory d
  pc,          \* pc[p]: the next call of process p
  job,         \* job[p]: arguments and local variables of p's uppm_git_sync
  result,      \* result[p]: what p's last uppm_git_sync returned
  past         \* history: <<d, what>>, what has happened to directory d

vars == <<remote, git, pc, job, result, past>>

\* A directory: is it there, the branches, the remote-tracking branches, the branch
\* that HEAD names and the files of the worktree.
Repository == [is       : {"absent", "empty", "repo", "damaged"},
               heads    : [Branch -> Version],
               tracking : [Branch -> Version],
               head     : Branch \cup {None},
               files    : [File -> Version]]

Blank(is) == [is       |-> is,
              heads    |-> [b \in Branch |-> 0],
              tracking |-> [b \in Branch |-> 0],
              head     |-> None,
              files    |-> [f \in File |-> 0]]

\* seen is a history field: the commit that the server sent.
Job == [dir : Dir, url : Url, branch : Branch,
        seen : Version, tip : Version, old : Version, left : SUBSET File]

ASSUME MarkAssumption == None \notin Branch /\ None \notin Job

\* A sync did not succeed; two syncs were under way at once; a sync was for another
\* branch than HEAD named; a branch came back to the commit at which another sync,
\* still under way, had found it.
Mishap == {"failed", "overlap", "switched", "back"}

Steps == {"open", "fetch", "tip", "branch", "create", "checkout", "target", "head"}

TypeOK ==
  /\ remote \in [Url -> [Branch -> Version]]
  /\ git \in [Dir -> Repository]
  /\ pc \in [Pid -> Steps \cup {"idle"}]
  /\ job \in [Pid -> Job \cup {None}]
  /\ \A p \in Pid :
       /\ pc[p] # "idle" => job[p] \in Job
       /\ pc[p] \in {"branch", "create", "checkout", "target", "head"} => job[p].tip # 0
       /\ pc[p] = "checkout" => job[p].left # {}
  /\ result \in [Pid -> {"none", "ok", "error"}]
  /\ past \subseteq Dir \X Mishap

(***************************************************************************)
(* How a call goes on.                                                     *)
(***************************************************************************)
At(p, step) == pc[p] = step

Goto(p, step) == pc' = [pc EXCEPT ![p] = step] /\ UNCHANGED <<result, past>>

Return(p, r) ==
  /\ pc'     = [pc EXCEPT ![p] = "idle"]
  /\ result' = [result EXCEPT ![p] = r]
  /\ past'   = IF r = "ok" THEN past ELSE past \cup {<<job[p].dir, "failed">>}

Fail(p) == Return(p, "error") /\ UNCHANGED <<remote, git, job>>

Here(p)  == git[job[p].dir]
There(p) == job[p].branch

SyncStart(p, d, u, b) ==
  /\ At(p, "idle")
  /\ pc' = [pc EXCEPT ![p] = "open"]
  /\ job' = [job EXCEPT ![p] = [dir |-> d, url |-> u, branch |-> b,
                                seen |-> 0, tip |-> 0, old |-> 0, left |-> {}]]
  /\ past' = past \cup {<<d, m>> : m \in
       {x \in {"overlap"} : \E q \in Pid : pc[q] # "idle" /\ job[q].dir = d}
         \cup {x \in {"switched"} : git[d].head # b}}
  /\ UNCHANGED <<remote, git, result>>

(***************************************************************************)
(* The calls of uppm_git_sync, in their order.                             *)
(***************************************************************************)

\* An empty directory is made a repository, any other one must be a repository.
OpenRepository(p) ==
  /\ At(p, "open")
  /\ CASE Here(p).is = "empty" ->
            /\ git' = [git EXCEPT ![job[p].dir] = Blank("repo")]
            /\ Goto(p, "fetch")
            /\ UNCHANGED <<remote, job>>
       [] Here(p).is = "repo" ->
            Goto(p, "fetch") /\ UNCHANGED <<remote, git, job>>
       [] OTHER -> Fail(p)

\* A refspec without a plus sign: a tracking branch moves to a descendant only, and
\* git says nothing when it does not move.
Fetched(old, new) ==
  IF new # 0 /\ (old = 0 \/ <<old, new>> \in Descends) THEN new ELSE old

\* git fetch origin refs/heads/<branch>:refs/remotes/origin/<branch>
Fetch(p) ==
  LET sent == remote[job[p].url][There(p)]
  IN  /\ At(p, "fetch") /\ Here(p).is = "repo"
      /\ git' = [git EXCEPT ![job[p].dir].tracking[There(p)] = Fetched(@, sent)]
      /\ job' = [job EXCEPT ![p].seen = sent]
      /\ Goto(p, "tip")
      /\ UNCHANGED remote

\* The reference is read once, later calls use what was read.
LookupTrackingRef(p) ==
  LET tip == Here(p).tracking[There(p)]
  IN  /\ At(p, "tip") /\ Here(p).is = "repo"
      /\ IF tip = 0
           THEN Fail(p)
           ELSE /\ job' = [job EXCEPT ![p].tip = tip]
                /\ Goto(p, "branch")
                /\ UNCHANGED <<remote, git>>

\* Mutant: the branch is moved when it is looked up, before the files are written.
BranchMovedFirst(p) ==
  LET old == Here(p).heads[There(p)]
  IN  /\ At(p, "branch") /\ Here(p).is = "repo"
      /\ job' = [job EXCEPT ![p].old = job[p].tip, ![p].left = File]
      /\ Goto(p, IF old = job[p].tip THEN "head" ELSE "checkout")
      /\ git' = [git EXCEPT ![job[p].dir].heads[There(p)] = job[p].tip]
      /\ UNCHANGED remote

\* A branch that is at the commit already needs no checkout.
LookupBranch(p) ==
  LET old == Here(p).heads[There(p)]
  IN  /\ At(p, "branch") /\ Here(p).is = "repo"
      /\ job' = [job EXCEPT ![p].old = old, ![p].left = File]
      /\ Goto(p, IF old = job[p].tip THEN "head" ELSE IF old = 0 THEN "create" ELSE "checkout")
      /\ UNCHANGED <<remote, git>>

\* git_reference_create without force fails when the branch has come into being.
CreateBranch(p) ==
  /\ At(p, "create") /\ Here(p).is = "repo"
  /\ IF Here(p).heads[There(p)] # 0
       THEN Fail(p)
       ELSE /\ git' = [git EXCEPT ![job[p].dir].heads[There(p)] = job[p].tip]
            /\ job' = [job EXCEPT ![p].old = job[p].tip]
            /\ Goto(p, "checkout")
            /\ UNCHANGED remote

\* git_checkout_tree, with force: writes one file after the other.
CheckoutFile(p) ==
  /\ At(p, "checkout") /\ Here(p).is = "repo"
  /\ \E f \in job[p].left :
       /\ git' = [git EXCEPT ![job[p].dir].files[f] = job[p].tip]
       /\ job' = [job EXCEPT ![p].left = @ \ {f}]
       /\ Goto(p, IF job[p].left = {f} THEN "target" ELSE "checkout")
  /\ UNCHANGED remote

\* Another sync has yet to ask whether the branch is where it found it, and that is
\* where p is about to put it.
ComesBack(p) ==
  \E q \in Pid \ {p} :
    pc[q] \in {"checkout", "target"} /\ job[q].dir = job[p].dir /\ job[q].old = job[p].tip

MoveBranch(p) ==
  /\ git'  = [git EXCEPT ![job[p].dir].heads[There(p)] = job[p].tip]
  /\ pc'   = [pc EXCEPT ![p] = "head"]
  /\ past' = past \cup {<<job[p].dir, m>> : m \in {x \in {"back"} : ComesBack(p)}}
  /\ UNCHANGED <<remote, job, result>>

\* Mutant: the branch is moved whatever has happened to it.
SetTargetUnchecked(p) ==
  /\ At(p, "target") /\ Here(p).is = "repo"
  /\ MoveBranch(p)

\* git_reference_set_target fails when the branch is not any more what was read.
SetTarget(p) ==
  /\ At(p, "target") /\ Here(p).is = "repo"
  /\ IF Here(p).heads[There(p)] # job[p].old
       THEN Fail(p)
       ELSE MoveBranch(p)

SetHead(p) ==
  /\ At(p, "head") /\ Here(p).is = "repo"
  /\ git' = [git EXCEPT ![job[p].dir].head = There(p)]
  /\ Return(p, "ok")
  /\ UNCHANGED <<remote, job>>

GitStep(p) ==
  \/ OpenRepository(p) \/ Fetch(p) \/ LookupTrackingRef(p) \/ LookupBranch(p)
  \/ CreateBranch(p) \/ CheckoutFile(p) \/ SetTarget(p) \/ SetHead(p)

\* Any call may fail: no network, no space, a directory that is being deleted.  A
\* process that is killed leaves the directory in the same state.
GitFails(p) == pc[p] \in Steps /\ Fail(p)

\* A new commit is pushed, on top of the branch or (forced) in place of it.
Push(u, b, c) ==
  /\ c \in Commit /\ c > remote[u][b]
  /\ remote' = [remote EXCEPT ![u][b] = c]
  /\ UNCHANGED <<git, pc, job, result, past>>

-----------------------------------------------------------------------------
\* What formula-repo-add leaves behind when it has fetched commit c of branch b.
Clone(b, c) ==
  [Blank("repo") EXCEPT !.heads[b] = c, !.tracking[b] = c, !.head = b,
                        !.files = [f \in File |-> c]]

\* A directory is empty, or made by formula-repo-init, or by formula-repo-add.
Init ==
  /\ remote \in [Url -> [Branch -> Version]]
  /\ \E u \in Url, b \in Branch :
       git \in [Dir -> {Blank("empty"), Blank("repo")}
                       \cup (IF remote[u][b] = 0 THEN {} ELSE {Clone(b, remote[u][b])})]
  /\ pc     = [p \in Pid |-> "idle"]
  /\ job    = [p \in Pid |-> None]
  /\ result = [p \in Pid |-> "none"]
  /\ past   = {}

Next ==
  \/ \E p \in Pid :
       \/ \E d \in Dir, u \in Url, b \in Branch : SyncStart(p, d, u, b)
       \/ GitStep(p) \/ GitFails(p)
  \/ \E u \in Url, b \in Branch, c \in Commit : Push(u, b, c)

Spec == Init /\ [][Next]_vars

-----------------------------------------------------------------------------
\* None of these has happened to directory d.
Spared(d, mishaps) == \A m \in mishaps : <<d, m>> \notin past

\* When uppm_git_sync returns successfully, every file of the worktree is the one of
\* the commit that the server sent for the branch, whatever an earlier call left
\* undone, as long as no two syncs of the directory have overlapped and it has stayed
\* on its branch.  (The comment before the function:
\* `git checkout --force -B <branch> refs/remotes/origin/<branch>'.)
SyncedIsRemote ==
  [][\A p \in Pid :
       pc[p] # "idle" /\ pc'[p] = "idle" /\ result'[p] = "ok"
         /\ Spared(job[p].dir, {"overlap", "switched"}) =>
           \A f \in File : git'[job[p].dir].files[f] = job[p].seen]_vars

\* When syncs of one directory overlap they may disturb each other, but then one of
\* them says so: as long as all have succeeded and none is under way, the files are
\* those of the branch that HEAD names.  The directory has stayed on its branch, and
\* no branch has come back to where another sync had found it: that sync would not
\* notice that it had been moved.
SuccessMeansClean ==
  \A d \in Dir :
    /\ Spared(d, {"failed", "switched", "back"})
    /\ git[d].head # None
    /\ \A p \in Pid : pc[p] # "idle" => job[p].dir # d
    => \A f \in File : git[d].files[f] = git[d].heads[git[d].head]
=============================================================================
