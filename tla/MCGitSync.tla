----------------------------- MODULE MCGitSync -----------------------------
(***************************************************************************)
(* Small instances of GitSync: one directory, synced MaxSyncs times.       *)
(***************************************************************************)
EXTENDS GitSync, TLC

CONSTANTS
  d, u, master, dev, p1, p2, p3,
  MaxSyncs,    \* syncs begun in one behaviour (bound)
  Overlap,     \* a sync may begin while another one is under way
  MayFail,     \* calls may fail, processes may be killed
  Cloned       \* the repository was made by formula-repo-add

VARIABLE syncs    \* syncs begun so far

\* Every commit is made on top of all earlier ones.
Linear == {e \in (1 .. MaxCommit) \X (1 .. MaxCommit) : e[1] < e[2]}

\* Commit 3 takes the place of 2.
Rewritten == {<<1, 2>>, <<1, 3>>}

Quiet == \A p \in Pid : pc[p] = "idle"

MCInit ==
  /\ Init
  /\ git[d].is = "repo" /\ (git[d].head = master <=> Cloned)
  /\ git[d].head \in {master, None}
  /\ syncs = 0

MCNext ==
  \/ /\ syncs < MaxSyncs /\ (Overlap \/ Quiet)
     /\ \E p \in Pid, b \in Branch : SyncStart(p, d, u, b)
     /\ syncs' = syncs + 1
  \/ /\ \/ \E p \in Pid : GitStep(p) \/ (MayFail /\ GitFails(p))
        \/ \E b \in Branch, c \in Commit : Push(u, b, c)
     /\ UNCHANGED syncs

MCSpec == MCInit /\ [][MCNext]_<<syncs, vars>>

Processes == Permutations(Pid)
=============================================================================
