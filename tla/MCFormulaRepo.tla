--------------------------- MODULE MCFormulaRepo ---------------------------
(***************************************************************************)
(* Small instances of FormulaRepo: official-core and one more repository,  *)
(* a handful of command lines.                                             *)
(***************************************************************************)
EXTENDS FormulaRepo, TLC

CONSTANTS
  core, mine, u, master, p1, p2,
  MaxCommands, \* commands begun in one behaviour (bound)
  Overlap,     \* a command may begin while another one runs
  MayFail,     \* calls may fail, processes may be killed
  CommandLine  \* the commands to choose from

VARIABLE commands    \* commands begun so far

Linear == {e \in (1 .. MaxCommit) \X (1 .. MaxCommit) : e[1] < e[2]}

Dirs == Name \cup Pid

Settings(pinned, enabled) ==
  [url |-> u, branch |-> master, pinned |-> pinned, enabled |-> enabled]

Line(verb, name, conf, change) == <<verb, name, conf, change>>
Plain(verb, name) == Line(verb, name, Settings(FALSE, TRUE), <<>>)
Conf(name, change) == Line("conf", name, Settings(FALSE, TRUE), change)

SettingLines ==
  {Plain("add", mine), Line("init", mine, Settings(TRUE, TRUE), <<>>),
   Line("add", mine, Settings(FALSE, FALSE), <<>>), Plain("sync", mine), Plain("del", mine),
   Conf(mine, [pinned |-> TRUE]), Conf(mine, [pinned |-> FALSE, enabled |-> FALSE]),
   Plain("update", core)}

PlaceLines ==
  {Plain("add", mine), Plain("sync", mine), Plain("del", mine), Plain("del", core),
   Conf(mine, [pinned |-> TRUE]),
   Plain("update", core), Plain("search", core)}

MCInit == RepoInit /\ commands = 0 /\ remote[u][master] # 0

MCNext ==
  \/ /\ commands < MaxCommands /\ (Overlap \/ Quiet)
     /\ \E p \in Pid, l \in CommandLine : Invoke(p, l[1], l[2], l[3], l[4])
     /\ commands' = commands + 1
  \/ /\ \/ \E p \in Pid : RepoStep(p) \/ GitWork(p) \/ (MayFail /\ (CallFails(p) \/ Kill(p)))
        \/ (Elsewhere /\ (Overlap \/ Quiet))
     /\ UNCHANGED commands

MCSpec == MCInit /\ [][MCNext]_<<commands, repo, vars>>

Processes == Permutations(Pid)
=============================================================================
