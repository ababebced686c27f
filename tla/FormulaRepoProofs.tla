------------------------- MODULE FormulaRepoProofs -------------------------
(***************************************************************************)
(* For any number of processes, repositories, remotes and files, and any   *)
(* commands at once: a repository appears whole, stays whole until someone *)
(* deletes it, and an update that reports success leaves official-core     *)
(* there.  For commands one after the other: the settings of a repository  *)
(* are those that were asked for, a pinned one is not updated, and         *)
(* `update' brings every other one up to date.                             *)
(*                                                                         *)
(* The argument is that run/<pid> is touched by its process alone, so that *)
(* what it renames into place is what it has prepared; that no command but *)
(* formula-repo-del takes a config file or a worktree away; and that a     *)
(* config file that has been deleted while it was open is not written any  *)
(* more.  When nothing runs beside it, a command that has read settings    *)
(* writes these back, into a file that it has emptied itself; a sync that  *)
(* nothing disturbs brings what is there or fails; and `update' crosses a  *)
(* repository off its list only when it is pinned or has been brought.     *)
(***************************************************************************)
EXTENDS FormulaRepo, GitSyncProofs, SequenceTheorems

-----------------------------------------------------------------------------
(***************************************************************************)
(* The inductive invariant.                                                *)
(***************************************************************************)
\* The options of the command line keep settings valid, whatever they are.
Sound(change) == \A conf \in Config : Merge(conf, change) \in Config

RepoTypes ==
  /\ TypeInv
  /\ config \in [Dir -> Config \cup {None, Empty, Garbled}]
  /\ command \in [Pid -> Command \cup {None}]
  /\ exit \in [Pid -> {"none", "ok", "error", "segv", "killed"}]
  /\ asked \in [Name -> Config \cup {None}]
  /\ torn \subseteq Name

\* The steps in which a new repository is prepared and put into its place.
Preparing == {"exists", "session", "init", "clone", "cloned", "write", "rename"}

StepsOf(verb) ==
  CASE verb = "init"   -> Preparing \ {"clone", "cloned"}
    [] verb = "add"    -> Preparing \ {"init"}
    [] verb = "del"    -> {"stat", "config", "remove"}
    [] verb = "conf"   -> {"lookup", "open", "save"}
    [] verb = "sync"   -> {"lookup", "pull", "pulled", "open", "save"}
    [] verb = "update" -> {"list", "each", "pull", "pulled", "open", "save"}
                            \cup (Preparing \ {"init"})
    [] verb = "search" -> {"list", "search"}

CommandOK(c) ==
  /\ c.step \in StepsOf(c.verb)
  /\ Sound(c.change)
  /\ c.verb = "del" /\ c.step # "stat" => c.name # Official
  /\ c.verb = "update" /\ c.step \in Preparing => c.name = Official
  /\ c.step = "list" => c.todo \subseteq Name
  /\ c.fd \in IF c.step = "save" THEN {c.name, Unlinked} ELSE {None}

\* A process is in uppm_git_sync while its command waits for that, and nowhere else.
SyncOK(p) ==
  pc[p] # "idle" =>
    /\ command[p] # None
    /\ \/ command[p].step = "cloned" /\ job[p].dir = p /\ job[p].branch = command[p].conf.branch
       \/ command[p].step = "pulled" /\ job[p].dir = command[p].name

\* A worktree with the files of its branch.
OnBranch(g, b) ==
  g.is = "repo" /\ g.head = b /\ \A f \in File : g.files[f] = g.heads[b]

\* How far the clone of branch b in run/<p> is.
Cloning(p, b) ==
  LET g == git[p]
      j == job[p]
  IN  CASE pc[p] = "open" -> g = Blank("empty")
        [] pc[p] \in {"fetch", "tip", "branch"} -> g.is = "repo" /\ g.heads[b] = 0
        [] pc[p] = "create" -> g.is = "repo" /\ g.heads[b] = 0 /\ j.left = File
        [] pc[p] \in {"checkout", "target", "head"} ->
             /\ g.is = "repo" /\ g.heads[b] = j.tip /\ j.old = j.tip
             /\ pc[p] # "checkout" => j.left = {}
             /\ \A f \in File \ j.left : g.files[f] = j.tip
        [] OTHER -> result[p] = "ok" => OnBranch(g, b)

SessionOK(p) ==
  command[p] # None =>
    LET c == command[p]
    IN  /\ c.step = "clone" => git[p] = Blank("empty")
        /\ c.step = "cloned" => Cloning(p, c.conf.branch)
        /\ c.step \in {"write", "rename"} =>
             git[p].is = "repo" /\ (c.verb # "init" => OnBranch(git[p], c.conf.branch))
        /\ c.step = "rename" => config[p] = c.conf

\* A directory without anything in it has no config file, and the config file of a
\* repository that nobody deletes is there.
PlaceOK(d) ==
  /\ git[d].is \in {"absent", "empty"} => config[d] = None
  /\ d \in Name \ torn => git[d].is = "absent" \/ (git[d].is = "repo" /\ config[d] # None)

\* A config file that can still be written through is there.
OpenOK(p) ==
  command[p] # None /\ command[p].fd \in Name => config[command[p].fd] # None

\* What `update' has seen of official-core stays there.
HasSeen(c) == c.official \/ \E i \in 1 .. Len(c.list) : c.list[i].name = Official

SeenOK(p) == command[p] # None /\ HasSeen(command[p]) => git[Official].is # "absent"

RepoInv ==
  /\ RepoTypes
  /\ Official \notin torn
  /\ \A d \in Dir : PlaceOK(d)
  /\ \A p \in Pid : /\ command[p] # None => CommandOK(command[p])
                    /\ SyncOK(p) /\ SessionOK(p) /\ OpenOK(p) /\ SeenOK(p)

-----------------------------------------------------------------------------
(***************************************************************************)
(* Types.                                                                  *)
(***************************************************************************)
RepoAction(p) == RepoStep(p) \/ GitWork(p) \/ CallFails(p) \/ Kill(p)

InvokeAny(p) ==
  \E verb \in Verb, n \in Name, conf \in Config :
    \E change \in {ch \in Change : Merge(conf, ch) \in Config} :
      Invoke(p, verb, n, conf, change)

LEMMA MergeSound ==
  ASSUME NEW conf \in Config, NEW change, Merge(conf, change) \in Config
  PROVE  Sound(change)
<1> DEFINE Valid == /\ "url" \in DOMAIN change => change["url"] \in Url
                    /\ "branch" \in DOMAIN change => change["branch"] \in Branch
                    /\ "pinned" \in DOMAIN change => change["pinned"] \in BOOLEAN
                    /\ "enabled" \in DOMAIN change => change["enabled"] \in BOOLEAN
<1>1. Valid
  BY DEF Merge, Option, Config
<1>2. ASSUME NEW c \in Config
      PROVE  Merge(c, change) \in Config
  BY <1>1, <1>2 DEF Merge, Option, Config
<1> QED BY <1>2 DEF Sound

LEMMA BlankIsRepository ==
  \A is \in {"absent", "empty", "repo", "damaged"} :
    Blank(is) \in Repository /\ Blank(is).is = is
<1>1. 0 \in Version
  BY CommitAssumption DEF Version
<1> QED BY <1>1 DEF Blank, Repository

\* What a command has at hand, and how it is changed field by field.
LEMMA Fields ==
  ASSUME NEW c \in Command
  PROVE  /\ c.verb \in Verb /\ c.step \in CommandStep /\ c.name \in Name /\ c.conf \in Config
         /\ c.change \in Change /\ c.todo \subseteq Name \cup {"config", "files"}
         /\ c.list \in Seq(Entry) /\ c.official \in BOOLEAN /\ c.ret \in {"ok", "error"}
         /\ c.fd \in Name \cup {None, Unlinked}
BY DEF Command

LEMMA Edits ==
  ASSUME NEW c \in Command, NEW step \in CommandStep
  PROVE  /\ [c EXCEPT !.step = step] \in Command
         /\ \A todo \in SUBSET c.todo : [c EXCEPT !.todo = todo] \in Command
         /\ \A fd \in Name \cup {None, Unlinked} :
              /\ [c EXCEPT !.fd = fd] \in Command
              /\ [c EXCEPT !.step = step, !.fd = fd] \in Command
         /\ \A conf \in Config : [c EXCEPT !.conf = conf, !.step = step] \in Command
         /\ \A name \in Name, conf \in Config :
              [c EXCEPT !.step = step, !.name = name, !.conf = conf] \in Command
BY DEF Command

-----------------------------------------------------------------------------
(***************************************************************************)
(* The commands.                                                           *)
(***************************************************************************)
\* A deleted config file goes on to exist for the process that has opened it.
FileUnlinked(q) ==
  /\ command[q] # None /\ command[q].fd \in Name
  /\ command'[q] = [command[q] EXCEPT !.fd = Unlinked]

CommandsOK(p) ==
  /\ command' \in [Pid -> Command \cup {None}]
  /\ exit' \in [Pid -> {"none", "ok", "error", "segv", "killed"}]
  /\ command'[p] # None => CommandOK(command'[p])
  /\ \A q \in Pid \ {p} : command'[q] = command[q] \/ FileUnlinked(q)

LEMMA CommandGoesOn ==
  ASSUME RepoInv, NEW p \in Pid
  PROVE  /\ \A r \in {"ok", "error", "segv", "killed"} :
              Exit(p, r) => CommandsOK(p) /\ exit'[p] = r
         /\ \A c \in Command :
              command' = [command EXCEPT ![p] = c] /\ exit' = exit /\ CommandOK(c) =>
                CommandsOK(p) /\ command'[p] # None
         /\ UNCHANGED <<command, exit>> => CommandsOK(p)
<1> USE DEF RepoInv, RepoTypes
<1>1. ASSUME NEW r \in {"ok", "error", "segv", "killed"}, Exit(p, r)
      PROVE  CommandsOK(p) /\ exit'[p] = r
  BY <1>1 DEF Exit, CommandsOK
<1>2. ASSUME NEW c \in Command, command' = [command EXCEPT ![p] = c], exit' = exit, CommandOK(c)
      PROVE  CommandsOK(p) /\ command'[p] # None
  BY <1>2, CommandMarkAssumption DEF CommandsOK
<1>3. ASSUME UNCHANGED <<command, exit>>
      PROVE  CommandsOK(p)
  BY <1>3 DEF CommandsOK
<1> QED BY <1>1, <1>2, <1>3

LEMMA StepsOfVerbs ==
  /\ StepsOf("init")   = {"exists", "session", "init", "write", "rename"}
  /\ StepsOf("add")    = {"exists", "session", "clone", "cloned", "write", "rename"}
  /\ StepsOf("del")    = {"stat", "config", "remove"}
  /\ StepsOf("conf")   = {"lookup", "open", "save"}
  /\ StepsOf("sync")   = {"lookup", "pull", "pulled", "open", "save"}
  /\ StepsOf("update") = {"list", "each", "pull", "pulled", "open", "save",
                          "exists", "session", "clone", "cloned", "write", "rename"}
  /\ StepsOf("search") = {"list", "search"}
BY DEF StepsOf, Preparing

\* From one step of a verb to another that opens no file.
LEMMA StepGoesOn ==
  ASSUME RepoInv, NEW p \in Pid, command[p] # None, NEW step \in CommandStep, Step(p, step),
         command[p].step # "save", step \notin {"save", "list"}, step \in StepsOf(command[p].verb),
         command[p].verb = "del" => command[p].name # Official,
         command[p].verb = "update" /\ step \in Preparing => command[p].step \in Preparing
  PROVE  CommandsOK(p)
<1>1. command[p] \in Command /\ CommandOK(command[p])
  BY DEF RepoInv, RepoTypes
<1>2. PICK c : c = [command[p] EXCEPT !.step = step]
  OBVIOUS
<1>3. c \in Command
  BY <1>1, <1>2, Edits
<1>4. /\ c.step = step /\ c.verb = command[p].verb /\ c.change = command[p].change
      /\ c.name = command[p].name /\ c.fd = command[p].fd
  BY <1>1, <1>2 DEF Command
<1>5. CommandOK(c)
  BY <1>1, <1>4 DEF CommandOK
<1>6. command' = [command EXCEPT ![p] = c] /\ exit' = exit
  BY <1>2 DEF Step
<1> QED BY <1>3, <1>5, <1>6, CommandGoesOn

LEMMA FailureGoesOn ==
  ASSUME RepoInv, NEW p \in Pid, command[p] # None, Failed(p)
  PROVE  CommandsOK(p) /\ (command'[p] = None => exit'[p] = "error")
<1>1. command[p] \in Command /\ CommandOK(command[p])
  BY DEF RepoInv, RepoTypes
<1>2. CASE Exit(p, "error")
  BY <1>2, CommandGoesOn
<1>3. CASE ~Exit(p, "error")
  <2>1. PICK c : c = [command[p] EXCEPT !.step = "each", !.list = <<>>, !.fd = None, !.ret = "error"]
    OBVIOUS
  <2>2. c \in Command
    <3>1. PICK l : l = <<>>
      OBVIOUS
    <3>2. l \in Seq(Entry)
      BY <3>1
    <3>3. c = [command[p] EXCEPT !.step = "each", !.list = l, !.fd = None, !.ret = "error"]
      BY <2>1, <3>1
    <3> QED BY <1>1, <3>2, <3>3 DEF Command, CommandStep
  <2>3. /\ c.step = "each" /\ c.verb = command[p].verb /\ c.change = command[p].change
        /\ c.fd = None
    BY <1>1, <2>1 DEF Command
  <2>4. command[p].verb = "update" /\ command' = [command EXCEPT ![p] = c] /\ exit' = exit
    BY <1>3, <2>1 DEF Failed
  <2>5. CommandOK(c)
    BY <1>1, <2>3, <2>4, StepsOfVerbs DEF CommandOK, Preparing
  <2> QED BY <2>2, <2>4, <2>5, CommandGoesOn
<1> QED BY <1>2, <1>3

LEMMA NewCommand ==
  ASSUME RepoInv, NEW p \in Pid, InvokeAny(p)
  PROVE  /\ CommandsOK(p) /\ command[p] = None /\ OnlyCommand
         /\ command'[p].step \notin {"clone", "cloned", "write", "rename", "pulled"}
         /\ command'[p].step \in {"exists", "stat", "lookup", "list"}
         /\ command'[p] # None /\ command'[p].fd = None /\ ~command'[p].official /\ command'[p].list = <<>>
<1>1. PICK verb \in Verb, n \in Name, conf \in Config, change \in Change :
        Merge(conf, change) \in Config /\ Invoke(p, verb, n, conf, change)
  BY DEF InvokeAny
<1>2. PICK l : l = <<>>
  OBVIOUS
<1>3. l \in Seq(Entry)
  BY <1>2
<1>4. PICK todo : todo = IF verb = "del" THEN {"config", "files"} ELSE Name
  OBVIOUS
<1>5. PICK step : step = FirstStep(verb)
  OBVIOUS
<1>6. /\ step \in StepsOf(verb) /\ step \in {"exists", "stat", "lookup", "list"}
      /\ verb = "del" => step = "stat"
      /\ verb = "update" => step = "list"
      /\ verb = "del" => step # "list"
  BY <1>5, StepsOfVerbs DEF FirstStep, Verb
<1>7. PICK c : c = [verb |-> verb, step |-> step, name |-> n, conf |-> conf,
                    change |-> change, todo |-> todo, list |-> l, official |-> FALSE,
                    ret |-> "ok", fd |-> None]
  OBVIOUS
<1>8. c \in Command
  BY <1>3, <1>4, <1>6, <1>7 DEF Command, CommandStep
<1>9. CommandOK(c)
  BY <1>1, <1>4, <1>6, <1>7, MergeSound DEF CommandOK, Preparing
<1>10. command[p] = None /\ OnlyCommand /\ exit' = exit /\ command' = [command EXCEPT ![p] = c]
  BY <1>1, <1>2, <1>4, <1>5, <1>7 DEF Invoke
<1>11. CommandsOK(p)
  BY <1>8, <1>9, <1>10, CommandGoesOn
<1>12. command'[p] = c
  BY <1>10 DEF RepoInv, RepoTypes
<1>13. c # None /\ c.step = step /\ c.fd = None /\ ~c.official /\ c.list = <<>>
  BY <1>2, <1>7, <1>8, CommandMarkAssumption
<1> QED BY <1>6, <1>10, <1>11, <1>12, <1>13

LEMMA SettingsGoOn ==
  ASSUME RepoInv, NEW p \in Pid, LookupRepo(p) \/ OpenConfig(p) \/ SaveConfig(p) \/ ShortWrite(p)
  PROVE  /\ CommandsOK(p)
         /\ command[p].verb = "update" /\ command'[p] = None => exit'[p] # "ok"
<1> DEFINE old == command[p]
<1>1. old # None /\ old \in Command /\ CommandOK(old) /\ old.verb \in Verb
  BY Fields DEF RepoInv, RepoTypes, LookupRepo, OpenConfig, SaveConfig, ShortWrite, Running
<1>2. ASSUME NEW conf \in Config, NEW step \in {"open", "pull"}, step \in StepsOf(old.verb),
             old.step # "save", old.verb # "del",
             command' = [command EXCEPT ![p].conf = conf, ![p].step = step], exit' = exit
      PROVE  CommandsOK(p) /\ command'[p] # None
  <2>1. PICK c : c = [old EXCEPT !.conf = conf, !.step = step]
    OBVIOUS
  <2>2. c \in Command
    BY <1>1, <2>1, Edits DEF CommandStep
  <2>3. /\ c.step = step /\ c.verb = old.verb /\ c.change = old.change
        /\ c.name = old.name /\ c.fd = old.fd
    BY <1>1, <2>1 DEF Command
  <2>4. CommandOK(c)
    BY <1>1, <1>2, <2>3 DEF CommandOK, Preparing
  <2>5. command' = [command EXCEPT ![p] = c]
    BY <1>2, <2>1
  <2> QED BY <2>2, <2>4, <2>5, <1>2, CommandGoesOn
<1>3. CASE LookupRepo(p)
  <2> DEFINE c == config[old.name]
  <2>1. old.step = "lookup" /\ old.verb \in {"conf", "sync"}
    BY <1>1, <1>3, StepsOfVerbs DEF LookupRepo, Running, CommandOK, Verb
  <2>2. c \in Config \cup {None, Empty, Garbled}
    BY <1>1, Fields, DirAssumption DEF RepoInv, RepoTypes
  <2>3. CASE \E r \in {"error", "segv", "ok"} : Exit(p, r)
    BY <2>1, <2>3, CommandGoesOn
  <2>4. CASE c \in Config /\ old.verb = "conf" /\ exit' = exit
             /\ command' = [command EXCEPT ![p].conf = Merge(c, old.change), ![p].step = "open"]
    <3>1. Merge(c, old.change) \in Config
      BY <2>4, <1>1 DEF CommandOK, Sound
    <3> QED BY <2>1, <2>4, <3>1, <1>2, StepsOfVerbs
  <2>5. CASE c \in Config /\ old.verb = "sync" /\ exit' = exit
             /\ command' = [command EXCEPT ![p].conf = c, ![p].step = "pull"]
    BY <2>1, <2>5, <1>2, StepsOfVerbs
  <2> QED BY <2>1, <2>2, <2>3, <2>4, <2>5, <1>3 DEF LookupRepo
<1>4. CASE OpenConfig(p)
  <2>1. CASE Failed(p)
    BY <2>1, <1>1, FailureGoesOn
  <2>2. CASE ~Failed(p)
    <3>1. PICK c : c = [old EXCEPT !.step = "save", !.fd = old.name]
      OBVIOUS
    <3>2. c \in Command
      BY <1>1, <3>1, Fields, Edits DEF CommandStep
    <3>3. /\ c.step = "save" /\ c.verb = old.verb /\ c.change = old.change
          /\ c.name = old.name /\ c.fd = old.name
      BY <1>1, <3>1 DEF Command
    <3>4. old.step = "open" /\ old.verb \in {"conf", "sync", "update"}
      BY <1>1, <1>4, StepsOfVerbs DEF OpenConfig, Running, CommandOK, Verb
    <3>5. CommandOK(c)
      BY <1>1, <3>3, <3>4, StepsOfVerbs DEF CommandOK, Preparing
    <3>6. command' = [command EXCEPT ![p] = c] /\ exit' = exit
      BY <2>2, <1>4, <3>1 DEF OpenConfig
    <3> QED BY <3>2, <3>5, <3>6, CommandGoesOn
  <2> QED BY <2>1, <2>2
<1>5. CASE SaveConfig(p)
  <2>1. CASE old.verb # "update"
    BY <2>1, <1>5, CommandGoesOn DEF SaveConfig, Saved
  <2>2. CASE old.verb = "update"
    <3>1. PICK c : c = [old EXCEPT !.step = "each", !.fd = None]
      OBVIOUS
    <3>2. c \in Command
      BY <1>1, <3>1, Edits DEF CommandStep
    <3>3. c.step = "each" /\ c.verb = old.verb /\ c.change = old.change /\ c.fd = None
      BY <1>1, <3>1 DEF Command
    <3>4. old.verb = "update" /\ command' = [command EXCEPT ![p] = c] /\ exit' = exit
      BY <2>2, <1>5, <3>1 DEF SaveConfig, Saved
    <3>5. CommandOK(c)
      BY <1>1, <3>3, <3>4, StepsOfVerbs DEF CommandOK, Preparing
    <3> QED BY <3>2, <3>4, <3>5, CommandGoesOn
  <2> QED BY <2>1, <2>2
<1>6. CASE ShortWrite(p)
  BY <1>1, <1>6, FailureGoesOn DEF ShortWrite
<1> QED BY <1>3, <1>4, <1>5, <1>6

LEMMA ListGoesOn ==
  ASSUME RepoInv, NEW p \in Pid, ListNext(p) \/ UpdateNext(p) \/ UpdateEnds(p)
  PROVE  /\ CommandsOK(p)
         /\ command'[p] = None => exit'[p] # "ok" \/ (UpdateEnds(p) /\ command[p].official)
<1> DEFINE old == command[p]
<1>1. old # None /\ old \in Command /\ CommandOK(old) /\ old.verb \in Verb /\ old.list \in Seq(Entry)
  BY Fields DEF RepoInv, RepoTypes, ListNext, UpdateNext, UpdateEnds, Running
<1>2. ASSUME NEW r \in {"ok", "error", "segv"}, Exit(p, r)
      PROVE  CommandsOK(p) /\ exit'[p] = r
  BY <1>2, CommandGoesOn
<1>3. CASE ListNext(p)
  <2>1. PICK n \in old.todo :
          \/ (command' = [command EXCEPT ![p].todo = @ \ {n}] /\ UNCHANGED exit)
          \/ Exit(p, "segv") \/ Exit(p, "error")
          \/ /\ config[n] \in Config
             /\ command' = [command EXCEPT ![p].todo = @ \ {n},
                                           ![p].list = Append(@, [name |-> n, conf |-> config[n]])]
             /\ UNCHANGED exit
    BY <1>3 DEF ListNext
  <2>3. old.step = "list" /\ old.verb \in {"update", "search"}
    BY <1>1, <1>3, StepsOfVerbs DEF ListNext, Running, CommandOK, Verb
  <2>2. n \in Name
    BY <1>1, <2>3 DEF CommandOK
  <2>4. CASE command' = [command EXCEPT ![p].todo = @ \ {n}] /\ UNCHANGED exit
    <3>1. PICK c : c = [old EXCEPT !.todo = @ \ {n}]
      OBVIOUS
    <3>2. c \in Command
      BY <1>1, <3>1, Fields DEF Command
    <3>3. /\ c.step = old.step /\ c.verb = old.verb /\ c.change = old.change
          /\ c.fd = old.fd /\ c.name = old.name
          /\ c.todo = old.todo \ {n}
      BY <1>1, <3>1 DEF Command
    <3>4. CommandOK(c)
      BY <1>1, <3>3 DEF CommandOK
    <3> QED BY <2>4, <3>1, <3>2, <3>4, CommandGoesOn
  <2>5. CASE /\ config[n] \in Config /\ UNCHANGED exit
             /\ command' = [command EXCEPT ![p].todo = @ \ {n},
                                           ![p].list = Append(@, [name |-> n, conf |-> config[n]])]
    <3>1. PICK l : l = Append(old.list, [name |-> n, conf |-> config[n]])
      OBVIOUS
    <3>3. l \in Seq(Entry)
      BY <1>1, <2>2, <2>5, <3>1 DEF Entry
    <3>4. PICK c : c = [old EXCEPT !.todo = @ \ {n}, !.list = l]
      OBVIOUS
    <3>5. c \in Command
      BY <1>1, <3>3, <3>4, Fields DEF Command
    <3>6. /\ c.step = old.step /\ c.verb = old.verb /\ c.change = old.change
          /\ c.fd = old.fd /\ c.name = old.name
          /\ c.todo = old.todo \ {n}
      BY <1>1, <3>4 DEF Command
    <3>7. CommandOK(c)
      BY <1>1, <3>6 DEF CommandOK
    <3>8. command' = [command EXCEPT ![p] = c]
      BY <2>5, <3>1, <3>4
    <3> QED BY <2>5, <3>5, <3>7, <3>8, CommandGoesOn
  <2> QED BY <2>1, <2>4, <2>5, <1>2
<1>4. CASE UpdateNext(p)
  <2>1. PICK e : e = Head(old.list)
    OBVIOUS
  <2>2. e \in Entry /\ e.name \in Name /\ e.conf \in Config
    <3>1. old.list # <<>>
      BY <1>4 DEF UpdateNext
    <3>2. e \in Entry
      BY <1>1, <2>1, <3>1, HeadTailProperties, Zenon
    <3> QED BY <3>2 DEF Entry
  <2>3. PICK l : l = Tail(old.list)
    OBVIOUS
  <2>4. l \in Seq(Entry)
    BY <1>1, <1>4, <2>3 DEF UpdateNext
  <2>5. PICK seen \in BOOLEAN : seen = (old.official \/ e.name = Official)
    OBVIOUS
  <2>6. PICK next : next = [old EXCEPT !.list = l, !.official = seen]
    OBVIOUS
  <2>7. next \in Command
    BY <1>1, <2>4, <2>6 DEF Command
  <2>8. /\ next.step = old.step /\ next.verb = old.verb /\ next.change = old.change
        /\ next.fd = old.fd /\ next.name = old.name
    BY <1>1, <2>6 DEF Command
  <2>9. PICK pull : pull = [next EXCEPT !.name = e.name, !.conf = e.conf, !.step = "pull"]
    OBVIOUS
  <2>10. pull \in Command
    BY <2>2, <2>7, <2>9 DEF Command, CommandStep
  <2>11. /\ pull.step = "pull" /\ pull.verb = old.verb /\ pull.change = old.change
         /\ pull.fd = old.fd
    BY <2>7, <2>8, <2>9 DEF Command
  <2>12. old.step = "each" /\ old.verb = "update"
    BY <1>1, <1>4, StepsOfVerbs DEF UpdateNext, Running, CommandOK, Verb
  <2>13. CommandOK(next) /\ CommandOK(pull)
    BY <1>1, <2>8, <2>11, <2>12, StepsOfVerbs DEF CommandOK, Preparing
  <2>14. next = [old EXCEPT !.list = Tail(@), !.official = @ \/ e.name = Official]
    BY <2>3, <2>5, <2>6
  <2>15. exit' = exit /\ command' = [command EXCEPT ![p] = IF Skipped(e.conf) THEN next ELSE pull]
    BY <1>4, <2>1, <2>9, <2>14 DEF UpdateNext
  <2>16. PICK c : c = IF Skipped(e.conf) THEN next ELSE pull
    OBVIOUS
  <2>17. c \in Command /\ CommandOK(c)
    BY <2>7, <2>10, <2>13, <2>16
  <2> QED BY <2>15, <2>16, <2>17, CommandGoesOn
<1>5. CASE UpdateEnds(p)
  <2>1. old.step = "each" /\ old.verb = "update"
    BY <1>1, <1>5, StepsOfVerbs DEF UpdateEnds, Running, CommandOK, Verb
  <2>2. CASE old.official
    BY <2>2, <1>2, <1>5 DEF UpdateEnds
  <2>3. CASE ~old.official
    <3>1. PICK conf : conf = [url |-> OfficialUrl, branch |-> Master, pinned |-> FALSE, enabled |-> TRUE]
      OBVIOUS
    <3>2. conf \in Config
      BY <3>1, DirAssumption DEF Config
    <3>3. PICK c : c = [old EXCEPT !.step = "exists", !.name = Official, !.conf = conf]
      OBVIOUS
    <3>4. c \in Command
      BY <1>1, <3>2, <3>3, Edits, DirAssumption DEF CommandStep
    <3>5. /\ c.step = "exists" /\ c.verb = old.verb /\ c.change = old.change
          /\ c.fd = old.fd /\ c.name = Official
      BY <1>1, <3>3 DEF Command
    <3>6. CommandOK(c)
      BY <1>1, <2>1, <3>5, StepsOfVerbs DEF CommandOK
    <3>7. exit' = exit /\ command' = [command EXCEPT ![p] = c]
      BY <2>3, <1>5, <3>1, <3>3 DEF UpdateEnds
    <3> QED BY <3>4, <3>6, <3>7, CommandGoesOn
  <2> QED BY <2>2, <2>3
<1> QED BY <1>3, <1>4, <1>5

LEMMA RemovalGoesOn ==
  ASSUME RepoInv, NEW p \in Pid, RemoveEntry(p)
  PROVE  CommandsOK(p)
<1> DEFINE old == command[p]
<1>1. old # None /\ old \in Command /\ CommandOK(old) /\ old.verb \in Verb /\ old.step = "remove"
  BY Fields DEF RepoInv, RepoTypes, RemoveEntry, Running
<1>2. PICK x \in old.todo :
        command' = [q \in Pid |->
          CASE q = p -> [command[p] EXCEPT !.todo = @ \ {x}]
            [] q # p /\ x = "config" /\ command[q] # None /\ command[q].fd = old.name ->
                 [command[q] EXCEPT !.fd = Unlinked]
            [] OTHER -> command[q]]
  BY <1>1 DEF RemoveEntry
<1>3. command'[p] = [old EXCEPT !.todo = @ \ {x}]
  BY <1>2
<1>4. PICK c : c = [old EXCEPT !.todo = @ \ {x}]
  OBVIOUS
<1>5. c \in Command
  BY <1>1, <1>4, Fields DEF Command
<1>6. /\ c.step = old.step /\ c.verb = old.verb /\ c.change = old.change
      /\ c.fd = old.fd /\ c.name = old.name
  BY <1>1, <1>4 DEF Command
<1>7. CommandOK(c)
  BY <1>1, <1>6 DEF CommandOK
<1>8. ASSUME NEW q \in Pid \ {p}
      PROVE  /\ command'[q] = command[q] \/ FileUnlinked(q)
             /\ command'[q] \in Command \cup {None}
  <2>1. command[q] \in Command \cup {None} /\ old.name \in Name
    BY <1>1, Fields DEF RepoInv, RepoTypes
  <2>2. command'[q] = command[q] \/
          (command[q] # None /\ command[q].fd = old.name /\
             command'[q] = [command[q] EXCEPT !.fd = Unlinked])
    BY <1>2, <1>8
  <2>3. CASE command'[q] = command[q]
    BY <2>1, <2>3
  <2>4. CASE /\ command[q] # None /\ command[q].fd = old.name
             /\ command'[q] = [command[q] EXCEPT !.fd = Unlinked]
    <3>1. [command[q] EXCEPT !.fd = Unlinked] \in Command
      BY <2>1, <2>4 DEF Command
    <3> QED BY <2>1, <2>4, <3>1 DEF FileUnlinked
  <2> QED BY <2>2, <2>3, <2>4
<1>9. command' \in [Pid -> Command \cup {None}]
  <2>1. \A q \in Pid : command'[q] \in Command \cup {None}
    BY <1>3, <1>4, <1>5, <1>8
  <2>2. command' = [q \in Pid |-> command'[q]]
    BY <1>2
  <2> QED BY <2>1, <2>2
<1>10. exit' = exit
  BY DEF RemoveEntry
<1> QED BY <1>3, <1>4, <1>7, <1>8, <1>9, <1>10 DEF CommandsOK, RepoInv, RepoTypes

LEMMA ActionGoesOn ==
  ASSUME RepoInv, NEW p \in Pid, RepoAction(p)
  PROVE  CommandsOK(p)
<1> DEFINE old == command[p]
<1>1. ASSUME old # None
      PROVE  old \in Command /\ CommandOK(old) /\ old.verb \in Verb
  BY <1>1, Fields DEF RepoInv, RepoTypes
<1>2. ASSUME NEW r \in {"ok", "error", "segv", "killed"}, Exit(p, r)
      PROVE  CommandsOK(p)
  BY <1>2, CommandGoesOn
<1>3. CASE UNCHANGED <<command, exit>>
  BY <1>3, CommandGoesOn
<1>4. ASSUME old # None, Failed(p)
      PROVE  CommandsOK(p)
  BY <1>4, FailureGoesOn
<1>5. ASSUME NEW from, Running(p, from)
      PROVE  old # None /\ old \in Command /\ CommandOK(old) /\ old.verb \in Verb
             /\ old.step = from /\ from \in StepsOf(old.verb)
  BY <1>1, <1>5 DEF Running, CommandOK
<1> USE StepsOfVerbs DEF Verb, CommandStep, Preparing
<1>6. CASE CheckAbsent(p)
  BY <1>2, <1>5, <1>6, StepGoesOn DEF CheckAbsent
<1>7. CASE PrepareSession(p)
  <2>1. Step(p, IF old.verb = "init" THEN "init" ELSE "clone") /\ Running(p, "session")
    BY <1>7 DEF PrepareSession
  <2>2. CASE Step(p, "init") /\ old.verb = "init"
    BY <2>1, <2>2, <1>5, StepGoesOn
  <2>3. CASE Step(p, "clone") /\ old.verb # "init"
    BY <2>1, <2>3, <1>5, StepGoesOn
  <2> QED BY <2>1, <2>2, <2>3
<1>8. CASE InitRepository(p)
  BY <1>5, <1>8, StepGoesOn DEF InitRepository
<1>9. CASE StartClone(p)
  BY <1>5, <1>9, StepGoesOn DEF StartClone
<1>10. CASE CloneReturns(p)
  BY <1>2, <1>5, <1>10, StepGoesOn DEF CloneReturns
<1>11. CASE WriteNewConfig(p)
  BY <1>5, <1>11, StepGoesOn DEF WriteNewConfig
<1>12. CASE RenameSession(p)
  BY <1>2, <1>12 DEF RenameSession
<1>13. CASE CheckDeletable(p)
  BY <1>2, <1>5, <1>13, StepGoesOn DEF CheckDeletable
<1>14. CASE CheckConfig(p)
  <2>1. old.verb = "del" /\ old.name # Official /\ Running(p, "config")
    BY <1>5, <1>14 DEF CheckConfig, CommandOK
  <2>2. CASE Step(p, "remove")
    BY <2>1, <2>2, <1>5, StepGoesOn
  <2> QED BY <2>2, <1>2, <1>14 DEF CheckConfig
<1>15. CASE RemoveDir(p)
  BY <1>2, <1>15 DEF RemoveDir
<1>16. CASE StartPull(p)
  BY <1>5, <1>16, StepGoesOn DEF StartPull
<1>17. CASE PullReturns(p)
  <2>1. CASE Failed(p)
    BY <2>1, <1>4, <1>5, <1>17 DEF PullReturns
  <2>2. CASE ~Failed(p)
    BY <2>2, <1>5, <1>17, StepGoesOn DEF PullReturns
  <2> QED BY <2>1, <2>2
<1>18. CASE ListEnds(p)
  <2>1. Running(p, "list") /\ Step(p, IF old.verb = "update" THEN "each" ELSE "search")
    BY <1>18 DEF ListEnds
  <2>2. CASE Step(p, "each") /\ old.verb = "update"
    BY <2>1, <2>2, <1>5, StepGoesOn
  <2>3. CASE Step(p, "search") /\ old.verb # "update"
    BY <2>1, <2>3, <1>5, StepGoesOn
  <2> QED BY <2>1, <2>2, <2>3
<1>19. CASE Locate(p)
  BY <1>2, <1>19 DEF Locate
<1>20. CASE GitWork(p)
  BY <1>3, <1>20 DEF GitWork, repo
<1>21. CASE CallFails(p)
  BY <1>3, <1>4, <1>21, SettingsGoOn DEF CallFails, repo
<1>22. CASE Kill(p)
  BY <1>2, <1>22 DEF Kill
<1>23. CASE RepoStep(p)
  BY <1>6, <1>7, <1>8, <1>9, <1>10, <1>11, <1>12, <1>13, <1>14, <1>15, <1>16, <1>17, <1>18,
     <1>19, <1>23, SettingsGoOn, ListGoesOn, RemovalGoesOn DEF RepoStep
<1> QED BY <1>20, <1>21, <1>22, <1>23 DEF RepoAction

-----------------------------------------------------------------------------
(***************************************************************************)
(* The files.                                                              *)
(***************************************************************************)
Settings == Config \cup {None, Empty, Garbled}

\* What a step of p has done to the directories, and what it has left alone.
FilesOK(p) ==
  /\ TypeInv'
  /\ config' \in [Dir -> Settings]
  /\ asked' \in [Name -> Config \cup {None}]
  /\ torn' \subseteq Name /\ Official \notin torn'
  /\ \A d \in Dir : PlaceOK(d)'
  /\ \A q \in Pid \ {p} : /\ git'[q] = git[q] /\ config'[q] = config[q]
                          /\ pc'[q] = pc[q] /\ job'[q] = job[q] /\ result'[q] = result[q]
  /\ \A n \in Name : config[n] # None /\ config'[n] = None =>
       \A q \in Pid : command'[q] # None => command'[q].fd # n
  /\ git[Official].is # "absent" => git'[Official].is # "absent"

LEMMA TypesOfNewFiles ==
  ASSUME TypeInv, git' \in [Dir -> Repository], UNCHANGED <<remote, pc, job, result, past>>
  PROVE  TypeInv'
BY DEF TypeInv, TypeOK

\* A step that changes one directory.
LEMMA OneDirectory ==
  ASSUME RepoInv, NEW p \in Pid, NEW d \in Name \cup {p}, NEW g \in Repository, NEW c \in Settings,
         git' = [git EXCEPT ![d] = g], config' = [config EXCEPT ![d] = c],
         UNCHANGED <<remote, pc, job, result, past>>,
         asked' \in [Name -> Config \cup {None}],
         torn \subseteq torn', torn' \subseteq Name, torn' \subseteq torn \cup {d}, Official \notin torn',
         g.is \in {"absent", "empty"} => c = None,
         d \in Name \ torn' => g.is = "absent" \/ (g.is = "repo" /\ c # None),
         d \in Name /\ config[d] # None /\ c = None =>
           \A q \in Pid : command'[q] # None => command'[q].fd # d,
         d = Official /\ git[d].is # "absent" => g.is # "absent"
  PROVE  FilesOK(p)
<1>1. d \in Dir /\ git \in [Dir -> Repository] /\ config \in [Dir -> Settings]
  BY DirAssumption DEF RepoInv, RepoTypes, TypeInv, TypeOK, Settings
<1>2. TypeInv'
  <2>1. git' \in [Dir -> Repository]
    BY <1>1
  <2> QED BY <2>1, TypesOfNewFiles DEF RepoInv, RepoTypes
<1>3. config' \in [Dir -> Settings]
  BY <1>1
<1>4. git'[d] = g /\ config'[d] = c /\ \A e \in Dir \ {d} : git'[e] = git[e] /\ config'[e] = config[e]
  BY <1>1
<1>5. \A e \in Dir : PlaceOK(e)'
  <2>1. PlaceOK(d)'
    BY <1>4 DEF PlaceOK
  <2>2. ASSUME NEW e \in Dir \ {d}
        PROVE  PlaceOK(e)'
    BY <2>2, <1>4 DEF PlaceOK, RepoInv
  <2> QED BY <2>1, <2>2
<1>6. \A q \in Pid \ {p} : q \in Dir \ {d}
  BY DirAssumption
<1>7. \A n \in Name : n \in Dir /\ (n = d \/ n \in Dir \ {d})
  BY DirAssumption
<1>8. Official \in Name
  BY DirAssumption
<1> QED BY <1>2, <1>3, <1>4, <1>5, <1>6, <1>7, <1>8 DEF FilesOK

LEMMA NoDirectory ==
  ASSUME RepoInv, NEW p \in Pid, UNCHANGED <<remote, git, pc, job, result, past, config, torn>>,
         asked' \in [Name -> Config \cup {None}]
  PROVE  FilesOK(p)
<1>1. TypeInv'
  BY TypesOfNewFiles DEF RepoInv, RepoTypes, TypeInv, TypeOK
<1>2. \A d \in Dir : PlaceOK(d)'
  BY DEF PlaceOK, RepoInv
<1> QED BY <1>1, <1>2 DEF FilesOK, RepoInv, RepoTypes, Settings

\* The calls of uppm_git_sync.
LEMMA GitKeepsKind ==
  ASSUME TypeInv, NEW p \in Pid, GitStep(p) \/ GitFails(p), NEW d \in Dir
  PROVE  git'[d].is = git[d].is \/ (git[d].is = "empty" /\ git'[d].is = "repo")
<1>1. CASE d # job[p].dir
  BY <1>1, StepIsLocal DEF TypeInv
<1>2. CASE d = job[p].dir
  <2>1. /\ git[d] \in Repository /\ git \in [Dir -> Repository]
        /\ git[d].heads \in [Branch -> Version] /\ git[d].tracking \in [Branch -> Version]
        /\ git[d].files \in [File -> Version]
    BY DEF TypeInv, TypeOK, Repository
  <2>2. Blank("repo").is = "repo"
    BY DEF Blank
  <2>3. CASE git' = git
    BY <2>3
  <2>4. CASE OpenRepository(p)
    BY <2>1, <2>2, <1>2, <2>4 DEF OpenRepository, Here, Fail
  <2>5. CASE Fetch(p)
    BY <2>1, <1>2, <2>5 DEF Fetch, Repository
  <2>6. CASE CreateBranch(p)
    BY <2>1, <1>2, <2>6 DEF CreateBranch, Repository, Fail
  <2>7. CASE CheckoutFile(p)
    BY <2>1, <1>2, <2>7 DEF CheckoutFile, Repository
  <2>8. CASE SetTarget(p)
    BY <2>1, <1>2, <2>8 DEF SetTarget, MoveBranch, Repository, Fail
  <2>9. CASE SetHead(p)
    BY <2>1, <1>2, <2>9 DEF SetHead, Repository
  <2>10. CASE LookupTrackingRef(p) \/ LookupBranch(p) \/ GitFails(p)
    BY <2>3, <2>10 DEF LookupTrackingRef, LookupBranch, GitFails, Fail
  <2> QED BY <2>4, <2>5, <2>6, <2>7, <2>8, <2>9, <2>10 DEF GitStep
<1> QED BY <1>1, <1>2

LEMMA GitFiles ==
  ASSUME RepoInv, NEW p \in Pid, GitStep(p) \/ GitFails(p), UNCHANGED <<config, asked, torn>>
  PROVE  FilesOK(p)
<1>1. TypeInv /\ TypeInv'
  BY StepKeepsTypes DEF RepoInv, RepoTypes
<1>2. /\ pc[p] # "idle" /\ job[p].dir \in Dir
      /\ \A q \in Pid \ {p} : pc'[q] = pc[q] /\ job'[q] = job[q] /\ result'[q] = result[q]
      /\ \A d \in Dir \ {job[p].dir} : git'[d] = git[d]
  BY <1>1, StepIsLocal DEF TypeInv
<1>3. \A d \in Dir :
        git'[d].is = git[d].is \/ (git[d].is = "empty" /\ git'[d].is = "repo")
  BY <1>1, GitKeepsKind
<1>4. \A d \in Dir : PlaceOK(d)'
  BY <1>3 DEF RepoInv, PlaceOK
<1>5. job[p].dir \in Name \cup {p}
  <2>1. command[p] # None => command[p].name \in Name
    BY Fields DEF RepoInv, RepoTypes
  <2> QED BY <1>2, <2>1 DEF RepoInv, SyncOK
<1>6. \A q \in Pid \ {p} : q \in Dir \ {job[p].dir}
  BY <1>5, DirAssumption
<1>7. Official \in Dir
  BY DirAssumption
<1> QED BY <1>1, <1>2, <1>3, <1>4, <1>6, <1>7 DEF FilesOK, RepoInv, RepoTypes, Settings

LEMMA StartFiles ==
  ASSUME RepoInv, NEW p \in Pid, NEW d \in Dir, NEW u \in Url, NEW b \in Branch,
         SyncStart(p, d, u, b), UNCHANGED <<config, asked, torn>>
  PROVE  FilesOK(p)
<1>1. TypeInv /\ TypeInv'
  BY NextTypes DEF RepoInv, RepoTypes, Next
<1>2. /\ \A q \in Pid \ {p} : pc'[q] = pc[q] /\ job'[q] = job[q]
      /\ git' = git /\ result' = result
  BY <1>1, StartIsLocal DEF TypeInv, SyncStart
<1>3. \A e \in Dir : PlaceOK(e)'
  BY <1>2 DEF RepoInv, PlaceOK
<1> QED BY <1>1, <1>2, <1>3 DEF FilesOK, RepoInv, RepoTypes, Settings

\* A config file is written through a handle that has not been deleted.
LEMMA PutFiles ==
  ASSUME RepoInv, NEW p \in Pid, Running(p, "save"), command[p].fd # Unlinked,
         NEW c \in Config \cup {Garbled}, Put(p, c), UNCHANGED <<vars, torn>>
  PROVE  FilesOK(p)
<1> DEFINE n == command[p].name
<1>1. /\ command[p] # None /\ command[p] \in Command /\ CommandOK(command[p])
      /\ n \in Name /\ n \in Dir /\ command[p].fd = n
  BY Fields, DirAssumption DEF Running, RepoInv, RepoTypes, CommandOK
<1>2. config[n] # None /\ PlaceOK(n)
  BY <1>1 DEF RepoInv, OpenOK
<1>3. c \in Settings /\ c # None
  BY ConfigAssumption DEF Settings
<1>4. git[n] \in Repository /\ git' = [git EXCEPT ![n] = git[n]] /\ config' = [config EXCEPT ![n] = c]
  BY <1>1 DEF RepoInv, RepoTypes, TypeInv, TypeOK, Put, vars
<1>5. asked' \in [Name -> Config \cup {None}]
  <2>1. asked[n] # None => Merge(asked[n], command[p].change) \in Config
    BY <1>1 DEF RepoInv, RepoTypes, CommandOK, Sound
  <2> QED BY <1>1, <2>1 DEF Put, RepoInv, RepoTypes
<1>6. UNCHANGED <<remote, pc, job, result, past>> /\ torn' = torn
  BY DEF vars
<1>7. torn \subseteq Name /\ Official \notin torn
  BY DEF RepoInv, RepoTypes
<1> QED BY <1>1, <1>2, <1>3, <1>4, <1>5, <1>6, <1>7, OneDirectory DEF PlaceOK

LEMMA RemovalFiles ==
  ASSUME RepoInv, NEW p \in Pid, RemoveEntry(p)
  PROVE  FilesOK(p)
<1> DEFINE n == command[p].name
<1>1. /\ command[p] # None /\ command[p] \in Command /\ CommandOK(command[p])
      /\ n \in Name /\ n \in Dir /\ command[p].step = "remove" /\ command[p].fd = None
      /\ command[p].verb \in Verb
  BY Fields, DirAssumption DEF RemoveEntry, Running, RepoInv, RepoTypes, CommandOK
<1>2. n # Official
  BY <1>1, StepsOfVerbs DEF CommandOK, Verb
<1>3. PICK x \in command[p].todo :
        /\ config' = IF x = "config" THEN [config EXCEPT ![n] = None] ELSE config
        /\ git' = [git EXCEPT ![n] = Emptied(@, x, command[p].todo \ {x}, config'[n])]
        /\ command' = [q \in Pid |->
             CASE q = p -> [command[p] EXCEPT !.todo = @ \ {x}]
               [] q # p /\ x = "config" /\ command[q] # None /\ command[q].fd = n ->
                    [command[q] EXCEPT !.fd = Unlinked]
               [] OTHER -> command[q]]
  BY DEF RemoveEntry
<1>4. PICK c : c = IF x = "config" THEN None ELSE config[n]
  OBVIOUS
<1>5. c \in Settings /\ config' = [config EXCEPT ![n] = c] /\ config'[n] = c
  BY <1>1, <1>3, <1>4 DEF RepoInv, RepoTypes, Settings
<1>6. PICK g : g = Emptied(git[n], x, command[p].todo \ {x}, c)
  OBVIOUS
<1>7. git[n] \in Repository /\ PlaceOK(n)
  BY <1>1 DEF RepoInv, RepoTypes, TypeInv, TypeOK
<1>8. g = git[n] \/ (g = Blank("empty") /\ c = None) \/ g = Blank("damaged")
  BY <1>6 DEF Emptied
<1>9. g \in Repository /\ (g.is \in {"absent", "empty"} => c = None)
  BY <1>4, <1>7, <1>8, BlankIsRepository DEF PlaceOK
<1>10. git' = [git EXCEPT ![n] = g]
  BY <1>3, <1>5, <1>6
<1>11. ASSUME config[n] # None, c = None, NEW q \in Pid, command'[q] # None
       PROVE  command'[q].fd # n
  <2>1. x = "config" /\ n # None /\ n # Unlinked
    BY <1>1, <1>4, <1>11, DirAssumption
  <2>2. CASE q = p
    <3>1. command'[q].fd = None
      BY <2>2, <1>1, <1>3 DEF Command
    <3> QED BY <2>1, <3>1
  <2>3. CASE q # p
    <3>1. command'[q] = command[q] \/ command'[q] = [command[q] EXCEPT !.fd = Unlinked]
      BY <2>3, <1>3
    <3>2. CASE command[q] # None /\ command[q].fd = n
      <4>1. command'[q] = [command[q] EXCEPT !.fd = Unlinked] /\ command[q] \in Command
        BY <2>1, <2>3, <3>2, <1>3 DEF RepoInv, RepoTypes
      <4>2. command'[q].fd = Unlinked
        BY <4>1 DEF Command
      <4> QED BY <2>1, <4>2
    <3>3. CASE ~(command[q] # None /\ command[q].fd = n)
      BY <2>3, <3>3, <1>3, <1>11
    <3> QED BY <3>2, <3>3
  <2> QED BY <2>2, <2>3
<1>12. /\ UNCHANGED <<remote, pc, job, result, past>> /\ torn' = torn \cup {n}
       /\ asked' = asked
  BY DEF RemoveEntry
<1>13. torn \subseteq Name /\ Official \notin torn /\ asked \in [Name -> Config \cup {None}]
  BY DEF RepoInv, RepoTypes
<1> QED BY <1>1, <1>2, <1>5, <1>9, <1>10, <1>11, <1>12, <1>13, OneDirectory

LEMMA RenameFiles ==
  ASSUME RepoInv, NEW p \in Pid, RenameSession(p)
  PROVE  FilesOK(p)
<1>0. PICK n : n = command[p].name
  OBVIOUS
<1>1. /\ command[p] # None /\ command[p] \in Command /\ n \in Name /\ n \in Dir /\ p \in Dir /\ n # p
      /\ command[p].conf \in Config
  BY <1>0, Fields, DirAssumption DEF RenameSession, Running, RepoInv, RepoTypes
<1>2. git[p].is = "repo" /\ config[p] = command[p].conf
  BY <1>1 DEF RepoInv, SessionOK, RenameSession, Running
<1>3. CASE OnlyCommand
  BY <1>3, NoDirectory DEF OnlyCommand, vars, RepoInv, RepoTypes
<1>4. CASE ~OnlyCommand
  <2>1. /\ git' = [git EXCEPT ![n] = git[p], ![p] = Blank("absent")]
        /\ config' = [config EXCEPT ![n] = config[p], ![p] = None]
        /\ asked' = [asked EXCEPT ![n] = command[p].conf] /\ torn' = torn \ {n}
        /\ UNCHANGED <<remote, pc, job, result, past>>
    BY <1>4, <1>0 DEF RenameSession
  <2>2. /\ git' \in [Dir -> Repository] /\ config' \in [Dir -> Settings]
        /\ asked' \in [Name -> Config \cup {None}]
    <3>1. git \in [Dir -> Repository] /\ config \in [Dir -> Settings]
          /\ asked \in [Name -> Config \cup {None}] /\ None \in Settings
      BY DEF RepoInv, RepoTypes, TypeInv, TypeOK, Settings
    <3>2. Blank("absent") \in Repository
      BY BlankIsRepository
    <3> QED BY <2>1, <3>1, <3>2, <1>1
  <2>3. /\ git'[n].is = "repo" /\ config'[n] # None
        /\ git'[p].is = "absent" /\ config'[p] = None
        /\ \A d \in Dir \ {n, p} : git'[d] = git[d] /\ config'[d] = config[d]
    BY <2>1, <1>1, <1>2, BlankIsRepository, ConfigAssumption
    DEF RepoInv, RepoTypes, TypeInv, TypeOK
  <2>4. TypeInv'
    BY <2>1, <2>2, TypesOfNewFiles DEF RepoInv, RepoTypes
  <2>5. \A d \in Dir : PlaceOK(d)'
    <3>1. PlaceOK(n)'
      BY <2>3 DEF PlaceOK
    <3>2. PlaceOK(p)'
      BY <2>3, DirAssumption DEF PlaceOK
    <3>3. \A d \in Dir \ {n, p} : PlaceOK(d)'
      BY <2>1, <2>3 DEF PlaceOK, RepoInv
    <3> QED BY <3>1, <3>2, <3>3
  <2>6. \A q \in Pid \ {p} : q \in Dir \ {n, p}
    BY <1>1, DirAssumption
  <2>7. \A m \in Name : m = n \/ m \in Dir \ {n, p}
    BY DirAssumption
  <2>8. Official \in Name /\ torn \subseteq Name /\ Official \notin torn
    BY DirAssumption DEF RepoInv, RepoTypes
  <2> QED BY <2>1, <2>2, <2>3, <2>4, <2>5, <2>6, <2>7, <2>8 DEF FilesOK
<1> QED BY <1>3, <1>4

\* What is written over a config file is valid or spoilt.
LEMMA WrittenIsSettings ==
  ASSUME NEW old \in Settings, NEW c \in Config, NEW x \in Overwritten(old, c)
  PROVE  x \in Config \cup {Garbled}
<1>1. CASE old \in {None, Empty, c}
  BY <1>1 DEF Overwritten
<1>2. CASE old \notin {None, Empty, c} /\ old = Garbled
  BY <1>2 DEF Overwritten
<1>3. CASE old \notin {None, Empty, c} /\ old # Garbled
  <2>1. old \in Config
    BY <1>3 DEF Settings
  <2>2. /\ [c EXCEPT !.enabled = old.enabled] \in Config
        /\ [c EXCEPT !.enabled = old.enabled, !.pinned = old.pinned] \in Config
    BY <2>1 DEF Config
  <2>3. x \in {c, Garbled, [c EXCEPT !.enabled = old.enabled],
               [c EXCEPT !.enabled = old.enabled, !.pinned = old.pinned]}
    BY <1>3 DEF Overwritten
  <2> QED BY <2>2, <2>3
<1> QED BY <1>1, <1>2, <1>3

LEMMA SessionFiles ==
  ASSUME RepoInv, NEW p \in Pid, PrepareSession(p) \/ InitRepository(p) \/ WriteNewConfig(p)
  PROVE  FilesOK(p)
<1>1. /\ p \in Dir /\ git \in [Dir -> Repository] /\ config \in [Dir -> Settings]
      /\ asked \in [Name -> Config \cup {None}] /\ None \in Settings /\ Config \subseteq Settings
      /\ torn \subseteq Name /\ Official \in Name \ torn /\ p \notin Name /\ PlaceOK(p)
  BY DirAssumption DEF RepoInv, RepoTypes, TypeInv, TypeOK, Settings
<1>2. git[p] \in Repository /\ config[p] \in Settings
  BY <1>1
<1>3. CASE PrepareSession(p)
  <2>1. /\ git' = [git EXCEPT ![p] = Blank("empty")] /\ config' = [config EXCEPT ![p] = None]
        /\ UNCHANGED <<remote, pc, job, result, past, asked, torn>>
    BY <1>3 DEF PrepareSession
  <2> QED BY <2>1, <1>1, OneDirectory, BlankIsRepository
<1>4. CASE InitRepository(p)
  <2>1. /\ git' = [git EXCEPT ![p] = Blank("repo")] /\ config' = [config EXCEPT ![p] = config[p]]
        /\ UNCHANGED <<remote, pc, job, result, past, asked, torn>>
    BY <1>1, <1>4 DEF InitRepository
  <2>2. Blank("repo") \in Repository /\ Blank("repo").is = "repo"
    BY BlankIsRepository
  <2> QED BY <2>1, <2>2, <1>1, <1>2, OneDirectory
<1>5. CASE WriteNewConfig(p)
  <2>1. /\ command[p] # None /\ command[p].step = "write" /\ command[p].conf \in Config
        /\ git' = [git EXCEPT ![p] = git[p]]
        /\ config' = [config EXCEPT ![p] = command[p].conf]
        /\ UNCHANGED <<remote, pc, job, result, past, asked, torn>>
    BY <1>1, <1>5, Fields DEF WriteNewConfig, Running, vars, RepoInv, RepoTypes
  <2>2. git[p].is = "repo"
    BY <2>1 DEF RepoInv, SessionOK
  <2> QED BY <2>1, <2>2, <1>1, <1>2, OneDirectory
<1> QED BY <1>3, <1>4, <1>5

LEMMA PlaceFiles ==
  ASSUME RepoInv, NEW p \in Pid, RemoveDir(p) \/ OpenConfig(p)
  PROVE  FilesOK(p)
<1>0. PICK n : n = command[p].name
  OBVIOUS
<1>1. /\ command[p] # None /\ command[p] \in Command /\ CommandOK(command[p])
      /\ n \in Name /\ n \in Dir /\ command[p].verb \in Verb
  BY <1>0, Fields, DirAssumption
  DEF RemoveDir, OpenConfig, Running, RepoInv, RepoTypes
<1>2. /\ git \in [Dir -> Repository] /\ config \in [Dir -> Settings]
      /\ asked \in [Name -> Config \cup {None}] /\ None \in Settings /\ Empty \in Settings
      /\ torn \subseteq Name /\ Official \in Name \ torn /\ PlaceOK(n)
  BY <1>1, DirAssumption DEF RepoInv, RepoTypes, TypeInv, TypeOK, Settings
<1>3. git[n] \in Repository /\ config[n] \in Settings
  BY <1>1, <1>2
<1>4. CASE OnlyCommand
  BY <1>2, <1>4, NoDirectory DEF OnlyCommand, vars
<1>5. CASE RemoveDir(p) /\ ~OnlyCommand
  <2>1. /\ git[n].is = "empty" /\ git' = [git EXCEPT ![n] = Blank("absent")]
        /\ config' = [config EXCEPT ![n] = config[n]] /\ asked' = [asked EXCEPT ![n] = None]
        /\ UNCHANGED <<remote, pc, job, result, past, torn>> /\ command[p].step = "remove"
    BY <1>0, <1>2, <1>5 DEF RemoveDir, Target, Running
  <2>2. config[n] = None
    BY <2>1, <1>2 DEF PlaceOK
  <2>3. n # Official
    BY <2>1, <1>0, <1>1, StepsOfVerbs DEF CommandOK, Verb
  <2>4. asked' \in [Name -> Config \cup {None}]
    BY <2>1, <1>2
  <2> QED BY <2>1, <2>2, <2>3, <2>4, <1>1, <1>2, <1>3, OneDirectory, BlankIsRepository
<1>6. CASE OpenConfig(p) /\ ~OnlyCommand
  <2>1. PICK g : g = IF git[n].is = "empty" THEN Blank("damaged") ELSE git[n]
    OBVIOUS
  <2>2. /\ git[n].is # "absent" /\ git' = [git EXCEPT ![n] = g]
        /\ config' = [config EXCEPT ![n] = Empty]
        /\ UNCHANGED <<remote, pc, job, result, past, asked, torn>>
    BY <2>1, <1>0, <1>6 DEF OpenConfig, Target
  <2>3. g \in Repository /\ g.is \notin {"absent", "empty"}
    BY <2>1, <2>2, <1>3, BlankIsRepository DEF Repository
  <2>4. n \notin torn => g.is = "repo"
    BY <2>1, <2>2, <1>1, <1>2 DEF PlaceOK
  <2> QED BY <2>2, <2>3, <2>4, <1>1, <1>2, OneDirectory, ConfigAssumption
<1> QED BY <1>4, <1>5, <1>6

LEMMA ActionFiles ==
  ASSUME RepoInv, NEW p \in Pid, RepoAction(p) \/ InvokeAny(p)
  PROVE  FilesOK(p)
<1>1. asked \in [Name -> Config \cup {None}]
  BY DEF RepoInv, RepoTypes
<1>2. CASE OnlyCommand
  BY <1>1, <1>2, NoDirectory DEF OnlyCommand, vars
<1>3. CASE GitWork(p) \/ CallFails(p) \/ Kill(p)
  <2>1. ASSUME GitFails(p), UNCHANGED <<config, asked, torn>>
        PROVE  FilesOK(p)
    BY <2>1, GitFiles
  <2>2. CASE GitWork(p)
    BY <2>2, GitFiles DEF GitWork, repo
  <2>3. CASE ShortWrite(p)
    <3>1. PICK c \in {command[p].conf, Garbled} : Put(p, c)
      BY <2>3 DEF ShortWrite
    <3>2. command[p].conf \in Config
      BY <2>3, Fields DEF ShortWrite, Running, RepoInv, RepoTypes
    <3>3. c \in Config \cup {Garbled}
      BY <3>1, <3>2
    <3> QED BY <2>3, <3>1, <3>3, PutFiles DEF ShortWrite
  <2>4. CASE CallFails(p)
    BY <2>1, <2>3, <2>4, <1>2 DEF CallFails, repo
  <2>5. CASE Kill(p)
    BY <2>1, <2>5, <1>2 DEF Kill, OnlyCommand
  <2> QED BY <2>2, <2>4, <2>5, <1>3
<1>4. CASE SaveConfig(p)
  <2>1. CASE UNCHANGED <<config, asked>>
    BY <2>1, <1>2, <1>4 DEF SaveConfig, OnlyCommand
  <2>2. CASE ~UNCHANGED <<config, asked>>
    <3>1. PICK c \in Overwritten(config[command[p].name], command[p].conf) : Put(p, c)
      BY <2>2, <1>4 DEF SaveConfig
    <3>2. command[p].conf \in Config /\ command[p].name \in Dir
      BY <1>4, Fields, DirAssumption DEF SaveConfig, Running, RepoInv, RepoTypes
    <3>3. config[command[p].name] \in Settings
      BY <3>2 DEF RepoInv, RepoTypes, Settings
    <3>4. c \in Config \cup {Garbled}
      BY <3>1, <3>2, <3>3, WrittenIsSettings
    <3> QED BY <2>2, <3>1, <3>4, <1>4, PutFiles DEF SaveConfig
  <2> QED BY <2>1, <2>2
<1>5. CASE StartClone(p) \/ StartPull(p)
  <2>1. command[p] \in Command
    BY <1>5 DEF StartClone, StartPull, Running, RepoInv, RepoTypes
  <2>2. /\ command[p].conf.url \in Url /\ command[p].conf.branch \in Branch
        /\ command[p].name \in Dir /\ p \in Dir
    BY <2>1, Fields, DirAssumption DEF Config
  <2> QED BY <2>2, <1>5, StartFiles DEF StartClone, StartPull
<1>6. CASE RepoStep(p)
  BY <1>2, <1>4, <1>5, <1>6, SessionFiles, PlaceFiles, RenameFiles, RemovalFiles
  DEF RepoStep, CheckAbsent, CloneReturns, CheckDeletable, CheckConfig, LookupRepo, PullReturns,
      ListNext, ListEnds, UpdateNext, UpdateEnds, Locate
<1> QED BY <1>2, <1>3, <1>6, NewCommand DEF RepoAction

-----------------------------------------------------------------------------
(***************************************************************************)
(* The process that takes the step, and the others.                        *)
(***************************************************************************)
ProcessOK(p) ==
  /\ command[p] # None => CommandOK(command[p])
  /\ SyncOK(p) /\ SessionOK(p) /\ OpenOK(p) /\ SeenOK(p)

LEMMA OthersKeep ==
  ASSUME RepoInv, NEW p \in Pid, CommandsOK(p), FilesOK(p), NEW q \in Pid \ {p}
  PROVE  ProcessOK(q)'
<1>1. /\ git'[q] = git[q] /\ config'[q] = config[q]
      /\ pc'[q] = pc[q] /\ job'[q] = job[q] /\ result'[q] = result[q]
      /\ \A n \in Name : config[n] # None /\ config'[n] = None =>
           (command'[q] # None => command'[q].fd # n)
      /\ git[Official].is # "absent" => git'[Official].is # "absent"
  BY DEF FilesOK
<1>2. ProcessOK(q)
  BY DEF RepoInv, ProcessOK
<1>3. CASE command'[q] = command[q]
  BY <1>1, <1>2, <1>3 DEF ProcessOK, SyncOK, SessionOK, Cloning, OpenOK, SeenOK
<1>4. CASE FileUnlinked(q)
  <2>1. command[q] \in Command /\ command[q] # None /\ CommandOK(command[q])
        /\ command[q].fd \in Name /\ command'[q] = [command[q] EXCEPT !.fd = Unlinked]
    BY <1>2, <1>4 DEF FileUnlinked, RepoInv, RepoTypes, ProcessOK
  <2>2. /\ command'[q].verb = command[q].verb /\ command'[q].step = command[q].step
        /\ command'[q].name = command[q].name /\ command'[q].conf = command[q].conf
        /\ command'[q].change = command[q].change /\ command'[q].todo = command[q].todo
        /\ command'[q].list = command[q].list /\ command'[q].official = command[q].official
        /\ command'[q].fd = Unlinked
    BY <2>1 DEF Command
  <2>3. command[q].step = "save"
    BY <2>1, DirAssumption DEF CommandOK
  <2>4. CommandOK(command'[q])
    BY <2>1, <2>2, <2>3 DEF CommandOK
  <2>5. Unlinked \notin Name
    BY DirAssumption
  <2>6. SyncOK(q)' /\ SessionOK(q)' /\ OpenOK(q)'
    BY <2>1, <2>2, <2>3, <2>5, <1>1, <1>2 DEF ProcessOK, SyncOK, SessionOK, OpenOK
  <2>7. SeenOK(q)'
    BY <2>1, <2>2, <1>1, <1>2 DEF ProcessOK, SeenOK, HasSeen
  <2> QED
    BY <2>4, <2>6, <2>7 DEF ProcessOK
<1> QED BY <1>3, <1>4 DEF CommandsOK

\* A command that neither prepares a repository nor holds a file open.
LEMMA CalmIsOK ==
  ASSUME NEW p \in Pid, CommandsOK(p), pc'[p] = "idle",
         command'[p] # None =>
           command'[p].step \notin {"clone", "cloned", "write", "rename", "save"}
  PROVE  SyncOK(p)' /\ SessionOK(p)' /\ OpenOK(p)'
BY DirAssumption DEF SyncOK, SessionOK, OpenOK, CommandsOK, CommandOK

LEMMA StepTaken ==
  ASSUME RepoInv, NEW p \in Pid, command[p] # None, NEW step \in CommandStep, Step(p, step)
  PROVE  /\ command'[p] # None /\ command'[p].step = step
         /\ command'[p].verb = command[p].verb /\ command'[p].name = command[p].name
         /\ command'[p].conf = command[p].conf /\ command'[p].fd = command[p].fd
         /\ command'[p].list = command[p].list /\ command'[p].official = command[p].official
         /\ command'[p].change = command[p].change
         /\ command'[p].todo = command[p].todo /\ command'[p].ret = command[p].ret
<1>1. command[p] \in Command /\ command'[p] = [command[p] EXCEPT !.step = step]
  BY DEF RepoInv, RepoTypes, Step
<1>2. command'[p] # None
  BY <1>1, Edits, CommandMarkAssumption
<1> QED BY <1>1, <1>2 DEF Command

\* A clone, call by call.
LEMMA CloneStep ==
  ASSUME TypeInv, NEW p \in Pid, NEW b \in Branch, GitStep(p) \/ GitFails(p),
         job[p].dir = p, job[p].branch = b, Cloning(p, b)
  PROVE  Cloning(p, b)'
<1> USE DEF At, Here, There
<1> DEFINE j == job[p]
           g == git[p]
<1>1. /\ pc[p] # "idle" /\ j \in Job /\ p \in Dir /\ j.tip \in Version /\ j.left \subseteq File
      /\ g \in Repository /\ g.heads \in [Branch -> Version] /\ g.tracking \in [Branch -> Version]
      /\ g.files \in [File -> Version]
      /\ git \in [Dir -> Repository] /\ pc \in [Pid -> Steps \cup {"idle"}]
      /\ job \in [Pid -> Job \cup {None}] /\ result \in [Pid -> {"none", "ok", "error"}]
      /\ pc[p] \in {"branch", "create", "checkout", "target", "head"} => j.tip # 0
  BY StepIsLocal DEF TypeInv, TypeOK, Job, Repository
<1>2. ASSUME NEW step \in Steps, Goto(p, step)
      PROVE  pc'[p] = step
  BY <1>1, <1>2 DEF Goto
<1>3. CASE Fail(p)
  <2>1. pc'[p] = "idle" /\ result'[p] = "error"
    BY <1>1, <1>3 DEF Fail, Return
  <2> QED BY <2>1 DEF Cloning
<1>4. CASE OpenRepository(p)
  <2>1. CASE git' = [git EXCEPT ![j.dir] = Blank("repo")] /\ Goto(p, "fetch")
    <3>1. git'[p] = Blank("repo") /\ pc'[p] = "fetch"
      BY <2>1, <1>1, <1>2 DEF Steps
    <3> QED BY <3>1 DEF Cloning, Blank
  <2>2. g = Blank("empty") /\ g.is = "empty"
    BY <1>4, BlankIsRepository DEF OpenRepository, Cloning
  <2> QED BY <2>1, <2>2, <1>4 DEF OpenRepository
<1>5. CASE Fetch(p)
  <2> DEFINE sent == remote[j.url][j.branch]
  <2>1. /\ git' = [git EXCEPT ![p].tracking[b] = Fetched(@, sent)]
        /\ pc[p] = "fetch" /\ pc'[p] = "tip"
    BY <1>2, <1>5 DEF Fetch, Steps
  <2>2. git'[p].is = g.is /\ git'[p].heads = g.heads
    BY <2>1, <1>1 DEF Repository
  <2> QED BY <2>1, <2>2 DEF Cloning
<1>6. CASE LookupTrackingRef(p)
  <2>1. CASE ~Fail(p)
    <3>1. git' = git /\ pc[p] = "tip" /\ pc'[p] = "branch"
      BY <2>1, <1>2, <1>6 DEF LookupTrackingRef, Steps
    <3> QED BY <3>1 DEF Cloning
  <2> QED BY <2>1, <1>3
<1>7. CASE LookupBranch(p)
  <2>1. /\ git' = git /\ pc[p] = "branch" /\ g.is = "repo" /\ g.heads[b] = 0 /\ j.tip # 0
        /\ job' = [job EXCEPT ![p].old = g.heads[b], ![p].left = File]
    BY <1>1, <1>7 DEF LookupBranch, Cloning
  <2>2. pc'[p] = "create"
    BY <2>1, <1>2, <1>7 DEF LookupBranch, Steps
  <2>3. job'[p].left = File
    BY <2>1, <1>1 DEF Job
  <2> QED BY <2>1, <2>2, <2>3 DEF Cloning
<1>8. CASE CreateBranch(p)
  <2>1. CASE ~Fail(p)
    <3>1. /\ git' = [git EXCEPT ![p].heads[b] = j.tip] /\ job' = [job EXCEPT ![p].old = j.tip]
          /\ pc[p] = "create" /\ pc'[p] = "checkout" /\ g.is = "repo" /\ j.left = File
      BY <2>1, <1>2, <1>8 DEF CreateBranch, Cloning, Steps
    <3>2. git'[p].is = "repo" /\ git'[p].heads[b] = j.tip
      BY <3>1, <1>1 DEF Repository
    <3>3. job'[p].left = File /\ job'[p].old = j.tip /\ job'[p].tip = j.tip
      BY <3>1, <1>1 DEF Job
    <3> QED BY <3>1, <3>2, <3>3 DEF Cloning
  <2> QED BY <2>1, <1>3
<1>9. CASE CheckoutFile(p)
  <2>1. PICK f \in j.left :
          /\ git' = [git EXCEPT ![p].files[f] = j.tip]
          /\ job' = [job EXCEPT ![p].left = @ \ {f}]
          /\ Goto(p, IF j.left = {f} THEN "target" ELSE "checkout")
    BY <1>9 DEF CheckoutFile
  <2>2. /\ pc[p] = "checkout" /\ g.is = "repo" /\ g.heads[b] = j.tip /\ j.old = j.tip
        /\ \A x \in File \ j.left : g.files[x] = j.tip
    BY <1>9 DEF CheckoutFile, Cloning
  <2>3. pc'[p] = IF j.left = {f} THEN "target" ELSE "checkout"
    BY <2>1, <1>2 DEF Steps
  <2>4. /\ git'[p].is = "repo" /\ git'[p].heads = g.heads
        /\ git'[p].files = [g.files EXCEPT ![f] = j.tip]
    BY <2>1, <2>2, <1>1 DEF Repository
  <2>5. job'[p].left = j.left \ {f} /\ job'[p].old = j.tip /\ job'[p].tip = j.tip
    BY <2>1, <2>2, <1>1 DEF Job
  <2>6. \A x \in File \ job'[p].left : git'[p].files[x] = j.tip
    BY <2>1, <2>2, <2>4, <2>5, <1>1
  <2>7. pc'[p] # "checkout" => job'[p].left = {}
    BY <2>3, <2>5
  <2> QED BY <2>2, <2>3, <2>4, <2>5, <2>6, <2>7 DEF Cloning
<1>10. CASE SetTarget(p)
  <2>1. CASE MoveBranch(p)
    <3>1. /\ pc[p] = "target" /\ g.is = "repo" /\ g.heads[b] = j.tip /\ j.old = j.tip
          /\ j.left = {} /\ \A x \in File : g.files[x] = j.tip
      BY <1>10 DEF SetTarget, Cloning
    <3>2. /\ git' = [git EXCEPT ![p].heads[b] = j.tip] /\ pc'[p] = "head" /\ job' = job
      BY <2>1, <1>1 DEF MoveBranch
    <3>3. git'[p].is = "repo" /\ git'[p].heads[b] = j.tip /\ git'[p].files = g.files
      BY <3>1, <3>2, <1>1 DEF Repository
    <3> QED BY <3>1, <3>2, <3>3 DEF Cloning
  <2> QED BY <2>1, <1>3, <1>10 DEF SetTarget
<1>11. CASE SetHead(p)
  <2>1. /\ pc[p] = "head" /\ g.is = "repo" /\ g.heads[b] = j.tip /\ j.left = {}
        /\ \A x \in File : g.files[x] = j.tip
    BY <1>11 DEF SetHead, Cloning
  <2>2. git' = [git EXCEPT ![p].head = b] /\ pc'[p] = "idle"
    BY <1>1, <1>11 DEF SetHead, Return
  <2>3. git'[p].is = "repo" /\ git'[p].head = b /\ git'[p].heads = g.heads /\ git'[p].files = g.files
    BY <2>1, <2>2, <1>1 DEF Repository
  <2>4. OnBranch(git'[p], b)
    BY <2>1, <2>3 DEF OnBranch
  <2> QED BY <2>2, <2>4 DEF Cloning
<1> QED
  BY <1>3, <1>4, <1>5, <1>6, <1>7, <1>8, <1>9, <1>10, <1>11 DEF GitStep, GitFails

\* The sync of a command, or its end.
LEMMA SyncGoesOn ==
  ASSUME RepoInv, NEW p \in Pid, CommandsOK(p), GitStep(p) \/ GitFails(p),
         command'[p] \in {command[p], None}, command'[p] = None => GitFails(p)
  PROVE  SyncOK(p)' /\ SessionOK(p)' /\ OpenOK(p)'
<1>1. TypeInv /\ SyncOK(p) /\ SessionOK(p)
  BY DEF RepoInv, RepoTypes
<1>2. /\ pc[p] # "idle" /\ job'[p].dir = job[p].dir /\ job'[p].branch = job[p].branch
      /\ job[p] \in Job /\ job[p].branch \in Branch
  BY <1>1, StepIsLocal, StepKeepsArguments DEF TypeInv, Job
<1>3. GitFails(p) => pc'[p] = "idle"
  BY <1>1 DEF GitFails, Fail, Return, TypeInv, TypeOK
<1>4. CASE command'[p] = None
  BY <1>3, <1>4, CalmIsOK
<1>5. CASE command'[p] = command[p] /\ command[p] # None
  <2>1. command[p].step \in {"cloned", "pulled"}
    BY <1>1, <1>2 DEF SyncOK
  <2>2. SyncOK(p)'
    BY <1>1, <1>2, <1>5 DEF SyncOK
  <2>3. command[p].step = "cloned" => Cloning(p, command[p].conf.branch)'
    <3>1. PICK b : b = job[p].branch
      OBVIOUS
    <3>2. ASSUME command[p].step = "cloned"
          PROVE  Cloning(p, b)' /\ b = command[p].conf.branch
      BY <1>1, <1>2, <1>5, <3>1, <3>2, CloneStep DEF SyncOK, SessionOK
    <3> QED BY <3>2, <1>5
  <2>4. SessionOK(p)'
    BY <2>1, <2>3, <1>5 DEF SessionOK
  <2>5. OpenOK(p)'
    BY <2>1, <1>5, DirAssumption DEF OpenOK, RepoInv, CommandOK
  <2> QED BY <2>2, <2>4, <2>5
<1> QED BY <1>2, <1>4, <1>5, <1>1 DEF SyncOK

LEMMA SyncBegins ==
  ASSUME RepoInv, NEW p \in Pid, CommandsOK(p), StartClone(p) \/ StartPull(p)
  PROVE  SyncOK(p)' /\ SessionOK(p)' /\ OpenOK(p)'
<1>1. PICK d \in Dir, u \in Url, b \in Branch :
        /\ SyncStart(p, d, u, b) /\ command[p] # None /\ CommandOK(command[p])
        /\ b = command[p].conf.branch
        /\ \/ command[p].step = "clone" /\ Step(p, "cloned") /\ d = p
           \/ command[p].step = "pull" /\ Step(p, "pulled") /\ d = command[p].name
  <2>1. command[p] \in Command /\ command[p] # None /\ CommandOK(command[p])
    BY DEF StartClone, StartPull, Running, RepoInv, RepoTypes
  <2>2. /\ command[p].conf.url \in Url /\ command[p].conf.branch \in Branch
        /\ command[p].name \in Dir /\ p \in Dir
    BY <2>1, Fields, DirAssumption DEF Config
  <2> QED BY <2>1, <2>2 DEF StartClone, StartPull, Running
<1>2. pc'[p] = "open" /\ job'[p].dir = d /\ job'[p].branch = b /\ git' = git
  BY <1>1, StartIsLocal DEF RepoInv, RepoTypes, TypeInv
<1>3. /\ command'[p] # None /\ command'[p].conf = command[p].conf
      /\ command'[p].name = command[p].name /\ command'[p].fd = command[p].fd
      /\ \/ command[p].step = "clone" /\ command'[p].step = "cloned" /\ d = p
         \/ command[p].step = "pull" /\ command'[p].step = "pulled" /\ d = command[p].name
  BY <1>1, StepTaken DEF CommandStep
<1>4. SyncOK(p)'
  BY <1>1, <1>2, <1>3 DEF SyncOK
<1>5. command[p].step = "clone" => git[p] = Blank("empty")
  BY <1>1 DEF RepoInv, SessionOK
<1>6. SessionOK(p)'
  BY <1>2, <1>3, <1>5 DEF SessionOK, Cloning
<1>7. OpenOK(p)'
  BY <1>3, DirAssumption DEF OpenOK, CommandsOK, CommandOK
<1> QED BY <1>4, <1>6, <1>7

\* The steps that leave the process in the middle of preparing a repository, or with a
\* file open.
LEMMA SessionGoesOn ==
  ASSUME RepoInv, NEW p \in Pid, CommandsOK(p), FilesOK(p),
         \/ PrepareSession(p) \/ InitRepository(p) \/ CloneReturns(p) \/ WriteNewConfig(p)
         \/ OpenConfig(p)
  PROVE  SyncOK(p)' /\ SessionOK(p)' /\ OpenOK(p)'
<1>1. /\ command[p] # None /\ command[p] \in Command /\ CommandOK(command[p])
      /\ command[p].verb \in Verb /\ command[p].name \in Name
  BY Fields
  DEF PrepareSession, InitRepository, CloneReturns, WriteNewConfig, OpenConfig, Running,
      RepoInv, RepoTypes
<1>2. SyncOK(p) /\ SessionOK(p) /\ p \in Dir /\ command[p].name \in Dir /\ command[p].name # p
  BY <1>1, DirAssumption DEF RepoInv
<1>3. git \in [Dir -> Repository] /\ config \in [Dir -> Settings]
  BY DEF RepoInv, RepoTypes, TypeInv, TypeOK, Settings
<1>4. pc[p] = "idle" /\ pc' = pc
  BY <1>1, <1>2
  DEF PrepareSession, InitRepository, CloneReturns, WriteNewConfig, OpenConfig, Running, At,
      OnlyCommand, vars, SyncOK
<1>5. ASSUME command'[p] = None
      PROVE  SyncOK(p)' /\ SessionOK(p)' /\ OpenOK(p)'
  BY <1>4, <1>5, CalmIsOK
<1>6. SyncOK(p)'
  BY <1>4 DEF SyncOK
<1>7. ASSUME command'[p].step # "save"
      PROVE  OpenOK(p)'
  BY <1>7, DirAssumption DEF OpenOK, CommandsOK, CommandOK
<1>8. CASE PrepareSession(p)
  <2>1. PICK step \in {"init", "clone"} : Step(p, step)
    BY <1>8 DEF PrepareSession
  <2>2. command'[p].step = step
    BY <2>1, <1>1, StepTaken DEF CommandStep
  <2>3. git'[p] = Blank("empty")
    BY <1>2, <1>3, <1>8 DEF PrepareSession
  <2> QED BY <2>2, <2>3, <1>6, <1>7 DEF SessionOK
<1>9. CASE InitRepository(p)
  <2>1. command[p].step = "init" /\ Step(p, "write") /\ git' = [git EXCEPT ![p] = Blank("repo")]
    BY <1>9 DEF InitRepository, Running
  <2>2. command'[p].step = "write" /\ command'[p].verb = command[p].verb
    BY <2>1, <1>1, StepTaken DEF CommandStep
  <2>3. command[p].verb = "init"
    BY <2>1, <1>1, StepsOfVerbs DEF CommandOK, Verb
  <2>4. git'[p].is = "repo"
    BY <2>1, <1>2, <1>3, BlankIsRepository
  <2> QED BY <2>2, <2>3, <2>4, <1>6, <1>7 DEF SessionOK
<1>10. CASE CloneReturns(p)
  <2>1. CASE Exit(p, "error")
    <3>1. command'[p] = None
      BY <2>1 DEF Exit, RepoInv, RepoTypes
    <3> QED BY <3>1, <1>5
  <2>2. CASE ~Exit(p, "error")
    <3>1. command[p].step = "cloned" /\ result[p] = "ok" /\ Step(p, "write") /\ git' = git
      BY <2>2, <1>10 DEF CloneReturns, Running, OnlyCommand, vars
    <3>2. OnBranch(git[p], command[p].conf.branch)
      BY <3>1, <1>1, <1>2, <1>4 DEF SessionOK, Cloning
    <3>3. command'[p].step = "write" /\ command'[p].conf = command[p].conf
      BY <3>1, <1>1, StepTaken DEF CommandStep
    <3>4. git'[p].is = "repo" /\ OnBranch(git'[p], command'[p].conf.branch)
      BY <3>1, <3>2, <3>3 DEF OnBranch
    <3> QED BY <3>3, <3>4, <1>6, <1>7 DEF SessionOK
  <2> QED BY <2>1, <2>2
<1>11. CASE WriteNewConfig(p)
  <2>1. /\ command[p].step = "write" /\ Step(p, "rename") /\ git' = git
        /\ config' = [config EXCEPT ![p] = command[p].conf]
    BY <1>11 DEF WriteNewConfig, Running, vars
  <2>2. /\ command'[p].step = "rename" /\ command'[p].conf = command[p].conf
        /\ command'[p].verb = command[p].verb
    BY <2>1, <1>1, StepTaken DEF CommandStep
  <2>3. config'[p] = command'[p].conf
    BY <2>1, <2>2, <1>2, <1>3
  <2>4. git[p].is = "repo" /\ (command[p].verb # "init" => OnBranch(git[p], command[p].conf.branch))
    BY <2>1, <1>1, <1>2 DEF SessionOK
  <2> QED BY <2>1, <2>2, <2>3, <2>4, <1>6, <1>7 DEF SessionOK
<1>12. CASE OpenConfig(p)
  <2>1. CASE Failed(p)
    <3>1. command'[p] = None \/ command'[p].step = "each"
      BY <2>1, <1>1 DEF Failed, Exit, RepoInv, RepoTypes, Command
    <3> QED BY <3>1, <1>4, CalmIsOK
  <2>2. CASE ~Failed(p)
    <3>1. /\ config' = [config EXCEPT ![command[p].name] = Empty]
          /\ command' = [command EXCEPT ![p].step = "save", ![p].fd = command[p].name]
      BY <2>2, <1>12 DEF OpenConfig
    <3>2. command'[p].step = "save" /\ command'[p].fd = command[p].name
      BY <3>1, <1>1 DEF RepoInv, RepoTypes, Command
    <3>3. config'[command'[p].fd] = Empty
      BY <3>1, <3>2, <1>2, <1>3
    <3>4. OpenOK(p)'
      BY <3>3, ConfigAssumption DEF OpenOK
    <3>5. SessionOK(p)'
      BY <3>2 DEF SessionOK
    <3> QED BY <3>4, <3>5, <1>6
  <2> QED BY <2>1, <2>2
<1> QED BY <1>8, <1>9, <1>10, <1>11, <1>12

\* The other steps of a command.
LEMMA CalmGoesOn ==
  ASSUME RepoInv, NEW p \in Pid, CommandsOK(p),
         \/ CheckAbsent(p) \/ RenameSession(p) \/ CheckDeletable(p) \/ CheckConfig(p)
         \/ RemoveEntry(p) \/ RemoveDir(p) \/ LookupRepo(p) \/ PullReturns(p) \/ SaveConfig(p)
         \/ ListNext(p) \/ ListEnds(p) \/ UpdateNext(p) \/ UpdateEnds(p) \/ Locate(p)
         \/ (command[p] # None /\ At(p, "idle") /\ Failed(p) /\ OnlyCommand) \/ ShortWrite(p)
  PROVE  SyncOK(p)' /\ SessionOK(p)' /\ OpenOK(p)'
<1>1. command[p] # None /\ command[p] \in Command /\ command \in [Pid -> Command \cup {None}]
      /\ SyncOK(p)
  BY DEF CheckAbsent, RenameSession, CheckDeletable, CheckConfig, RemoveEntry, RemoveDir, LookupRepo,
         PullReturns, SaveConfig, ListNext, ListEnds, UpdateNext, UpdateEnds, Locate, ShortWrite,
         Running, RepoInv, RepoTypes
<1>2. pc[p] = "idle" /\ pc' = pc
  BY <1>1
  DEF CheckAbsent, RenameSession, CheckDeletable, CheckConfig, RemoveEntry, RemoveDir, LookupRepo,
      PullReturns, SaveConfig, ListNext, ListEnds, UpdateNext, UpdateEnds, Locate, ShortWrite,
      Running, OnlyCommand, vars, At, SyncOK
<1> DEFINE Calm == {"exists", "session", "config", "remove", "lookup", "pull", "open", "list",
                    "each", "search"}
<1>3. SUFFICES command'[p] = None \/ command'[p].step \in Calm
  BY <1>2, CalmIsOK
<1>4. ASSUME NEW r, Exit(p, r)
      PROVE  command'[p] = None
  BY <1>1, <1>4 DEF Exit
<1>5. ASSUME Failed(p)
      PROVE  command'[p] = None \/ command'[p].step \in Calm
  BY <1>1, <1>5 DEF Failed, Exit, Command
<1>6. ASSUME NEW step \in CommandStep, Step(p, step)
      PROVE  command'[p].step = step
  BY <1>1, <1>6, StepTaken
<1> USE DEF CommandStep
<1>7. CASE CheckAbsent(p)
  BY <1>4, <1>6, <1>7 DEF CheckAbsent
<1>8. CASE RenameSession(p)
  BY <1>4, <1>8 DEF RenameSession
<1>9. CASE CheckDeletable(p)
  BY <1>4, <1>6, <1>9 DEF CheckDeletable
<1>10. CASE CheckConfig(p)
  BY <1>4, <1>6, <1>10 DEF CheckConfig
<1>11. CASE RemoveEntry(p)
  <2>1. PICK x \in command[p].todo : command'[p] = [command[p] EXCEPT !.todo = @ \ {x}]
    BY <1>11 DEF RemoveEntry
  <2> QED BY <2>1, <1>1, <1>11 DEF RemoveEntry, Running, Command
<1>12. CASE RemoveDir(p)
  BY <1>4, <1>12 DEF RemoveDir
<1>13. CASE LookupRepo(p)
  <2>1. command[p].name \in Dir /\ CommandOK(command[p]) /\ command[p].verb \in Verb
        /\ command[p].step = "lookup"
    BY <1>1, <1>13, Fields, DirAssumption DEF RepoInv, LookupRepo, Running
  <2>2. command[p].verb \in {"conf", "sync"}
    BY <2>1, StepsOfVerbs DEF CommandOK, Verb
  <2>3. config[command[p].name] \in Config \cup {None, Empty, Garbled}
    BY <2>1 DEF RepoInv, RepoTypes
  <2>4. ASSUME NEW conf, NEW step,
               command' = [command EXCEPT ![p].conf = conf, ![p].step = step]
        PROVE  command'[p].step = step
    BY <2>4, <1>1 DEF Command
  <2>5. \/ \E r \in {"error", "segv", "ok"} : Exit(p, r)
        \/ \E step \in {"open", "pull"} : \E conf :
             command' = [command EXCEPT ![p].conf = conf, ![p].step = step]
    BY <2>2, <2>3, <1>13 DEF LookupRepo
  <2> QED BY <2>4, <2>5, <1>4
<1>14. CASE PullReturns(p)
  <2>1. CASE Step(p, "open")
    BY <2>1, <1>6
  <2> QED BY <2>1, <1>5, <1>14 DEF PullReturns
<1>15. CASE SaveConfig(p)
  <2>1. CASE command' = [command EXCEPT ![p].step = "each", ![p].fd = None]
    BY <2>1, <1>1 DEF Command
  <2> QED BY <2>1, <1>4, <1>15 DEF SaveConfig, Saved
<1>16. CASE ListNext(p)
  <2>1. \/ \E r \in {"segv", "error"} : Exit(p, r)
        \/ \E todo : command' = [command EXCEPT ![p].todo = todo]
        \/ \E todo, list : command' = [command EXCEPT ![p].todo = todo, ![p].list = list]
    BY <1>16 DEF ListNext
  <2>2. ASSUME NEW todo, NEW list,
               \/ command' = [command EXCEPT ![p].todo = todo]
               \/ command' = [command EXCEPT ![p].todo = todo, ![p].list = list]
        PROVE  command'[p].step = command[p].step
    BY <2>2, <1>1 DEF Command
  <2> QED BY <2>1, <2>2, <1>4, <1>16 DEF ListNext, Running
<1>17. CASE ListEnds(p)
  <2>1. PICK step \in {"each", "search"} : Step(p, step)
    BY <1>17 DEF ListEnds
  <2> QED BY <2>1, <1>6
<1>18. CASE UpdateNext(p)
  <2>1. PICK e, next, c :
          /\ next = [command[p] EXCEPT !.list = Tail(@), !.official = @ \/ e.name = Official]
          /\ c = (IF Skipped(e.conf) THEN next
                  ELSE [next EXCEPT !.name = e.name, !.conf = e.conf, !.step = "pull"])
          /\ command' = [command EXCEPT ![p] = c]
    BY <1>18 DEF UpdateNext
  <2>2. next.step = "each" /\ c.step \in {"each", "pull"}
    BY <2>1, <1>1, <1>18 DEF UpdateNext, Running, Command
  <2> QED BY <2>1, <2>2, <1>1
<1>19. CASE UpdateEnds(p)
  <2>1. CASE \E conf : command' = [command EXCEPT ![p].step = "exists", ![p].name = Official,
                                                  ![p].conf = conf]
    BY <2>1, <1>1 DEF Command
  <2> QED BY <2>1, <1>4, <1>19 DEF UpdateEnds
<1>20. CASE Locate(p)
  BY <1>4, <1>20 DEF Locate
<1> QED
  BY <1>5, <1>7, <1>8, <1>9, <1>10, <1>11, <1>12, <1>13, <1>14, <1>15, <1>16, <1>17, <1>18, <1>19,
     <1>20 DEF ShortWrite

\* What `update' has seen of official-core has been there, and no step takes it away.
LEMMA SeenGoesOn ==
  ASSUME RepoInv, NEW p \in Pid, FilesOK(p), RepoAction(p) \/ InvokeAny(p)
  PROVE  SeenOK(p)'
<1> DEFINE old == command[p]
           new == command'[p]
<1>1. command \in [Pid -> Command \cup {None}] /\ Official \in Dir /\ Official \in Name
  BY DirAssumption DEF RepoInv, RepoTypes
<1>2. SUFFICES ASSUME new # None, HasSeen(new), git[Official].is = "absent"
               PROVE  FALSE
  BY DEF SeenOK, FilesOK
<1>3. old # None => ~HasSeen(old) /\ old \in Command
  BY <1>1, <1>2 DEF RepoInv, SeenOK
<1>4. CASE old # None /\ new.list = old.list /\ new.official = old.official
  BY <1>2, <1>3, <1>4 DEF HasSeen
<1>5. CASE old # None /\ new.list = <<>> /\ new.official = old.official
  <2>1. Len(new.list) = 0
    BY <1>5
  <2> QED BY <2>1, <1>2, <1>3, <1>5 DEF HasSeen
<1>6. CASE InvokeAny(p)
  <2>1. ~new.official /\ new.list = <<>>
    BY <1>6, NewCommand
  <2>2. Len(new.list) = 0
    BY <2>1
  <2> QED BY <2>1, <2>2, <1>2 DEF HasSeen
<1>7. ASSUME NEW r, Exit(p, r)
      PROVE  FALSE
  BY <1>1, <1>2, <1>7 DEF Exit
<1>8. ASSUME Failed(p), old # None
      PROVE  FALSE
  BY <1>1, <1>3, <1>5, <1>7, <1>8 DEF Failed, Command
<1>9. ASSUME NEW step \in CommandStep, Step(p, step), old # None
      PROVE  FALSE
  BY <1>4, <1>9, StepTaken
<1>10. CASE ListNext(p)
  <2>1. PICK n \in old.todo :
          \/ (command' = [command EXCEPT ![p].todo = @ \ {n}] /\ UNCHANGED exit)
          \/ Exit(p, "segv") \/ Exit(p, "error")
          \/ /\ config[n] \in Config
             /\ command' = [command EXCEPT ![p].todo = @ \ {n},
                                           ![p].list = Append(@, [name |-> n, conf |-> config[n]])]
    BY <1>10 DEF ListNext
  <2>2. old # None /\ old.list \in Seq(Entry)
    BY <1>3, <1>10, Fields DEF ListNext, Running
  <2>3. n \in Name
    BY <2>2, <1>10 DEF ListNext, Running, RepoInv, CommandOK
  <2>4. CASE command' = [command EXCEPT ![p].todo = @ \ {n}]
    BY <2>2, <2>4, <1>1, <1>3, <1>4 DEF Command
  <2>5. CASE /\ config[n] \in Config
             /\ command' = [command EXCEPT ![p].todo = @ \ {n},
                                           ![p].list = Append(@, [name |-> n, conf |-> config[n]])]
    <3>1. PICK e : e = [name |-> n, conf |-> config[n]]
      OBVIOUS
    <3>2. e \in Entry /\ e.name = n
      BY <2>3, <2>5, <3>1 DEF Entry
    <3>3. new.list = Append(old.list, e) /\ new.official = old.official
      BY <2>2, <2>5, <3>1, <1>1, <1>3 DEF Command
    <3>4. n # Official
      BY <2>5, <1>1, <1>2, ConfigAssumption DEF RepoInv, PlaceOK
    <3>5. /\ Len(new.list) = Len(old.list) + 1 /\ new.list[Len(old.list) + 1] = e
          /\ \A i \in 1 .. Len(old.list) : new.list[i] = old.list[i]
      BY <2>2, <3>2, <3>3, AppendProperties
    <3>6. Len(old.list) \in Nat
      BY <2>2
    <3>7. \A i \in 1 .. Len(new.list) : i \in 1 .. Len(old.list) \/ i = Len(old.list) + 1
      BY <3>5, <3>6
    <3>8. \A i \in 1 .. Len(new.list) : new.list[i].name # Official
      BY <2>2, <3>2, <3>4, <3>5, <3>7, <1>3 DEF HasSeen
    <3> QED BY <2>2, <3>3, <3>8, <1>2, <1>3 DEF HasSeen
  <2> QED BY <2>1, <2>4, <2>5, <1>7
<1>11. CASE UpdateNext(p)
  <2>1. old # None /\ old.list \in Seq(Entry) /\ old.list # <<>>
    BY <1>3, <1>11, Fields DEF UpdateNext, Running
  <2>2. PICK e, next, c :
          /\ e = Head(old.list)
          /\ next = [old EXCEPT !.list = Tail(@), !.official = @ \/ e.name = Official]
          /\ c = (IF Skipped(e.conf) THEN next
                  ELSE [next EXCEPT !.name = e.name, !.conf = e.conf, !.step = "pull"])
          /\ command' = [command EXCEPT ![p] = c]
    BY <1>11 DEF UpdateNext
  <2>3. /\ Len(old.list) \in Nat \ {0} /\ e = old.list[1]
        /\ Len(Tail(old.list)) = Len(old.list) - 1
        /\ \A i \in 1 .. Len(Tail(old.list)) : Tail(old.list)[i] = old.list[i + 1]
    <3>1. Len(old.list) \in Nat \ {0}
      BY <2>1, EmptySeq
    <3>2. e = old.list[1]
      BY <2>1, <2>2
    <3> QED BY <2>1, <3>1, <3>2, HeadTailProperties
  <2>4. e.name # Official
    BY <2>1, <2>3, <1>3 DEF HasSeen
  <2>5. next.list = Tail(old.list) /\ next.official = (old.official \/ e.name = Official)
    BY <2>1, <2>2, <1>3 DEF Command
  <2>6. c.list = next.list /\ c.official = next.official
    BY <2>1, <2>2, <1>3 DEF Command
  <2>7. new = c
    BY <2>2, <1>1
  <2>8. \A i \in 1 .. Len(new.list) : new.list[i].name # Official
    <3>1. \A i \in 1 .. Len(Tail(old.list)) : i + 1 \in 1 .. Len(old.list)
      BY <2>3
    <3> QED BY <2>1, <2>3, <2>5, <2>6, <2>7, <3>1, <1>3 DEF HasSeen
  <2>9. ~new.official
    <3>1. ~old.official
      BY <2>1, <1>3 DEF HasSeen
    <3> QED BY <2>4, <2>5, <2>6, <2>7, <3>1
  <2> QED BY <2>8, <2>9, <1>2 DEF HasSeen
<1>12. CASE UpdateEnds(p)
  <2>1. CASE \E conf : command' = [command EXCEPT ![p].step = "exists", ![p].name = Official,
                                                  ![p].conf = conf]
    BY <2>1, <1>1, <1>3, <1>4, <1>12 DEF UpdateEnds, Running, Command
  <2> QED BY <2>1, <1>7, <1>12 DEF UpdateEnds
<1>13. CASE LookupRepo(p)
  <2>1. ASSUME NEW conf, NEW step,
               command' = [command EXCEPT ![p].conf = conf, ![p].step = step]
        PROVE  FALSE
    BY <2>1, <1>1, <1>3, <1>4, <1>13 DEF LookupRepo, Running, Command
  <2>2. command[p].name \in Dir /\ CommandOK(command[p]) /\ command[p].verb \in Verb
        /\ command[p].step = "lookup"
    BY <1>3, <1>13, Fields, DirAssumption DEF RepoInv, LookupRepo, Running
  <2>3. command[p].verb \in {"conf", "sync"}
    BY <2>2, StepsOfVerbs DEF CommandOK, Verb
  <2>4. config[command[p].name] \in Config \cup {None, Empty, Garbled}
    BY <2>2 DEF RepoInv, RepoTypes
  <2> QED BY <2>1, <2>3, <2>4, <1>7, <1>13 DEF LookupRepo
<1>14. CASE OpenConfig(p)
  <2>1. CASE command' = [command EXCEPT ![p].step = "save", ![p].fd = old.name]
    BY <2>1, <1>1, <1>3, <1>4, <1>14 DEF OpenConfig, Running, Command
  <2> QED BY <2>1, <1>8, <1>14 DEF OpenConfig, Running
<1>15. CASE SaveConfig(p)
  <2>1. CASE command' = [command EXCEPT ![p].step = "each", ![p].fd = None]
    BY <2>1, <1>1, <1>3, <1>4, <1>15 DEF SaveConfig, Running, Command
  <2> QED BY <2>1, <1>7, <1>15 DEF SaveConfig, Saved
<1>16. CASE RemoveEntry(p)
  <2>1. PICK x \in old.todo : new = [old EXCEPT !.todo = @ \ {x}]
    BY <1>16 DEF RemoveEntry
  <2> QED BY <2>1, <1>3, <1>4, <1>16 DEF RemoveEntry, Running, Command
<1>17. CASE UNCHANGED command
  BY <1>2, <1>3, <1>17
<1>18. CASE \/ CheckAbsent(p) \/ PrepareSession(p) \/ InitRepository(p) \/ StartClone(p)
            \/ CloneReturns(p) \/ WriteNewConfig(p)
  BY <1>7, <1>9, <1>18
  DEF CheckAbsent, PrepareSession, InitRepository, StartClone, CloneReturns, WriteNewConfig,
      Running, CommandStep
<1>19. CASE \/ RenameSession(p) \/ CheckDeletable(p) \/ CheckConfig(p) \/ RemoveDir(p)
            \/ StartPull(p) \/ PullReturns(p) \/ ListEnds(p) \/ Locate(p)
  BY <1>7, <1>8, <1>9, <1>19
  DEF RenameSession, CheckDeletable, CheckConfig, RemoveDir, StartPull, PullReturns, ListEnds,
      Locate, Running, CommandStep
<1>20. CASE GitWork(p) \/ CallFails(p) \/ Kill(p)
  BY <1>7, <1>8, <1>17, <1>20 DEF GitWork, CallFails, Kill, ShortWrite, Running, repo
<1> QED
  BY <1>6, <1>10, <1>11, <1>12, <1>13, <1>14, <1>15, <1>16, <1>18, <1>19, <1>20
  DEF RepoAction, RepoStep

-----------------------------------------------------------------------------
(***************************************************************************)
(* The invariant.                                                          *)
(***************************************************************************)
LEMMA InitRepo == RepoInit => RepoInv
<1> SUFFICES ASSUME RepoInit
             PROVE  RepoInv
  OBVIOUS
<1>1. git \in [Dir -> Repository] /\ \A d \in Dir : git[d].is = "absent"
  BY BlankIsRepository DEF RepoInit
<1>2. TypeInv
  BY <1>1 DEF RepoInit, TypeInv, TypeOK
<1>3. RepoTypes
  BY <1>2 DEF RepoInit, RepoTypes
<1>4. \A d \in Dir : PlaceOK(d)
  BY <1>1 DEF RepoInit, PlaceOK
<1>5. \A p \in Pid : command[p] = None /\ pc[p] = "idle"
  BY DEF RepoInit
<1>6. torn = {}
  BY DEF RepoInit
<1> QED BY <1>3, <1>4, <1>5, <1>6 DEF RepoInv, SyncOK, SessionOK, OpenOK, SeenOK

LEMMA ActionKeepsRepo ==
  ASSUME RepoInv, NEW p \in Pid, RepoAction(p) \/ InvokeAny(p)
  PROVE  RepoInv'
<1>1. CommandsOK(p) /\ FilesOK(p)
  BY ActionGoesOn, NewCommand, ActionFiles
<1>2. SyncOK(p)' /\ SessionOK(p)' /\ OpenOK(p)'
  <2>1. TypeInv /\ command \in [Pid -> Command \cup {None}]
    BY DEF RepoInv, RepoTypes
  <2>2. CASE InvokeAny(p)
    <3>1. /\ command[p] = None /\ pc' = pc
          /\ command'[p].step \notin {"clone", "cloned", "write", "rename", "pulled"}
          /\ command'[p].fd = None
      BY <2>2, NewCommand DEF OnlyCommand, vars
    <3>2. pc[p] = "idle"
      BY <3>1 DEF RepoInv, SyncOK
    <3>3. command'[p] # None => command'[p].step # "save"
      BY <3>1, <1>1, DirAssumption, ConfigAssumption, Fields DEF CommandsOK, CommandOK
    <3> QED BY <3>1, <3>2, <3>3, <1>1, CalmIsOK
  <2>3. ASSUME GitFails(p), command'[p] \in {command[p], None}
        PROVE  SyncOK(p)' /\ SessionOK(p)' /\ OpenOK(p)'
    BY <2>3, <1>1, SyncGoesOn
  <2>4. CASE GitWork(p)
    <3>1. GitStep(p) /\ command'[p] = command[p]
      BY <2>4 DEF GitWork, repo
    <3>2. command[p] # None
      BY <3>1, <2>1, StepIsLocal DEF TypeInv, RepoInv, SyncOK
    <3> QED BY <3>1, <3>2, <1>1, SyncGoesOn
  <2>5. CASE CallFails(p)
    BY <2>3, <2>5, <1>1, CalmGoesOn DEF CallFails, repo
  <2>6. CASE Kill(p)
    <3>1. command'[p] = None
      BY <2>1, <2>6 DEF Kill, Exit
    <3>2. CASE GitFails(p)
      BY <2>3, <3>1, <3>2
    <3>3. CASE ~GitFails(p)
      BY <2>6, <3>1, <3>3, <1>1, CalmIsOK DEF Kill, At, vars
    <3> QED BY <3>2, <3>3
  <2>7. CASE RepoStep(p)
    BY <2>7, <1>1, CalmGoesOn, SessionGoesOn, SyncBegins DEF RepoStep
  <2> QED BY <2>2, <2>4, <2>5, <2>6, <2>7 DEF RepoAction
<1>3. SeenOK(p)'
  BY <1>1, SeenGoesOn
<1>4. ProcessOK(p)'
  BY <1>1, <1>2, <1>3 DEF ProcessOK, CommandsOK
<1>5. \A q \in Pid : ProcessOK(q)'
  BY <1>1, <1>4, OthersKeep
<1>6. RepoTypes'
  BY <1>1 DEF CommandsOK, FilesOK, RepoTypes, Settings
<1> QED BY <1>1, <1>5, <1>6 DEF RepoInv, ProcessOK, FilesOK

LEMMA NextRepo == RepoInv /\ [RepoNext]_<<repo, vars>> => RepoInv'
<1> SUFFICES ASSUME RepoInv, [RepoNext]_<<repo, vars>>
             PROVE  RepoInv'
  OBVIOUS
<1>1. ASSUME NEW p \in Pid, RepoAction(p) \/ InvokeAny(p)
      PROVE  RepoInv'
  BY <1>1, ActionKeepsRepo
<1>2. CASE Elsewhere \/ UNCHANGED <<repo, vars>>
  <2>1. UNCHANGED <<git, pc, job, result, past, repo>>
    BY <1>2 DEF Elsewhere, Push, vars
  <2>2. TypeInv'
    <3>1. [Next]_vars
      BY <1>2 DEF Elsewhere, Next, vars
    <3> QED BY <3>1, NextTypes DEF RepoInv, RepoTypes
  <2>3. RepoTypes'
    BY <2>1, <2>2 DEF RepoInv, RepoTypes, repo
  <2>4. \A p \in Pid : ProcessOK(p)'
    BY <2>1 DEF RepoInv, ProcessOK, SyncOK, SessionOK, Cloning, OpenOK, SeenOK, repo
  <2>5. \A d \in Dir : PlaceOK(d)'
    BY <2>1 DEF RepoInv, PlaceOK, repo
  <2> QED BY <2>1, <2>3, <2>4, <2>5 DEF RepoInv, ProcessOK, repo
<1> QED BY <1>1, <1>2 DEF RepoNext, RepoAction, InvokeAny

-----------------------------------------------------------------------------
\* Every variable keeps its type, and an empty directory has no config file.
THEOREM RepoTypeCorrect == RepoSpec => []RepoTypeOK
<1>1. RepoInv => RepoTypeOK
  <2> SUFFICES ASSUME RepoInv
               PROVE  RepoTypeOK
    OBVIOUS
  <2>1. ASSUME NEW p \in Pid, command[p] # None, command[p].step = "save"
        PROVE  command[p].fd # None
    <3>1. command[p].name \in Name /\ CommandOK(command[p])
      BY <2>1, Fields DEF RepoInv, RepoTypes
    <3> QED BY <2>1, <3>1, DirAssumption, ConfigAssumption DEF CommandOK
  <2>2. \A d \in Dir : git[d].is \in {"absent", "empty"} => config[d] = None
    BY DEF RepoInv, PlaceOK
  <2> QED BY <2>1, <2>2 DEF RepoTypeOK, RepoInv, RepoTypes, TypeInv
<1> QED BY <1>1, InitRepo, NextRepo, PTL DEF RepoSpec

\* Whatever commands run at once and wherever they are killed: a repository in its place
\* keeps its worktree and its config file until a formula-repo-del begins to delete it.
THEOREM RepositoriesStayWhole == RepoSpec => []StaysWhole
<1>1. RepoInv => StaysWhole
  BY DirAssumption DEF RepoInv, PlaceOK, StaysWhole
<1> QED BY <1>1, InitRepo, NextRepo, PTL DEF RepoSpec

\* Nothing but the rename puts a repository where none was.
LEMMA OnlyRenameCreates ==
  ASSUME RepoInv, NEW p \in Pid, RepoAction(p) \/ InvokeAny(p), NEW n \in Name \ torn',
         git[n].is \in {"absent", "empty"}, git'[n].is \notin {"absent", "empty"}
  PROVE  /\ RenameSession(p) /\ command[p].name = n
         /\ git' = [git EXCEPT ![n] = git[p], ![p] = Blank("absent")]
         /\ config' = [config EXCEPT ![n] = config[p], ![p] = None]
<1>1. /\ n \in Dir /\ p \in Dir /\ n # p /\ git \in [Dir -> Repository] /\ TypeInv /\ PlaceOK(n)
  BY DirAssumption DEF RepoInv, RepoTypes, TypeInv, TypeOK
<1>2. n \notin torn => git[n].is = "absent"
  BY <1>1 DEF PlaceOK
<1>3. CASE UNCHANGED git
  BY <1>3
<1>4. CASE PrepareSession(p) \/ InitRepository(p)
  BY <1>1, <1>4 DEF PrepareSession, InitRepository
<1>5. CASE GitStep(p) \/ GitFails(p)
  <2>1. n \notin torn
    <3>1. torn' = torn \/ torn' = torn \cup {command[p].name} \/ RenameSession(p)
      BY DEF RepoAction, RepoStep, GitWork, CallFails, Kill, InvokeAny, Invoke, OnlyCommand, repo,
             CheckAbsent, PrepareSession, InitRepository, StartClone, CloneReturns, WriteNewConfig,
             CheckDeletable, CheckConfig, RemoveEntry, RemoveDir, LookupRepo, StartPull, PullReturns,
             OpenConfig, SaveConfig, ListNext, ListEnds, UpdateNext, UpdateEnds, Locate, ShortWrite
    <3>2. ~RenameSession(p)
      BY <1>1, <1>5, StepIsLocal
      DEF RepoInv, SyncOK, RenameSession, Running, TypeInv
    <3> QED BY <3>1, <3>2
  <2> QED BY <2>1, <1>1, <1>2, <1>5, GitKeepsKind
<1>6. CASE OpenConfig(p)
  <2>1. torn' = torn
    BY <1>6 DEF OpenConfig, OnlyCommand
  <2>2. /\ git[command[p].name].is # "absent"
        /\ git' = [git EXCEPT ![command[p].name] = IF @.is = "empty" THEN Blank("damaged") ELSE @]
    BY <1>3, <1>6 DEF OpenConfig, Target, OnlyCommand, vars
  <2> QED BY <2>1, <2>2, <1>1, <1>2
<1>7. CASE RemoveEntry(p)
  <2>1. n # command[p].name
    BY <1>7 DEF RemoveEntry
  <2> QED BY <2>1, <1>1, <1>7 DEF RemoveEntry
<1>8. CASE RemoveDir(p)
  <2>1. n # command[p].name \/ git' = git \/ git' = [git EXCEPT ![n] = Blank("absent")]
    BY <1>8 DEF RemoveDir, OnlyCommand, vars
  <2> QED BY <2>1, <1>1, <1>8, BlankIsRepository DEF RemoveDir, OnlyCommand, vars
<1>9. CASE RenameSession(p)
  <2>1. /\ git' = [git EXCEPT ![command[p].name] = git[p], ![p] = Blank("absent")]
        /\ config' = [config EXCEPT ![command[p].name] = config[p], ![p] = None]
    BY <1>3, <1>9 DEF RenameSession, OnlyCommand, vars
  <2>2. n = command[p].name
    BY <2>1, <1>1
  <2> QED BY <2>1, <2>2, <1>9
<1>10. CASE StartClone(p) \/ StartPull(p)
  BY <1>3, <1>10 DEF StartClone, StartPull, SyncStart
<1> QED
  BY <1>3, <1>4, <1>5, <1>6, <1>7, <1>8, <1>9, <1>10
  DEF RepoAction, RepoStep, GitWork, CallFails, Kill, InvokeAny, Invoke, OnlyCommand, vars,
      CheckAbsent, CloneReturns, WriteNewConfig, CheckDeletable, CheckConfig, LookupRepo,
      PullReturns, SaveConfig, ListNext, ListEnds, UpdateNext, UpdateEnds, Locate, ShortWrite

LEMMA RenamedIsWhole ==
  ASSUME RepoInv, NEW p \in Pid, RepoAction(p) \/ InvokeAny(p), NEW n \in Name \ torn',
         git[n].is \in {"absent", "empty"}, git'[n].is \notin {"absent", "empty"}
  PROVE  /\ git'[n].is = "repo" /\ config'[n] \in Config
         /\ \A q \in Pid :
              command[q] # None /\ command'[q] = None /\ command[q].verb # "init" =>
                OnBranch(git'[n], config'[n].branch)
<1>1. /\ RenameSession(p) /\ command[p].name = n
      /\ git' = [git EXCEPT ![n] = git[p], ![p] = Blank("absent")]
      /\ config' = [config EXCEPT ![n] = config[p], ![p] = None]
  BY OnlyRenameCreates
<1>2. n \in Dir /\ p \in Dir /\ n # p
  BY DirAssumption
<1>3. git'[n] = git[p] /\ config'[n] = config[p]
  BY <1>1, <1>2 DEF RepoInv, RepoTypes, TypeInv, TypeOK
<1>4. /\ command[p] # None /\ command[p].step = "rename" /\ command[p].conf \in Config
  BY <1>1, Fields DEF RenameSession, Running, RepoInv, RepoTypes
<1>5. /\ git[p].is = "repo" /\ config[p] = command[p].conf
      /\ command[p].verb # "init" => OnBranch(git[p], command[p].conf.branch)
  BY <1>4 DEF RepoInv, SessionOK
<1>6. ASSUME NEW q \in Pid, command[q] # None, command'[q] = None
      PROVE  q = p
  <2>1. CASE q # p
    <3>1. command'[q] = command[q] \/ FileUnlinked(q)
      BY <2>1, ActionGoesOn, NewCommand DEF CommandsOK
    <3>2. CASE FileUnlinked(q)
      <4>1. command[q] \in Command
        BY <1>6 DEF RepoInv, RepoTypes
      <4>2. [command[q] EXCEPT !.fd = Unlinked] \in Command
        BY <4>1 DEF Command
      <4> QED BY <4>2, <3>2, <1>6, CommandMarkAssumption DEF FileUnlinked
    <3> QED BY <3>1, <3>2, <1>6
  <2> QED BY <2>1
<1> QED BY <1>3, <1>4, <1>5, <1>6

\* A repository appears whole under its name: with its config file and, unless it was
\* made by formula-repo-init, with the files of its branch; what fails or is killed
\* before leaves nothing there.
THEOREM RepositoriesAppearWhole == RepoSpec => AppearsWhole
<1> DEFINE Whole ==
      \A n \in Name \ torn' :
        git[n].is \in {"absent", "empty"} /\ git'[n].is \notin {"absent", "empty"} =>
          /\ git'[n].is = "repo" /\ config'[n] \in Config
          /\ \A p \in Pid :
               command[p] # None /\ command'[p] = None /\ command[p].verb # "init" =>
                 /\ git'[n].head = config'[n].branch
                 /\ \A f \in File : git'[n].files[f] = git'[n].heads[config'[n].branch]
<1>1. RepoInv /\ [RepoNext]_<<repo, vars>> => [Whole]_<<repo, vars>>
  <2> SUFFICES ASSUME RepoInv, RepoNext
               PROVE  Whole
    OBVIOUS
  <2>1. CASE Elsewhere
    BY <2>1 DEF Elsewhere, Push
  <2>2. CASE \E p \in Pid : RepoAction(p) \/ InvokeAny(p)
    BY <2>2, RenamedIsWhole DEF OnBranch
  <2> QED BY <2>1, <2>2 DEF RepoNext, RepoAction, InvokeAny
<1>2. RepoSpec => [][Whole]_<<repo, vars>>
  BY <1>1, InitRepo, NextRepo, PTL DEF RepoSpec
<1> QED BY <1>2 DEF AppearsWhole

\* The steps with which `update' ends well.
LEMMA UpdateEndsSo ==
  ASSUME RepoInv, NEW p \in Pid, RepoAction(p), command[p] # None, command[p].verb = "update",
         command'[p] = None, exit'[p] = "ok"
  PROVE  RenameSession(p) \/ UpdateEnds(p)
<1>1. command[p] \in Command /\ CommandOK(command[p]) /\ command[p].step \in StepsOf("update")
  BY DEF RepoInv, RepoTypes, CommandOK
<1>2. ASSUME NEW r \in {"ok", "error", "segv", "killed"}, Exit(p, r)
      PROVE  r = "ok"
  BY <1>2, CommandGoesOn
<1>3. ~Failed(p)
  BY FailureGoesOn
<1>4. ASSUME NEW step \in CommandStep, Step(p, step)
      PROVE  FALSE
  BY <1>4, StepTaken
<1>5. ~UpdateNext(p) /\ ~ListNext(p)
  BY ListGoesOn DEF UpdateNext, ListNext, UpdateEnds, Running
<1>6. ~LookupRepo(p) /\ ~OpenConfig(p) /\ ~SaveConfig(p) /\ ~ShortWrite(p)
  BY SettingsGoOn
<1>7. /\ ~RemoveEntry(p) /\ ~RemoveDir(p) /\ ~Locate(p) /\ ~CheckDeletable(p) /\ ~CheckConfig(p)
      /\ ~InitRepository(p)
  BY <1>1, StepsOfVerbs
  DEF RemoveEntry, RemoveDir, Locate, CheckDeletable, CheckConfig, InitRepository, Running
<1>8. /\ ~CheckAbsent(p) /\ ~PrepareSession(p) /\ ~StartClone(p) /\ ~CloneReturns(p)
      /\ ~WriteNewConfig(p) /\ ~StartPull(p) /\ ~PullReturns(p) /\ ~ListEnds(p)
  BY <1>2, <1>3, <1>4
  DEF CheckAbsent, PrepareSession, StartClone, CloneReturns, WriteNewConfig, StartPull, PullReturns,
      ListEnds, CommandStep
<1>9. ~GitWork(p) /\ ~CallFails(p) /\ ~Kill(p)
  BY <1>2, <1>3, <1>6 DEF GitWork, CallFails, Kill, repo
<1> QED BY <1>5, <1>6, <1>7, <1>8, <1>9 DEF RepoAction, RepoStep

\* What such a rename puts into its place.
LEMMA OfficialIsRenamed ==
  ASSUME RepoInv, NEW p \in Pid, RenameSession(p), command[p].verb = "update", exit'[p] = "ok"
  PROVE  /\ command[p].name = Official
         /\ git' = [git EXCEPT ![Official] = git[p], ![p] = Blank("absent")]
         /\ config' = [config EXCEPT ![Official] = config[p], ![p] = None]
         /\ p \in Dir /\ p \notin Name /\ Official \in Name /\ Name \subseteq Dir
         /\ git \in [Dir -> Repository] /\ git[p].is = "repo"
<1>1. command[p] # None /\ command[p].step = "rename" /\ CommandOK(command[p])
  BY DEF RenameSession, Running, RepoInv
<1>2. ~Exit(p, "error")
  BY CommandGoesOn
<1>3. command[p].name = Official
  BY <1>1 DEF CommandOK, Preparing
<1>4. /\ git' = [git EXCEPT ![Official] = git[p], ![p] = Blank("absent")]
      /\ config' = [config EXCEPT ![Official] = config[p], ![p] = None]
  BY <1>2, <1>3 DEF RenameSession
<1>5. /\ p \in Dir /\ p \notin Name /\ Official \in Name /\ Name \subseteq Dir
      /\ git \in [Dir -> Repository] /\ git[p].is = "repo"
  BY <1>1, DirAssumption DEF RepoInv, RepoTypes, TypeInv, TypeOK, SessionOK
<1> QED BY <1>3, <1>4, <1>5

LEMMA UpdateEndsWell ==
  ASSUME RepoInv, NEW p \in Pid, RepoAction(p), command[p] # None, command[p].verb = "update",
         command'[p] = None, exit'[p] = "ok"
  PROVE  git'[Official].is # "absent"
<1>1. CASE RenameSession(p)
  <2>1. git'[Official] = git[p] /\ git[p].is = "repo"
    BY <1>1, OfficialIsRenamed
  <2> QED BY <2>1
<1>2. CASE UpdateEnds(p)
  <2>1. command[p].official /\ git' = git
    BY <1>2, ListGoesOn DEF UpdateEnds, OnlyCommand, vars
  <2> QED BY <2>1 DEF RepoInv, SeenOK, HasSeen
<1> QED BY <1>1, <1>2, UpdateEndsSo

\* When `update' reports success, official-core is there, whatever the other processes
\* have done meanwhile.
THEOREM UpdateLeavesOfficial == RepoSpec => UpdateBringsOfficial
<1> DEFINE OfficialThere(p) ==
      command[p] # None /\ command[p].verb = "update" /\ command'[p] = None /\ exit'[p] = "ok" =>
        git'[Official].is = "repo" /\ config'[Official] # None
<1>1. RepoInv /\ [RepoNext]_<<repo, vars>> => [\A p \in Pid : OfficialThere(p)]_<<repo, vars>>
  <2> SUFFICES ASSUME RepoInv, RepoNext, NEW p \in Pid, command[p] # None,
                      command[p].verb = "update", command'[p] = None, exit'[p] = "ok"
               PROVE  git'[Official].is = "repo" /\ config'[Official] # None
    OBVIOUS
  <2>1. PICK q \in Pid : RepoAction(q) \/ InvokeAny(q)
    BY DEF RepoNext, RepoAction, InvokeAny, Elsewhere, repo
  <2>2. CommandsOK(q)
    BY <2>1, ActionGoesOn, NewCommand
  <2>3. p = q
    <3>1. CASE p # q
      <4>1. FileUnlinked(p)
        BY <2>2, <3>1 DEF CommandsOK
      <4>2. command[p] \in Command
        BY DEF RepoInv, RepoTypes
      <4>3. [command[p] EXCEPT !.fd = Unlinked] \in Command
        BY <4>2 DEF Command
      <4> QED BY <4>1, <4>3, CommandMarkAssumption DEF FileUnlinked
    <3> QED BY <3>1
  <2>4. git'[Official].is # "absent"
    BY <2>1, <2>3, UpdateEndsWell, NewCommand
  <2>5. RepoInv'
    BY NextRepo
  <2> QED BY <2>4, <2>5, DirAssumption DEF RepoInv, PlaceOK
<1>2. RepoSpec => [][\A p \in Pid : OfficialThere(p)]_<<repo, vars>>
  BY <1>1, InitRepo, NextRepo, PTL DEF RepoSpec
<1> QED BY <1>2 DEF UpdateBringsOfficial

-----------------------------------------------------------------------------
(***************************************************************************)
(* One command after the other.                                            *)
(***************************************************************************)
\* The steps at which a command has the settings of its repository at hand.
AtHand == {"pull", "pulled", "open", "save"}

\* The settings that a command has at hand are those its repository has been asked to
\* have, a repository that is synced is not pinned, and a config file that is open is
\* empty.
HandOK(p) ==
  command[p] # None =>
    LET c == command[p]
        n == c.name
    IN  /\ c.step \in AtHand /\ asked[n] # None =>
             c.conf = IF c.verb = "conf" THEN Merge(asked[n], c.change) ELSE asked[n]
        /\ c.step \in AtHand /\ c.verb # "conf" => ~c.conf.pinned
        /\ c.step = "save" => config[n] = Empty
        /\ \A i \in 1 .. Len(c.list) :
             asked[c.list[i].name] # None => c.list[i].conf = asked[c.list[i].name]

SerialInv ==
  /\ \A p, q \in Pid : command[p] # None /\ command[q] # None => p = q
  /\ ConfigIsAsAsked
  /\ \A p \in Pid : HandOK(p)

\* Who takes a step runs a command, and nobody else does.
LEMMA OneRuns ==
  ASSUME RepoInv, SerialInv, NEW p \in Pid, RepoAction(p)
  PROVE  /\ command[p] # None /\ command[p] \in Command /\ CommandOK(command[p])
         /\ \A q \in Pid \ {p} : command[q] = None /\ command'[q] = None
<1>1. ASSUME GitStep(p) \/ GitFails(p)
      PROVE  command[p] # None
  BY <1>1, StepIsLocal DEF RepoInv, RepoTypes, SyncOK, TypeInv
<1>2. command[p] # None
  BY <1>1
  DEF RepoAction, RepoStep, GitWork, CallFails, Kill, ShortWrite, Running,
      CheckAbsent, PrepareSession, InitRepository, StartClone, CloneReturns, WriteNewConfig,
      RenameSession, CheckDeletable, CheckConfig, RemoveEntry, RemoveDir, LookupRepo, StartPull,
      PullReturns, OpenConfig, SaveConfig, ListNext, ListEnds, UpdateNext, UpdateEnds, Locate
<1>3. CommandsOK(p)
  BY ActionGoesOn
<1> QED BY <1>2, <1>3 DEF SerialInv, CommandsOK, FileUnlinked, RepoInv, RepoTypes

\* What a step keeps when it turns to no other repository and opens no file.
HandKept(p) ==
  LET old == command[p]
      new == command'[p]
  IN  /\ new.verb = old.verb /\ new.name = old.name /\ new.conf = old.conf
      /\ new.change = old.change /\ new.list \in {old.list, <<>>}
      /\ new.step \in AtHand => old.step \in AtHand
      /\ new.step # "save"

LEMMA KeptIsOK ==
  ASSUME RepoInv, SerialInv, NEW p \in Pid, command[p] # None, asked' = asked, HandKept(p)
  PROVE  HandOK(p)'
<1>1. HandOK(p)
  BY DEF SerialInv
<1>2. Len(<<>>) = 0
  OBVIOUS
<1>3. \A i \in 1 .. Len(command'[p].list) :
        asked'[command'[p].list[i].name] # None =>
          command'[p].list[i].conf = asked'[command'[p].list[i].name]
  <2>1. CASE command'[p].list = command[p].list
    BY <2>1, <1>1 DEF HandOK
  <2>2. CASE command'[p].list = <<>>
    BY <2>2, <1>2
  <2> QED BY <2>1, <2>2 DEF HandKept
<1> QED BY <1>1, <1>3 DEF HandOK, HandKept, AtHand

\* Whoever goes on after the step has changed nothing of what was asked.
LEMMA AskedWhenDone ==
  ASSUME RepoInv, NEW p \in Pid, RepoAction(p), command'[p] # None
  PROVE  asked' = asked
<1>1. ASSUME NEW r, Exit(p, r)
      PROVE  FALSE
  BY <1>1 DEF Exit, RepoInv, RepoTypes
<1>2. CASE SaveConfig(p) \/ ShortWrite(p)
  <2>1. command[p].verb # "conf"
    BY <1>1, <1>2 DEF SaveConfig, ShortWrite, Saved, Failed
  <2> QED BY <2>1, <1>2 DEF SaveConfig, ShortWrite, Put
<1>3. CASE RenameSession(p) \/ RemoveDir(p)
  BY <1>1, <1>3 DEF RenameSession, RemoveDir
<1> QED
  BY <1>2, <1>3
  DEF RepoAction, RepoStep, GitWork, CallFails, Kill, OnlyCommand, repo,
      CheckAbsent, PrepareSession, InitRepository, StartClone, CloneReturns, WriteNewConfig,
      CheckDeletable, CheckConfig, RemoveEntry, LookupRepo, StartPull,
      PullReturns, OpenConfig, ListNext, ListEnds, UpdateNext, UpdateEnds, Locate

LEMMA LookedUpIsOK ==
  ASSUME RepoInv, SerialInv, NEW p \in Pid, LookupRepo(p), command'[p] # None
  PROVE  HandOK(p)'
<1> DEFINE old == command[p]
           new == command'[p]
           n == old.name
<1>1. /\ old # None /\ old \in Command /\ CommandOK(old) /\ old.verb \in Verb /\ old.step = "lookup"
      /\ n \in Name /\ n \in Dir
  BY Fields, DirAssumption DEF LookupRepo, Running, RepoInv, RepoTypes
<1>2. old.verb \in {"conf", "sync"}
  BY <1>1, StepsOfVerbs DEF CommandOK, Verb
<1>3. config[n] \in Config \cup {None, Empty, Garbled}
  BY <1>1 DEF RepoInv, RepoTypes
<1>4. ASSUME NEW r, Exit(p, r)
      PROVE  FALSE
  BY <1>4 DEF Exit, RepoInv, RepoTypes
<1>5. /\ config[n] \in Config /\ asked' = asked
      /\ \/ /\ old.verb = "conf"
            /\ command' = [command EXCEPT ![p].conf = Merge(config[n], old.change), ![p].step = "open"]
         \/ /\ old.verb = "sync" /\ ~Skipped(config[n])
            /\ command' = [command EXCEPT ![p].conf = config[n], ![p].step = "pull"]
  BY <1>2, <1>3, <1>4 DEF LookupRepo, OnlyCommand
<1>6. /\ new.verb = old.verb /\ new.name = n /\ new.change = old.change /\ new.list = old.list
      /\ \/ old.verb = "conf" /\ new.conf = Merge(config[n], old.change) /\ new.step = "open"
         \/ old.verb = "sync" /\ ~Skipped(config[n]) /\ new.conf = config[n] /\ new.step = "pull"
  BY <1>1, <1>5 DEF RepoInv, RepoTypes, Command
<1>7. asked[n] # None => config[n] = asked[n]
  BY <1>1, <1>5 DEF SerialInv, ConfigIsAsAsked
<1>8. HandOK(p)
  BY DEF SerialInv
<1> QED BY <1>1, <1>5, <1>6, <1>7, <1>8 DEF HandOK, AtHand, Skipped

LEMMA OpenedIsOK ==
  ASSUME RepoInv, SerialInv, NEW p \in Pid, OpenConfig(p), command'[p] # None
  PROVE  HandOK(p)'
<1> DEFINE old == command[p]
           new == command'[p]
           n == old.name
<1>1. /\ old # None /\ old \in Command /\ old.step = "open" /\ n \in Name /\ n \in Dir
      /\ command \in [Pid -> Command \cup {None}] /\ config \in [Dir -> Config \cup {None, Empty, Garbled}]
  BY Fields, DirAssumption DEF OpenConfig, Running, RepoInv, RepoTypes
<1>2. CASE Failed(p) /\ OnlyCommand
  <2>1. command' = [command EXCEPT ![p].step = "each", ![p].list = <<>>, ![p].fd = None,
                                   ![p].ret = "error"]
    BY <1>1, <1>2 DEF Failed, Exit
  <2>2. HandKept(p)
    BY <2>1, <1>1 DEF HandKept, AtHand, Command
  <2> QED BY <2>2, <1>1, <1>2, KeptIsOK DEF OnlyCommand
<1>3. CASE ~(Failed(p) /\ OnlyCommand)
  <2>1. /\ config' = [config EXCEPT ![n] = Empty] /\ asked' = asked
        /\ command' = [command EXCEPT ![p].step = "save", ![p].fd = n]
    BY <1>3 DEF OpenConfig
  <2>2. /\ config'[n] = Empty
        /\ new.verb = old.verb /\ new.name = n /\ new.conf = old.conf /\ new.change = old.change
        /\ new.list = old.list /\ new.step = "save"
    BY <2>1, <1>1 DEF Command
  <2>3. HandOK(p)
    BY DEF SerialInv
  <2> QED BY <2>1, <2>2, <2>3, <1>1 DEF HandOK, AtHand
<1> QED BY <1>2, <1>3

LEMMA ListedIsOK ==
  ASSUME RepoInv, SerialInv, NEW p \in Pid, ListNext(p), command'[p] # None
  PROVE  HandOK(p)'
<1> DEFINE old == command[p]
           new == command'[p]
<1>1. /\ old # None /\ old \in Command /\ CommandOK(old) /\ old.step = "list" /\ old.list \in Seq(Entry)
      /\ command \in [Pid -> Command \cup {None}] /\ asked' = asked
  BY Fields DEF ListNext, Running, RepoInv, RepoTypes, OnlyCommand
<1>2. ASSUME NEW r, Exit(p, r)
      PROVE  FALSE
  BY <1>2, <1>1 DEF Exit
<1>3. PICK n \in old.todo :
        \/ command' = [command EXCEPT ![p].todo = @ \ {n}]
        \/ /\ config[n] \in Config
           /\ command' = [command EXCEPT ![p].todo = @ \ {n},
                                         ![p].list = Append(@, [name |-> n, conf |-> config[n]])]
  BY <1>2 DEF ListNext
<1>4. n \in Name
  BY <1>1 DEF CommandOK
<1>5. CASE command' = [command EXCEPT ![p].todo = @ \ {n}]
  <2>1. HandKept(p)
    BY <1>1, <1>5 DEF HandKept, AtHand, Command
  <2> QED BY <2>1, <1>1, KeptIsOK
<1>6. CASE /\ config[n] \in Config
           /\ command' = [command EXCEPT ![p].todo = @ \ {n},
                                         ![p].list = Append(@, [name |-> n, conf |-> config[n]])]
  <2>1. PICK e : e = [name |-> n, conf |-> config[n]]
    OBVIOUS
  <2>2. e \in Entry /\ e.name = n /\ e.conf = config[n]
    BY <1>4, <1>6, <2>1 DEF Entry
  <2>3. new.list = Append(old.list, e) /\ new.step = "list"
    BY <1>1, <1>6, <2>1 DEF Command
  <2>4. /\ Len(new.list) = Len(old.list) + 1 /\ new.list[Len(old.list) + 1] = e
        /\ \A i \in 1 .. Len(old.list) : new.list[i] = old.list[i]
        /\ Len(old.list) \in Nat
    BY <1>1, <2>2, <2>3, AppendProperties
  <2>5. asked[n] # None => config[n] = asked[n]
    BY <1>4, <1>6 DEF SerialInv, ConfigIsAsAsked
  <2>6. HandOK(p)
    BY DEF SerialInv
  <2>7. \A i \in 1 .. Len(old.list) :
          asked[old.list[i].name] # None => old.list[i].conf = asked[old.list[i].name]
    BY <1>1, <2>6 DEF HandOK
  <2>8. \A i \in 1 .. Len(new.list) : i \in 1 .. Len(old.list) \/ i = Len(old.list) + 1
    BY <2>4
  <2>9. \A i \in 1 .. Len(new.list) :
          asked'[new.list[i].name] # None => new.list[i].conf = asked'[new.list[i].name]
    BY <1>1, <2>2, <2>4, <2>5, <2>7, <2>8
  <2> QED BY <2>3, <2>9 DEF HandOK, AtHand
<1> QED BY <1>3, <1>5, <1>6

LEMMA TurnedIsOK ==
  ASSUME RepoInv, SerialInv, NEW p \in Pid, UpdateNext(p) \/ UpdateEnds(p), command'[p] # None
  PROVE  HandOK(p)'
<1> DEFINE old == command[p]
           new == command'[p]
<1>1. /\ old # None /\ old \in Command /\ CommandOK(old) /\ old.verb \in Verb /\ old.step = "each"
      /\ old.list \in Seq(Entry)
      /\ command \in [Pid -> Command \cup {None}] /\ asked' = asked
  BY Fields DEF UpdateNext, UpdateEnds, Running, RepoInv, RepoTypes, OnlyCommand
<1>2. old.verb = "update"
  BY <1>1, StepsOfVerbs DEF CommandOK, Verb
<1>3. \A i \in 1 .. Len(old.list) :
        asked[old.list[i].name] # None => old.list[i].conf = asked[old.list[i].name]
  BY <1>1 DEF SerialInv, HandOK
<1>4. CASE UpdateNext(p)
  <2>1. PICK e, next, c :
          /\ e = Head(old.list)
          /\ next = [old EXCEPT !.list = Tail(@), !.official = @ \/ e.name = Official]
          /\ c = (IF Skipped(e.conf) THEN next
                  ELSE [next EXCEPT !.name = e.name, !.conf = e.conf, !.step = "pull"])
          /\ command' = [command EXCEPT ![p] = c]
    BY <1>4 DEF UpdateNext
  <2>2. old.list # <<>>
    BY <1>4 DEF UpdateNext
  <2>3. /\ Len(old.list) \in Nat \ {0} /\ e = old.list[1]
        /\ Len(Tail(old.list)) = Len(old.list) - 1
        /\ \A i \in 1 .. Len(Tail(old.list)) : Tail(old.list)[i] = old.list[i + 1]
    <3>1. Len(old.list) \in Nat \ {0}
      BY <1>1, <2>2, EmptySeq
    <3>2. e = old.list[1]
      BY <1>1, <2>1
    <3> QED BY <1>1, <2>2, <3>1, <3>2, HeadTailProperties
  <2>4. /\ next.list = Tail(old.list) /\ next.step = "each" /\ next.verb = "update"
        /\ c.list = next.list /\ c.verb = "update"
        /\ \/ c.step = "each"
           \/ c.step = "pull" /\ c.name = e.name /\ c.conf = e.conf /\ ~Skipped(e.conf)
    BY <1>1, <1>2, <2>1 DEF Command
  <2>5. new = c
    BY <1>1, <2>1
  <2>6. \A i \in 1 .. Len(new.list) :
          asked'[new.list[i].name] # None => new.list[i].conf = asked'[new.list[i].name]
    <3> SUFFICES ASSUME NEW i \in 1 .. Len(new.list)
                 PROVE  asked'[new.list[i].name] # None => new.list[i].conf = asked'[new.list[i].name]
      OBVIOUS
    <3>1. new.list = Tail(old.list)
      BY <2>4, <2>5
    <3>2. i + 1 \in 1 .. Len(old.list) /\ new.list[i] = old.list[i + 1]
      BY <2>3, <3>1
    <3>3. asked[old.list[i + 1].name] # None =>
            old.list[i + 1].conf = asked[old.list[i + 1].name]
      BY <1>3, <3>2
    <3> QED BY <1>1, <3>2, <3>3
  <2>7. asked[e.name] # None => e.conf = asked[e.name]
    BY <1>3, <2>3
  <2> QED BY <1>1, <2>4, <2>5, <2>6, <2>7 DEF HandOK, AtHand, Skipped
<1>5. CASE UpdateEnds(p)
  <2>1. PICK conf : command' = [command EXCEPT ![p].step = "exists", ![p].name = Official,
                                               ![p].conf = conf]
    BY <1>1, <1>5 DEF UpdateEnds, Exit
  <2>2. new.step = "exists" /\ new.list = old.list
    BY <1>1, <2>1 DEF Command
  <2> QED BY <1>1, <1>3, <2>2 DEF HandOK, AtHand
<1> QED BY <1>4, <1>5

LEMMA HandGoesOn ==
  ASSUME RepoInv, SerialInv, NEW p \in Pid, RepoAction(p), command'[p] # None
  PROVE  HandOK(p)'
<1> DEFINE old == command[p]
           new == command'[p]
<1>1. /\ old # None /\ old \in Command /\ CommandOK(old) /\ asked' = asked
      /\ command \in [Pid -> Command \cup {None}]
  BY OneRuns, AskedWhenDone DEF RepoInv, RepoTypes
<1>2. ASSUME NEW r, Exit(p, r)
      PROVE  FALSE
  BY <1>1, <1>2 DEF Exit
<1>3. ASSUME HandKept(p)
      PROVE  HandOK(p)'
  BY <1>1, <1>3, KeptIsOK
<1>4. ASSUME Failed(p)
      PROVE  HandOK(p)'
  <2>1. command' = [command EXCEPT ![p].step = "each", ![p].list = <<>>, ![p].fd = None,
                                   ![p].ret = "error"]
    BY <1>2, <1>4 DEF Failed
  <2>2. HandKept(p)
    BY <2>1, <1>1 DEF HandKept, AtHand, Command
  <2> QED BY <2>2, <1>3
<1>5. ASSUME NEW step \in CommandStep \ {"save"}, Step(p, step),
             step \in AtHand => old.step \in AtHand
      PROVE  HandOK(p)'
  <2>1. HandKept(p)
    BY <1>1, <1>5, StepTaken DEF HandKept
  <2> QED BY <2>1, <1>3
<1>6. CASE \/ CheckAbsent(p) \/ PrepareSession(p) \/ InitRepository(p) \/ StartClone(p)
           \/ CloneReturns(p) \/ WriteNewConfig(p) \/ CheckDeletable(p) \/ CheckConfig(p)
           \/ ListEnds(p) \/ StartPull(p)
  BY <1>2, <1>5, <1>6
  DEF CheckAbsent, PrepareSession, InitRepository, StartClone, CloneReturns, WriteNewConfig,
      CheckDeletable, CheckConfig, ListEnds, StartPull, Running, CommandStep, AtHand
<1>7. CASE PullReturns(p)
  BY <1>4, <1>5, <1>7 DEF PullReturns, Running, CommandStep, AtHand
<1>8. CASE RenameSession(p) \/ RemoveDir(p) \/ Locate(p) \/ Kill(p)
  BY <1>2, <1>8 DEF RenameSession, RemoveDir, Locate, Kill
<1>9. CASE RemoveEntry(p)
  <2>1. PICK x \in old.todo : new = [old EXCEPT !.todo = @ \ {x}]
    BY <1>9 DEF RemoveEntry
  <2>2. old.step = "remove"
    BY <1>9 DEF RemoveEntry, Running
  <2>3. HandKept(p)
    BY <2>1, <2>2, <1>1 DEF HandKept, AtHand, Command
  <2> QED BY <2>3, <1>3
<1>10. CASE SaveConfig(p)
  <2>1. command' = [command EXCEPT ![p].step = "each", ![p].fd = None]
    BY <1>2, <1>10 DEF SaveConfig, Saved
  <2>2. HandKept(p)
    BY <2>1, <1>1 DEF HandKept, AtHand, Command
  <2> QED BY <2>2, <1>3
<1>11. ASSUME UNCHANGED command, GitStep(p) \/ GitFails(p)
       PROVE  HandOK(p)'
  <2>1. old.step \in {"cloned", "pulled"}
    BY <1>11, <1>1, StepIsLocal DEF RepoInv, RepoTypes, SyncOK, TypeInv
  <2>2. HandKept(p)
    BY <2>1, <1>11 DEF HandKept, AtHand
  <2> QED BY <2>2, <1>3
<1>12. CASE GitWork(p) \/ CallFails(p)
  BY <1>4, <1>11, <1>12 DEF GitWork, CallFails, ShortWrite, repo
<1> QED
  BY <1>6, <1>7, <1>8, <1>9, <1>10, <1>12, LookedUpIsOK, OpenedIsOK, ListedIsOK, TurnedIsOK
  DEF RepoAction, RepoStep

LEMMA OneConfig ==
  ASSUME SerialInv, NEW n \in Name,
         \A m \in Name \ {n} : config'[m] = config[m] /\ asked'[m] = asked[m],
         config'[n] \in Config /\ asked'[n] # None => config'[n] = asked'[n]
  PROVE  ConfigIsAsAsked'
BY DEF SerialInv, ConfigIsAsAsked

\* What is written is what was asked for, or no valid text.
LEMMA PutIsAsAsked ==
  ASSUME RepoInv, SerialInv, NEW p \in Pid, Running(p, "save"),
         NEW c \in {command[p].conf, Garbled}, Put(p, c)
  PROVE  ConfigIsAsAsked'
<1> DEFINE n == command[p].name
<1>1. /\ command[p] # None /\ command[p] \in Command /\ n \in Name /\ n \in Dir
      /\ command[p].step = "save"
      /\ config \in [Dir -> Config \cup {None, Empty, Garbled}]
      /\ asked \in [Name -> Config \cup {None}]
  BY Fields, DirAssumption DEF Running, RepoInv, RepoTypes
<1>2. /\ config' = [config EXCEPT ![n] = c]
      /\ asked' = IF command[p].verb = "conf" /\ asked[n] # None /\ c # Garbled
                    THEN [asked EXCEPT ![n] = Merge(@, command[p].change)] ELSE asked
  BY DEF Put
<1>3. \A m \in Name \ {n} : config'[m] = config[m] /\ asked'[m] = asked[m]
  BY <1>1, <1>2, DirAssumption
<1>4. asked[n] # None =>
        command[p].conf = IF command[p].verb = "conf" THEN Merge(asked[n], command[p].change)
                          ELSE asked[n]
  BY <1>1 DEF SerialInv, HandOK, AtHand
<1>5. config'[n] = c
  BY <1>1, <1>2
<1>6. c # Garbled => c = command[p].conf
  OBVIOUS
<1>7. asked'[n] = IF command[p].verb = "conf" /\ asked[n] # None /\ c # Garbled
                    THEN Merge(asked[n], command[p].change) ELSE asked[n]
  BY <1>1, <1>2
<1>8. config'[n] \in Config /\ asked'[n] # None => config'[n] = asked'[n]
  BY <1>4, <1>5, <1>6, <1>7, ConfigAssumption
<1> QED BY <1>1, <1>3, <1>8, OneConfig

LEMMA RenamedIsAsAsked ==
  ASSUME RepoInv, SerialInv, NEW p \in Pid, RenameSession(p),
         Target(p).is \in {"absent", "empty"}
  PROVE  ConfigIsAsAsked'
<1> DEFINE n == command[p].name
<1>1. /\ command[p] # None /\ command[p] \in Command /\ command[p].step = "rename"
      /\ n \in Name /\ n \in Dir /\ p \in Dir /\ p \notin Name
      /\ config \in [Dir -> Config \cup {None, Empty, Garbled}]
      /\ asked \in [Name -> Config \cup {None}]
  BY Fields, DirAssumption DEF RenameSession, Running, RepoInv, RepoTypes
<1>2. /\ config' = [config EXCEPT ![n] = config[p], ![p] = None]
      /\ asked' = [asked EXCEPT ![n] = command[p].conf]
  BY DEF RenameSession
<1>3. config[p] = command[p].conf
  BY <1>1 DEF RepoInv, SessionOK
<1>4. \A m \in Name \ {n} : config'[m] = config[m] /\ asked'[m] = asked[m]
  BY <1>1, <1>2, DirAssumption
<1>5. config'[n] = asked'[n]
  BY <1>1, <1>2, <1>3
<1> QED BY <1>1, <1>4, <1>5, OneConfig

LEMMA TruthGoesOn ==
  ASSUME RepoInv, SerialInv, NEW p \in Pid, RepoAction(p)
  PROVE  ConfigIsAsAsked'
<1> DEFINE n == command[p].name
<1>1. /\ command[p] # None /\ command[p] \in Command /\ CommandOK(command[p])
      /\ n \in Name /\ n \in Dir /\ p \in Dir /\ p \notin Name
      /\ config \in [Dir -> Config \cup {None, Empty, Garbled}]
      /\ asked \in [Name -> Config \cup {None}]
  BY OneRuns, Fields, DirAssumption DEF RepoInv, RepoTypes
<1>2. ASSUME \A m \in Name : config'[m] = config[m] /\ asked'[m] = asked[m]
      PROVE  ConfigIsAsAsked'
  BY <1>2 DEF SerialInv, ConfigIsAsAsked
<1>3. ASSUME NEW c \in Settings, config' = [config EXCEPT ![n] = c], c \notin Config, asked' = asked
      PROVE  ConfigIsAsAsked'
  <2>1. config'[n] = c /\ \A m \in Name \ {n} : config'[m] = config[m]
    BY <1>1, <1>3, DirAssumption
  <2> QED BY <2>1, <1>1, <1>3, OneConfig
<1>4. CASE PrepareSession(p) \/ WriteNewConfig(p)
  <2>1. asked' = asked /\ \A m \in Name : config'[m] = config[m]
    BY <1>1, <1>4, DirAssumption DEF PrepareSession, WriteNewConfig
  <2> QED BY <2>1, <1>2
<1>5. CASE RenameSession(p)
  BY <1>2, <1>5, RenamedIsAsAsked DEF RenameSession, OnlyCommand
<1>6. CASE RemoveEntry(p)
  BY <1>2, <1>3, <1>6, ConfigAssumption DEF RemoveEntry, Settings
<1>7. CASE RemoveDir(p)
  <2>1. CASE OnlyCommand
    BY <2>1, <1>2 DEF OnlyCommand
  <2>2. CASE ~OnlyCommand
    <3>1. asked' = [asked EXCEPT ![n] = None] /\ config' = config
      BY <2>2, <1>7 DEF RemoveDir
    <3>2. asked'[n] = None /\ \A m \in Name \ {n} : config'[m] = config[m] /\ asked'[m] = asked[m]
      BY <1>1, <3>1
    <3> QED BY <1>1, <3>2, OneConfig
  <2> QED BY <2>1, <2>2
<1>8. CASE OpenConfig(p)
  <2>1. CASE OnlyCommand
    BY <2>1, <1>2 DEF OnlyCommand
  <2>2. CASE ~OnlyCommand
    BY <1>3, <2>2, <1>8, ConfigAssumption DEF OpenConfig, Settings
  <2> QED BY <2>1, <2>2
<1>9. CASE SaveConfig(p)
  <2>1. command[p].step = "save" /\ Running(p, "save")
    BY <1>9 DEF SaveConfig, Running
  <2>2. config[n] = Empty
    BY <1>1, <2>1 DEF SerialInv, HandOK
  <2>3. Overwritten(config[n], command[p].conf) = {command[p].conf}
    BY <2>2, ConfigAssumption DEF Overwritten
  <2> QED BY <2>1, <2>3, <1>2, <1>9, PutIsAsAsked DEF SaveConfig
<1>10. CASE ShortWrite(p)
  BY <1>10, PutIsAsAsked DEF ShortWrite
<1>11. CASE UNCHANGED <<config, asked>>
  BY <1>2, <1>11
<1> QED
  BY <1>4, <1>5, <1>6, <1>7, <1>8, <1>9, <1>10, <1>11
  DEF RepoAction, RepoStep, GitWork, CallFails, Kill, OnlyCommand, repo,
      CheckAbsent, InitRepository, StartClone, CloneReturns, CheckDeletable, CheckConfig,
      LookupRepo, StartPull, PullReturns, ListNext, ListEnds, UpdateNext, UpdateEnds, Locate

\* A command that begins has nothing at hand, and it is the only one.
LEMMA NewIsSerial ==
  ASSUME RepoInv, SerialInv, Quiet, NEW p \in Pid, InvokeAny(p)
  PROVE  SerialInv'
<1>1. /\ CommandsOK(p) /\ UNCHANGED <<config, asked>>
      /\ command'[p].step \in {"exists", "stat", "lookup", "list"} /\ command'[p].list = <<>>
  BY NewCommand DEF OnlyCommand
<1>2. \A q \in Pid \ {p} : command'[q] = None
  BY <1>1 DEF Quiet, CommandsOK, FileUnlinked
<1>3. Len(<<>>) = 0
  OBVIOUS
<1>4. \A q \in Pid : HandOK(q)'
  BY <1>1, <1>2, <1>3 DEF HandOK, AtHand
<1> QED BY <1>1, <1>2, <1>4 DEF SerialInv, ConfigIsAsAsked

LEMMA InitSerial == RepoInit => SerialInv
BY DEF RepoInit, SerialInv, ConfigIsAsAsked, HandOK

LEMMA NextSerial == RepoInv /\ SerialInv /\ [SerialNext]_<<repo, vars>> => SerialInv'
<1> SUFFICES ASSUME RepoInv, SerialInv, [SerialNext]_<<repo, vars>>
             PROVE  SerialInv'
  OBVIOUS
<1>1. ASSUME NEW p \in Pid, RepoAction(p)
      PROVE  SerialInv'
  <2>1. \A q \in Pid : command'[q] # None => q = p
    BY <1>1, OneRuns
  <2>2. \A q \in Pid : HandOK(q)'
    BY <1>1, <2>1, HandGoesOn DEF HandOK
  <2> QED BY <1>1, <2>1, <2>2, TruthGoesOn DEF SerialInv
<1>2. ASSUME NEW p \in Pid, InvokeAny(p), SerialNext
      PROVE  SerialInv'
  <2>1. command[p] = None /\ command'[p] # None
    BY <1>2, NewCommand
  <2> QED BY <2>1, <1>2, NewIsSerial DEF SerialNext
<1>3. CASE Elsewhere \/ UNCHANGED <<repo, vars>>
  BY <1>3 DEF Elsewhere, repo, SerialInv, ConfigIsAsAsked, HandOK
<1> QED BY <1>1, <1>2, <1>3 DEF SerialNext, RepoNext, RepoAction, InvokeAny

\* As long as nobody types a command before the last one has ended, the settings of a
\* repository are those that formula-repo-init, -add and -conf have asked for, whatever
\* fails and whoever is killed, unless the file is not valid.
THEOREM SettingsAreAsAsked == SerialSpec => []ConfigIsAsAsked
<1>1. SerialInv => ConfigIsAsAsked
  BY DEF SerialInv
<1>2. [SerialNext]_<<repo, vars>> => [RepoNext]_<<repo, vars>>
  BY DEF SerialNext
<1> QED BY <1>1, <1>2, InitRepo, NextRepo, InitSerial, NextSerial, PTL DEF SerialSpec

\* A call of uppm_git_sync works on a repository in its place for a command that has
\* found it not pinned.
LEMMA SyncedIsNotPinned ==
  ASSUME RepoInv, SerialInv, NEW p \in Pid, GitStep(p) \/ GitFails(p), NEW n \in Name,
         asked[n] # None, git'[n] # git[n]
  PROVE  ~asked[n].pinned
<1>1. n \in Dir /\ n \notin Pid /\ TypeInv
  BY DirAssumption DEF RepoInv, RepoTypes
<1>2. pc[p] # "idle" /\ job[p].dir = n
  BY <1>1, StepIsLocal DEF TypeInv
<1>3. /\ command[p] # None /\ command[p].step = "pulled" /\ command[p].name = n
  BY <1>1, <1>2 DEF RepoInv, SyncOK
<1>4. command[p] \in Command /\ CommandOK(command[p]) /\ command[p].verb \in Verb
  BY <1>3, Fields DEF RepoInv, RepoTypes
<1>5. command[p].verb # "conf"
  BY <1>3, <1>4, StepsOfVerbs DEF CommandOK
<1> QED BY <1>3, <1>5 DEF SerialInv, HandOK, AtHand

LEMMA PinnedIsLeft ==
  ASSUME RepoInv, SerialInv, NEW p \in Pid, RepoAction(p), NEW n \in Name,
         asked[n] # None, asked[n].pinned, git'[n].is = "repo", git[n].is = "repo"
  PROVE  git'[n] = git[n]
<1> DEFINE m == command[p].name
<1>1. /\ n \in Dir /\ p \in Dir /\ n # p /\ git \in [Dir -> Repository]
      /\ m \in Name /\ m \in Dir
  BY OneRuns, Fields, DirAssumption DEF RepoInv, RepoTypes, TypeInv, TypeOK
<1>2. CASE UNCHANGED git
  BY <1>2
<1>3. CASE GitStep(p) \/ GitFails(p)
  BY <1>3, SyncedIsNotPinned
<1>4. CASE PrepareSession(p) \/ InitRepository(p)
  BY <1>1, <1>4 DEF PrepareSession, InitRepository
<1>5. CASE RenameSession(p) /\ ~UNCHANGED git
  <2>1. /\ git[m].is \in {"absent", "empty"}
        /\ git' = [git EXCEPT ![m] = git[p], ![p] = Blank("absent")]
    BY <1>5 DEF RenameSession, OnlyCommand, Target, vars
  <2> QED BY <2>1, <1>1
<1>6. CASE RemoveEntry(p)
  <2>1. PICK x, todo, text : git' = [git EXCEPT ![m] = Emptied(@, x, todo, text)]
    BY <1>6 DEF RemoveEntry
  <2>2. Emptied(git[m], x, todo, text) = git[m] \/ Emptied(git[m], x, todo, text).is # "repo"
    BY DEF Emptied, Blank
  <2> QED BY <2>1, <2>2, <1>1
<1>7. CASE RemoveDir(p) /\ ~UNCHANGED git
  <2>1. git[m].is = "empty" /\ git' = [git EXCEPT ![m] = Blank("absent")]
    BY <1>7 DEF RemoveDir, OnlyCommand, Target, vars
  <2> QED BY <2>1, <1>1
<1>8. CASE OpenConfig(p) /\ ~UNCHANGED git
  <2>1. git' = [git EXCEPT ![m] = IF @.is = "empty" THEN Blank("damaged") ELSE @]
    BY <1>8 DEF OpenConfig, OnlyCommand, vars
  <2> QED BY <2>1, <1>1
<1>9. CASE StartClone(p) \/ StartPull(p)
  BY <1>2, <1>9 DEF StartClone, StartPull, SyncStart
<1> QED
  BY <1>2, <1>3, <1>4, <1>5, <1>6, <1>7, <1>8, <1>9
  DEF RepoAction, RepoStep, GitWork, CallFails, Kill, OnlyCommand, vars,
      CheckAbsent, CloneReturns, WriteNewConfig, CheckDeletable, CheckConfig, LookupRepo,
      PullReturns, SaveConfig, ListNext, ListEnds, UpdateNext, UpdateEnds, Locate, ShortWrite

\* A repository that its owner has asked to be pinned keeps its files and its branches
\* as long as commands run one after the other: no sync, no `update' and no broken or
\* killed command takes a step that changes them and leaves it a repository.
THEOREM PinnedIsNotUpdated == SerialSpec => PinnedStays
<1> DEFINE Left ==
      \A n \in Name :
        asked[n] # None /\ asked[n].pinned /\ config[n] \in Config /\ git'[n].is = "repo" =>
          git'[n] = git[n] \/ git[n].is # "repo"
<1>1. RepoInv /\ SerialInv /\ [SerialNext]_<<repo, vars>> => [Left]_<<repo, vars>>
  <2> SUFFICES ASSUME RepoInv, SerialInv, SerialNext
               PROVE  Left
    OBVIOUS
  <2>1. CASE \E p \in Pid : RepoAction(p)
    BY <2>1, PinnedIsLeft
  <2>2. CASE \E p \in Pid : InvokeAny(p)
    BY <2>2, NewCommand DEF OnlyCommand, vars
  <2>3. CASE Elsewhere
    BY <2>3 DEF Elsewhere, Push
  <2> QED BY <2>1, <2>2, <2>3 DEF SerialNext, RepoNext, RepoAction, InvokeAny
<1>2. [SerialNext]_<<repo, vars>> => [RepoNext]_<<repo, vars>>
  BY DEF SerialNext
<1>3. SerialSpec => [][Left]_<<repo, vars>>
  BY <1>1, <1>2, InitRepo, NextRepo, InitSerial, NextSerial, PTL DEF SerialSpec
<1> QED BY <1>3 DEF PinnedStays

-----------------------------------------------------------------------------
(***************************************************************************)
(* Commands one after the other, repositories that keep their url and      *)
(* branch, and pushes between the commands that take no commits back.      *)
(***************************************************************************)
\* A repository has not more than the remote its settings name, or just that.
Behind(g, c) == g.tracking[c.branch] <= remote[c.url][c.branch]
Fresh(g, c)  == g.tracking[c.branch] = remote[c.url][c.branch]

Spoilt(n) == <<n, "failed">> \in past

\* Nobody is in uppm_git_sync on a directory.
AtRest(d) == \A p \in Pid : pc[p] # "idle" => job[p].dir # d

\* What is in its place has settings, and one whose syncs have all succeeded has the
\* files of what was fetched.
RestOK(n) ==
  /\ git[n].is # "absent" => asked[n] # None
  /\ asked[n] # None /\ ~Spoilt(n) /\ AtRest(n) =>
       Even(git[n], asked[n].branch) /\ Behind(git[n], asked[n])

\* A sync is for the settings its command has at hand, and stands where it should.
SteadySync(p) ==
  pc[p] # "idle" =>
    /\ job[p].url = command[p].conf.url /\ job[p].branch = command[p].conf.branch
    /\ Undisturbed(p) \/ (job[p].dir \in Name /\ Spoilt(job[p].dir))

\* The sync that a command waits for has succeeded.
Returned(p, step) == Running(p, step) /\ At(p, "idle") /\ result[p] = "ok"

\* What syncs that have succeeded leave to the command.
HasBrought(p) ==
  command[p] # None =>
    LET c == command[p]
        n == c.name
    IN  /\ c.step \in AtHand => asked[n] # None
        /\ \A i \in 1 .. Len(c.list) : asked[c.list[i].name] # None
        /\ c.step \in {"write", "rename"} \/ Returned(p, "cloned") =>
             /\ Even(git[p], c.conf.branch) /\ Behind(git[p], c.conf)
             /\ c.verb # "init" => Fresh(git[p], c.conf)
        /\ c.verb # "conf" /\ ~Spoilt(n)
             /\ (c.step \in {"open", "save"} \/ Returned(p, "pulled")) =>
             git[n].is = "repo" /\ Fresh(git[n], c.conf)

Listed(c, n) == \E i \in 1 .. Len(c.list) : c.list[i].name = n

\* A repository that `update' has on its list or in hand, need not update, or has updated.
SeenTo(c, n) ==
  \/ c.ret = "error" \/ config[n].pinned \/ Spoilt(n)
  \/ Listed(c, n) \/ (c.step \in AtHand /\ c.name = n)
  \/ Fresh(git[n], config[n])

UpdateOK(p) ==
  command[p] # None /\ command[p].verb = "update" =>
    LET c == command[p]
    IN  /\ c.step \in Preparing => c.list = <<>>
        /\ \A n \in Name : config[n] \in Config =>
             IF c.step = "list" THEN n \in c.todo \/ Listed(c, n) ELSE SeenTo(c, n)

\* No command changes the url or the branch of a repository.
Settled(p) == command[p] # None => DOMAIN command[p].change \subseteq {"pinned", "enabled"}

SteadyInv ==
  /\ \A n \in Name : RestOK(n)
  /\ \A p \in Pid : Settled(p) /\ SteadySync(p) /\ HasBrought(p) /\ UpdateOK(p)

\* A step of the command that runs.
SteadyStep(p) ==
  /\ RepoInv /\ SerialInv /\ SteadyInv /\ ForwardOnly
  /\ RepoAction(p) /\ remote' = remote
  /\ RepoInv' /\ SerialInv' /\ Settled(p)'

LEMMA WhoSteps ==
  ASSUME NEW p \in Pid, SteadyStep(p)
  PROVE  /\ command[p] # None /\ command[p] \in Command /\ CommandOK(command[p])
         /\ command[p].verb \in Verb /\ command[p].conf \in Config /\ command[p].list \in Seq(Entry)
         /\ command[p].name \in Name /\ command[p].name \in Dir /\ p \in Dir /\ p \notin Name
         /\ Name \subseteq Dir
         /\ command \in [Pid -> Command \cup {None}] /\ git \in [Dir -> Repository]
         /\ config \in [Dir -> Settings] /\ asked \in [Name -> Config \cup {None}]
         /\ TypeOK /\ TypeInv
         /\ \A q \in Pid \ {p} : /\ command[q] = None /\ command'[q] = None
                                 /\ pc[q] = "idle" /\ pc'[q] = "idle"
<1>1. RepoInv /\ RepoInv' /\ SerialInv /\ RepoAction(p)
  BY DEF SteadyStep
<1>2. /\ command[p] # None /\ command[p] \in Command /\ CommandOK(command[p])
      /\ \A q \in Pid \ {p} : command[q] = None /\ command'[q] = None
  BY <1>1, OneRuns
<1>3. \A q \in Pid \ {p} : pc[q] = "idle" /\ pc'[q] = "idle"
  BY <1>1, <1>2 DEF RepoInv, SyncOK
<1>4. /\ command[p].verb \in Verb /\ command[p].conf \in Config /\ command[p].list \in Seq(Entry)
      /\ command[p].name \in Name
  BY <1>2, Fields
<1>5. p \in Dir /\ p \notin Name /\ Name \subseteq Dir
  BY DirAssumption
<1>6. /\ command \in [Pid -> Command \cup {None}] /\ git \in [Dir -> Repository]
      /\ config \in [Dir -> Settings] /\ asked \in [Name -> Config \cup {None}]
      /\ TypeOK /\ TypeInv
  BY <1>1 DEF RepoInv, RepoTypes, TypeInv, TypeOK, Settings
<1> QED BY <1>2, <1>3, <1>4, <1>5, <1>6

\* Settings from which nothing has been fetched yet.
LEMMA BlankIsEven ==
  ASSUME RepoInv, NEW is, NEW c \in Config
  PROVE  Even(Blank(is), c.branch) /\ Behind(Blank(is), c)
<1>1. remote[c.url][c.branch] \in Nat /\ c.branch \in Branch
  BY CommitAssumption DEF RepoInv, RepoTypes, TypeInv, TypeOK, Version, Config
<1> QED BY <1>1 DEF Even, Behind, Blank

LEMMA FreshIsBehind ==
  ASSUME RepoInv, NEW g, NEW c \in Config, Fresh(g, c)
  PROVE  Behind(g, c)
<1>1. remote[c.url][c.branch] \in Nat
  BY CommitAssumption DEF RepoInv, RepoTypes, TypeInv, TypeOK, Version, Config
<1> QED BY <1>1 DEF Fresh, Behind

\* What has happened stays in the record.
LEMMA PastGrows ==
  ASSUME NEW p \in Pid, SteadyStep(p)
  PROVE  past \subseteq past'
<1>1. CASE GitStep(p) \/ GitFails(p)
  BY <1>1, WhoSteps, StepIsLocal
<1>2. CASE StartClone(p) \/ StartPull(p)
  BY <1>2 DEF StartClone, StartPull, SyncStart
<1>3. CASE UNCHANGED past
  BY <1>3
<1> QED
  BY <1>1, <1>2, <1>3
  DEF SteadyStep, RepoAction, RepoStep, GitWork, CallFails, Kill, OnlyCommand, vars,
      CheckAbsent, PrepareSession, InitRepository, CloneReturns, WriteNewConfig, RenameSession,
      RemoveEntry, RemoveDir, OpenConfig, CheckDeletable, CheckConfig, LookupRepo,
      PullReturns, SaveConfig, ListNext, ListEnds, UpdateNext, UpdateEnds, Locate, ShortWrite

\* A call of uppm_git_sync, and what it leaves.
LEMMA SyncSteps ==
  ASSUME NEW p \in Pid, SteadyStep(p), GitStep(p) \/ GitFails(p)
  PROVE  /\ pc[p] # "idle" /\ job[p].dir \in Dir
         /\ job'[p].dir = job[p].dir /\ job'[p].url = job[p].url /\ job'[p].branch = job[p].branch
         /\ job[p].url = command[p].conf.url /\ job[p].branch = command[p].conf.branch
         /\ \/ command[p].step = "cloned" /\ job[p].dir = p
            \/ command[p].step = "pulled" /\ job[p].dir = command[p].name
         /\ \A d \in Dir \ {job[p].dir} : git'[d] = git[d]
         /\ GoesWell(p) \/ (job[p].dir \in Name /\ Spoilt(job[p].dir) /\ Spoilt(job[p].dir)')
<1>1. /\ TypeOK /\ TypeInv /\ command[p] # None
      /\ SyncOK(p) /\ SteadySync(p)
  BY WhoSteps DEF SteadyStep, RepoInv, SteadyInv
<1>2. /\ pc[p] # "idle" /\ job[p].dir \in Dir
      /\ \A d \in Dir \ {job[p].dir} : git'[d] = git[d]
      /\ job'[p].dir = job[p].dir /\ job'[p].url = job[p].url /\ job'[p].branch = job[p].branch
  BY <1>1, StepIsLocal, StepKeepsArguments
<1>3. /\ job[p].url = command[p].conf.url /\ job[p].branch = command[p].conf.branch
      /\ Undisturbed(p) \/ (job[p].dir \in Name /\ Spoilt(job[p].dir))
  BY <1>1, <1>2 DEF SteadySync
<1>4. Undisturbed(p) => GoesWell(p)
  BY <1>1, UndisturbedGoesOn DEF SteadyStep
<1>5. Spoilt(job[p].dir) => Spoilt(job[p].dir)'
  BY <1>2, PastGrows DEF Spoilt
<1> QED BY <1>1, <1>2, <1>3, <1>4, <1>5 DEF SyncOK

-----------------------------------------------------------------------------
\* The repositories in their places.
LEMMA SameRests ==
  ASSUME NEW p \in Pid, SteadyStep(p), NEW n \in Name, git'[n] = git[n], asked'[n] = asked[n],
         AtRest(n)' => AtRest(n)
  PROVE  RestOK(n)'
<1>1. RestOK(n) /\ remote' = remote /\ (Spoilt(n) => Spoilt(n)')
  BY PastGrows DEF SteadyStep, SteadyInv, Spoilt
<1> QED BY <1>1 DEF RestOK, Behind

LEMMA OthersRest ==
  ASSUME NEW p \in Pid, SteadyStep(p), UNCHANGED <<pc, job>>, NEW m \in Name,
         \A n \in Name \ {m} : git'[n] = git[n] /\ asked'[n] = asked[n],
         RestOK(m)'
  PROVE  \A n \in Name : RestOK(n)'
<1>1. ASSUME NEW n \in Name \ {m}
      PROVE  RestOK(n)'
  BY <1>1, SameRests DEF AtRest
<1> QED BY <1>1

LEMMA BlankRests ==
  ASSUME NEW p \in Pid, SteadyStep(p), NEW n \in Name, NEW is,
         git'[n] = Blank(is), asked'[n] # None \/ is = "absent"
  PROVE  RestOK(n)'
<1>1. RepoInv' /\ (asked'[n] # None => asked'[n] \in Config)
  BY DEF SteadyStep, RepoInv, RepoTypes
<1>2. Blank(is).is = is
  BY DEF Blank
<1>3. asked'[n] # None => Even(git'[n], asked'[n].branch) /\ Behind(git[n], asked[n])'
  <2> SUFFICES ASSUME asked'[n] # None
               PROVE  Even(git'[n], asked'[n].branch) /\ Behind(git[n], asked[n])'
    OBVIOUS
  <2>1. PICK c \in Config : c = asked'[n]
    BY <1>1
  <2>2. Even(Blank(is), c.branch) /\ Behind(Blank(is), c)
    BY BlankIsEven DEF SteadyStep
  <2> QED BY <2>1, <2>2 DEF Behind, SteadyStep
<1> QED BY <1>1, <1>2, <1>3 DEF RestOK

LEMMA SyncedRests ==
  ASSUME NEW p \in Pid, SteadyStep(p), GitStep(p) \/ GitFails(p), UNCHANGED asked, NEW n \in Name
  PROVE  RestOK(n)'
<1>1. CASE job[p].dir # n
  <2>1. git'[n] = git[n]
    BY <1>1, WhoSteps, SyncSteps
  <2>2. AtRest(n)
    BY <1>1, WhoSteps DEF AtRest
  <2> QED BY <2>1, <2>2, SameRests
<1>2. CASE job[p].dir = n
  <2>1. /\ command[p].step = "pulled" /\ command[p].name = n
        /\ job[p].url = command[p].conf.url /\ job[p].branch = command[p].conf.branch
        /\ pc[p] # "idle" /\ job'[p].dir = n
        /\ GoesWell(p) \/ Spoilt(n)'
    BY <1>2, WhoSteps, SyncSteps
  <2>2. command[p].verb # "conf"
    BY <2>1, WhoSteps, StepsOfVerbs DEF CommandOK
  <2>3. asked[n] # None /\ command[p].conf = asked[n]
    BY <2>1, <2>2, WhoSteps DEF SteadyStep, SteadyInv, SerialInv, HasBrought, HandOK, AtHand
  <2>4. AtRest(n)' => pc'[p] = "idle"
    BY <2>1 DEF AtRest
  <2>5. ASSUME pc'[p] = "idle", ~Spoilt(n)'
        PROVE  Even(git'[n], asked[n].branch) /\ Fresh(git'[n], asked[n])
    <3>1. Brought(p)
      BY <2>1, <2>5, <1>2 DEF GoesWell, Spoilt
    <3> QED BY <3>1, <2>1, <2>3, <1>2 DEF Brought, Fresh
  <2>6. asked[n] \in Config
    BY <2>3, WhoSteps
  <2>7. ASSUME pc'[p] = "idle", ~Spoilt(n)'
        PROVE  Behind(git'[n], asked[n])
    BY <2>5, <2>6, <2>7, FreshIsBehind DEF SteadyStep
  <2> QED BY <2>3, <2>4, <2>5, <2>7 DEF RestOK, Behind, SteadyStep
<1> QED BY <1>1, <1>2

\* The settings that a file is written with keep url and branch.
LEMMA PutRests ==
  ASSUME NEW p \in Pid, SteadyStep(p), UNCHANGED vars, NEW c, Put(p, c), NEW n \in Name
  PROVE  RestOK(n)'
<1> DEFINE m == command[p].name
           new == Merge(asked[m], command[p].change)
<1>1. git' = git /\ past' = past /\ pc' = pc /\ job' = job /\ remote' = remote
  BY DEF vars
<1>2. CASE asked'[n] = asked[n]
  BY <1>1, <1>2, SameRests DEF AtRest
<1>3. CASE asked'[n] # asked[n]
  <2>1. n = m /\ asked[m] # None /\ asked'[m] = new
    BY <1>3, WhoSteps DEF Put
  <2>2. DOMAIN command[p].change \subseteq {"pinned", "enabled"} /\ asked[m] \in Config
    BY <2>1, WhoSteps DEF SteadyStep, SteadyInv, Settled
  <2>3. new.url = asked[m].url /\ new.branch = asked[m].branch
    BY <2>2 DEF Merge, Option
  <2>4. RestOK(n)
    BY DEF SteadyStep, SteadyInv
  <2>5. asked'[n] \in Config \cup {None}
    BY DEF SteadyStep, RepoInv, RepoTypes
  <2>6. asked'[n].url = asked[n].url /\ asked'[n].branch = asked[n].branch
    BY <2>1, <2>3
  <2>7. Behind(git[n], asked[n])' <=> Behind(git[n], asked[n])
    BY <2>6, <1>1 DEF Behind
  <2>8. Even(git'[n], asked'[n].branch) <=> Even(git[n], asked[n].branch)
    BY <2>6, <1>1
  <2>9. git'[n].is # "absent" => asked'[n] # None
    <3>1. Sound(command[p].change)
      BY WhoSteps DEF CommandOK
    <3>2. new \in Config
      BY <2>2, <3>1 DEF Sound
    <3> QED BY <2>1, <3>2, ConfigAssumption
  <2> QED BY <2>1, <2>4, <2>7, <2>8, <2>9, <1>1 DEF RestOK, AtRest, Spoilt
<1> QED BY <1>2, <1>3

LEMMA RestGoesOn ==
  ASSUME NEW p \in Pid, SteadyStep(p)
  PROVE  \A n \in Name : RestOK(n)'
<1>0. PICK m : m = command[p].name
  OBVIOUS
<1>1. /\ m = command[p].name /\ m \in Name /\ m \in Dir /\ p \in Dir /\ p \notin Name /\ Name \subseteq Dir
      /\ git \in [Dir -> Repository] /\ asked \in [Name -> Config \cup {None}]
      /\ command[p] # None /\ command[p] \in Command
  BY <1>0, WhoSteps
<1>2. ASSUME UNCHANGED <<pc, job, asked>>, \A n \in Name : git'[n] = git[n], NEW n \in Name
      PROVE  RestOK(n)'
  BY <1>2, SameRests DEF AtRest
<1>3. CASE GitStep(p) \/ GitFails(p)
  <2>1. asked' = asked
    <3>1. GitStep(p) \/ GitFails(p) => pc[p] # "idle"
      BY WhoSteps, StepIsLocal
    <3>2. command[p].step \in {"cloned", "pulled"} /\ pc[p] # "idle"
      BY <1>3, <3>1, SyncSteps
    <3>3. ~RenameSession(p) /\ ~RemoveDir(p) /\ ~SaveConfig(p) /\ ~ShortWrite(p)
      BY <3>2 DEF RenameSession, RemoveDir, SaveConfig, ShortWrite, Running
    <3> QED
      BY <3>3
      DEF SteadyStep, RepoAction, RepoStep, GitWork, CallFails, Kill, OnlyCommand, repo,
          CheckAbsent, PrepareSession, InitRepository, StartClone, CloneReturns, WriteNewConfig,
          RemoveEntry, OpenConfig, CheckDeletable, CheckConfig, LookupRepo, StartPull,
          PullReturns, ListNext, ListEnds, UpdateNext, UpdateEnds, Locate
  <2> QED BY <2>1, <1>3, SyncedRests
<1>4. CASE StartClone(p) \/ StartPull(p)
  <2>1. /\ git' = git /\ asked' = asked /\ At(p, "idle")
        /\ \A q \in Pid \ {p} : pc'[q] = pc[q] /\ job'[q] = job[q]
    BY <1>4, WhoSteps DEF StartClone, StartPull, SyncStart, TypeOK
  <2>2. ASSUME NEW n \in Name, AtRest(n)'
        PROVE  AtRest(n)
    BY <2>1, <2>2 DEF AtRest, At
  <2> QED BY <2>1, <2>2, SameRests
<1>5. CASE PrepareSession(p) \/ InitRepository(p)
  <2>1. \A n \in Name : git'[n] = git[n]
    BY <1>1, <1>5 DEF PrepareSession, InitRepository
  <2> QED BY <2>1, <1>2, <1>5 DEF PrepareSession, InitRepository
<1>6. CASE RenameSession(p) /\ ~OnlyCommand
  <2>1. /\ git' = [git EXCEPT ![m] = git[p], ![p] = Blank("absent")]
        /\ asked' = [asked EXCEPT ![m] = command[p].conf]
        /\ UNCHANGED <<pc, job>> /\ Running(p, "rename")
    BY <1>1, <1>6 DEF RenameSession
  <2>2. Even(git[p], command[p].conf.branch) /\ Behind(git[p], command[p].conf)
    BY <1>1, <2>1 DEF SteadyStep, SteadyInv, HasBrought, Running
  <2>3. command[p].conf # None
    BY WhoSteps, ConfigAssumption
  <2>4. git'[m] = git[p] /\ asked'[m] = command[p].conf
        /\ \A n \in Name \ {m} : git'[n] = git[n] /\ asked'[n] = asked[n]
    BY <1>1, <2>1
  <2>5. RestOK(m)'
    BY <2>2, <2>3, <2>4 DEF RestOK, Behind, SteadyStep
  <2> QED BY <1>1, <2>1, <2>4, <2>5, OthersRest
<1>7. CASE RemoveEntry(p)
  <2>0. PICK x, todo, text : git' = [git EXCEPT ![m] = Emptied(@, x, todo, text)]
    BY <1>1, <1>7 DEF RemoveEntry
  <2>1. /\ git' = [git EXCEPT ![m] = Emptied(@, x, todo, text)]
        /\ UNCHANGED <<pc, job, asked>>
    BY <2>0, <1>7 DEF RemoveEntry
  <2>2. \A n \in Name \ {m} : git'[n] = git[n] /\ asked'[n] = asked[n]
    BY <1>1, <2>1
  <2>3. git'[m] = git[m] \/ (\E is : git'[m] = Blank(is) /\ git[m].is # "absent")
    BY <1>1, <2>1 DEF Emptied
  <2>4. RestOK(m)
    BY <1>1 DEF SteadyStep, SteadyInv
  <2>5. RestOK(m)'
    <3>1. CASE git'[m] = git[m]
      BY <3>1, <1>1, <2>1, SameRests DEF AtRest
    <3>2. CASE \E is : git'[m] = Blank(is) /\ git[m].is # "absent"
      BY <3>2, <1>1, <2>1, <2>4, BlankRests DEF RestOK
    <3> QED BY <2>3, <3>1, <3>2
  <2> QED BY <1>1, <2>1, <2>2, <2>5, OthersRest
<1>8. CASE RemoveDir(p) /\ ~OnlyCommand
  <2>1. /\ git' = [git EXCEPT ![m] = Blank("absent")] /\ asked' = [asked EXCEPT ![m] = None]
        /\ UNCHANGED <<pc, job>>
    BY <1>1, <1>8 DEF RemoveDir
  <2>2. \A n \in Name \ {m} : git'[n] = git[n] /\ asked'[n] = asked[n]
    BY <1>1, <2>1
  <2>3. git'[m] = Blank("absent")
    BY <1>1, <2>1
  <2>4. RestOK(m)'
    BY <1>1, <2>3, BlankRests
  <2> QED BY <1>1, <2>1, <2>2, <2>4, OthersRest
<1>9. CASE OpenConfig(p) /\ ~OnlyCommand
  <2>1. /\ git' = [git EXCEPT ![m] = IF @.is = "empty" THEN Blank("damaged") ELSE @]
        /\ UNCHANGED <<pc, job, asked>>
    BY <1>1, <1>9 DEF OpenConfig
  <2>2. \A n \in Name \ {m} : git'[n] = git[n] /\ asked'[n] = asked[n]
    BY <1>1, <2>1
  <2>3. git'[m] = git[m] \/ (git'[m] = Blank("damaged") /\ git[m].is = "empty")
    BY <1>1, <2>1
  <2>4. RestOK(m)
    BY <1>1 DEF SteadyStep, SteadyInv
  <2>5. RestOK(m)'
    <3>1. CASE git'[m] = git[m]
      BY <3>1, <1>1, <2>1, SameRests DEF AtRest
    <3>2. CASE git'[m] = Blank("damaged") /\ git[m].is = "empty"
      BY <3>2, <1>1, <2>1, <2>4, BlankRests DEF RestOK
    <3> QED BY <2>3, <3>1, <3>2
  <2> QED BY <1>1, <2>1, <2>2, <2>5, OthersRest
<1>10. CASE SaveConfig(p) \/ ShortWrite(p)
  <2>1. UNCHANGED vars /\ (asked' = asked \/ \E c : Put(p, c))
    BY <1>10 DEF SaveConfig, ShortWrite
  <2>2. asked' = asked => \A n \in Name : RestOK(n)'
    BY <2>1, <1>2 DEF vars
  <2> QED BY <2>1, <2>2, PutRests
<1>11. CASE UNCHANGED <<git, pc, job, asked>>
  BY <1>2, <1>11
<1> QED
  BY <1>3, <1>4, <1>5, <1>6, <1>7, <1>8, <1>9, <1>10, <1>11
  DEF SteadyStep, RepoAction, RepoStep, GitWork, CallFails, Kill, OnlyCommand, vars,
      CheckAbsent, CloneReturns, WriteNewConfig, CheckDeletable, CheckConfig, LookupRepo,
      RenameSession, RemoveDir, OpenConfig,
      PullReturns, ListNext, ListEnds, UpdateNext, UpdateEnds, Locate

-----------------------------------------------------------------------------
\* The syncs.
LEMMA StartIsSteady ==
  ASSUME NEW p \in Pid, SteadyStep(p), StartClone(p) \/ StartPull(p)
  PROVE  /\ SteadySync(p)' /\ pc'[p] = "open" /\ command'[p] # None
         /\ command'[p].step \in {"cloned", "pulled"}
<1>1. /\ command[p] # None /\ command[p] \in Command /\ command[p].conf \in Config
      /\ command[p].name \in Name /\ TypeOK /\ p \in Dir /\ p \notin Name /\ Name \subseteq Dir
      /\ CommandOK(command[p])
  BY WhoSteps
<1>2. PICK d \in Dir, c \in Config :
        /\ c = command[p].conf /\ SyncStart(p, d, c.url, c.branch)
        /\ \/ command[p].step = "clone" /\ Step(p, "cloned") /\ d = p
           \/ command[p].step = "pull" /\ Step(p, "pulled") /\ d = command[p].name
  BY <1>1 DEF StartClone, StartPull, Running
<1>3. command'[p] # None /\ command'[p].conf = c /\ command'[p].step \in {"cloned", "pulled"}
  BY <1>1, <1>2, StepTaken DEF SteadyStep, CommandStep
<1>4. /\ pc'[p] = "open" /\ git' = git /\ remote' = remote /\ pc[p] = "idle"
      /\ job'[p].dir = d /\ job'[p].url = c.url /\ job'[p].branch = c.branch
  BY <1>1, <1>2 DEF SyncStart, At, TypeOK
<1>5. (Even(git[d], c.branch) /\ Behind(git[d], c)) \/ (d \in Name /\ Spoilt(d))
  <2>1. CASE command[p].step = "clone" /\ d = p
    <3>1. git[p] = Blank("empty")
      BY <2>1, <1>1 DEF SteadyStep, RepoInv, SessionOK
    <3> QED BY <2>1, <3>1, BlankIsEven DEF SteadyStep
  <2>2. CASE command[p].step = "pull" /\ d = command[p].name
    <3>1. command[p].verb # "conf"
      BY <2>2, WhoSteps, StepsOfVerbs DEF CommandOK
    <3>2. asked[d] # None /\ c = asked[d]
      BY <2>2, <3>1, <1>1, <1>2 DEF SteadyStep, SteadyInv, SerialInv, HasBrought, HandOK, AtHand
    <3>3. AtRest(d)
      BY <1>4, WhoSteps DEF AtRest
    <3> QED BY <2>2, <3>2, <3>3, <1>1 DEF SteadyStep, SteadyInv, RestOK
  <2> QED BY <2>1, <2>2, <1>2
<1>6. Spoilt(d) => Spoilt(d)'
  BY PastGrows DEF Spoilt
<1>7. Undisturbed(p)' \/ (d \in Name /\ Spoilt(d)')
  <2>1. CASE Even(git[d], c.branch) /\ Behind(git[d], c)
    BY <2>1, <1>4 DEF Undisturbed, Behind, Steps, Even
  <2>2. CASE d \in Name /\ Spoilt(d)
    BY <2>2, <1>6
  <2> QED BY <2>1, <2>2, <1>5
<1>8. Spoilt(job[p].dir)' <=> Spoilt(d)'
  BY <1>4 DEF Spoilt
<1> QED BY <1>3, <1>4, <1>7, <1>8 DEF SteadySync

\* Whose sync goes on.
LEMMA SyncOrNot ==
  ASSUME NEW p \in Pid, SteadyStep(p)
  PROVE  \/ GitWork(p) \/ (CallFails(p) /\ GitFails(p) /\ UNCHANGED repo)
         \/ (Kill(p) /\ GitFails(p))
         \/ StartClone(p) \/ StartPull(p)
         \/ pc[p] = "idle" /\ pc' = pc /\ result' = result /\ job' = job
<1>1. /\ TypeOK /\ pc \in [Pid -> Steps \cup {"idle"}] /\ SyncOK(p)
  BY WhoSteps DEF TypeOK, SteadyStep, RepoInv
<1>2. ASSUME command[p].step \notin {"cloned", "pulled"}
      PROVE  pc[p] = "idle"
  BY <1>1, <1>2 DEF SyncOK
<1>3. CASE CloneReturns(p) \/ PullReturns(p)
  BY <1>3 DEF CloneReturns, PullReturns, At, OnlyCommand, vars
<1>4. CASE \/ CheckAbsent(p) \/ PrepareSession(p) \/ InitRepository(p) \/ WriteNewConfig(p)
           \/ RenameSession(p) \/ CheckDeletable(p) \/ CheckConfig(p) \/ RemoveEntry(p)
           \/ RemoveDir(p) \/ LookupRepo(p) \/ OpenConfig(p) \/ SaveConfig(p) \/ ShortWrite(p)
           \/ ListNext(p) \/ ListEnds(p) \/ UpdateNext(p) \/ UpdateEnds(p) \/ Locate(p)
  <2>1. command[p].step \notin {"cloned", "pulled"}
    BY <1>4
    DEF CheckAbsent, PrepareSession, InitRepository, WriteNewConfig, RenameSession,
        CheckDeletable, CheckConfig, RemoveEntry, RemoveDir, LookupRepo, OpenConfig, SaveConfig,
        ShortWrite, ListNext, ListEnds, UpdateNext, UpdateEnds, Locate, Running
  <2>2. CASE PrepareSession(p) \/ InitRepository(p) \/ RemoveEntry(p)
    BY <2>1, <2>2, <1>2 DEF PrepareSession, InitRepository, RemoveEntry
  <2>3. CASE RenameSession(p) \/ RemoveDir(p) \/ OpenConfig(p)
    <3>1. OnlyCommand \/ UNCHANGED <<pc, job, result>>
      BY <2>3 DEF RenameSession, RemoveDir, OpenConfig
    <3> QED BY <3>1, <2>1, <1>2 DEF OnlyCommand, vars
  <2>4. CASE WriteNewConfig(p) \/ SaveConfig(p) \/ ShortWrite(p)
    BY <2>1, <2>4, <1>2 DEF WriteNewConfig, SaveConfig, ShortWrite, vars
  <2>5. CASE OnlyCommand
    BY <2>1, <2>5, <1>2 DEF OnlyCommand, vars
  <2> QED
    BY <2>2, <2>3, <2>4, <2>5, <1>4
    DEF CheckAbsent, CheckDeletable, CheckConfig, LookupRepo, ListNext, ListEnds, UpdateNext,
        UpdateEnds, Locate
<1>5. CASE CallFails(p)
  BY <1>4, <1>5 DEF CallFails, At, OnlyCommand, vars
<1>6. CASE Kill(p)
  BY <1>6 DEF Kill, At, vars
<1> QED BY <1>3, <1>4, <1>5, <1>6 DEF SteadyStep, RepoAction, RepoStep

LEMMA SyncStaysSteady ==
  ASSUME NEW p \in Pid, SteadyStep(p)
  PROVE  SteadySync(p)'
<1>1. CASE pc'[p] = "idle"
  BY <1>1 DEF SteadySync
<1>2. CASE StartClone(p) \/ StartPull(p)
  BY <1>2, StartIsSteady
<1>3. CASE GitFails(p)
  BY <1>1, <1>3, WhoSteps DEF GitFails, Fail, Return, TypeOK
<1>4. CASE GitWork(p) /\ pc'[p] # "idle"
  <2>1. /\ command' = command /\ (GitStep(p) \/ GitFails(p))
    BY <1>4 DEF GitWork, repo
  <2>2. /\ job'[p].dir = job[p].dir /\ job'[p].url = command'[p].conf.url
        /\ job'[p].branch = command'[p].conf.branch
        /\ Undisturbed(p)' \/ (job[p].dir \in Name /\ Spoilt(job[p].dir) /\ Spoilt(job[p].dir)')
    BY <2>1, <1>4, SyncSteps DEF GoesWell
  <2> QED BY <2>2 DEF SteadySync
<1> QED BY <1>1, <1>2, <1>3, <1>4, SyncOrNot

-----------------------------------------------------------------------------
\* What the syncs leave to the command.
LEMMA KeptIsBrought ==
  ASSUME NEW p \in Pid, SteadyStep(p), asked' = asked,
         command'[p].list \in {command[p].list, <<>>},
         command'[p].step \notin AtHand \cup {"write", "rename"},
         command'[p].step = "cloned" => pc'[p] # "idle"
  PROVE  HasBrought(p)'
<1>1. HasBrought(p) /\ command[p] # None
  BY WhoSteps DEF SteadyStep, SteadyInv
<1>2. Len(<<>>) = 0
  OBVIOUS
<1>3. \A i \in 1 .. Len(command'[p].list) : asked'[command'[p].list[i].name] # None
  <2>1. CASE command'[p].list = command[p].list
    BY <2>1, <1>1 DEF HasBrought
  <2>2. CASE command'[p].list = <<>>
    BY <2>2, <1>2
  <2> QED BY <2>1, <2>2
<1> QED BY <1>3 DEF HasBrought, Returned, Running, At, AtHand

\* The same step of the same command, or the next one for the same settings.
LEMMA HandedOn ==
  ASSUME NEW p \in Pid, SteadyStep(p), asked' = asked, command'[p] # None,
         command'[p].verb = command[p].verb, command'[p].name = command[p].name,
         command'[p].conf = command[p].conf, command'[p].list = command[p].list,
         command'[p].step \in AtHand => command[p].step \in AtHand,
         command'[p].step \in {"write", "rename"} \/ Returned(p, "cloned")' =>
           /\ Even(git'[p], command[p].conf.branch) /\ Behind(git'[p], command[p].conf)
           /\ command[p].verb # "init" => Fresh(git'[p], command[p].conf),
         command[p].verb # "conf" /\ ~Spoilt(command[p].name)
           /\ (command'[p].step \in {"open", "save"} \/ Returned(p, "pulled")') =>
           git'[command[p].name].is = "repo" /\ Fresh(git'[command[p].name], command[p].conf)
  PROVE  HasBrought(p)'
<1>1. HasBrought(p) /\ command[p] # None /\ remote' = remote
  BY WhoSteps DEF SteadyStep, SteadyInv
<1>2. PICK n, c : n = command[p].name /\ c = command[p].conf
  OBVIOUS
<1>3. command'[p].name = n /\ command'[p].conf = c
  BY <1>2
<1>4. Spoilt(n) => Spoilt(n)'
  BY PastGrows DEF Spoilt
<1>5. /\ command'[p].step \in AtHand => asked'[n] # None
      /\ \A i \in 1 .. Len(command'[p].list) : asked'[command'[p].list[i].name] # None
  BY <1>1, <1>2 DEF HasBrought
<1>6. command'[p].step \in {"write", "rename"} \/ Returned(p, "cloned")' =>
        /\ Even(git'[p], c.branch) /\ Behind(git[p], c)'
        /\ command'[p].verb # "init" => Fresh(git[p], c)'
  BY <1>1, <1>2 DEF Behind, Fresh
<1>7. command'[p].verb # "conf" /\ ~Spoilt(n)'
        /\ (command'[p].step \in {"open", "save"} \/ Returned(p, "pulled")') =>
          git'[n].is = "repo" /\ Fresh(git[n], c)'
  BY <1>1, <1>2, <1>4 DEF Fresh
<1> QED BY <1>3, <1>5, <1>6, <1>7 DEF HasBrought, Behind, Fresh, Spoilt

\* Whose config file can be read is there, and so has settings.
LEMMA ReadIsAsked ==
  ASSUME NEW p \in Pid, SteadyStep(p), NEW n \in Name, config[n] \in Config
  PROVE  asked[n] # None /\ config[n] = asked[n]
<1>1. config[n] # None /\ n \in Dir
  BY WhoSteps, ConfigAssumption
<1>2. git[n].is # "absent"
  BY <1>1 DEF SteadyStep, RepoInv, PlaceOK
<1> QED BY <1>2 DEF SteadyStep, SteadyInv, RestOK, SerialInv, ConfigIsAsAsked

LEMMA LookedUpIsBrought ==
  ASSUME NEW p \in Pid, SteadyStep(p), LookupRepo(p), command'[p] # None
  PROVE  HasBrought(p)'
<1> DEFINE old == command[p]
           new == command'[p]
           n == old.name
<1>1. /\ old # None /\ old \in Command /\ CommandOK(old) /\ old.verb \in Verb /\ old.step = "lookup"
      /\ n \in Name /\ command \in [Pid -> Command \cup {None}] /\ config[n] \in Settings
  BY WhoSteps DEF LookupRepo, Running
<1>2. old.verb \in {"conf", "sync"}
  BY <1>1, StepsOfVerbs DEF CommandOK, Verb
<1>3. ASSUME NEW r, Exit(p, r)
      PROVE  FALSE
  BY <1>3, <1>1 DEF Exit
<1>4. /\ config[n] \in Config /\ OnlyCommand
      /\ \/ /\ old.verb = "conf"
            /\ command' = [command EXCEPT ![p].conf = Merge(config[n], old.change), ![p].step = "open"]
         \/ /\ old.verb = "sync" /\ ~Skipped(config[n])
            /\ command' = [command EXCEPT ![p].conf = config[n], ![p].step = "pull"]
  BY <1>1, <1>2, <1>3 DEF LookupRepo, Settings
<1>5. /\ new.name = n /\ new.list = old.list /\ new.verb = old.verb
      /\ \/ old.verb = "conf" /\ new.step = "open"
         \/ old.verb = "sync" /\ new.step = "pull"
  BY <1>1, <1>4 DEF Command
<1>6. asked[n] # None /\ asked' = asked
  BY <1>1, <1>4, ReadIsAsked DEF OnlyCommand
<1>7. \A i \in 1 .. Len(old.list) : asked[old.list[i].name] # None
  BY <1>1 DEF SteadyStep, SteadyInv, HasBrought
<1>8. asked'[new.name] # None /\ \A i \in 1 .. Len(new.list) : asked'[new.list[i].name] # None
  BY <1>5, <1>6, <1>7
<1> QED BY <1>5, <1>8 DEF HasBrought, Returned, Running

LEMMA ListedIsBrought ==
  ASSUME NEW p \in Pid, SteadyStep(p), ListNext(p), command'[p] # None
  PROVE  HasBrought(p)'
<1> DEFINE old == command[p]
           new == command'[p]
<1>1. /\ old # None /\ old \in Command /\ CommandOK(old) /\ old.step = "list" /\ old.list \in Seq(Entry)
      /\ command \in [Pid -> Command \cup {None}] /\ asked' = asked
  BY WhoSteps DEF ListNext, Running, OnlyCommand
<1>2. ASSUME NEW r, Exit(p, r)
      PROVE  FALSE
  BY <1>2, <1>1 DEF Exit
<1>3. PICK n \in old.todo :
        \/ command' = [command EXCEPT ![p].todo = @ \ {n}]
        \/ /\ config[n] \in Config
           /\ command' = [command EXCEPT ![p].todo = @ \ {n},
                                         ![p].list = Append(@, [name |-> n, conf |-> config[n]])]
  BY <1>2 DEF ListNext
<1>4. n \in Name
  BY <1>1 DEF CommandOK
<1>5. CASE command' = [command EXCEPT ![p].todo = @ \ {n}]
  <2>1. new.list = old.list /\ new.step = "list"
    BY <1>1, <1>5 DEF Command
  <2> QED BY <2>1, <1>1, KeptIsBrought DEF AtHand
<1>6. CASE /\ config[n] \in Config
           /\ command' = [command EXCEPT ![p].todo = @ \ {n},
                                         ![p].list = Append(@, [name |-> n, conf |-> config[n]])]
  <2>1. PICK e : e = [name |-> n, conf |-> config[n]]
    OBVIOUS
  <2>2. e \in Entry /\ e.name = n
    BY <1>4, <1>6, <2>1 DEF Entry
  <2>3. new.list = Append(old.list, e) /\ new.step = "list"
    BY <1>1, <1>6, <2>1 DEF Command
  <2>4. /\ Len(new.list) = Len(old.list) + 1 /\ new.list[Len(old.list) + 1] = e
        /\ \A i \in 1 .. Len(old.list) : new.list[i] = old.list[i]
        /\ Len(old.list) \in Nat
    BY <1>1, <2>2, <2>3, AppendProperties
  <2>5. asked[n] # None
    BY <1>4, <1>6, ReadIsAsked
  <2>6. \A i \in 1 .. Len(old.list) : asked[old.list[i].name] # None
    BY <1>1 DEF SteadyStep, SteadyInv, HasBrought
  <2>7. \A i \in 1 .. Len(new.list) : i \in 1 .. Len(old.list) \/ i = Len(old.list) + 1
    BY <2>4
  <2>8. \A i \in 1 .. Len(new.list) : asked'[new.list[i].name] # None
    BY <1>1, <2>2, <2>4, <2>5, <2>6, <2>7
  <2> QED BY <2>3, <2>8 DEF HasBrought, Returned, Running, AtHand
<1> QED BY <1>3, <1>5, <1>6

\* `update' turns to the next repository.
LEMMA Turned ==
  ASSUME NEW p \in Pid, SteadyStep(p), UpdateNext(p)
  PROVE  LET old == command[p]
             new == command'[p]
         IN  /\ old.verb = "update" /\ old.step = "each" /\ OnlyCommand
             /\ Len(old.list) \in Nat \ {0} /\ new.verb = "update" /\ new.ret = old.ret
             /\ Len(new.list) = Len(old.list) - 1
             /\ \A i \in 1 .. Len(new.list) : new.list[i] = old.list[i + 1]
             /\ \/ Skipped(old.list[1].conf) /\ new.step = "each"
                \/ new.step = "pull" /\ new.name = old.list[1].name
<1> DEFINE old == command[p]
           new == command'[p]
<1>1. /\ old # None /\ old \in Command /\ CommandOK(old) /\ old.verb \in Verb /\ old.step = "each"
      /\ old.list \in Seq(Entry) /\ old.list # <<>>
      /\ command \in [Pid -> Command \cup {None}] /\ OnlyCommand
  BY WhoSteps DEF UpdateNext, Running
<1>2. old.verb = "update"
  BY <1>1, StepsOfVerbs DEF CommandOK, Verb
<1>3. PICK e, next, c :
        /\ e = Head(old.list)
        /\ next = [old EXCEPT !.list = Tail(@), !.official = @ \/ e.name = Official]
        /\ c = (IF Skipped(e.conf) THEN next
                ELSE [next EXCEPT !.name = e.name, !.conf = e.conf, !.step = "pull"])
        /\ command' = [command EXCEPT ![p] = c]
  BY DEF UpdateNext
<1>4. Len(old.list) \in Nat \ {0} /\ e = old.list[1]
  BY <1>1, <1>3, EmptySeq
<1>5. /\ Len(Tail(old.list)) = Len(old.list) - 1
      /\ \A i \in 1 .. Len(Tail(old.list)) : Tail(old.list)[i] = old.list[i + 1]
  BY <1>1, <1>4, HeadTailProperties
<1>6. /\ next.list = Tail(old.list) /\ next.step = "each" /\ next.verb = "update"
      /\ next.ret = old.ret
      /\ c.list = next.list /\ c.verb = "update" /\ c.ret = old.ret
      /\ \/ c.step = "each" /\ Skipped(e.conf)
         \/ c.step = "pull" /\ c.name = e.name
  BY <1>1, <1>2, <1>3 DEF Command
<1>7. new = c
  BY <1>1, <1>3
<1> QED BY <1>1, <1>2, <1>4, <1>5, <1>6, <1>7

LEMMA TurnedIsBrought ==
  ASSUME NEW p \in Pid, SteadyStep(p), UpdateNext(p)
  PROVE  HasBrought(p)'
<1> DEFINE old == command[p]
           new == command'[p]
<1>1. /\ Len(old.list) \in Nat \ {0} /\ Len(new.list) = Len(old.list) - 1
      /\ \A i \in 1 .. Len(new.list) : new.list[i] = old.list[i + 1]
      /\ new.step = "each" \/ (new.step = "pull" /\ new.name = old.list[1].name)
  BY Turned
<1>2. asked' = asked
  BY Turned DEF OnlyCommand
<1>3. \A i \in 1 .. Len(old.list) : asked[old.list[i].name] # None
  BY WhoSteps DEF SteadyStep, SteadyInv, HasBrought
<1>4. \A i \in 1 .. Len(new.list) : i + 1 \in 1 .. Len(old.list) /\ new.list[i] = old.list[i + 1]
  BY <1>1
<1>5. \A i \in 1 .. Len(new.list) : asked'[new.list[i].name] # None
  BY <1>2, <1>3, <1>4
<1>6. asked'[old.list[1].name] # None
  BY <1>1, <1>2, <1>3
<1> QED BY <1>1, <1>5, <1>6 DEF HasBrought, Returned, Running, AtHand

\* What a sync has brought is what the command goes on with.
LEMMA SyncedIsBrought ==
  ASSUME NEW p \in Pid, SteadyStep(p), GitWork(p) \/ (CallFails(p) /\ GitFails(p) /\ UNCHANGED repo)
  PROVE  HasBrought(p)'
<1>1. /\ GitStep(p) \/ GitFails(p)
      /\ asked' = asked /\ command' = command
  BY DEF GitWork, repo
<1>2. PICK d, c : d = job[p].dir /\ c = command[p].conf
  OBVIOUS
<1>3. /\ command[p] # None /\ c \in Config /\ p \notin Name /\ command[p].name \in Name
      /\ CommandOK(command[p]) /\ command[p].verb \in Verb
  BY <1>2, WhoSteps
<1>4. /\ job[p].url = c.url /\ job[p].branch = c.branch
      /\ \/ command[p].step = "cloned" /\ d = p
         \/ command[p].step = "pulled" /\ d = command[p].name
      /\ GoesWell(p) \/ (d \in Name /\ Spoilt(d))
  BY <1>1, <1>2, SyncSteps
<1>5. ASSUME pc'[p] = "idle", result'[p] = "ok", GoesWell(p)
      PROVE  /\ git'[d].is = "repo" /\ Even(git'[d], c.branch)
             /\ Fresh(git'[d], c) /\ Behind(git'[d], c)
  <2>1. Brought(p)
    BY <1>5 DEF GoesWell
  <2>2. git'[d].is = "repo" /\ Even(git'[d], c.branch) /\ Fresh(git'[d], c)
    BY <2>1, <1>2, <1>4 DEF Brought, Fresh
  <2> QED BY <2>2, <1>3, FreshIsBehind DEF SteadyStep
<1>6. ASSUME Returned(p, "cloned")'
      PROVE  /\ Even(git'[p], c.branch) /\ Behind(git'[p], c) /\ Fresh(git'[p], c)
  <2>1. pc'[p] = "idle" /\ result'[p] = "ok" /\ command[p].step = "cloned"
    BY <1>1, <1>6 DEF Returned, Running, At
  <2> QED BY <2>1, <1>3, <1>4, <1>5
<1>7. ASSUME Returned(p, "pulled")', ~Spoilt(command[p].name)
      PROVE  git'[command[p].name].is = "repo" /\ Fresh(git'[command[p].name], c)
  <2>1. pc'[p] = "idle" /\ result'[p] = "ok" /\ command[p].step = "pulled"
    BY <1>1, <1>7 DEF Returned, Running, At
  <2> QED BY <2>1, <1>3, <1>4, <1>5, <1>7
<1>8. command'[p].step \in {"cloned", "pulled"}
  BY <1>1, <1>4
<1>9. command'[p].step \notin {"write", "rename", "open", "save"}
  BY <1>8
<1>10. command'[p].step \in {"write", "rename"} \/ Returned(p, "cloned")' =>
         /\ Even(git'[p], command[p].conf.branch) /\ Behind(git'[p], command[p].conf)
         /\ command[p].verb # "init" => Fresh(git'[p], command[p].conf)
  BY <1>2, <1>6, <1>9
<1>11. command[p].verb # "conf" /\ ~Spoilt(command[p].name)
         /\ (command'[p].step \in {"open", "save"} \/ Returned(p, "pulled")') =>
         git'[command[p].name].is = "repo" /\ Fresh(git'[command[p].name], command[p].conf)
  BY <1>2, <1>7, <1>9
<1>12. command'[p] # None /\ command'[p] = command[p]
  BY <1>1, <1>3
<1> QED BY <1>1, <1>10, <1>11, <1>12, HandedOn

LEMMA BroughtGoesOn ==
  ASSUME NEW p \in Pid, SteadyStep(p), command'[p] # None
  PROVE  HasBrought(p)'
<1> DEFINE old == command[p]
           new == command'[p]
<1>1. /\ old # None /\ old \in Command /\ CommandOK(old) /\ asked' = asked
      /\ old.verb \in Verb /\ old.conf \in Config /\ old.name \in Name /\ old.name \in Dir
      /\ p \in Dir /\ git \in [Dir -> Repository]
      /\ command \in [Pid -> Command \cup {None}] /\ HasBrought(p)
  BY WhoSteps, AskedWhenDone DEF SteadyStep, SteadyInv
<1>2. ASSUME NEW r, Exit(p, r)
      PROVE  FALSE
  BY <1>1, <1>2 DEF Exit
<1>3. ASSUME Failed(p)
      PROVE  HasBrought(p)'
  <2>1. command' = [command EXCEPT ![p].step = "each", ![p].list = <<>>, ![p].fd = None,
                                   ![p].ret = "error"]
    BY <1>2, <1>3 DEF Failed
  <2>2. new.step = "each" /\ new.list = <<>>
    BY <2>1, <1>1 DEF Command
  <2> QED BY <2>2, <1>1, KeptIsBrought DEF AtHand
<1>4. ASSUME NEW step \in CommandStep \ (AtHand \cup {"write", "rename", "cloned"}), Step(p, step)
      PROVE  HasBrought(p)'
  BY <1>1, <1>4, StepTaken, KeptIsBrought DEF SteadyStep
<1>5. CASE CheckAbsent(p) \/ PrepareSession(p) \/ CheckDeletable(p) \/ CheckConfig(p) \/ ListEnds(p)
  BY <1>2, <1>4, <1>5
  DEF CheckAbsent, PrepareSession, CheckDeletable, CheckConfig, ListEnds, CommandStep, AtHand
<1>6. CASE InitRepository(p)
  <2>1. /\ Step(p, "write") /\ old.step = "init"
        /\ git' = [git EXCEPT ![p] = Blank("repo")] /\ UNCHANGED result
    BY <1>6 DEF InitRepository, Running
  <2>2. old.verb = "init"
    BY <2>1, <1>1, StepsOfVerbs DEF CommandOK, Verb
  <2>3. git'[p] = Blank("repo")
    BY <2>1, <1>1
  <2>4. Even(git'[p], old.conf.branch) /\ Behind(git'[p], old.conf)
    BY <2>3, <1>1, BlankIsEven DEF SteadyStep
  <2>5. /\ new.step = "write" /\ new.verb = old.verb /\ new.name = old.name
        /\ new.conf = old.conf /\ new.list = old.list
    BY <2>1, <1>1, StepTaken DEF SteadyStep, CommandStep
  <2>6. command'[p].step \in {"write", "rename"} \/ Returned(p, "cloned")' =>
           /\ Even(git'[p], command[p].conf.branch) /\ Behind(git'[p], command[p].conf)
           /\ command[p].verb # "init" => Fresh(git'[p], command[p].conf)
    BY <2>2, <2>4
  <2>7. command[p].verb # "conf" /\ ~Spoilt(command[p].name)
           /\ (command'[p].step \in {"open", "save"} \/ Returned(p, "pulled")') =>
           git'[command[p].name].is = "repo" /\ Fresh(git'[command[p].name], command[p].conf)
    BY <2>5 DEF Returned, Running
  <2>8. command'[p] # None /\ (command'[p].step \in AtHand => command[p].step \in AtHand)
    BY <2>5, <1>1 DEF AtHand
  <2> QED BY <1>1, <2>5, <2>6, <2>7, <2>8, HandedOn
<1>7. CASE StartClone(p)
  <2>1. Step(p, "cloned")
    BY <1>7 DEF StartClone
  <2>2. new.step = "cloned" /\ new.list = old.list
    BY <2>1, <1>1, StepTaken DEF SteadyStep, CommandStep
  <2>3. pc'[p] # "idle"
    BY <1>7, StartIsSteady
  <2> QED BY <2>2, <2>3, <1>1, KeptIsBrought DEF AtHand
<1>8. CASE CloneReturns(p) \/ WriteNewConfig(p)
  <2>1. /\ git' = git
        /\ \/ Returned(p, "cloned") /\ Step(p, "write")
           \/ old.step = "write" /\ Step(p, "rename")
    BY <1>2, <1>8 DEF CloneReturns, WriteNewConfig, Returned, Running, OnlyCommand, vars
  <2>2. /\ new.step \in {"write", "rename"} /\ new.verb = old.verb /\ new.name = old.name
        /\ new.conf = old.conf /\ new.list = old.list
    BY <2>1, <1>1, StepTaken DEF SteadyStep, CommandStep
  <2>3. /\ Even(git'[p], old.conf.branch) /\ Behind(git'[p], old.conf)
        /\ old.verb # "init" => Fresh(git'[p], old.conf)
    BY <2>1, <1>1 DEF HasBrought
  <2>4. command'[p].step \in {"write", "rename"} \/ Returned(p, "cloned")' =>
           /\ Even(git'[p], command[p].conf.branch) /\ Behind(git'[p], command[p].conf)
           /\ command[p].verb # "init" => Fresh(git'[p], command[p].conf)
    BY <2>3
  <2>5. command[p].verb # "conf" /\ ~Spoilt(command[p].name)
           /\ (command'[p].step \in {"open", "save"} \/ Returned(p, "pulled")') =>
           git'[command[p].name].is = "repo" /\ Fresh(git'[command[p].name], command[p].conf)
    BY <2>2 DEF Returned, Running
  <2>6. command'[p] # None /\ (command'[p].step \in AtHand => command[p].step \in AtHand)
    BY <2>2, <1>1 DEF AtHand
  <2> QED BY <1>1, <2>2, <2>4, <2>5, <2>6, HandedOn
<1>9. CASE StartPull(p)
  <2>1. Step(p, "pulled") /\ old.step = "pull"
    BY <1>9 DEF StartPull, Running
  <2>2. /\ new.step = "pulled" /\ new.verb = old.verb /\ new.name = old.name
        /\ new.conf = old.conf /\ new.list = old.list
    BY <2>1, <1>1, StepTaken DEF SteadyStep, CommandStep
  <2>3. pc'[p] # "idle"
    BY <1>9, StartIsSteady
  <2>4. command'[p].step \in {"write", "rename"} \/ Returned(p, "cloned")' =>
           /\ Even(git'[p], command[p].conf.branch) /\ Behind(git'[p], command[p].conf)
           /\ command[p].verb # "init" => Fresh(git'[p], command[p].conf)
    BY <2>2 DEF Returned, Running
  <2>5. command[p].verb # "conf" /\ ~Spoilt(command[p].name)
           /\ (command'[p].step \in {"open", "save"} \/ Returned(p, "pulled")') =>
           git'[command[p].name].is = "repo" /\ Fresh(git'[command[p].name], command[p].conf)
    BY <2>2, <2>3 DEF Returned, Running, At
  <2>6. command'[p] # None /\ (command'[p].step \in AtHand => command[p].step \in AtHand)
    BY <2>1, <2>2, <1>1 DEF AtHand
  <2> QED BY <1>1, <2>2, <2>4, <2>5, <2>6, HandedOn
<1>10. CASE PullReturns(p)
  <2>1. CASE Failed(p)
    BY <2>1, <1>3
  <2>2. CASE Returned(p, "pulled") /\ Step(p, "open") /\ git' = git
    <3>1. /\ new.step = "open" /\ new.verb = old.verb /\ new.name = old.name
          /\ new.conf = old.conf /\ new.list = old.list
      BY <2>2, <1>1, StepTaken DEF SteadyStep, CommandStep
    <3>2. old.verb # "conf" /\ ~Spoilt(old.name) =>
            git'[old.name].is = "repo" /\ Fresh(git'[old.name], old.conf)
      BY <2>2, <1>1 DEF HasBrought
    <3>3. old.step = "pulled"
      BY <2>2 DEF Returned, Running
    <3>4. command'[p].step \in {"write", "rename"} \/ Returned(p, "cloned")' =>
             /\ Even(git'[p], command[p].conf.branch) /\ Behind(git'[p], command[p].conf)
             /\ command[p].verb # "init" => Fresh(git'[p], command[p].conf)
      BY <3>1 DEF Returned, Running
    <3>5. command[p].verb # "conf" /\ ~Spoilt(command[p].name)
             /\ (command'[p].step \in {"open", "save"} \/ Returned(p, "pulled")') =>
             git'[command[p].name].is = "repo" /\ Fresh(git'[command[p].name], command[p].conf)
      BY <3>2
    <3>6. command'[p] # None /\ (command'[p].step \in AtHand => command[p].step \in AtHand)
      BY <3>1, <3>3, <1>1 DEF AtHand
    <3> QED BY <1>1, <3>1, <3>4, <3>5, <3>6, HandedOn
  <2> QED BY <2>1, <2>2, <1>10 DEF PullReturns, Returned, Running, OnlyCommand, vars
<1>11. CASE OpenConfig(p)
  <2>1. CASE Failed(p)
    BY <2>1, <1>3
  <2>2. CASE ~Failed(p)
    <3>1. /\ git' = [git EXCEPT ![old.name] = IF @.is = "empty" THEN Blank("damaged") ELSE @]
          /\ command' = [command EXCEPT ![p].step = "save", ![p].fd = old.name]
          /\ old.step = "open"
      BY <2>2, <1>11 DEF OpenConfig, Running
    <3>2. /\ new.step = "save" /\ new.verb = old.verb /\ new.name = old.name
          /\ new.conf = old.conf /\ new.list = old.list
      BY <3>1, <1>1 DEF Command
    <3>3. git[old.name].is = "repo" => git'[old.name] = git[old.name]
      BY <3>1, <1>1
    <3>4. old.verb # "conf" /\ ~Spoilt(old.name) =>
            git'[old.name].is = "repo" /\ Fresh(git'[old.name], old.conf)
      BY <3>1, <3>3, <1>1 DEF HasBrought
    <3>5. command'[p].step \in {"write", "rename"} \/ Returned(p, "cloned")' =>
             /\ Even(git'[p], command[p].conf.branch) /\ Behind(git'[p], command[p].conf)
             /\ command[p].verb # "init" => Fresh(git'[p], command[p].conf)
      BY <3>2 DEF Returned, Running
    <3>6. command[p].verb # "conf" /\ ~Spoilt(command[p].name)
             /\ (command'[p].step \in {"open", "save"} \/ Returned(p, "pulled")') =>
             git'[command[p].name].is = "repo" /\ Fresh(git'[command[p].name], command[p].conf)
      BY <3>4
    <3>7. command'[p] # None /\ (command'[p].step \in AtHand => command[p].step \in AtHand)
      BY <3>1, <3>2, <1>1 DEF AtHand
    <3> QED BY <1>1, <3>2, <3>5, <3>6, <3>7, HandedOn
  <2> QED BY <2>1, <2>2
<1>12. CASE SaveConfig(p) \/ ShortWrite(p)
  <2>1. CASE Failed(p)
    BY <2>1, <1>3
  <2>2. CASE ~Failed(p)
    <3>1. command' = [command EXCEPT ![p].step = "each", ![p].fd = None]
      BY <2>2, <1>2, <1>12 DEF SaveConfig, ShortWrite, Saved
    <3>2. new.step = "each" /\ new.list = old.list
      BY <3>1, <1>1 DEF Command
    <3> QED BY <3>2, <1>1, KeptIsBrought DEF AtHand
  <2> QED BY <2>1, <2>2
<1>13. CASE RemoveEntry(p)
  <2>1. PICK x \in old.todo : new = [old EXCEPT !.todo = @ \ {x}]
    BY <1>13 DEF RemoveEntry
  <2>2. old.step = "remove"
    BY <1>13 DEF RemoveEntry, Running
  <2>3. new.step = "remove" /\ new.list = old.list
    BY <2>1, <2>2, <1>1 DEF Command
  <2> QED BY <2>3, <1>1, KeptIsBrought DEF AtHand
<1>14. CASE UpdateEnds(p)
  <2>1. PICK conf : command' = [command EXCEPT ![p].step = "exists", ![p].name = Official,
                                               ![p].conf = conf]
    BY <1>2, <1>14 DEF UpdateEnds
  <2>2. new.step = "exists" /\ new.list = old.list
    BY <2>1, <1>1 DEF Command
  <2> QED BY <2>2, <1>1, KeptIsBrought DEF AtHand
<1>15. CASE RenameSession(p) \/ RemoveDir(p) \/ Locate(p) \/ Kill(p)
  BY <1>2, <1>15 DEF RenameSession, RemoveDir, Locate, Kill
<1>16. CASE CallFails(p)
  BY <1>3, <1>12, <1>16, SyncedIsBrought DEF CallFails
<1> QED
  BY <1>5, <1>6, <1>7, <1>8, <1>9, <1>10, <1>11, <1>12, <1>13, <1>14, <1>15, <1>16,
     SyncedIsBrought, LookedUpIsBrought, ListedIsBrought, TurnedIsBrought
  DEF SteadyStep, RepoAction, RepoStep

-----------------------------------------------------------------------------
\* What `update' has still to do, and what it has done.

\* All but the repository at hand stay as they are.
OthersStay(p) ==
  \A n \in Name :
    n # command[p].name \/ command[p].step \notin AtHand =>
      config'[n] = config[n] /\ git'[n] = git[n]

\* The command goes on with the same list, and keeps at hand what it has there.
LEMMA KeptIsSeenTo ==
  ASSUME NEW p \in Pid, SteadyStep(p),
         command'[p].verb = command[p].verb, command'[p].ret = command[p].ret,
         command'[p].list = command[p].list,
         command[p].step # "list", command'[p].step # "list",
         command[p].step \in AtHand =>
           command'[p].step \in AtHand /\ command'[p].name = command[p].name,
         command'[p].step \in Preparing => command[p].step \in Preparing \/ command[p].list = <<>>,
         OthersStay(p)
  PROVE  UpdateOK(p)'
<1> DEFINE old == command[p]
           new == command'[p]
<1>1. UpdateOK(p) /\ old # None /\ remote' = remote
  BY WhoSteps DEF SteadyStep, SteadyInv
<1> SUFFICES ASSUME new.verb = "update", NEW n \in Name, config'[n] \in Config
             PROVE  SeenTo(command[p], n)'
  BY <1>1 DEF UpdateOK
<1>2. CASE n = old.name /\ old.step \in AtHand
  BY <1>2 DEF SeenTo
<1>3. CASE n # old.name \/ old.step \notin AtHand
  <2>1. config'[n] = config[n] /\ git'[n] = git[n]
    BY <1>3 DEF OthersStay
  <2>2. SeenTo(old, n)
    BY <1>1, <2>1 DEF UpdateOK
  <2>3. Spoilt(n) => Spoilt(n)'
    BY PastGrows DEF Spoilt
  <2>4. Listed(old, n) => Listed(command[p], n)'
    BY DEF Listed
  <2>5. Fresh(git[n], config[n]) => Fresh(git[n], config[n])'
    BY <2>1, <1>1 DEF Fresh
  <2> QED BY <1>3, <2>1, <2>2, <2>3, <2>4, <2>5 DEF SeenTo
<1> QED BY <1>2, <1>3

\* After an error nothing is promised.
LEMMA FailedIsSeenTo ==
  ASSUME NEW p \in Pid, SteadyStep(p), Failed(p), command'[p] # None
  PROVE  UpdateOK(p)'
<1>1. command[p] \in Command /\ command \in [Pid -> Command \cup {None}]
  BY WhoSteps
<1>2. command' = [command EXCEPT ![p].step = "each", ![p].list = <<>>, ![p].fd = None,
                                 ![p].ret = "error"]
  BY <1>1 DEF Failed, Exit
<1>3. command'[p].step = "each" /\ command'[p].ret = "error"
  BY <1>1, <1>2 DEF Command
<1> QED BY <1>3 DEF UpdateOK, SeenTo, Preparing

LEMMA ListedIsSeenTo ==
  ASSUME NEW p \in Pid, SteadyStep(p), ListNext(p), command'[p] # None
  PROVE  UpdateOK(p)'
<1> DEFINE old == command[p]
           new == command'[p]
<1>1. /\ old # None /\ old \in Command /\ CommandOK(old) /\ old.step = "list" /\ old.list \in Seq(Entry)
      /\ command \in [Pid -> Command \cup {None}] /\ config' = config /\ UpdateOK(p)
  BY WhoSteps DEF ListNext, Running, OnlyCommand, SteadyStep, SteadyInv
<1>2. ASSUME NEW r, Exit(p, r)
      PROVE  FALSE
  BY <1>2, <1>1 DEF Exit
<1>3. PICK m \in old.todo :
        \/ /\ config[m] = None
           /\ command' = [command EXCEPT ![p].todo = @ \ {m}]
        \/ /\ config[m] \in Config
           /\ command' = [[command EXCEPT ![p].todo = @ \ {m}]
                             EXCEPT ![p].list = Append(@, [name |-> m, conf |-> config[m]])]
  BY <1>2 DEF ListNext
<1>4. m \in Name
  BY <1>1, <1>3 DEF CommandOK
<1>5. /\ new.step = "list" /\ new.verb = old.verb /\ new.todo = old.todo \ {m}
      /\ new.list = old.list \/ new.list = Append(old.list, [name |-> m, conf |-> config[m]])
      /\ config[m] \in Config => new.list = Append(old.list, [name |-> m, conf |-> config[m]])
  BY <1>1, <1>3, ConfigAssumption DEF Command
<1>6. ASSUME new.list = Append(old.list, [name |-> m, conf |-> config[m]]), config[m] \in Config
      PROVE  /\ Listed(new, m)
             /\ \A n \in Name : Listed(old, n) => Listed(new, n)
  <2>1. PICK e : e = [name |-> m, conf |-> config[m]]
    OBVIOUS
  <2>2. e \in Entry /\ e.name = m
    BY <1>4, <1>6, <2>1 DEF Entry
  <2>3. /\ Len(new.list) = Len(old.list) + 1 /\ new.list[Len(old.list) + 1] = e
        /\ \A i \in 1 .. Len(old.list) : new.list[i] = old.list[i]
        /\ Len(old.list) \in Nat
    BY <1>1, <1>6, <2>1, <2>2, AppendProperties
  <2>4. Len(old.list) + 1 \in 1 .. Len(new.list)
    BY <2>3
  <2>5. 1 .. Len(old.list) \subseteq 1 .. Len(new.list)
    BY <2>3
  <2> QED BY <2>2, <2>3, <2>4, <2>5 DEF Listed
<1> SUFFICES ASSUME new.verb = "update", NEW n \in Name, config'[n] \in Config
             PROVE  n \in new.todo \/ Listed(new, n)
  BY <1>5 DEF UpdateOK, Listed, Preparing
<1>7. n \in old.todo \/ Listed(old, n)
  BY <1>1, <1>5 DEF UpdateOK
<1>8. CASE n = m
  BY <1>1, <1>5, <1>6, <1>8
<1>9. CASE n # m /\ config[m] \in Config
  BY <1>5, <1>6, <1>7, <1>9
<1>10. CASE n # m /\ config[m] \notin Config
  <2>1. new.list = old.list
    BY <1>1, <1>3, <1>10 DEF Command
  <2> QED BY <1>5, <1>7, <1>10, <2>1 DEF Listed
<1> QED BY <1>8, <1>9, <1>10

LEMMA ListIsSeenTo ==
  ASSUME NEW p \in Pid, SteadyStep(p), ListEnds(p)
  PROVE  UpdateOK(p)'
<1> DEFINE old == command[p]
           new == command'[p]
<1>1. /\ old # None /\ old \in Command /\ old.step = "list" /\ old.todo = {} /\ UpdateOK(p)
      /\ config' = config
      /\ Step(p, IF old.verb = "update" THEN "each" ELSE "search")
  BY WhoSteps DEF ListEnds, Running, OnlyCommand, SteadyStep, SteadyInv
<1>2. new.step \in {"each", "search"} /\ new.list = old.list /\ new.verb = old.verb
  BY <1>1, StepTaken DEF SteadyStep, CommandStep
<1> SUFFICES ASSUME new.verb = "update", NEW n \in Name, config'[n] \in Config
             PROVE  Listed(new, n)
  BY <1>2 DEF UpdateOK, SeenTo, Listed, Preparing
<1>3. Listed(old, n)
  BY <1>1, <1>2 DEF UpdateOK
<1> QED BY <1>2, <1>3 DEF Listed

LEMMA TurnedIsSeenTo ==
  ASSUME NEW p \in Pid, SteadyStep(p), UpdateNext(p)
  PROVE  UpdateOK(p)'
<1> DEFINE old == command[p]
           new == command'[p]
<1>1. /\ old.verb = "update" /\ old.step = "each" /\ OnlyCommand
      /\ Len(old.list) \in Nat \ {0} /\ new.verb = "update" /\ new.ret = old.ret
      /\ Len(new.list) = Len(old.list) - 1
      /\ \A i \in 1 .. Len(new.list) : new.list[i] = old.list[i + 1]
      /\ \/ Skipped(old.list[1].conf) /\ new.step = "each"
         \/ new.step = "pull" /\ new.name = old.list[1].name
  BY Turned
<1>2. /\ UpdateOK(p) /\ HandOK(p) /\ old # None /\ config' = config /\ git' = git /\ past' = past
      /\ remote' = remote
  BY <1>1, WhoSteps DEF SteadyStep, SteadyInv, SerialInv, OnlyCommand, vars
<1> SUFFICES ASSUME NEW n \in Name, config'[n] \in Config
             PROVE  SeenTo(command[p], n)'
  BY <1>1 DEF UpdateOK, Preparing
<1>3. SeenTo(old, n) /\ asked[n] # None /\ config[n] = asked[n]
  BY <1>1, <1>2, ReadIsAsked DEF UpdateOK
<1>4. CASE n = old.list[1].name
  <2>1. old.list[1].conf = asked[n]
    BY <1>1, <1>2, <1>3, <1>4 DEF HandOK
  <2>2. CASE Skipped(old.list[1].conf)
    BY <1>2, <1>3, <2>1, <2>2 DEF SeenTo, Skipped
  <2>3. CASE new.step = "pull" /\ new.name = old.list[1].name
    BY <1>4, <2>3 DEF SeenTo, AtHand
  <2> QED BY <1>1, <2>2, <2>3
<1>5. CASE n # old.list[1].name
  <2>1. Listed(old, n) => Listed(new, n)
    <3> SUFFICES ASSUME NEW i \in 1 .. Len(old.list), old.list[i].name = n
                 PROVE  Listed(new, n)
      BY DEF Listed
    <3>1. i # 1
      BY <1>5
    <3>2. i - 1 \in 1 .. Len(new.list) /\ (i - 1) + 1 = i
      BY <1>1, <3>1
    <3>3. new.list[i - 1] = old.list[i]
      BY <1>1, <3>2
    <3> QED BY <3>2, <3>3 DEF Listed
  <2>2. Listed(command[p], n)' <=> Listed(new, n)
    BY DEF Listed
  <2>3. old.step \notin AtHand
    BY <1>1 DEF AtHand
  <2>4. Spoilt(n)' <=> Spoilt(n)
    BY <1>2 DEF Spoilt
  <2>5. Fresh(git[n], config[n])' <=> Fresh(git[n], config[n])
    BY <1>2 DEF Fresh
  <2> QED BY <1>1, <1>2, <1>3, <2>1, <2>2, <2>3, <2>4, <2>5 DEF SeenTo
<1> QED BY <1>4, <1>5

\* The repository whose settings have been written back has been updated.
LEMMA SavedIsSeenTo ==
  ASSUME NEW p \in Pid, SteadyStep(p), SaveConfig(p), command'[p] # None
  PROVE  UpdateOK(p)'
<1> DEFINE old == command[p]
           new == command'[p]
           m == old.name
<1>1. /\ old # None /\ old \in Command /\ old.step = "save" /\ m \in Name /\ m \in Dir
      /\ command \in [Pid -> Command \cup {None}] /\ config \in [Dir -> Settings]
      /\ Name \subseteq Dir /\ UpdateOK(p) /\ HandOK(p) /\ HasBrought(p)
  BY WhoSteps DEF SaveConfig, Running, SteadyStep, SteadyInv, SerialInv
<1>2. ~Exit(p, "ok")
  BY <1>1 DEF Exit
<1>3. /\ old.verb = "update" /\ command' = [command EXCEPT ![p].step = "each", ![p].fd = None]
      /\ UNCHANGED vars
  BY <1>2 DEF SaveConfig, Saved
<1>4. git' = git /\ past' = past /\ remote' = remote
  BY <1>3 DEF vars
<1>5. /\ new.step = "each" /\ new.ret = old.ret /\ new.list = old.list
  BY <1>1, <1>3 DEF Command
<1>6. config[m] = Empty
  BY <1>1 DEF HandOK
<1>7. Overwritten(config[m], old.conf) = {old.conf}
  BY <1>6, ConfigAssumption DEF Overwritten
<1>8. config' = config \/ config' = [config EXCEPT ![m] = old.conf]
  BY <1>7 DEF SaveConfig, Put
<1>9. /\ config'[m] \in {Empty, old.conf}
      /\ \A n \in Name \ {m} : config'[n] = config[n]
  BY <1>1, <1>6, <1>8
<1> SUFFICES ASSUME NEW n \in Name, config'[n] \in Config
             PROVE  SeenTo(command[p], n)'
  BY <1>5 DEF UpdateOK, Preparing
<1>10. CASE n = m
  <2>1. config'[n] = old.conf
    BY <1>9, <1>10, ConfigAssumption
  <2>2. Spoilt(n) \/ Fresh(git[n], old.conf)
    BY <1>1, <1>3, <1>10 DEF HasBrought
  <2>3. Spoilt(n)' \/ Fresh(git[n], config[n])'
    BY <2>1, <2>2, <1>4 DEF Spoilt, Fresh
  <2> QED BY <2>3 DEF SeenTo
<1>11. CASE n # m
  <2>1. config'[n] = config[n]
    BY <1>9, <1>11
  <2>2. SeenTo(old, n)
    BY <1>1, <1>3, <2>1 DEF UpdateOK
  <2>3. Spoilt(n)' <=> Spoilt(n)
    BY <1>4 DEF Spoilt
  <2>4. Listed(old, n) => Listed(command[p], n)'
    BY <1>5 DEF Listed
  <2>5. Fresh(git[n], config[n]) => Fresh(git[n], config[n])'
    BY <2>1, <1>4 DEF Fresh
  <2> QED BY <1>5, <1>11, <2>1, <2>2, <2>3, <2>4, <2>5 DEF SeenTo
<1> QED BY <1>10, <1>11

LEMMA SeenToGoesOn ==
  ASSUME NEW p \in Pid, SteadyStep(p), command'[p] # None
  PROVE  UpdateOK(p)'
<1> DEFINE old == command[p]
           new == command'[p]
<1>1. /\ old # None /\ old \in Command /\ CommandOK(old)
      /\ old.verb \in Verb /\ old.name \in Name /\ old.name \in Dir
      /\ p \in Dir /\ p \notin Name /\ Name \subseteq Dir
      /\ git \in [Dir -> Repository] /\ config \in [Dir -> Settings]
      /\ command \in [Pid -> Command \cup {None}]
  BY WhoSteps
<1>2. ASSUME NEW r, Exit(p, r)
      PROVE  FALSE
  BY <1>1, <1>2 DEF Exit
<1>3. ASSUME Failed(p)
      PROVE  UpdateOK(p)'
  BY <1>3, FailedIsSeenTo
<1>4. ASSUME new.verb = old.verb, old.verb # "update"
      PROVE  UpdateOK(p)'
  BY <1>4 DEF UpdateOK
<1>5. ASSUME NEW step \in CommandStep \ {"list"}, Step(p, step), old.step # "list",
             old.step \in AtHand => step \in AtHand, OthersStay(p),
             step \in Preparing => old.step \in Preparing \/ old.list = <<>>
      PROVE  UpdateOK(p)'
  BY <1>1, <1>5, StepTaken, KeptIsSeenTo DEF SteadyStep
<1>6. ASSUME \A n \in Name : config'[n] = config[n] /\ git'[n] = git[n]
      PROVE  OthersStay(p)
  BY <1>6 DEF OthersStay
<1>7. CASE CheckAbsent(p) \/ CloneReturns(p)
  <2>1. OthersStay(p)
    BY <1>6, <1>7 DEF CheckAbsent, CloneReturns, OnlyCommand, vars
  <2> QED
    BY <1>2, <1>5, <1>7, <2>1 DEF CheckAbsent, CloneReturns, Running, CommandStep, AtHand, Preparing
<1>8. CASE PrepareSession(p) \/ InitRepository(p) \/ WriteNewConfig(p)
  <2>1. \A n \in Name : config'[n] = config[n] /\ git'[n] = git[n]
    BY <1>1, <1>8 DEF PrepareSession, InitRepository, WriteNewConfig, vars
  <2>2. OthersStay(p)
    BY <1>6, <2>1
  <2> QED
    BY <1>5, <1>8, <2>2
    DEF PrepareSession, InitRepository, WriteNewConfig, Running, CommandStep, AtHand, Preparing
<1>9. CASE StartClone(p) \/ StartPull(p)
  <2>1. OthersStay(p)
    BY <1>6, <1>9 DEF StartClone, StartPull, SyncStart
  <2> QED BY <1>5, <1>9, <2>1 DEF StartClone, StartPull, Running, CommandStep, AtHand, Preparing
<1>10. CASE PullReturns(p)
  <2>1. OthersStay(p)
    BY <1>6, <1>10 DEF PullReturns, OnlyCommand, vars
  <2> QED BY <1>3, <1>5, <1>10, <2>1 DEF PullReturns, Running, CommandStep, AtHand, Preparing
<1>11. CASE OpenConfig(p)
  <2>1. CASE Failed(p)
    BY <2>1, <1>3
  <2>2. CASE ~Failed(p)
    <3>1. /\ config' = [config EXCEPT ![old.name] = Empty]
          /\ git' = [git EXCEPT ![old.name] = IF @.is = "empty" THEN Blank("damaged") ELSE @]
          /\ command' = [command EXCEPT ![p].step = "save", ![p].fd = old.name]
          /\ old.step = "open"
      BY <2>2, <1>11 DEF OpenConfig, Running
    <3>2. /\ new.step = "save" /\ new.verb = old.verb /\ new.name = old.name
          /\ new.ret = old.ret /\ new.list = old.list
      BY <3>1, <1>1 DEF Command
    <3>3. \A n \in Name \ {old.name} : config'[n] = config[n] /\ git'[n] = git[n]
      BY <3>1, <1>1
    <3>4. OthersStay(p)
      BY <3>1, <3>3 DEF OthersStay, AtHand
    <3> QED BY <3>1, <3>2, <3>4, KeptIsSeenTo DEF AtHand, Preparing
  <2> QED BY <2>1, <2>2
<1>12. CASE ShortWrite(p)
  BY <1>3, <1>12 DEF ShortWrite
<1>13. CASE SaveConfig(p)
  BY <1>13, SavedIsSeenTo
<1>14. CASE LookupRepo(p) \/ CheckDeletable(p) \/ CheckConfig(p) \/ RemoveEntry(p)
  <2>1. old.verb # "update"
    BY <1>1, <1>14, StepsOfVerbs
    DEF LookupRepo, CheckDeletable, CheckConfig, RemoveEntry, Running, CommandOK
  <2>2. CASE LookupRepo(p)
    <3>1. config[old.name] \in Config \cup {None, Empty, Garbled}
      BY <1>1 DEF Settings
    <3>2. old.verb \in {"conf", "sync"}
      BY <1>1, <2>2, StepsOfVerbs DEF LookupRepo, Running, CommandOK, Verb
    <3>3. PICK conf, step : command' = [command EXCEPT ![p].conf = conf, ![p].step = step]
      BY <1>2, <2>2, <3>1, <3>2 DEF LookupRepo
    <3>4. new.verb = old.verb
      BY <3>3, <1>1 DEF Command
    <3> QED BY <3>4, <2>1, <1>4
  <2>3. CASE CheckDeletable(p) \/ CheckConfig(p)
    <3>1. new.verb = old.verb
      BY <1>1, <1>2, <2>3, StepTaken DEF CheckDeletable, CheckConfig, SteadyStep, CommandStep
    <3> QED BY <3>1, <2>1, <1>4
  <2>4. CASE RemoveEntry(p)
    <3>1. PICK x \in old.todo : new = [old EXCEPT !.todo = @ \ {x}]
      BY <2>4 DEF RemoveEntry
    <3>2. new.verb = old.verb
      BY <3>1, <1>1 DEF Command
    <3> QED BY <3>2, <2>1, <1>4
  <2> QED BY <1>14, <2>2, <2>3, <2>4
<1>15. CASE UpdateEnds(p)
  <2>1. PICK conf : command' = [command EXCEPT ![p].step = "exists", ![p].name = Official,
                                               ![p].conf = conf]
    BY <1>2, <1>15 DEF UpdateEnds
  <2>2. /\ new.step = "exists" /\ new.list = old.list /\ new.verb = old.verb /\ new.ret = old.ret
    BY <2>1, <1>1 DEF Command
  <2>3. old.step = "each" /\ old.list = <<>> /\ OnlyCommand
    BY <1>15 DEF UpdateEnds, Running
  <2>4. OthersStay(p)
    BY <2>3, <1>6 DEF OnlyCommand, vars
  <2> QED BY <2>2, <2>3, <2>4, KeptIsSeenTo DEF AtHand
<1>16. ASSUME UNCHANGED repo, GitStep(p) \/ GitFails(p)
       PROVE  UpdateOK(p)'
  <2>1. /\ \A d \in Dir \ {job[p].dir} : git'[d] = git[d]
        /\ \/ old.step = "cloned" /\ job[p].dir = p
           \/ old.step = "pulled" /\ job[p].dir = old.name
    BY <1>16, SyncSteps
  <2>2. command' = command /\ config' = config
    BY <1>16 DEF repo
  <2>3. OthersStay(p)
    BY <2>1, <2>2, <1>1 DEF OthersStay, AtHand
  <2> QED BY <2>1, <2>2, <2>3, KeptIsSeenTo
<1>17. CASE GitWork(p) \/ CallFails(p)
  BY <1>3, <1>12, <1>16, <1>17 DEF GitWork, CallFails
<1>18. CASE RenameSession(p) \/ RemoveDir(p) \/ Locate(p) \/ Kill(p)
  BY <1>2, <1>18 DEF RenameSession, RemoveDir, Locate, Kill
<1> QED
  BY <1>7, <1>8, <1>9, <1>10, <1>11, <1>13, <1>14, <1>15, <1>17, <1>18,
     ListedIsSeenTo, ListIsSeenTo, TurnedIsSeenTo
  DEF SteadyStep, RepoAction, RepoStep

-----------------------------------------------------------------------------
\* The invariant.
LEMMA InitSteady == RepoInit => SteadyInv
<1> SUFFICES ASSUME RepoInit
             PROVE  SteadyInv
  OBVIOUS
<1>1. \A n \in Name : RestOK(n)
  <2> SUFFICES ASSUME NEW n \in Name
               PROVE  RestOK(n)
    OBVIOUS
  <2>1. git[n] = Blank("absent") /\ asked[n] = None
    BY DirAssumption DEF RepoInit
  <2> QED BY <2>1 DEF RestOK, Blank
<1>2. \A p \in Pid : command[p] = None /\ pc[p] = "idle"
  BY DEF RepoInit
<1> QED BY <1>1, <1>2 DEF SteadyInv, Settled, SteadySync, HasBrought, UpdateOK

\* Nothing runs, and nothing but the remotes changes.
LEMMA PushedStaysSteady ==
  ASSUME RepoInv, SteadyInv, Quiet, Elsewhere
  PROVE  SteadyInv'
<1>1. PICK u \in Url, b \in Branch, c \in Commit :
        /\ c > remote[u][b] /\ remote' = [remote EXCEPT ![u][b] = c]
        /\ UNCHANGED <<git, pc, job, result, past>> /\ UNCHANGED repo
  BY DEF Elsewhere, Push
<1>2. /\ git' = git /\ pc' = pc /\ job' = job /\ past' = past /\ asked' = asked /\ command' = command
  BY <1>1 DEF repo
<1>3. \A p \in Pid : command[p] = None /\ pc[p] = "idle"
  BY DEF Quiet, RepoInv, SyncOK
<1>4. remote \in [Url -> [Branch -> Version]] /\ asked \in [Name -> Config \cup {None}]
      /\ git \in [Dir -> Repository]
  BY DEF RepoInv, RepoTypes, TypeInv, TypeOK
<1>5. ASSUME NEW g \in Repository, NEW conf \in Config, Behind(g, conf)
      PROVE  g.tracking[conf.branch] <= remote'[conf.url][conf.branch]
  <2>1. PICK x, v : x = conf.url /\ v = conf.branch
    OBVIOUS
  <2>2. x \in Url /\ v \in Branch
    BY <2>1 DEF Config
  <2>3. g.tracking[v] \in Nat /\ remote[x][v] \in Nat /\ c \in Nat
    BY <1>4, <2>2, CommitAssumption DEF Repository, Version, Commit
  <2>4. remote'[x][v] = IF x = u /\ v = b THEN c ELSE remote[x][v]
    BY <1>1, <1>4, <2>2
  <2>5. g.tracking[v] <= remote[x][v]
    BY <1>5, <2>1 DEF Behind
  <2>6. g.tracking[v] <= remote'[x][v]
    BY <1>1, <2>3, <2>4, <2>5
  <2> QED BY <2>1, <2>6
<1>6. \A n \in Name : RestOK(n)'
  <2> SUFFICES ASSUME NEW n \in Name
               PROVE  RestOK(n)'
    OBVIOUS
  <2>1. RestOK(n) /\ AtRest(n) /\ (Spoilt(n) <=> Spoilt(n)')
    BY <1>2, <1>3 DEF SteadyInv, AtRest, Spoilt
  <2>2. git[n] \in Repository /\ asked[n] \in Config \cup {None}
    BY <1>4, DirAssumption
  <2> QED BY <1>2, <1>5, <2>1, <2>2 DEF RestOK, Behind
<1> QED
  BY <1>2, <1>3, <1>6 DEF SteadyInv, Settled, SteadySync, HasBrought, UpdateOK

\* A command that begins.
LEMMA NewIsSteady ==
  ASSUME RepoInv, SteadyInv, Quiet, NEW p \in Pid, InvokeAny(p),
         \A q \in Pid : Settled(q)'
  PROVE  SteadyInv'
<1>1. /\ CommandsOK(p) /\ OnlyCommand
      /\ command'[p].step \in {"exists", "stat", "lookup", "list"} /\ command'[p].list = <<>>
  BY NewCommand
<1>2. \A q \in Pid \ {p} : command'[q] = None
  BY <1>1 DEF Quiet, CommandsOK, FileUnlinked
<1>3. /\ git' = git /\ pc' = pc /\ job' = job /\ past' = past /\ remote' = remote
      /\ asked' = asked /\ config' = config
  BY <1>1 DEF OnlyCommand, vars
<1>4. \A q \in Pid : pc'[q] = "idle"
  BY <1>3 DEF Quiet, RepoInv, SyncOK
<1>5. Len(<<>>) = 0
  OBVIOUS
<1>6. \A n \in Name : RestOK(n)'
  BY <1>3 DEF SteadyInv, RestOK, AtRest, Spoilt, Behind
<1>7. \A q \in Pid : HasBrought(q)'
  BY <1>1, <1>2, <1>5 DEF HasBrought, Returned, Running, AtHand
<1>8. command'[p].verb = "update" => command'[p].step = "list" /\ command'[p].todo = Name
  <2>1. PICK verb \in Verb, n \in Name, conf \in Config, change \in Change :
          Invoke(p, verb, n, conf, change)
    BY DEF InvokeAny
  <2>2. command \in [Pid -> Command \cup {None}]
    BY DEF RepoInv, RepoTypes
  <2>3. /\ command'[p].verb = verb /\ command'[p].step = FirstStep(verb)
        /\ command'[p].todo = IF verb = "del" THEN {"config", "files"} ELSE Name
    BY <2>1, <2>2 DEF Invoke
  <2> QED BY <2>3 DEF FirstStep
<1>9. \A q \in Pid : UpdateOK(q)'
  BY <1>1, <1>2, <1>8 DEF UpdateOK, Preparing
<1> QED BY <1>4, <1>6, <1>7, <1>9 DEF SteadyInv, SteadySync

LEMMA NextSteady ==
  ASSUME ForwardOnly, RepoInv, SerialInv, SteadyInv, [SteadyNext]_<<repo, vars>>
  PROVE  SteadyInv'
<1>1. CASE UNCHANGED <<repo, vars>>
  <2>1. /\ git' = git /\ pc' = pc /\ job' = job /\ past' = past /\ remote' = remote
        /\ result' = result /\ asked' = asked /\ config' = config /\ command' = command
    BY <1>1 DEF repo, vars
  <2>2. \A n \in Name : RestOK(n)'
    BY <2>1 DEF SteadyInv, RestOK, AtRest, Spoilt, Behind
  <2>3. \A q \in Pid : Settled(q)' /\ SteadySync(q)'
    BY <2>1 DEF SteadyInv, Settled, SteadySync, Undisturbed, Spoilt
  <2>4. \A q \in Pid : HasBrought(q)'
    BY <2>1 DEF SteadyInv, HasBrought, Returned, Running, At, Fresh, Behind, Spoilt
  <2>5. \A q \in Pid : UpdateOK(q)'
    BY <2>1 DEF SteadyInv, UpdateOK, SeenTo, Listed, Fresh, Spoilt
  <2> QED BY <2>2, <2>3, <2>4, <2>5 DEF SteadyInv
<1>2. CASE SteadyNext
  <2>1. [RepoNext]_<<repo, vars>> /\ [SerialNext]_<<repo, vars>> /\ \A q \in Pid : Settled(q)'
    BY <1>2 DEF SteadyNext, SerialNext, Settled
  <2>2. RepoInv' /\ SerialInv'
    BY <2>1, NextRepo, NextSerial
  <2>3. ASSUME NEW p \in Pid, RepoAction(p)
        PROVE  SteadyInv'
    <3>1. /\ command[p] # None
          /\ \A q \in Pid \ {p} : command'[q] = None
      BY <2>3, OneRuns
    <3>2. SteadyStep(p)
      BY <1>2, <2>1, <2>2, <2>3, <3>1 DEF SteadyStep, SteadyNext, Quiet
    <3>3. \A n \in Name : RestOK(n)'
      BY <3>2, RestGoesOn
    <3>4. \A q \in Pid \ {p} : pc'[q] = "idle"
      BY <3>2, WhoSteps
    <3>5. SteadySync(p)'
      BY <3>2, SyncStaysSteady
    <3>6. HasBrought(p)' /\ UpdateOK(p)'
      BY <3>2, BroughtGoesOn, SeenToGoesOn DEF HasBrought, UpdateOK
    <3>7. \A q \in Pid \ {p} : SteadySync(q)' /\ HasBrought(q)' /\ UpdateOK(q)'
      BY <3>1, <3>4 DEF SteadySync, HasBrought, UpdateOK
    <3> QED BY <2>1, <3>3, <3>5, <3>6, <3>7 DEF SteadyInv
  <2>4. ASSUME NEW p \in Pid, InvokeAny(p)
        PROVE  SteadyInv'
    <3>1. command[p] = None /\ command'[p] # None
      BY <2>4, NewCommand
    <3>2. Quiet
      BY <1>2, <3>1 DEF SteadyNext, SerialNext
    <3> QED BY <2>1, <2>4, <3>2, NewIsSteady
  <2>5. CASE Elsewhere
    <3>1. CASE remote' = remote
      BY <3>1, <1>1, <2>5 DEF Elsewhere, Push, vars
    <3>2. CASE remote' # remote
      BY <3>2, <1>2, <2>5, PushedStaysSteady DEF SteadyNext
    <3> QED BY <3>1, <3>2
  <2> QED BY <1>2, <2>3, <2>4, <2>5 DEF SteadyNext, SerialNext, RepoNext, RepoAction, InvokeAny
<1> QED BY <1>1, <1>2

\* What has its settings' commit at its tracking branch has the files of it.
LEMMA FreshHasFiles ==
  ASSUME NEW g, NEW c, Even(g, c.branch), Fresh(g, c)
  PROVE  \A f \in File : g.files[f] = remote[c.url][c.branch]
BY DEF Even, Fresh

\* A repository that `update' has seen to and that nobody works on.
LEMMA SeenToIsUpdated ==
  ASSUME NEW p \in Pid, SteadyStep(p), command[p].verb = "update", command[p].ret = "ok",
         command[p].step \notin AtHand \cup {"list", "cloned"}, command[p].list = <<>>,
         NEW n \in Name, config[n] \in Config, ~config[n].pinned, ~Spoilt(n)
  PROVE  \A f \in File : git[n].files[f] = remote[config[n].url][config[n].branch]
<1>1. SeenTo(command[p], n) /\ RestOK(n)
  BY WhoSteps DEF SteadyStep, SteadyInv, UpdateOK
<1>2. asked[n] # None /\ config[n] = asked[n]
  BY ReadIsAsked
<1>3. Len(<<>>) = 0
  OBVIOUS
<1>4. ~Listed(command[p], n)
  BY <1>3 DEF Listed
<1>5. Fresh(git[n], config[n])
  BY <1>1, <1>4 DEF SeenTo
<1>6. pc[p] = "idle"
  BY DEF SteadyStep, RepoInv, SyncOK, AtHand
<1>7. AtRest(n)
  BY <1>6, WhoSteps DEF AtRest
<1>8. Even(git[n], config[n].branch)
  BY <1>1, <1>2, <1>7 DEF RestOK
<1> QED BY <1>5, <1>8, FreshHasFiles

\* When `update' reports success and none of its syncs has failed, every repository that
\* is not pinned has the files of its branch at the remote, unless an earlier sync of it
\* was cut off: for any number of repositories and remotes, as long as commands run one
\* after the other, nothing is pushed while they run, repositories keep their url and
\* branch, and what is pushed descends from what was there.
THEOREM UpdateBringsAll ==
  ASSUME ForwardOnly
  PROVE  SteadySpec => UpdateUpdates
<1> DEFINE Updated(p) ==
      command[p] # None /\ command[p].verb = "update" /\ command[p].ret = "ok"
        /\ command'[p] = None /\ exit'[p] = "ok" =>
          \A n \in Name :
            config'[n] \in Config /\ ~config'[n].pinned /\ <<n, "failed">> \notin past =>
              \A f \in File : git'[n].files[f] = remote[config'[n].url][config'[n].branch]
<1>1. RepoInv /\ SerialInv /\ SteadyInv /\ [SteadyNext]_<<repo, vars>> =>
        [\A p \in Pid : Updated(p)]_<<repo, vars>>
  <2> SUFFICES ASSUME RepoInv, SerialInv, SteadyInv, SteadyNext, NEW p \in Pid,
                      command[p] # None, command[p].verb = "update", command[p].ret = "ok",
                      command'[p] = None, exit'[p] = "ok",
                      NEW n \in Name, config'[n] \in Config, ~config'[n].pinned, ~Spoilt(n),
                      NEW f \in File
               PROVE  git'[n].files[f] = remote[config'[n].url][config'[n].branch]
    BY DEF Spoilt
  <2>1. RepoAction(p)
    <3>1. PICK q \in Pid : RepoAction(q) \/ InvokeAny(q)
      BY DEF SteadyNext, SerialNext, RepoNext, RepoAction, InvokeAny, Elsewhere, repo
    <3>2. RepoAction(q)
      BY <3>1, NewCommand DEF SteadyNext, SerialNext, Quiet
    <3> QED BY <3>2, OneRuns
  <2>2. SteadyStep(p)
    <3>1. RepoInv' /\ SerialInv' /\ Settled(p)'
      BY NextRepo, NextSerial DEF SteadyNext, SerialNext, Settled
    <3> QED BY <2>1, <3>1 DEF SteadyStep, SteadyNext, Quiet
  <2>3. CASE UpdateEnds(p)
    <3>1. /\ command[p].step = "each" /\ command[p].list = <<>>
          /\ config' = config /\ git' = git
      BY <2>3 DEF UpdateEnds, Running, OnlyCommand, vars
    <3> QED BY <3>1, <2>2, SeenToIsUpdated DEF AtHand
  <2>4. CASE RenameSession(p)
    <3>1. /\ git' = [git EXCEPT ![Official] = git[p], ![p] = Blank("absent")]
          /\ config' = [config EXCEPT ![Official] = config[p], ![p] = None]
          /\ p \in Dir /\ p \notin Name /\ Official \in Name /\ Name \subseteq Dir
          /\ git \in [Dir -> Repository] /\ config \in [Dir -> Settings]
          /\ command[p].step = "rename"
      BY <2>2, <2>4, OfficialIsRenamed, WhoSteps DEF RenameSession, Running
    <3>2. CASE n = Official
      <4>1. git'[n] = git[p] /\ config'[n] = config[p]
        BY <3>1, <3>2
      <4>2. config[p] = command[p].conf
        BY <3>1 DEF RepoInv, SessionOK
      <4>3. Even(git[p], command[p].conf.branch) /\ Fresh(git[p], command[p].conf)
        BY <3>1 DEF SteadyInv, HasBrought
      <4> QED BY <4>1, <4>2, <4>3, FreshHasFiles
    <3>3. CASE n # Official
      <4>1. git'[n] = git[n] /\ config'[n] = config[n]
        BY <3>1, <3>3
      <4>2. command[p].list = <<>>
        BY <3>1 DEF SteadyInv, UpdateOK, Preparing
      <4> QED BY <3>1, <4>1, <4>2, <2>2, SeenToIsUpdated DEF AtHand
    <3> QED BY <3>2, <3>3
  <2> QED BY <2>1, <2>3, <2>4, UpdateEndsSo
<1>2. [SteadyNext]_<<repo, vars>> =>
        [RepoNext]_<<repo, vars>> /\ [SerialNext]_<<repo, vars>>
  BY DEF SteadyNext, SerialNext
<1>3. RepoInv /\ SerialInv /\ SteadyInv /\ [SteadyNext]_<<repo, vars>> =>
        RepoInv' /\ SerialInv' /\ SteadyInv'
  BY <1>2, NextRepo, NextSerial, NextSteady
<1>4. RepoInit => RepoInv /\ SerialInv /\ SteadyInv
  BY InitRepo, InitSerial, InitSteady
<1>5. SteadySpec => [][\A p \in Pid : Updated(p)]_<<repo, vars>>
  BY <1>1, <1>3, <1>4, PTL DEF SteadySpec
<1> QED BY <1>5 DEF UpdateUpdates
=============================================================================
