---------------------------- MODULE FormulaRepo ----------------------------
(***************************************************************************)
(* The formula repositories under repos.d/ and the commands that work on   *)
(* them: formula-repo-init, -add, -del, -conf, -sync, `update' and the     *)
(* search for a formula.  Fetching and checking out is GitSync.            *)
(*                                                                         *)
(* A repository is a directory with a git worktree and a config file.  A   *)
(* new one is prepared in run/<pid>, which other processes leave alone,    *)
(* and renamed to its place.  A config file is read in one go; it is       *)
(* written by an open that truncates it and a write.                       *)
(***************************************************************************)
EXTENDS GitSync, Sequences

CONSTANTS
  Name,         \* names of repositories
  Official,     \* official-core
  OfficialUrl,  \* UPPM_FORMULA_REPO_URL_OFFICIAL_CORE or the built-in url
  Master,       \* the branch official-core is on
  Empty,        \* a config file that has been truncated
  Garbled,      \* a config file that holds no valid text
  Unlinked      \* a file that is open and has been deleted

\* run/<pid> is known by the process it belongs to.
ASSUME DirAssumption ==
  /\ Dir = Name \cup Pid /\ Name \cap Pid = {}
  /\ Official \in Name /\ OfficialUrl \in Url /\ Master \in Branch
  /\ None \notin Dir /\ Unlinked \notin Dir

Option == {"url", "branch", "pinned", "enabled"}
Config == [url : Url, branch : Branch, pinned : BOOLEAN, enabled : BOOLEAN]

ASSUME ConfigAssumption ==
  /\ None \notin Config /\ Empty \notin Config /\ Garbled \notin Config
  /\ None # Empty /\ None # Garbled /\ None # Unlinked /\ Empty # Garbled

VARIABLES
  config,      \* config[d]: <d>/.uppm-formula-repo.yml
  command,     \* command[p]: the command process p runs and its local variables
  exit,        \* exit[p]: how the last command of p ended
  asked,       \* history: the settings that commands which wrote a config file asked for
  torn         \* history: the repositories some formula-repo-del has begun to delete

repo == <<config, command, exit, asked, torn>>

\* conf: the settings at hand; change: the options of formula-repo-conf; todo: what
\* is still to be listed or deleted; list: the repositories found; official: has
\* official-core been one of them; ret: what the syncs have returned; fd: the config
\* file that is open for writing.
Entry == [name : Name, conf : Config]

Verb == {"init", "add", "del", "conf", "sync", "update", "search"}

CommandStep ==
  {"exists", "session", "init", "clone", "cloned", "write", "rename",
   "stat", "config", "remove", "lookup", "pull", "pulled", "open", "save",
   "list", "each", "search"}

\* The options of a command line, each with a value of its own type.
Change == UNION {[S -> Url \cup Branch \cup BOOLEAN] : S \in SUBSET Option}

Command == [verb : Verb, step : CommandStep, name : Name, conf : Config, change : Change,
            todo : SUBSET (Name \cup {"config", "files"}), list : Seq(Entry),
            official : BOOLEAN, ret : {"ok", "error"}, fd : Name \cup {None, Unlinked}]

ASSUME CommandMarkAssumption == None \notin Command

RepoTypeOK ==
  /\ TypeOK
  /\ config \in [Dir -> Config \cup {None, Empty, Garbled}]
  /\ command \in [Pid -> Command \cup {None}]
  /\ \A p \in Pid : command[p] # None /\ command[p].step = "save" => command[p].fd # None
  /\ exit \in [Pid -> {"none", "ok", "error", "segv", "killed"}]
  /\ asked \in [Name -> Config \cup {None}]
  /\ torn \subseteq Name
  /\ \A d \in Dir : git[d].is \in {"absent", "empty"} => config[d] = None

(***************************************************************************)
(* How a command goes on.                                                  *)
(***************************************************************************)
Running(p, step) == command[p] # None /\ command[p].step = step

Target(p) == git[command[p].name]     \* the repository the command works on

Step(p, step) == command' = [command EXCEPT ![p].step = step] /\ UNCHANGED exit

Exit(p, r) ==
  /\ command' = [command EXCEPT ![p] = None]
  /\ exit'    = [exit EXCEPT ![p] = r]

OnlyCommand == UNCHANGED <<vars, config, asked, torn>>

\* A failing sync ends the loop of `update', any other error ends the command.
Failed(p) ==
  IF command[p].verb = "update" /\ command[p].step \in {"pull", "pulled", "open", "save"}
    THEN /\ command' = [command EXCEPT ![p].step = "each", ![p].list = <<>>, ![p].fd = None,
                                     ![p].ret = "error"]
         /\ UNCHANGED exit
    ELSE Exit(p, "error")

\* The first step of a verb.
FirstStep(verb) ==
  CASE verb \in {"init", "add"}      -> "exists"
    [] verb = "del"                  -> "stat"
    [] verb \in {"conf", "sync"}     -> "lookup"
    [] verb \in {"update", "search"} -> "list"

Invoke(p, verb, name, conf, change) ==
  /\ command[p] = None
  /\ command' = [command EXCEPT ![p] =
       [verb |-> verb, step |-> FirstStep(verb), name |-> name, conf |-> conf,
        change |-> change, todo |-> IF verb = "del" THEN {"config", "files"} ELSE Name,
        list |-> <<>>, official |-> FALSE, ret |-> "ok", fd |-> None]]
  /\ UNCHANGED exit /\ OnlyCommand

(***************************************************************************)
(* formula-repo-init, formula-repo-add.                                    *)
(***************************************************************************)
CheckAbsent(p) ==
  /\ Running(p, "exists")
  /\ IF Target(p).is = "absent" THEN Step(p, "session") ELSE Exit(p, "error")
  /\ OnlyCommand

\* Mutant: the directory is taken as it is found.
ReuseSession(p) ==
  /\ Running(p, "session")
  /\ git' = [git EXCEPT ![p] = Blank("empty")]
  /\ Step(p, IF command[p].verb = "init" THEN "init" ELSE "clone")
  /\ UNCHANGED <<remote, pc, job, result, past, config, asked, torn>>

\* run/<pid>: what an earlier process of that id has left there is deleted.
PrepareSession(p) ==
  /\ Running(p, "session")
  /\ git'    = [git EXCEPT ![p] = Blank("empty")]
  /\ config' = [config EXCEPT ![p] = None]
  /\ Step(p, IF command[p].verb = "init" THEN "init" ELSE "clone")
  /\ UNCHANGED <<remote, pc, job, result, past, asked, torn>>

\* git_repository_init, git_remote_create
InitRepository(p) ==
  /\ Running(p, "init")
  /\ git' = [git EXCEPT ![p] = Blank("repo")]
  /\ Step(p, "write")
  /\ UNCHANGED <<remote, pc, job, result, past, config, asked, torn>>

StartClone(p) ==
  /\ Running(p, "clone")
  /\ SyncStart(p, p, command[p].conf.url, command[p].conf.branch)
  /\ Step(p, "cloned")
  /\ UNCHANGED <<config, asked, torn>>

\* Mutant: what uppm_git_sync returns is not looked at.
CloneUnchecked(p) ==
  /\ Running(p, "cloned") /\ At(p, "idle")
  /\ Step(p, "write")
  /\ OnlyCommand

\* Mutant: the new repository gets no config file.
CloneForgetsConfig(p) ==
  /\ Running(p, "cloned") /\ At(p, "idle")
  /\ IF result[p] = "ok" THEN Step(p, "rename") ELSE Exit(p, "error")
  /\ OnlyCommand

CloneReturns(p) ==
  /\ Running(p, "cloned") /\ At(p, "idle")
  /\ IF result[p] = "ok" THEN Step(p, "write") ELSE Exit(p, "error")
  /\ OnlyCommand

WriteNewConfig(p) ==
  /\ Running(p, "write")
  /\ config' = [config EXCEPT ![p] = command[p].conf]
  /\ Step(p, "rename")
  /\ UNCHANGED <<vars, asked, torn>>

\* rename: takes the place of nothing or of an empty directory, fails otherwise.
RenameSession(p) ==
  LET n == command[p].name
  IN  /\ Running(p, "rename")
      /\ IF Target(p).is \in {"absent", "empty"}
           THEN /\ git'    = [git EXCEPT ![n] = git[p], ![p] = Blank("absent")]
                /\ config' = [config EXCEPT ![n] = config[p], ![p] = None]
                /\ asked'  = [asked EXCEPT ![n] = command[p].conf]
                /\ torn'   = torn \ {n}
                /\ Exit(p, "ok")
                /\ UNCHANGED <<remote, pc, job, result, past>>
           ELSE Exit(p, "error") /\ OnlyCommand

(***************************************************************************)
(* formula-repo-del.                                                       *)
(***************************************************************************)

\* Mutant: official-core may be deleted.
DeleteAny(p) ==
  /\ Running(p, "stat")
  /\ IF Target(p).is = "absent" THEN Exit(p, "error") ELSE Step(p, "config")
  /\ OnlyCommand

CheckDeletable(p) ==
  /\ Running(p, "stat")
  /\ IF command[p].name = Official \/ Target(p).is = "absent"
       THEN Exit(p, "error")
       ELSE Step(p, "config")
  /\ OnlyCommand

\* A repository without a config file is called broken and is not deleted.
CheckConfig(p) ==
  /\ Running(p, "config")
  /\ IF config[command[p].name] = None THEN Exit(p, "error") ELSE Step(p, "remove")
  /\ OnlyCommand

\* What is left of a directory when entry x has been deleted and todo are to come.
Emptied(r, x, todo, text) ==
  IF r.is = "absent" \/ (x = "config" /\ (todo # {} \/ r.is # "damaged")) THEN r
  ELSE IF todo = {} /\ text = None THEN Blank("empty")
  ELSE Blank("damaged")

\* The entries are deleted in the order of readdir.  A config file that is open goes
\* on to exist for the process that has opened it.
RemoveEntry(p) ==
  LET n == command[p].name
  IN  /\ Running(p, "remove")
      /\ \E x \in command[p].todo :
           /\ config' = IF x = "config" THEN [config EXCEPT ![n] = None] ELSE config
           /\ git' = [git EXCEPT ![n] = Emptied(@, x, command[p].todo \ {x}, config'[n])]
           /\ command' = [q \in Pid |->
                CASE q = p -> [command[p] EXCEPT !.todo = @ \ {x}]
                  [] q # p /\ x = "config" /\ command[q] # None /\ command[q].fd = n ->
                       [command[q] EXCEPT !.fd = Unlinked]
                  [] OTHER -> command[q]]
      /\ torn' = torn \cup {n}
      /\ UNCHANGED <<remote, pc, job, result, past, exit, asked>>

\* rmdir fails when something has been put into the directory.
RemoveDir(p) ==
  LET n == command[p].name
  IN  /\ Running(p, "remove") /\ command[p].todo = {}
      /\ IF Target(p).is = "empty"
           THEN /\ git'   = [git EXCEPT ![n] = Blank("absent")]
                /\ asked' = [asked EXCEPT ![n] = None]
                /\ Exit(p, "ok")
                /\ UNCHANGED <<remote, pc, job, result, past, config, torn>>
           ELSE Exit(p, "error") /\ OnlyCommand

(***************************************************************************)
(* formula-repo-conf, formula-repo-sync.                                   *)
(***************************************************************************)
Merge(conf, change) ==
  [o \in Option |-> IF o \in DOMAIN change THEN change[o] ELSE conf[o]]

\* Mutant: disabled repositories are left as they are, not pinned ones.
SkippedDisabled(conf) == ~conf.enabled

\* uppm_formula_repo_sync: a pinned repository is left as it is.
Skipped(conf) == conf.pinned

\* An empty file makes the parser follow a null pointer.
LookupRepo(p) ==
  LET n == command[p].name
      c == config[n]
  IN  /\ Running(p, "lookup")
      /\ CASE Target(p).is = "absent" \/ c \in {None, Garbled} -> Exit(p, "error")
           [] c = Empty -> Exit(p, "segv")
           [] c \in Config /\ command[p].verb = "conf" ->
                /\ command' = [command EXCEPT ![p].conf = Merge(c, command[p].change),
                                              ![p].step = "open"]
                /\ UNCHANGED exit
           [] c \in Config /\ command[p].verb = "sync" /\ Skipped(c) -> Exit(p, "ok")
           [] c \in Config /\ command[p].verb = "sync" /\ ~Skipped(c) ->
                /\ command' = [command EXCEPT ![p].conf = c, ![p].step = "pull"]
                /\ UNCHANGED exit
      /\ OnlyCommand

StartPull(p) ==
  /\ Running(p, "pull")
  /\ SyncStart(p, command[p].name, command[p].conf.url, command[p].conf.branch)
  /\ Step(p, "pulled")
  /\ UNCHANGED <<config, asked, torn>>

PullReturns(p) ==
  /\ Running(p, "pulled") /\ At(p, "idle")
  /\ IF result[p] = "ok" THEN Step(p, "open") ELSE Failed(p)
  /\ OnlyCommand

\* uppm_formula_repo_config_write: open with O_TRUNC ...
OpenConfig(p) ==
  LET n == command[p].name
  IN  /\ Running(p, "open")
      /\ IF Target(p).is = "absent"
           THEN Failed(p) /\ OnlyCommand
           ELSE /\ config'  = [config EXCEPT ![n] = Empty]
                /\ git' = [git EXCEPT ![n] = IF @.is = "empty" THEN Blank("damaged") ELSE @]
                /\ command' = [command EXCEPT ![p].step = "save", ![p].fd = n]
                /\ UNCHANGED <<remote, pc, job, result, past, exit, asked, torn>>

\* Mutant: the settings at hand are written with the default for `pinned'.
WrittenUnpinned(old, c) == {[c EXCEPT !.pinned = FALSE]}

\* What comes of writing text c over text old: a tail of old is left when old is longer.
\* It spoils c, or says nothing that counts, or repeats the last settings of old.
Overwritten(old, c) ==
  CASE old \in {None, Empty, c} -> {c}
    [] old = Garbled -> {c, Garbled}
    [] OTHER -> {c, Garbled} \cup
         IF <<old.url, old.branch>> = <<c.url, c.branch>> THEN {}
         ELSE {[c EXCEPT !.enabled = old.enabled],
               [c EXCEPT !.enabled = old.enabled, !.pinned = old.pinned]}

Saved(p) ==
  IF command[p].verb = "update"
    THEN /\ command' = [command EXCEPT ![p].step = "each", ![p].fd = None]
         /\ UNCHANGED exit
    ELSE Exit(p, "ok")

Put(p, c) ==
  LET n == command[p].name
  IN  /\ config' = [config EXCEPT ![n] = c]
      /\ asked'  = IF command[p].verb = "conf" /\ asked[n] # None /\ c # Garbled
                     THEN [asked EXCEPT ![n] = Merge(@, command[p].change)] ELSE asked

\* ... and write.
SaveConfig(p) ==
  /\ Running(p, "save")
  /\ \/ (command[p].fd = Unlinked /\ UNCHANGED <<config, asked>>)
     \/ /\ command[p].fd # Unlinked
        /\ \E c \in Overwritten(config[command[p].name], command[p].conf) : Put(p, c)
  /\ Saved(p)
  /\ UNCHANGED <<vars, torn>>

\* There is room for a part of the text only, which may do.
ShortWrite(p) ==
  /\ Running(p, "save") /\ command[p].fd # Unlinked
  /\ \E c \in {command[p].conf, Garbled} : Put(p, c)
  /\ Failed(p)
  /\ UNCHANGED <<vars, torn>>

(***************************************************************************)
(* uppm_formula_repo_list, which `update' and the search begin with, and   *)
(* what they do with the list.                                             *)
(***************************************************************************)

\* Directories come in the order of readdir.  After an invalid config file the list
\* is freed twice, if there is one.  If the last name has none the length of its path is
\* returned as an error, which CallFails stands for.
ListNext(p) ==
  /\ Running(p, "list")
  /\ \E n \in command[p].todo :
       LET c    == config[n]
           rest == [command EXCEPT ![p].todo = @ \ {n}]
       IN  \/ (c = None /\ command' = rest /\ UNCHANGED exit)
           \/ (c = Empty /\ Exit(p, "segv"))
           \/ (c = Garbled /\ Exit(p, "error"))
           \/ (c = Garbled /\ command[p].list # <<>> /\ Exit(p, "segv"))
           \/ /\ c \in Config
              /\ command' = [rest EXCEPT ![p].list = Append(@, [name |-> n, conf |-> c])]
              /\ UNCHANGED exit
  /\ OnlyCommand

ListEnds(p) ==
  /\ Running(p, "list") /\ command[p].todo = {}
  /\ Step(p, IF command[p].verb = "update" THEN "each" ELSE "search")
  /\ OnlyCommand

\* Mutant: one repository is synced, the others are forgotten.
UpdateFirst(p) ==
  LET e    == Head(command[p].list)
      next == [command[p] EXCEPT !.list = <<>>, !.official = @ \/ e.name = Official]
  IN  /\ Running(p, "each") /\ command[p].list # <<>>
      /\ command' = [command EXCEPT ![p] =
           IF Skipped(e.conf) THEN next
           ELSE [next EXCEPT !.name = e.name, !.conf = e.conf, !.step = "pull"]]
      /\ UNCHANGED exit /\ OnlyCommand

\* The body of update's loop: the next repository of the list.
UpdateNext(p) ==
  LET e    == Head(command[p].list)
      next == [command[p] EXCEPT !.list = Tail(@), !.official = @ \/ e.name = Official]
  IN  /\ Running(p, "each") /\ command[p].list # <<>>
      /\ command' = [command EXCEPT ![p] =
           IF Skipped(e.conf) THEN next
           ELSE [next EXCEPT !.name = e.name, !.conf = e.conf, !.step = "pull"]]
      /\ UNCHANGED exit /\ OnlyCommand

\* Whatever the syncs have returned, it is only asked whether official-core was seen.
UpdateEnds(p) ==
  /\ Running(p, "each") /\ command[p].list = <<>>
  /\ IF command[p].official
       THEN Exit(p, "ok")
       ELSE /\ command' = [command EXCEPT ![p].step = "exists", ![p].name = Official,
                 ![p].conf = [url |-> OfficialUrl, branch |-> Master,
                              pinned |-> FALSE, enabled |-> TRUE]]
            /\ UNCHANGED exit
  /\ OnlyCommand

\* uppm_formula_locate: the repositories of the list that have the formula.
Hits(p) ==
  SelectSeq(command[p].list, LAMBDA e : \E f \in File : git[e.name].files[f] # 0)

Locate(p) ==
  /\ Running(p, "search")
  /\ Exit(p, IF Hits(p) = <<>> THEN "error" ELSE "ok")
  /\ OnlyCommand

-----------------------------------------------------------------------------
RepoStep(p) ==
  \/ CheckAbsent(p) \/ PrepareSession(p) \/ InitRepository(p) \/ StartClone(p)
  \/ CloneReturns(p) \/ WriteNewConfig(p) \/ RenameSession(p)
  \/ CheckDeletable(p) \/ CheckConfig(p) \/ RemoveEntry(p) \/ RemoveDir(p)
  \/ LookupRepo(p) \/ StartPull(p) \/ PullReturns(p) \/ OpenConfig(p) \/ SaveConfig(p)
  \/ ListNext(p) \/ ListEnds(p) \/ UpdateNext(p) \/ UpdateEnds(p) \/ Locate(p)

GitWork(p) == GitStep(p) /\ UNCHANGED repo

\* A call of the command itself fails, or one of uppm_git_sync.
CallFails(p) ==
  \/ (command[p] # None /\ At(p, "idle") /\ Failed(p) /\ OnlyCommand)
  \/ (GitFails(p) /\ UNCHANGED repo)
  \/ ShortWrite(p)

\* The process is killed; its id may be used again.
Kill(p) ==
  /\ command[p] # None
  /\ Exit(p, "killed")
  /\ IF At(p, "idle") THEN UNCHANGED vars ELSE GitFails(p)
  /\ UNCHANGED <<config, asked, torn>>

Elsewhere == (\E u \in Url, b \in Branch, c \in Commit : Push(u, b, c)) /\ UNCHANGED repo

RepoInit ==
  /\ remote \in [Url -> [Branch -> Version]]
  /\ git     = [d \in Dir |-> Blank("absent")]
  /\ pc      = [p \in Pid |-> "idle"]
  /\ job     = [p \in Pid |-> None]
  /\ result  = [p \in Pid |-> "none"]
  /\ past    = {}
  /\ config  = [d \in Dir |-> None]
  /\ command = [p \in Pid |-> None]
  /\ exit    = [p \in Pid |-> "none"]
  /\ asked   = [n \in Name |-> None]
  /\ torn    = {}

RepoNext ==
  \/ \E p \in Pid :
       \/ \E verb \in Verb, n \in Name, conf \in Config :
            \E change \in {ch \in Change : Merge(conf, ch) \in Config} :
              Invoke(p, verb, n, conf, change)
       \/ RepoStep(p) \/ GitWork(p) \/ CallFails(p) \/ Kill(p)
  \/ Elsewhere

RepoSpec == RepoInit /\ [][RepoNext]_<<repo, vars>>

\* The same for someone who types one command after the other.
Quiet == \A p \in Pid : command[p] = None

SerialNext ==
  RepoNext /\ \A p \in Pid : command[p] = None /\ command'[p] # None => Quiet

SerialSpec == RepoInit /\ [][SerialNext]_<<repo, vars>>

\* And whose repositories keep their url and branch, with nothing pushed while a command
\* runs.
SteadyNext ==
  /\ SerialNext
  /\ remote' # remote => Quiet
  /\ \A p \in Pid :
       command'[p] # None => DOMAIN command'[p].change \subseteq {"pinned", "enabled"}

SteadySpec == RepoInit /\ [][SteadyNext]_<<repo, vars>>

-----------------------------------------------------------------------------
\* A repository appears under its name complete: with a config file, and if it was
\* fetched, on its branch and with the files of that branch.  Whoever is killed or
\* fails before leaves nothing there.
AppearsWhole ==
  [][\A n \in Name \ torn' :
       git[n].is \in {"absent", "empty"} /\ git'[n].is \notin {"absent", "empty"} =>
         /\ git'[n].is = "repo" /\ config'[n] \in Config
         /\ \A p \in Pid :
              command[p] # None /\ command'[p] = None /\ command[p].verb # "init" =>
                /\ git'[n].head = config'[n].branch
                /\ \A f \in File :
                     git'[n].files[f] = git'[n].heads[config'[n].branch]]_<<repo, vars>>

\* A repository in its place has a config file and its worktree until someone begins
\* to delete it: no other command, killed or not, takes one of them away.
StaysWhole ==
  \A n \in Name \ torn :
    git[n].is = "absent" \/ (git[n].is = "repo" /\ config[n] # None)

\* When `update' reports success, official-core is there.  (src/README.md:661)
UpdateBringsOfficial ==
  [][\A p \in Pid :
       command[p] # None /\ command[p].verb = "update"
         /\ command'[p] = None /\ exit'[p] = "ok" =>
           git'[Official].is = "repo" /\ config'[Official] # None]_<<repo, vars>>

\* As long as commands run one after the other, the settings of a repository are what
\* the commands that wrote its config file have asked for, or the file is not valid.
\* A sync that writes the file back changes none of them.
ConfigIsAsAsked ==
  \A n \in Name :
    config[n] \in Config /\ asked[n] # None => config[n] = asked[n]

\* A pinned repository is not updated, neither its files nor its branches, as long as
\* commands run one after the other.  (src/README.md:644)
PinnedStays ==
  [][\A n \in Name :
       asked[n] # None /\ asked[n].pinned /\ config[n] \in Config /\ git'[n].is = "repo" =>
         git'[n] = git[n] \/ git[n].is # "repo"]_<<repo, vars>>

\* When `update' reports success, and none of its syncs has failed, every repository
\* that is not pinned has the files of its branch at the remote, unless an earlier sync
\* of it was cut off.  Commands run one after the other, and nothing is pushed
\* meanwhile.  (src/README.md:247)
UpdateUpdates ==
  [][\A p \in Pid :
       command[p] # None /\ command[p].verb = "update" /\ command[p].ret = "ok"
         /\ command'[p] = None /\ exit'[p] = "ok" =>
           \A n \in Name :
             config'[n] \in Config /\ ~config'[n].pinned /\ <<n, "failed">> \notin past =>
               \A f \in File :
                 git'[n].files[f] = remote[config'[n].url][config'[n].branch]]_<<repo, vars>>
=============================================================================
