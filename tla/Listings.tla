------------------------------ MODULE Listings ------------------------------
(***************************************************************************)
(* The commands that only look: `ls-installed' (with -v too),              *)
(* `ls-outdated', `ls-available', `search', and `info-installed' with its  *)
(* keys.  None of them locks anything: they go through a directory entry   *)
(* by entry, and by path from one system call to the next, while other     *)
(* processes install, upgrade and uninstall packages and a sync changes    *)
(* the formulas.                                                           *)
(*                                                                         *)
(* What they look at is the abstract index of PackageIndex, which          *)
(* PackageStore implements: a package is not there, or one finished build  *)
(* of it is, with its receipt and its manifest.  An upgrade is a           *)
(* Disappear and an Appear.                                                *)
(*                                                                         *)
(* A readdir returns every name that stays in the directory once; a name   *)
(* that comes or goes meanwhile is returned or not.                        *)
(***************************************************************************)
EXTENDS Naturals, Sequences, FiniteSets

CONSTANTS
  Package,      \* package names
  Repo,         \* formula repositories: every name that is or may come into repos.d
  MaxRev,       \* number of revisions of the formulas (bound)
  MaxChanges,   \* changes of the index and of the formulas by others (bound)
  Unreadable,   \* <<package, revision>>: receipts uppm_receipt_parse refuses, be it
                \* that a full disk cut them off
  Malformed,    \* <<package, revision>>: formulas uppm_formula_lookup refuses
  Matching,     \* the names the pattern of `search' matches
  None          \* not installed; no formula; no directory

Revision == 1 .. MaxRev

\* The commands by what they read.
Scans == {"ls_installed", "ls_installed_v", "ls_outdated"}
Names == {"ls_available", "search"}
Infos == {"yaml", "field", "prefix", "files"}

ASSUME ListingAssumption ==
  /\ MaxRev \in Nat \ {0} /\ MaxChanges \in Nat
  /\ Unreadable \subseteq Package \X Revision /\ Matching \subseteq Package
  /\ Malformed \subseteq Package \X Revision
  /\ None \notin Revision /\ None \notin Package /\ None \notin Repo
  /\ \A K \in SUBSET Package : K # None
  /\ IsFiniteSet(Repo)

VARIABLES
  installed,  \* installed[k]: the revision the receipt under installed/<k> holds
  current,    \* current[k]: the revision of k's formula
  shelf,      \* shelf[q]: the names in the formula directory of repository q
  configured, \* the repositories that have their config file
  changes,    \* how often the others have changed something
  command,    \* the command
  pc,         \* its next step
  ahead,      \* the names readdir is still to return
  queue,      \* the repositories the walk over repos.d has still to look at
  listed,     \* those it has listed and that have still to be visited
  repo,       \* the repository it is at
  at,         \* the package it is at
  got,        \* the revision in the receipt it has read
  lines,      \* what it has printed
  result,     \* how it ended
  had,        \* history: had[k], what was under installed/<k> during the command
  told,       \* history: told[k], what the formulas of k told during the command
  stood,      \* history: the formulas that were there all the time
  gone,       \* history: the formulas, and formula directories <<q, None>>, that went away
  unlisted,   \* history: the repositories whose config file went away
  bare        \* history: those that had none at some time of the command

index   == <<installed, current, shelf, configured, changes>>
scan    == <<ahead, queue, listed, repo>>
history == <<had, told, stood, gone, unlisted, bare>>
vars    == <<installed, current, shelf, configured, changes, command, pc, ahead, queue, listed,
             repo, at, got, lines, result, had, told, stood, gone, unlisted, bare>>

Offered(k) == \E q \in Repo : shelf[q] # None /\ k \in shelf[q]

Tells(k) == IF Offered(k) THEN current[k] ELSE None

OnShelf == {x \in Repo \X Package : shelf[x[1]] # None /\ x[2] \in shelf[x[1]]}

OnOffer == {x \in OnShelf : x[1] \in configured}

Index == INSTANCE PackageIndex WITH Offer <- [k \in Package |-> Revision]

Goto(step) == pc' = step /\ UNCHANGED <<lines, result>>

Return(r) == pc' = "done" /\ result' = r /\ UNCHANGED lines

\* A line about the package, and on: to the next name, or to the end.
Show(line) ==
  /\ lines' = Append(lines, line)
  /\ IF command \in Infos
       THEN pc' = "done" /\ result' = "ok"
       ELSE pc' = (IF command \in Names THEN "names" ELSE "entries") /\ UNCHANGED result

Line(k, old, new) == [pkg |-> k, old |-> old, new |-> new]

(***************************************************************************)
(* Going through installed/.                                               *)
(***************************************************************************)
Begin(c, k) ==
  /\ pc = "idle"
  /\ command' = c
  /\ pc' = CASE c \in Scans -> "open" [] c \in Names -> "repos" [] c \in Infos -> "stat_dir"
  /\ at' = IF c \in Infos THEN k ELSE None
  /\ had'   = [j \in Package |-> {installed[j]}]
  /\ told'  = [j \in Package |-> {Tells(j)}]
  /\ stood' = OnOffer
  /\ bare'  = Repo \ configured
  /\ UNCHANGED <<index, scan, got, lines, result, gone, unlisted>>

OpenInstalled ==
  /\ pc = "open"
  /\ ahead' = {k \in Package : installed[k] # None}
  /\ Goto("entries")
  /\ UNCHANGED <<index, command, queue, listed, repo, at, got, history>>

ReadEntry ==
  /\ pc = "entries"
  /\ \/ /\ ahead = {}
        /\ Return("ok")
        /\ UNCHANGED <<ahead, at>>
     \/ \E k \in ahead :
           /\ at' = k
           /\ ahead' = ahead \ {k}
           /\ Goto("lstat")
  /\ UNCHANGED <<index, command, queue, listed, repo, got, history>>

\* Mutant: a name that is gone by now ends the listing.
CheckEntryBreak ==
  /\ pc = "lstat"
  /\ IF installed[at] # None THEN Goto("receipt") ELSE Return("ok")
  /\ UNCHANGED <<index, command, scan, at, got, history>>

CheckEntry ==
  /\ pc = "lstat"
  /\ Goto(IF installed[at] # None THEN "receipt" ELSE "entries")
  /\ UNCHANGED <<index, command, scan, at, got, history>>

CheckReceipt ==
  /\ pc = "receipt"
  /\ \/ installed[at] = None /\ Goto("entries")
     \/ installed[at] # None /\ command = "ls_installed" /\ Show(Line(at, installed[at], None))
     \/ installed[at] # None /\ command # "ls_installed" /\ Goto("stat_dir")
  /\ UNCHANGED <<index, command, scan, at, got, history>>

(***************************************************************************)
(* One package: uppm_installed_info and uppm_receipt_parse.                *)
(***************************************************************************)
StatDir ==
  /\ pc = "stat_dir"
  /\ IF installed[at] # None THEN Goto("stat_receipt") ELSE Return("not_installed")
  /\ UNCHANGED <<index, command, scan, at, got, history>>

StatReceipt ==
  /\ pc = "stat_receipt"
  /\ \/ installed[at] = None /\ Return("broken")
     \/ /\ installed[at] # None
        /\ CASE command = "prefix" -> Show(Line(at, installed[at], None))
             [] command = "files"  -> Goto("stat_manifest")
             [] OTHER              -> Goto("open_receipt")
  /\ UNCHANGED <<index, command, scan, at, got, history>>

\* Who copies the receipt to the terminal does not parse it.
AsText == {"ls_installed_v", "yaml"}

\* From the open on the file stays what it is, whatever happens to its name.
ReadReceipt ==
  /\ pc = "open_receipt"
  /\ \/ installed[at] = None /\ Return("error") /\ UNCHANGED got
     \/ /\ installed[at] # None
        /\ got' = installed[at]
        /\ \/ command \in AsText /\ Show(Line(at, got', None))
           \/ command \notin AsText /\ <<at, got'>> \in Unreadable /\ Return("error")
           \/ /\ command \notin AsText /\ <<at, got'>> \notin Unreadable
              /\ IF command = "field" THEN Show(Line(at, got', None)) ELSE Goto("repos")
  /\ UNCHANGED <<index, command, scan, at, history>>

StatManifest ==
  /\ pc = "stat_manifest"
  /\ IF installed[at] # None THEN Goto("open_manifest") ELSE Return("broken")
  /\ UNCHANGED <<index, command, scan, at, got, history>>

ReadManifest ==
  /\ pc = "open_manifest"
  /\ IF installed[at] # None THEN Show(Line(at, installed[at], None)) ELSE Return("error")
  /\ UNCHANGED <<index, command, scan, at, got, history>>

(***************************************************************************)
(* uppm_formula_repo_list, for every command that reads formulas: a walk   *)
(* over repos.d.  The order of the walk is any, so a directory that comes  *)
(* too late for it is one that the walk looked at before it came.          *)
(***************************************************************************)
ListRepos ==
  /\ pc = "repos"
  /\ queue' = Repo /\ listed' = {}
  /\ Goto("repo_names")
  /\ UNCHANGED <<index, command, ahead, repo, at, got, history>>

\* `ls-available' and `search' return the error of a lookup, `ls-outdated' goes on
\* to the next package.
LookupFails == IF command \in Names THEN Return("error") ELSE Goto("entries")

\* A name without a config file, which need not be a directory, is passed over.  If it
\* is the last, the length of its path is left in `ret' and returned as an error.
ReadRepo ==
  /\ pc = "repo_names"
  /\ \/ /\ queue = {}
        /\ Goto(IF command \in Names THEN "shelves" ELSE "locate")
        /\ UNCHANGED <<queue, repo>>
     \/ \E q \in queue :
           /\ queue' = queue \ {q}
           /\ repo' = q
           /\ \/ Goto(IF q \in configured THEN "config" ELSE "repo_names")
              \/ queue = {q} /\ q \notin configured /\ LookupFails
  /\ UNCHANGED <<index, command, ahead, listed, at, got, history>>

\* A config file that is gone by now ends the walk, and the list it has so far is
\* freed twice: what follows is undefined.
ParseConfig ==
  /\ pc = "config"
  /\ \/ repo \in configured /\ listed' = listed \cup {repo} /\ Goto("repo_names")
     \/ repo \notin configured /\ LookupFails /\ UNCHANGED listed
     \/ repo \notin configured /\ listed # {} /\ Return("crash") /\ UNCHANGED listed
  /\ UNCHANGED <<index, command, ahead, queue, repo, at, got, history>>

(***************************************************************************)
(* uppm_formula_lookup, for `ls-outdated'.                                 *)
(***************************************************************************)
\* Mutant: the listing ends at a package that has no formula any more.
LocateStrict ==
  /\ pc = "locate"
  /\ \/ listed = {} /\ Return("not_available") /\ UNCHANGED <<listed, repo>>
     \/ \E q \in listed :
           /\ listed' = listed \ {q}
           /\ repo' = q
           /\ Goto(IF <<q, at>> \in OnShelf THEN "formula" ELSE "locate")
  /\ UNCHANGED <<index, command, ahead, queue, at, got, history>>

\* The first repository that has the formula is taken.
Locate ==
  /\ pc = "locate"
  /\ \/ listed = {} /\ LookupFails /\ UNCHANGED <<listed, repo>>
     \/ \E q \in listed :
           /\ listed' = listed \ {q}
           /\ repo' = q
           /\ Goto(IF <<q, at>> \in OnShelf THEN "formula" ELSE "locate")
  /\ UNCHANGED <<index, command, ahead, queue, at, got, history>>

\* Mutant: every package that has a formula is told to be outdated.
ReadFormulaAlways ==
  /\ pc = "formula"
  /\ \/ <<repo, at>> \notin OnShelf /\ LookupFails
     \/ <<repo, at>> \in OnShelf /\ Show(Line(at, got, current[at]))
  /\ UNCHANGED <<index, command, scan, at, got, history>>

\* A formula that is gone by now, or that cannot be parsed, is no reason to look into
\* the next repository.  The versions are compared as text: any difference makes a
\* line.
ReadFormula ==
  /\ pc = "formula"
  /\ LET readable == <<repo, at>> \in OnShelf /\ <<at, current[at]>> \notin Malformed
     IN  \/ ~readable /\ LookupFails
         \/ readable /\ current[at] = got /\ Goto("entries")
         \/ readable /\ current[at] # got /\ Show(Line(at, got, current[at]))
  /\ UNCHANGED <<index, command, scan, at, got, history>>

(***************************************************************************)
(* Going through the formula directories, for `ls-available' and `search'. *)
(***************************************************************************)
\* A repository that has no formula directory by now is passed over.
VisitShelf ==
  /\ pc = "shelves"
  /\ \/ listed = {} /\ Return("ok") /\ UNCHANGED <<listed, repo>>
     \/ \E q \in listed :
           /\ listed' = listed \ {q}
           /\ repo' = q
           /\ Goto(IF shelf[q] # None THEN "shelf" ELSE "shelves")
  /\ UNCHANGED <<index, command, ahead, queue, at, got, history>>

OpenShelf ==
  /\ pc = "shelf"
  /\ IF shelf[repo] # None
       THEN Goto("names") /\ ahead' = shelf[repo]
       ELSE Return("error") /\ UNCHANGED ahead
  /\ UNCHANGED <<index, command, queue, listed, repo, at, got, history>>

\* `ls-available' takes every name, `search' those its pattern matches.
PackageNameFilter(k) == command = "ls_available" \/ k \in Matching

\* Nothing is looked up: a name counts, in whatever repository it is.
ReadName ==
  /\ pc = "names"
  /\ \/ ahead = {} /\ Goto("shelves") /\ UNCHANGED ahead
     \/ \E k \in ahead :
           /\ ahead' = ahead \ {k}
           /\ IF PackageNameFilter(k)
                THEN Show(Line(k, None, None))
                ELSE Goto("names")
  /\ UNCHANGED <<index, command, queue, listed, repo, at, got, history>>

(***************************************************************************)
(* The others, while the command runs.                                     *)
(***************************************************************************)
Running == pc \notin {"idle", "done"} /\ changes < MaxChanges

\* What a directory that is open still returns when k has come or has gone.
Turns(isOpen, k) == IF isOpen THEN {ahead, ahead \cup {k}, ahead \ {k}} ELSE {ahead}

ChangeIndex(k) ==
  /\ Running
  /\ \/ \E r \in 1 .. current[k] : Index!Appear(k, r)
     \/ installed[k] # None /\ Index!Disappear({k})
  /\ had' = [had EXCEPT ![k] = @ \cup {installed'[k]}]
  /\ ahead' \in Turns(command \in Scans /\ pc # "open", k)
  /\ changes' = changes + 1
  /\ UNCHANGED <<current, shelf, configured, command, pc, queue, listed, repo, at, got, lines,
                 result, told, stood, gone, unlisted, bare>>

\* The formula directory of q is open.
ShelfOpen(q) == pc = "names" /\ repo = q

\* A sync or a removal of a repository: a formula changes, comes or goes, or all of
\* them go with their directory.
ChangeFormulas(q, k) ==
  /\ Running
  /\ \/ /\ current[k] < MaxRev
        /\ current' = [current EXCEPT ![k] = @ + 1]
        /\ UNCHANGED <<shelf, ahead>>
     \/ /\ shelf[q] # None
        /\ shelf' = [shelf EXCEPT ![q] = IF k \in @ THEN @ \ {k} ELSE @ \cup {k}]
        /\ ahead' \in Turns(ShelfOpen(q), k)
        /\ UNCHANGED current
     \/ /\ shelf[q] # None
        /\ shelf' = [shelf EXCEPT ![q] = None]
        /\ ahead' \in IF ShelfOpen(q) THEN SUBSET ahead ELSE {ahead}
        /\ UNCHANGED current
  /\ told' = [j \in Package |-> told[j] \cup {Tells(j)'}]
  /\ stood' = stood \cap OnShelf'
  /\ gone' = gone \cup (OnShelf \ OnShelf') \cup (IF shelf'[q] = None THEN {<<q, None>>} ELSE {})
  /\ changes' = changes + 1
  /\ UNCHANGED <<installed, configured, command, pc, queue, listed, repo, at, got, lines, result,
                 had, unlisted, bare>>

\* A repository is added, or its removal deletes the config file.
ChangeConfig(q) ==
  /\ Running
  /\ configured' = IF q \in configured THEN configured \ {q} ELSE configured \cup {q}
  /\ unlisted' = unlisted \cup (configured \ configured')
  /\ bare' = bare \cup (Repo \ configured')
  /\ stood' = {x \in stood : x[1] \in configured'}
  /\ changes' = changes + 1
  /\ UNCHANGED <<installed, current, shelf, command, pc, scan, at, got, lines, result, had, told,
                 gone>>

Init ==
  /\ installed \in [Package -> Revision \cup {None}]
  /\ current \in [Package -> Revision]
  /\ shelf \in [Repo -> (SUBSET Package) \cup {None}]
  /\ configured \in SUBSET Repo
  /\ changes = 0
  /\ command = None /\ pc = "idle"
  /\ ahead = {} /\ queue = {} /\ listed = {} /\ repo = None
  /\ at = None /\ got = None
  /\ lines = <<>> /\ result = "none"
  /\ had = [k \in Package |-> {}] /\ told = [k \in Package |-> {}] /\ stood = {}
  /\ gone = {} /\ unlisted = {} /\ bare = {}

Step ==
  \/ OpenInstalled \/ ReadEntry \/ CheckEntry \/ CheckReceipt
  \/ StatDir \/ StatReceipt \/ ReadReceipt \/ StatManifest \/ ReadManifest
  \/ ListRepos \/ ReadRepo \/ ParseConfig \/ Locate \/ ReadFormula
  \/ VisitShelf \/ OpenShelf \/ ReadName

Next ==
  \/ \E k \in Package : \E c \in Scans \cup Names \cup Infos : Begin(c, k)
  \/ Step
  \/ \E k \in Package : ChangeIndex(k) \/ \E q \in Repo : ChangeFormulas(q, k)
  \/ \E q \in Repo : ChangeConfig(q)

Spec == Init /\ [][Next]_vars

(***************************************************************************)
(* Properties.                                                             *)
(***************************************************************************)
Times(k) == Cardinality({i \in DOMAIN lines : lines[i].pkg = k})

\* The formula of k told one thing all the time, which differs from what was installed
\* all the time.
OutdatedAllAlong(k) ==
  /\ None \notin had[k] /\ Cardinality(told[k]) = 1 /\ told[k] # had[k]
  /\ \A r \in told[k] : r # None /\ <<k, r>> \notin Malformed

UpToDateAllAlong(k) ==
  None \notin had[k] /\ \/ told[k] = {None} \/ told[k] = had[k]
                        \/ \A r \in told[k] : <<k, r>> \in Malformed

\* No lookup of k was disturbed: a repository offered it all the time, no formula of k
\* went away, and every repository had its config file all the time.
Undisturbed(k) ==
  /\ \E q \in Repo : <<q, k>> \in stood
  /\ \A q \in Repo : <<q, k>> \notin gone /\ q \notin bare

\* A listing that ends well has passed over nothing: a package that was
\* installed all the time is listed once, one that was outdated all the time is told
\* to be unless its lookup was disturbed, one that never was is not, and a formula is
\* named for every repository it was offered by all the time, whatever else was
\* installed, removed or synced meanwhile.
NothingMissed ==
  result = "ok" =>
     \A k \in Package :
        /\ command \in {"ls_installed", "ls_installed_v"} /\ None \notin had[k] => Times(k) = 1
        /\ command = "ls_outdated" /\ OutdatedAllAlong(k) /\ Undisturbed(k) => Times(k) = 1
        /\ command = "ls_outdated" /\ UpToDateAllAlong(k) => Times(k) = 0
        /\ command = "ls_available" \/ (command = "search" /\ k \in Matching) =>
              Times(k) >= Cardinality({q \in Repo : <<q, k>> \in stood})

\* What is printed was so at some time since the command began: the revision was
\* installed under that name, it was not what the formula then told, the name
\* was in a formula directory and matches.
NothingInvented ==
  \A i \in DOMAIN lines :
     LET line == lines[i]
     IN  /\ command \in Scans \cup Infos => line.old \in had[line.pkg] \ {None}
         /\ command = "ls_outdated" =>
               line.new \in told[line.pkg] \ {None} /\ line.new # line.old
         /\ command \in Names => told[line.pkg] # {None}
         /\ command = "search" => line.pkg \in Matching

\* A command that ends with an error has a reason: for `ls-available' and `search' a
\* name in repos.d without a config file, or a formula directory that went away; for the
\* others the package they ended at, which was not installed at some time of the command
\* or whose receipt cannot be read, whatever the formulas are.  Only a config file that
\* went away crashes a command.
EarlyEndHasCause ==
  result \notin {"none", "ok"} =>
     CASE result = "crash"  -> unlisted # {}
       [] command \in Names -> bare # {} \/ \E q \in Repo : <<q, None>> \in gone
       [] OTHER             -> \/ None \in had[at]
                               \/ \E r \in had[at] \ {None} : <<at, r>> \in Unreadable

(***************************************************************************)
(* What one may expect and the program does not do.                        *)
(***************************************************************************)
\* A package that is outdated all the time, and whose formula is in one repository all
\* the time, is told to be.  It is not if another repository loses its formula, or its
\* config file, between the stat and the fopen (formula-locate.c:42, formula-parse.c:475;
\* formula-repo-list.c:105), or if the last name in repos.d has no config file (84, 96).
NothingDropped ==
  result = "ok" /\ command = "ls_outdated" =>
     \A k \in Package :
        OutdatedAllAlong(k) /\ (\E q \in Repo : <<q, k>> \in stood) => Times(k) = 1
=============================================================================
