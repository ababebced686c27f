-------------------------------- MODULE Uppm --------------------------------
(***************************************************************************)
(* The command line over the package store: one process is one invocation  *)
(* `uppm <verb> <package>...'.  It screens every argument, then calls the  *)
(* operation of the verb on one argument after the other and stops at the  *)
(* first that fails.  Installing a package means installing the packages   *)
(* its formula names first, each by the same recursive function: frames[p] *)
(* is the C stack of that recursion.                                       *)
(***************************************************************************)
EXTENDS PackageStore, Sequences, SequencesExt, FiniteSets

CONSTANTS
  Unknown,     \* a name that no formula has
  Dependency,  \* Dependency[k][r]: dep-pkg of revision r of k, in its order
  Version,     \* Version[k][r]: the version that is parsed from that text
  VersionLine, \* VersionLine[k][r]: that text has a `version' line of its own
  CommandLine, \* what users may type
  MaxDepth     \* calls of uppm_install the C stack has room for (bound)

Name == Package \cup {Unknown}

Verb == {"install", "reinstall", "upgrade", "uninstall", "fetch"}

\* uppm_install keeps the names of the dependencies in an array of ten and does
\* not look whether there are more.
ASSUME DependencyAssumption ==
  /\ Unknown \notin Package
  /\ Dependency \in [Package -> [Revision -> Seq(Name)]]
  /\ \A k \in Package, r \in Revision : Len(Dependency[k][r]) <= 10

ASSUME VersionAssumption ==
  /\ Version \in [Package -> [Revision -> Nat]]
  /\ VersionLine \in [Package -> [Revision -> BOOLEAN]]

ASSUME DepthAssumption == MaxDepth \in Nat \ {0}

ASSUME CommandLineAssumption == CommandLine \subseteq [verb : Verb, args : Seq(Name)]

VARIABLES
  command,     \* command[p]: the command line and how far main() is with it
  frames,      \* frames[p]: the calls of uppm_install, the innermost last
  exit         \* exit[p]: how the process ended

cli   == <<command, frames, exit>>
store == <<time, current, download, partial, dir, link, pc, job, result, started, reused,
           exposed>>

\* main() checks argument `arg', is about to call the operation on it, or is
\* inside that call.
Command == [verb : Verb, args : Seq(Name), arg : Nat, phase : {"screen", "call", "in"}]

ASSUME CommandMarkAssumption == None \notin Command

\* A call of uppm_install: rev = 0 until the formula is parsed; `next' is the
\* dependency to be installed next; `built' once uppm_install_internal is called.
Frame == [pkg : Name, rev : Nat, next : Nat \ {0}, built : BOOLEAN]

Argument(p) == command[p].args[command[p].arg]
Top(p)      == Last(frames[p])
Deps(f)     == Dependency[f.pkg][f.rev]

\* Mutant: every installation is forced.
AlwaysForced(p) == TRUE

Forced(p)   == command[p].verb # "install"

Exit(p, r) ==
  /\ command' = [command EXCEPT ![p] = None]
  /\ frames'  = [frames EXCEPT ![p] = <<>>]
  /\ exit'    = [exit EXCEPT ![p] = r]

\* Mutant: the loop over the arguments runs once too often.
NextArgumentOffByOne(p) ==
  IF command[p].arg > Len(command[p].args)
    THEN Exit(p, "ok")
    ELSE /\ command' = [command EXCEPT ![p].arg = @ + 1, ![p].phase = "call"]
         /\ frames'  = [frames EXCEPT ![p] = <<>>]
         /\ UNCHANGED exit

\* main() has done argument `arg'.
NextArgument(p) ==
  IF command[p].arg = Len(command[p].args)
    THEN Exit(p, "ok")
    ELSE /\ command' = [command EXCEPT ![p].arg = @ + 1, ![p].phase = "call"]
         /\ frames'  = [frames EXCEPT ![p] = <<>>]
         /\ UNCHANGED exit

(***************************************************************************)
(* check.c                                                                 *)
(***************************************************************************)
\* Two lstat calls; the second looks through the link.
Installation(k) ==
  IF k = Unknown \/ ~Linked(k) THEN "not_installed"
  ELSE IF HasReceipt(k) THEN "ok" ELSE "broken"

Availability(k) == IF k = Unknown THEN "not_available" ELSE "ok"

\* The receipt is a copy of the formula text: it tells the version only if the
\* text had a line for it; and it is refused without the signature and the time.
Readable(k) ==
  LET d == dir[link[k]]
  IN  d.receipt = "full" /\ VersionLine[k][d.rev]

\* It looks through the link from the start, unlike Installation.
ParseReceipt(k) ==
  IF link[k] = None \/ (Linked(k) /\ dir[link[k]] = None) THEN "not_installed"
  ELSE IF ~HasReceipt(k) THEN "broken"
  ELSE IF ~Readable(k) THEN "receipt_error"
  ELSE "ok"

Outdated(k) ==
  IF k = Unknown THEN "not_available"
  ELSE IF ParseReceipt(k) # "ok" THEN ParseReceipt(k)
  ELSE IF Version[k][dir[link[k]].rev] = Version[k][current[k]] THEN "not_outdated"
  ELSE "ok"

\* What main() asks of an argument before it does anything.
Screening(verb, k) ==
  CASE verb = "install"   -> Availability(k)
    [] verb = "reinstall" -> IF Availability(k) = "ok" THEN Installation(k) ELSE Availability(k)
    [] verb = "upgrade"   -> Outdated(k)
    [] verb = "uninstall" -> Installation(k)
    [] verb = "fetch"     -> "ok"

(***************************************************************************)
(* main()                                                                  *)
(***************************************************************************)
\* upgrade is content with no arguments, the others are not.
Invoke(p, verb, args) ==
  /\ command[p] = None /\ exit[p] = "none"
  /\ IF args = <<>>
       THEN Exit(p, IF verb = "upgrade" THEN "ok" ELSE "error")
       ELSE /\ command' = [command EXCEPT ![p] =
                             [verb |-> verb, args |-> args, arg |-> 1, phase |-> "screen"]]
            /\ UNCHANGED <<frames, exit>>
  /\ UNCHANGED store

Screen(p) ==
  /\ command[p] # None /\ command[p].phase = "screen"
  /\ LET answer == Screening(command[p].verb, Argument(p))
     IN  \/ /\ answer # "ok"
            /\ Exit(p, answer)
         \/ /\ answer = "ok"
            /\ command' = IF command[p].arg = Len(command[p].args)
                            THEN [command EXCEPT ![p].arg = 1, ![p].phase = "call"]
                            ELSE [command EXCEPT ![p].arg = @ + 1]
            /\ UNCHANGED <<frames, exit>>
  /\ UNCHANGED store

\* Mutant: the first dependency is skipped.
NewFrameSkipsFirst(k) == [pkg |-> k, rev |-> 0, next |-> 2, built |-> FALSE]

NewFrame(k) == [pkg |-> k, rev |-> 0, next |-> 1, built |-> FALSE]

\* uppm_install, uppm_reinstall.
CallInstall(p) ==
  /\ command[p] # None /\ command[p].phase = "call"
  /\ command[p].verb \in {"install", "reinstall"}
  /\ command' = [command EXCEPT ![p].phase = "in"]
  /\ frames'  = [frames EXCEPT ![p] = <<NewFrame(Argument(p))>>]
  /\ UNCHANGED <<exit, store>>

\* uppm_upgrade asks once more whether the package is outdated.
CallUpgrade(p) ==
  /\ command[p] # None /\ command[p].phase = "call"
  /\ command[p].verb = "upgrade"
  /\ LET answer == Outdated(Argument(p))
     IN  \/ /\ answer # "ok"
            /\ Exit(p, answer)
         \/ /\ answer = "ok"
            /\ command' = [command EXCEPT ![p].phase = "in"]
            /\ frames'  = [frames EXCEPT ![p] = <<NewFrame(Argument(p))>>]
            /\ UNCHANGED exit
  /\ UNCHANGED store

\* Mutant: the link is removed without a look at what it is.
CallUninstallUnchecked(p) ==
  /\ command[p] # None /\ command[p].phase = "call"
  /\ command[p].verb = "uninstall"
  /\ link'    = [link EXCEPT ![Argument(p)] = None]
  /\ result'  = [result EXCEPT ![p] = "ok"]
  /\ command' = [command EXCEPT ![p].phase = "in"]
  /\ UNCHANGED <<frames, exit, env, download, partial, dir, pc, job, hist>>

CallUninstall(p) ==
  /\ command[p] # None /\ command[p].phase = "call"
  /\ command[p].verb = "uninstall"
  /\ BeginUninstall(p, Argument(p))
  /\ command' = [command EXCEPT ![p].phase = "in"]
  /\ UNCHANGED <<frames, exit>>

CallFetch(p) ==
  /\ command[p] # None /\ command[p].phase = "call"
  /\ command[p].verb = "fetch"
  /\ \/ /\ Argument(p) = Unknown
        /\ Exit(p, "not_available")
        /\ UNCHANGED store
     \/ /\ Argument(p) # Unknown
        /\ BeginFetch(p, Argument(p))
        /\ command' = [command EXCEPT ![p].phase = "in"]
        /\ UNCHANGED <<frames, exit>>

\* uppm_uninstall or uppm_fetch returns to main(); fetch looks at one argument
\* only.
OperationReturns(p) ==
  /\ command[p] # None /\ command[p].phase = "in"
  /\ frames[p] = <<>> /\ pc[p] = "idle"
  /\ \/ result[p] # "ok" /\ Exit(p, result[p])
     \/ result[p] = "ok" /\ command[p].verb = "fetch" /\ Exit(p, "ok")
     \/ result[p] = "ok" /\ command[p].verb # "fetch" /\ NextArgument(p)
  /\ UNCHANGED store

(***************************************************************************)
(* uppm_install                                                            *)
(***************************************************************************)
Installing(p) == command[p] # None /\ frames[p] # <<>> /\ pc[p] = "idle"

SetTop(p, f) == frames' = [frames EXCEPT ![p] = Front(@) \o <<f>>]

LookupFormula(p) ==
  /\ Installing(p)
  /\ Top(p).rev = 0
  /\ \/ /\ Top(p).pkg = Unknown
        /\ Exit(p, "not_available")
     \/ /\ Top(p).pkg # Unknown
        /\ SetTop(p, [Top(p) EXCEPT !.rev = current[Top(p).pkg]])
        /\ UNCHANGED <<command, exit>>
  /\ UNCHANGED store

\* Mutant: the recursive call is made with the package itself.
InstallDependencySelf(p) ==
  /\ Installing(p)
  /\ Top(p).rev # 0 /\ Top(p).next <= Len(Deps(Top(p)))
  /\ Len(frames[p]) < MaxDepth
  /\ frames' = [frames EXCEPT ![p] =
                  Front(@) \o <<[Top(p) EXCEPT !.next = @ + 1], NewFrame(Top(p).pkg)>>]
  /\ UNCHANGED <<command, exit, store>>

\* Mutant: the loop over the dependencies does not go on to the next one.
InstallDependencyAgain(p) ==
  /\ Installing(p)
  /\ Top(p).rev # 0 /\ Top(p).next <= Len(Deps(Top(p)))
  /\ Len(frames[p]) < MaxDepth
  /\ frames' = [frames EXCEPT ![p] = @ \o <<NewFrame(Deps(Top(p))[Top(p).next])>>]
  /\ UNCHANGED <<command, exit, store>>

InstallDependency(p) ==
  /\ Installing(p)
  /\ Top(p).rev # 0 /\ Top(p).next <= Len(Deps(Top(p)))
  /\ Len(frames[p]) < MaxDepth
  /\ frames' = [frames EXCEPT ![p] =
                  Front(@) \o <<[Top(p) EXCEPT !.next = @ + 1], NewFrame(Deps(Top(p))[Top(p).next])>>]
  /\ UNCHANGED <<command, exit, store>>

\* Nothing stops the recursion but the end of the stack.
StackOverflow(p) ==
  /\ Installing(p)
  /\ Top(p).rev # 0 /\ Top(p).next <= Len(Deps(Top(p)))
  /\ Len(frames[p]) = MaxDepth
  /\ Exit(p, "stack_overflow")
  /\ UNCHANGED store

InstallPackage(p) ==
  /\ Installing(p)
  /\ Top(p).rev # 0 /\ Top(p).next > Len(Deps(Top(p))) /\ ~Top(p).built
  /\ BeginInstall(p, Top(p).pkg, Top(p).rev, Forced(p))
  /\ SetTop(p, [Top(p) EXCEPT !.built = TRUE])
  /\ UNCHANGED <<command, exit>>

\* uppm_install_internal returns, and uppm_install with it.
InstallReturns(p) ==
  /\ Installing(p)
  /\ Top(p).built
  /\ \/ result[p] # "ok" /\ Exit(p, result[p])
     \/ result[p] = "ok" /\ Len(frames[p]) = 1 /\ NextArgument(p)
     \/ /\ result[p] = "ok" /\ Len(frames[p]) > 1
        /\ frames' = [frames EXCEPT ![p] = Front(@)]
        /\ UNCHANGED <<command, exit>>
  /\ UNCHANGED store

\* The process is killed, inside an operation or between two of them.
Kill(p) ==
  /\ command[p] # None
  /\ \/ Crash(p)
     \/ pc[p] = "idle" /\ UNCHANGED store
  /\ Exit(p, "killed")

(***************************************************************************)
(* The specification.                                                      *)
(***************************************************************************)
UppmInit ==
  /\ Init
  /\ command = [p \in Pid |-> None]
  /\ frames = [p \in Pid |-> <<>>]
  /\ exit = [p \in Pid |-> "none"]

Main(p) ==
  \/ Screen(p)
  \/ CallInstall(p) \/ CallUpgrade(p) \/ CallUninstall(p) \/ CallFetch(p) \/ OperationReturns(p)
  \/ LookupFormula(p) \/ InstallDependency(p) \/ StackOverflow(p)
  \/ InstallPackage(p) \/ InstallReturns(p)

Work(p) == (InstallStep(p) \/ UninstallStep(p)) /\ UNCHANGED cli

Fail(p) == Fault(p) /\ UNCHANGED cli

Elsewhere == (Tick \/ \E k \in Package : Publish(k)) /\ UNCHANGED cli

UppmNext ==
  \/ \E p \in Pid : \/ \E line \in CommandLine : Invoke(p, line.verb, line.args)
                    \/ Main(p) \/ Work(p) \/ Fail(p) \/ Kill(p)
  \/ Elsewhere

UppmSpec == UppmInit /\ [][UppmNext]_<<cli, vars>>

(***************************************************************************)
(* One command after the other: a user who waits for the end of a command  *)
(* before typing the next, and formulas that stay as they are meanwhile.   *)
(***************************************************************************)
Idle == \A p \in Pid : command[p] = None

SerialNext ==
  \/ \E p \in Pid : \/ Idle /\ \E line \in CommandLine : Invoke(p, line.verb, line.args)
                    \/ Main(p) \/ Work(p) \/ Fail(p) \/ Kill(p)
  \/ Elsewhere /\ (current' = current \/ Idle)

SerialSpec == UppmInit /\ [][SerialNext]_<<cli, vars>>

(***************************************************************************)
(* A process that can go on does: no call blocks for ever.  uppm sets no   *)
(* time limit on a transfer, so for a fetch this asks that the server      *)
(* answers or hangs up in the end; and that install scripts end.           *)
(***************************************************************************)
FairUppmSpec == UppmSpec /\ \A p \in Pid : WF_<<cli, vars>>(Main(p) \/ Work(p))

(***************************************************************************)
(* Properties.                                                             *)
(***************************************************************************)
\* Every variable has its type, and a process is inside an operation of the
\* store only if its command line has called one.
UppmTypeOK ==
  /\ TypeOK
  /\ command \in [Pid -> Command \cup {None}]
  /\ frames \in [Pid -> Seq(Frame)]
  /\ exit \in [Pid -> Results \cup {"not_available", "not_outdated", "receipt_error",
                                    "stack_overflow", "killed"}]
  /\ \A p \in Pid : pc[p] \in Steps => command[p] # None /\ command[p].phase = "in"
  /\ \A p \in Pid : command[p] # None => command[p].arg \in 1 .. Len(command[p].args)

\* Whatever command lines the processes run, what they do to the files is what
\* PackageStore allows.
ImplementsStore == Spec

\* The packages that an installation of k reaches, k included: the smallest set with k
\* that nothing in it needs more than.
Closed(S) == \A l \in S \cap Package : ToSet(Dependency[l][current[l]]) \subseteq S

Needed(k) == {l \in Name : \A S \in SUBSET Name : k \in S /\ Closed(S) => l \in S}

\* When a command ends well, what its verb says of its arguments is so: install
\* has installed them and everything they need, reinstall and upgrade have put
\* builds of the present formulas in place, uninstall has removed them.  It holds
\* for commands that run one at a time, after any others that failed or were
\* killed at any point.  What a reinstall was clearing when it was killed passes for
\* installed as long as its receipt is there, and a full disk may have kept the
\* signature and the time out of that (install.c:642).
Achieved(verb, k) ==
  CASE verb = "install"   ->
         \A l \in Needed(k) : /\ Installation(l) = "ok"
                              /\ link[l] \in reused \/ Built(dir[link[l]])
    [] verb \in {"reinstall", "upgrade"} ->
         \A l \in Needed(k) : Installation(l) = "ok" /\ dir[link[l]].rev = current[l]
    [] verb = "uninstall" -> ~Linked(k)
    [] verb = "fetch"     -> download[Formula[k][current[k]].sha] = Formula[k][current[k]].sha

Asked(line) == IF line.verb = "fetch" THEN {line.args[1]} ELSE ToSet(line.args)

OkMeansDone ==
  [][\A p \in Pid : command[p] # None /\ exit'[p] = "ok" =>
        \A verb \in {command[p].verb}, k \in Asked(command[p]) : Achieved(verb, k)']_<<cli, vars>>

\* An installation without force never begins the same session twice, though it reaches
\* packages more than once (install.c names a session after url, second and pid): each
\* package it meets again is already installed.
InstallsNameOnce ==
  \A p \in Pid : command[p] # None /\ command[p].verb = "install" =>
     \A s \in reused : s.pid # p

\* Where the dependencies have no cycle, the recursion ends by itself.
RecursionEnds == \A p \in Pid : exit[p] # "stack_overflow"

\* Every command ends, whatever the others do at the same time.
EveryCommandEnds == \A p \in Pid : command[p] # None ~> command[p] = None
(***************************************************************************)
(* What the documentation says and the program does not do.                *)
(***************************************************************************)
\* help.c: "reinstall the given packages."  A package that two others of the
\* same invocation need is built twice, in the same second into the same session.
ReinstallSucceeds ==
  [][\A p \in Pid : command[p] # None /\ command[p].verb = "reinstall" /\ command[p].phase = "in"
        => exit'[p] # "error"]_<<cli, vars>>

\* help.c: "install the given packages."  A reinstall that is killed while it clears
\* the directory it has just made leaves a package with some of its files and a receipt;
\* install calls it installed already and ends well.  It also ends well over a receipt
\* that it could not write to the end, which every later upgrade refuses.
InstallMeansComplete ==
  [][\A p \in Pid : command[p] # None /\ command[p].verb = "install" /\ exit'[p] = "ok" =>
        \A k \in Asked(command[p]) : Complete(dir'[link'[k]])]_<<cli, vars>>

=============================================================================
