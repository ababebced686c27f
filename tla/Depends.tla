------------------------------ MODULE Depends ------------------------------
(***************************************************************************)
(* `uppm depends <package> [-t <type>] [-o <path>]': it walks through the  *)
(* packages a package needs, writes what it finds as a graph in the        *)
(* language of graphviz, has it drawn, and puts the drawing where the user *)
(* wants it.                                                               *)
(*                                                                         *)
(* The walk keeps a stack of names to be expanded and the formulas it has  *)
(* read.  A formula is read once; a name is expanded every time it is      *)
(* popped, so that a package two others need has two lines in the graph.   *)
(*                                                                         *)
(* The drawing is made in run/<pid>, which no other process looks at, and  *)
(* moved to its place: by a rename, or, where that lies on another device, *)
(* block by block into the file that is there.                             *)
(***************************************************************************)
EXTENDS Naturals, Sequences, SequencesExt, FiniteSets

CONSTANTS
  Package,      \* package names that have a formula
  Unknown,      \* a name that has none
  Pid,          \* process ids
  MaxRev,       \* number of revisions of the formulas (bound)
  Dependency,   \* Dependency[k][r]: dep-pkg of revision r of k, in its order
  Directory,    \* what -o may be: `.', `..' and names that end in a slash
  Here,         \* the directory `.'
  Plain,        \* what -o may be besides: the path of a file
  Far,          \* those of them on another device than the home directory
  Blocks,       \* blocks of 1024 bytes a drawing takes (bound)
  CommandLine,  \* what users may type
  None          \* no file, no -o, no command

Name     == Package \cup {Unknown}
Revision == 1 .. MaxRev
Type     == {"dot", "box", "svg", "png"}
File     == Plain \cup (Directory \X Package \X Type)

ASSUME GraphAssumption ==
  /\ Unknown \notin Package /\ MaxRev \in Nat \ {0}
  /\ Dependency \in [Package -> [Revision -> Seq(Name)]]

ASSUME PathAssumption ==
  /\ Here \in Directory /\ Plain \cap Directory = {} /\ Far \subseteq Plain \cup Directory
  /\ Blocks \in Nat \ {0}
  /\ CommandLine \subseteq [root : Name, type : Type, out : Directory \cup Plain \cup {None}]

Line    == Package \X Revision
Drawing == [root : Name, type : Type, text : Seq(Line)]

ASSUME DrawingAssumption == None \notin Drawing

VARIABLES
  current,   \* current[k]: the revision of k's formula in the formula repository
  command,   \* command[p]: the command line of process p
  pc,        \* pc[p]: its next step
  stack,     \* stack[p]: packageNameStack
  known,     \* known[p][k]: the revision of k in packageSet, 0 if k is not there
  text,      \* text[p]: the lines written so far, each a package and its revision
  made,      \* made[p]: the drawing in run/<p>
  at,        \* at[p]: the block to be copied next
  file,      \* file[f]: the blocks of an output file, None if there is none
  exit,      \* exit[p]: how the process ended
  torn       \* history: files whose last copy was cut off or met another one

vars == <<current, command, pc, stack, known, text, made, at, file, exit, torn>>
walk == <<stack, known, text>>
out  == <<made, at, file, torn>>

\* What has been written so far by whom, as it will be drawn.
Graph(p) == [root |-> command[p].root, type |-> command[p].type, text |-> text[p]]

\* What a full disk leaves of a drawing whose last bytes are written when the file is
\* closed: http_fetch_to_file does not look at what fclose returns.
CutShort(g) == [g EXCEPT !.text = <<>>]

\* What p may take for its drawing.
Drawings(p) ==
  IF command[p].type = "box" THEN {Graph(p), CutShort(Graph(p))} ELSE {Graph(p)}

Whole(g) == [b \in 1 .. Blocks |-> g]

Blank == [b \in 1 .. Blocks |-> None]

Deps(line) == Dependency[line[1]][line[2]]

Goto(p, step) == pc' = [pc EXCEPT ![p] = step] /\ UNCHANGED exit

Exit(p, r) ==
  /\ pc'   = [pc EXCEPT ![p] = "done"]
  /\ exit' = [exit EXCEPT ![p] = r]

(***************************************************************************)
(* The walk.                                                               *)
(***************************************************************************)
Invoke(p, line) ==
  /\ pc[p] = "idle"
  /\ command' = [command EXCEPT ![p] = line]
  /\ stack'   = [stack EXCEPT ![p] = <<line.root>>]
  /\ Goto(p, "walk")
  /\ UNCHANGED <<current, known, text, out>>

\* packageSet is searched first.
RevisionOf(p, k) == IF known[p][k] # 0 THEN known[p][k] ELSE current[k]

\* Mutant: a name is left on the stack when it is expanded.
StackAfterNoPop(p, deps) == [stack EXCEPT ![p] = @ \o deps]

\* Mutant: the first name in dep-pkg is lost.
StackAfterLossy(p, deps) ==
  [stack EXCEPT ![p] = Front(@) \o (IF Len(deps) > 1 THEN Tail(deps) ELSE deps)]

\* Mutant: a package that has been read is not expanded again.
StackAfterOnce(p, deps) ==
  [stack EXCEPT ![p] = Front(@) \o SelectSeq(deps, LAMBDA k : k = Unknown \/ known[p][k] = 0)]

StackAfter(p, deps) == [stack EXCEPT ![p] = Front(@) \o deps]

\* One round of the loop: pop a name, find its formula, write its line, push what
\* it needs.  A package without dep-pkg has no line.
Expand(p) ==
  /\ pc[p] = "walk" /\ stack[p] # <<>>
  /\ LET k == Last(stack[p])
     IN  \/ /\ k = Unknown
            /\ Exit(p, "not_available")
            /\ UNCHANGED walk
         \/ /\ k # Unknown
            /\ LET line == <<k, RevisionOf(p, k)>>
               IN  /\ known' = [known EXCEPT ![p][k] = line[2]]
                   /\ \/ /\ k \in ToSet(Deps(line))
                         /\ Exit(p, "error")
                         /\ UNCHANGED <<stack, text>>
                      \/ /\ k \notin ToSet(Deps(line))
                         /\ stack' = StackAfter(p, Deps(line))
                         /\ text'  = IF Deps(line) = <<>> THEN text
                                     ELSE [text EXCEPT ![p] = Append(@, line)]
                         /\ Goto(p, "walk")
  /\ UNCHANGED <<current, command, out>>

\* There may be nothing to draw.  A graph in the language of graphviz is printed
\* if no path is given.
EndWalk(p) ==
  /\ pc[p] = "walk" /\ stack[p] = <<>>
  /\ \/ /\ text[p] = <<>> \/ (command[p].type = "dot" /\ command[p].out = None)
        /\ Exit(p, "ok")
     \/ /\ text[p] # <<>> /\ ~(command[p].type = "dot" /\ command[p].out = None)
        /\ Goto(p, "session")
  /\ UNCHANGED <<current, command, walk, out>>

(***************************************************************************)
(* The drawing.                                                            *)
(***************************************************************************)
\* run/<pid> is emptied.
PrepareSession(p) ==
  /\ pc[p] = "session"
  /\ made' = [made EXCEPT ![p] = None]
  /\ Goto(p, "draw")
  /\ UNCHANGED <<current, command, walk, at, file, torn>>

\* A box drawing comes from a server and goes to the terminal if no path is given;
\* for svg and png the program `dot' is run.
Draw(p) ==
  /\ pc[p] = "draw"
  /\ \/ /\ command[p].type = "box" /\ command[p].out = None
        /\ Exit(p, "ok")
        /\ UNCHANGED made
     \/ /\ ~(command[p].type = "box" /\ command[p].out = None)
        /\ \E g \in Drawings(p) : made' = [made EXCEPT ![p] = g]
        /\ Goto(p, "name")
  /\ UNCHANGED <<current, command, walk, at, file, torn>>

OutputFile(line) ==
  IF line.out \in Plain THEN line.out
  ELSE <<IF line.out = None THEN Here ELSE line.out, line.root, line.type>>

Path(p) == OutputFile(command[p])

\* get_output_file_path returns an error if its `ret' is negative; for the path of
\* a file nothing has been assigned to it.
NameOutput(p) ==
  /\ pc[p] = "name"
  /\ \/ Goto(p, "rename")
     \/ command[p].out \in Plain /\ Exit(p, "error")
  /\ UNCHANGED <<current, command, walk, out>>

IsFar(f) == IF f \in Plain THEN f \in Far ELSE f[1] \in Far

\* Mutant: the file is always copied.
RenameNever(p) ==
  /\ pc[p] = "rename"
  /\ Goto(p, "open") /\ UNCHANGED <<file, made>>
  /\ UNCHANGED <<current, command, walk, at, torn>>

Rename(p) ==
  /\ pc[p] = "rename"
  /\ \/ /\ ~IsFar(Path(p))
        /\ file' = [file EXCEPT ![Path(p)] = Whole(made[p])]
        /\ made' = [made EXCEPT ![p] = None]
        /\ Exit(p, "ok")
     \/ /\ IsFar(Path(p))
        /\ Goto(p, "open")
        /\ UNCHANGED <<file, made>>
  /\ UNCHANGED <<current, command, walk, at, torn>>

OthersCopy(p) == \E q \in Pid \ {p} : pc[q] = "copy" /\ Path(q) = Path(p)

OpenCopy(p) ==
  /\ pc[p] = "open"
  /\ file' = [file EXCEPT ![Path(p)] = Blank]
  /\ at'   = [at EXCEPT ![p] = 1]
  /\ torn' = IF OthersCopy(p) THEN torn \cup {Path(p)} ELSE torn \ {Path(p)}
  /\ Goto(p, "copy")
  /\ UNCHANGED <<current, command, walk, made>>

\* Mutant: the last block is not written.
CopyBlockShort(p) ==
  /\ pc[p] = "copy"
  /\ \/ at[p] < Blocks /\ file' = [file EXCEPT ![Path(p)][at[p]] = made[p]]
     \/ at[p] = Blocks /\ UNCHANGED file
  /\ at' = [at EXCEPT ![p] = @ + 1]
  /\ IF at[p] = Blocks THEN Exit(p, "ok") ELSE Goto(p, "copy")
  /\ UNCHANGED <<current, command, walk, made, torn>>

CopyBlock(p) ==
  /\ pc[p] = "copy"
  /\ file' = [file EXCEPT ![Path(p)][at[p]] = made[p]]
  /\ at'   = [at EXCEPT ![p] = @ + 1]
  /\ IF at[p] = Blocks THEN Exit(p, "ok") ELSE Goto(p, "copy")
  /\ UNCHANGED <<current, command, walk, made, torn>>

(***************************************************************************)
(* What goes wrong: a call, the server or `dot' fails, or the process is   *)
(* killed.  Nothing is cleaned up.                                         *)
(***************************************************************************)
Stops(p, r) ==
  /\ torn' = IF pc[p] = "copy" THEN torn \cup {Path(p)} ELSE torn
  /\ Exit(p, r)
  /\ UNCHANGED <<current, command, walk, made, at, file>>

CallFails(p) ==
  /\ pc[p] \in {"session", "draw", "rename", "open", "copy"}
  /\ Stops(p, "error")

Kill(p) ==
  /\ pc[p] \notin {"idle", "done"}
  /\ Stops(p, "killed")

\* The formula repository moves on.
Publish(k) ==
  /\ current[k] < MaxRev
  /\ current' = [current EXCEPT ![k] = @ + 1]
  /\ UNCHANGED <<command, pc, walk, out, exit>>

Init ==
  /\ current = [k \in Package |-> 1]
  /\ command = [p \in Pid |-> None]
  /\ pc = [p \in Pid |-> "idle"]
  /\ stack = [p \in Pid |-> <<>>]
  /\ known = [p \in Pid |-> [k \in Package |-> 0]]
  /\ text = [p \in Pid |-> <<>>]
  /\ made = [p \in Pid |-> None]
  /\ at = [p \in Pid |-> 1]
  /\ file = [f \in File |-> None]
  /\ exit = [p \in Pid |-> "none"]
  /\ torn = {}

Step(p) ==
  \/ Expand(p) \/ EndWalk(p)
  \/ PrepareSession(p) \/ Draw(p) \/ NameOutput(p) \/ Rename(p) \/ OpenCopy(p) \/ CopyBlock(p)

Next ==
  \/ \E p \in Pid : \/ \E line \in CommandLine : Invoke(p, line)
                    \/ Step(p) \/ CallFails(p) \/ Kill(p)
  \/ \E k \in Package : Publish(k)

Spec == Init /\ [][Next]_vars

\* A process that can go on does; a server that is asked for a drawing answers or
\* hangs up, and `dot' ends.
FairSpec == Spec /\ \A p \in Pid : WF_vars(Step(p))

(***************************************************************************)
(* Properties.                                                             *)
(***************************************************************************)
\* Where k is named in a sequence of names, and in dep-pkg of a sequence of lines, and
\* which of the lines are its own.
NamedAt(seq, k)    == {i \in DOMAIN seq : seq[i] = k}
NeededAt(lines, k) == UNION {{i} \X NamedAt(Deps(lines[i]), k) : i \in DOMAIN lines}
LinesAt(lines, k)  == {i \in DOMAIN lines : lines[i][1] = k}

\* The walk forgets nothing and does nothing twice: a package has one line for
\* every time it has been named (as the argument, or in the dep-pkg of a line), save
\* those that are still on the stack.
EveryMentionExpanded ==
  \A p \in Pid, k \in Package :
    pc[p] = "walk" /\ known[p][k] # 0 /\ Deps(<<k, known[p][k]>>) # <<>> =>
      Cardinality(LinesAt(text[p], k)) + Cardinality(NamedAt(stack[p], k))
        = (IF command[p].root = k THEN 1 ELSE 0) + Cardinality(NeededAt(text[p], k))

\* A set that holds whatever its members need, by the formulas p has read.
Closed(p, S) ==
  \A k \in S \cap Package : known[p][k] # 0 => ToSet(Deps(<<k, known[p][k]>>)) \subseteq S

\* What the walk of p reaches from the package it was asked about: the least such set.
Reached(p) ==
  LET closed == {S \in SUBSET Name : command[p].root \in S /\ Closed(p, S)}
  IN  {k \in Name : \A S \in closed : k \in S}

\* A walk that comes to its end has a line for everything the package needs, needs
\* it directly or not, and for nothing else; all of it has formulas, and none of it
\* needs itself.
PrintsReachable ==
  \A p \in Pid :
    (pc[p] \notin {"idle", "walk", "done"} \/ exit[p] = "ok") =>
      LET reached == Reached(p)
      IN  /\ reached \subseteq Package
          /\ {line[1] : line \in ToSet(text[p])} =
               {k \in reached : known[p][k] = 0 \/ Deps(<<k, known[p][k]>>) # <<>>}
          /\ \A line \in ToSet(text[p]) : line[1] \notin ToSet(Deps(line))

\* An output file is one drawing, as one process has drawn it.  Only on another device it
\* can be less: while it is copied, after a copy that was cut off, or if two were copied
\* at once; and then until the next undisturbed copy.
OutputIsWhole ==
  \A f \in File :
    \/ file[f] = None
    \/ \E g \in {file[f][1]} : g # None /\ file[f] = Whole(g)
    \/ IsFar(f) /\ (f \in torn \/ \E p \in Pid : pc[p] = "copy" /\ Path(p) = f)

\* The command asked for a file.
WantsFile(p) == text[p] # <<>> /\ (command[p].out # None \/ command[p].type \in {"svg", "png"})

\* Success means that the file holds the graph of this process, even if other
\* processes write the same file, unless two copies to another device met.  Of a box
\* drawing a full disk may have kept the end.
OkMeansWritten ==
  [][\A p \in Pid : exit[p] = "none" /\ exit'[p] = "ok" /\ WantsFile(p)
       => Path(p) \in torn' \/ file'[Path(p)] \in {Whole(g) : g \in Drawings(p)}]_vars

\* The walk ends for every graph without cycles of two or more packages.
EveryCommandEnds == \A p \in Pid : pc[p] = "walk" ~> pc[p] = "done"
=============================================================================
