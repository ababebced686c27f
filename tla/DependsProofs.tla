---------------------------- MODULE DependsProofs ----------------------------
(***************************************************************************)
(* For any packages, formulas, processes, paths and number of blocks: what *)
(* the walk of `uppm depends' prints, and what its output files hold while *)
(* drawings are renamed into their place, or copied there, by several      *)
(* processes that may be stopped.                                          *)
(*                                                                         *)
(* The argument about the files is about the copies: one that meets no     *)
(* other one finds its file as far as it has written it, and of two that   *)
(* meet the file is known to be torn until a copy begins that is alone.    *)
(* That about the walk is that what has been seen has been read or is on   *)
(* the stack, and that names are moved from there to lines one by one.     *)
(***************************************************************************)
EXTENDS Depends, SequenceTheorems, FiniteSetTheorems, TLAPS

-----------------------------------------------------------------------------
(***************************************************************************)
(* The inductive invariant.                                                *)
(***************************************************************************)
Later == {"session", "draw", "name", "rename", "open", "copy"}

Drawn == {"name", "rename", "open", "copy"}

WalkTypes ==
  /\ current \in [Package -> Revision]
  /\ command \in [Pid -> CommandLine \cup {None}]
  /\ pc \in [Pid -> Later \cup {"idle", "walk", "done"}]
  /\ stack \in [Pid -> Seq(Name)]
  /\ known \in [Pid -> [Package -> Revision \cup {0}]]
  /\ text \in [Pid -> Seq(Line)]
  /\ exit \in [Pid -> {"none", "ok", "error", "killed", "not_available"}]

\* Who has begun has a command, and draws only if its package has a formula.
CommandsOK ==
  \A p \in Pid :
    /\ pc[p] = "idle" => text[p] = <<>>
    /\ pc[p] \in Later \cup {"walk"} => command[p] \in CommandLine
    /\ pc[p] \in Later => command[p].root \in Package
    /\ pc[p] = "walk" =>
         command[p].root \in Package \/ (stack[p] = <<command[p].root>> /\ text[p] = <<>>)

DrawingTypes ==
  /\ made \in [Pid -> Drawing \cup {None}]
  /\ at \in [Pid -> Nat]
  /\ file \in [File -> [1 .. Blocks -> Drawing \cup {None}] \cup {None}]
  /\ torn \subseteq File

\* What is put into a file is the drawing of the graph, and is copied between devices only.
DrawingsOK ==
  \A p \in Pid :
    /\ pc[p] \in Drawn => made[p] \in Drawings(p)
    /\ pc[p] \in {"open", "copy"} => IsFar(Path(p))
    /\ pc[p] = "copy" => at[p] \in 1 .. Blocks /\ file[Path(p)] \in [1 .. Blocks -> Drawing \cup {None}]

Copies(p, f) == pc[p] = "copy" /\ Path(p) = f

CopiesOK ==
  /\ \A p, q \in Pid : p # q /\ pc[p] = "copy" /\ pc[q] = "copy" /\ Path(p) = Path(q) => Path(p) \in torn
  /\ \A p \in Pid : pc[p] = "copy" /\ Path(p) \notin torn =>
       \A b \in 1 .. at[p] - 1 : file[Path(p)][b] = made[p]

FilesOK ==
  \A f \in File :
    \/ file[f] = None
    \/ \E g \in Drawing : file[f] = Whole(g)
    \/ IsFar(f) /\ (f \in torn \/ \E p \in Pid : Copies(p, f))

DependsInv == WalkTypes /\ CommandsOK /\ DrawingTypes /\ DrawingsOK /\ CopiesOK /\ FilesOK

-----------------------------------------------------------------------------
(***************************************************************************)
(* The types of the walk.                                                  *)
(***************************************************************************)
LEMMA FrontOfStack ==
  ASSUME NEW s \in Seq(Name), s # <<>>
  PROVE  Last(s) \in Name /\ Front(s) \in Seq(Name)
<1>1. Len(s) \in Nat /\ Len(s) > 0 /\ s \in [1 .. Len(s) -> Name]
  BY EmptySeq, LenProperties
<1>2. Last(s) \in Name
  BY <1>1 DEF Last
<1>3. \A i \in 1 .. Len(s) - 1 : s[i] \in Name
  BY <1>1
<1> QED BY <1>1, <1>2, <1>3, SubSeqProperties DEF Front

\* The formula that is read, and what it names.
LEMMA LineIsTyped ==
  ASSUME WalkTypes, NEW p \in Pid, NEW k \in Package
  PROVE  /\ RevisionOf(p, k) \in Revision /\ <<k, RevisionOf(p, k)>> \in Line
         /\ Deps(<<k, RevisionOf(p, k)>>) \in Seq(Name)
<1>1. RevisionOf(p, k) \in Revision
  BY DEF WalkTypes, RevisionOf
<1> QED BY <1>1, GraphAssumption DEF Line, Deps

LEMMA PathIsFile ==
  ASSUME NEW line \in CommandLine, line.root \in Package
  PROVE  OutputFile(line) \in File
<1>1. line.type \in Type /\ line.out \in Directory \cup Plain \cup {None} /\ Here \in Directory
  BY PathAssumption
<1> QED BY <1>1 DEF OutputFile, File

LEMMA InvokeKeepsWalk ==
  ASSUME WalkTypes, CommandsOK, NEW p \in Pid, NEW line \in CommandLine, Invoke(p, line)
  PROVE  WalkTypes' /\ CommandsOK'
<1>1. line.root \in Name /\ <<line.root>> \in Seq(Name)
  BY PathAssumption
<1>2. /\ pc' = [pc EXCEPT ![p] = "walk"] /\ command' = [command EXCEPT ![p] = line]
      /\ stack' = [stack EXCEPT ![p] = <<line.root>>]
      /\ UNCHANGED <<current, known, text, exit>>
  BY DEF Invoke, Goto
<1>3. WalkTypes'
  BY <1>1, <1>2 DEF WalkTypes
<1>4. CommandsOK'
  <2>1. \A q \in Pid \ {p} : pc'[q] = pc[q] /\ command'[q] = command[q] /\ stack'[q] = stack[q]
    BY <1>2 DEF WalkTypes
  <2>2. pc'[p] = "walk" /\ command'[p] = line /\ stack'[p] = <<line.root>> /\ text[p] = <<>>
    BY <1>2 DEF WalkTypes, CommandsOK, Invoke
  <2> QED BY <1>2, <2>1, <2>2 DEF CommandsOK, Later
<1> QED BY <1>3, <1>4

LEMMA ExpandKeepsWalk ==
  ASSUME WalkTypes, CommandsOK, NEW p \in Pid, Expand(p)
  PROVE  WalkTypes' /\ CommandsOK'
<1> DEFINE k == Last(stack[p])
           line == <<k, RevisionOf(p, k)>>
<1>1. /\ pc[p] = "walk" /\ stack[p] # <<>> /\ UNCHANGED <<current, command>>
      /\ stack[p] \in Seq(Name) /\ text[p] \in Seq(Line)
  BY DEF Expand, WalkTypes
<1>2. k \in Name /\ Front(stack[p]) \in Seq(Name)
  BY <1>1, FrontOfStack
<1>3. CASE k = Unknown
  <2>1. /\ pc' = [pc EXCEPT ![p] = "done"] /\ exit' = [exit EXCEPT ![p] = "not_available"]
        /\ UNCHANGED <<stack, known, text>>
    BY <1>3 DEF Expand, Exit, walk
  <2> QED BY <1>1, <2>1 DEF WalkTypes, CommandsOK, Later
<1>4. CASE k # Unknown
  <2>1. k \in Package
    BY <1>2, <1>4 DEF Name
  <2>2. line[2] \in Revision /\ line \in Line /\ Deps(line) \in Seq(Name) /\ line[1] = k
    BY <2>1, LineIsTyped
  <2>3. known' = [known EXCEPT ![p][k] = line[2]]
    BY <1>4 DEF Expand
  <2>4. known' \in [Pid -> [Package -> Revision \cup {0}]]
    BY <2>1, <2>2, <2>3 DEF WalkTypes
  <2>5. command[p].root \in Package
    <3>1. CASE stack[p] = <<command[p].root>>
      <4>1. k = command[p].root
        BY <3>1 DEF Last
      <4> QED BY <2>1, <4>1
    <3> QED BY <1>1, <3>1 DEF CommandsOK
  <2>6. CASE k \in ToSet(Deps(line))
    <3>1. /\ pc' = [pc EXCEPT ![p] = "done"] /\ exit' = [exit EXCEPT ![p] = "error"]
          /\ UNCHANGED <<stack, text>>
      BY <1>4, <2>6 DEF Expand, Exit
    <3> QED BY <1>1, <2>4, <3>1 DEF WalkTypes, CommandsOK, Later
  <2>7. CASE k \notin ToSet(Deps(line))
    <3>1. /\ stack' = [stack EXCEPT ![p] = Front(stack[p]) \o Deps(line)]
          /\ text' = IF Deps(line) = <<>> THEN text ELSE [text EXCEPT ![p] = Append(text[p], line)]
          /\ pc' = [pc EXCEPT ![p] = "walk"] /\ UNCHANGED exit
      BY <1>1, <1>4, <2>7 DEF Expand, Goto, StackAfter, WalkTypes
    <3>2. Front(stack[p]) \o Deps(line) \in Seq(Name) /\ Append(text[p], line) \in Seq(Line)
      BY <1>1, <1>2, <2>2, ConcatProperties, AppendProperties
    <3> HIDE DEF k, line
    <3>3. stack' \in [Pid -> Seq(Name)] /\ text' \in [Pid -> Seq(Line)]
      BY <3>1, <3>2 DEF WalkTypes
    <3>4. WalkTypes'
      BY <1>1, <2>4, <3>1, <3>3 DEF WalkTypes
    <3>5. CommandsOK'
      <4>1. \A q \in Pid \ {p} : pc'[q] = pc[q] /\ stack'[q] = stack[q] /\ text'[q] = text[q]
        BY <3>1 DEF WalkTypes
      <4>2. pc'[p] = "walk"
        BY <3>1 DEF WalkTypes
      <4> QED BY <1>1, <2>5, <4>1, <4>2 DEF CommandsOK, Later
    <3> QED BY <3>4, <3>5
  <2> QED BY <2>6, <2>7
<1> QED BY <1>3, <1>4

\* The steps after the walk.
LEMMA DrawingKeepsWalk ==
  ASSUME WalkTypes, CommandsOK, NEW p \in Pid,
         \/ EndWalk(p) \/ PrepareSession(p) \/ Draw(p) \/ NameOutput(p) \/ Rename(p) \/ OpenCopy(p)
         \/ CopyBlock(p) \/ CallFails(p) \/ Kill(p)
  PROVE  WalkTypes' /\ CommandsOK'
<1>1. /\ pc[p] \in Later \cup {"walk"}
      /\ pc[p] = "walk" => stack[p] = <<>> \/ pc'[p] = "done"
      /\ UNCHANGED <<current, command, stack, known, text>>
  BY DEF EndWalk, PrepareSession, Draw, NameOutput, Rename, OpenCopy, CopyBlock, CallFails, Kill, Stops, walk, Later,
         WalkTypes, Exit
<1>2. \E x \in Later \cup {"done"}, r \in {"ok", "error", "killed"} :
        /\ pc' = [pc EXCEPT ![p] = x]
        /\ exit' = exit \/ exit' = [exit EXCEPT ![p] = r]
  BY DEF EndWalk, PrepareSession, Draw, NameOutput, Rename, OpenCopy, CopyBlock, CallFails, Kill, Stops, Later,
         Goto, Exit
<1>3. PICK x \in Later \cup {"done"} : pc' = [pc EXCEPT ![p] = x]
  BY <1>2
<1>4. WalkTypes'
  BY <1>1, <1>2 DEF WalkTypes
<1>5. \A r : <<>> # <<r>>
  OBVIOUS
<1>6. CommandsOK'
  BY <1>1, <1>3, <1>5 DEF CommandsOK, WalkTypes, Later
<1> QED BY <1>4, <1>6

LEMMA PublishKeepsWalk ==
  ASSUME WalkTypes, CommandsOK, NEW k \in Package, Publish(k)
  PROVE  WalkTypes' /\ CommandsOK'
<1>1. current[k] \in Revision /\ current[k] + 1 \in Revision
  BY GraphAssumption DEF Publish, WalkTypes, Revision
<1>2. current' = [current EXCEPT ![k] = current[k] + 1] /\ UNCHANGED <<command, pc, stack, known, text, exit>>
  BY DEF Publish, WalkTypes, walk
<1> QED BY <1>1, <1>2 DEF WalkTypes, CommandsOK

-----------------------------------------------------------------------------
(***************************************************************************)
(* The drawings.                                                           *)
(***************************************************************************)
LEMMA GraphIsDrawing ==
  ASSUME WalkTypes, CommandsOK, NEW p \in Pid, pc[p] \in Later
  PROVE  /\ Graph(p) \in Drawing /\ Path(p) \in File
         /\ Drawings(p) \subseteq Drawing /\ None \notin Drawings(p)
<1>1. command[p] \in CommandLine /\ command[p].root \in Package /\ text[p] \in Seq(Line)
  BY DEF WalkTypes, CommandsOK
<1>2. command[p].root \in Name /\ command[p].type \in Type
  BY <1>1, PathAssumption
<1>3. Graph(p) \in Drawing /\ Path(p) \in File
  BY <1>1, <1>2, PathIsFile DEF Graph, Drawing, Path
<1>4. CutShort(Graph(p)) \in Drawing
  <2>1. <<>> \in Seq(Line)
    OBVIOUS
  <2>2. PICK g : g = Graph(p)
    OBVIOUS
  <2>3. g \in [root : Name, type : Type, text : Seq(Line)]
    BY <1>3, <2>2 DEF Drawing
  <2>4. [g EXCEPT !.text = <<>>] \in [root : Name, type : Type, text : Seq(Line)]
    BY <2>1, <2>3
  <2> QED BY <2>2, <2>4 DEF CutShort, Drawing
<1> QED BY <1>3, <1>4, DrawingAssumption DEF Drawings

\* What the steps of p leave alone.
Others(p) ==
  \A q \in Pid \ {p} :
    /\ pc'[q] = pc[q] /\ command'[q] = command[q] /\ text'[q] = text[q]
    /\ made'[q] = made[q] /\ at'[q] = at[q]

\* A step that writes no output file and neither begins nor ends a copy.
LEMMA QuietStep ==
  ASSUME DependsInv, NEW p \in Pid, Others(p), UNCHANGED <<file, torn>>,
         pc[p] # "copy", pc'[p] # "copy",
         pc'[p] \in Drawn => made'[p] \in Drawings(p)',
         pc'[p] = "open" => IsFar(Path(p))'
  PROVE  DrawingsOK' /\ CopiesOK' /\ FilesOK'
<1> USE DEF DependsInv, Others
<1>1. \A q \in Pid \ {p} : Drawings(q)' = Drawings(q) /\ Path(q)' = Path(q)
  BY DEF Drawings, Graph, Path
<1>2. DrawingsOK'
  BY <1>1 DEF DrawingsOK, IsFar, Drawn
<1>3. CopiesOK'
  BY <1>1 DEF CopiesOK
<1>4. FilesOK'
  BY <1>1 DEF FilesOK, IsFar, Copies
<1> QED BY <1>2, <1>3, <1>4

\* A rename puts a whole drawing there.
LEMMA RenameStep ==
  ASSUME DependsInv, NEW p \in Pid, Rename(p), ~IsFar(Path(p))
  PROVE  DrawingTypes' /\ DrawingsOK' /\ CopiesOK' /\ FilesOK'
<1> USE DEF DependsInv
<1>1. /\ pc[p] = "rename" /\ made[p] \in Drawings(p) /\ made[p] \in Drawing /\ Path(p) \in File
      /\ file' = [file EXCEPT ![Path(p)] = Whole(made[p])] /\ made' = [made EXCEPT ![p] = None]
      /\ pc' = [pc EXCEPT ![p] = "done"] /\ UNCHANGED <<command, text, at, torn>>
  BY GraphIsDrawing DEF Rename, Exit, walk, DrawingsOK, Drawn, Later
<1>2. Whole(made[p]) \in [1 .. Blocks -> Drawing \cup {None}]
  BY <1>1 DEF Whole
<1>3. DrawingTypes'
  BY <1>1, <1>2 DEF DrawingTypes
<1>4. \A q \in Pid : /\ Drawings(q)' = Drawings(q) /\ Path(q)' = Path(q)
                     /\ q # p => pc'[q] = pc[q] /\ made'[q] = made[q]
                     /\ pc[q] = "copy" => q # p /\ file'[Path(q)] = file[Path(q)]
  <2> TAKE q \in Pid
  <2>1. Drawings(q)' = Drawings(q) /\ Path(q)' = Path(q)
    BY <1>1 DEF Drawings, Graph, Path
  <2>2. q # p => pc'[q] = pc[q] /\ made'[q] = made[q]
    BY <1>1 DEF DrawingTypes, WalkTypes
  <2>3. pc[q] = "copy" => q # p /\ file'[Path(q)] = file[Path(q)]
    BY <1>1 DEF DrawingsOK, DrawingTypes
  <2> QED BY <2>1, <2>2, <2>3
<1>5. pc'[p] = "done"
  BY <1>1 DEF WalkTypes
<1>6. DrawingsOK'
  BY <1>1, <1>4, <1>5 DEF DrawingsOK, Drawn, IsFar
<1>7. CopiesOK'
  BY <1>1, <1>4, <1>5 DEF CopiesOK
<1>8. FilesOK'
  BY <1>1, <1>4, <1>5 DEF FilesOK, Copies, IsFar, DrawingTypes
<1> QED BY <1>3, <1>6, <1>7, <1>8

\* A copy begins.
LEMMA OpenStep ==
  ASSUME DependsInv, NEW p \in Pid, OpenCopy(p)
  PROVE  DrawingTypes' /\ DrawingsOK' /\ CopiesOK' /\ FilesOK'
<1> USE PathAssumption DEF DependsInv
<1>1. /\ pc[p] = "open" /\ IsFar(Path(p)) /\ made[p] \in Drawings(p) /\ Path(p) \in File
      /\ file' = [file EXCEPT ![Path(p)] = Blank] /\ at' = [at EXCEPT ![p] = 1]
      /\ torn' = IF OthersCopy(p) THEN torn \cup {Path(p)} ELSE torn \ {Path(p)}
      /\ pc' = [pc EXCEPT ![p] = "copy"] /\ UNCHANGED <<command, text, made>>
  BY GraphIsDrawing DEF OpenCopy, Goto, walk, DrawingsOK, Drawn, Later
<1>2. Blank \in [1 .. Blocks -> Drawing \cup {None}]
  BY DEF Blank
<1>3. DrawingTypes'
  BY <1>1, <1>2 DEF DrawingTypes
<1>4. \A q \in Pid : /\ Drawings(q)' = Drawings(q) /\ Path(q)' = Path(q)
                     /\ q # p => pc'[q] = pc[q] /\ at'[q] = at[q] /\ made'[q] = made[q]
  BY <1>1 DEF Drawings, Graph, Path, DrawingTypes, WalkTypes
<1>5. pc'[p] = "copy" /\ at'[p] = 1 /\ file'[Path(p)] = Blank /\ \A f \in File \ {Path(p)} : file'[f] = file[f]
  BY <1>1 DEF WalkTypes, DrawingTypes
<1>6. DrawingsOK'
  BY <1>1, <1>2, <1>4, <1>5, GraphIsDrawing DEF DrawingsOK, Drawn, IsFar, Later
<1>7. CopiesOK'
  <2>1. ASSUME NEW q \in Pid \ {p}, pc[q] = "copy", Path(q) = Path(p)
        PROVE  Path(p) \in torn'
    BY <1>1, <2>1 DEF OthersCopy
  <2>2. ASSUME NEW q \in Pid, NEW r \in Pid, q # r, pc'[q] = "copy", pc'[r] = "copy", Path(q) = Path(r)
        PROVE  Path(q) \in torn'
    <3>1. CASE q = p \/ r = p
      BY <1>4, <2>1, <2>2, <3>1
    <3>2. CASE q # p /\ r # p
      BY <1>1, <1>4, <2>1, <2>2, <3>2 DEF CopiesOK
    <3> QED BY <3>1, <3>2
  <2>3. ASSUME NEW q \in Pid, pc'[q] = "copy", Path(q) \notin torn', NEW b \in 1 .. at'[q] - 1
        PROVE  file'[Path(q)][b] = made'[q]
    <3>1. q # p /\ pc[q] = "copy" /\ Path(q) # Path(p)
      BY <1>4, <1>5, <2>1, <2>3
    <3>2. Path(q) \notin torn /\ Path(q) \in File
      BY <1>1, <2>3, <3>1, GraphIsDrawing DEF Later
    <3> QED BY <1>4, <1>5, <2>3, <3>1, <3>2 DEF CopiesOK
  <2> QED BY <1>4, <2>2, <2>3 DEF CopiesOK
<1>8. FilesOK'
  BY <1>1, <1>4, <1>5 DEF FilesOK, Copies, IsFar
<1> QED BY <1>3, <1>6, <1>7, <1>8

\* A block is copied.  After the last one the file is whole, if no other copy came
\* between.
LEMMA CopyStep ==
  ASSUME DependsInv, NEW p \in Pid, CopyBlock(p)
  PROVE  /\ DrawingTypes' /\ DrawingsOK' /\ CopiesOK' /\ FilesOK'
         /\ at[p] = Blocks => Path(p) \in torn \/ file'[Path(p)] = Whole(made[p])
<1> USE PathAssumption DEF DependsInv
<1>0. PICK f : f = Path(p)
  OBVIOUS
<1>1. /\ pc[p] = "copy" /\ IsFar(f) /\ made[p] \in Drawings(p) /\ f \in File /\ made[p] \in Drawing
      /\ at[p] \in 1 .. Blocks /\ file[f] \in [1 .. Blocks -> Drawing \cup {None}]
      /\ at' = [at EXCEPT ![p] = at[p] + 1]
      /\ UNCHANGED <<command, text, made, torn>>
  BY <1>0, GraphIsDrawing DEF CopyBlock, walk, DrawingsOK, Drawn, Later, DrawingTypes
<1>2. PICK c : c = [file[f] EXCEPT ![at[p]] = made[p]]
  OBVIOUS
<1>3. /\ c \in [1 .. Blocks -> Drawing \cup {None}] /\ c[at[p]] = made[p]
      /\ \A b \in 1 .. Blocks : b # at[p] => c[b] = file[f][b]
  BY <1>0, <1>1, <1>2
<1>4. file' = [file EXCEPT ![f] = c]
  BY <1>0, <1>1, <1>2 DEF CopyBlock
<1>5. pc' = [pc EXCEPT ![p] = IF at[p] = Blocks THEN "done" ELSE "copy"]
  BY DEF CopyBlock, Goto, Exit
<1>6. DrawingTypes'
  BY <1>0, <1>1, <1>3, <1>4 DEF DrawingTypes
<1>7. \A q \in Pid : /\ Drawings(q)' = Drawings(q) /\ Path(q)' = Path(q)
                     /\ q # p => pc'[q] = pc[q] /\ at'[q] = at[q] /\ made'[q] = made[q]
  BY <1>0, <1>1, <1>5 DEF Drawings, Graph, Path, DrawingTypes, WalkTypes
<1>8. /\ pc'[p] = IF at[p] = Blocks THEN "done" ELSE "copy"
      /\ at'[p] = at[p] + 1 /\ file'[f] = c /\ \A g \in File \ {f} : file'[g] = file[g]
  BY <1>0, <1>1, <1>4, <1>5 DEF WalkTypes, DrawingTypes
<1>9. DrawingsOK'
  BY <1>0, <1>1, <1>3, <1>7, <1>8, GraphIsDrawing DEF DrawingsOK, Drawn, IsFar, Later
<1>10. f \notin torn => \A b \in 1 .. at[p] : c[b] = made[p]
  BY <1>0, <1>1, <1>3 DEF CopiesOK
<1>11. CopiesOK'
  <2>1. ASSUME NEW q \in Pid, NEW r \in Pid, q # r, pc'[q] = "copy", pc'[r] = "copy", Path(q) = Path(r)
        PROVE  Path(q) \in torn'
    BY <1>0, <1>1, <1>7, <2>1 DEF CopiesOK
  <2>2. ASSUME NEW q \in Pid, pc'[q] = "copy", Path(q) \notin torn, NEW b \in 1 .. at'[q] - 1
        PROVE  file'[Path(q)][b] = made'[q]
    <3>1. CASE q = p
      BY <1>0, <1>1, <1>8, <1>10, <2>2, <3>1
    <3>2. CASE q # p
      <4>1. pc[q] = "copy" /\ Path(q) # f /\ Path(q) \in File
        BY <1>0, <1>1, <1>7, <2>2, <3>2, GraphIsDrawing DEF CopiesOK, Later
      <4> QED BY <1>0, <1>7, <1>8, <2>2, <3>2, <4>1 DEF CopiesOK
    <3> QED BY <3>1, <3>2
  <2> QED BY <1>0, <1>1, <1>7, <2>1, <2>2 DEF CopiesOK
<1>12. at[p] = Blocks => f \in torn \/ file'[f] = Whole(made[p])
  BY <1>0, <1>3, <1>8, <1>10 DEF Whole
<1>13. FilesOK'
  <2>1. ASSUME NEW g \in File, g # f
        PROVE  \/ file'[g] = None
               \/ \E d \in Drawing : file'[g] = Whole(d)
               \/ IsFar(g) /\ (g \in torn' \/ \E q \in Pid : Copies(q, g)')
    BY <1>0, <1>1, <1>7, <1>8, <2>1 DEF FilesOK, Copies
  <2>2. \/ \E d \in Drawing : file'[f] = Whole(d)
        \/ IsFar(f) /\ (f \in torn' \/ \E q \in Pid : Copies(q, f)')
    BY <1>0, <1>1, <1>7, <1>8, <1>12 DEF Copies
  <2> QED BY <2>1, <2>2 DEF FilesOK, IsFar
<1> QED BY <1>0, <1>6, <1>9, <1>11, <1>12, <1>13

\* A copy is cut off.
LEMMA CutStep ==
  ASSUME DependsInv, NEW p \in Pid, NEW r, pc[p] = "copy", Stops(p, r)
  PROVE  DrawingTypes' /\ DrawingsOK' /\ CopiesOK' /\ FilesOK'
<1> USE DEF DependsInv
<1>1. /\ torn' = torn \cup {Path(p)} /\ pc' = [pc EXCEPT ![p] = "done"] /\ Path(p) \in File /\ IsFar(Path(p))
      /\ UNCHANGED <<command, text, made, at, file>>
  BY GraphIsDrawing DEF Stops, Exit, walk, DrawingsOK, Later
<1>2. \A q \in Pid : Drawings(q)' = Drawings(q) /\ Path(q)' = Path(q) /\ (pc'[q] = pc[q] \/ q = p) /\ pc'[p] = "done"
  BY <1>1 DEF Drawings, Graph, Path, WalkTypes
<1>3. DrawingTypes'
  BY <1>1 DEF DrawingTypes
<1>4. DrawingsOK'
  BY <1>1, <1>2 DEF DrawingsOK, Drawn, IsFar
<1>5. CopiesOK'
  BY <1>1, <1>2 DEF CopiesOK
<1>6. FilesOK'
  BY <1>1, <1>2 DEF FilesOK, Copies, IsFar
<1> QED BY <1>3, <1>4, <1>5, <1>6

-----------------------------------------------------------------------------
(***************************************************************************)
(* The invariant holds.                                                    *)
(***************************************************************************)
LEMMA DependsInvInit == Init => DependsInv
<1> SUFFICES ASSUME Init PROVE DependsInv
  OBVIOUS
<1>1. 1 \in Revision /\ <<>> \in Seq(Name) /\ <<>> \in Seq(Line)
  BY GraphAssumption DEF Revision
<1>2. WalkTypes
  BY <1>1 DEF Init, WalkTypes
<1>3. DrawingTypes
  BY DEF Init, DrawingTypes
<1>4. CommandsOK /\ DrawingsOK /\ CopiesOK /\ FilesOK
  BY DEF Init, CommandsOK, DrawingsOK, CopiesOK, FilesOK, Later, Drawn
<1> QED BY <1>2, <1>3, <1>4 DEF DependsInv

LEMMA NextKeepsDependsInv == DependsInv /\ [Next]_vars => DependsInv'
<1> SUFFICES ASSUME DependsInv, [Next]_vars PROVE DependsInv'
  OBVIOUS
<1> USE DEF DependsInv
<1>1. ASSUME NEW p \in Pid, NEW line \in CommandLine, Invoke(p, line)
      PROVE  DependsInv'
  <2>1. Others(p) /\ pc[p] = "idle" /\ pc'[p] = "walk" /\ UNCHANGED <<made, at, file, torn>>
    BY <1>1 DEF Invoke, Goto, out, Others, WalkTypes
  <2>2. DrawingTypes'
    BY <2>1 DEF DrawingTypes
  <2> QED BY <1>1, <2>1, <2>2, InvokeKeepsWalk, QuietStep DEF Drawn
<1>2. ASSUME NEW p \in Pid, Expand(p)
      PROVE  DependsInv'
  <2>1. Others(p) /\ pc[p] = "walk" /\ pc'[p] \in {"walk", "done"} /\ UNCHANGED <<made, at, file, torn>>
    BY <1>2 DEF Expand, Goto, Exit, walk, out, Others, WalkTypes
  <2>2. DrawingTypes'
    BY <2>1 DEF DrawingTypes
  <2> QED BY <1>2, <2>1, <2>2, ExpandKeepsWalk, QuietStep DEF Drawn
<1>3. ASSUME NEW p \in Pid, DrawingTypes' /\ DrawingsOK' /\ CopiesOK' /\ FilesOK',
             \/ EndWalk(p) \/ PrepareSession(p) \/ Draw(p) \/ NameOutput(p) \/ Rename(p) \/ OpenCopy(p)
             \/ CopyBlock(p) \/ CallFails(p) \/ Kill(p)
      PROVE  DependsInv'
  BY <1>3, DrawingKeepsWalk
<1>4. ASSUME NEW p \in Pid, EndWalk(p) \/ NameOutput(p) \/ (Rename(p) /\ IsFar(Path(p)))
      PROVE  DependsInv'
  <2>1. /\ Others(p) /\ pc[p] \in {"walk", "name", "rename"}
        /\ UNCHANGED <<command, text, made, at, file, torn>>
        /\ pc'[p] \in {"done", "session"} \/ (pc[p] = "name" /\ pc'[p] = "rename")
                                         \/ (pc[p] = "rename" /\ IsFar(Path(p)) /\ pc'[p] = "open")
    BY <1>4 DEF EndWalk, NameOutput, Rename, Goto, Exit, walk, out, Others, WalkTypes
  <2>2. DrawingTypes'
    BY <2>1 DEF DrawingTypes
  <2>3. DrawingsOK' /\ CopiesOK' /\ FilesOK'
    BY <2>1, QuietStep DEF DrawingsOK, Drawn, Drawings, Graph, Path, IsFar
  <2> QED BY <1>3, <1>4, <2>2, <2>3
<1>5. ASSUME NEW p \in Pid, PrepareSession(p) \/ Draw(p)
      PROVE  DependsInv'
  <2>1. /\ Others(p) /\ pc[p] \in {"session", "draw"} /\ pc'[p] \in {"draw", "done", "name"}
        /\ UNCHANGED <<command, text, at, file, torn>>
        /\ \/ made' = made \/ made' = [made EXCEPT ![p] = None]
           \/ \E g \in Drawings(p) : made' = [made EXCEPT ![p] = g]
        /\ pc'[p] = "name" => \E g \in Drawings(p) : made' = [made EXCEPT ![p] = g]
    BY <1>5 DEF PrepareSession, Draw, Goto, Exit, walk, Others, WalkTypes, DrawingTypes
  <2>2. Drawings(p) \subseteq Drawing
    BY <2>1, GraphIsDrawing DEF Later
  <2>3. DrawingTypes' /\ (pc'[p] = "name" => made'[p] \in Drawings(p))
    BY <2>1, <2>2 DEF DrawingTypes
  <2>4. DrawingsOK' /\ CopiesOK' /\ FilesOK'
    BY <2>1, <2>3, QuietStep DEF Drawn, Drawings, Graph
  <2> QED BY <1>3, <1>5, <2>3, <2>4
<1>6. ASSUME NEW p \in Pid, CallFails(p) \/ Kill(p)
      PROVE  DependsInv'
  <2>1. PICK r : Stops(p, r)
    BY <1>6 DEF CallFails, Kill
  <2>2. CASE pc[p] = "copy"
    BY <1>3, <1>6, <2>1, <2>2, CutStep
  <2>3. CASE pc[p] # "copy"
    <3>1. Others(p) /\ pc'[p] = "done" /\ UNCHANGED <<made, at, file, torn>>
      BY <2>1, <2>3 DEF Stops, Exit, walk, Others, WalkTypes
    <3>2. DrawingTypes'
      BY <3>1 DEF DrawingTypes
    <3>3. DrawingsOK' /\ CopiesOK' /\ FilesOK'
      BY <2>3, <3>1, QuietStep DEF Drawn
    <3> QED BY <1>3, <1>6, <3>2, <3>3
  <2> QED BY <2>2, <2>3
<1>7. ASSUME NEW p \in Pid, (Rename(p) /\ ~IsFar(Path(p))) \/ OpenCopy(p) \/ CopyBlock(p)
      PROVE  DependsInv'
  BY <1>3, <1>7, RenameStep, OpenStep, CopyStep
<1>8. ASSUME NEW p \in Pid, Step(p)
      PROVE  DependsInv'
  BY <1>2, <1>4, <1>5, <1>7, <1>8 DEF Step
<1>9. ASSUME \/ UNCHANGED vars
             \/ \E k \in Package : Publish(k)
      PROVE  DependsInv'
  <2>1. UNCHANGED <<command, pc, text, made, at, file, torn>>
    BY <1>9 DEF vars, Publish, walk, out
  <2>2. WalkTypes' /\ CommandsOK'
    <3>1. CASE UNCHANGED vars
      BY <3>1 DEF vars, walk, WalkTypes, CommandsOK
    <3> QED BY <1>9, <3>1, PublishKeepsWalk
  <2>3. DrawingTypes' /\ DrawingsOK' /\ CopiesOK' /\ FilesOK'
    BY <2>1 DEF DrawingTypes, DrawingsOK, CopiesOK, FilesOK, Drawings, Graph, Path, Copies, IsFar
  <2> QED BY <2>2, <2>3
<1> QED BY <1>1, <1>6, <1>8, <1>9 DEF Next

LEMMA DependsInvHolds == Spec => []DependsInv
BY DependsInvInit, NextKeepsDependsInv, PTL DEF Spec

-----------------------------------------------------------------------------
(***************************************************************************)
(* What follows from it.                                                   *)
(***************************************************************************)
\* An output file is one drawing, as one process has drawn it, unless it lies on another
\* device and its last copy goes on, was cut off or met another one.
THEOREM OutputStaysWhole == Spec => []OutputIsWhole
<1>1. ASSUME DependsInv PROVE OutputIsWhole
  <2> SUFFICES ASSUME NEW f \in File, NEW g \in Drawing, file[f] = Whole(g)
               PROVE  \E d \in {file[f][1]} : d # None /\ file[f] = Whole(d)
    BY <1>1 DEF DependsInv, FilesOK, OutputIsWhole, Copies
  <2>1. 1 \in 1 .. Blocks
    BY PathAssumption
  <2>2. file[f][1] = g
    BY <2>1 DEF Whole
  <2> QED BY <2>2, DrawingAssumption
<1> QED BY <1>1, DependsInvHolds, PTL

\* A command that succeeds and was asked for a file has left its graph there, however
\* many others write to it, unless two copies to another device met; of a box drawing
\* the end may be missing.
THEOREM SuccessIsWritten == Spec => OkMeansWritten
<1> DEFINE P == \A p \in Pid : exit[p] = "none" /\ exit'[p] = "ok" /\ WantsFile(p)
                  => Path(p) \in torn' \/ file'[Path(p)] \in {Whole(g) : g \in Drawings(p)}
<1>1. DependsInv /\ [Next]_vars => [P]_vars
  <2> SUFFICES ASSUME DependsInv, Next, NEW p \in Pid, exit[p] = "none", exit'[p] = "ok", WantsFile(p)
               PROVE  Path(p) \in torn' \/ file'[Path(p)] \in {Whole(g) : g \in Drawings(p)}
    BY DEF vars
  <2> USE DEF DependsInv, WalkTypes, Goto, Exit
  <2>1. PICK q \in Pid : Step(q)
    BY DEF Next, Invoke, CallFails, Kill, Stops, Publish
  <2>2. q = p
    BY <2>1 DEF Step, Expand, EndWalk, PrepareSession, Draw, NameOutput, Rename, OpenCopy, CopyBlock
  <2>3. Rename(p) \/ CopyBlock(p)
    <3>1. ~EndWalk(p) /\ ~Draw(p)
      BY DEF EndWalk, Draw, WantsFile
    <3>2. ~Expand(p) /\ ~PrepareSession(p) /\ ~NameOutput(p) /\ ~OpenCopy(p)
      BY DEF Expand, PrepareSession, NameOutput, OpenCopy
    <3> QED BY <2>1, <2>2, <3>1, <3>2 DEF Step
  <2>4. CASE Rename(p)
    <3>1. file' = [file EXCEPT ![Path(p)] = Whole(made[p])] /\ pc[p] = "rename"
      BY <2>4 DEF Rename
    <3>2. made[p] \in Drawings(p) /\ Path(p) \in File
      BY <3>1, GraphIsDrawing DEF DrawingsOK, Drawn, Later
    <3> QED BY <3>1, <3>2 DEF DrawingTypes
  <2>5. CASE CopyBlock(p)
    <3>1. at[p] = Blocks /\ torn' = torn /\ made[p] \in Drawings(p)
      BY <2>5 DEF CopyBlock, DrawingsOK, Drawn
    <3> QED BY <2>5, <3>1, CopyStep
  <2> QED BY <2>3, <2>4, <2>5
<1> QED BY <1>1, DependsInvHolds, PTL DEF Spec, OkMeansWritten

-----------------------------------------------------------------------------
(***************************************************************************)
(* The walk.  What has been read is reached, what the read formulas name   *)
(* has been read or is on the stack, and what needs something has its      *)
(* line.                                                                   *)
(***************************************************************************)
Walked(p) == pc[p] \in Later \cup {"walk"} \/ exit[p] = "ok"

ReadBy(p) == {k \in Package : known[p][k] # 0}

Seen(p) == ReadBy(p) \cup ToSet(stack[p])

Own(p, k) == <<k, known[p][k]>>

WalkOK(p) ==
  /\ pc[p] # "walk" => stack[p] = <<>>
  /\ command[p].root \in Seen(p) \cap Name
  /\ Seen(p) \subseteq Reached(p)
  /\ \A k \in ReadBy(p) :
       /\ ToSet(Deps(Own(p, k))) \subseteq Seen(p)
       /\ k \notin ToSet(Deps(Own(p, k)))
       /\ Deps(Own(p, k)) # <<>> => Own(p, k) \in ToSet(text[p])
  /\ \A line \in ToSet(text[p]) :
       line[1] \in ReadBy(p) /\ line = Own(p, line[1]) /\ Deps(line) # <<>>

WalksOK ==
  \A p \in Pid :
    /\ pc[p] = "idle" => ReadBy(p) = {}
    /\ exit[p] # "none" => pc[p] = "done"
    /\ Walked(p) => WalkOK(p)

\* What a sequence holds.
LEMMA ToSetOfStack ==
  ASSUME NEW s \in Seq(Name), s # <<>>, NEW d \in Seq(Name)
  PROVE  /\ ToSet(s) = ToSet(Front(s)) \cup {Last(s)}
         /\ ToSet(Front(s) \o d) = ToSet(Front(s)) \cup ToSet(d)
<1> DEFINE f == Front(s)
<1>1. Len(s) \in Nat /\ Len(s) > 0 /\ s \in [1 .. Len(s) -> Name] /\ DOMAIN s = 1 .. Len(s)
  BY EmptySeq, LenProperties
<1>2. f \in Seq(Name) /\ Len(f) = Len(s) - 1 /\ \A i \in 1 .. Len(s) - 1 : f[i] = s[i]
  <2>1. \A i \in 1 .. Len(s) - 1 : s[i] \in Name
    BY <1>1
  <2> QED BY <1>1, <2>1, SubSeqProperties DEF Front
<1>3. DOMAIN f = 1 .. Len(s) - 1
  BY <1>2, LenProperties
<1>4. ToSet(s) = ToSet(f) \cup {Last(s)}
  <2>1. 1 .. Len(s) = (1 .. Len(s) - 1) \cup {Len(s)}
    BY <1>1
  <2> HIDE DEF f
  <2> QED BY <1>1, <1>2, <1>3, <2>1 DEF ToSet, Last
<1>5. ToSet(f \o d) = ToSet(f) \cup ToSet(d)
  <2> HIDE DEF f
  <2>1. /\ f \o d \in Seq(Name) /\ Len(f \o d) = Len(f) + Len(d) /\ Len(f) \in Nat /\ Len(d) \in Nat
        /\ \A i \in 1 .. Len(f) + Len(d) : (f \o d)[i] = IF i <= Len(f) THEN f[i] ELSE d[i - Len(f)]
    BY <1>2, ConcatProperties, LenProperties
  <2>2. DOMAIN (f \o d) = 1 .. Len(f) + Len(d) /\ DOMAIN f = 1 .. Len(f) /\ DOMAIN d = 1 .. Len(d)
    BY <1>2, <2>1, LenProperties
  <2>3. ASSUME NEW i \in 1 .. Len(f) + Len(d)
        PROVE  (f \o d)[i] \in ToSet(f) \cup ToSet(d)
    <3>1. CASE i <= Len(f)
      BY <2>1, <2>2, <3>1 DEF ToSet
    <3>2. CASE ~(i <= Len(f))
      <4>1. i - Len(f) \in 1 .. Len(d)
        BY <2>1, <3>2
      <4> QED BY <2>1, <2>2, <3>2, <4>1 DEF ToSet
    <3> QED BY <3>1, <3>2
  <2>4. ASSUME NEW i \in 1 .. Len(f)
        PROVE  f[i] \in ToSet(f \o d)
    <3>1. i \in 1 .. Len(f) + Len(d) /\ (f \o d)[i] = f[i]
      BY <2>1
    <3> QED BY <2>2, <3>1 DEF ToSet
  <2>5. ASSUME NEW i \in 1 .. Len(d)
        PROVE  d[i] \in ToSet(f \o d)
    <3>1. /\ i + Len(f) \in 1 .. Len(f) + Len(d) /\ (f \o d)[i + Len(f)] = d[(i + Len(f)) - Len(f)]
          /\ (i + Len(f)) - Len(f) = i
      BY <2>1
    <3> QED BY <2>2, <3>1 DEF ToSet
  <2> QED BY <2>2, <2>3, <2>4, <2>5 DEF ToSet
<1> QED BY <1>4, <1>5

LEMMA ToSetOfText ==
  ASSUME NEW t \in Seq(Line), NEW line \in Line
  PROVE  ToSet(Append(t, line)) = ToSet(t) \cup {line}
<1>1. /\ Len(t) \in Nat /\ DOMAIN t = 1 .. Len(t) /\ DOMAIN Append(t, line) = 1 .. Len(t) + 1
      /\ \A i \in 1 .. Len(t) : Append(t, line)[i] = t[i]
      /\ Append(t, line)[Len(t) + 1] = line
  BY AppendProperties, LenProperties
<1>2. 1 .. Len(t) + 1 = (1 .. Len(t)) \cup {Len(t) + 1}
  BY <1>1
<1> QED BY <1>1, <1>2 DEF ToSet

LEMMA ToSetOfNothing == ToSet(<<>>) = {} /\ \A r : ToSet(<<r>>) = {r}
BY DEF ToSet

\* The more has been read, the more is reached.
LEMMA ReachedGrows ==
  ASSUME NEW p \in Pid, command'[p] = command[p],
         \A k \in ReadBy(p) : known'[p][k] = known[p][k]
  PROVE  Reached(p) \subseteq Reached(p)'
<1>1. ASSUME NEW S \in SUBSET Name, Closed(p, S)'
      PROVE  Closed(p, S)
  BY <1>1 DEF Closed, ReadBy, Deps
<1> QED BY <1>1 DEF Reached

\* What a package that is reached and read needs is reached.
LEMMA ReachedIsClosed ==
  ASSUME NEW p \in Pid, NEW k \in Reached(p) \cap ReadBy(p), Deps(Own(p, k)) \in Seq(Name)
  PROVE  ToSet(Deps(Own(p, k))) \subseteq Reached(p)
<1>1. ToSet(Deps(Own(p, k))) \subseteq Name
  BY ElementOfSeq, LenProperties DEF ToSet
<1>2. ASSUME NEW S \in SUBSET Name, command[p].root \in S, Closed(p, S)
      PROVE  ToSet(Deps(Own(p, k))) \subseteq S
  <2>1. k \in S
    BY <1>2 DEF Reached
  <2> QED BY <1>2, <2>1 DEF Closed, ReadBy, Own
<1> QED BY <1>1, <1>2 DEF Reached

\* The walk of one process is nothing to another.
LEMMA WalkIsLocal ==
  ASSUME NEW q \in Pid, WalkOK(q), pc'[q] # "walk" => stack'[q] = <<>>,
         command'[q] = command[q], stack'[q] = stack[q], known'[q] = known[q], text'[q] = text[q]
  PROVE  WalkOK(q)'
<1>1. ReadBy(q)' = ReadBy(q) /\ Seen(q)' = Seen(q) /\ \A k : Own(q, k)' = Own(q, k)
  BY DEF ReadBy, Seen, Own
<1>2. \A S : Closed(q, S)' <=> Closed(q, S)
  BY DEF Closed, Deps
<1>3. Reached(q)' = Reached(q)
  BY <1>2 DEF Reached
<1> QED BY <1>1, <1>3 DEF WalkOK, Deps

\* At the beginning only the package that was asked about is known of.
LEMMA InvokeBeginsWalk ==
  ASSUME WalkTypes, CommandsOK, WalksOK, NEW p \in Pid, NEW line \in CommandLine, Invoke(p, line)
  PROVE  WalkOK(p)'
<1>1. line.root \in Name
  BY PathAssumption
<1>2. /\ pc'[p] = "walk" /\ command'[p] = line /\ stack'[p] = <<line.root>> /\ known'[p] = known[p]
      /\ text'[p] = <<>> /\ ReadBy(p) = {}
  BY DEF Invoke, Goto, WalkTypes, CommandsOK, WalksOK
<1>3. ReadBy(p)' = {} /\ Seen(p)' = {line.root} /\ ToSet(text[p])' = {}
  BY <1>2, ToSetOfNothing DEF ReadBy, Seen
<1>4. line.root \in Reached(p)'
  BY <1>1, <1>2 DEF Reached
<1> QED BY <1>1, <1>2, <1>3, <1>4 DEF WalkOK

\* A name is taken from the stack, and what its formula needs put there.
LEMMA ExpandKeepsWalkOK ==
  ASSUME WalkTypes, WalksOK, NEW p \in Pid, Expand(p), pc'[p] = "walk"
  PROVE  WalkOK(p)'
<1> DEFINE k == Last(stack[p])
           r == RevisionOf(p, k)
           d == Deps(<<k, r>>)
<1>1. /\ pc[p] = "walk" /\ stack[p] # <<>> /\ command' = command /\ WalkOK(p)
      /\ stack[p] \in Seq(Name) /\ text[p] \in Seq(Line)
  BY DEF Expand, WalkTypes, WalksOK, Walked
<1>2. /\ k # Unknown /\ k \notin ToSet(d)
      /\ known' = [known EXCEPT ![p][k] = r]
      /\ stack' = [stack EXCEPT ![p] = Front(stack[p]) \o d]
      /\ text' = IF d = <<>> THEN text ELSE [text EXCEPT ![p] = Append(text[p], <<k, r>>)]
  BY <1>1 DEF Expand, Exit, StackAfter, WalkTypes
<1>3. k \in Package
  BY <1>1, <1>2, FrontOfStack DEF Name
<1>4. r \in Revision /\ <<k, r>> \in Line /\ d \in Seq(Name)
  BY <1>3, LineIsTyped
<1>5. r # 0 /\ (k \in ReadBy(p) => r = known[p][k])
  BY <1>3, <1>4, GraphAssumption DEF Revision, RevisionOf, ReadBy
<1>6. /\ known'[p][k] = r
      /\ \A l \in Package : l # k => known'[p][l] = known[p][l]
  BY <1>2, <1>3 DEF WalkTypes
<1>7. /\ ToSet(stack[p]) = ToSet(Front(stack[p])) \cup {k}
      /\ ToSet(stack'[p]) = ToSet(Front(stack[p])) \cup ToSet(d)
  BY <1>1, <1>2, <1>4, ToSetOfStack DEF WalkTypes
<1>8. ToSet(text'[p]) = ToSet(text[p]) \cup (IF d = <<>> THEN {} ELSE {<<k, r>>})
  BY <1>1, <1>2, <1>4, ToSetOfText DEF WalkTypes
<1>9. Deps(<<k, r>>) = d
  OBVIOUS
<1> HIDE DEF k, r, d
<1>10. ReadBy(p)' = ReadBy(p) \cup {k}
  BY <1>3, <1>5, <1>6 DEF ReadBy
<1>11. Seen(p)' = Seen(p) \cup ToSet(d)
  BY <1>7, <1>10 DEF Seen
<1>12. PICK K, R : K = k /\ R = r
  OBVIOUS
<1>13. Own(p, K)' = <<K, R>> /\ \A l \in ReadBy(p) : Own(p, l)' = Own(p, l)
  BY <1>5, <1>6, <1>12 DEF Own, ReadBy
<1>14. Reached(p) \subseteq Reached(p)'
  BY <1>1, <1>5, <1>6, ReachedGrows DEF ReadBy
<1>15. K \in Reached(p)' \cap ReadBy(p)'
  BY <1>1, <1>7, <1>10, <1>12, <1>14 DEF WalkOK, Seen
<1>16. ToSet(d) \subseteq Reached(p)'
  <2>1. ASSUME NEW S \in SUBSET Name, command'[p].root \in S, Closed(p, S)'
        PROVE  ToSet(d) \subseteq S
    <3>1. K \in S
      BY <1>15, <2>1 DEF Reached
    <3>2. K \in S \cap Package /\ known'[p][K] # 0 /\ Deps(<<K, known'[p][K]>>) = d
      BY <1>3, <1>5, <1>6, <1>9, <1>12, <3>1
    <3> QED BY <2>1, <3>2 DEF Closed, Deps
  <2>2. ToSet(d) \subseteq Name
    BY <1>4, ElementOfSeq, LenProperties DEF ToSet
  <2> QED BY <2>1, <2>2 DEF Reached
<1>17. command'[p].root \in Seen(p)' \cap Name
  BY <1>1, <1>11 DEF WalkOK
<1>18. Seen(p)' \subseteq Reached(p)'
  BY <1>1, <1>11, <1>14, <1>16 DEF WalkOK
<1>19. ASSUME NEW l \in ReadBy(p)'
       PROVE  /\ ToSet(Deps(Own(p, l)')) \subseteq Seen(p)'
              /\ l \notin ToSet(Deps(Own(p, l)'))
              /\ Deps(Own(p, l)') # <<>> => Own(p, l)' \in ToSet(text'[p])
  <2>1. CASE l = K
    BY <1>2, <1>8, <1>9, <1>11, <1>12, <1>13, <2>1
  <2>2. CASE l # K
    BY <1>1, <1>8, <1>10, <1>11, <1>12, <1>13, <2>2 DEF WalkOK
  <2> QED BY <2>1, <2>2
<1>20. ASSUME NEW line \in ToSet(text'[p])
       PROVE  line[1] \in ReadBy(p)' /\ line = Own(p, line[1])' /\ Deps(line) # <<>>
  <2>1. CASE line \in ToSet(text[p])
    BY <1>1, <1>10, <1>13, <2>1 DEF WalkOK
  <2>2. CASE line \notin ToSet(text[p])
    <3>1. line = <<K, R>> /\ d # <<>>
      BY <1>8, <1>12, <1>20, <2>2
    <3> QED BY <1>9, <1>10, <1>12, <1>13, <3>1
  <2> QED BY <2>1, <2>2
<1> QED BY <1>17, <1>18, <1>19, <1>20 DEF WalkOK, Deps

LEMMA NextKeepsWalksOK ==
  ASSUME DependsInv, WalksOK, [Next]_vars
  PROVE  WalksOK'
<1> USE DEF DependsInv
<1>1. ASSUME NEW p \in Pid,
             \A q \in Pid \ {p} : /\ pc'[q] = pc[q] /\ exit'[q] = exit[q] /\ command'[q] = command[q]
                                  /\ stack'[q] = stack[q] /\ known'[q] = known[q] /\ text'[q] = text[q],
             pc'[p] # "idle", exit'[p] # "none" => pc'[p] = "done",
             Walked(p)' => WalkOK(p)'
      PROVE  WalksOK'
  <2>1. ASSUME NEW q \in Pid, q # p
        PROVE  /\ pc'[q] = "idle" => ReadBy(q)' = {}
               /\ exit'[q] # "none" => pc'[q] = "done"
               /\ Walked(q)' => WalkOK(q)'
    <3>1. Walked(q)' => WalkOK(q)
      BY <1>1, <2>1 DEF WalksOK, Walked
    <3>2. Walked(q)' => WalkOK(q)'
      BY <1>1, <2>1, <3>1, WalkIsLocal DEF WalkOK
    <3> QED BY <1>1, <2>1, <3>2 DEF WalksOK, ReadBy
  <2> QED BY <1>1, <2>1 DEF WalksOK
<1>2. ASSUME NEW p \in Pid, NEW line \in CommandLine, Invoke(p, line)
      PROVE  WalksOK'
  <2>1. /\ \A q \in Pid \ {p} : /\ pc'[q] = pc[q] /\ exit'[q] = exit[q] /\ command'[q] = command[q]
                                /\ stack'[q] = stack[q] /\ known'[q] = known[q] /\ text'[q] = text[q]
        /\ pc[p] = "idle" /\ pc'[p] = "walk" /\ exit'[p] = exit[p]
    BY <1>2 DEF Invoke, Goto, WalkTypes
  <2> QED BY <1>1, <1>2, <2>1, InvokeBeginsWalk DEF WalksOK
<1>3. ASSUME NEW p \in Pid, Expand(p)
      PROVE  WalksOK'
  <2>1. /\ \A q \in Pid \ {p} : /\ pc'[q] = pc[q] /\ exit'[q] = exit[q] /\ command'[q] = command[q]
                                /\ stack'[q] = stack[q] /\ known'[q] = known[q] /\ text'[q] = text[q]
        /\ pc[p] = "walk"
        /\ (pc'[p] = "walk" /\ exit'[p] = exit[p]) \/ (pc'[p] = "done" /\ exit'[p] \in {"error", "not_available"})
    BY <1>3 DEF Expand, Goto, Exit, walk, StackAfter, WalkTypes
  <2>2. Walked(p)' => pc'[p] = "walk"
    BY <2>1 DEF Walked, Later, WalksOK
  <2> QED BY <1>1, <1>3, <2>1, <2>2, ExpandKeepsWalkOK DEF WalksOK
<1>4. ASSUME NEW p \in Pid,
             \/ EndWalk(p) \/ PrepareSession(p) \/ Draw(p) \/ NameOutput(p) \/ Rename(p) \/ OpenCopy(p)
             \/ CopyBlock(p) \/ CallFails(p) \/ Kill(p)
      PROVE  WalksOK'
  <2>1. /\ UNCHANGED <<command, stack, known, text>>
        /\ \A q \in Pid \ {p} : pc'[q] = pc[q] /\ exit'[q] = exit[q]
        /\ pc[p] \in Later \cup {"walk"} /\ pc'[p] \in Later \cup {"done"}
        /\ exit'[p] = exit[p] \/ pc'[p] = "done"
        /\ pc[p] = "walk" => stack[p] = <<>> \/ exit'[p] \in {"error", "killed"}
    BY <1>4 DEF EndWalk, PrepareSession, Draw, NameOutput, Rename, OpenCopy, CopyBlock, CallFails, Kill, Stops, walk,
                Later, Goto, Exit, WalkTypes
  <2>2. WalkOK(p) /\ (exit'[p] # "none" => pc'[p] = "done") /\ pc'[p] # "idle" /\ pc'[p] # "walk"
    BY <2>1 DEF WalksOK, Walked, Later
  <2>3. ASSUME Walked(p)'
        PROVE  stack'[p] = <<>>
    BY <2>1, <2>2, <2>3, <1>4 DEF WalkOK, Walked, Later, EndWalk, CallFails, Kill, Stops, Exit, WalkTypes, WalksOK
  <2>4. Walked(p)' => WalkOK(p)'
    BY <2>1, <2>2, <2>3, WalkIsLocal
  <2> QED BY <1>1, <2>1, <2>2, <2>4
<1>5. ASSUME UNCHANGED vars \/ \E k \in Package : Publish(k)
      PROVE  WalksOK'
  <2>1. UNCHANGED <<command, pc, stack, known, text, exit>>
    BY <1>5 DEF vars, walk, Publish
  <2>2. ASSUME NEW q \in Pid, Walked(q)
        PROVE  WalkOK(q)'
    BY <2>1, <2>2, WalkIsLocal DEF WalksOK, WalkOK
  <2> QED BY <2>1, <2>2 DEF WalksOK, Walked, ReadBy
<1>6. ASSUME NEW p \in Pid, Step(p)
      PROVE  WalksOK'
  BY <1>3, <1>4, <1>6 DEF Step
<1> QED BY <1>2, <1>4, <1>5, <1>6 DEF Next

\* Whatever the formulas are, with cycles or without, and however they change: a walk
\* that comes to its end has a line for every package that is reached and needs
\* something, and for no other one, and all that is reached has a formula.
THEOREM WalkPrintsReachable == Spec => []PrintsReachable
<1>1. Init => WalksOK
  BY DEF Init, WalksOK, Walked, ReadBy, Later
<1>2. ASSUME DependsInv, WalksOK
      PROVE  PrintsReachable
  <2> SUFFICES ASSUME NEW p \in Pid, pc[p] \notin {"idle", "walk", "done"} \/ exit[p] = "ok"
               PROVE  /\ Reached(p) \subseteq Package
                      /\ {line[1] : line \in ToSet(text[p])} =
                           {k \in Reached(p) : known[p][k] = 0 \/ Deps(<<k, known[p][k]>>) # <<>>}
                      /\ \A line \in ToSet(text[p]) : line[1] \notin ToSet(Deps(line))
    BY DEF PrintsReachable
  <2>1. WalkOK(p) /\ stack[p] = <<>>
    BY <1>2 DEF WalksOK, WalkOK, Walked, DependsInv, WalkTypes
  <2>2. Seen(p) = ReadBy(p)
    BY <2>1, ToSetOfNothing DEF Seen
  <2>3. Reached(p) = ReadBy(p)
    <3>1. Closed(p, ReadBy(p)) /\ ReadBy(p) \subseteq Name /\ command[p].root \in ReadBy(p)
      BY <2>1, <2>2 DEF WalkOK, Closed, ReadBy, Own, Name
    <3> QED BY <2>1, <2>2, <3>1 DEF Reached, WalkOK
  <2>4. {line[1] : line \in ToSet(text[p])} = {k \in ReadBy(p) : Deps(Own(p, k)) # <<>>}
    <3>1. ASSUME NEW line \in ToSet(text[p])
          PROVE  line[1] \in ReadBy(p) /\ Deps(Own(p, line[1])) # <<>>
      BY <2>1, <3>1 DEF WalkOK
    <3>2. ASSUME NEW k \in ReadBy(p), Deps(Own(p, k)) # <<>>
          PROVE  \E line \in ToSet(text[p]) : line[1] = k
      BY <2>1, <3>2 DEF WalkOK, Own
    <3> QED BY <3>1, <3>2
  <2>5. \A line \in ToSet(text[p]) : line[1] \notin ToSet(Deps(line))
    BY <2>1 DEF WalkOK
  <2>6. ReadBy(p) \subseteq Package /\ \A k \in ReadBy(p) : known[p][k] # 0
    BY DEF ReadBy
  <2> QED BY <2>3, <2>4, <2>5, <2>6 DEF Own
<1>3. DependsInv /\ WalksOK /\ [Next]_vars => WalksOK'
  BY NextKeepsWalksOK
<1> QED BY <1>1, <1>2, <1>3, DependsInvHolds, PTL DEF Spec

-----------------------------------------------------------------------------
(***************************************************************************)
(* How often a package is named.                                           *)
(***************************************************************************)
LEMMA NamedAtIsFinite ==
  ASSUME NEW s \in Seq(Name), NEW k
  PROVE  IsFiniteSet(NamedAt(s, k)) /\ Cardinality(NamedAt(s, k)) \in Nat
<1>1. NamedAt(s, k) \in SUBSET (1 .. Len(s)) /\ Len(s) \in Nat
  BY LenProperties DEF NamedAt
<1>2. IsFiniteSet(1 .. Len(s))
  BY <1>1, FS_Interval
<1> QED BY <1>1, <1>2, FS_Subset, FS_CardinalityType

LEMMA LinesAtIsFinite ==
  ASSUME NEW t \in Seq(Line), NEW k
  PROVE  IsFiniteSet(LinesAt(t, k)) /\ Cardinality(LinesAt(t, k)) \in Nat
<1>1. LinesAt(t, k) \in SUBSET (1 .. Len(t)) /\ Len(t) \in Nat
  BY LenProperties DEF LinesAt
<1>2. IsFiniteSet(1 .. Len(t))
  BY <1>1, FS_Interval
<1> QED BY <1>1, <1>2, FS_Subset, FS_CardinalityType

LEMMA DisjointSum ==
  ASSUME NEW S, NEW T, IsFiniteSet(S), IsFiniteSet(T), S \cap T = {}
  PROVE  /\ IsFiniteSet(S \cup T)
         /\ Cardinality(S \cup T) = Cardinality(S) + Cardinality(T)
<1>1. Cardinality(S \cap T) = 0
  BY FS_EmptySet
<1>2. Cardinality(S) \in Nat /\ Cardinality(T) \in Nat
  BY FS_CardinalityType
<1>3. IsFiniteSet(S \cup T) /\ Cardinality(S \cup T) = Cardinality(S) + Cardinality(T) - Cardinality(S \cap T)
  BY FS_Union, Zenon
<1>4. Cardinality(S) + Cardinality(T) - 0 = Cardinality(S) + Cardinality(T)
  BY <1>2
<1> QED BY <1>1, <1>3, <1>4

\* Concatenation adds.
LEMMA NamedInBoth ==
  ASSUME NEW a \in Seq(Name), NEW b \in Seq(Name), NEW k
  PROVE  Cardinality(NamedAt(a \o b, k)) = Cardinality(NamedAt(a, k)) + Cardinality(NamedAt(b, k))
<1> DEFINE moved == {i + Len(a) : i \in NamedAt(b, k)}
           move  == [i \in NamedAt(b, k) |-> i + Len(a)]
<1>1. /\ a \o b \in Seq(Name) /\ Len(a \o b) = Len(a) + Len(b) /\ Len(a) \in Nat /\ Len(b) \in Nat
      /\ \A i \in 1 .. Len(a) + Len(b) : (a \o b)[i] = IF i <= Len(a) THEN a[i] ELSE b[i - Len(a)]
  BY ConcatProperties, LenProperties
<1>2. DOMAIN (a \o b) = 1 .. Len(a) + Len(b) /\ DOMAIN a = 1 .. Len(a) /\ DOMAIN b = 1 .. Len(b)
  BY <1>1, LenProperties
<1>3. NamedAt(b, k) \subseteq 1 .. Len(b) /\ NamedAt(a, k) \subseteq 1 .. Len(a)
  BY <1>2 DEF NamedAt
<1>4. move \in Bijection(NamedAt(b, k), moved)
  <2>1. move \in [NamedAt(b, k) -> moved]
    OBVIOUS
  <2>2. \A i, j \in NamedAt(b, k) : move[i] = move[j] => i = j
    BY <1>1, <1>3
  <2>3. \A t \in moved : \E i \in NamedAt(b, k) : move[i] = t
    OBVIOUS
  <2> QED BY <2>1, <2>2, <2>3 DEF Bijection, Injection, Surjection, IsInjective
<1>5. IsFiniteSet(moved) /\ Cardinality(moved) = Cardinality(NamedAt(b, k))
  BY <1>4, FS_Bijection, NamedAtIsFinite DEF ExistsBijection
<1>6. NamedAt(a, k) \cap moved = {}
  BY <1>1, <1>3
<1>7. NamedAt(a \o b, k) = NamedAt(a, k) \cup moved
  <2>1. ASSUME NEW i \in NamedAt(a \o b, k)
        PROVE  i \in NamedAt(a, k) \cup moved
    <3>1. i \in 1 .. Len(a) + Len(b) /\ (a \o b)[i] = k
      BY <1>2, <2>1 DEF NamedAt
    <3>2. CASE i <= Len(a)
      BY <1>1, <1>2, <3>1, <3>2 DEF NamedAt
    <3>3. CASE ~(i <= Len(a))
      <4>1. i - Len(a) \in 1 .. Len(b) /\ b[i - Len(a)] = k /\ (i - Len(a)) + Len(a) = i
        BY <1>1, <3>1, <3>3
      <4>2. i - Len(a) \in NamedAt(b, k)
        BY <1>2, <4>1 DEF NamedAt
      <4> QED BY <4>1, <4>2
    <3> QED BY <3>2, <3>3
  <2>2. ASSUME NEW i \in NamedAt(a, k)
        PROVE  i \in NamedAt(a \o b, k)
    <3>1. i \in 1 .. Len(a) /\ a[i] = k
      BY <1>2, <2>2 DEF NamedAt
    <3>2. i \in 1 .. Len(a) + Len(b) /\ (a \o b)[i] = k
      BY <1>1, <3>1
    <3> QED BY <1>2, <3>2 DEF NamedAt
  <2>3. ASSUME NEW i \in NamedAt(b, k)
        PROVE  i + Len(a) \in NamedAt(a \o b, k)
    <3>1. i \in 1 .. Len(b) /\ b[i] = k
      BY <1>2, <2>3 DEF NamedAt
    <3>2. i + Len(a) \in 1 .. Len(a) + Len(b) /\ ~(i + Len(a) <= Len(a)) /\ (i + Len(a)) - Len(a) = i
      BY <1>1, <3>1
    <3>3. (a \o b)[i + Len(a)] = k
      BY <1>1, <3>1, <3>2
    <3> QED BY <1>2, <3>2, <3>3 DEF NamedAt
  <2> QED BY <2>1, <2>2, <2>3
<1> QED BY <1>5, <1>6, <1>7, NamedAtIsFinite, DisjointSum

\* The last of a sequence counts for itself.
LEMMA NamedBeforeLast ==
  ASSUME NEW s \in Seq(Name), s # <<>>, NEW k
  PROVE  Cardinality(NamedAt(s, k)) = Cardinality(NamedAt(Front(s), k)) + (IF Last(s) = k THEN 1 ELSE 0)
<1> DEFINE f == Front(s)
<1>1. Len(s) \in Nat /\ Len(s) > 0 /\ s \in [1 .. Len(s) -> Name] /\ DOMAIN s = 1 .. Len(s)
  BY EmptySeq, LenProperties
<1>2. f \in Seq(Name) /\ Len(f) = Len(s) - 1 /\ \A i \in 1 .. Len(s) - 1 : f[i] = s[i]
  <2>1. \A i \in 1 .. Len(s) - 1 : s[i] \in Name
    BY <1>1
  <2> QED BY <1>1, <2>1, SubSeqProperties DEF Front
<1>3. DOMAIN f = 1 .. Len(s) - 1
  BY <1>2, LenProperties
<1> HIDE DEF f
<1>4. NamedAt(s, k) = NamedAt(f, k) \cup (IF Last(s) = k THEN {Len(s)} ELSE {})
  <2>1. 1 .. Len(s) = (1 .. Len(s) - 1) \cup {Len(s)}
    BY <1>1
  <2> QED BY <1>1, <1>2, <1>3, <2>1 DEF NamedAt, Last
<1>5. Len(s) \notin NamedAt(f, k)
  BY <1>1, <1>3 DEF NamedAt
<1>6. IsFiniteSet(NamedAt(f, k)) /\ Cardinality(NamedAt(f, k)) \in Nat
  BY <1>2, NamedAtIsFinite
<1>7. CASE Last(s) = k
  <2>1. NamedAt(s, k) = NamedAt(f, k) \cup {Len(s)}
    BY <1>4, <1>7
  <2> QED BY <1>5, <1>6, <1>7, <2>1, FS_AddElement DEF f
<1>8. CASE Last(s) # k
  <2>1. NamedAt(s, k) = NamedAt(f, k)
    BY <1>4, <1>8
  <2> QED BY <1>6, <1>8, <2>1 DEF f
<1> QED BY <1>7, <1>8

\* A line more.
LEMMA OneMoreLine ==
  ASSUME NEW t \in Seq(Line), NEW line \in Line, Deps(line) \in Seq(Name), NEW k, IsFiniteSet(NeededAt(t, k))
  PROVE  /\ Cardinality(LinesAt(Append(t, line), k)) = Cardinality(LinesAt(t, k)) + (IF line[1] = k THEN 1 ELSE 0)
         /\ IsFiniteSet(NeededAt(Append(t, line), k))
         /\ Cardinality(NeededAt(Append(t, line), k))
              = Cardinality(NeededAt(t, k)) + Cardinality(NamedAt(Deps(line), k))
<1> DEFINE n == Len(t) + 1
           u == Append(t, line)
           S == NamedAt(Deps(line), k)
           tag == [i \in S |-> <<n, i>>]
<1>1. /\ Len(t) \in Nat /\ DOMAIN t = 1 .. Len(t) /\ DOMAIN u = 1 .. n
      /\ \A i \in 1 .. Len(t) : u[i] = t[i]
      /\ u[n] = line
  BY AppendProperties, LenProperties
<1>2. 1 .. n = (1 .. Len(t)) \cup {n} /\ n \notin 1 .. Len(t)
  BY <1>1
<1> HIDE DEF u, n
<1>3. LinesAt(u, k) = LinesAt(t, k) \cup (IF line[1] = k THEN {n} ELSE {})
  BY <1>1, <1>2 DEF LinesAt
<1>4. n \notin LinesAt(t, k)
  BY <1>1, <1>2 DEF LinesAt
<1>5. Cardinality(LinesAt(u, k)) = Cardinality(LinesAt(t, k)) + (IF line[1] = k THEN 1 ELSE 0)
  <2>1. CASE line[1] = k
    <3>1. LinesAt(u, k) = LinesAt(t, k) \cup {n}
      BY <1>3, <2>1
    <3> QED BY <1>4, <2>1, <3>1, LinesAtIsFinite, FS_AddElement
  <2>2. CASE line[1] # k
    <3>1. LinesAt(u, k) = LinesAt(t, k)
      BY <1>3, <2>2
    <3> QED BY <2>2, <3>1, LinesAtIsFinite
  <2> QED BY <2>1, <2>2
<1>6. NeededAt(u, k) = NeededAt(t, k) \cup ({n} \X S)
  BY <1>1, <1>2 DEF NeededAt
<1>7. NeededAt(t, k) \cap ({n} \X S) = {}
  BY <1>1, <1>2 DEF NeededAt
<1>8. tag \in Bijection(S, {n} \X S)
  <2> HIDE DEF S
  <2>1. tag \in [S -> {n} \X S]
    OBVIOUS
  <2>2. \A i, j \in S : tag[i] = tag[j] => i = j
    OBVIOUS
  <2>3. ASSUME NEW x \in {n} \X S
        PROVE  \E i \in S : tag[i] = x
    <3>1. PICK i \in S : x = <<n, i>>
      OBVIOUS
    <3> QED BY <3>1
  <2> HIDE DEF tag
  <2> QED BY <2>1, <2>2, <2>3 DEF Bijection, Injection, Surjection, IsInjective
<1>9. IsFiniteSet({n} \X S) /\ Cardinality({n} \X S) = Cardinality(S)
  BY <1>8, FS_Bijection, NamedAtIsFinite DEF ExistsBijection
<1>10. /\ IsFiniteSet(NeededAt(u, k))
       /\ Cardinality(NeededAt(u, k)) = Cardinality(NeededAt(t, k)) + Cardinality(S)
  <2>1. PICK R : R = {n} \X S
    OBVIOUS
  <2>2. IsFiniteSet(R) /\ NeededAt(t, k) \cap R = {} /\ NeededAt(u, k) = NeededAt(t, k) \cup R
    BY <1>6, <1>7, <1>9, <2>1
  <2> HIDE DEF S
  <2>3. PICK N : N = NeededAt(t, k)
    OBVIOUS
  <2>4. IsFiniteSet(N) /\ N \cap R = {}
    BY <2>2, <2>3
  <2>5. IsFiniteSet(N \cup R) /\ Cardinality(N \cup R) = Cardinality(N) + Cardinality(R)
    BY <2>2, <2>4, DisjointSum
  <2> QED BY <1>9, <2>1, <2>2, <2>3, <2>5
<1> QED BY <1>5, <1>10 DEF u

\* The balance of the walk: what has been named is expanded or on the stack.
Balanced(p, k) ==
  Cardinality(LinesAt(text[p], k)) + Cardinality(NamedAt(stack[p], k))
    = (IF command[p].root = k THEN 1 ELSE 0) + Cardinality(NeededAt(text[p], k))

BalanceOK ==
  \A p \in Pid, k \in Package : pc[p] = "walk" =>
    /\ IsFiniteSet(NeededAt(text[p], k))
    /\ known[p][k] = 0 \/ Deps(Own(p, k)) # <<>> => Balanced(p, k)

LEMMA CountsOfNothing ==
  ASSUME NEW r \in Name, NEW k \in Package
  PROVE  /\ Cardinality(LinesAt(<<>>, k)) = 0
         /\ IsFiniteSet(NeededAt(<<>>, k)) /\ Cardinality(NeededAt(<<>>, k)) = 0
         /\ Cardinality(NamedAt(<<r>>, k)) = IF r = k THEN 1 ELSE 0
<1>1. LinesAt(<<>>, k) = {} /\ NeededAt(<<>>, k) = {}
  BY DEF LinesAt, NeededAt
<1>2. NamedAt(<<r>>, k) = IF r = k THEN {1} ELSE {}
  BY DEF NamedAt
<1> QED BY <1>1, <1>2, FS_EmptySet, FS_Singleton

LEMMA ExpandKeepsBalance ==
  ASSUME WalkTypes, BalanceOK, NEW p \in Pid, Expand(p), pc'[p] = "walk", NEW l \in Package
  PROVE  /\ IsFiniteSet(NeededAt(text[p], l))'
         /\ known'[p][l] = 0 \/ Deps(Own(p, l))' # <<>> => Balanced(p, l)'
<1> DEFINE k == Last(stack[p])
           r == RevisionOf(p, k)
           d == Deps(<<k, r>>)
           f == Front(stack[p])
<1>1. /\ pc[p] = "walk" /\ stack[p] # <<>> /\ command' = command
      /\ stack[p] \in Seq(Name) /\ text[p] \in Seq(Line) /\ IsFiniteSet(NeededAt(text[p], l))
  BY DEF Expand, WalkTypes, BalanceOK
<1>2. /\ k # Unknown /\ known' = [known EXCEPT ![p][k] = r]
      /\ stack' = [stack EXCEPT ![p] = f \o d]
      /\ text' = IF d = <<>> THEN text ELSE [text EXCEPT ![p] = Append(text[p], <<k, r>>)]
  BY <1>1 DEF Expand, Exit, StackAfter, WalkTypes
<1>3. k \in Package /\ f \in Seq(Name)
  BY <1>1, <1>2, FrontOfStack DEF Name
<1>4. r \in Revision /\ <<k, r>> \in Line /\ d \in Seq(Name)
  BY <1>3, LineIsTyped
<1>5. r # 0 /\ (known[p][k] # 0 => r = known[p][k])
  BY <1>3, <1>4, GraphAssumption DEF Revision, RevisionOf
<1>6. known'[p][k] = r /\ (l # k => known'[p][l] = known[p][l])
  BY <1>2, <1>3 DEF WalkTypes
<1>7. /\ stack'[p] = f \o d
      /\ text'[p] = IF d = <<>> THEN text[p] ELSE Append(text[p], <<k, r>>)
  BY <1>2 DEF WalkTypes
<1>8. /\ Cardinality(NamedAt(stack[p], l)) = Cardinality(NamedAt(f, l)) + (IF k = l THEN 1 ELSE 0)
      /\ Cardinality(NamedAt(f \o d, l)) = Cardinality(NamedAt(f, l)) + Cardinality(NamedAt(d, l))
  BY <1>1, <1>3, <1>4, NamedBeforeLast, NamedInBoth
<1>9. /\ Cardinality(NamedAt(f, l)) \in Nat /\ Cardinality(NamedAt(d, l)) \in Nat
      /\ Cardinality(LinesAt(text[p], l)) \in Nat /\ Cardinality(NeededAt(text[p], l)) \in Nat
  BY <1>1, <1>3, <1>4, NamedAtIsFinite, LinesAtIsFinite, FS_CardinalityType
<1>10. Deps(<<k, r>>) = d /\ <<k, r>>[1] = k
  OBVIOUS
<1>11. PICK line : line = <<k, r>>
  OBVIOUS
<1> HIDE DEF k, r, d, f
<1>12. CASE d = <<>>
  <2>1. text'[p] = text[p] /\ Cardinality(NamedAt(d, l)) = 0
    <3>1. NamedAt(<<>>, l) = {}
      BY DEF NamedAt
    <3> QED BY <1>7, <1>12, <3>1, FS_EmptySet
  <2>2. IsFiniteSet(NeededAt(text'[p], l))
    BY <1>1, <2>1
  <2>3. CASE l = k
    BY <1>5, <1>6, <1>10, <1>12, <2>2, <2>3 DEF Own, Deps, NeededAt, NamedAt
  <2>4. CASE l # k
    <3>1. ASSUME known'[p][l] = 0 \/ Deps(Own(p, l))' # <<>>
          PROVE  Balanced(p, l)
      BY <1>1, <1>6, <2>4, <3>1 DEF BalanceOK, Own, Deps
    <3>2. ASSUME Balanced(p, l)
          PROVE  Balanced(p, l)'
      <4>1. /\ Balanced(p, l)' <=>
                 Cardinality(LinesAt(text'[p], l)) + Cardinality(NamedAt(stack'[p], l))
                   = (IF command'[p].root = l THEN 1 ELSE 0) + Cardinality(NeededAt(text'[p], l))
        BY DEF Balanced, LinesAt, NeededAt, NamedAt, Deps
      <4> QED BY <1>1, <1>7, <1>8, <1>9, <2>1, <2>4, <3>2, <4>1 DEF Balanced
    <3> QED BY <2>2, <3>1, <3>2 DEF NeededAt, NamedAt, Deps
  <2> QED BY <2>3, <2>4
<1>13. CASE d # <<>>
  <2>1. text'[p] = Append(text[p], line) /\ line \in Line /\ Deps(line) = d /\ line[1] = k
    BY <1>4, <1>7, <1>10, <1>11, <1>13
  <2>2. /\ Cardinality(LinesAt(text'[p], l)) = Cardinality(LinesAt(text[p], l)) + (IF k = l THEN 1 ELSE 0)
        /\ IsFiniteSet(NeededAt(text'[p], l))
        /\ Cardinality(NeededAt(text'[p], l)) = Cardinality(NeededAt(text[p], l)) + Cardinality(NamedAt(d, l))
    BY <1>1, <1>4, <2>1, OneMoreLine
  <2>3. ASSUME known'[p][l] = 0 \/ Deps(Own(p, l))' # <<>>
        PROVE  Balanced(p, l)
    <3>1. CASE l # k
      BY <1>1, <1>6, <2>3, <3>1 DEF BalanceOK, Own, Deps
    <3>2. CASE l = k
      <4>1. known[p][l] = 0 \/ Own(p, l) = <<k, r>>
        BY <1>5, <3>2 DEF Own
      <4> QED BY <1>1, <1>10, <1>13, <4>1 DEF BalanceOK
    <3> QED BY <3>1, <3>2
  <2>4. ASSUME Balanced(p, l)
        PROVE  Balanced(p, l)'
    <3>1. /\ Balanced(p, l)' <=>
               Cardinality(LinesAt(text'[p], l)) + Cardinality(NamedAt(stack'[p], l))
                 = (IF command'[p].root = l THEN 1 ELSE 0) + Cardinality(NeededAt(text'[p], l))
      BY DEF Balanced, LinesAt, NeededAt, NamedAt, Deps
    <3> QED BY <1>1, <1>7, <1>8, <1>9, <2>2, <2>4, <3>1 DEF Balanced
  <2> QED BY <2>2, <2>3, <2>4 DEF NeededAt, NamedAt, Deps
<1> QED BY <1>12, <1>13

LEMMA NextKeepsBalance ==
  ASSUME DependsInv, WalksOK, BalanceOK, [Next]_vars
  PROVE  BalanceOK'
<1> USE DEF DependsInv
<1>1. ASSUME NEW p \in Pid, \A q \in Pid \ {p} : pc'[q] = pc[q] /\ command'[q] = command[q]
                                 /\ stack'[q] = stack[q] /\ known'[q] = known[q] /\ text'[q] = text[q],
             \A k \in Package : pc'[p] = "walk" =>
               /\ IsFiniteSet(NeededAt(text[p], k))'
               /\ known'[p][k] = 0 \/ Deps(Own(p, k))' # <<>> => Balanced(p, k)'
      PROVE  BalanceOK'
  <2>1. ASSUME NEW q \in Pid, q # p, pc'[q] = "walk", NEW k \in Package
        PROVE  /\ IsFiniteSet(NeededAt(text[q], k))'
               /\ known'[q][k] = 0 \/ Deps(Own(q, k))' # <<>> => Balanced(q, k)'
    <3>1. /\ pc'[q] = pc[q] /\ command'[q] = command[q] /\ stack'[q] = stack[q]
          /\ known'[q] = known[q] /\ text'[q] = text[q]
      BY <1>1, <2>1
    <3>2. NeededAt(text[q], k)' = NeededAt(text[q], k)
      BY <3>1 DEF NeededAt, NamedAt, Deps
    <3>3. LinesAt(text[q], k)' = LinesAt(text[q], k) /\ NamedAt(stack[q], k)' = NamedAt(stack[q], k)
      BY <3>1 DEF LinesAt, NamedAt
    <3>4. Deps(Own(q, k))' = Deps(Own(q, k))
      BY <3>1 DEF Deps, Own
    <3>5. Balanced(q, k)' <=> Balanced(q, k)
      BY <3>1, <3>2, <3>3 DEF Balanced
    <3>6. /\ IsFiniteSet(NeededAt(text[q], k))
          /\ known[q][k] = 0 \/ Deps(Own(q, k)) # <<>> => Balanced(q, k)
      BY <2>1, <3>1 DEF BalanceOK
    <3> QED BY <3>1, <3>2, <3>4, <3>5, <3>6
  <2> QED BY <1>1, <2>1 DEF BalanceOK
<1>2. ASSUME NEW p \in Pid, NEW line \in CommandLine, Invoke(p, line)
      PROVE  BalanceOK'
  <2>1. /\ \A q \in Pid \ {p} : /\ pc'[q] = pc[q] /\ command'[q] = command[q]
                                /\ stack'[q] = stack[q] /\ known'[q] = known[q] /\ text'[q] = text[q]
        /\ command'[p] = line /\ stack'[p] = <<line.root>> /\ text'[p] = <<>>
    BY <1>2 DEF Invoke, Goto, WalkTypes, CommandsOK
  <2>2. line.root \in Name
    BY PathAssumption
  <2>3. ASSUME NEW k \in Package
        PROVE  IsFiniteSet(NeededAt(text'[p], k)) /\ Balanced(p, k)'
    <3>1. /\ Cardinality(LinesAt(text'[p], k)) = 0 /\ IsFiniteSet(NeededAt(text'[p], k))
          /\ Cardinality(NeededAt(text'[p], k)) = 0
          /\ Cardinality(NamedAt(stack'[p], k)) = IF line.root = k THEN 1 ELSE 0
      BY <2>1, <2>2, CountsOfNothing
    <3> QED BY <2>1, <3>1 DEF Balanced, NeededAt, NamedAt, LinesAt, Deps
  <2>4. ASSUME NEW k \in Package
        PROVE  IsFiniteSet(NeededAt(text[p], k))' /\ Balanced(p, k)'
    BY <2>3 DEF NeededAt, NamedAt, Deps
  <2> QED BY <1>1, <2>1, <2>4
<1>3. ASSUME NEW p \in Pid, Expand(p)
      PROVE  BalanceOK'
  <2>1. \A q \in Pid \ {p} : /\ pc'[q] = pc[q] /\ command'[q] = command[q]
                             /\ stack'[q] = stack[q] /\ known'[q] = known[q] /\ text'[q] = text[q]
    BY <1>3 DEF Expand, Goto, Exit, walk, StackAfter, WalkTypes
  <2> QED BY <1>1, <1>3, <2>1, ExpandKeepsBalance
<1>4. ASSUME NEW p \in Pid,
             \/ EndWalk(p) \/ PrepareSession(p) \/ Draw(p) \/ NameOutput(p) \/ Rename(p) \/ OpenCopy(p)
             \/ CopyBlock(p) \/ CallFails(p) \/ Kill(p)
      PROVE  BalanceOK'
  <2>1. /\ UNCHANGED <<command, stack, known, text>>
        /\ \A q \in Pid \ {p} : pc'[q] = pc[q]
        /\ pc'[p] # "walk"
    BY <1>4 DEF EndWalk, PrepareSession, Draw, NameOutput, Rename, OpenCopy, CopyBlock, CallFails, Kill, Stops, walk,
                Later, Goto, Exit, WalkTypes
  <2> QED BY <1>1, <2>1
<1>5. ASSUME UNCHANGED vars \/ \E k \in Package : Publish(k)
      PROVE  BalanceOK'
  <2>1. UNCHANGED <<command, pc, stack, known, text>>
    BY <1>5 DEF vars, walk, Publish
  <2>2. \A q \in Pid, k \in Package :
          /\ NeededAt(text[q], k)' = NeededAt(text[q], k)
          /\ Deps(Own(q, k))' = Deps(Own(q, k)) /\ Balanced(q, k)' = Balanced(q, k)
    BY <2>1 DEF NeededAt, NamedAt, LinesAt, Deps, Own, Balanced
  <2> QED BY <2>1, <2>2 DEF BalanceOK
<1>6. ASSUME NEW p \in Pid, Step(p)
      PROVE  BalanceOK'
  BY <1>3, <1>4, <1>6 DEF Step
<1> QED BY <1>2, <1>4, <1>5, <1>6 DEF Next

\* Whatever the formulas are: at every round of a walk a package that needs something
\* has a line for every time it has been named, save those still on the stack.
THEOREM WalkForgetsNothing == Spec => []EveryMentionExpanded
<1>1. Init => WalksOK /\ BalanceOK
  BY DEF Init, WalksOK, BalanceOK, Walked, ReadBy, Later
<1>2. BalanceOK => EveryMentionExpanded
  BY DEF BalanceOK, Balanced, EveryMentionExpanded, Own
<1>3. DependsInv /\ WalksOK /\ BalanceOK /\ [Next]_vars => WalksOK' /\ BalanceOK'
  BY NextKeepsWalksOK, NextKeepsBalance
<1> QED BY <1>1, <1>2, <1>3, DependsInvHolds, PTL DEF Spec
=============================================================================
