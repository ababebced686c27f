-------------------------- MODULE UpgradeSelfProofs --------------------------
(***************************************************************************)
(* For any number of processes, releases and blocks: what an upgrade that  *)
(* is killed, or that others meet with, leaves under the program's path.   *)
(*                                                                         *)
(* The argument: an executable is whole before it is there on one device,  *)
(* and comes to be there block by block on two; from the deletion on there *)
(* is a process that is at it, or was when it stopped.                     *)
(***************************************************************************)
EXTENDS UpgradeSelf, FiniteSetTheorems, TLAPS

-----------------------------------------------------------------------------
(***************************************************************************)
(* The inductive invariant.                                                *)
(***************************************************************************)
Replacing == {"open", "copy", "chmod"}

\* An executable is under a path only after its process has put it there.
Placed == {"copy", "chmod", "done"}

\* Where the release that is to be fetched is known, and known to be newer.
Chosen == {"unpack", "realpath", "rename", "unlink_self", "open"}

Steps == {"stat", "unlink", "mkdir", "session", "ask", "compare", "copy", "chmod"} \cup Chosen

Tag == Release \cup {NoTag}

ExecutableFile == [version : Release, blocks : Nat, executable : BOOLEAN]

TypesOK ==
  /\ far \in BOOLEAN /\ latest \in Tag
  /\ program \in Image \cup {None} /\ stray \in Image \cup {None}
  /\ file \in [Image -> ExecutableFile]
  /\ image \in [Pid -> Image \cup {None}]
  /\ seen \in [Pid -> Tag]
  /\ target \in [Pid -> {"program", "stray"}]
  /\ pc \in [Pid -> Steps \cup {"idle", "done"}]
  /\ exit \in [Pid -> {"none", "ok", "error", "killed", "no_run"}]
  /\ run \in {"absent", "dir", "file", "dangling"}

\* Nothing is copied on one device; a copy is complete when its mode is set.
CopiesOK ==
  \A p \in Pid :
    /\ pc[p] \in Replacing \cup {"unlink_self"} => far
    /\ pc[p] = "copy" => file[p].blocks < Blocks
    /\ pc[p] = "chmod" => file[p].blocks = Blocks

PathsOK ==
  /\ program \in Pid => target[program] = "program" /\ pc[program] \in Placed
  /\ stray \in Pid => target[stray] = "stray" /\ pc[stray] \in Placed

\* What somebody runs was whole when it was started, and stays so.
ImagesOK ==
  /\ Runnable(Old)
  /\ \A p \in Pid :
       /\ p \in Running => image[p] # None
       /\ image[p] # None => Runnable(image[p])
       /\ image[p] \in Pid => pc[image[p]] \in Placed

\* If the program cannot be run, somebody is at it or was cut off.
ProgramOK ==
  /\ program = None =>
       far /\ \E p \in Pid : target[p] = "program" /\ (pc[p] = "open" \/ p \in cut)
  /\ program \in Pid /\ ~Runnable(program) =>
       far /\ (pc[program] \in {"copy", "chmod"} \/ program \in cut)
  /\ \A p \in cut \cap Pid : pc[p] = "done"

ReleasesOK ==
  \A p \in Pid :
    /\ pc[p] \in Chosen \cup {"compare", "copy", "chmod"} => seen[p] \in Release
    /\ pc[p] \in Chosen => Newer(seen[p], file[image[p]].version)
    /\ pc[p] \in {"copy", "chmod"} => file[p].version = seen[p]

\* Who has met nobody finds under the path what he left there.
AloneOK ==
  \A p \in Pid : p \notin met =>
    /\ p \in Running /\ pc[p] \notin Replacing => program = image[p]
    /\ pc[p] \in Replacing \cup {"rename", "unlink_self"} => target[p] = "program"
    /\ pc[p] = "open" => program = None
    /\ pc[p] \in {"copy", "chmod"} => program = p

\* One upgrade at most has deleted a file in the way of run/.
ExitsOK ==
  /\ \A p \in Pid : exit[p] # "none" => pc[p] = "done"
  /\ \A p \in Pid : exit[p] = "no_run" => run \in {"absent", "dir"}
  /\ \A p, q \in Pid : exit[p] = "no_run" /\ exit[q] = "no_run" => p = q

UpgradeInv ==
  TypesOK /\ CopiesOK /\ PathsOK /\ ImagesOK /\ ProgramOK /\ ReleasesOK /\ AloneOK /\ ExitsOK
-----------------------------------------------------------------------------
(***************************************************************************)
(* The comparison of releases.                                             *)
(***************************************************************************)
LEMMA ReleaseParts ==
  ASSUME NEW v \in Release
  PROVE  v[1] \in Nat /\ v[2] \in Nat /\ v[3] \in Nat
BY ReleaseAssumption

LEMMA ComparisonIsRight ==
  ASSUME NEW v \in Release, NEW w \in Release
  PROVE  AlreadyLatest(v, w) <=> ~Newer(v, w)
<1>1. Newer(v, w) <=> \/ v[1] > w[1]
                      \/ v[2] > w[2] /\ v[1] = w[1]
                      \/ v[3] > w[3] /\ v[1] = w[1] /\ v[2] = w[2]
  <2>1. \A n : n \in 1 .. 3 <=> n = 1 \/ n = 2 \/ n = 3
    OBVIOUS
  <2>2. /\ \A i : i \notin 1 .. (1 - 1)
        /\ \A i : i \in 1 .. (2 - 1) <=> i = 1
        /\ \A i : i \in 1 .. (3 - 1) <=> i = 1 \/ i = 2
    OBVIOUS
  <2> QED BY <2>1, <2>2 DEF Newer
<1> QED BY <1>1, ReleaseParts DEF AlreadyLatest

LEMMA NotNewerThanItself ==
  ASSUME NEW v \in Release
  PROVE  ~Newer(v, v)
BY ReleaseParts DEF Newer

(***************************************************************************)
(* The two ways an executable is changed where it is.                      *)
(***************************************************************************)
LEMMA MadeExecutable ==
  ASSUME NEW r \in ExecutableFile
  PROVE  LET f == [r EXCEPT !.executable = TRUE]
         IN  /\ f \in ExecutableFile /\ f.executable
             /\ f.version = r.version /\ f.blocks = r.blocks
<1>1. r = [version |-> r.version, blocks |-> r.blocks, executable |-> r.executable]
  BY DEF ExecutableFile
<1>2. r.version \in Release /\ r.blocks \in Nat
  BY DEF ExecutableFile
<1>3. [r EXCEPT !.executable = TRUE] = [version |-> r.version, blocks |-> r.blocks, executable |-> TRUE]
  <2>1. \A v : [r EXCEPT !.executable = v] = [version |-> r.version, blocks |-> r.blocks, executable |-> v]
    BY <1>1
  <2> QED BY <2>1
<1>4. [version |-> r.version, blocks |-> r.blocks, executable |-> TRUE] \in ExecutableFile
  BY <1>2 DEF ExecutableFile
<1> QED BY <1>3, <1>4

LEMMA OneMoreBlock ==
  ASSUME NEW r \in ExecutableFile
  PROVE  LET f == [r EXCEPT !.blocks = @ + 1]
         IN  /\ f \in ExecutableFile /\ f.blocks = r.blocks + 1
             /\ f.version = r.version /\ f.executable = r.executable
<1>1. r = [version |-> r.version, blocks |-> r.blocks, executable |-> r.executable]
  BY DEF ExecutableFile
<1>2. r.version \in Release /\ r.blocks \in Nat /\ r.executable \in BOOLEAN
  BY DEF ExecutableFile
<1>3. [r EXCEPT !.blocks = @ + 1] = [version |-> r.version, blocks |-> r.blocks + 1, executable |-> r.executable]
  BY <1>1
<1>4. [version |-> r.version, blocks |-> r.blocks + 1, executable |-> r.executable] \in ExecutableFile
  BY <1>2 DEF ExecutableFile
<1> QED BY <1>3, <1>4

LEMMA KeepsTypesOK ==
  ASSUME UpgradeInv, NEW p \in Pid, Launch(p) \/ Step(p) \/ Stop(p, "error") \/ Stop(p, "killed")
  PROVE  TypesOK'
<1> USE ReleaseAssumption DEF UpgradeInv, TypesOK, Steps, Chosen, Image, Goto, Exit, disk, own, past
<1>1. CASE Launch(p)
  BY <1>1 DEF Launch, Runnable, Image
<1>2. CASE StatRun(p)
  BY <1>2 DEF StatRun
<1>3. CASE UnlinkRun(p)
  BY <1>3 DEF UnlinkRun
<1>4. CASE MakeRun(p)
  BY <1>4 DEF MakeRun
<1>5. CASE MakeSession(p)
  BY <1>5 DEF MakeSession
<1>6. CASE AskLatest(p)
  BY <1>6 DEF AskLatest, Tag
<1>7. CASE Compare(p)
  BY <1>7 DEF Compare
<1>8. CASE FetchAndUnpack(p)
  BY <1>8 DEF FetchAndUnpack
<1>9. CASE SelfRealpath(p)
  BY <1>9 DEF SelfRealpath
<1>10. CASE Rename(p)
  <2>1. p \in Image /\ Whole(seen[p]) \in ExecutableFile
    BY <1>10 DEF Rename, Whole, ExecutableFile, ReleasesOK
  <2>2. file' \in [Image -> ExecutableFile]
    BY <1>10, <2>1 DEF Rename
  <2>3. program' \in Image \cup {None} /\ stray' \in Image \cup {None}
    BY <1>10, <2>1 DEF Rename, PutBy
  <2> QED BY <1>10, <2>2, <2>3 DEF Rename
<1>11. CASE UnlinkSelf(p)
  BY <1>11 DEF UnlinkSelf, PutBy, At
<1>12. CASE OpenCopy(p)
  BY <1>12 DEF OpenCopy, PutBy, ExecutableFile, ReleasesOK
<1>13. CASE CopyBlock(p)
  <2>1. file' \in [Image -> ExecutableFile]
    BY <1>13, OneMoreBlock DEF CopyBlock
  <2> QED BY <1>13, <2>1 DEF CopyBlock
<1>14. CASE Chmod(p)
  <2>1. ASSUME NEW i \in Image, file' = [file EXCEPT ![i].executable = TRUE]
        PROVE  file' \in [Image -> ExecutableFile]
    BY <2>1, MadeExecutable
  <2>2. file' \in [Image -> ExecutableFile]
    BY <1>14, <2>1 DEF Chmod, At
  <2> QED BY <1>14, <2>2 DEF Chmod
<1>15. CASE Stop(p, "error")
  BY <1>15 DEF Stop, Running
<1>16. CASE Stop(p, "killed")
  BY <1>16 DEF Stop, Running
<1> QED BY <1>1, <1>2, <1>3, <1>4, <1>5, <1>6, <1>7, <1>8, <1>9, <1>10, <1>11, <1>12, <1>13, <1>14, <1>15, <1>16 DEF Step

LEMMA KeepsExitsOK ==
  ASSUME UpgradeInv, NEW p \in Pid, Launch(p) \/ Step(p) \/ Stop(p, "error") \/ Stop(p, "killed")
  PROVE  ExitsOK'
<1> USE ReleaseAssumption DEF UpgradeInv, TypesOK, ExitsOK, Steps, Chosen, Image, Goto, Exit, disk, own, past
<1>1. CASE Launch(p)
  BY <1>1 DEF Launch, Runnable, Image
<1>2. CASE StatRun(p)
  BY <1>2 DEF StatRun
<1>3. CASE UnlinkRun(p)
  BY <1>3 DEF UnlinkRun
<1>4. CASE MakeRun(p)
  BY <1>4 DEF MakeRun
<1>5. CASE MakeSession(p)
  BY <1>5 DEF MakeSession
<1>6. CASE AskLatest(p)
  BY <1>6 DEF AskLatest, Tag
<1>7. CASE Compare(p)
  BY <1>7 DEF Compare
<1>8. CASE FetchAndUnpack(p)
  BY <1>8 DEF FetchAndUnpack
<1>9. CASE SelfRealpath(p)
  BY <1>9 DEF SelfRealpath
<1>10. CASE Rename(p)
  BY <1>10 DEF Rename
<1>11. CASE UnlinkSelf(p)
  BY <1>11 DEF UnlinkSelf, PutBy, At
<1>12. CASE OpenCopy(p)
  BY <1>12 DEF OpenCopy, PutBy, ExecutableFile, ReleasesOK
<1>13. CASE CopyBlock(p)
  <2>1. file' \in [Image -> ExecutableFile]
    BY <1>13, OneMoreBlock DEF CopyBlock
  <2> QED BY <1>13, <2>1 DEF CopyBlock
<1>14. CASE Chmod(p)
  BY <1>14 DEF Chmod
<1>15. CASE Stop(p, "error")
  BY <1>15 DEF Stop, Running
<1>16. CASE Stop(p, "killed")
  BY <1>16 DEF Stop, Running
<1> QED BY <1>1, <1>2, <1>3, <1>4, <1>5, <1>6, <1>7, <1>8, <1>9, <1>10, <1>11, <1>12, <1>13, <1>14, <1>15, <1>16 DEF Step

LEMMA QuietStep ==
  ASSUME UpgradeInv, NEW p \in Pid, NEW s \in Steps \cup {"done"},
         pc[p] \in Steps, s \notin Replacing,
         pc' = [pc EXCEPT ![p] = s],
         UNCHANGED <<far, program, stray, file, image, met>>,
         cut \subseteq cut', cut' \subseteq cut \cup {p}, p \in cut' => s = "done",
         pc[p] \in Replacing => s = "done" /\ (p \in cut' \/ (pc[p] = "chmod" /\ program # p)),
         s = "unlink_self" => far,
         \A q \in Pid \ {p} : seen'[q] = seen[q] /\ target'[q] = target[q],
         s \in Chosen \cup {"compare"} => seen'[p] \in Release,
         s \in Chosen => Newer(seen'[p], file[image[p]].version),
         s = "done" => target'[p] = target[p],
         p \notin met /\ s \in {"rename", "unlink_self"} => target'[p] = "program"
  PROVE  CopiesOK' /\ PathsOK' /\ ImagesOK' /\ ProgramOK' /\ ReleasesOK' /\ AloneOK'
<1> USE ReleaseAssumption DEF UpgradeInv, Steps, Chosen, Replacing, Placed, TypesOK
<1>1. CopiesOK'
  BY DEF CopiesOK
<1>2. PathsOK'
  BY DEF PathsOK
<1>3. ImagesOK'
  BY DEF ImagesOK, Runnable, Running
<1>4. ProgramOK'
  BY DEF ProgramOK, Runnable
<1>5. ReleasesOK'
  BY DEF ReleasesOK, ImagesOK, Running, Newer
<1>6. AloneOK'
  BY DEF AloneOK, Running
<1> QED BY <1>1, <1>2, <1>3, <1>4, <1>5, <1>6

LEMMA LaunchStep ==
  ASSUME UpgradeInv, NEW p \in Pid, Launch(p)
  PROVE  CopiesOK' /\ PathsOK' /\ ImagesOK' /\ ProgramOK' /\ ReleasesOK' /\ AloneOK'
<1> USE ReleaseAssumption DEF UpgradeInv, TypesOK, Steps, Chosen, Replacing, Placed, Image
<1>a. /\ pc[p] = "idle" /\ Runnable(program) /\ image' = [image EXCEPT ![p] = program]
      /\ pc' = [pc EXCEPT ![p] = "stat"]
      /\ UNCHANGED <<far, latest, run, program, stray, file, seen, target, met, cut>>
  BY DEF Launch, Goto, disk, past
<1>1. CopiesOK'
  BY <1>a DEF CopiesOK
<1>2. PathsOK'
  BY <1>a DEF PathsOK
<1>3. ImagesOK'
  BY <1>a DEF ImagesOK, PathsOK, Runnable, Running
<1>4. ProgramOK'
  BY <1>a DEF ProgramOK, Runnable
<1>5. ReleasesOK'
  BY <1>a DEF ReleasesOK, Newer, Runnable, ExecutableFile
<1>6. AloneOK'
  BY <1>a DEF AloneOK, Running
<1> QED BY <1>1, <1>2, <1>3, <1>4, <1>5, <1>6

LEMMA NearStep ==
  ASSUME UpgradeInv, NEW p \in Pid, Rename(p), ~far
  PROVE  CopiesOK' /\ PathsOK' /\ ImagesOK' /\ ProgramOK' /\ ReleasesOK' /\ AloneOK'
<1> USE ReleaseAssumption DEF UpgradeInv, TypesOK, Steps, Chosen, Replacing, Placed, Image
<1>a. /\ pc[p] = "rename" /\ file' = [file EXCEPT ![p] = Whole(seen[p])] /\ PutBy(p, target[p], p)
      /\ pc' = [pc EXCEPT ![p] = "done"] /\ UNCHANGED <<far, latest, image, seen, target, cut>>
  BY DEF Rename, Exit, own, PutBy
<1>b. p \in Image /\ Whole(seen[p]) \in ExecutableFile
  BY <1>a DEF Whole, ExecutableFile, ReleasesOK
<1>1. CopiesOK'
  BY <1>a, <1>b DEF CopiesOK, ReleasesOK
<1>2. PathsOK'
  BY <1>a, <1>b DEF PathsOK, PutBy
<1>3. ImagesOK'
  BY <1>a, <1>b DEF ImagesOK, Runnable, Running, Whole
<1>4. ProgramOK'
  BY <1>a, <1>b DEF ProgramOK, PutBy, Runnable, Whole
<1>5. ReleasesOK'
  BY <1>a, <1>b DEF ReleasesOK, Newer, ImagesOK, Running
<1>6. AloneOK'
  BY <1>a, <1>b DEF AloneOK, PutBy, Running, ImagesOK
<1> QED BY <1>1, <1>2, <1>3, <1>4, <1>5, <1>6

LEMMA UnlinkSelfStep ==
  ASSUME UpgradeInv, NEW p \in Pid, UnlinkSelf(p), At(target[p]) # None
  PROVE  CopiesOK' /\ PathsOK' /\ ImagesOK' /\ ProgramOK' /\ ReleasesOK' /\ AloneOK'
<1> USE ReleaseAssumption DEF UpgradeInv, TypesOK, Steps, Chosen, Replacing, Placed, Image
<1>a. /\ pc[p] = "unlink_self" /\ PutBy(p, target[p], None)
      /\ pc' = [pc EXCEPT ![p] = "open"] /\ UNCHANGED <<far, latest, file, image, seen, target, cut>>
  BY DEF UnlinkSelf, Goto, own, PutBy
<1>1. CopiesOK'
  BY <1>a DEF CopiesOK
<1>2. PathsOK'
  BY <1>a DEF PathsOK, PutBy
<1>3. ImagesOK'
  BY <1>a DEF ImagesOK, Runnable, Running
<1>4. ProgramOK'
  BY <1>a DEF ProgramOK, PutBy, CopiesOK, PathsOK, Runnable
<1>5. ReleasesOK'
  BY <1>a DEF ReleasesOK, Newer
<1>6. AloneOK'
  BY <1>a DEF AloneOK, PutBy, Running
<1> QED BY <1>1, <1>2, <1>3, <1>4, <1>5, <1>6

LEMMA OpenStep ==
  ASSUME UpgradeInv, NEW p \in Pid, OpenCopy(p)
  PROVE  CopiesOK' /\ PathsOK' /\ ImagesOK' /\ ProgramOK' /\ ReleasesOK' /\ AloneOK'
<1> USE ReleaseAssumption DEF UpgradeInv, TypesOK, Steps, Chosen, Replacing, Placed, Image
<1> DEFINE f == [version |-> seen[p], blocks |-> 0, executable |-> FALSE]
<1>a. /\ pc[p] = "open" /\ file' = [file EXCEPT ![p] = f] /\ PutBy(p, target[p], p)
      /\ pc' = [pc EXCEPT ![p] = "copy"] /\ UNCHANGED <<far, latest, image, seen, target, cut>>
  BY DEF OpenCopy, Goto, own, PutBy
<1>b. p \in Image /\ f \in ExecutableFile
  BY <1>a DEF ExecutableFile, ReleasesOK
<1>1. CopiesOK'
  BY <1>a, <1>b DEF CopiesOK
<1>2. PathsOK'
  BY <1>a, <1>b DEF PathsOK, PutBy
<1>3. ImagesOK'
  BY <1>a, <1>b DEF ImagesOK, Runnable, Running
<1>4. ProgramOK'
  BY <1>a, <1>b DEF ProgramOK, PutBy, CopiesOK, PathsOK, Runnable
<1>5. ReleasesOK'
  BY <1>a, <1>b DEF ReleasesOK, Newer, ImagesOK, Running
<1>6. AloneOK'
  BY <1>a, <1>b DEF AloneOK, PutBy, Running
<1> QED BY <1>1, <1>2, <1>3, <1>4, <1>5, <1>6

LEMMA CopyStep ==
  ASSUME UpgradeInv, NEW p \in Pid, CopyBlock(p)
  PROVE  CopiesOK' /\ PathsOK' /\ ImagesOK' /\ ProgramOK' /\ ReleasesOK' /\ AloneOK'
<1> USE ReleaseAssumption DEF UpgradeInv, TypesOK, Steps, Chosen, Replacing, Placed, Image
<1>a. /\ pc[p] = "copy" /\ UNCHANGED <<far, latest, program, stray, image, seen, target, met, cut>>
  BY DEF CopyBlock, Goto, own, past
<1>b. PICK f : f = [file[p] EXCEPT !.blocks = @ + 1]
  OBVIOUS
<1>c. /\ p \in Image /\ f \in ExecutableFile /\ f.blocks = file[p].blocks + 1
      /\ f.version = file[p].version
      /\ f.executable = file[p].executable
  BY <1>a, <1>b, OneMoreBlock
<1>d. file' = [file EXCEPT ![p] = f] /\ pc' = [pc EXCEPT ![p] = IF f.blocks = Blocks THEN "chmod" ELSE "copy"]
  BY <1>b, <1>c DEF CopyBlock, Goto
<1>1. CopiesOK'
  <2>1. file[p].blocks \in Nat /\ Blocks \in Nat /\ file[p].blocks < Blocks
    BY <1>a, <1>c DEF CopiesOK, ExecutableFile
  <2>2. f.blocks # Blocks => f.blocks < Blocks
    BY <2>1, <1>c
  <2>3. file'[p] = f /\ \A q \in Pid \ {p} : file'[q] = file[q]
    BY <1>c, <1>d
  <2> QED BY <1>a, <1>d, <2>2, <2>3 DEF CopiesOK
<1>2. PathsOK'
  BY <1>a, <1>c, <1>d DEF PathsOK
<1>3. ImagesOK'
  BY <1>a, <1>c, <1>d DEF ImagesOK, Runnable, Running, CopiesOK
<1>4. ProgramOK'
  BY <1>a, <1>c, <1>d DEF ProgramOK, Runnable, CopiesOK
<1>5. ReleasesOK'
  BY <1>a, <1>c, <1>d DEF ReleasesOK, Newer, ImagesOK, Running
<1>6. AloneOK'
  BY <1>a, <1>c, <1>d DEF AloneOK, Running
<1> QED BY <1>1, <1>2, <1>3, <1>4, <1>5, <1>6

LEMMA ChmodStep ==
  ASSUME UpgradeInv, NEW p \in Pid, Chmod(p), At(target[p]) # None
  PROVE  CopiesOK' /\ PathsOK' /\ ImagesOK' /\ ProgramOK' /\ ReleasesOK' /\ AloneOK'
<1> USE ReleaseAssumption DEF UpgradeInv, TypesOK, Steps, Chosen, Replacing, Placed, Image
<1>a. /\ pc[p] = "chmod" /\ At(target[p]) # None
      /\ pc' = [pc EXCEPT ![p] = "done"] /\ UNCHANGED <<far, latest, program, stray, image, seen, target, met, cut>>
  BY DEF Chmod, Exit, own, past
<1> DEFINE i == At(target[p])
<1>b. PICK f : f = [file[i] EXCEPT !.executable = TRUE]
  OBVIOUS
<1>c. /\ i \in Image /\ f \in ExecutableFile /\ f.blocks = file[i].blocks
      /\ f.version = file[i].version /\ f.executable
  BY <1>a, <1>b, MadeExecutable DEF At
<1>d. file' = [file EXCEPT ![i] = f]
  BY <1>a, <1>b, <1>c DEF Chmod
<1>e. i \in {program, stray} /\ (target[p] = "program" => i = program)
  BY DEF At
<1> HIDE DEF i
<1>1. CopiesOK'
  BY <1>a, <1>c, <1>d, <1>e DEF CopiesOK
<1>2. PathsOK'
  BY <1>a, <1>c, <1>d, <1>e DEF PathsOK
<1>3. ImagesOK'
  BY <1>a, <1>c, <1>d, <1>e DEF ImagesOK, Runnable, Running
<1>4. ProgramOK'
  BY <1>a, <1>c, <1>d, <1>e DEF ProgramOK, Runnable, CopiesOK, PathsOK
<1>5. ReleasesOK'
  BY <1>a, <1>c, <1>d, <1>e DEF ReleasesOK, Newer
<1>6. AloneOK'
  BY <1>a, <1>c, <1>d, <1>e DEF AloneOK, Running
<1> QED BY <1>1, <1>2, <1>3, <1>4, <1>5, <1>6

-----------------------------------------------------------------------------
(***************************************************************************)
(* The invariant holds.                                                    *)
(***************************************************************************)
LEMMA UpgradeInvInit == Init => UpgradeInv
<1> SUFFICES ASSUME Init PROVE UpgradeInv
  OBVIOUS
<1> USE ReleaseAssumption DEF Init
<1>1. First \in Release /\ Blocks \in Nat /\ Old \in Image /\ None \notin Image
  BY DEF Image
<1>2. Whole(First) \in ExecutableFile
  BY <1>1 DEF Whole, ExecutableFile
<1>3. TypesOK
  BY <1>1, <1>2 DEF TypesOK, Tag
<1>4. CopiesOK /\ PathsOK /\ ReleasesOK /\ AloneOK /\ ExitsOK
  BY <1>1 DEF CopiesOK, PathsOK, ReleasesOK, AloneOK, ExitsOK, Replacing, Chosen, Running, Image
<1>5. Runnable(Old)
  BY <1>1 DEF Runnable, Whole
<1>6. ImagesOK /\ ProgramOK
  BY <1>1, <1>5 DEF ImagesOK, ProgramOK, Running, Image
<1> QED BY <1>3, <1>4, <1>6 DEF UpgradeInv

LEMMA StepKeepsUpgradeInv ==
  ASSUME UpgradeInv, NEW p \in Pid, Launch(p) \/ Step(p) \/ Stop(p, "error") \/ Stop(p, "killed")
  PROVE  UpgradeInv'
<1>1. ASSUME CopiesOK' /\ PathsOK' /\ ImagesOK' /\ ProgramOK' /\ ReleasesOK' /\ AloneOK'
      PROVE  UpgradeInv'
  BY <1>1, KeepsTypesOK, KeepsExitsOK DEF UpgradeInv
<1> USE DEF UpgradeInv, TypesOK, Steps, Chosen, Replacing, Goto, Exit, disk, own, past
<1>2. CASE Launch(p)
  BY <1>1, <1>2, LaunchStep
<1>3. CASE StatRun(p)
  <2>1. PICK s \in {"session", "unlink", "mkdir"} : pc' = [pc EXCEPT ![p] = s]
    BY <1>3 DEF StatRun
  <2> QED BY <1>1, <1>3, <2>1, QuietStep DEF StatRun, ProgramOK
<1>4. CASE UnlinkRun(p)
  <2>1. PICK s \in {"done", "mkdir"} : pc' = [pc EXCEPT ![p] = s]
    BY <1>4 DEF UnlinkRun
  <2> QED BY <1>1, <1>4, <2>1, QuietStep DEF UnlinkRun, ProgramOK
<1>5. CASE MakeRun(p)
  <2>1. PICK s \in {"session"} : pc' = [pc EXCEPT ![p] = s]
    BY <1>5 DEF MakeRun
  <2> QED BY <1>1, <1>5, <2>1, QuietStep DEF MakeRun, ProgramOK
<1>6. CASE MakeSession(p)
  <2>1. PICK s \in {"done", "ask"} : pc' = [pc EXCEPT ![p] = s]
    BY <1>6 DEF MakeSession
  <2> QED BY <1>1, <1>6, <2>1, QuietStep DEF MakeSession, ProgramOK
<1>7. CASE AskLatest(p)
  <2>1. PICK s \in {"done", "compare"} : pc' = [pc EXCEPT ![p] = s] /\ (s = "compare" => latest # NoTag)
    BY <1>7 DEF AskLatest, Invalid
  <2> QED BY <1>1, <1>7, <2>1, QuietStep DEF AskLatest, Tag, ProgramOK
<1>8. CASE Compare(p)
  <2>1. PICK s \in {"done", "unpack"} :
          /\ pc' = [pc EXCEPT ![p] = s]
          /\ s = "unpack" => ~AlreadyLatest(seen[p], file[image[p]].version)
    BY <1>8 DEF Compare
  <2>2. seen[p] \in Release /\ file[image[p]].version \in Release
    BY <1>8 DEF Compare, ReleasesOK, ImagesOK, Running, ExecutableFile
  <2>3. s = "unpack" => Newer(seen[p], file[image[p]].version)
    BY <2>1, <2>2, ComparisonIsRight
  <2> QED BY <1>1, <1>8, <2>1, <2>2, <2>3, QuietStep DEF Compare, ProgramOK
<1>9. CASE FetchAndUnpack(p)
  <2>1. PICK s \in {"realpath"} : pc' = [pc EXCEPT ![p] = s]
    BY <1>9 DEF FetchAndUnpack
  <2> QED BY <1>1, <1>9, <2>1, QuietStep DEF FetchAndUnpack, ReleasesOK, ProgramOK
<1>10. CASE SelfRealpath(p)
  <2>1. PICK s \in {"rename"} : pc' = [pc EXCEPT ![p] = s]
    BY <1>10 DEF SelfRealpath
  <2>2. /\ pc[p] = "realpath" /\ UNCHANGED <<far, program, stray, file, image, seen, met, cut>>
        /\ target' = [target EXCEPT ![p] = IF image[p] = program THEN "program" ELSE "stray"]
    BY <1>10 DEF SelfRealpath
  <2>3. seen[p] \in Release /\ Newer(seen[p], file[image[p]].version) /\ p \notin cut
    BY <2>2 DEF ReleasesOK, ProgramOK
  <2>4. p \notin met => target'[p] = "program"
    BY <2>2 DEF AloneOK, Running
  <2> QED BY <1>1, <2>1, <2>2, <2>3, <2>4, QuietStep
<1>11. CASE Rename(p)
  <2>1. CASE ~far
    BY <1>1, <1>11, <2>1, NearStep
  <2>2. CASE far
    BY <1>1, <1>11, <2>2, QuietStep DEF Rename, ReleasesOK, AloneOK, ProgramOK
  <2> QED BY <2>1, <2>2
<1>12. CASE UnlinkSelf(p)
  <2>1. CASE At(target[p]) # None
    BY <1>1, <1>12, <2>1, UnlinkSelfStep
  <2>2. CASE At(target[p]) = None
    BY <1>1, <1>12, <2>2, QuietStep DEF UnlinkSelf, ProgramOK
  <2> QED BY <2>1, <2>2
<1>13. CASE OpenCopy(p)
  BY <1>1, <1>13, OpenStep
<1>14. CASE CopyBlock(p)
  BY <1>1, <1>14, CopyStep
<1>15. CASE Chmod(p)
  <2>1. CASE At(target[p]) # None
    BY <1>1, <1>15, <2>1, ChmodStep
  <2>2. CASE At(target[p]) = None
    <3>1. pc[p] = "chmod" /\ program # p
      BY <1>15, <2>2, ReleaseAssumption DEF Chmod, PathsOK, At, Image
    <3> QED BY <1>1, <1>15, <2>2, <3>1, QuietStep DEF Chmod, ProgramOK
  <2> QED BY <2>1, <2>2
<1>16. ASSUME NEW r, Stop(p, r)
       PROVE  UpgradeInv'
  <2>1. PICK s \in {"done"} : pc' = [pc EXCEPT ![p] = s]
    BY <1>16 DEF Stop
  <2>2. pc[p] \in Steps /\ UNCHANGED <<far, program, stray, file, image, seen, target, met>>
    BY <1>16 DEF Stop, Running
  <2>3. /\ cut \subseteq cut' /\ cut' \subseteq cut \cup {p}
        /\ pc[p] \in Replacing => p \in cut'
    BY <1>16 DEF Stop
  <2> QED BY <1>1, <2>1, <2>2, <2>3, QuietStep
<1> QED BY <1>2, <1>3, <1>4, <1>5, <1>6, <1>7, <1>8, <1>9, <1>10, <1>11, <1>12, <1>13, <1>14, <1>15, <1>16
    DEF Step

\* A process ends for itself, and puts nothing there but its own.
LEMMA StepIsLocal ==
  ASSUME UpgradeInv, NEW p \in Pid, Launch(p) \/ Step(p) \/ Stop(p, "error") \/ Stop(p, "killed")
  PROVE  /\ \A q \in Pid \ {p} : exit'[q] = exit[q]
         /\ program' \in {program, p, None}
<1> USE DEF UpgradeInv, TypesOK, Goto, Exit
<1>1. \A q \in Pid \ {p} : exit'[q] = exit[q]
  BY DEF Launch, Step, Stop, StatRun, UnlinkRun, MakeRun, MakeSession, AskLatest, Compare, FetchAndUnpack,
         SelfRealpath, Rename, UnlinkSelf, OpenCopy, CopyBlock, Chmod
<1>2. program' \in {program, p, None}
  BY DEF Launch, Step, Stop, StatRun, UnlinkRun, MakeRun, MakeSession, AskLatest, Compare, FetchAndUnpack,
         SelfRealpath, Rename, UnlinkSelf, OpenCopy, CopyBlock, Chmod, PutBy, disk
<1> QED BY <1>1, <1>2

\* The server's answer and the passing of time change nothing of it.
LEMMA OthersKeepUpgradeInv ==
  ASSUME UpgradeInv, UNCHANGED vars \/ \E tag \in Tag : Announce(tag)
  PROVE  UpgradeInv'
<1>1. /\ UNCHANGED <<far, run, program, stray, file, image, seen, target, pc, exit, met, cut>>
      /\ latest' \in Tag
  BY DEF vars, Announce, UpgradeInv, TypesOK, disk, own, past
<1> QED BY <1>1 DEF UpgradeInv, TypesOK, CopiesOK, PathsOK, ImagesOK, ProgramOK, ReleasesOK, AloneOK,
                    ExitsOK, Running, Runnable, Newer

LEMMA NextKeepsUpgradeInv == UpgradeInv /\ [Next]_vars => UpgradeInv'
BY StepKeepsUpgradeInv, OthersKeepUpgradeInv DEF Next, Tag

LEMMA UpgradeInvHolds == Spec => []UpgradeInv
BY UpgradeInvInit, NextKeepsUpgradeInv, PTL DEF Spec

-----------------------------------------------------------------------------
(***************************************************************************)
(* What follows from it.                                                   *)
(***************************************************************************)
\* On one device there is always a program that can be run, and on two devices
\* whenever nobody is at it and nobody was cut off at it.
THEOREM AlwaysRunnable == Spec => []RunnableUnlessCut
<1>1. UpgradeInv => RunnableUnlessCut
  BY ReleaseAssumption
  DEF UpgradeInv, TypesOK, ProgramOK, ImagesOK, RunnableUnlessCut, Image, Replacing
<1> QED BY <1>1, UpgradeInvHolds, PTL

\* One upgrade at most is lost to a file in the way of run/.
THEOREM AtMostOneIsLost == Spec => []CostsOneUpgrade
<1>1. ASSUME UpgradeInv PROVE CostsOneUpgrade
  <2> DEFINE S == {p \in Pid : exit[p] = "no_run"}
  <2>1. CASE S = {}
    BY <2>1, FS_EmptySet DEF CostsOneUpgrade
  <2>2. CASE S # {}
    <3>1. PICK p : p \in S
      BY <2>2
    <3>2. S = {p}
      BY <1>1, <3>1 DEF UpgradeInv, ExitsOK
    <3>3. Cardinality(S) = 1
      BY <3>2, FS_Singleton
    <3> QED BY <3>3 DEF CostsOneUpgrade
  <2> QED BY <2>1, <2>2
<1> QED BY <1>1, UpgradeInvHolds, PTL

\* An upgrade that meets no other one and succeeds leaves a program under its path
\* that can be run and is no older than the release it has seen.
THEOREM SuccessInstalls == Spec => OkMeansInstalled
<1> DEFINE P == \A p \in Pid : exit[p] = "none" /\ exit'[p] = "ok" /\ p \notin met =>
                  /\ Runnable(program)' /\ stray' # p
                  /\ ~Newer(seen[p], file'[program'].version)
<1>1. UpgradeInv /\ [Next]_vars => [P]_vars
  <2> SUFFICES ASSUME UpgradeInv, Next, NEW p \in Pid, exit[p] = "none", exit'[p] = "ok", p \notin met
               PROVE  /\ Runnable(program)' /\ stray' # p
                      /\ ~Newer(seen[p], file'[program'].version)
    BY DEF vars
  <2>1. UpgradeInv'
    BY NextKeepsUpgradeInv
  <2>2. Compare(p) \/ Rename(p) \/ Chmod(p)
    <3>1. PICK q \in Pid : Launch(q) \/ Step(q) \/ Stop(q, "error") \/ Stop(q, "killed")
      BY DEF Next, Announce
    <3>2. q = p
      BY <3>1, StepIsLocal
    <3>3. ~Launch(p) /\ ~Stop(p, "error") /\ ~Stop(p, "killed")
      BY DEF Launch, Stop, Goto, Exit, UpgradeInv, TypesOK
    <3>4. ~(StatRun(p) \/ UnlinkRun(p) \/ MakeRun(p) \/ MakeSession(p) \/ AskLatest(p))
      BY DEF StatRun, UnlinkRun, MakeRun, MakeSession, AskLatest, Goto, Exit, UpgradeInv, TypesOK
    <3>5. ~(FetchAndUnpack(p) \/ SelfRealpath(p) \/ UnlinkSelf(p) \/ OpenCopy(p) \/ CopyBlock(p))
      BY DEF FetchAndUnpack, SelfRealpath, UnlinkSelf, OpenCopy, CopyBlock, Goto, Exit, UpgradeInv, TypesOK
    <3> QED BY <3>1, <3>2, <3>3, <3>4, <3>5 DEF Step
  <2>3. CASE Compare(p)
    <3>1. /\ pc[p] = "compare" /\ AlreadyLatest(seen[p], file[image[p]].version)
          /\ UNCHANGED <<program, stray, file>>
      BY <2>3 DEF Compare, Goto, Exit, disk, UpgradeInv, TypesOK
    <3>2. /\ program = image[p] /\ Runnable(program) /\ seen[p] \in Release
          /\ file[program].version \in Release /\ stray # p
      BY <3>1, ReleaseAssumption
      DEF UpgradeInv, TypesOK, AloneOK, ImagesOK, ReleasesOK, PathsOK, Running, Replacing, Placed, Image, ExecutableFile
    <3>3. ~Newer(seen[p], file[program].version)
      BY <3>1, <3>2, ComparisonIsRight
    <3> QED BY <3>1, <3>2, <3>3 DEF Runnable
  <2>4. CASE Rename(p)
    <3>1. /\ pc[p] = "rename" /\ file' = [file EXCEPT ![p] = Whole(seen[p])] /\ PutBy(p, "program", p)
      BY <2>4, ReleaseAssumption DEF Rename, Goto, Exit, UpgradeInv, TypesOK, AloneOK
    <3>2. program' = p /\ file'[p] = Whole(seen[p]) /\ stray' # p /\ p # None
      BY <3>1, ReleaseAssumption DEF PutBy, UpgradeInv, TypesOK, PathsOK, Image, Placed
    <3> QED BY <3>2, NotNewerThanItself, <3>1 DEF Runnable, Whole, UpgradeInv, ReleasesOK, Chosen
  <2>5. CASE Chmod(p)
    <3>1. /\ pc[p] = "chmod" /\ program = p /\ target[p] = "program" /\ p # None
          /\ file' = [file EXCEPT ![p].executable = TRUE] /\ UNCHANGED <<program, stray>>
      BY <2>5, ReleaseAssumption DEF Chmod, Exit, UpgradeInv, TypesOK, AloneOK, Replacing, At, Image
    <3>2. /\ file[p] \in ExecutableFile /\ file[p].blocks = Blocks /\ file[p].version = seen[p]
          /\ seen[p] \in Release /\ stray # p
      BY <3>1 DEF UpgradeInv, TypesOK, CopiesOK, ReleasesOK, PathsOK, Image
    <3>3. file'[p].blocks = Blocks /\ file'[p].version = seen[p] /\ file'[p].executable
      BY <3>1, <3>2, MadeExecutable DEF UpgradeInv, TypesOK, Image
    <3> QED BY <3>1, <3>2, <3>3, NotNewerThanItself DEF Runnable
  <2> QED BY <2>2, <2>3, <2>4, <2>5
<1> QED BY <1>1, UpgradeInvHolds, PTL DEF Spec, OkMeansInstalled

\* What an upgrade that meets no other one puts under the path is newer than what
\* was there.
THEOREM OlderIsReplaced == Spec => ReplacesOlder
<1> DEFINE P == \A p \in Pid : program' = p /\ program # p /\ p \notin met =>
                  /\ program \in {None, image[p]}
                  /\ Newer(file'[p].version, file[image[p]].version)
<1>1. UpgradeInv /\ [Next]_vars => [P]_vars
  <2> SUFFICES ASSUME UpgradeInv, Next, NEW p \in Pid, program' = p, program # p, p \notin met
               PROVE  /\ program \in {None, image[p]}
                      /\ Newer(file'[p].version, file[image[p]].version)
    BY DEF vars
  <2>1. (Rename(p) /\ ~far) \/ OpenCopy(p)
    <3>1. PICK q \in Pid : Launch(q) \/ Step(q) \/ Stop(q, "error") \/ Stop(q, "killed")
      BY DEF Next, Announce, disk
    <3>2. q = p
      BY <3>1, StepIsLocal, ReleaseAssumption DEF Image
    <3>3. ~Launch(p) /\ ~Stop(p, "error") /\ ~Stop(p, "killed")
      BY DEF Launch, Stop, disk
    <3>4. ~(StatRun(p) \/ UnlinkRun(p) \/ MakeRun(p) \/ MakeSession(p) \/ AskLatest(p) \/ Compare(p))
      BY DEF StatRun, UnlinkRun, MakeRun, MakeSession, AskLatest, Compare, disk
    <3>5. ~(FetchAndUnpack(p) \/ SelfRealpath(p) \/ UnlinkSelf(p) \/ CopyBlock(p) \/ Chmod(p))
      BY ReleaseAssumption DEF FetchAndUnpack, SelfRealpath, UnlinkSelf, CopyBlock, Chmod, PutBy, disk, Image
    <3>6. Rename(p) => ~far
      BY DEF Rename
    <3> QED BY <3>1, <3>2, <3>3, <3>4, <3>5, <3>6 DEF Step
  <2>2. pc[p] \in {"rename", "open"} /\ file'[p].version = seen[p]
    BY <2>1 DEF Rename, OpenCopy, Whole, UpgradeInv, TypesOK, Image
  <2>3. Newer(seen[p], file[image[p]].version)
    BY <2>2 DEF UpgradeInv, ReleasesOK, Chosen
  <2>4. program \in {None, image[p]}
    BY <2>2 DEF UpgradeInv, AloneOK, Running, Replacing
  <2> QED BY <2>2, <2>3, <2>4
<1> QED BY <1>1, UpgradeInvHolds, PTL DEF Spec, ReplacesOlder
=============================================================================
