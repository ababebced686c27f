---------------------------- MODULE UpgradeSelf ----------------------------
(***************************************************************************)
(* `uppm upgrade-self': the program asks for its latest release, fetches   *)
(* it into run/<pid>, unpacks it there and puts it in its own place.       *)
(*                                                                         *)
(* Its own place is what the system says the running image is; when that   *)
(* has been replaced or deleted in the meantime, the system says so by     *)
(* appending ` (deleted)' to the name, and the program takes the name for  *)
(* a path.  Between two devices a file cannot be renamed: there the old    *)
(* program is deleted first and the new one copied.                        *)
(***************************************************************************)
EXTENDS Naturals, FiniteSets

CONSTANTS
  Pid,      \* process ids
  Old,      \* the program that is there at first
  Release,  \* releases: major, minor and patch number
  First,    \* the release that is there at first
  NoTag,    \* an answer without a tag name that has a version and a `+'
  Blocks,   \* blocks of 1024 bytes the program takes (bound)
  None

Image == Pid \cup {Old}

ASSUME ReleaseAssumption ==
  /\ Release \subseteq Nat \X Nat \X Nat /\ First \in Release /\ NoTag \notin Release
  /\ Old \notin Pid /\ None \notin Image /\ Blocks \in Nat \ {0}

VARIABLES
  far,      \* is the program on another device than the home directory?
  latest,   \* what the server answers
  run,      \* the entry `run' of the home directory
  program,  \* the file under the program's path
  stray,    \* the file under that path with ` (deleted)' appended
  file,     \* file[i]: the executable i, by the process that has made it
  image,    \* image[p]: the executable p runs
  seen,     \* seen[p]: the tag p has read
  target,   \* target[p]: selfRealPath
  pc,       \* pc[p]: its next step
  exit,     \* exit[p]: how the process ended
  met,      \* history: processes during which another one replaced the program
  cut       \* history: processes that stopped while they replaced the program

vars == <<far, latest, run, program, stray, file, image, seen, target, pc, exit, met, cut>>
disk == <<program, stray, file>>
own  == <<image, seen, target>>
past == <<met, cut>>

Running == {p \in Pid : pc[p] \notin {"idle", "done"}}

Whole(v) == [version |-> v, blocks |-> Blocks, executable |-> TRUE]

Runnable(i) == i # None /\ file[i].blocks = Blocks /\ file[i].executable

Goto(p, step) == pc' = [pc EXCEPT ![p] = step] /\ UNCHANGED exit

Exit(p, r) ==
  /\ pc'   = [pc EXCEPT ![p] = "done"]
  /\ exit' = [exit EXCEPT ![p] = r]

Launch(p) ==
  /\ pc[p] = "idle" /\ Runnable(program)
  /\ image' = [image EXCEPT ![p] = program]
  /\ Goto(p, "stat")
  /\ UNCHANGED <<far, latest, run, disk, seen, target, past>>

(***************************************************************************)
(* The directory run/<pid>.  A symbolic link that leads nowhere is not     *)
(* there for stat, and is for mkdir.                                       *)
(***************************************************************************)
StatRun(p) ==
  /\ pc[p] = "stat"
  /\ Goto(p, CASE run = "dir" -> "session" [] run = "file" -> "unlink" [] OTHER -> "mkdir")
  /\ UNCHANGED <<far, latest, run, disk, own, past>>

\* Mutant: what is in the way is left there.
UnlinkRunNot(p) ==
  /\ pc[p] = "unlink"
  /\ Exit(p, "no_run")
  /\ UNCHANGED <<far, latest, run, disk, own, past>>

\* The upgrade fails if what is in the way could be deleted, and goes on if not.
UnlinkRun(p) ==
  /\ pc[p] = "unlink"
  /\ \/ /\ run \in {"file", "dangling"}
        /\ run' = "absent"
        /\ Exit(p, "no_run")
     \/ /\ run \in {"absent", "dir"}
        /\ Goto(p, "mkdir")
        /\ UNCHANGED run
  /\ UNCHANGED <<far, latest, disk, own, past>>

MakeRun(p) ==
  /\ pc[p] = "mkdir"
  /\ run' = IF run = "absent" THEN "dir" ELSE run
  /\ Goto(p, "session")
  /\ UNCHANGED <<far, latest, disk, own, past>>

\* run/<pid> is emptied or made.
MakeSession(p) ==
  /\ pc[p] = "session"
  /\ \/ run = "dir" /\ Goto(p, "ask")
     \/ run # "dir" /\ Exit(p, "error")
  /\ UNCHANGED <<far, latest, run, disk, own, past>>

(***************************************************************************)
(* The release.                                                            *)
(***************************************************************************)
\* Mutant: any other release is taken.
AlreadyLatestNever(new, mine) == new = mine

AlreadyLatest(new, mine) ==
  \/ new[1] < mine[1]
  \/ new[1] = mine[1] /\ new[2] < mine[2]
  \/ new[1] = mine[1] /\ new[2] = mine[2] /\ new[3] <= mine[3]

Invalid(tag) == tag = NoTag \/ tag = <<0, 0, 0>>

\* Fetch latest.json and look for the tag's name.
AskLatest(p) ==
  /\ pc[p] = "ask"
  /\ seen' = [seen EXCEPT ![p] = latest]
  /\ IF Invalid(latest) THEN Exit(p, "error") ELSE Goto(p, "compare")
  /\ UNCHANGED <<far, latest, run, disk, image, target, past>>

\* The version it is compared with is compiled into the image.
Compare(p) ==
  /\ pc[p] = "compare"
  /\ IF AlreadyLatest(seen[p], file[image[p]].version)
     THEN Exit(p, "ok") ELSE Goto(p, "unpack")
  /\ UNCHANGED <<far, latest, run, disk, own, past>>

\* Fetch the tarball of the tag that was seen, and unpack it.
FetchAndUnpack(p) ==
  /\ pc[p] = "unpack"
  /\ Goto(p, "realpath")
  /\ UNCHANGED <<far, latest, run, disk, own, past>>

SelfRealpath(p) ==
  /\ pc[p] = "realpath"
  /\ target' = [target EXCEPT ![p] = IF image[p] = program THEN "program" ELSE "stray"]
  /\ Goto(p, "rename")
  /\ UNCHANGED <<far, latest, run, disk, image, seen, past>>

(***************************************************************************)
(* The replacement.                                                        *)
(***************************************************************************)
At(path) == IF path = "program" THEN program ELSE stray

\* Those who run meanwhile have met with it.
PutBy(p, path, i) ==
  /\ program' = IF path = "program" THEN i ELSE program
  /\ stray'   = IF path = "stray" THEN i ELSE stray
  /\ met'     = IF path = "program" THEN met \cup (Running \ {p}) ELSE met
  /\ UNCHANGED cut

\* Mutant: the program is deleted before the new one is put in its place, on any device.
RenameAfterUnlink(p) ==
  /\ pc[p] = "rename"
  /\ UNCHANGED file
  /\ Goto(p, "unlink_self") /\ UNCHANGED <<program, stray, past>>
  /\ UNCHANGED <<far, latest, run, own>>

\* Mutant: what goes wrong with the rename is not looked at.
RenameRegardless(p) ==
  /\ pc[p] = "rename"
  /\ \/ /\ ~far
        /\ file' = [file EXCEPT ![p] = Whole(seen[p])]
        /\ PutBy(p, target[p], p)
     \/ /\ far
        /\ UNCHANGED <<file, program, stray, past>>
  /\ Exit(p, "ok")
  /\ UNCHANGED <<far, latest, run, own>>

Rename(p) ==
  /\ pc[p] = "rename"
  /\ \/ /\ ~far
        /\ file' = [file EXCEPT ![p] = Whole(seen[p])]
        /\ PutBy(p, target[p], p)
        /\ Exit(p, "ok")
     \/ /\ far
        /\ Goto(p, "unlink_self")
        /\ UNCHANGED <<file, program, stray, past>>
  /\ UNCHANGED <<far, latest, run, own>>

UnlinkSelf(p) ==
  /\ pc[p] = "unlink_self"
  /\ \/ /\ At(target[p]) = None
        /\ Exit(p, "error")
        /\ UNCHANGED <<program, stray, past>>
     \/ /\ At(target[p]) # None
        /\ PutBy(p, target[p], None)
        /\ Goto(p, "open")
  /\ UNCHANGED <<far, latest, run, file, own>>

\* Nothing is under that path: somebody else's file would have had to be deleted
\* before it was there.
OpenCopy(p) ==
  /\ pc[p] = "open"
  /\ file' = [file EXCEPT ![p] = [version |-> seen[p], blocks |-> 0, executable |-> FALSE]]
  /\ PutBy(p, target[p], p)
  /\ Goto(p, "copy")
  /\ UNCHANGED <<far, latest, run, own>>

CopyBlock(p) ==
  /\ pc[p] = "copy"
  /\ file' = [file EXCEPT ![p].blocks = @ + 1]
  /\ Goto(p, IF file[p].blocks + 1 = Blocks THEN "chmod" ELSE "copy")
  /\ UNCHANGED <<far, latest, run, program, stray, own, past>>

\* The mode is set on the path, whosever file is there by now.
Chmod(p) ==
  /\ pc[p] = "chmod"
  /\ \/ /\ At(target[p]) = None
        /\ Exit(p, "error")
        /\ UNCHANGED file
     \/ /\ At(target[p]) # None
        /\ file' = [file EXCEPT ![At(target[p])].executable = TRUE]
        /\ Exit(p, "ok")
  /\ UNCHANGED <<far, latest, run, program, stray, own, past>>

Step(p) ==
  \/ StatRun(p) \/ UnlinkRun(p) \/ MakeRun(p) \/ MakeSession(p)
  \/ AskLatest(p) \/ Compare(p) \/ FetchAndUnpack(p) \/ SelfRealpath(p)
  \/ Rename(p) \/ UnlinkSelf(p) \/ OpenCopy(p) \/ CopyBlock(p) \/ Chmod(p)

\* A call fails or the process is killed: nothing is put back.
Stop(p, r) ==
  /\ p \in Running
  /\ cut' = IF pc[p] \in {"open", "copy", "chmod"} THEN cut \cup {p} ELSE cut
  /\ Exit(p, r)
  /\ UNCHANGED <<far, latest, run, disk, own, met>>

Announce(tag) ==
  /\ latest # tag
  /\ latest' = tag
  /\ UNCHANGED <<far, run, disk, own, pc, exit, past>>

Init ==
  /\ far \in BOOLEAN
  /\ latest \in Release
  /\ run \in {"absent", "dir", "file", "dangling"}
  /\ program = Old /\ stray = None
  /\ file = [i \in Image |-> Whole(First)]
  /\ image = [p \in Pid |-> None]
  /\ seen = [p \in Pid |-> NoTag]
  /\ target = [p \in Pid |-> "program"]
  /\ pc = [p \in Pid |-> "idle"]
  /\ exit = [p \in Pid |-> "none"]
  /\ met = {} /\ cut = {}

Next ==
  \/ \E p \in Pid : Launch(p) \/ Step(p) \/ Stop(p, "error") \/ Stop(p, "killed")
  \/ \E tag \in Release \cup {NoTag} : Announce(tag)

Spec == Init /\ [][Next]_vars

(***************************************************************************)
(* Properties.                                                             *)
(***************************************************************************)
\* On one device the program can be run at every moment, whatever is killed and
\* however many upgrades meet.  Between two devices it cannot while it is replaced,
\* and never again if that was cut off.
RunnableUnlessCut ==
  \/ Runnable(program)
  \/ /\ far
     /\ \E p \in Pid : /\ pc[p] \in {"open", "copy", "chmod"} \/ p \in cut
                       /\ program \in {None, p}

Newer(v, w) == \E n \in 1 .. 3 : v[n] > w[n] /\ \A i \in 1 .. n - 1 : v[i] = w[i]

\* Success means that the program is at least of the release that was seen, unless
\* another upgrade replaced it meanwhile; and nothing is put beside it.
OkMeansInstalled ==
  [][\A p \in Pid : exit[p] = "none" /\ exit'[p] = "ok" /\ p \notin met =>
       /\ Runnable(program)' /\ stray' # p
       /\ ~Newer(seen[p], file'[program'].version)]_vars

\* A program is put in the place of the one that has fetched it, if that has not
\* been deleted for it, and is newer, unless another upgrade came between.
ReplacesOlder ==
  [][\A p \in Pid : program' = p /\ program # p /\ p \notin met =>
       /\ program \in {None, image[p]}
       /\ Newer(file'[p].version, file[image[p]].version)]_vars

\* A file in the place of run/ makes one upgrade fail, and then is out of the way.
CostsOneUpgrade == Cardinality({p \in Pid : exit[p] = "no_run"}) <= 1
=============================================================================
