------------------------------ MODULE Download ------------------------------
(***************************************************************************)
(* Files from the network: `uppm download <url> <sha256sum>' writes a file *)
(* whose digest is given, `uppm integrate zsh' writes a completion script. *)
(* Both fetch into a file that bears a name of its own and rename it.      *)
(*                                                                         *)
(* If UPPM_URL_TRANSFORM names a program, it is run for every url, and     *)
(* what it prints is the url that is used.  It prints into a pipe, which   *)
(* holds so much and no more, and the parent reads what happens to be      *)
(* there.                                                                  *)
(***************************************************************************)
EXTENDS Naturals, Sequences, SequencesExt

CONSTANTS
  Pid,         \* process ids
  Output,      \* paths of output files
  Far,         \* those on another device than the home directory
  Content,     \* contents of files, each known by its digest
  Cut,         \* what is left of a file that was not written to its end
  None,
  Character,   \* what a program prints is made of
  Newline,     \* one of them
  Printed,     \* texts the program prints
  UrlSize,     \* the longest url that is kept: 1024 (bound)
  PipeSize,    \* what the pipe holds: 65536 on Linux (bound)
  CommandLine  \* what users may type

ASSUME DownloadAssumption ==
  /\ Cut \notin Content /\ None \notin Content \cup {Cut} /\ Far \subseteq Output
  /\ UrlSize \in Nat \ {0} /\ PipeSize \in Nat \ {0}
  /\ Newline \in Character /\ Printed \subseteq Seq(Character)
  /\ CommandLine \subseteq [verb : {"download", "integrate"}, sha : Content, out : Output,
                            transform : BOOLEAN]

VARIABLES
  command,  \* command[p]: the command line of process p
  pc,       \* pc[p]: its next step
  child,    \* child[p]: the program that transforms the url: none, running or how it ended
  rest,     \* rest[p]: what it has still to print
  printed,  \* history: what it has to print in all
  pipe,     \* pipe[p]: what is in the pipe
  url,      \* url[p]: outputBuffer, the url so far
  parent,   \* the directory of the output files: absent, a directory or a file
  tmp,      \* tmp[p]: the temporary file
  file,     \* file[f]: an output file
  exit      \* exit[p]: how the process ended

vars == <<command, pc, child, rest, printed, pipe, url, parent, tmp, file, exit>>
script == <<child, rest, printed, pipe, url>>
disk   == <<parent, tmp, file>>

Goto(p, step) == pc' = [pc EXCEPT ![p] = step] /\ UNCHANGED exit

Exit(p, r) ==
  /\ pc'   = [pc EXCEPT ![p] = "done"]
  /\ exit' = [exit EXCEPT ![p] = r]

IsDownload(p) == command[p].verb = "download"

(***************************************************************************)
(* The beginning.                                                          *)
(***************************************************************************)
Invoke(p, line) ==
  /\ pc[p] = "idle"
  /\ command' = [command EXCEPT ![p] = line]
  /\ Goto(p, IF line.verb = "download" THEN "stat" ELSE "url")
  /\ UNCHANGED <<script, disk>>

\* A file with the digest that is asked for is left as it is; something that is not
\* a file is an error.
StatOutput(p) ==
  /\ pc[p] = "stat"
  /\ LET f == file[command[p].out]
     IN  CASE f = "directory"       -> Exit(p, "error")
           [] f = command[p].sha    -> Exit(p, "ok")
           [] OTHER                 -> Goto(p, "mkdir")
  /\ UNCHANGED <<command, script, disk>>

\* mkdir -p: another process may make the directory first.
MakeParent(p) ==
  /\ pc[p] = "mkdir"
  /\ \/ /\ parent = "file"
        /\ Exit(p, "error")
        /\ UNCHANGED parent
     \/ /\ parent # "file"
        /\ parent' = "directory"
        /\ Goto(p, IF IsDownload(p) THEN "url" ELSE "rename")
  /\ UNCHANGED <<command, script, tmp, file>>

(***************************************************************************)
(* The url is transformed by another program, and the two run side by      *)
(* side.                                                                   *)
(***************************************************************************)
\* Mutant: the parent waits for the program before it reads.
TransformNoRead(p, text) ==
  /\ pc[p] = "url"
  /\ \/ /\ ~command[p].transform
        /\ Goto(p, "open")
        /\ UNCHANGED script
     \/ /\ command[p].transform
        /\ child'   = [child EXCEPT ![p] = "running"]
        /\ rest'    = [rest EXCEPT ![p] = text]
        /\ printed' = [printed EXCEPT ![p] = text]
        /\ Goto(p, "wait")
        /\ UNCHANGED <<pipe, url>>
  /\ UNCHANGED <<command, disk>>

Transform(p, text) ==
  /\ pc[p] = "url"
  /\ \/ /\ ~command[p].transform
        /\ Goto(p, "open")
        /\ UNCHANGED script
     \/ /\ command[p].transform
        /\ child'   = [child EXCEPT ![p] = "running"]
        /\ rest'    = [rest EXCEPT ![p] = text]
        /\ printed' = [printed EXCEPT ![p] = text]
        /\ Goto(p, "read")
        /\ UNCHANGED <<pipe, url>>
  /\ UNCHANGED <<command, disk>>

ChildPrints(p) ==
  /\ child[p] = "running" /\ rest[p] # <<>> /\ Len(pipe[p]) < PipeSize
  /\ rest' = [rest EXCEPT ![p] = Tail(@)]
  /\ pipe' = [pipe EXCEPT ![p] = Append(@, Head(rest[p]))]
  /\ UNCHANGED <<command, pc, child, printed, url, disk, exit>>

ChildEnds(p) ==
  /\ child[p] = "running" /\ rest[p] = <<>>
  /\ child' = [child EXCEPT ![p] = "ok"]
  /\ UNCHANGED <<command, pc, rest, printed, pipe, url, disk, exit>>

ChildFails(p) ==
  /\ child[p] = "running"
  /\ child' = [child EXCEPT ![p] = "failed"]
  /\ UNCHANGED <<command, pc, rest, printed, pipe, url, disk, exit>>

First(text, n) == SubSeq(text, 1, IF Len(text) < n THEN Len(text) ELSE n)

\* Mutant: the newline is taken for a part of the url.
KeepNewline(text, room) == First(text, room)

\* What is kept of the characters that were read: a newline at the end is not, nor
\* what there is no room for.
Keep(text, room) ==
  First(IF text # <<>> /\ Last(text) = Newline THEN Front(text) ELSE text, room)

\* read() returns what is in the pipe, or nothing once that is empty and the other
\* end closed.
ReadPipe(p) ==
  /\ pc[p] = "read"
  /\ \/ /\ pipe[p] # <<>>
        /\ url'  = [url EXCEPT ![p] = @ \o Keep(pipe[p], UrlSize - Len(@))]
        /\ pipe' = [pipe EXCEPT ![p] = <<>>]
        /\ Goto(p, IF Len(url'[p]) = UrlSize THEN "wait" ELSE "read")
     \/ /\ pipe[p] = <<>> /\ child[p] # "running"
        /\ Goto(p, "wait")
        /\ UNCHANGED <<url, pipe>>
  /\ UNCHANGED <<command, child, rest, printed, disk>>

\* waitpid; the parent's end of the pipe is still open.
Wait(p) ==
  /\ pc[p] = "wait" /\ child[p] # "running"
  /\ IF child[p] = "failed" \/ url[p] = <<>> THEN Exit(p, "error") ELSE Goto(p, "open")
  /\ UNCHANGED <<command, script, disk>>

(***************************************************************************)
(* The transfer.                                                           *)
(***************************************************************************)
OpenTmp(p) ==
  /\ pc[p] = "open"
  /\ tmp' = [tmp EXCEPT ![p] = Cut]
  /\ Goto(p, "transfer")
  /\ UNCHANGED <<command, script, parent, file>>

\* What the server sends is anything.  Whether fclose() could write the last of it
\* is not looked at.
Transfer(p, c) ==
  /\ pc[p] = "transfer"
  /\ tmp' = [tmp EXCEPT ![p] = c]
  /\ Goto(p, IF IsDownload(p) THEN "check" ELSE "mkdir")
  /\ UNCHANGED <<command, script, parent, file>>

\* Mutant: the digest is not looked at.
CheckNothing(p) ==
  /\ pc[p] = "check"
  /\ Goto(p, "rename")
  /\ UNCHANGED <<command, script, disk>>

\* The temporary file stays if its digest is another one.
Check(p) ==
  /\ pc[p] = "check"
  /\ IF tmp[p] = command[p].sha THEN Goto(p, "rename") ELSE Exit(p, "mismatch")
  /\ UNCHANGED <<command, script, disk>>

\* A directory is not replaced.  The temporary file of a download lies beside the
\* output file, that of a script in run/<pid>.
Rename(p) ==
  /\ pc[p] = "rename"
  /\ LET f == command[p].out
     IN  \/ /\ file[f] = "directory"
            /\ Exit(p, "error")
            /\ UNCHANGED <<tmp, file>>
         \/ /\ file[f] # "directory" /\ (IsDownload(p) \/ f \notin Far)
            /\ file' = [file EXCEPT ![f] = tmp[p]]
            /\ tmp'  = [tmp EXCEPT ![p] = None]
            /\ Exit(p, "ok")
         \/ /\ file[f] # "directory" /\ ~IsDownload(p) /\ f \in Far
            /\ file' = [file EXCEPT ![f] = Cut]
            /\ Goto(p, "copy")
            /\ UNCHANGED tmp
  /\ UNCHANGED <<command, script, parent>>

\* The rest of a copy to another device.
Copy(p) ==
  /\ pc[p] = "copy"
  /\ file' = [file EXCEPT ![command[p].out] = tmp[p]]
  /\ Exit(p, "ok")
  /\ UNCHANGED <<command, script, parent, tmp>>

\* A call or the transfer fails, or the process is killed.  Nothing is cleaned up;
\* the program that transforms the url goes on for itself.
Stop(p, r) ==
  /\ pc[p] \notin {"idle", "done"}
  /\ Exit(p, r)
  /\ UNCHANGED <<command, script, disk>>

Init ==
  /\ command = [p \in Pid |-> None]
  /\ pc = [p \in Pid |-> "idle"]
  /\ child = [p \in Pid |-> "none"]
  /\ rest = [p \in Pid |-> <<>>] /\ printed = [p \in Pid |-> <<>>]
  /\ pipe = [p \in Pid |-> <<>>] /\ url = [p \in Pid |-> <<>>]
  /\ \/ /\ parent \in {"absent", "file"}
        /\ file = [f \in Output |-> None]
     \/ /\ parent = "directory"
        /\ file \in [Output -> Content \cup {None, "directory"}]
  /\ tmp = [p \in Pid |-> None]
  /\ exit = [p \in Pid |-> "none"]

Step(p) ==
  \/ StatOutput(p) \/ MakeParent(p)
  \/ \E text \in Printed : Transform(p, text)
  \/ ReadPipe(p) \/ Wait(p)
  \/ OpenTmp(p) \/ \E c \in Content \cup {Cut} : Transfer(p, c)
  \/ Check(p) \/ Rename(p) \/ Copy(p)

ChildStep(p) == ChildPrints(p) \/ ChildEnds(p)

Next ==
  \E p \in Pid : \/ \E line \in CommandLine : Invoke(p, line)
                 \/ Step(p) \/ ChildStep(p) \/ ChildFails(p)
                 \/ Stop(p, "error") \/ Stop(p, "killed")

\* Both programs are run, servers answer or hang up.
Spec == Init /\ [][Next]_vars /\ \A p \in Pid : WF_vars(Step(p)) /\ WF_vars(ChildStep(p))

(***************************************************************************)
(* Properties.                                                             *)
(***************************************************************************)
\* Whatever the server sends, however many processes write to the same path and
\* wherever they are stopped: a download that succeeds has its file in place, a file
\* with another digest is never put there by a download, and a download leaves its
\* temporary file behind only if it fails.
OnlyVerified ==
  [][\A p \in Pid : exit[p] = "none" /\ pc[p] # "idle" /\ IsDownload(p) =>
       LET f == command[p].out
       IN  /\ exit'[p] = "ok" => file'[f] = command[p].sha /\ tmp'[p] = None
           /\ pc[p] # pc'[p] /\ file'[f] # file[f] => file'[f] = command[p].sha]_vars

\* The line a program is meant to print, without the newline that may end it.
Line(text) ==
  LET n == Len(text)
  IN  IF n > 0 /\ text[n] = Newline THEN SubSeq(text, 1, n - 1) ELSE text

IsLine(text) == \A i \in 1 .. Len(text) - 1 : text[i] # Newline

\* However the line comes through the pipe, the url that is used is this line, as
\* far as there is room for it; and it is used only if the program has ended well.
UrlIsLine ==
  \A p \in Pid :
    command[p] # None /\ command[p].transform /\ IsLine(printed[p])
    /\ pc[p] \in {"open", "transfer", "check", "rename", "copy"} =>
      /\ child[p] = "ok"
      /\ url[p] = First(Line(printed[p]), UrlSize)

\* Every download ends, if the program prints no more than the longest url and what
\* the pipe holds besides.  (Beyond that the parent waits for the program and the
\* program for the parent.)
EveryDownloadEnds == \A p \in Pid : pc[p] # "idle" ~> pc[p] = "done"
=============================================================================
