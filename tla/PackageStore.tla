---------------------------- MODULE PackageStore ----------------------------
(***************************************************************************)
(* The on-disk package store of one uppm home directory and the uppm       *)
(* processes that work on it: `install' (with or without force), `fetch'   *)
(* and `uninstall'.                                                        *)
(*                                                                         *)
(* A process is one invocation of the program.  There is no lock of any    *)
(* kind between invocations, so every file-system call of one of them may  *)
(* be followed by a call of another: one action is one such call (or a run *)
(* of calls on files only this process can see).  A process may crash      *)
(* between any two of them; the files stay as they are.                    *)
(*                                                                         *)
(* This module lets an idle process start any operation on any package.    *)
(* Uppm.tla restricts it to what a command line makes the program do.      *)
(*                                                                         *)
(* A file is identified with the digest of its bytes: two files are equal  *)
(* here if and only if their sha256 sums are.  In the same way the name of *)
(* a session, sha256("bin-url|time|pid"), is the triple it is computed     *)
(* from.                                                                   *)
(***************************************************************************)
EXTENDS Naturals

CONSTANTS
  Package,     \* package names
  Pid,         \* process ids; an id is used by one invocation only
  Url,         \* values of bin-url
  Sha,         \* values of bin-sha
  Junk,        \* the content of a file no formula declares the digest of
  None,        \* no file, no directory, no link
  Directory,   \* a real directory, left at installed/<package> by something else
  MaxRev,      \* number of revisions a formula goes through (bound)
  MaxTime,     \* last second of the clock (bound)
  Formula      \* Formula[k][r]: the text of revision r of the formula of k

Revision == 1 .. MaxRev
Second   == 0 .. MaxTime
Session  == [url : Url, ts : Second, pid : Pid]
File     == Sha \cup {Junk}

\* installed/<session>: the unpacked files and their manifest (damaged: some are
\* deleted), the file they were unpacked from, .uppm/receipt.yml (cut: the formula
\* text is in it, but not all that install adds: the name before it, the signature
\* and the time after it) and the revision of that text.
PackageDir == [files   : {"partial", "full", "damaged"},
               bin     : File \cup {None},
               receipt : {"none", "partial", "cut", "full"},
               rev     : 0 .. MaxRev]

ASSUME BoundAssumption == MaxRev \in Nat \ {0} /\ MaxTime \in Nat

ASSUME FormulaAssumption ==
  Formula \in [Package -> [Revision -> [url : Url, sha : Sha]]]

ASSUME MarkAssumption ==
  /\ Junk \notin Sha
  /\ None \notin File /\ None \notin Session /\ None \notin PackageDir
  /\ Directory \notin Session /\ Directory # None

VARIABLES
  time,        \* time(NULL)
  current,     \* current[k]: the revision of k's formula in the formula repository
  download,    \* download[x]: downloads/<x><ext>
  partial,     \* partial[s]: downloads/<s>
  dir,         \* dir[s]: installed/<s>
  link,        \* link[k]: installed/<k>
  pc,          \* pc[p]: the next call of process p
  job,         \* job[p]: the local variables of the operation p is in
  result,      \* result[p]: what p's last operation returned
  started,     \* history: the sessions of the installations begun so far
  reused,      \* history: the sessions that were begun more than once
  exposed      \* history: the sessions that were linked while another installation
               \* was removing a directory it had found under that name

env  == <<time, current>>
disk == <<download, partial, dir, link>>
proc == <<pc, job, result>>
hist == <<started, reused, exposed>>
vars == <<time, current, download, partial, dir, link, pc, job, result, started, reused,
          exposed>>

EmptyDir == [files |-> "partial", bin |-> None, receipt |-> "none", rev |-> 0]

\* All files are there, and a receipt with the whole formula text.
Built(d) == d.files = "full" /\ d.receipt \in {"cut", "full"}

\* The receipt has what install adds to that text, too.
Complete(d) == d.files = "full" /\ d.receipt = "full"

Job == [cmd   : {"install", "fetch", "uninstall"},
        pkg   : Package,
        rev   : Revision,
        sid   : Session \cup {None}]

InstallSteps == {"check_link", "check_receipt", "session", "lookup", "fetch",
                 "fetching", "verify", "real_dir", "clear", "remake", "unpack",
                 "script", "manifest", "receipt", "copy", "link", "exists", "unlink",
                 "rm_stat", "rm_open", "rm_entry"}

FetchSteps == {"f_lookup", "f_session"}    \* before it shares the steps of install

UninstallSteps == {"u_link", "u_receipt", "u_target", "u_dir", "u_unlink", "u_remove"}

Steps == InstallSteps \cup FetchSteps \cup UninstallSteps

Results == {"none", "ok", "error", "sha_mismatch", "broken", "not_installed"}

(***************************************************************************)
(* What an operation reads, and how it goes on.                            *)
(***************************************************************************)
Text(p) == Formula[job[p].pkg][job[p].rev]     \* the parsed formula
Sid(p)  == job[p].sid

Goto(p, step) ==
  /\ pc' = [pc EXCEPT ![p] = step]
  /\ UNCHANGED <<job, result>>

Return(p, r) ==
  /\ pc'     = [pc EXCEPT ![p] = "idle"]
  /\ job'    = [job EXCEPT ![p] = None]
  /\ result' = [result EXCEPT ![p] = r]

\* installed/<k> is a symbolic link.
Linked(k) == link[k] \in Session

\* installed/<k>/.uppm/receipt.yml is a regular file, whatever is in it.
HasReceipt(k) == Linked(k) /\ dir[link[k]] # None /\ dir[link[k]].receipt # "none"

(***************************************************************************)
(* uppm_install_internal and uppm_fetch: from the formula to downloads/.   *)
(***************************************************************************)
BeginInstall(p, k, r, force) ==
  /\ pc[p] = "idle"
  /\ pc'  = [pc EXCEPT ![p] = IF force THEN "session" ELSE "check_link"]
  /\ job' = [job EXCEPT ![p] = [cmd |-> "install", pkg |-> k, rev |-> r, sid |-> None]]
  /\ result' = [result EXCEPT ![p] = "none"]
  /\ UNCHANGED <<env, disk, hist>>

BeginFetch(p, k) ==
  /\ pc[p] = "idle"
  /\ pc'  = [pc EXCEPT ![p] = "f_lookup"]
  /\ job' = [job EXCEPT ![p] =
                 [cmd |-> "fetch", pkg |-> k, rev |-> current[k], sid |-> None]]
  /\ result' = [result EXCEPT ![p] = "none"]
  /\ UNCHANGED <<env, disk, hist>>

CheckLink(p) ==
  /\ pc[p] = "check_link"
  /\ Goto(p, IF Linked(job[p].pkg) THEN "check_receipt" ELSE "session")
  /\ UNCHANGED <<env, disk, hist>>

CheckReceipt(p) ==
  /\ pc[p] = "check_receipt"
  /\ Return(p, IF HasReceipt(job[p].pkg) THEN "ok" ELSE "broken")
  /\ UNCHANGED <<env, disk, hist>>

\* The session the process names now.
NewSession(p) == [url |-> Text(p).url, ts |-> time, pid |-> p]

StartSession(p) ==
  /\ pc[p] = "session"
  /\ job' = [job EXCEPT ![p].sid = NewSession(p)]
  /\ pc'  = [pc EXCEPT ![p] = "lookup"]
  /\ started' = started \cup {NewSession(p)}
  /\ reused'  = reused \cup ({NewSession(p)} \cap started)
  /\ UNCHANGED <<env, disk, result, exposed>>

\* Mutant: whatever lies in downloads/ under that name is used.
DownloadedUnchecked(p) == download[Text(p).sha] # None

\* A file of that name is used only if its digest is the declared one.
Downloaded(p) == download[Text(p).sha] = Text(p).sha

LookupDownload(p) ==
  /\ pc[p] = "lookup"
  /\ Goto(p, IF Downloaded(p) THEN "real_dir" ELSE "fetch")
  /\ UNCHANGED <<env, disk, hist>>

\* fetch looks for the file first and names its temporary file afterwards.
FetchLookup(p) ==
  /\ pc[p] = "f_lookup"
  /\ IF Downloaded(p) THEN Return(p, "ok") ELSE Goto(p, "f_session")
  /\ UNCHANGED <<env, disk, hist>>

FetchName(p) ==
  /\ pc[p] = "f_session"
  /\ job' = [job EXCEPT ![p].sid = NewSession(p)]
  /\ pc'  = [pc EXCEPT ![p] = "fetch"]
  /\ UNCHANGED <<env, disk, result, hist>>

FetchOpen(p) ==
  /\ pc[p] = "fetch"
  /\ partial' = [partial EXCEPT ![Sid(p)] = Junk]
  /\ Goto(p, "fetching")
  /\ UNCHANGED <<env, download, dir, link, hist>>

\* The server may send anything; the transfer may also fail.
FetchDone(p, content) ==
  /\ pc[p] = "fetching"
  /\ partial' = [partial EXCEPT ![Sid(p)] = content]
  /\ Goto(p, "verify")
  /\ UNCHANGED <<env, download, dir, link, hist>>

FetchFails(p) ==
  /\ pc[p] \in {"fetch", "fetching"}
  /\ Return(p, "error")
  /\ UNCHANGED <<env, disk, hist>>

\* Mutant: what the server sent is renamed without looking at its digest.
RenameUnverified(p) ==
  /\ pc[p] = "verify"
  /\ download' = [download EXCEPT ![Text(p).sha] = partial[Sid(p)]]
  /\ partial'  = [partial EXCEPT ![Sid(p)] = None]
  /\ IF job[p].cmd = "install" THEN Goto(p, "real_dir") ELSE Return(p, "ok")
  /\ UNCHANGED <<env, dir, link, hist>>

VerifyAndRename(p) ==
  /\ pc[p] = "verify"
  /\ \/ /\ partial[Sid(p)] = Text(p).sha
        /\ download' = [download EXCEPT ![Text(p).sha] = partial[Sid(p)]]
        /\ partial'  = [partial EXCEPT ![Sid(p)] = None]
        /\ IF job[p].cmd = "install" THEN Goto(p, "real_dir") ELSE Return(p, "ok")
     \/ /\ partial[Sid(p)] # Text(p).sha
        /\ Return(p, "sha_mismatch")
        /\ UNCHANGED <<download, partial>>
  /\ UNCHANGED <<env, dir, link, hist>>

(***************************************************************************)
(* uppm_rm_r on installed/<s>, entry by entry.                             *)
(***************************************************************************)
RemoveSome(s) ==
  /\ dir[s] # None
  /\ \E r \in {dir[s].receipt, "none"} :
        dir' = [dir EXCEPT ![s].files = "damaged", ![s].receipt = r]

RemoveLast(s) ==
  /\ dir[s] # None
  /\ dir' = [dir EXCEPT ![s] = None]

(***************************************************************************)
(* uppm_install_internal: installed/<session>.                             *)
(***************************************************************************)
\* Mutant: the old version is unlinked before the new one is built.
UnlinkFirst(p) ==
  LET k == job[p].pkg
  IN  /\ pc[p] = "real_dir"
      /\ dir[Sid(p)] = None
      /\ dir'  = [dir EXCEPT ![Sid(p)] = EmptyDir]
      /\ link' = [link EXCEPT ![k] = IF Linked(k) THEN None ELSE @]
      /\ Goto(p, "unpack")
      /\ UNCHANGED <<env, download, partial, hist>>

MakeRealDir(p) ==
  /\ pc[p] = "real_dir"
  /\ \/ /\ dir[Sid(p)] = None
        /\ dir' = [dir EXCEPT ![Sid(p)] = EmptyDir]
        /\ Goto(p, "unpack")
     \/ /\ dir[Sid(p)] # None
        /\ Goto(p, "clear")
        /\ UNCHANGED dir
  /\ UNCHANGED <<env, download, partial, link, hist>>

ClearRealDir(p) ==
  /\ pc[p] = "clear"
  /\ \/ RemoveSome(Sid(p)) /\ Goto(p, "clear")
     \/ RemoveLast(Sid(p)) /\ Goto(p, "remake")
     \/ dir[Sid(p)] = None /\ Return(p, "error") /\ UNCHANGED dir
  /\ UNCHANGED <<env, download, partial, link, hist>>

\* The directory is made a second time right after it has been made again, and
\* that mkdir fails with EEXIST.
RemakeRealDir(p) ==
  /\ pc[p] = "remake"
  /\ dir' = [dir EXCEPT ![Sid(p)] = EmptyDir]
  /\ Return(p, "error")
  /\ UNCHANGED <<env, download, partial, link, hist>>

\* libarchive makes the directories that are missing.
Unpack(p) ==
  /\ pc[p] = "unpack"
  /\ LET d == IF dir[Sid(p)] = None THEN EmptyDir ELSE dir[Sid(p)]
     IN  dir' = [dir EXCEPT ![Sid(p)] = [d EXCEPT !.bin = download[Text(p).sha]]]
  /\ Goto(p, "script")
  /\ UNCHANGED <<env, download, partial, link, hist>>

RunInstallScript(p) ==
  /\ pc[p] = "script"
  /\ Goto(p, "manifest")
  /\ UNCHANGED <<env, disk, hist>>

\* mkdir .uppm and uppm_record_installed_files.
RecordFiles(p) ==
  /\ pc[p] = "manifest"
  /\ IF dir[Sid(p)] = None
       THEN Return(p, "error") /\ UNCHANGED dir
       ELSE /\ dir' = [dir EXCEPT ![Sid(p)].files = IF @ = "damaged" THEN @ ELSE "full"]
            /\ Goto(p, "receipt")
  /\ UNCHANGED <<env, download, partial, link, hist>>

CreateReceipt(p) ==
  /\ pc[p] = "receipt"
  /\ IF dir[Sid(p)] = None
       THEN Return(p, "error") /\ UNCHANGED dir
       ELSE dir' = [dir EXCEPT ![Sid(p)].receipt = "partial"] /\ Goto(p, "copy")
  /\ UNCHANGED <<env, download, partial, link, hist>>

\* Mutant: the link is made before the receipt is complete.
LinkBeforeReceipt(p) ==
  LET k == job[p].pkg
  IN  /\ pc[p] = "copy"
      /\ dir[Sid(p)] # None
      /\ link[k] = None
      /\ link' = [link EXCEPT ![k] = Sid(p)]
      /\ dir'  = [dir EXCEPT ![Sid(p)].rev = current[k]]
      /\ Return(p, "ok")
      /\ UNCHANGED <<env, download, partial, hist>>

\* The formula file is read again here: its text may be newer than the text
\* that was parsed.  A write of that text that fails ends the installation (in
\* CallFails); nobody looks whether the lines before it and after it were written
\* (install.c:606, 642).  What is written to a receipt that was deleted is lost.
CopyFormula(p) ==
  /\ pc[p] = "copy"
  /\ IF dir[Sid(p)] = None \/ dir[Sid(p)].receipt = "none"
       THEN UNCHANGED dir
       ELSE \E r \in {"cut", "full"} :
              dir' = [dir EXCEPT ![Sid(p)].receipt = r, ![Sid(p)].rev = current[job[p].pkg]]
  /\ Goto(p, "link")
  /\ UNCHANGED <<env, download, partial, link, hist>>

(***************************************************************************)
(* uppm_install_internal: the loop that moves installed/<package>.         *)
(***************************************************************************)
\* A process that is about to open installed/<k>, or is deleting what it found there.
Removing(q, k) == pc[q] \in {"rm_open", "rm_entry"} /\ job[q].pkg = k

MakeLink(p) ==
  LET k == job[p].pkg
  IN  /\ pc[p] = "link"
      /\ \/ /\ link[k] = None
            /\ link' = [link EXCEPT ![k] = Sid(p)]
            /\ exposed' = IF \E q \in Pid : Removing(q, k) THEN exposed \cup {Sid(p)} ELSE exposed
            /\ Return(p, "ok")
         \/ /\ link[k] # None
            /\ Goto(p, "exists")
            /\ UNCHANGED <<link, exposed>>
      /\ UNCHANGED <<env, download, partial, dir, started, reused>>

InspectLink(p) ==
  LET k == job[p].pkg
  IN  /\ pc[p] = "exists"
      /\ \/ link[k] = None /\ Goto(p, "link")
         \/ Linked(k) /\ Goto(p, "unlink")
         \/ link[k] = Directory /\ Goto(p, "rm_stat")
      /\ UNCHANGED <<env, disk, hist>>

UnlinkOld(p) ==
  LET k == job[p].pkg
  IN  /\ pc[p] = "unlink"
      /\ \/ /\ Linked(k)
            /\ link' = [link EXCEPT ![k] = None]
            /\ Goto(p, "link")
         \/ /\ ~Linked(k)
            /\ Return(p, "error")
            /\ UNCHANGED link
      /\ UNCHANGED <<env, download, partial, dir, hist>>

(***************************************************************************)
(* uppm_rm_r on installed/<package>, where InspectLink saw a directory.    *)
(* Each call of it takes the name anew, and another installation that      *)
(* removes the same directory may have put its link there: what is no      *)
(* directory is unlinked, but opendir follows a link, and so does every    *)
(* path below the name.                                                    *)
(***************************************************************************)
StatInWay(p) ==
  /\ pc[p] = "rm_stat"
  /\ Goto(p, IF link[job[p].pkg] = Directory THEN "rm_open" ELSE "unlink")
  /\ UNCHANGED <<env, disk, hist>>

OpenInWay(p) ==
  LET k == job[p].pkg
  IN  /\ pc[p] = "rm_open"
      /\ IF link[k] = Directory \/ (Linked(k) /\ dir[link[k]] # None)
           THEN Goto(p, "rm_entry")
           ELSE Return(p, "error")
      /\ UNCHANGED <<env, disk, hist>>

\* An entry is deleted in what the name leads to by now, or is not there; in the
\* end rmdir takes a directory, and no link.
RemoveInWay(p) ==
  LET k == job[p].pkg
  IN  /\ pc[p] = "rm_entry"
      /\ \/ Linked(k) /\ RemoveSome(link[k]) /\ Goto(p, "rm_entry") /\ UNCHANGED link
         \/ /\ link[k] = Directory
            /\ link' = [link EXCEPT ![k] = None]
            /\ Goto(p, "link")
            /\ UNCHANGED dir
         \/ link[k] # Directory /\ Return(p, "error") /\ UNCHANGED <<link, dir>>
      /\ UNCHANGED <<env, download, partial, hist>>

(***************************************************************************)
(* uppm_uninstall.                                                         *)
(***************************************************************************)
BeginUninstall(p, k) ==
  /\ pc[p] = "idle"
  /\ pc'  = [pc EXCEPT ![p] = "u_link"]
  /\ job' = [job EXCEPT ![p] =
                 [cmd |-> "uninstall", pkg |-> k, rev |-> current[k], sid |-> None]]
  /\ result' = [result EXCEPT ![p] = "none"]
  /\ UNCHANGED <<env, disk, hist>>

UninstallCheckLink(p) ==
  /\ pc[p] = "u_link"
  /\ IF Linked(job[p].pkg) THEN Goto(p, "u_receipt") ELSE Return(p, "not_installed")
  /\ UNCHANGED <<env, disk, hist>>

UninstallCheckReceipt(p) ==
  /\ pc[p] = "u_receipt"
  /\ IF HasReceipt(job[p].pkg) THEN Goto(p, "u_target") ELSE Return(p, "not_installed")
  /\ UNCHANGED <<env, disk, hist>>

\* Mutant: the result of readlink is used without looking at its error.
ReadLinkUnchecked(p) ==
  /\ pc[p] = "u_target"
  /\ job' = [job EXCEPT ![p].sid = link[job[p].pkg]]
  /\ pc'  = [pc EXCEPT ![p] = "u_dir"]
  /\ UNCHANGED <<env, disk, result, hist>>

UninstallReadLink(p) ==
  /\ pc[p] = "u_target"
  /\ \/ /\ Linked(job[p].pkg)
        /\ job' = [job EXCEPT ![p].sid = link[job[p].pkg]]
        /\ pc'  = [pc EXCEPT ![p] = "u_dir"]
        /\ UNCHANGED result
     \/ ~Linked(job[p].pkg) /\ Return(p, "error")
  /\ UNCHANGED <<env, disk, hist>>

UninstallCheckDir(p) ==
  /\ pc[p] = "u_dir"
  /\ IF dir[Sid(p)] # None THEN Goto(p, "u_unlink") ELSE Return(p, "not_installed")
  /\ UNCHANGED <<env, disk, hist>>

\* unlink acts on whatever link is there by now.
UninstallUnlink(p) ==
  LET k == job[p].pkg
  IN  /\ pc[p] = "u_unlink"
      /\ \/ /\ Linked(k)
            /\ link' = [link EXCEPT ![k] = None]
            /\ Goto(p, "u_remove")
         \/ /\ ~Linked(k)
            /\ Return(p, "error")
            /\ UNCHANGED link
      /\ UNCHANGED <<env, download, partial, dir, hist>>

UninstallRemove(p) ==
  /\ pc[p] = "u_remove"
  /\ \/ RemoveSome(Sid(p)) /\ Goto(p, "u_remove")
     \/ RemoveLast(Sid(p)) /\ Return(p, "ok")
     \/ dir[Sid(p)] = None /\ Return(p, "error") /\ UNCHANGED dir
  /\ UNCHANGED <<env, download, partial, link, hist>>

(***************************************************************************)
(* A system call, tar_extract or the install script fails: the operation   *)
(* returns and cleans nothing up.                                          *)
(***************************************************************************)
FallibleSteps ==
  {"lookup", "f_lookup", "verify", "real_dir", "clear", "remake", "unpack", "script",
   "manifest", "receipt", "copy", "link", "exists", "unlink", "rm_stat", "rm_open", "rm_entry",
   "u_target", "u_unlink", "u_remove"}

CallFails(p) ==
  /\ pc[p] \in FallibleSteps
  /\ Return(p, "error")
  /\ UNCHANGED <<env, disk, hist>>

(***************************************************************************)
(* The rest of the world: the clock, the formula repository, crashes.      *)
(***************************************************************************)
Tick ==
  /\ time < MaxTime
  /\ time' = time + 1
  /\ UNCHANGED <<current, disk, proc, hist>>

\* A sync of the formula repository (or the user) puts the next text in place.
Publish(k) ==
  /\ current[k] < MaxRev
  /\ current' = [current EXCEPT ![k] = @ + 1]
  /\ UNCHANGED <<time, disk, proc, hist>>

Crash(p) ==
  /\ pc[p] \in Steps
  /\ pc'  = [pc EXCEPT ![p] = "dead"]
  /\ job' = [job EXCEPT ![p] = None]
  /\ UNCHANGED <<env, disk, result, hist>>

(***************************************************************************)
(* The specification.                                                      *)
(***************************************************************************)
Init ==
  /\ time = 0
  /\ current = [k \in Package |-> 1]
  /\ download \in [Sha -> {None, Junk}]
  /\ partial = [s \in Session |-> None]
  /\ dir = [s \in Session |-> None]
  /\ link \in [Package -> {None, Directory}]
  /\ pc = [p \in Pid |-> "idle"]
  /\ job = [p \in Pid |-> None]
  /\ result = [p \in Pid |-> "none"]
  /\ started = {}
  /\ reused = {}
  /\ exposed = {}

InstallStep(p) ==
  \/ CheckLink(p) \/ CheckReceipt(p) \/ StartSession(p) \/ LookupDownload(p)
  \/ FetchLookup(p) \/ FetchName(p) \/ FetchOpen(p) \/ (\E c \in File : FetchDone(p, c)) \/ VerifyAndRename(p)
  \/ MakeRealDir(p) \/ ClearRealDir(p) \/ RemakeRealDir(p)
  \/ Unpack(p) \/ RunInstallScript(p) \/ RecordFiles(p) \/ CreateReceipt(p) \/ CopyFormula(p)
  \/ MakeLink(p) \/ InspectLink(p) \/ UnlinkOld(p)
  \/ StatInWay(p) \/ OpenInWay(p) \/ RemoveInWay(p)

UninstallStep(p) ==
  \/ UninstallCheckLink(p) \/ UninstallCheckReceipt(p) \/ UninstallReadLink(p)
  \/ UninstallCheckDir(p) \/ UninstallUnlink(p) \/ UninstallRemove(p)

Fault(p) == FetchFails(p) \/ CallFails(p)

Begin(p) ==
  \E k \in Package :
     \/ \E r \in 1 .. current[k], force \in BOOLEAN : BeginInstall(p, k, r, force)
     \/ BeginFetch(p, k)
     \/ BeginUninstall(p, k)

Next ==
  \/ \E p \in Pid : Begin(p) \/ InstallStep(p) \/ UninstallStep(p) \/ Fault(p) \/ Crash(p)
  \/ Tick
  \/ \E k \in Package : Publish(k)

Spec == Init /\ [][Next]_vars
(***************************************************************************)
(* Properties.                                                             *)
(***************************************************************************)
\* Every variable has its type; a process inside an operation has a job, and
\* has named its session from the step that computes it on.
Unnamed == {"check_link", "check_receipt", "session", "f_lookup", "f_session", "u_link", "u_receipt", "u_target"}

DiskTypeOK ==
  /\ time \in Second
  /\ current \in [Package -> Revision]
  /\ download \in [Sha -> File \cup {None}]
  /\ partial \in [Session -> File \cup {None}]
  /\ dir \in [Session -> PackageDir \cup {None}]
  /\ link \in [Package -> Session \cup {None, Directory}]
  /\ started \subseteq Session
  /\ reused \subseteq started
  /\ exposed \subseteq Session

ProcTypeOK ==
  /\ pc \in [Pid -> Steps \cup {"idle", "dead"}]
  /\ job \in [Pid -> Job \cup {None}]
  /\ result \in [Pid -> Results]
  /\ \A p \in Pid : pc[p] \in Steps =>
        /\ job[p] \in Job
        /\ pc[p] \notin Unnamed => job[p].sid \in Session
        /\ pc[p] \in UninstallSteps <=> job[p].cmd = "uninstall"

TypeOK == DiskTypeOK /\ ProcTypeOK

\* installed/<package> never leads to a directory that is still being filled,
\* that was given up half-way or that is being deleted, whichever way installs,
\* reinstalls, uninstalls and crashes interleave.  There are two exceptions: a
\* session name that one process computed twice (install.c names a session with
\* the url, the second and the pid), and a build that was linked while another
\* installation was past the lstat of a directory under that name (rm-r.c:24): its
\* opendir and unlink calls may go through the new link.
LinkedIsBuilt ==
  \A k \in Package : Linked(k) /\ link[k] \notin reused \cup exposed =>
     dir[link[k]] # None /\ Built(dir[link[k]])

\* What is reached through installed/<package> was unpacked from a file that has
\* the digest some revision of the package's formula declares, and the text copied
\* into the receipt next to it is never older than that revision.
LinkedIsVerified ==
  \A k \in Package : Linked(k) /\ link[k] \notin reused =>
     /\ dir[link[k]] # None
     /\ \E r \in Revision : r <= dir[link[k]].rev /\ dir[link[k]].bin = Formula[k][r].sha

\* Whatever the server sent and whatever was in downloads/ before, no file is
\* unpacked but one with the digest declared next to the url of its session.
UnpackedIsVerified ==
  \A s \in Session : dir[s] # None /\ dir[s].bin # None =>
     \E k \in Package, r \in Revision :
        Formula[k][r].url = s.url /\ Formula[k][r].sha = dir[s].bin

\* An installed package is unlinked by an uninstall of that package, or by an
\* install of it that has built its own directory, with the formula text in the
\* receipt: an install that fails before that point leaves the installed version
\* as it was, even if it found a directory in the way and a link in the end.
GivenUpOnlyForBuilt ==
  [][\A k \in Package : Linked(k) /\ link'[k] # link[k] =>
        \E p \in Pid :
           /\ pc[p] \in {"u_unlink", "unlink"} /\ pc'[p] # pc[p]
           /\ job[p].pkg = k
           /\ \/ job[p].cmd = "uninstall"
              \/ Sid(p) \in reused
              \/ dir[Sid(p)] # None /\ Built(dir[Sid(p)])]_vars

(***************************************************************************)
(* The store implements PackageIndex: under a package's name there is      *)
(* nothing or one finished build, the whole directory of which stays as it *)
(* is.  A name that leads to a session which was begun a second time, or   *)
(* which was linked while its name was being emptied, counts as lost.      *)
(***************************************************************************)
Build == [files : {"full"}, bin : Sha, receipt : {"cut", "full"}, rev : Revision]

Offered == [k \in Package |->
              {d \in Build : \E r \in 1 .. d.rev : d.bin = Formula[k][r].sha}]

Intact(k) == Linked(k) /\ link[k] \notin reused \cup exposed

Installed == [k \in Package |-> IF Intact(k) THEN dir[link[k]] ELSE None]

Index == INSTANCE PackageIndex WITH Offer <- Offered, installed <- Installed

\* Every behaviour of the store is one of the index.
ImplementsIndex == Index!Spec
=============================================================================
