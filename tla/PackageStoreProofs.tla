-------------------------- MODULE PackageStoreProofs --------------------------
(***************************************************************************)
(* Type correctness and the safety properties of PackageStore, for any     *)
(* number of packages, processes, revisions and seconds.                   *)
(*                                                                         *)
(* The steps are summed up: what a step does to the processes, to the      *)
(* directories, to the links and to the downloads (one lemma each).  The   *)
(* parts of the inductive invariant are then preserved by whatever fits    *)
(* these summaries.                                                        *)
(***************************************************************************)
EXTENDS PackageStore, TLAPS

-----------------------------------------------------------------------------
(***************************************************************************)
(* Type correctness.                                                       *)
(***************************************************************************)
LEMMA InitTypeOK == Init => TypeOK
<1> SUFFICES ASSUME Init PROVE TypeOK
  OBVIOUS
<1> USE BoundAssumption, FormulaAssumption, MarkAssumption DEF Init
<1>1. DiskTypeOK
  BY DEF DiskTypeOK, Second, Revision, File
<1>2. \A p \in Pid : pc[p] \notin Steps
  BY DEF Steps, InstallSteps, FetchSteps, UninstallSteps
<1>3. ProcTypeOK
  BY <1>2 DEF ProcTypeOK, Results
<1> QED BY <1>1, <1>3 DEF TypeOK

(***************************************************************************)
(* The three ways a step changes the state of its process.                 *)
(***************************************************************************)
LEMMA StepTable ==
  /\ "idle" \notin Steps /\ "dead" \notin Steps
  /\ \A x \in {"check_link", "check_receipt", "session"} :
        x \in Steps /\ x \in InstallSteps /\ x \notin UninstallSteps /\ x \in Unnamed
  /\ \A x \in {"f_lookup", "f_session"} :
        x \in Steps /\ x \notin InstallSteps /\ x \notin UninstallSteps /\ x \in Unnamed
  /\ \A x \in {"lookup", "fetch", "fetching", "verify", "real_dir", "clear", "remake", "unpack", "script",
               "manifest", "receipt", "copy", "link", "exists", "unlink", "rm_stat", "rm_open", "rm_entry"} :
        x \in Steps /\ x \in InstallSteps /\ x \notin UninstallSteps /\ x \notin Unnamed
  /\ \A x \in {"u_link", "u_receipt", "u_target"} :
        x \in Steps /\ x \in UninstallSteps /\ x \notin InstallSteps /\ x \in Unnamed
  /\ \A x \in {"u_dir", "u_unlink", "u_remove"} :
        x \in Steps /\ x \in UninstallSteps /\ x \notin InstallSteps /\ x \notin Unnamed
BY DEF Steps, InstallSteps, FetchSteps, UninstallSteps, Unnamed

LEMMA ResultTable ==
  \A r \in {"none", "ok", "error", "sha_mismatch", "broken", "not_installed"} : r \in Results
BY DEF Results

LEMMA GotoTypeOK ==
  ASSUME ProcTypeOK, NEW p \in Pid, NEW step \in Steps, Goto(p, step), pc[p] \in Steps,
         step \in UninstallSteps <=> pc[p] \in UninstallSteps,
         step \notin Unnamed => job[p].sid \in Session
  PROVE  ProcTypeOK'
BY DEF ProcTypeOK, Goto

LEMMA ReturnTypeOK ==
  ASSUME ProcTypeOK, NEW p \in Pid, NEW r \in Results, Return(p, r)
  PROVE  ProcTypeOK'
BY StepTable DEF ProcTypeOK, Return

LEMMA NewJobTypeOK ==
  ASSUME ProcTypeOK, NEW p \in Pid, NEW step \in Steps, NEW new \in Job, result' \in [Pid -> Results],
         pc' = [pc EXCEPT ![p] = step], job' = [job EXCEPT ![p] = new],
         step \notin Unnamed => new.sid \in Session,
         step \in UninstallSteps <=> new.cmd = "uninstall"
  PROVE  ProcTypeOK'
BY DEF ProcTypeOK

(***************************************************************************)
(* Every step preserves the types.                                         *)
(***************************************************************************)
LEMMA BeginTypeOK == ASSUME TypeOK, NEW p \in Pid, Begin(p) PROVE TypeOK'
<1> USE DEF TypeOK
<1>1. ASSUME NEW k \in Package, NEW r \in 1 .. current[k], NEW force \in BOOLEAN,
             BeginInstall(p, k, r, force)
      PROVE  TypeOK'
  <2>1. DiskTypeOK'  BY <1>1 DEF DiskTypeOK, BeginInstall, env, disk, hist
  <2>2. r \in Revision  BY BoundAssumption DEF DiskTypeOK, Revision
  <2>3. [cmd |-> "install", pkg |-> k, rev |-> r, sid |-> None] \in Job  BY <2>2 DEF Job
  <2>4. result' \in [Pid -> Results]  BY <1>1 DEF BeginInstall, ProcTypeOK, Results
  <2> DEFINE step == IF force THEN "session" ELSE "check_link"
  <2>5. step \in Steps /\ step \in Unnamed /\ step \notin UninstallSteps
    BY DEF Steps, InstallSteps, FetchSteps, UninstallSteps, Unnamed
  <2>6. ProcTypeOK'  BY <1>1, <2>3, <2>4, <2>5, NewJobTypeOK DEF BeginInstall
  <2> QED BY <2>1, <2>6
<1>2. ASSUME NEW k \in Package, BeginFetch(p, k) PROVE TypeOK'
  <2>1. DiskTypeOK'  BY <1>2 DEF DiskTypeOK, BeginFetch, env, disk, hist
  <2>2. [cmd |-> "fetch", pkg |-> k, rev |-> current[k], sid |-> None] \in Job
    BY DEF Job, DiskTypeOK
  <2>3. result' \in [Pid -> Results]  BY <1>2 DEF BeginFetch, ProcTypeOK, Results
  <2>4. "f_lookup" \in Steps /\ "f_lookup" \in Unnamed /\ "f_lookup" \notin UninstallSteps
    BY DEF Steps, InstallSteps, FetchSteps, UninstallSteps, Unnamed
  <2>5. ProcTypeOK'  BY <1>2, <2>2, <2>3, <2>4, NewJobTypeOK DEF BeginFetch
  <2> QED BY <2>1, <2>5
<1>3. ASSUME NEW k \in Package, BeginUninstall(p, k) PROVE TypeOK'
  <2>1. DiskTypeOK'  BY <1>3 DEF DiskTypeOK, BeginUninstall, env, disk, hist
  <2>2. [cmd |-> "uninstall", pkg |-> k, rev |-> current[k], sid |-> None] \in Job
    BY DEF Job, DiskTypeOK
  <2>3. result' \in [Pid -> Results]  BY <1>3 DEF BeginUninstall, ProcTypeOK, Results
  <2>4. "u_link" \in Steps /\ "u_link" \in Unnamed /\ "u_link" \in UninstallSteps
    BY DEF Steps, InstallSteps, FetchSteps, UninstallSteps, Unnamed
  <2>5. ProcTypeOK'  BY <1>3, <2>2, <2>3, <2>4, NewJobTypeOK DEF BeginUninstall
  <2> QED BY <2>1, <2>5
<1> QED BY <1>1, <1>2, <1>3 DEF Begin

\* A directory replaced by a directory.
LEMMA DirTypeOK ==
  ASSUME DiskTypeOK, NEW s \in Session, NEW d \in PackageDir, dir' = [dir EXCEPT ![s] = d],
         UNCHANGED <<env, download, partial, link, hist>>
  PROVE  DiskTypeOK'
BY DEF DiskTypeOK, env, hist

\* A directory that loses an entry is one still, unpacked from the same file.
LEMMA RemoveSomeLeaves ==
  ASSUME DiskTypeOK, NEW s \in Session, RemoveSome(s)
  PROVE  /\ dir[s] # None
         /\ \E d \in PackageDir : /\ dir' = [dir EXCEPT ![s] = d] /\ dir'[s] = d
                               /\ d.bin = dir[s].bin /\ d.rev = dir[s].rev
<1>1. PICK r \in {dir[s].receipt, "none"} :
        dir' = [dir EXCEPT ![s] = [dir[s] EXCEPT !.files = "damaged", !.receipt = r]]
  BY DEF RemoveSome
<1> DEFINE new == [dir[s] EXCEPT !.files = "damaged", !.receipt = r]
<1>2. dir[s] # None /\ dir[s] \in PackageDir
  BY DEF RemoveSome, DiskTypeOK
<1>3. new \in PackageDir /\ new.bin = dir[s].bin /\ new.rev = dir[s].rev
  BY <1>2 DEF PackageDir
<1>4. dir' = [dir EXCEPT ![s] = new] /\ dir'[s] = new
  BY <1>1 DEF DiskTypeOK
<1> HIDE DEF new
<1> QED BY <1>2, <1>3, <1>4

LEMMA RemoveTypeOK ==
  ASSUME DiskTypeOK, NEW s \in Session, RemoveSome(s) \/ RemoveLast(s),
         UNCHANGED <<env, download, partial, link, hist>>
  PROVE  DiskTypeOK'
<1>1. CASE RemoveSome(s)
  BY <1>1, RemoveSomeLeaves, DirTypeOK
<1>2. CASE RemoveLast(s)
  BY <1>2 DEF RemoveLast, DiskTypeOK, env, hist
<1> QED BY <1>1, <1>2

LEMMA InstallTypeOK == ASSUME TypeOK, NEW p \in Pid, InstallStep(p) PROVE TypeOK'
<1> USE BoundAssumption, FormulaAssumption, MarkAssumption, StepTable, ResultTable DEF TypeOK
<1> DEFINE T == Formula[job[p].pkg][job[p].rev]
<1>t. pc[p] \in Steps => job[p] \in Job /\ T \in [url : Url, sha : Sha]
  BY DEF ProcTypeOK, Job
<1>s. pc[p] \in Steps /\ pc[p] \notin Unnamed => Sid(p) \in Session
  BY DEF ProcTypeOK, Sid
<1>1. CASE CheckLink(p)
  <2>1. DiskTypeOK'  BY <1>1, <1>s, <1>t DEF CheckLink, DiskTypeOK, Text, env, disk, hist
  <2>2. ProcTypeOK'  BY <1>1, <1>s, GotoTypeOK DEF CheckLink, ProcTypeOK, Sid
  <2> QED BY <2>1, <2>2
<1>2. CASE CheckReceipt(p)
  <2>1. DiskTypeOK'  BY <1>2, <1>s, <1>t DEF CheckReceipt, DiskTypeOK, Text, env, disk, hist
  <2>2. ProcTypeOK'  BY <1>2, <1>s, ReturnTypeOK DEF CheckReceipt, ProcTypeOK, Sid
  <2> QED BY <2>1, <2>2
<1>3. CASE LookupDownload(p)
  <2>1. DiskTypeOK'  BY <1>3, <1>s, <1>t DEF LookupDownload, DiskTypeOK, Text, env, disk, hist
  <2>2. ProcTypeOK'  BY <1>3, <1>s, GotoTypeOK DEF LookupDownload, ProcTypeOK, Sid
  <2> QED BY <2>1, <2>2
<1>4. CASE FetchOpen(p)
  <2>1. DiskTypeOK'  BY <1>4, <1>s, <1>t DEF FetchOpen, DiskTypeOK, Text, env, hist, File, Sid
  <2>2. ProcTypeOK'  BY <1>4, <1>s, GotoTypeOK DEF FetchOpen, ProcTypeOK, Sid
  <2> QED BY <2>1, <2>2
<1>5. ASSUME NEW c \in File, FetchDone(p, c) PROVE TypeOK'
  <2>1. DiskTypeOK'  BY <1>5, <1>s, <1>t DEF FetchDone, DiskTypeOK, Text, env, hist, Sid
  <2>2. ProcTypeOK'  BY <1>5, <1>s, GotoTypeOK DEF FetchDone, ProcTypeOK, Sid
  <2> QED BY <2>1, <2>2
<1>6. CASE VerifyAndRename(p)
  <2>a. T.sha \in Sha /\ Sid(p) \in Session
    BY <1>6, <1>s, <1>t DEF VerifyAndRename
  <2>b. download' \in [Sha -> File \cup {None}] /\ partial' \in [Session -> File \cup {None}]
    <3>1. CASE partial[Sid(p)] = T.sha
      <4>1. /\ download' = [download EXCEPT ![T.sha] = partial[Sid(p)]]
            /\ partial' = [partial EXCEPT ![Sid(p)] = None]
        BY <1>6, <3>1 DEF VerifyAndRename, Text
      <4>2. partial[Sid(p)] \in File \cup {None}
        BY <2>a DEF DiskTypeOK
      <4> QED BY <2>a, <4>1, <4>2 DEF DiskTypeOK
    <3>2. CASE partial[Sid(p)] # T.sha
      BY <1>6, <3>2 DEF VerifyAndRename, DiskTypeOK, Text
    <3> QED BY <3>1, <3>2
  <2>1. DiskTypeOK'
    BY <1>6, <2>b DEF VerifyAndRename, DiskTypeOK, env, hist
  <2>2. ProcTypeOK'  BY <1>6, <1>s, GotoTypeOK, ReturnTypeOK DEF VerifyAndRename, ProcTypeOK, Sid
  <2> QED BY <2>1, <2>2
<1>7. CASE MakeRealDir(p)
  <2>a. EmptyDir \in PackageDir
    BY DEF EmptyDir, PackageDir
  <2>1. DiskTypeOK'  BY <1>7, <1>s, <2>a DEF MakeRealDir, DiskTypeOK, env, hist
  <2>2. ProcTypeOK'  BY <1>7, <1>s, GotoTypeOK DEF MakeRealDir, ProcTypeOK, Sid
  <2> QED BY <2>1, <2>2
<1>8. CASE ClearRealDir(p)
  <2>1. DiskTypeOK'
    BY <1>8, <1>s, RemoveTypeOK DEF ClearRealDir, DiskTypeOK, env, hist
  <2>2. ProcTypeOK'  BY <1>8, <1>s, GotoTypeOK, ReturnTypeOK DEF ClearRealDir, ProcTypeOK, Sid
  <2> QED BY <2>1, <2>2
<1>9. CASE RemakeRealDir(p)
  <2>a. EmptyDir \in PackageDir
    BY DEF EmptyDir, PackageDir
  <2>1. DiskTypeOK'  BY <1>9, <1>s, <2>a DEF RemakeRealDir, DiskTypeOK, env, hist
  <2>2. ProcTypeOK'  BY <1>9, <1>s, ReturnTypeOK DEF RemakeRealDir, ProcTypeOK, Sid
  <2> QED BY <2>1, <2>2
<1>10. CASE Unpack(p)
  <2> DEFINE old == IF dir[Sid(p)] = None THEN EmptyDir ELSE dir[Sid(p)]
             new == [old EXCEPT !.bin = download[T.sha]]
  <2>a. Sid(p) \in Session /\ old \in PackageDir
    BY <1>10, <1>s DEF Unpack, DiskTypeOK, EmptyDir, PackageDir
  <2>d. download[T.sha] \in File \cup {None}
    BY <1>10, <1>t DEF Unpack, DiskTypeOK
  <2>b. new \in PackageDir
    <3> HIDE DEF old
    <3> QED BY <2>a, <2>d DEF PackageDir
  <2>c. dir' = [dir EXCEPT ![Sid(p)] = new] /\ UNCHANGED <<env, download, partial, link, hist>>
    BY <1>10 DEF Unpack, Text
  <2>1. DiskTypeOK'  BY <2>a, <2>b, <2>c, DirTypeOK
  <2>2. ProcTypeOK'  BY <1>10, <1>s, GotoTypeOK DEF Unpack, ProcTypeOK, Sid
  <2> QED BY <2>1, <2>2
<1>11. CASE RunInstallScript(p)
  <2>1. DiskTypeOK'  BY <1>11, <1>s, <1>t DEF RunInstallScript, DiskTypeOK, Text, env, disk, hist
  <2>2. ProcTypeOK'  BY <1>11, <1>s, GotoTypeOK DEF RunInstallScript, ProcTypeOK, Sid
  <2> QED BY <2>1, <2>2
<1>12. CASE RecordFiles(p)
  <2> DEFINE new == [dir[Sid(p)] EXCEPT !.files = IF @ = "damaged" THEN @ ELSE "full"]
  <2>a. Sid(p) \in Session
    BY <1>12, <1>s DEF RecordFiles
  <2>1. DiskTypeOK'
    <3>b. CASE dir[Sid(p)] # None
      <4>0. dir[Sid(p)] \in PackageDir
        BY <2>a, <3>b DEF DiskTypeOK
      <4>1. new \in PackageDir
        BY <4>0 DEF PackageDir
      <4>2. dir' = [dir EXCEPT ![Sid(p)] = new] /\ UNCHANGED <<env, download, partial, link, hist>>
        BY <1>12, <3>b DEF RecordFiles
      <4> QED BY <2>a, <4>1, <4>2, DirTypeOK
    <3>c. CASE dir[Sid(p)] = None
      BY <1>12, <3>c DEF RecordFiles, DiskTypeOK, env, hist
    <3> QED BY <3>b, <3>c
  <2>2. ProcTypeOK'  BY <1>12, <1>s, GotoTypeOK, ReturnTypeOK DEF RecordFiles, ProcTypeOK, Sid
  <2> QED BY <2>1, <2>2
<1>13. CASE CreateReceipt(p)
  <2> DEFINE new == [dir[Sid(p)] EXCEPT !.receipt = "partial"]
  <2>a. Sid(p) \in Session
    BY <1>13, <1>s DEF CreateReceipt
  <2>1. DiskTypeOK'
    <3>b. CASE dir[Sid(p)] # None
      <4>0. dir[Sid(p)] \in PackageDir
        BY <2>a, <3>b DEF DiskTypeOK
      <4>1. new \in PackageDir
        BY <4>0 DEF PackageDir
      <4>2. dir' = [dir EXCEPT ![Sid(p)] = new] /\ UNCHANGED <<env, download, partial, link, hist>>
        BY <1>13, <3>b DEF CreateReceipt
      <4> QED BY <2>a, <4>1, <4>2, DirTypeOK
    <3>c. CASE dir[Sid(p)] = None
      BY <1>13, <3>c DEF CreateReceipt, DiskTypeOK, env, hist
    <3> QED BY <3>b, <3>c
  <2>2. ProcTypeOK'  BY <1>13, <1>s, GotoTypeOK, ReturnTypeOK DEF CreateReceipt, ProcTypeOK, Sid
  <2> QED BY <2>1, <2>2
<1>14. CASE CopyFormula(p)
  <2> DEFINE new(r) == [dir[Sid(p)] EXCEPT !.receipt = r, !.rev = current[job[p].pkg]]
  <2>a. Sid(p) \in Session
    BY <1>14, <1>s DEF CopyFormula
  <2>1. DiskTypeOK'
    <3>b. CASE dir' # dir
      <4>1. current[job[p].pkg] \in 0 .. MaxRev
        BY <1>14, <1>t DEF CopyFormula, Job, DiskTypeOK, Revision
      <4>2. dir[Sid(p)] \in PackageDir
        BY <1>14, <2>a, <3>b DEF CopyFormula, DiskTypeOK
      <4>3. \A r \in {"cut", "full"} : new(r) \in PackageDir
        BY <4>1, <4>2 DEF PackageDir
      <4>4. PICK r \in {"cut", "full"} : dir' = [dir EXCEPT ![Sid(p)] = new(r)]
        BY <1>14, <3>b DEF CopyFormula
      <4>5. UNCHANGED <<env, download, partial, link, hist>>
        BY <1>14 DEF CopyFormula
      <4> QED BY <2>a, <4>3, <4>4, <4>5, DirTypeOK
    <3>c. CASE dir' = dir
      BY <1>14, <3>c DEF CopyFormula, DiskTypeOK, env, hist
    <3> QED BY <3>b, <3>c
  <2>2. ProcTypeOK'  BY <1>14, <1>s, GotoTypeOK DEF CopyFormula, ProcTypeOK, Sid
  <2> QED BY <2>1, <2>2
<1>15. CASE MakeLink(p)
  <2>a. Sid(p) \in Session /\ exposed' \subseteq exposed \cup {Sid(p)}
    BY <1>15, <1>s DEF MakeLink
  <2>b. link' \in [Package -> Session \cup {None, Directory}]
    BY <1>15, <2>a DEF MakeLink, DiskTypeOK
  <2>1. DiskTypeOK'  BY <1>15, <2>a, <2>b DEF MakeLink, DiskTypeOK, env
  <2>2. ProcTypeOK'  BY <1>15, <1>s, GotoTypeOK, ReturnTypeOK DEF MakeLink, ProcTypeOK, Sid
  <2> QED BY <2>1, <2>2
<1>16. CASE InspectLink(p)
  <2>1. DiskTypeOK'  BY <1>16 DEF InspectLink, DiskTypeOK, env, disk, hist
  <2>2. ProcTypeOK'  BY <1>16, <1>s, GotoTypeOK DEF InspectLink, ProcTypeOK, Sid
  <2> QED BY <2>1, <2>2
<1>17. CASE UnlinkOld(p)
  <2>1. DiskTypeOK'  BY <1>17, <1>s, <1>t DEF UnlinkOld, DiskTypeOK, Text, env, hist, Linked
  <2>2. ProcTypeOK'  BY <1>17, <1>s, GotoTypeOK, ReturnTypeOK DEF UnlinkOld, ProcTypeOK, Sid
  <2> QED BY <2>1, <2>2
<1>18. CASE StartSession(p)
  <2> DEFINE new == [job[p] EXCEPT !.sid = NewSession(p)]
  <2>1. NewSession(p) \in Session
    BY <1>18, <1>t DEF StartSession, NewSession, Session, DiskTypeOK, Text
  <2>2. DiskTypeOK'  BY <1>18, <2>1 DEF StartSession, DiskTypeOK, env, disk
  <2>3. job[p] \in Job /\ job[p].cmd # "uninstall"  BY <1>18, <1>t DEF StartSession, ProcTypeOK
  <2>4. new \in Job /\ new.cmd = job[p].cmd /\ new.sid = NewSession(p)  BY <2>1, <2>3 DEF Job
  <2>5. job' = [job EXCEPT ![p] = new] /\ pc' = [pc EXCEPT ![p] = "lookup"]
    BY <1>18 DEF StartSession
  <2>6. result' \in [Pid -> Results]  BY <1>18 DEF StartSession, ProcTypeOK
  <2>7. ProcTypeOK'  BY <2>1, <2>3, <2>4, <2>5, <2>6, NewJobTypeOK
  <2> QED BY <2>2, <2>7
<1>19. CASE FetchLookup(p)
  <2>1. DiskTypeOK'  BY <1>19 DEF FetchLookup, DiskTypeOK, env, disk, hist
  <2>2. ProcTypeOK'  BY <1>19, GotoTypeOK, ReturnTypeOK DEF FetchLookup
  <2> QED BY <2>1, <2>2
<1>20. CASE FetchName(p)
  <2> DEFINE new == [job[p] EXCEPT !.sid = NewSession(p)]
  <2>1. NewSession(p) \in Session
    BY <1>20, <1>t DEF FetchName, NewSession, Session, DiskTypeOK, Text
  <2>2. DiskTypeOK'  BY <1>20, <2>1 DEF FetchName, DiskTypeOK, env, disk, hist
  <2>3. job[p] \in Job /\ job[p].cmd # "uninstall"  BY <1>20, <1>t DEF FetchName, ProcTypeOK
  <2>4. new \in Job /\ new.cmd = job[p].cmd /\ new.sid = NewSession(p)  BY <2>1, <2>3 DEF Job
  <2>5. job' = [job EXCEPT ![p] = new] /\ pc' = [pc EXCEPT ![p] = "fetch"]
    BY <1>20 DEF FetchName
  <2>6. result' \in [Pid -> Results]  BY <1>20 DEF FetchName, ProcTypeOK
  <2>7. ProcTypeOK'  BY <2>1, <2>3, <2>4, <2>5, <2>6, NewJobTypeOK
  <2> QED BY <2>2, <2>7
<1>21. CASE StatInWay(p)
  <2>1. DiskTypeOK'  BY <1>21 DEF StatInWay, DiskTypeOK, env, disk, hist
  <2>2. ProcTypeOK'  BY <1>21, <1>s, GotoTypeOK DEF StatInWay, Sid
  <2> QED BY <2>1, <2>2
<1>22. CASE OpenInWay(p)
  <2>1. DiskTypeOK'  BY <1>22 DEF OpenInWay, DiskTypeOK, env, disk, hist
  <2>2. ProcTypeOK'  BY <1>22, <1>s, GotoTypeOK, ReturnTypeOK DEF OpenInWay, Sid
  <2> QED BY <2>1, <2>2
<1>23. CASE RemoveInWay(p)
  <2>1. DiskTypeOK'
    <3>1. CASE Linked(job[p].pkg) /\ RemoveSome(link[job[p].pkg]) /\ UNCHANGED link
      BY <1>23, <3>1, RemoveTypeOK DEF RemoveInWay, Linked
    <3>2. CASE link' = [link EXCEPT ![job[p].pkg] = None] /\ UNCHANGED dir
      BY <1>23, <3>2 DEF RemoveInWay, DiskTypeOK, env, hist
    <3>3. CASE UNCHANGED <<link, dir>>
      BY <1>23, <3>3 DEF RemoveInWay, DiskTypeOK, env, hist
    <3> QED BY <1>23, <3>1, <3>2, <3>3 DEF RemoveInWay
  <2>2. ProcTypeOK'  BY <1>23, <1>s, GotoTypeOK, ReturnTypeOK DEF RemoveInWay, Sid
  <2> QED BY <2>1, <2>2
<1> QED BY <1>1, <1>2, <1>3, <1>4, <1>5, <1>6, <1>7, <1>8, <1>9, <1>10, <1>11, <1>12, <1>13,
           <1>14, <1>15, <1>16, <1>17, <1>18, <1>19, <1>20, <1>21, <1>22, <1>23 DEF InstallStep

LEMMA UninstallTypeOK == ASSUME TypeOK, NEW p \in Pid, UninstallStep(p) PROVE TypeOK'
<1> USE BoundAssumption, MarkAssumption, StepTable, ResultTable DEF TypeOK
<1>s. pc[p] \in Steps /\ pc[p] \notin Unnamed => Sid(p) \in Session
  BY DEF ProcTypeOK, Sid
<1>1. CASE UninstallCheckLink(p)
  <2>1. DiskTypeOK'  BY <1>1, <1>s DEF UninstallCheckLink, DiskTypeOK, env, disk, hist
  <2>2. ProcTypeOK'  BY <1>1, <1>s, GotoTypeOK, ReturnTypeOK DEF UninstallCheckLink, ProcTypeOK, Sid
  <2> QED BY <2>1, <2>2
<1>2. CASE UninstallCheckReceipt(p)
  <2>1. DiskTypeOK'  BY <1>2, <1>s DEF UninstallCheckReceipt, DiskTypeOK, env, disk, hist
  <2>2. ProcTypeOK'  BY <1>2, <1>s, GotoTypeOK, ReturnTypeOK DEF UninstallCheckReceipt, ProcTypeOK, Sid
  <2> QED BY <2>1, <2>2
<1>3. CASE UninstallCheckDir(p)
  <2>1. DiskTypeOK'  BY <1>3, <1>s DEF UninstallCheckDir, DiskTypeOK, env, disk, hist
  <2>2. ProcTypeOK'  BY <1>3, <1>s, GotoTypeOK, ReturnTypeOK DEF UninstallCheckDir, ProcTypeOK, Sid
  <2> QED BY <2>1, <2>2
<1>4. CASE UninstallUnlink(p)
  <2>1. DiskTypeOK'  BY <1>4, <1>s DEF UninstallUnlink, DiskTypeOK, env, hist, Linked
  <2>2. ProcTypeOK'  BY <1>4, <1>s, GotoTypeOK, ReturnTypeOK DEF UninstallUnlink, ProcTypeOK, Sid
  <2> QED BY <2>1, <2>2
<1>5. CASE UninstallRemove(p)
  <2>1. DiskTypeOK'  BY <1>5, <1>s DEF UninstallRemove, DiskTypeOK, env, hist, Sid, RemoveSome, RemoveLast, PackageDir
  <2>2. ProcTypeOK'  BY <1>5, <1>s, GotoTypeOK, ReturnTypeOK DEF UninstallRemove, ProcTypeOK, Sid
  <2> QED BY <2>1, <2>2
<1>6. CASE UninstallReadLink(p)
  <2>1. DiskTypeOK'  BY <1>6 DEF UninstallReadLink, DiskTypeOK, env, disk, hist
  <2>2. CASE Linked(job[p].pkg)
    <3> DEFINE new == [job[p] EXCEPT !.sid = link[job[p].pkg]]
    <3>1. job[p] \in Job /\ job[p].cmd = "uninstall"
      BY <1>6 DEF UninstallReadLink, ProcTypeOK
    <3>2. new \in Job /\ new.cmd = "uninstall" /\ new.sid \in Session
      BY <2>2, <3>1 DEF Job, Linked
    <3>3. job' = [job EXCEPT ![p] = new] /\ pc' = [pc EXCEPT ![p] = "u_dir"]
      BY <1>6, <2>2 DEF UninstallReadLink, Return
    <3>4. result' \in [Pid -> Results]
      BY <1>6, <2>2 DEF UninstallReadLink, ProcTypeOK
    <3> QED BY <2>1, <3>2, <3>3, <3>4, NewJobTypeOK
  <2>3. CASE ~Linked(job[p].pkg)
    BY <1>6, <2>1, <2>3, ReturnTypeOK DEF UninstallReadLink
  <2> QED BY <2>2, <2>3
<1> QED BY <1>1, <1>2, <1>3, <1>4, <1>5, <1>6 DEF UninstallStep

LEMMA NextTypeOK == TypeOK /\ [Next]_vars => TypeOK'
<1> SUFFICES ASSUME TypeOK, [Next]_vars PROVE TypeOK'
  OBVIOUS
<1> USE DEF TypeOK
<1>1. ASSUME NEW p \in Pid, Fault(p) PROVE TypeOK'
  <2>1. DiskTypeOK'  BY <1>1 DEF Fault, FetchFails, CallFails, DiskTypeOK, env, disk, hist
  <2>2. ProcTypeOK'  BY <1>1, ResultTable, ReturnTypeOK DEF Fault, FetchFails, CallFails
  <2> QED BY <2>1, <2>2
<1>2. ASSUME NEW p \in Pid, Crash(p) PROVE TypeOK'
  <2>1. DiskTypeOK'  BY <1>2 DEF Crash, DiskTypeOK, env, disk, hist
  <2>2. ProcTypeOK'  BY <1>2, StepTable DEF Crash, ProcTypeOK
  <2> QED BY <2>1, <2>2
<1>3. CASE Tick
  BY <1>3, BoundAssumption DEF Tick, DiskTypeOK, ProcTypeOK, Second, disk, proc, hist
<1>4. ASSUME NEW k \in Package, Publish(k) PROVE TypeOK'
  BY <1>4, BoundAssumption DEF Publish, DiskTypeOK, ProcTypeOK, Revision, disk, proc, hist
<1>5. CASE UNCHANGED vars
  BY <1>5 DEF vars, DiskTypeOK, ProcTypeOK
<1> QED BY <1>1, <1>2, <1>3, <1>4, <1>5, BeginTypeOK, InstallTypeOK, UninstallTypeOK DEF Next

\* Every variable keeps its type, and every process inside an operation has the
\* local variables that operation needs at that point.
THEOREM TypeCorrect == Spec => []TypeOK
<1>1. Init => TypeOK  BY InitTypeOK
<1>2. TypeOK /\ [Next]_vars => TypeOK'  BY NextTypeOK
<1> QED BY <1>1, <1>2, PTL DEF Spec

-----------------------------------------------------------------------------
(***************************************************************************)
(* The inductive invariant.                                                *)
(***************************************************************************)
\* Process p is inside an installation that has named its session.
Holding(p) == pc[p] \in Steps /\ job[p].cmd = "install" /\ job[p].sid # None

\* Process p is an uninstall that has read the link.
Aiming(p) == pc[p] \in {"u_dir", "u_unlink", "u_remove"}

\* Where an operation is tells which operation it is.
Phase(p) ==
  pc[p] \in Steps =>
     /\ job[p].rev <= current[job[p].pkg]
     /\ pc[p] \in FetchSteps => job[p].cmd = "fetch"
     /\ job[p].cmd = "fetch" => pc[p] \in FetchSteps \cup {"fetch", "fetching", "verify"}
     /\ job[p].cmd = "install" /\ pc[p] \in Unnamed => job[p].sid = None

\* A session belongs to the process and to the url it is computed from.
Named(p) ==
  Holding(p) => Sid(p).pid = p /\ Sid(p).url = Text(p).url /\ Sid(p) \in started

\* Nothing on the disk bears the name of a session that was not begun.
BegunOK ==
  /\ \A s \in Session : dir[s] # None => s \in started
  /\ \A k \in Package : Linked(k) => link[k] \in started
  /\ \A p \in Pid : Aiming(p) => Sid(p) \in started

\* Until it is linked, the directory of a session is known to its process only.
Private(p) ==
  Holding(p) /\ Sid(p) \notin reused =>
     /\ \A k \in Package : link[k] # Sid(p)
     /\ \A q \in Pid : Aiming(q) => Sid(q) # Sid(p)

\* The loop that moves installed/<package> to the finished directory.
Linking == {"link", "exists", "unlink", "rm_stat", "rm_open", "rm_entry"}

\* The directory of a session is as far as its process is.
Grown(p) ==
  Holding(p) /\ Sid(p) \notin reused =>
     /\ pc[p] \notin {"clear", "remake"}
     /\ pc[p] \in {"lookup", "fetch", "fetching", "verify", "real_dir"} <=> dir[Sid(p)] = None
     /\ pc[p] \in {"script", "manifest", "receipt", "copy"} \cup Linking
           => dir[Sid(p)].bin = Text(p).sha
     /\ pc[p] \in {"unpack", "script", "manifest"} => dir[Sid(p)].files = "partial"
     /\ pc[p] = "copy" => dir[Sid(p)].receipt = "partial"
     /\ pc[p] \in {"receipt", "copy"} \cup Linking => dir[Sid(p)].files = "full"
     /\ pc[p] \in Linking
           => dir[Sid(p)].receipt \in {"cut", "full"} /\ job[p].rev <= dir[Sid(p)].rev

\* A session is linked under one name at most.
LinksApart ==
  \A k, l \in Package : Linked(k) /\ link[k] = link[l] /\ link[k] \notin reused => k = l

\* A directory is deleted only after the one link to it is gone.
AimedOK ==
  \A p \in Pid : Aiming(p) /\ Sid(p) \notin reused =>
     \A k \in Package : link[k] = Sid(p) => k = job[p].pkg /\ pc[p] # "u_remove"

\* A removal begins where a directory is; a link it meets was made meanwhile.
RemovalOK ==
  \A q \in Pid, k \in Package : Removing(q, k) /\ Linked(k) => link[k] \in exposed

\* A process that got past the download finds the declared file there.
DownloadedOK ==
  \A p \in Pid : pc[p] \in {"real_dir", "unpack"} => Downloaded(p)

ProcessOK == \A p \in Pid : Phase(p) /\ Named(p) /\ Private(p) /\ Grown(p)

Inv ==
  /\ TypeOK
  /\ ProcessOK
  /\ BegunOK
  /\ LinksApart
  /\ AimedOK
  /\ RemovalOK
  /\ DownloadedOK
  /\ LinkedIsBuilt
  /\ LinkedIsVerified
  /\ UnpackedIsVerified

-----------------------------------------------------------------------------
(***************************************************************************)
(* Summaries of a step of one process.                                     *)
(***************************************************************************)
Step(p) == Begin(p) \/ InstallStep(p) \/ UninstallStep(p) \/ Fault(p) \/ Crash(p)

\* A step of process p leaves the other processes alone.
LEMMA OthersStay ==
  ASSUME TypeOK, NEW p \in Pid, Step(p)
  PROVE  \A q \in Pid \ {p} : pc'[q] = pc[q] /\ job'[q] = job[q]
<1>1. CASE Begin(p)
  BY <1>1 DEF Begin, BeginInstall, BeginFetch, BeginUninstall, TypeOK, ProcTypeOK
<1>2. CASE InstallStep(p)
  BY <1>2 DEF InstallStep, TypeOK, ProcTypeOK, Goto, Return, CheckLink, CheckReceipt,
     StartSession, LookupDownload, FetchLookup, FetchName, FetchOpen, FetchDone, VerifyAndRename,
     MakeRealDir, ClearRealDir, RemakeRealDir, Unpack, RunInstallScript, RecordFiles,
     CreateReceipt, CopyFormula, MakeLink, InspectLink, UnlinkOld,
     StatInWay, OpenInWay, RemoveInWay
<1>3. CASE UninstallStep(p)
  BY <1>3 DEF UninstallStep, TypeOK, ProcTypeOK, Goto, Return, UninstallCheckLink,
     UninstallCheckReceipt, UninstallReadLink, UninstallCheckDir, UninstallUnlink, UninstallRemove
<1>4. CASE Fault(p) \/ Crash(p)
  BY <1>4 DEF Fault, FetchFails, CallFails, Crash, TypeOK, ProcTypeOK, Return
<1> QED BY <1>1, <1>2, <1>3, <1>4 DEF Step

\* The clock runs forward, formulas are replaced by newer ones, and no session
\* is forgotten.
LEMMA Monotone ==
  ASSUME TypeOK, [Next]_vars
  PROVE  /\ started \subseteq started' /\ reused \subseteq reused' /\ exposed \subseteq exposed'
         /\ \A k \in Package : current[k] <= current'[k]
<1> USE BoundAssumption DEF TypeOK, DiskTypeOK, Revision
<1>1. ASSUME NEW p \in Pid, Begin(p) \/ UninstallStep(p) \/ Fault(p) \/ Crash(p)
      PROVE  UNCHANGED <<current, started, reused, exposed>>
  BY <1>1 DEF Begin, BeginInstall, BeginFetch, BeginUninstall, UninstallStep,
     UninstallCheckLink, UninstallCheckReceipt, UninstallReadLink, UninstallCheckDir,
     UninstallUnlink, UninstallRemove, Fault, FetchFails, CallFails, Crash, env, hist
<1>2. ASSUME NEW p \in Pid, InstallStep(p)
      PROVE  /\ UNCHANGED current /\ started \subseteq started' /\ reused \subseteq reused'
             /\ exposed \subseteq exposed'
  BY <1>2 DEF InstallStep, CheckLink, CheckReceipt,
     StartSession, LookupDownload, FetchLookup, FetchName, FetchOpen, FetchDone, VerifyAndRename,
     MakeRealDir, ClearRealDir, RemakeRealDir, Unpack, RunInstallScript, RecordFiles,
     CreateReceipt, CopyFormula, MakeLink, InspectLink, UnlinkOld,
     StatInWay, OpenInWay, RemoveInWay, env, hist
<1>3. CASE Tick
  BY <1>3 DEF Tick, hist
<1>4. ASSUME NEW k \in Package, Publish(k)
      PROVE  UNCHANGED <<started, reused, exposed>> /\ \A l \in Package : current[l] <= current'[l]
  BY <1>4 DEF Publish, hist
<1>5. CASE UNCHANGED vars
  BY <1>5 DEF vars
<1> QED BY <1>1, <1>2, <1>3, <1>4, <1>5 DEF Next

\* A step of an operation that goes on keeps the operation's local variables,
\* except where it names the session or reads the link.
LEMMA OwnJob ==
  ASSUME TypeOK, ProcessOK, NEW p \in Pid, Step(p)
  PROVE  \/ pc'[p] \notin Steps
         \/ pc[p] \in Steps /\ job'[p] = job[p]
         \/ pc[p] = "idle" /\ pc'[p] \in Unnamed /\ job'[p].sid = None
         \/ StartSession(p) \/ FetchName(p)
         \/ UninstallReadLink(p) /\ Linked(job[p].pkg)
<1> USE StepTable DEF TypeOK, ProcTypeOK
<1>1. CASE Begin(p)
  BY <1>1 DEF Begin, BeginInstall, BeginFetch, BeginUninstall
<1>2. CASE InstallStep(p)
  BY <1>2 DEF InstallStep, Goto, Return, CheckLink, CheckReceipt,
     LookupDownload, FetchLookup, FetchOpen, FetchDone, VerifyAndRename,
     MakeRealDir, ClearRealDir, RemakeRealDir, Unpack, RunInstallScript, RecordFiles,
     CreateReceipt, CopyFormula, MakeLink, InspectLink, UnlinkOld,
     StatInWay, OpenInWay, RemoveInWay
<1>3. CASE UninstallStep(p)
  BY <1>3 DEF UninstallStep, Goto, Return, UninstallCheckLink, UninstallReadLink,
     UninstallCheckReceipt, UninstallCheckDir, UninstallUnlink, UninstallRemove
<1>4. CASE Fault(p) \/ Crash(p)
  BY <1>4 DEF Fault, FetchFails, CallFails, Crash, Return
<1> QED BY <1>1, <1>2, <1>3, <1>4 DEF Step

\* A link is only ever made by an installation, where nothing is, and to the
\* directory of its own session; a process that has unlinked for an uninstall
\* goes on to delete.
LEMMA LinkSummary ==
  ASSUME TypeOK, [Next]_vars, NEW k \in Package, link'[k] # link[k]
  PROVE  /\ UNCHANGED <<dir, started, reused, download>>
         /\ \/ link'[k] = None
            \/ \E p \in Pid : MakeLink(p) /\ job[p].pkg = k /\ link[k] = None /\ link'[k] = Sid(p)
         /\ \A l \in Package \ {k} : link'[l] = link[l]
<1> USE StepTable DEF TypeOK, DiskTypeOK, ProcTypeOK
<1>1. ASSUME NEW p \in Pid, Begin(p) \/ Fault(p) \/ Crash(p) PROVE FALSE
  BY <1>1 DEF Begin, BeginInstall, BeginFetch, BeginUninstall,
     Fault, FetchFails, CallFails, Crash, disk
<1>2. ASSUME NEW p \in Pid, InstallStep(p) PROVE MakeLink(p) \/ UnlinkOld(p) \/ RemoveInWay(p)
  BY <1>2 DEF InstallStep, CheckLink, CheckReceipt, disk,
     StartSession, LookupDownload, FetchLookup, FetchName, FetchOpen, FetchDone, VerifyAndRename,
     MakeRealDir, ClearRealDir, RemakeRealDir, Unpack, RunInstallScript, RecordFiles,
     CreateReceipt, CopyFormula, InspectLink, StatInWay, OpenInWay
<1>3. ASSUME NEW p \in Pid, UninstallStep(p) PROVE UninstallUnlink(p)
  BY <1>3 DEF UninstallStep, UninstallCheckLink, UninstallReadLink,
     UninstallCheckReceipt, UninstallCheckDir, UninstallRemove, disk
<1>4. ASSUME NEW p \in Pid, MakeLink(p) PROVE job[p].pkg = k /\ link[k] = None /\ link'[k] = Sid(p)
  BY <1>4 DEF MakeLink, Job
<1>5. ASSUME NEW p \in Pid, RemoveInWay(p) \/ UnlinkOld(p) \/ UninstallUnlink(p)
      PROVE  job[p].pkg = k /\ link'[k] = None
  BY <1>5 DEF RemoveInWay, UnlinkOld, UninstallUnlink, Job
<1>6. ASSUME NEW p \in Pid, MakeLink(p) \/ RemoveInWay(p) \/ UnlinkOld(p) \/ UninstallUnlink(p)
      PROVE  UNCHANGED <<dir, started, reused, download>> /\ \A l \in Package \ {k} : link'[l] = link[l]
  BY <1>6 DEF MakeLink, RemoveInWay, UnlinkOld, UninstallUnlink, hist
<1>7. Tick \/ (\E l \in Package : Publish(l)) \/ UNCHANGED vars => FALSE
  BY DEF Tick, Publish, disk, vars
<1> QED BY <1>1, <1>2, <1>3, <1>4, <1>5, <1>6, <1>7 DEF Next

\* A process that changes installed/<s> is the installation that named s or an
\* uninstall that deletes it, or one that is emptying a name which leads there.
Touches(p, s) ==
  /\ Sid(p) = s
  /\ \/ Holding(p) /\ pc[p] \notin {"lookup", "fetch", "fetching", "verify"} \cup Linking
     \/ pc[p] = "u_remove"

Gutted(s) ==
  /\ \E p \in Pid, k \in Package : Removing(p, k) /\ Linked(k) /\ link[k] = s
  /\ dir[s] # None /\ dir'[s] # None
  /\ dir'[s].bin = dir[s].bin /\ dir'[s].rev = dir[s].rev

LEMMA DirSummary ==
  ASSUME TypeOK, ProcessOK, [Next]_vars, NEW s \in Session, dir'[s] # dir[s]
  PROVE  /\ UNCHANGED <<link, started, reused, exposed, download>>
         /\ (\E p \in Pid : Step(p) /\ Touches(p, s)) \/ Gutted(s)
         /\ \/ dir'[s] = None
            \/ dir'[s].bin = None
            \/ dir[s] # None /\ dir'[s].bin = dir[s].bin
            \/ \E p \in Pid : Unpack(p) /\ Sid(p) = s /\ dir'[s].bin = download[Text(p).sha]
<1> USE StepTable, MarkAssumption DEF TypeOK, DiskTypeOK, ProcTypeOK
<1>1. ASSUME NEW p \in Pid, Begin(p) \/ Fault(p) \/ Crash(p) PROVE FALSE
  BY <1>1 DEF Begin, BeginInstall, BeginFetch, BeginUninstall,
     Fault, FetchFails, CallFails, Crash, disk
<1>2. ASSUME NEW p \in Pid, InstallStep(p)
      PROVE  \/ MakeRealDir(p) \/ ClearRealDir(p) \/ RemakeRealDir(p) \/ Unpack(p)
             \/ RecordFiles(p) \/ CreateReceipt(p) \/ CopyFormula(p)
             \/ RemoveInWay(p)
  BY <1>2 DEF InstallStep, CheckLink, CheckReceipt, disk,
     StartSession, LookupDownload, FetchLookup, FetchName, FetchOpen, FetchDone, VerifyAndRename,
     RunInstallScript, MakeLink, InspectLink, UnlinkOld, StatInWay, OpenInWay
<1>3. ASSUME NEW p \in Pid, UninstallStep(p) PROVE UninstallRemove(p)
  BY <1>3 DEF UninstallStep, UninstallCheckLink, UninstallReadLink,
     UninstallCheckReceipt, UninstallCheckDir, UninstallUnlink, disk
<1>4. ASSUME NEW p \in Pid,
             \/ MakeRealDir(p) \/ ClearRealDir(p) \/ RemakeRealDir(p) \/ Unpack(p)
             \/ RecordFiles(p) \/ CreateReceipt(p) \/ CopyFormula(p) \/ UninstallRemove(p)
      PROVE  UNCHANGED <<link, started, reused, exposed, download>> /\ Sid(p) = s
  BY <1>4 DEF MakeRealDir, ClearRealDir, RemakeRealDir, Unpack, RecordFiles, CreateReceipt,
     CopyFormula, UninstallRemove, RemoveSome, RemoveLast, hist
<1>5. ASSUME NEW p \in Pid,
             \/ MakeRealDir(p) \/ ClearRealDir(p) \/ RemakeRealDir(p) \/ Unpack(p)
             \/ RecordFiles(p) \/ CreateReceipt(p) \/ CopyFormula(p)
      PROVE  Touches(p, s)
  <2>1. pc[p] \in {"real_dir", "clear", "remake", "unpack", "manifest", "receipt", "copy"}
    BY <1>5 DEF MakeRealDir, ClearRealDir, RemakeRealDir, Unpack, RecordFiles, CreateReceipt, CopyFormula
  <2>2. pc[p] \in Steps /\ pc[p] \notin Unnamed /\ pc[p] \notin UninstallSteps
        /\ pc[p] \notin FetchSteps
    BY <2>1 DEF FetchSteps
  <2>3. job[p].sid # None /\ job[p].cmd = "install"
    BY <2>1, <2>2 DEF ProcessOK, Phase, Job
  <2> QED BY <1>4, <1>5, <2>1, <2>2, <2>3 DEF Touches, Holding, Linking
<1>6. ASSUME NEW p \in Pid, UninstallRemove(p) PROVE Touches(p, s)
  BY <1>4, <1>6 DEF UninstallRemove, Touches
<1>7. ASSUME NEW p \in Pid,
             \/ MakeRealDir(p) \/ ClearRealDir(p) \/ RemakeRealDir(p) \/ Unpack(p)
             \/ RecordFiles(p) \/ CreateReceipt(p) \/ CopyFormula(p) \/ UninstallRemove(p)
      PROVE  \/ dir'[s] = None
             \/ dir'[s].bin = None
             \/ dir[s] # None /\ dir'[s].bin = dir[s].bin
             \/ Unpack(p) /\ dir'[s].bin = download[Text(p).sha]
  <2>1. Sid(p) = s /\ dir[s] \in PackageDir \cup {None}
    BY <1>4, <1>7
  <2>2. CASE MakeRealDir(p) \/ RemakeRealDir(p)
    BY <2>1, <2>2 DEF MakeRealDir, RemakeRealDir, EmptyDir
  <2>3. CASE ClearRealDir(p) \/ UninstallRemove(p)
    <3>1. RemoveSome(s) \/ RemoveLast(s)
      BY <2>1, <2>3 DEF ClearRealDir, UninstallRemove
    <3> QED BY <2>1, <3>1, RemoveSomeLeaves DEF RemoveLast
  <2>4. CASE Unpack(p)
    BY <2>1, <2>4 DEF Unpack, PackageDir
  <2>5. CASE RecordFiles(p) \/ CreateReceipt(p)
    BY <2>1, <2>5 DEF RecordFiles, CreateReceipt, PackageDir
  <2>6. CASE CopyFormula(p)
    BY <2>1, <2>6 DEF CopyFormula, PackageDir
  <2> QED BY <1>7, <2>2, <2>3, <2>4, <2>5, <2>6
<1>8. Tick \/ (\E l \in Package : Publish(l)) \/ UNCHANGED vars => FALSE
  BY DEF Tick, Publish, disk, vars
<1>9. ASSUME NEW p \in Pid, RemoveInWay(p)
      PROVE  Gutted(s) /\ UNCHANGED <<link, started, reused, exposed, download>>
  <2> DEFINE k == job[p].pkg
  <2>1. k \in Package /\ Removing(p, k)
    BY <1>9 DEF RemoveInWay, Removing, Job
  <2>2. Linked(k) /\ RemoveSome(link[k]) /\ UNCHANGED <<link, started, reused, exposed, download>>
    BY <1>9 DEF RemoveInWay, hist
  <2>3. PICK d \in PackageDir : /\ dir' = [dir EXCEPT ![link[k]] = d] /\ dir'[link[k]] = d
                                /\ d.bin = dir[link[k]].bin /\ d.rev = dir[link[k]].rev
    BY <2>2, RemoveSomeLeaves DEF Linked
  <2>4. link[k] = s /\ dir[s] # None
    BY <2>2, <2>3, RemoveSomeLeaves DEF Linked
  <2> QED BY <2>1, <2>2, <2>3, <2>4 DEF Gutted
<1> QED BY <1>1, <1>2, <1>3, <1>4, <1>5, <1>6, <1>7, <1>8, <1>9
        DEF Next, Step, InstallStep, UninstallStep, Gutted

\* downloads/<x> changes only into a file whose digest is x.
LEMMA DownloadSummary ==
  ASSUME TypeOK, [Next]_vars, NEW x \in Sha
  PROVE  download'[x] \in {download[x], x}
<1> USE DEF TypeOK, DiskTypeOK
<1>1. ASSUME NEW p \in Pid, Begin(p) \/ UninstallStep(p) \/ Fault(p) \/ Crash(p) PROVE UNCHANGED download
  BY <1>1 DEF Begin, BeginInstall, BeginFetch, BeginUninstall, disk, Fault, FetchFails, CallFails, Crash,
     UninstallStep, UninstallCheckLink, UninstallReadLink, UninstallRemove,
     UninstallCheckReceipt, UninstallCheckDir, UninstallUnlink
<1>2. ASSUME NEW p \in Pid, InstallStep(p) PROVE download'[x] \in {download[x], x}
  BY <1>2 DEF InstallStep, CheckLink, CheckReceipt, disk,
     StartSession, LookupDownload, FetchLookup, FetchName, FetchOpen, FetchDone, VerifyAndRename,
     MakeRealDir, ClearRealDir, RemakeRealDir, Unpack, RecordFiles, CreateReceipt, CopyFormula,
     RunInstallScript, MakeLink, InspectLink, UnlinkOld,
     StatInWay, OpenInWay, RemoveInWay
<1>3. Tick \/ (\E k \in Package : Publish(k)) \/ UNCHANGED vars => UNCHANGED download
  BY DEF Tick, Publish, disk, vars
<1> QED BY <1>1, <1>2, <1>3 DEF Next

-----------------------------------------------------------------------------
(***************************************************************************)
(* Every part of the invariant is preserved.                               *)
(***************************************************************************)
LEMMA PhaseStep ==
  ASSUME TypeOK, ProcessOK, [Next]_vars, NEW p \in Pid
  PROVE  Phase(p)'
<1> USE StepTable DEF TypeOK, ProcTypeOK
<1>0. Phase(p) /\ \A k \in Package : current[k] <= current'[k] /\ current[k] \in Nat /\ current'[k] \in Nat
  BY Monotone, NextTypeOK, BoundAssumption DEF ProcessOK, DiskTypeOK, Revision
<1>1. CASE pc'[p] = pc[p] /\ job'[p] = job[p]
  BY <1>0, <1>1, BoundAssumption DEF Phase, Job, Revision
<1>2. CASE Begin(p)
  BY <1>0, <1>2, BoundAssumption DEF Begin, BeginInstall, BeginFetch, BeginUninstall, Phase, FetchSteps,
     env, DiskTypeOK, Revision
<1>3. CASE InstallStep(p)
  <2>1. UNCHANGED current
    BY <1>3 DEF InstallStep, CheckLink, CheckReceipt, env,
     StartSession, LookupDownload, FetchLookup, FetchName, FetchOpen, FetchDone, VerifyAndRename,
     MakeRealDir, ClearRealDir, RemakeRealDir, Unpack, RecordFiles, CreateReceipt, CopyFormula,
     RunInstallScript, MakeLink, InspectLink, UnlinkOld,
     StatInWay, OpenInWay, RemoveInWay
  <2>2. CASE StartSession(p) \/ FetchName(p)
    BY <1>0, <2>1, <2>2 DEF StartSession, FetchName, Phase, Job, FetchSteps
  <2>3. CASE ~(StartSession(p) \/ FetchName(p))
    BY <1>0, <1>3, <2>1, <2>3 DEF InstallStep, CheckLink, CheckReceipt, Goto, Return,
     LookupDownload, FetchLookup, FetchOpen, FetchDone, VerifyAndRename,
     MakeRealDir, ClearRealDir, RemakeRealDir, Unpack, RecordFiles, CreateReceipt, CopyFormula,
     RunInstallScript, MakeLink, InspectLink, UnlinkOld,
     StatInWay, OpenInWay, RemoveInWay, Phase, FetchSteps
  <2> QED BY <2>2, <2>3
<1>4. CASE UninstallStep(p)
  BY <1>0, <1>4 DEF UninstallStep, UninstallCheckLink, UninstallReadLink, Goto, Return, env,
     UninstallCheckReceipt, UninstallCheckDir, UninstallUnlink, UninstallRemove, Phase, FetchSteps, Job
<1>5. CASE Fault(p) \/ Crash(p)
  BY <1>5 DEF Fault, FetchFails, CallFails, Crash, Return, Phase
<1> QED BY <1>1, <1>2, <1>3, <1>4, <1>5, OthersStay DEF Next, Step, vars, Tick, Publish, proc

\* An installation that holds a session has just named it, or has held it before.
LEMMA HoldingStep ==
  ASSUME TypeOK, ProcessOK, [Next]_vars, NEW p \in Pid, Holding(p)'
  PROVE  \/ Holding(p) /\ job'[p] = job[p]
         \/ StartSession(p) /\ job'[p] = [job[p] EXCEPT !.sid = NewSession(p)]
<1> USE StepTable DEF TypeOK, ProcTypeOK
<1>0. Phase(p) /\ Phase(p)'
  BY PhaseStep DEF ProcessOK
<1>1. CASE pc'[p] = pc[p] /\ job'[p] = job[p]
  BY <1>1 DEF Holding
<1>2. CASE Step(p)
  <2>1. ~FetchName(p)
    <3>1. ASSUME FetchName(p) PROVE FALSE
      BY <1>0, <3>1 DEF FetchName, Holding, Phase, FetchSteps, Job
    <3> QED BY <3>1
  <2>2. ~UninstallReadLink(p) \/ ~Linked(job[p].pkg)
    BY DEF UninstallReadLink, Holding, Job
  <2>3. StartSession(p) => job'[p] = [job[p] EXCEPT !.sid = NewSession(p)]
    BY DEF StartSession
  <2> QED BY <1>2, <2>1, <2>2, <2>3, OwnJob DEF Holding
<1> QED BY <1>1, <1>2, OthersStay DEF Next, Step, vars, Tick, Publish, proc

\* The same of an uninstall and the session it deletes.
LEMMA AimingStep ==
  ASSUME TypeOK, [Next]_vars, NEW p \in Pid, Aiming(p)'
  PROVE  \/ Aiming(p) /\ job'[p] = job[p] /\ (pc'[p] = pc[p] \/ pc'[p] = "u_unlink" \/ UninstallUnlink(p))
         \/ /\ pc'[p] = "u_dir" /\ UninstallReadLink(p)
            /\ Linked(job[p].pkg) /\ job'[p] = [job[p] EXCEPT !.sid = link[job[p].pkg]]
<1> USE StepTable DEF TypeOK, ProcTypeOK
<1>1. CASE pc'[p] = pc[p] /\ job'[p] = job[p]
  BY <1>1 DEF Aiming
<1>2. CASE Begin(p) \/ Fault(p) \/ Crash(p)
  BY <1>2 DEF Begin, BeginInstall, BeginFetch, BeginUninstall, Fault, FetchFails, CallFails, Crash, Return, Aiming
<1>3. CASE InstallStep(p)
  BY <1>3 DEF InstallStep, CheckLink, CheckReceipt, Goto, Return, Aiming, StartSession, FetchName,
     LookupDownload, FetchLookup, FetchOpen, FetchDone, VerifyAndRename,
     MakeRealDir, ClearRealDir, RemakeRealDir, Unpack, RecordFiles, CreateReceipt, CopyFormula,
     RunInstallScript, MakeLink, InspectLink, UnlinkOld,
     StatInWay, OpenInWay, RemoveInWay
<1>4. CASE UninstallStep(p)
  BY <1>4 DEF UninstallStep, UninstallCheckLink, UninstallReadLink, Goto, Return, Aiming,
     UninstallCheckReceipt, UninstallCheckDir, UninstallUnlink, UninstallRemove
<1> QED BY <1>1, <1>2, <1>3, <1>4, OthersStay DEF Next, Step, vars, Tick, Publish, proc

LEMMA NamedStep ==
  ASSUME TypeOK, ProcessOK, [Next]_vars, NEW p \in Pid
  PROVE  Named(p)'
<1> SUFFICES ASSUME Holding(p)'
             PROVE  (Sid(p).pid = p /\ Sid(p).url = Text(p).url /\ Sid(p) \in started)'
  BY DEF Named
<1>1. CASE Holding(p) /\ job'[p] = job[p]
  BY <1>1, Monotone DEF ProcessOK, Named, Sid, Text
<1>2. CASE StartSession(p) /\ job'[p] = [job[p] EXCEPT !.sid = NewSession(p)]
  <2>1. job[p] \in Job
    BY <1>2, StepTable DEF StartSession, TypeOK, ProcTypeOK
  <2>2. Sid(p)' = NewSession(p) /\ Text(p)' = Text(p)
    BY <1>2, <2>1 DEF Sid, Text, Job
  <2> QED BY <1>2, <2>2 DEF StartSession, NewSession
<1> QED BY <1>1, <1>2, HoldingStep

LEMMA BegunStep ==
  ASSUME TypeOK, ProcessOK, BegunOK, [Next]_vars
  PROVE  BegunOK'
<1>1. ASSUME NEW s \in Session, dir'[s] # None PROVE s \in started'
  <2>1. CASE dir'[s] = dir[s]
    BY <1>1, <2>1, Monotone DEF BegunOK
  <2>2. CASE dir'[s] # dir[s]
    <3>1. CASE \E p \in Pid : Touches(p, s)
      BY <3>1, Monotone DEF Touches, Aiming, ProcessOK, Named, BegunOK
    <3>2. CASE Gutted(s)
      BY <3>2, Monotone DEF Gutted, BegunOK
    <3> QED BY <2>2, <3>1, <3>2, DirSummary
  <2> QED BY <2>1, <2>2
<1>2. ASSUME NEW k \in Package, Linked(k)' PROVE link'[k] \in started'
  <2>1. CASE link'[k] = link[k]
    BY <1>2, <2>1, Monotone DEF BegunOK, Linked
  <2>2. CASE link'[k] # link[k]
    <3>1. PICK p \in Pid : MakeLink(p) /\ link'[k] = Sid(p)
      BY <1>2, <2>2, LinkSummary, MarkAssumption DEF Linked
    <3>2. Holding(p)
      BY <3>1, <1>2, StepTable, MarkAssumption DEF MakeLink, Holding, Linked, ProcessOK, Phase, FetchSteps, TypeOK, ProcTypeOK, Sid, Job
    <3> QED BY <3>1, <3>2, Monotone DEF ProcessOK, Named
  <2> QED BY <2>1, <2>2
<1>3. ASSUME NEW p \in Pid, Aiming(p)' PROVE Sid(p)' \in started'
  <2>1. CASE Aiming(p) /\ job'[p] = job[p]
    BY <2>1, Monotone DEF BegunOK, Sid
  <2>2. CASE Linked(job[p].pkg) /\ UninstallReadLink(p) /\ job'[p] = [job[p] EXCEPT !.sid = link[job[p].pkg]]
    <3>1. job[p] \in Job
      BY <2>2, StepTable DEF UninstallReadLink, TypeOK, ProcTypeOK
    <3>2. Sid(p)' = link[job[p].pkg]
      BY <2>2, <3>1 DEF Sid, Job
    <3> QED BY <2>2, <3>1, <3>2, Monotone DEF BegunOK, Job
  <2> QED BY <1>3, <2>1, <2>2, AimingStep
<1> QED BY <1>1, <1>2, <1>3 DEF BegunOK

\* Two processes never hold the same session.
LEMMA OwnSession ==
  ASSUME ProcessOK, NEW p \in Pid, NEW q \in Pid, Holding(p), Holding(q), Sid(p) = Sid(q)
  PROVE  p = q
BY DEF ProcessOK, Named

LEMMA MakeLinkHolds ==
  ASSUME TypeOK, ProcessOK, NEW p \in Pid, MakeLink(p)
  PROVE  Holding(p) /\ Sid(p) \in Session
<1>1. pc[p] = "link"
  BY DEF MakeLink
<1> QED BY <1>1, StepTable, MarkAssumption DEF Holding, ProcessOK, Phase, FetchSteps, TypeOK, ProcTypeOK, Sid, Job

LEMMA PrivateStep ==
  ASSUME TypeOK, ProcessOK, BegunOK, [Next]_vars, NEW p \in Pid
  PROVE  Private(p)'
<1> SUFFICES ASSUME Holding(p)', Sid(p)' \notin reused'
             PROVE  /\ \A k \in Package : link'[k] # Sid(p)'
                    /\ \A q \in Pid : Aiming(q)' => Sid(q)' # Sid(p)'
  BY DEF Private
<1>0. Sid(p)' \in Session
  BY NextTypeOK, MarkAssumption DEF TypeOK, ProcTypeOK, Holding, Sid, Job
<1>1. CASE Holding(p) /\ job'[p] = job[p]
  <2>1. Sid(p)' = Sid(p) /\ Sid(p) \notin reused
    BY <1>1, Monotone DEF Sid
  <2>2. \A k \in Package : link[k] # Sid(p)
    BY <1>1, <2>1 DEF ProcessOK, Private
  <2>3. \A q \in Pid : Aiming(q) => Sid(q) # Sid(p)
    BY <1>1, <2>1 DEF ProcessOK, Private
  <2>4. ASSUME NEW k \in Package PROVE link'[k] # Sid(p)
    <3>1. CASE link'[k] = link[k]
      BY <2>2, <3>1
    <3>2. CASE link'[k] # link[k] /\ link'[k] # None
      <4>1. PICK q \in Pid : MakeLink(q) /\ link'[k] = Sid(q)
        BY <3>2, LinkSummary
      <4>2. ASSUME Sid(q) = Sid(p) PROVE FALSE
        <5>1. q = p
          BY <1>1, <4>1, <4>2, MakeLinkHolds, OwnSession
        <5>2. link[job[p].pkg] # None => UNCHANGED link
          BY <4>1, <5>1 DEF MakeLink
        <5>3. pc'[p] = "idle"
          BY <3>2, <4>1, <5>1, <5>2 DEF MakeLink, Return, TypeOK, ProcTypeOK
        <5> QED BY <5>3, StepTable DEF Holding
      <4> QED BY <4>1, <4>2
    <3>3. CASE link'[k] = None
      BY <3>3, <1>0, <2>1, MarkAssumption
    <3> QED BY <3>1, <3>2, <3>3
  <2>5. ASSUME NEW q \in Pid, Aiming(q)' PROVE Sid(q)' # Sid(p)
    <3>1. CASE Aiming(q) /\ job'[q] = job[q]
      BY <2>3, <3>1 DEF Sid
    <3>2. CASE UninstallReadLink(q) /\ Linked(job[q].pkg) /\ job'[q] = [job[q] EXCEPT !.sid = link[job[q].pkg]]
      <4>1. job[q] \in Job
        BY <3>2, StepTable DEF UninstallReadLink, TypeOK, ProcTypeOK
      <4>2. Sid(q)' = link[job[q].pkg] /\ job[q].pkg \in Package
        BY <3>2, <4>1 DEF Sid, Job
      <4> QED BY <2>2, <4>2
    <3> QED BY <2>5, <3>1, <3>2, AimingStep
  <2> QED BY <2>1, <2>4, <2>5
<1>2. CASE StartSession(p) /\ job'[p] = [job[p] EXCEPT !.sid = NewSession(p)]
  <2>1. job[p] \in Job
    BY <1>2, StepTable DEF StartSession, TypeOK, ProcTypeOK
  <2>2. Sid(p)' = NewSession(p)
    BY <1>2, <2>1 DEF Sid, Job
  <2>3. NewSession(p) \notin started
    BY <1>2, <2>2 DEF StartSession
  <2>4. UNCHANGED link
    BY <1>2 DEF StartSession, disk
  <2>5. \A k \in Package : link[k] \in Session => link[k] \in started
    BY DEF BegunOK, Linked
  <2>6. ASSUME NEW q \in Pid, Aiming(q)' PROVE Aiming(q) /\ Sid(q)' = Sid(q)
    <3>1. q # p
      BY <1>2, <2>6, StepTable DEF StartSession, Aiming, TypeOK, ProcTypeOK
    <3>2. pc'[q] = pc[q] /\ job'[q] = job[q]
      BY <1>2, <3>1, OthersStay DEF Step, InstallStep
    <3> QED BY <2>6, <3>2 DEF Aiming, Sid
  <2> QED BY <1>0, <2>2, <2>3, <2>4, <2>5, <2>6 DEF BegunOK
<1> QED BY <1>1, <1>2, HoldingStep

LEMMA GrownStep ==
  ASSUME TypeOK, ProcessOK, BegunOK, DownloadedOK, [Next]_vars, NEW p \in Pid
  PROVE  Grown(p)'
<1> SUFFICES ASSUME Holding(p)', Sid(p)' \notin reused' PROVE Grown(p)'
  BY DEF Grown
<1> USE StepTable
<1>t. job[p] \in Job \cup {None} /\ TypeOK' /\ Sid(p)' \in Session
  BY NextTypeOK, MarkAssumption DEF TypeOK, ProcTypeOK, Holding, Sid, Job
<1>1. CASE StartSession(p) /\ job'[p] = [job[p] EXCEPT !.sid = NewSession(p)]
  <2>1. job[p] \in Job
    BY <1>1 DEF StartSession, TypeOK, ProcTypeOK
  <2>2. Sid(p)' = NewSession(p) /\ pc'[p] = "lookup" /\ UNCHANGED dir
    BY <1>1, <2>1 DEF Sid, Job, StartSession, TypeOK, ProcTypeOK, disk
  <2>3. NewSession(p) \notin started
    BY <1>1, <2>2 DEF StartSession
  <2> QED BY <1>t, <2>2, <2>3 DEF Grown, BegunOK, Linking
<1>2. CASE Holding(p) /\ job'[p] = job[p] /\ ~Step(p)
  <2>1. Sid(p)' = Sid(p) /\ Text(p)' = Text(p) /\ Sid(p) \notin reused /\ Sid(p) \in Session
    BY <1>2, <1>t, Monotone DEF Sid, Text
  <2>2. pc'[p] = pc[p]
    BY <1>2, OthersStay DEF Next, Step, vars, Tick, Publish, proc
  <2>3. dir'[Sid(p)] = dir[Sid(p)]
    <3>0. ~Gutted(Sid(p))
      BY <1>2, <2>1 DEF Gutted, ProcessOK, Private
    <3>1. SUFFICES ASSUME NEW q \in Pid, Step(q), Touches(q, Sid(p)) PROVE FALSE
      BY <2>1, <3>0, DirSummary
    <3>2. Sid(q) = Sid(p)
      BY <3>1 DEF Touches
    <3>3. ~Aiming(q)
      BY <1>2, <2>1, <3>2 DEF ProcessOK, Private
    <3>4. Holding(q)
      BY <3>1, <3>3 DEF Touches, Aiming
    <3> QED BY <1>2, <3>1, <3>2, <3>4, OwnSession
  <2>4. Grown(p)
    BY DEF ProcessOK
  <2> QED BY <1>2, <2>1, <2>2, <2>3, <2>4 DEF Grown
<1>3. CASE Holding(p) /\ job'[p] = job[p] /\ Step(p)
  <2> DEFINE s == Sid(p)
  <2>1. s' = s /\ Text(p)' = Text(p) /\ s \notin reused /\ s \in Session /\ Grown(p)
    BY <1>3, <1>t, Monotone DEF Sid, Text, ProcessOK
  <2>2. dir \in [Session -> PackageDir \cup {None}] /\ pc \in [Pid -> Steps \cup {"idle", "dead"}]
    BY DEF TypeOK, DiskTypeOK, ProcTypeOK
  <2>3. CASE \/ LookupDownload(p) \/ FetchOpen(p) \/ (\E c \in File : FetchDone(p, c))
             \/ VerifyAndRename(p) \/ RunInstallScript(p)
    BY <1>3, <2>1, <2>2, <2>3 DEF Holding, LookupDownload, FetchOpen, FetchDone, VerifyAndRename, RunInstallScript,
       Goto, Return, Grown, Linking, disk
  <2>4. CASE MakeLink(p) \/ InspectLink(p) \/ UnlinkOld(p) \/ StatInWay(p) \/ OpenInWay(p) \/ RemoveInWay(p)
    <3>1. pc[p] \in Linking /\ pc'[p] \in Linking
      BY <1>3, <2>2, <2>4 DEF Holding, MakeLink, InspectLink, UnlinkOld, StatInWay, OpenInWay, RemoveInWay,
         Goto, Return, Linking
    <3>2. dir'[s] = dir[s]
      <4>1. CASE RemoveInWay(p)
        <5>1. job[p].pkg \in Package /\ link[job[p].pkg] # s
          BY <1>3, <1>t, <2>1 DEF Holding, ProcessOK, Private, TypeOK, ProcTypeOK, Job
        <5>2. CASE Linked(job[p].pkg) /\ RemoveSome(link[job[p].pkg])
          BY <2>1, <5>1, <5>2, RemoveSomeLeaves DEF Linked, TypeOK, DiskTypeOK
        <5> QED BY <4>1, <5>2 DEF RemoveInWay
      <4> QED BY <2>4, <4>1 DEF MakeLink, InspectLink, UnlinkOld, StatInWay, OpenInWay, disk
    <3>3. \A x \in Linking : x \notin {"lookup", "fetch", "fetching", "verify", "real_dir", "clear", "remake",
                                       "unpack", "script", "manifest", "receipt", "copy"}
      BY DEF Linking
    <3> QED BY <1>3, <2>1, <3>1, <3>2, <3>3 DEF Grown
  <2>5. CASE MakeRealDir(p)
    <3>1. EmptyDir \in PackageDir
      BY BoundAssumption DEF EmptyDir, PackageDir
    <3>2. EmptyDir.files = "partial"
      BY DEF EmptyDir
    <3> QED BY <1>3, <2>1, <2>2, <2>5, <3>1, <3>2, MarkAssumption DEF Holding, MakeRealDir, Goto, Grown, Linking
  <2>6. CASE ClearRealDir(p) \/ RemakeRealDir(p)
    BY <1>3, <2>1, <2>2, <2>6 DEF Holding, ClearRealDir, RemakeRealDir, Goto, Return, Grown, Linking
  <2>7. CASE Unpack(p)
    <3> DEFINE new == [dir[s] EXCEPT !.bin = download[Text(p).sha]]
    <3>0. dir[s] # None /\ dir[s].files = "partial"
      BY <1>3, <2>1, <2>7 DEF Unpack, Grown
    <3>1. dir'[s] = new /\ dir[s] \in PackageDir
      BY <2>1, <2>2, <2>7, <3>0 DEF Unpack
    <3>2. download[Text(p).sha] = Text(p).sha /\ Text(p).sha \in File
      BY <2>7, FormulaAssumption DEF Unpack, DownloadedOK, Downloaded, TypeOK, ProcTypeOK, Job, Text, File
    <3>3. new \in PackageDir /\ new.bin = Text(p).sha /\ new.files = "partial"
      BY <3>0, <3>1, <3>2 DEF PackageDir
    <3>4. pc'[p] = "script"
      BY <2>2, <2>7 DEF Unpack, Goto
    <3> HIDE DEF new
    <3> QED BY <2>1, <3>1, <3>3, <3>4, MarkAssumption DEF Grown, Linking
  <2>8. CASE RecordFiles(p)
    <3> DEFINE new == [dir[s] EXCEPT !.files = "full"]
    <3>2. dir[s] # None /\ dir[s].bin = Text(p).sha /\ dir[s].files = "partial"
      BY <1>3, <2>1, <2>8 DEF RecordFiles, Grown
    <3>1. dir'[s] = new /\ dir[s] \in PackageDir
      BY <2>1, <2>2, <2>8, <3>2 DEF RecordFiles
    <3>3. new \in PackageDir /\ new.bin = Text(p).sha /\ new.files = "full"
      BY <3>1, <3>2 DEF PackageDir
    <3>4. pc'[p] = "receipt"
      BY <2>2, <2>8, <3>2 DEF RecordFiles, Goto
    <3> HIDE DEF new
    <3> QED BY <2>1, <3>1, <3>3, <3>4, MarkAssumption DEF Grown, Linking
  <2>9. CASE CreateReceipt(p)
    <3> DEFINE new == [dir[s] EXCEPT !.receipt = "partial"]
    <3>2. dir[s] # None /\ dir[s].bin = Text(p).sha /\ dir[s].files = "full"
      BY <1>3, <2>1, <2>9 DEF CreateReceipt, Grown
    <3>1. dir'[s] = new /\ dir[s] \in PackageDir
      BY <2>1, <2>2, <2>9, <3>2 DEF CreateReceipt
    <3>3. new \in PackageDir /\ new.bin = Text(p).sha /\ new.files = "full" /\ new.receipt = "partial"
      BY <3>1, <3>2 DEF PackageDir
    <3>4. pc'[p] = "copy"
      BY <2>2, <2>9, <3>2 DEF CreateReceipt, Goto
    <3> HIDE DEF new
    <3> QED BY <2>1, <3>1, <3>3, <3>4, MarkAssumption DEF Grown, Linking
  <2>10. CASE CopyFormula(p)
    <3>2. dir[s] # None /\ dir[s].bin = Text(p).sha /\ dir[s].files = "full" /\ dir[s].receipt = "partial"
      BY <1>3, <2>1, <2>10 DEF CopyFormula, Grown
    <3> DEFINE now == current[job[p].pkg]
    <3>0. PICK r \in {"cut", "full"} : dir' = [dir EXCEPT ![s] = [dir[s] EXCEPT !.receipt = r, !.rev = now]]
      BY <2>10, <3>2 DEF CopyFormula
    <3> DEFINE new == [dir[s] EXCEPT !.receipt = r, !.rev = now]
    <3>1. dir'[s] = new /\ dir[s] \in PackageDir
      BY <2>1, <2>2, <3>0, <3>2
    <3>3. now \in 0 .. MaxRev
      BY <2>10, BoundAssumption DEF CopyFormula, TypeOK, ProcTypeOK, DiskTypeOK, Job, Revision
    <3>4. /\ new \in PackageDir /\ new.bin = Text(p).sha /\ new.files = "full"
          /\ new.receipt \in {"cut", "full"} /\ new.rev = now
      <4> HIDE DEF now
      <4> QED BY <3>1, <3>2, <3>3 DEF PackageDir
    <3>5. pc'[p] = "link"
      BY <2>2, <2>10 DEF CopyFormula, Goto
    <3>6. job'[p].rev <= now
      BY <1>3 DEF ProcessOK, Phase, Holding
    <3> HIDE DEF new, now
    <3> QED BY <2>1, <3>1, <3>4, <3>5, <3>6, MarkAssumption DEF Grown, Linking
  <2>11. CASE CheckLink(p) \/ CheckReceipt(p) \/ StartSession(p) \/ FetchLookup(p) \/ FetchName(p)
    BY <1>3, <2>11, MarkAssumption DEF CheckLink, CheckReceipt, StartSession, FetchLookup, FetchName, Holding,
       ProcessOK, Phase
  <2>12. CASE Begin(p)
    BY <1>3, <2>12 DEF Begin, BeginInstall, BeginFetch, BeginUninstall, Holding
  <2>13. CASE UninstallStep(p)
    BY <1>3, <2>13 DEF UninstallStep, UninstallCheckLink, UninstallReadLink, UninstallCheckReceipt,
       UninstallCheckDir, UninstallUnlink, UninstallRemove, Holding, TypeOK, ProcTypeOK
  <2>14. CASE Fault(p) \/ Crash(p)
    BY <2>2, <2>14 DEF Fault, FetchFails, CallFails, Crash, Return, Holding
  <2> QED BY <1>3, <2>3, <2>4, <2>5, <2>6, <2>7, <2>8, <2>9, <2>10, <2>11, <2>12, <2>13, <2>14
          DEF Step, InstallStep
<1> QED BY <1>1, <1>2, <1>3, HoldingStep

LEMMA LinksApartStep ==
  ASSUME TypeOK, ProcessOK, LinksApart, [Next]_vars
  PROVE  LinksApart'
<1> SUFFICES ASSUME NEW k \in Package, NEW l \in Package,
                    link'[k] \in Session, link'[k] = link'[l], link'[k] \notin reused'
             PROVE  k = l
  BY DEF LinksApart, Linked
<1>0. link'[k] \notin reused
  BY Monotone
<1>1. CASE link'[k] = link[k] /\ link'[l] = link[l]
  BY <1>0, <1>1 DEF LinksApart, Linked
<1>2. ASSUME NEW m \in Package, NEW n \in Package, link'[m] # link[m], link'[m] = link'[k], link'[n] = link'[k]
      PROVE  m = n
  <2>1. PICK p \in Pid : MakeLink(p) /\ link'[m] = Sid(p)
    BY <1>2, LinkSummary, MarkAssumption
  <2>2. link[n] # Sid(p)
    BY <1>0, <1>2, <2>1, MakeLinkHolds DEF ProcessOK, Private
  <2> QED BY <1>2, <2>1, <2>2, LinkSummary
<1> QED BY <1>1, <1>2

LEMMA AimedStep ==
  ASSUME TypeOK, ProcessOK, LinksApart, AimedOK, [Next]_vars
  PROVE  AimedOK'
<1> SUFFICES ASSUME NEW p \in Pid, Aiming(p)', Sid(p)' \notin reused',
                    NEW k \in Package, link'[k] = Sid(p)'
             PROVE  k = job'[p].pkg /\ pc'[p] # "u_remove"
  BY DEF AimedOK
<1>0. Sid(p)' \in Session /\ Sid(p)' \notin reused
  BY NextTypeOK, StepTable, Monotone DEF TypeOK, ProcTypeOK, Aiming, Sid
<1>1. CASE Aiming(p) /\ job'[p] = job[p] /\ link'[k] = link[k]
  <2>1. Sid(p)' = Sid(p)
    BY <1>1 DEF Sid
  <2>2. k = job[p].pkg /\ pc[p] # "u_remove"
    BY <1>0, <1>1, <2>1 DEF AimedOK
  <2>3. ~UninstallUnlink(p) \/ pc'[p] # "u_remove"
    <3>1. ASSUME UninstallUnlink(p), pc'[p] = "u_remove" PROVE FALSE
      BY <1>0, <1>1, <2>2, <3>1, MarkAssumption
         DEF UninstallUnlink, Return, TypeOK, DiskTypeOK, ProcTypeOK
    <3> QED BY <3>1
  <2> QED BY <1>1, <2>2, <2>3, AimingStep DEF UninstallReadLink, Aiming
<1>2. CASE Aiming(p) /\ job'[p] = job[p] /\ link'[k] # link[k]
  <2>1. PICK q \in Pid : MakeLink(q) /\ link'[k] = Sid(q)
    BY <1>0, <1>2, LinkSummary, MarkAssumption
  <2>2. Sid(q) = Sid(p)
    BY <1>2, <2>1 DEF Sid
  <2> QED BY <1>0, <1>2, <2>1, <2>2, MakeLinkHolds DEF ProcessOK, Private
<1>3. CASE /\ pc'[p] = "u_dir" /\ UninstallReadLink(p)
           /\ Linked(job[p].pkg) /\ job'[p] = [job[p] EXCEPT !.sid = link[job[p].pkg]]
  <2>1. job[p] \in Job
    BY <1>3, StepTable DEF UninstallReadLink, TypeOK, ProcTypeOK
  <2>2. Sid(p)' = link[job[p].pkg] /\ job[p].pkg \in Package /\ job'[p].pkg = job[p].pkg
    BY <1>3, <2>1 DEF Sid, Job
  <2>3. link[k] = link[job[p].pkg]
    BY <1>3, <2>2 DEF UninstallReadLink, disk
  <2> QED BY <1>0, <1>3, <2>2, <2>3 DEF LinksApart
<1> QED BY <1>1, <1>2, <1>3, AimingStep

LEMMA DownloadedStep ==
  ASSUME TypeOK, DownloadedOK, [Next]_vars
  PROVE  DownloadedOK'
<1> SUFFICES ASSUME NEW p \in Pid, pc'[p] \in {"real_dir", "unpack"} PROVE Downloaded(p)'
  BY DEF DownloadedOK
<1> USE StepTable DEF TypeOK, ProcTypeOK
<1>1. CASE pc'[p] = pc[p] /\ job'[p] = job[p]
  <2>1. Downloaded(p) /\ Text(p)' = Text(p) /\ Text(p).sha \in Sha
    BY <1>1, FormulaAssumption DEF DownloadedOK, Text, Job
  <2> QED BY <2>1, DownloadSummary DEF Downloaded
<1>2. CASE Begin(p) \/ Fault(p) \/ Crash(p) \/ UninstallStep(p)
  BY <1>2 DEF Begin, BeginInstall, BeginFetch, BeginUninstall, Fault, FetchFails, CallFails, Crash, Return, Goto,
     UninstallStep, UninstallCheckLink, UninstallReadLink, UninstallCheckReceipt, UninstallCheckDir,
     UninstallUnlink, UninstallRemove
<1>3. CASE InstallStep(p)
  <2>1. (LookupDownload(p) /\ Downloaded(p)) \/ VerifyAndRename(p) \/ MakeRealDir(p)
    BY <1>3 DEF InstallStep, CheckLink, CheckReceipt, Goto, Return, StartSession, FetchName,
     LookupDownload, FetchLookup, FetchOpen, FetchDone, ClearRealDir, RemakeRealDir, Unpack, RecordFiles,
     CreateReceipt, CopyFormula, RunInstallScript, MakeLink, InspectLink, UnlinkOld,
     StatInWay, OpenInWay, RemoveInWay
  <2>2. pc'[p] \in Steps /\ pc[p] \in Steps
    BY <2>1 DEF LookupDownload, VerifyAndRename, MakeRealDir
  <2>3. job'[p] = job[p] /\ Text(p)' = Text(p) /\ Text(p).sha \in Sha
    BY <2>1, <2>2, FormulaAssumption DEF LookupDownload, VerifyAndRename, MakeRealDir, Goto, Return, Text, Job
  <2>4. CASE LookupDownload(p) /\ Downloaded(p)
    BY <2>3, <2>4 DEF LookupDownload, Downloaded, disk
  <2>5. CASE VerifyAndRename(p)
    BY <2>2, <2>3, <2>5 DEF VerifyAndRename, Downloaded, DiskTypeOK, Return
  <2>6. CASE MakeRealDir(p)
    BY <2>3, <2>6 DEF MakeRealDir, Downloaded, DownloadedOK
  <2> QED BY <2>1, <2>4, <2>5, <2>6
<1> QED BY <1>1, <1>2, <1>3, OthersStay DEF Next, Step, vars, Tick, Publish, proc

\* A removal that is under way was, or it begins now on a directory.
LEMMA RemovalStep ==
  ASSUME TypeOK, RemovalOK, [Next]_vars
  PROVE  RemovalOK'
<1> SUFFICES ASSUME NEW q \in Pid, NEW k \in Package, Removing(q, k)', Linked(k)'
             PROVE  link'[k] \in exposed'
  BY DEF RemovalOK
<1> USE StepTable DEF TypeOK, ProcTypeOK
<1>1. CASE link'[k] # link[k]
  <2>1. PICK p \in Pid : MakeLink(p) /\ job[p].pkg = k /\ link'[k] = Sid(p)
    BY <1>1, LinkSummary, MarkAssumption DEF Linked
  <2>2. q # p
    BY <1>1, <2>1, MarkAssumption DEF MakeLink, Return, Removing, DiskTypeOK
  <2>3. Removing(q, k)
    BY <2>1, <2>2, OthersStay DEF Step, InstallStep, Removing
  <2> QED BY <1>1, <2>1, <2>3 DEF MakeLink
<1>2. CASE link'[k] = link[k]
  <2>1. Linked(k)
    BY <1>2 DEF Linked
  <2>2. Removing(q, k) \/ (StatInWay(q) /\ link[job[q].pkg] = Directory /\ job[q].pkg = k)
    <3>1. CASE pc'[q] = pc[q] /\ job'[q] = job[q]
      BY <3>1 DEF Removing
    <3>2. CASE Begin(q) \/ Fault(q) \/ Crash(q) \/ UninstallStep(q)
      BY <3>2 DEF Removing, Begin, BeginInstall, BeginFetch, BeginUninstall, Fault, FetchFails, CallFails, Crash,
         Return, Goto, UninstallStep, UninstallCheckLink, UninstallReadLink, UninstallCheckReceipt,
         UninstallCheckDir, UninstallUnlink, UninstallRemove
    <3>3. CASE InstallStep(q)
      BY <3>3 DEF Removing, InstallStep, CheckLink, CheckReceipt, Goto, Return, StartSession, FetchName,
         LookupDownload, FetchLookup, FetchOpen, FetchDone, VerifyAndRename, MakeRealDir, ClearRealDir,
         RemakeRealDir, Unpack, RecordFiles, CreateReceipt, CopyFormula, RunInstallScript, MakeLink,
         InspectLink, UnlinkOld, StatInWay, OpenInWay, RemoveInWay
    <3> QED BY <3>1, <3>2, <3>3, OthersStay DEF Next, Step, vars, Tick, Publish, proc
  <2> QED BY <1>2, <2>1, <2>2, Monotone, MarkAssumption DEF RemovalOK, Linked
<1> QED BY <1>1, <1>2

\* Nobody touches the directory that a link leads to, but a removal that was under
\* way when the link was made.
LEMMA LinkedStay ==
  ASSUME TypeOK, ProcessOK, AimedOK, RemovalOK, [Next]_vars,
         NEW k \in Package, Linked(k), link[k] \notin reused, dir'[link[k]] # dir[link[k]]
  PROVE  link[k] \in exposed /\ Gutted(link[k])
<1>1. ASSUME NEW p \in Pid, Touches(p, link[k]) PROVE FALSE
  <2>1. ~Holding(p)
    BY <1>1 DEF Touches, ProcessOK, Private
  <2> QED BY <1>1, <2>1 DEF Touches, AimedOK, Aiming
<1>2. Gutted(link[k])
  BY <1>1, DirSummary DEF Linked
<1> QED BY <1>2 DEF Gutted, RemovalOK, Linked

LEMMA LinkedStep ==
  ASSUME TypeOK, ProcessOK, AimedOK, RemovalOK, LinkedIsBuilt, LinkedIsVerified, [Next]_vars
  PROVE  LinkedIsBuilt' /\ LinkedIsVerified'
<1> DEFINE Proven(k) == /\ dir[link[k]] # None
                        /\ \E r \in Revision : r <= dir[link[k]].rev /\ dir[link[k]].bin = Formula[k][r].sha
<1> SUFFICES ASSUME NEW k \in Package, Linked(k)', link'[k] \notin reused'
             PROVE  Proven(k)' /\ (link'[k] \notin exposed' => Built(dir[link[k]])')
  BY DEF LinkedIsBuilt, LinkedIsVerified
<1>0. link'[k] \notin reused /\ (link'[k] \notin exposed' => link'[k] \notin exposed)
  BY Monotone
<1>1. CASE link'[k] = link[k]
  <2>1. Linked(k) /\ Proven(k) /\ (link[k] \notin exposed => Built(dir[link[k]]))
    BY <1>0, <1>1 DEF LinkedIsBuilt, LinkedIsVerified, Linked
  <2>2. CASE dir'[link[k]] = dir[link[k]]
    BY <1>0, <1>1, <2>1, <2>2 DEF Built
  <2>3. CASE dir'[link[k]] # dir[link[k]]
    <3>1. link[k] \in exposed /\ Gutted(link[k])
      BY <1>0, <1>1, <2>1, <2>3, LinkedStay
    <3>2. link'[k] \in exposed' /\ Proven(k)'
      BY <1>1, <2>1, <3>1, Monotone DEF Gutted
    <3> QED BY <3>2
  <2> QED BY <2>2, <2>3
<1>2. CASE link'[k] # link[k]
  <2>1. PICK p \in Pid : MakeLink(p) /\ job[p].pkg = k /\ link'[k] = Sid(p)
    BY <1>2, LinkSummary, MarkAssumption DEF Linked
  <2>2. Holding(p) /\ Sid(p) \notin reused /\ pc[p] = "link" /\ UNCHANGED dir
    BY <1>0, <2>1, MakeLinkHolds DEF MakeLink
  <2>3. /\ dir[Sid(p)] # None /\ Built(dir[Sid(p)])
        /\ dir[Sid(p)].bin = Text(p).sha /\ job[p].rev <= dir[Sid(p)].rev
    BY <2>2 DEF ProcessOK, Grown, Built, Linking
  <2>4. job[p].rev \in Revision
    BY <2>2, StepTable DEF TypeOK, ProcTypeOK, Job
  <2> QED BY <2>1, <2>2, <2>3, <2>4 DEF Text, Built
<1> QED BY <1>1, <1>2

LEMMA UnpackedStep ==
  ASSUME TypeOK, ProcessOK, DownloadedOK, UnpackedIsVerified, [Next]_vars
  PROVE  UnpackedIsVerified'
<1> SUFFICES ASSUME NEW s \in Session, dir'[s] # None, dir'[s].bin # None
             PROVE  \E k \in Package, r \in Revision :
                       Formula[k][r].url = s.url /\ Formula[k][r].sha = dir'[s].bin
  BY DEF UnpackedIsVerified
<1>1. CASE dir[s] # None /\ dir'[s].bin = dir[s].bin
  BY <1>1 DEF UnpackedIsVerified
<1>2. CASE dir'[s] # dir[s] /\ \E p \in Pid : Unpack(p) /\ Sid(p) = s /\ dir'[s].bin = download[Text(p).sha]
  <2>1. PICK p \in Pid : Unpack(p) /\ Sid(p) = s /\ dir'[s].bin = download[Text(p).sha]
    BY <1>2
  <2>2. pc[p] = "unpack" /\ Downloaded(p)
    BY <2>1 DEF Unpack, DownloadedOK
  <2>3. Holding(p) /\ job[p] \in Job
    BY <2>1, <2>2, StepTable, MarkAssumption DEF Holding, ProcessOK, Phase, FetchSteps, TypeOK, ProcTypeOK, Sid, Job
  <2>4. s.url = Text(p).url
    BY <2>1, <2>3 DEF ProcessOK, Named
  <2> QED BY <2>1, <2>2, <2>3, <2>4 DEF Downloaded, Text, Job
<1> QED BY <1>1, <1>2, DirSummary

-----------------------------------------------------------------------------
(***************************************************************************)
(* The theorems.                                                           *)
(***************************************************************************)
LEMMA InitInv == Init => Inv
<1> SUFFICES ASSUME Init PROVE Inv
  OBVIOUS
<1>1. TypeOK
  BY InitTypeOK
<1>2. /\ \A p \in Pid : pc[p] = "idle"
      /\ \A s \in Session : dir[s] = None
      /\ \A k \in Package : ~Linked(k)
  BY MarkAssumption DEF Init, Linked
<1>3. ProcessOK /\ AimedOK /\ RemovalOK /\ DownloadedOK
  BY <1>2, StepTable DEF ProcessOK, AimedOK, RemovalOK, Removing, DownloadedOK, Phase, Named, Private, Grown, Holding, Aiming
<1>4. BegunOK /\ LinksApart /\ LinkedIsBuilt /\ LinkedIsVerified /\ UnpackedIsVerified
  BY <1>2 DEF BegunOK, LinksApart, LinkedIsBuilt, LinkedIsVerified, UnpackedIsVerified, Aiming
<1> QED BY <1>1, <1>3, <1>4 DEF Inv

LEMMA NextInv == Inv /\ [Next]_vars => Inv'
<1> SUFFICES ASSUME Inv, [Next]_vars PROVE Inv'
  OBVIOUS
<1> USE DEF Inv
<1>1. TypeOK'
  BY NextTypeOK
<1>2. ASSUME NEW p \in Pid PROVE (Phase(p) /\ Named(p) /\ Private(p) /\ Grown(p))'
  BY PhaseStep, NamedStep, PrivateStep, GrownStep
<1>3. ProcessOK'
  BY <1>2 DEF ProcessOK
<1>4. BegunOK' /\ LinksApart' /\ AimedOK' /\ RemovalOK' /\ DownloadedOK'
  BY BegunStep, LinksApartStep, AimedStep, RemovalStep, DownloadedStep
<1>5. LinkedIsBuilt' /\ LinkedIsVerified' /\ UnpackedIsVerified'
  BY LinkedStep, UnpackedStep
<1> QED BY <1>1, <1>3, <1>4, <1>5

\* The invariant all the others follow from.
THEOREM InvCorrect == Spec => []Inv
BY InitInv, NextInv, PTL DEF Spec

\* installed/<package> never leads to a directory that is half-way filled or
\* deleted, for any number of processes that install, uninstall and crash, unless
\* its session was begun twice or was linked into a removal that was under way.
THEOREM LinkedBuilt == Spec => []LinkedIsBuilt
<1>1. Inv => LinkedIsBuilt  BY DEF Inv
<1> QED BY <1>1, InvCorrect, PTL

\* What installed/<package> leads to has the digest a formula of the package
\* declares, and the receipt is not older than that formula.
THEOREM LinkedVerified == Spec => []LinkedIsVerified
<1>1. Inv => LinkedIsVerified  BY DEF Inv
<1> QED BY <1>1, InvCorrect, PTL

\* Nothing is unpacked but a file with the digest declared for its url.
THEOREM UnpackedVerified == Spec => []UnpackedIsVerified
<1>1. Inv => UnpackedIsVerified  BY DEF Inv
<1> QED BY <1>1, InvCorrect, PTL

\* An installed package is unlinked by its uninstall, or by an install whose own
\* directory is built.
THEOREM GivenUpForBuilt == Spec => GivenUpOnlyForBuilt
<1> DEFINE Excused(k) ==
      \E p \in Pid :
         /\ pc[p] \in {"u_unlink", "unlink"} /\ pc'[p] # pc[p]
         /\ job[p].pkg = k
         /\ \/ job[p].cmd = "uninstall"
            \/ Sid(p) \in reused
            \/ dir[Sid(p)] # None /\ Built(dir[Sid(p)])
<1>1. ASSUME Inv, [Next]_vars, NEW k \in Package, Linked(k), link'[k] # link[k]
      PROVE  Excused(k)
  <2> USE StepTable DEF Inv, TypeOK, DiskTypeOK, ProcTypeOK
  <2>1. PICK p \in Pid : UnlinkOld(p) \/ UninstallUnlink(p)
    <3>1. ASSUME NEW p \in Pid, Begin(p) \/ Fault(p) \/ Crash(p) PROVE FALSE
      BY <1>1, <3>1 DEF Begin, BeginInstall, BeginFetch, BeginUninstall,
         Fault, FetchFails, CallFails, Crash, disk
    <3>2. ASSUME NEW p \in Pid, InstallStep(p) PROVE UnlinkOld(p)
      BY <1>1, <3>2, MarkAssumption DEF InstallStep, CheckLink, CheckReceipt, disk,
         StartSession, LookupDownload, FetchLookup, FetchName, FetchOpen, FetchDone, VerifyAndRename,
         MakeRealDir, ClearRealDir, RemakeRealDir, Unpack, RunInstallScript, RecordFiles,
         CreateReceipt, CopyFormula, MakeLink, InspectLink, StatInWay, OpenInWay, RemoveInWay, Linked, Job
    <3>3. ASSUME NEW p \in Pid, UninstallStep(p) PROVE UninstallUnlink(p)
      BY <1>1, <3>3 DEF UninstallStep, UninstallCheckLink, UninstallReadLink,
         UninstallCheckReceipt, UninstallCheckDir, UninstallRemove, disk
    <3>4. Tick \/ (\E l \in Package : Publish(l)) \/ UNCHANGED vars => FALSE
      BY <1>1 DEF Tick, Publish, disk, vars
    <3> QED BY <1>1, <3>1, <3>2, <3>3, <3>4 DEF Next
  <2>2. pc[p] \in {"u_unlink", "unlink"} /\ job[p].pkg = k
    BY <1>1, <2>1 DEF UnlinkOld, UninstallUnlink, Job
  <2>3. pc'[p] # pc[p]
    BY <1>1, <2>1 DEF UnlinkOld, UninstallUnlink, Goto, Return
  <2>4. CASE UninstallUnlink(p)
    BY <1>1, <2>2, <2>3, <2>4 DEF UninstallUnlink
  <2>5. CASE UnlinkOld(p)
    <3>1. pc[p] = "unlink"
      BY <2>5 DEF UnlinkOld
    <3>2. Holding(p)
      BY <1>1, <3>1, MarkAssumption DEF Holding, ProcessOK, Phase, FetchSteps, Job
    <3>3. Sid(p) \in reused \/ (dir[Sid(p)] # None /\ Built(dir[Sid(p)]))
      BY <1>1, <3>1, <3>2 DEF ProcessOK, Grown, Built, Linking
    <3> QED BY <2>2, <2>3, <3>3
  <2> QED BY <2>1, <2>4, <2>5
<1>2. Inv /\ [Next]_vars => [\A k \in Package : Linked(k) /\ link'[k] # link[k] => Excused(k)]_vars
  BY <1>1
<1> QED BY <1>2, InvCorrect, PTL DEF Spec, GivenUpOnlyForBuilt

\* The build under a name stays as it is or is lost, or it is the build of an
\* installation that has just linked it.
LEMMA InstalledStep ==
  ASSUME Inv, [Next]_vars, NEW k \in Package
  PROVE  \/ Installed'[k] \in {Installed[k], None}
         \/ /\ Installed[k] = None /\ Installed'[k] \in Offered[k]
            /\ \A l \in Package \ {k} : Installed'[l] = Installed[l]
<1> USE DEF Inv
<1>1. /\ Installed[k] = IF Intact(k) THEN dir[link[k]] ELSE None
      /\ Installed'[k] = IF Intact(k)' THEN dir'[link'[k]] ELSE None
  BY DEF Installed
<1>2. CASE ~Intact(k)'
  BY <1>1, <1>2
<1>3. CASE Intact(k)' /\ link'[k] = link[k]
  <2>1. Intact(k)
    BY <1>3, Monotone DEF Intact, Linked
  <2>2. dir'[link[k]] = dir[link[k]]
    BY <2>1, LinkedStay DEF Intact
  <2> QED BY <1>1, <1>3, <2>1, <2>2
<1>4. CASE Intact(k)' /\ link'[k] # link[k]
  <2>1. PICK p \in Pid : MakeLink(p) /\ job[p].pkg = k /\ link[k] = None /\ link'[k] = Sid(p)
    BY <1>4, LinkSummary, MarkAssumption DEF Intact, Linked
  <2>2. UNCHANGED <<dir, started, reused, exposed>> /\ \A l \in Package \ {k} : link'[l] = link[l]
    BY <1>4, <2>1, LinkSummary DEF MakeLink, Intact
  <2>3. Installed[k] = None
    BY <1>1, <2>1, MarkAssumption DEF Intact, Linked
  <2>4. \A l \in Package \ {k} : Installed'[l] = Installed[l]
    BY <2>2 DEF Installed, Intact, Linked
  <2> DEFINE s == Sid(p)
  <2>5. Holding(p) /\ s \in Session /\ s \notin reused /\ pc[p] = "link" /\ job[p] \in Job
    BY <1>4, <2>1, <2>2, MakeLinkHolds, StepTable DEF Intact, MakeLink, TypeOK, ProcTypeOK
  <2>6. /\ dir[s] # None /\ dir[s].bin = Text(p).sha /\ job[p].rev <= dir[s].rev
        /\ dir[s].files = "full" /\ dir[s].receipt \in {"cut", "full"}
    BY <2>5 DEF ProcessOK, Grown, Linking
  <2>7. dir[s] \in PackageDir
    BY <2>5, <2>6 DEF TypeOK, DiskTypeOK
  <2>8. /\ job[p].rev \in 1 .. dir[s].rev /\ dir[s].rev \in Revision
        /\ dir[s].bin = Formula[k][job[p].rev].sha /\ dir[s].bin \in Sha
    BY <2>1, <2>5, <2>6, <2>7, BoundAssumption, FormulaAssumption DEF Job, Revision, PackageDir, Text
  <2>9. dir[s] \in Offered[k]
    BY <2>6, <2>7, <2>8 DEF Offered, Build, PackageDir
  <2>10. Installed'[k] = dir[s]
    BY <1>1, <1>4, <2>1, <2>2, <2>6
  <2> QED BY <2>3, <2>4, <2>9, <2>10
<1> QED BY <1>2, <1>3, <1>4

\* Every behaviour of the store, seen through its links, is one in which builds
\* appear whole and are lost whole.
THEOREM StoreImplementsIndex == Spec => ImplementsIndex
<1>1. Init => Index!Init
  BY MarkAssumption DEF Init, Index!Init, Installed, Intact, Linked
<1>2. ASSUME Inv, [Next]_vars PROVE Index!Next \/ UNCHANGED Installed
  <2>1. CASE \E k \in Package :
                /\ Installed[k] = None /\ Installed'[k] \in Offered[k]
                /\ \A l \in Package \ {k} : Installed'[l] = Installed[l]
    <3>1. PICK k \in Package :
                /\ Installed[k] = None /\ Installed'[k] \in Offered[k]
                /\ \A l \in Package \ {k} : Installed'[l] = Installed[l]
      BY <2>1
    <3>2. Installed' = [Installed EXCEPT ![k] = Installed'[k]]
      BY <3>1 DEF Installed
    <3> QED BY <3>1, <3>2 DEF Index!Next, Index!Appear
  <2>2. CASE \A k \in Package : Installed'[k] \in {Installed[k], None}
    <3> DEFINE K == {k \in Package : Installed'[k] = None}
    <3>1. Installed' = [k \in Package |-> Installed'[k]]
      BY DEF Installed
    <3>2. Installed' = [k \in Package |-> IF k \in K THEN None ELSE Installed[k]]
      BY <2>2, <3>1
    <3>3. Index!Disappear(K)
      BY <3>2 DEF Index!Disappear
    <3> QED BY <3>3 DEF Index!Next
  <2> QED BY <1>2, <2>1, <2>2, InstalledStep
<1>3. Inv /\ [Next]_vars => [Index!Next]_Installed
  BY <1>2
<1> QED BY <1>1, <1>3, InvCorrect, PTL DEF Spec, ImplementsIndex, Index!Spec
=============================================================================
