--------------------------- MODULE ListingsProofs ---------------------------
(***************************************************************************)
(* For any number of packages, repositories, revisions and changes: what a *)
(* command of Listings prints was so at some time while it ran, it ends    *)
(* with an error only for a reason that was there, and if it ends well it  *)
(* has missed nothing that was there all the time.                         *)
(*                                                                         *)
(* All rest on what a command knows between two system calls: what it has  *)
(* read was there when it read it (GotOK, AheadOK), what is there now is   *)
(* on record (OnRecord), and what it found by name is still there or is on *)
(* record as gone (FoundOK).                                               *)
(***************************************************************************)
EXTENDS Listings, FiniteSetTheorems, TLAPS

Command == Scans \cup Names \cup Infos

Build == Revision \cup {None}

AboutOne == {"lstat", "receipt", "stat_dir", "stat_receipt", "open_receipt", "stat_manifest",
             "open_manifest"}

LookupSteps == {"repos", "repo_names", "config", "locate", "formula"}

\* `ls-outdated' looks for the formula of the package it is at.
InLookup == command = "ls_outdated" /\ pc \in LookupSteps

AtOne == pc \in AboutOne \/ InLookup

Printed == [pkg : Package, old : Build, new : Build]

Types ==
  /\ installed \in [Package -> Build]
  /\ current \in [Package -> Revision]
  /\ shelf \in [Repo -> (SUBSET Package) \cup {None}]
  /\ had \in [Package -> SUBSET Build] /\ told \in [Package -> SUBSET Build]
  /\ queue \subseteq Repo /\ listed \subseteq Repo
  /\ lines \in Seq(Printed)

\* Where a command is tells which one it may be.
Phase ==
  /\ pc = "idle" => lines = <<>>
  /\ result # "none" => pc = "done"
  /\ pc # "idle" => command \in Command
  /\ pc \in {"open", "entries", "lstat", "receipt"} => command \in Scans
  /\ pc \in {"shelves", "shelf", "names"} => command \in Names
  /\ pc \in {"stat_dir", "stat_receipt"} => command \in Infos \cup {"ls_installed_v", "ls_outdated"}
  /\ pc = "open_receipt" => command \in AsText \cup {"field", "ls_outdated"}
  /\ pc \in {"stat_manifest", "open_manifest"} => command = "files"
  /\ pc \in LookupSteps => command \in Names \cup {"ls_outdated"}
  /\ pc \in {"locate", "formula"} => command = "ls_outdated"
  /\ AtOne => at \in Package

\* What there is now is among what has been there, and what there is not among what has
\* not.
OnRecord ==
  pc # "idle" =>
    /\ \A k \in Package : installed[k] \in had[k] /\ Tells(k) \in told[k]
    /\ Repo \ configured \subseteq bare

\* The receipt it has read was under the name of the package.
GotOK == InLookup => got \in had[at] \ {None}

\* A name that readdir is to return was in a formula directory.
AheadOK ==
  /\ ahead \subseteq Package
  /\ pc = "names" => \A k \in ahead : told[k] \ {None} # {}

\* What the stat before has found is there, or it has gone away since.
FoundOK ==
  /\ pc \in {"config", "formula", "shelf", "names"} => repo \in Repo
  /\ pc = "config"  => repo \in configured \cup unlisted
  /\ pc = "formula" => <<repo, at>> \in OnShelf \cup gone
  /\ pc = "shelf"   => shelf[repo] # None \/ <<repo, None>> \in gone

LineOK(line) ==
  /\ command \in Scans \cup Infos => line.old \in had[line.pkg] \ {None}
  /\ command = "ls_outdated" => line.new \in told[line.pkg] \ {None} /\ line.new # line.old
  /\ command \in Names => told[line.pkg] \ {None} # {}
  /\ command = "search" => line.pkg \in Matching

LinesOK == \A i \in DOMAIN lines : LineOK(lines[i])

IInv == Types /\ Phase /\ OnRecord /\ GotOK /\ AheadOK /\ FoundOK /\ LinesOK /\ EarlyEndHasCause

-----------------------------------------------------------------------------
(***************************************************************************)
(* Lines.                                                                  *)
(***************************************************************************)
LEMMA ElementOfSequence ==
  ASSUME NEW S, NEW s \in Seq(S), NEW i \in DOMAIN s
  PROVE  s[i] \in S
OBVIOUS

\* What is on record stays there, so that lines stay true.
LEMMA LinesStay ==
  ASSUME Types, LinesOK, lines' = lines, command' = command,
         \A k \in Package : had[k] \subseteq had'[k] /\ told[k] \subseteq told'[k]
  PROVE  LinesOK'
<1> SUFFICES ASSUME NEW i \in DOMAIN lines
             PROVE  LineOK(lines[i])'
  BY DEF LinesOK
<1>1. lines[i].pkg \in Package
  <2>1. lines[i] \in Printed
    BY ElementOfSequence DEF Types
  <2> QED BY <2>1 DEF Printed
<1>2. LineOK(lines[i])
  BY DEF LinesOK
<1> QED BY <1>1, <1>2 DEF LineOK

\* One more true line.
LEMMA LineAdded ==
  ASSUME Types, LinesOK, NEW line \in Printed, LineOK(line),
         lines' = Append(lines, line), command' = command, had' = had, told' = told
  PROVE  LinesOK' /\ lines' \in Seq(Printed)
<1>1. lines' \in Seq(Printed)
  BY DEF Types
<1>2. ASSUME NEW i \in DOMAIN lines'
      PROVE  LineOK(lines'[i])
  <2>1. CASE i \in DOMAIN lines
    BY <2>1 DEF Types, LinesOK
  <2>2. CASE i \notin DOMAIN lines
    <3>1. lines'[i] = line
      BY <2>2, <1>2 DEF Types
    <3> QED BY <3>1
  <2> QED BY <2>1, <2>2
<1>3. LinesOK'
  BY <1>2 DEF LinesOK, LineOK
<1> QED BY <1>1, <1>3

-----------------------------------------------------------------------------
(***************************************************************************)
(* The steps of the command: they change neither what there is nor what is *)
(* on record.                                                              *)
(***************************************************************************)
LEMMA StepKeepsRecord ==
  ASSUME IInv, Step
  PROVE  /\ UNCHANGED <<installed, current, shelf, configured, had, told, stood, gone, unlisted,
                        bare, command>>
         /\ pc # "idle" /\ result = "none" /\ OnRecord'
<1>1. /\ UNCHANGED <<installed, current, shelf, configured, had, told, stood, gone, unlisted,
                     bare, command>>
      /\ pc \notin {"idle", "done"}
  BY DEF Step, OpenInstalled, ReadEntry, CheckEntry, CheckReceipt, StatDir, StatReceipt,
         ReadReceipt, StatManifest, ReadManifest, ListRepos, ReadRepo, ParseConfig, Locate,
         ReadFormula, VisitShelf, OpenShelf, ReadName, index, history
<1>2. \A k \in Package : Tells(k)' = Tells(k)
  BY <1>1 DEF Tells, Offered
<1> QED BY <1>1, <1>2 DEF IInv, OnRecord, Phase

\* How a lookup ends that finds nothing.
LEMMA FailedLookup ==
  ASSUME IInv, pc \in LookupSteps, LookupFails
  PROVE  IF command = "ls_outdated" THEN Goto("entries") ELSE command \in Names /\ Return("error")
BY DEF IInv, Phase, LookupFails, LookupSteps, Names

LEMMA StepKeepsPhase ==
  ASSUME IInv, Step
  PROVE  Phase'
<1> USE DEF Phase, AboutOne, LookupSteps, InLookup, AtOne, Command, Scans, Names, Infos, AsText
<1>1. CASE OpenInstalled
  BY <1>1 DEF IInv, OpenInstalled, Goto
<1>2. CASE ReadEntry
  BY <1>2 DEF IInv, AheadOK, ReadEntry, Goto, Return
<1>3. CASE CheckEntry
  BY <1>3 DEF IInv, CheckEntry, Goto
<1>4. CASE CheckReceipt
  BY <1>4 DEF IInv, CheckReceipt, Goto, Show
<1>5. CASE StatDir
  BY <1>5 DEF IInv, StatDir, Goto, Return
<1>6. CASE StatReceipt
  BY <1>6 DEF IInv, StatReceipt, Goto, Return, Show
<1>7. CASE ReadReceipt
  <2>1. pc = "open_receipt" /\ result = "none" /\ UNCHANGED <<command, at>>
    BY <1>7 DEF IInv, ReadReceipt
  <2>2. CASE Return("error")
    BY <2>1, <2>2 DEF IInv, Return
  <2>3. CASE Goto("repos") /\ command \notin AsText \cup {"field"}
    BY <2>1, <2>3 DEF IInv, Goto
  <2>4. CASE Show(Line(at, got', None))
    BY <2>1, <2>4 DEF IInv, Show
  <2> QED BY <1>7, <2>2, <2>3, <2>4 DEF ReadReceipt
<1>8. CASE StatManifest
  BY <1>8 DEF IInv, StatManifest, Goto, Return
<1>9. CASE ReadManifest
  BY <1>9 DEF IInv, ReadManifest, Return, Show
<1>10. CASE ListRepos
  BY <1>10 DEF IInv, ListRepos, Goto
<1>11. CASE ReadRepo
  BY <1>11 DEF IInv, ReadRepo, LookupFails, Goto, Return
<1>12. CASE ParseConfig
  BY <1>12 DEF IInv, ParseConfig, LookupFails, Goto, Return
<1>13. CASE Locate
  BY <1>13 DEF IInv, Locate, LookupFails, Goto, Return
<1>14. CASE ReadFormula
  BY <1>14 DEF IInv, ReadFormula, LookupFails, Goto, Return, Show
<1>15. CASE VisitShelf
  BY <1>15 DEF IInv, VisitShelf, Goto, Return
<1>16. CASE OpenShelf
  BY <1>16 DEF IInv, OpenShelf, Goto, Return
<1>17. CASE ReadName
  BY <1>17 DEF IInv, ReadName, Goto, Show
<1> QED
  BY <1>1, <1>2, <1>3, <1>4, <1>5, <1>6, <1>7, <1>8, <1>9, <1>10, <1>11, <1>12, <1>13, <1>14,
     <1>15, <1>16, <1>17 DEF Step

\* A step prints nothing or one line, and that is true.
LEMMA StepKeepsLines ==
  ASSUME IInv, Step
  PROVE  LinesOK' /\ lines' \in Seq(Printed)
<1>1. UNCHANGED <<installed, current, shelf, had, told, command>> /\ pc # "idle"
  BY StepKeepsRecord
<1>2. CASE UNCHANGED lines
  BY <1>1, <1>2, LinesStay DEF IInv, Types
<1>3. ASSUME NEW line \in Printed, LineOK(line), Show(line)
      PROVE  LinesOK' /\ lines' \in Seq(Printed)
  <2>1. lines' = Append(lines, line)
    BY <1>3 DEF Show
  <2> QED BY <1>1, <1>3, <2>1, LineAdded DEF IInv
<1>4. ASSUME pc \in AboutOne, command \in Scans \cup Infos, command # "ls_outdated",
             installed[at] # None
      PROVE  Line(at, installed[at], None) \in Printed /\ LineOK(Line(at, installed[at], None))
  <2>1. at \in Package
    BY <1>4 DEF IInv, Phase, AtOne
  <2>2. installed[at] \in had[at] /\ installed[at] \in Build
    BY <2>1, <1>1 DEF IInv, OnRecord, Types
  <2>3. Line(at, installed[at], None) \in Printed
    BY <2>1, <2>2 DEF Line, Build, Printed
  <2> QED BY <2>2, <2>3, <1>4 DEF LineOK, Line, Scans, Infos, Names
<1>5. CASE CheckReceipt
  BY <1>5, <1>2, <1>3, <1>4 DEF CheckReceipt, Goto, AboutOne, Scans
<1>6. CASE StatReceipt
  BY <1>6, <1>2, <1>3, <1>4 DEF StatReceipt, Goto, Return, AboutOne, Infos
<1>7. CASE ReadReceipt
  <2>1. CASE UNCHANGED lines
    BY <2>1, <1>2
  <2>2. CASE lines' # lines
    <3>1. installed[at] # None /\ Show(Line(at, installed[at], None))
          /\ command \in {"ls_installed_v", "yaml", "field"}
      BY <1>7, <2>2 DEF ReadReceipt, AsText, Goto, Return
    <3> QED BY <3>1, <1>7, <1>3, <1>4 DEF ReadReceipt, AsText, AboutOne, Infos, Scans
  <2> QED BY <2>1, <2>2
<1>8. CASE ReadManifest
  BY <1>8, <1>2, <1>3, <1>4 DEF IInv, Phase, ReadManifest, Return, AboutOne, Infos
<1>9. CASE ReadFormula
  <2>1. CASE UNCHANGED lines
    BY <2>1, <1>2
  <2>2. CASE lines' # lines
    <3>1. <<repo, at>> \in OnShelf /\ current[at] # got /\ Show(Line(at, got, current[at]))
      BY <1>9, <2>2 DEF ReadFormula, LookupFails, Goto, Return
    <3>2. at \in Package /\ command = "ls_outdated" /\ got \in had[at] \ {None} /\ repo \in Repo
      BY <1>9 DEF IInv, Phase, GotOK, FoundOK, ReadFormula, InLookup, LookupSteps, AtOne
    <3>3. Offered(at)
      BY <3>1, <3>2 DEF OnShelf, Offered
    <3>4. current[at] \in told[at] \ {None} /\ current[at] \in Build /\ got \in Build
      BY <3>2, <3>3, <1>1, ListingAssumption DEF IInv, OnRecord, Tells, Types, Build
    <3>5. Line(at, got, current[at]) \in Printed
      BY <3>2, <3>4 DEF Line, Printed
    <3>6. LineOK(Line(at, got, current[at]))
      BY <3>1, <3>2, <3>4 DEF LineOK, Line, Names
    <3> QED BY <3>1, <3>5, <3>6, <1>3
  <2> QED BY <2>1, <2>2
<1>10. CASE ReadName
  <2>1. CASE UNCHANGED lines
    BY <2>1, <1>2
  <2>2. CASE lines' # lines
    <3>1. PICK k \in ahead : PackageNameFilter(k) /\ Show(Line(k, None, None))
      BY <1>10, <2>2 DEF ReadName, Goto
    <3>2. k \in Package /\ told[k] \ {None} # {} /\ command \in Names
      BY <1>10, <3>1 DEF IInv, AheadOK, Phase, ReadName
    <3>3. Line(k, None, None) \in Printed
      BY <3>2 DEF Line, Build, Printed
    <3>4. LineOK(Line(k, None, None))
      BY <3>1, <3>2 DEF LineOK, Line, PackageNameFilter, Names, Scans, Infos
    <3> QED BY <3>1, <3>3, <3>4, <1>3
  <2> QED BY <2>1, <2>2
<1>11. CASE OpenInstalled \/ ReadEntry \/ CheckEntry \/ StatDir \/ StatManifest \/ ListRepos
            \/ ReadRepo \/ ParseConfig \/ Locate \/ VisitShelf \/ OpenShelf
  BY <1>11, <1>2 DEF OpenInstalled, ReadEntry, CheckEntry, StatDir, StatManifest, ListRepos,
                     ReadRepo, ParseConfig, Locate, VisitShelf, OpenShelf, LookupFails, Goto, Return
<1> QED BY <1>5, <1>6, <1>7, <1>8, <1>9, <1>10, <1>11 DEF Step

\* Only ReadReceipt reads a receipt for the lookup.
LEMMA StepKeepsGot ==
  ASSUME IInv, Step
  PROVE  GotOK'
<1>1. UNCHANGED <<had, told, command>> /\ pc # "idle"
  BY StepKeepsRecord
<1> SUFFICES ASSUME InLookup'
             PROVE  got' \in had'[at'] \ {None}
  BY DEF GotOK
<1>2. CASE InLookup
  <2>1. UNCHANGED <<got, at>>
    BY <1>2 DEF InLookup, LookupSteps, Step, OpenInstalled, ReadEntry, CheckEntry, CheckReceipt,
                StatDir, StatReceipt, ReadReceipt, StatManifest, ReadManifest, ListRepos, ReadRepo,
                ParseConfig, Locate, ReadFormula, VisitShelf, OpenShelf, ReadName
  <2> QED BY <1>1, <1>2, <2>1 DEF IInv, GotOK
<1>3. CASE ~InLookup
  <2>1. command = "ls_outdated" /\ pc \notin LookupSteps /\ pc' \in LookupSteps
    BY <1>1, <1>3 DEF InLookup
  <2>2. ReadReceipt /\ installed[at] # None /\ got' = installed[at] /\ at' = at
    BY <2>1
    DEF Step, OpenInstalled, ReadEntry, CheckEntry, CheckReceipt, StatDir, StatReceipt,
        ReadReceipt, StatManifest, ReadManifest, ListRepos, ReadRepo, ParseConfig, Locate,
        ReadFormula, VisitShelf, OpenShelf, ReadName, Goto, Return, Show, LookupSteps, Infos, Names
  <2>3. at \in Package
    BY <2>2 DEF IInv, Phase, ReadReceipt, AtOne, AboutOne
  <2> QED BY <1>1, <2>2, <2>3 DEF IInv, OnRecord
<1> QED BY <1>2, <1>3

\* A formula directory that is opened has only names of formulas.
LEMMA StepKeepsAhead ==
  ASSUME IInv, Step
  PROVE  AheadOK'
<1>1. UNCHANGED <<told, had, command, shelf>> /\ pc # "idle"
  BY StepKeepsRecord
<1>2. CASE ahead' = ahead /\ pc' # "names"
  BY <1>2 DEF IInv, AheadOK
<1>3. CASE ahead' \subseteq ahead /\ pc = "names"
  BY <1>1, <1>3 DEF IInv, AheadOK
<1>4. CASE ahead' \subseteq Package /\ pc' # "names"
  BY <1>4 DEF AheadOK
<1>5. CASE OpenShelf
  <2>1. CASE shelf[repo] = None
    BY <2>1, <1>2, <1>5 DEF OpenShelf, Return
  <2>2. CASE shelf[repo] # None
    <3>1. repo \in Repo /\ ahead' = shelf[repo]
      BY <1>5, <2>2 DEF OpenShelf, IInv, FoundOK
    <3>2. ahead' \subseteq Package
      BY <2>2, <3>1 DEF IInv, Types
    <3>3. ASSUME NEW k \in ahead'
          PROVE  told'[k] \ {None} # {}
      <4>1. k \in Package /\ Offered(k)
        BY <2>2, <3>1, <3>2, <3>3 DEF Offered
      <4>2. current[k] \in told[k] /\ current[k] # None
        BY <4>1, <1>1, ListingAssumption DEF IInv, OnRecord, Tells, Types
      <4> QED BY <4>2, <1>1
    <3> QED BY <3>2, <3>3 DEF AheadOK
  <2> QED BY <2>1, <2>2
<1>6. CASE ReadName
  BY <1>6, <1>2, <1>3 DEF ReadName, Goto, Show
<1>7. CASE OpenInstalled \/ ReadEntry
  BY <1>7, <1>4 DEF OpenInstalled, ReadEntry, Goto, Return, IInv, AheadOK
<1>8. CASE CheckEntry \/ StatDir \/ StatManifest \/ ListRepos
  BY <1>8, <1>2 DEF CheckEntry, StatDir, StatManifest, ListRepos, Goto, Return, scan
<1>9. CASE ReadRepo \/ ParseConfig \/ Locate \/ VisitShelf
  BY <1>9, <1>2 DEF ReadRepo, ParseConfig, Locate, VisitShelf, LookupFails, Goto, Return
<1>10. CASE CheckReceipt
  BY <1>10, <1>2 DEF CheckReceipt, Goto, Show, scan, IInv, Phase, Scans, Names
<1>11. CASE StatReceipt
  BY <1>11, <1>2 DEF StatReceipt, Goto, Return, Show, scan, Infos
<1>12. CASE ReadReceipt
  <2>1. command \notin Names
    BY <1>12 DEF IInv, Phase, ReadReceipt, AsText, Names
  <2> QED BY <2>1, <1>12, <1>2 DEF ReadReceipt, Goto, Return, Show, scan
<1>13. CASE ReadManifest
  BY <1>13, <1>2 DEF ReadManifest, Return, Show, scan, IInv, Phase, Infos
<1>14. CASE ReadFormula
  BY <1>14, <1>2 DEF ReadFormula, LookupFails, Goto, Return, Show, scan, IInv, Phase, Names
<1> QED
  BY <1>5, <1>6, <1>7, <1>8, <1>9, <1>10, <1>11, <1>12, <1>13, <1>14 DEF Step

\* Each stat is followed by the step that opens what it found.
LEMMA StepKeepsFound ==
  ASSUME IInv, Step
  PROVE  FoundOK'
<1>1. UNCHANGED <<shelf, configured, gone, unlisted, bare>>
  BY StepKeepsRecord
<1>2. OnShelf' = OnShelf
  BY <1>1 DEF OnShelf
<1>3. CASE pc' \notin {"config", "formula", "shelf", "names"}
  BY <1>3 DEF FoundOK
<1>4. CASE pc' \in {"config", "formula", "shelf", "names"}
  <2>1. ReadRepo \/ Locate \/ VisitShelf \/ OpenShelf \/ ReadName
    BY <1>4
    DEF IInv, Phase, Step, OpenInstalled, ReadEntry, CheckEntry, CheckReceipt, StatDir,
        StatReceipt, ReadReceipt, StatManifest, ReadManifest, ListRepos, ParseConfig, ReadFormula,
        LookupFails, Goto, Return, Show, Scans, Names, Infos, AsText
  <2>2. CASE ReadRepo
    BY <1>1, <1>4, <2>2 DEF ReadRepo, LookupFails, Goto, Return, IInv, Types, FoundOK
  <2>3. CASE Locate
    BY <1>1, <1>2, <1>4, <2>3 DEF Locate, LookupFails, Goto, Return, IInv, Types, FoundOK
  <2>4. CASE VisitShelf
    BY <1>1, <1>4, <2>4 DEF VisitShelf, Goto, Return, IInv, Types, FoundOK
  <2>5. CASE OpenShelf
    BY <1>1, <1>4, <2>5 DEF OpenShelf, Goto, Return, IInv, FoundOK
  <2>6. CASE ReadName
    <3>1. pc = "names" /\ repo' = repo /\ pc' \in {"shelves", "names"}
      BY <2>6 DEF ReadName, Goto, Show, IInv, Phase, Names, Infos
    <3> QED BY <1>4, <3>1 DEF IInv, FoundOK
  <2> QED BY <2>1, <2>2, <2>3, <2>4, <2>5, <2>6
<1> QED BY <1>3, <1>4

\* Sets that are made of repositories stay such.
LEMMA StepKeepsTypes ==
  ASSUME IInv, Step
  PROVE  Types'
<1>1. UNCHANGED <<installed, current, shelf, had, told>>
  BY StepKeepsRecord
<1>2. queue' \subseteq Repo /\ listed' \subseteq Repo
  <2>1. CASE ListRepos
    BY <2>1 DEF ListRepos
  <2>2. CASE ReadRepo \/ Locate \/ VisitShelf
    BY <2>2 DEF ReadRepo, Locate, VisitShelf, IInv, Types
  <2>3. CASE ParseConfig
    BY <2>3 DEF ParseConfig, IInv, Types, FoundOK
  <2>4. CASE UNCHANGED <<queue, listed>>
    BY <2>4 DEF IInv, Types
  <2> QED
    BY <2>1, <2>2, <2>3, <2>4
    DEF Step, OpenInstalled, ReadEntry, CheckEntry, CheckReceipt, StatDir, StatReceipt,
        ReadReceipt, StatManifest, ReadManifest, ReadFormula, OpenShelf, ReadName, scan
<1> QED BY <1>1, <1>2, StepKeepsLines DEF IInv, Types

\* A step that ends the command with an error has found a name empty that it has seen
\* before, or a repository without its config file, or it has read a receipt that cannot
\* be parsed.
LEMMA StepKeepsCause ==
  ASSUME IInv, Step
  PROVE  EarlyEndHasCause'
<1>1. /\ UNCHANGED <<installed, had, gone, unlisted, bare, command>>
      /\ pc # "idle" /\ result = "none" /\ Repo \ configured \subseteq bare
  BY StepKeepsRecord DEF IInv, OnRecord
<1>2. CASE result' \in {"none", "ok"}
  BY <1>2 DEF EarlyEndHasCause
<1>3. ASSUME result' \notin {"none", "ok", "crash"}, pc \in AboutOne, command \notin Names,
             at' = at, installed[at] = None \/ <<at, installed[at]>> \in Unreadable
      PROVE  EarlyEndHasCause'
  <2>1. at \in Package /\ installed[at] \in had[at]
    BY <1>1, <1>3 DEF IInv, Phase, OnRecord, AtOne
  <2> QED BY <1>1, <1>3, <2>1 DEF EarlyEndHasCause
<1>4. CASE StatReceipt
  BY <1>1, <1>2, <1>3, <1>4
  DEF StatReceipt, Goto, Return, Show, AboutOne, IInv, Phase, Names, Infos
<1>5. CASE ReadReceipt
  BY <1>1, <1>2, <1>3, <1>5
  DEF ReadReceipt, Goto, Return, Show, AboutOne, IInv, Phase, Names, AsText
<1>6. CASE StatDir \/ StatManifest \/ ReadManifest
  BY <1>1, <1>2, <1>3, <1>6
  DEF StatDir, StatManifest, ReadManifest, Goto, Return, Show, AboutOne, IInv, Phase, Names, Infos
<1>7. CASE ParseConfig
  <2>1. CASE repo \in configured
    BY <1>1, <1>2, <1>7, <2>1 DEF ParseConfig, Goto
  <2>2. CASE repo \notin configured
    <3>1. unlisted # {} /\ bare # {} /\ pc = "config"
      BY <1>1, <1>7, <2>2 DEF ParseConfig, IInv, FoundOK
    <3>2. command \in Names \/ result' \in {"none", "ok", "crash"}
      BY <1>1, <1>7, <3>1, FailedLookup DEF ParseConfig, LookupSteps, Goto, Return
    <3> QED BY <1>1, <1>2, <3>1, <3>2 DEF EarlyEndHasCause
  <2> QED BY <2>1, <2>2
<1>8. CASE OpenShelf
  <2>1. CASE shelf[repo] # None
    BY <1>1, <1>2, <1>8, <2>1 DEF OpenShelf, Goto
  <2>2. CASE shelf[repo] = None
    <3>1. repo \in Repo /\ <<repo, None>> \in gone /\ command \in Names
      BY <1>8, <2>2 DEF OpenShelf, IInv, FoundOK, Phase
    <3> QED BY <1>1, <3>1 DEF EarlyEndHasCause
  <2> QED BY <2>1, <2>2
<1>9. CASE Locate
  <2>1. LookupFails => Goto("entries")
    BY <1>9, FailedLookup DEF Locate, LookupSteps, IInv, Phase
  <2> QED BY <1>1, <1>2, <1>9, <2>1 DEF Locate, Goto
<1>10. CASE ReadFormula
  <2>1. LookupFails => Goto("entries")
    BY <1>10, FailedLookup DEF ReadFormula, LookupSteps, IInv, Phase
  <2> QED BY <1>1, <1>2, <1>10, <2>1 DEF ReadFormula, Goto, Show
<1>11. CASE ReadRepo
  <2>1. ASSUME NEW q \in queue, q \notin configured, LookupFails
        PROVE  EarlyEndHasCause'
    <3>1. bare # {}
      BY <1>1, <2>1 DEF IInv, Types
    <3>2. \/ command \in Names /\ Return("error")
          \/ Goto("entries")
      BY <1>11, <2>1, FailedLookup DEF ReadRepo, LookupSteps
    <3> QED BY <1>1, <1>2, <3>1, <3>2 DEF EarlyEndHasCause, Goto, Return
  <2> QED BY <1>1, <1>2, <1>11, <2>1 DEF ReadRepo, Goto
<1>12. CASE OpenInstalled \/ ReadEntry \/ CheckEntry \/ CheckReceipt \/ ListRepos
            \/ VisitShelf \/ ReadName
  BY <1>1, <1>2, <1>12
  DEF OpenInstalled, ReadEntry, CheckEntry, CheckReceipt, ListRepos, VisitShelf, ReadName,
      Goto, Return, Show
<1> QED BY <1>4, <1>5, <1>6, <1>7, <1>8, <1>9, <1>10, <1>11, <1>12 DEF Step

LEMMA StepKeepsIInv ==
  ASSUME IInv, Step
  PROVE  IInv'
BY StepKeepsRecord, StepKeepsPhase, StepKeepsLines, StepKeepsGot, StepKeepsAhead,
   StepKeepsFound, StepKeepsTypes, StepKeepsCause DEF IInv

-----------------------------------------------------------------------------
(***************************************************************************)
(* The beginning of a command: the record starts with what there is.       *)
(***************************************************************************)
LEMMA BeginKeepsIInv ==
  ASSUME IInv, NEW k \in Package, NEW c \in Command, Begin(c, k)
  PROVE  IInv'
<1>1. /\ pc = "idle" /\ lines = <<>> /\ command' = c
      /\ UNCHANGED <<installed, current, shelf, queue, listed, ahead, lines, result>>
  BY DEF Begin, index, scan, IInv, Phase
<1>2. \A j \in Package : Tells(j)' = Tells(j) /\ Tells(j) \in Build
  BY <1>1 DEF IInv, Types, Tells, Offered, Build
<1>3. Types'
  BY <1>1, <1>2 DEF IInv, Types, Begin
<1>4. pc' = IF c \in Scans THEN "open" ELSE IF c \in Names THEN "repos" ELSE "stat_dir"
  BY DEF Begin, Command, Scans, Names, Infos
<1>5. Phase'
  BY <1>1, <1>4 DEF IInv, Phase, Begin, Command, AboutOne, LookupSteps, InLookup, AtOne,
                     Scans, Names, Infos
<1>6. OnRecord'
  BY <1>1, <1>2 DEF OnRecord, Begin, index
<1>7. GotOK'
  BY <1>1, <1>4 DEF GotOK, InLookup, LookupSteps, Names
<1>8. AheadOK' /\ LinesOK' /\ FoundOK'
  BY <1>1, <1>4 DEF IInv, AheadOK, LinesOK, FoundOK
<1>9. EarlyEndHasCause'
  BY <1>1 DEF IInv, Phase, EarlyEndHasCause
<1> QED BY <1>3, <1>5, <1>6, <1>7, <1>8, <1>9 DEF IInv

-----------------------------------------------------------------------------
(***************************************************************************)
(* The others: the record grows, and what is there now is on it.           *)
(***************************************************************************)
\* What follows from the record alone, whoever changes what.
LEMMA RecordGrows ==
  ASSUME IInv, Running, UNCHANGED <<command, pc, at, got, lines, result>>,
         \A k \in Package : had[k] \subseteq had'[k] /\ told[k] \subseteq told'[k]
  PROVE  Phase' /\ GotOK' /\ LinesOK' /\ EarlyEndHasCause'
<1>1. Phase'
  BY DEF IInv, Phase, AtOne, InLookup
<1>2. GotOK'
  BY DEF IInv, Phase, GotOK, AtOne, InLookup
<1>3. LinesOK'
  BY LinesStay DEF IInv
<1>4. EarlyEndHasCause'
  BY DEF IInv, Phase, Running, EarlyEndHasCause
<1> QED BY <1>1, <1>2, <1>3, <1>4

LEMMA ChangeIndexKeepsIInv ==
  ASSUME IInv, NEW k \in Package, ChangeIndex(k)
  PROVE  IInv'
<1>1. /\ Running /\ pc # "idle"
      /\ UNCHANGED <<current, shelf, configured, told, gone, unlisted, bare, queue, listed,
                     repo, command, pc, at, got, lines, result>>
  BY DEF ChangeIndex, Running
<1>2. installed' \in [Package -> Build] /\ \A j \in Package \ {k} : installed'[j] = installed[j]
  <2>1. ASSUME NEW r \in 1 .. current[k], Index!Appear(k, r)
        PROVE  <1>2!1 /\ <1>2!2
    <3>1. current[k] \in Revision
      BY DEF IInv, Types
    <3>2. r \in Build
      BY <3>1, ListingAssumption DEF Revision, Build
    <3> QED BY <2>1, <3>2 DEF Index!Appear, IInv, Types
  <2>2. CASE Index!Disappear({k})
    BY <2>2 DEF Index!Disappear, IInv, Types, Build
  <2> QED BY <2>1, <2>2 DEF ChangeIndex
<1>3. /\ had' \in [Package -> SUBSET Build]
      /\ had'[k] = had[k] \cup {installed'[k]}
      /\ \A j \in Package \ {k} : had'[j] = had[j]
  BY <1>2 DEF ChangeIndex, IInv, Types
<1>4. Types'
  BY <1>1, <1>2, <1>3 DEF IInv, Types
<1>5. OnRecord'
  BY <1>1, <1>2, <1>3 DEF IInv, OnRecord, Tells, Offered
<1>6. AheadOK'
  <2>1. ahead' \subseteq Package
    BY DEF ChangeIndex, Turns, IInv, AheadOK
  <2>2. pc = "names" => ahead' = ahead
    BY DEF ChangeIndex, Turns, IInv, Phase, Names, Scans
  <2> QED BY <1>1, <2>1, <2>2 DEF IInv, AheadOK
<1>7. \A j \in Package : had[j] \subseteq had'[j] /\ told[j] \subseteq told'[j]
  BY <1>1, <1>3
<1>8. Phase' /\ GotOK' /\ LinesOK' /\ EarlyEndHasCause'
  BY <1>1, <1>7, RecordGrows
<1>9. FoundOK'
  BY <1>1 DEF IInv, FoundOK, OnShelf
<1> QED BY <1>4, <1>5, <1>6, <1>8, <1>9 DEF IInv

\* A name that a sync adds to the directory being read is a formula from then on.
LEMMA ChangeFormulasKeepsIInv ==
  ASSUME IInv, NEW k \in Package, NEW q \in Repo, ChangeFormulas(q, k)
  PROVE  IInv'
<1>1. /\ Running /\ pc # "idle"
      /\ UNCHANGED <<installed, configured, had, unlisted, bare, queue, listed, repo, command,
                     pc, at, got, lines, result>>
      /\ told' = [j \in Package |-> told[j] \cup {Tells(j)'}]
  BY DEF ChangeFormulas, Running
<1>2. current' \in [Package -> Revision]
  <2>1. current[k] \in Revision
    BY DEF IInv, Types
  <2>2. current[k] < MaxRev => current[k] + 1 \in Revision
    BY <2>1, ListingAssumption DEF Revision
  <2> QED BY <2>2 DEF ChangeFormulas, IInv, Types
<1>3. shelf' \in [Repo -> (SUBSET Package) \cup {None}]
  <2>1. shelf[q] # None => shelf[q] \ {k} \in SUBSET Package /\ shelf[q] \cup {k} \in SUBSET Package
    BY DEF IInv, Types
  <2> QED BY <2>1 DEF ChangeFormulas, IInv, Types
<1>4. \A j \in Package : Tells(j)' \in Build
  BY <1>2 DEF Tells, Build
<1>5. Types'
  BY <1>1, <1>2, <1>3, <1>4 DEF IInv, Types
<1>6. OnRecord'
  BY <1>1 DEF IInv, OnRecord
<1>7. AheadOK'
  <2>1. \A j \in ahead : j \in Package /\ (pc = "names" => told'[j] \ {None} # {})
    BY <1>1 DEF IInv, AheadOK
  <2>2. ASSUME ahead' = ahead \cup {k}, shelf[q] # None, k \notin shelf[q],
               shelf' = [shelf EXCEPT ![q] = @ \cup {k}], UNCHANGED current
        PROVE  told'[k] \ {None} # {}
    <3>1. shelf'[q] = shelf[q] \cup {k} /\ shelf'[q] # None
      BY <2>2, ListingAssumption DEF IInv, Types
    <3>2. Tells(k)' = current[k] /\ current[k] # None
      BY <2>2, <3>1, ListingAssumption DEF Tells, Offered, IInv, Types
    <3> QED BY <1>1, <3>2
  <2>3. ASSUME shelf[q] # None, k \in shelf[q]
        PROVE  told[k] \ {None} # {}
    <3>1. Tells(k) = current[k] /\ current[k] # None
      BY <2>3, ListingAssumption DEF Tells, Offered, IInv, Types
    <3> QED BY <1>1, <3>1 DEF IInv, OnRecord
  <2>4. CASE ahead' \subseteq ahead
    BY <1>1, <2>1, <2>4 DEF AheadOK
  <2>5. CASE ahead' = ahead \cup {k}
    <3>1. CASE k \in ahead
      BY <2>4, <2>5, <3>1
    <3>2. CASE k \notin ahead
      <4>1. shelf[q] # None /\ UNCHANGED current
            /\ shelf' = [shelf EXCEPT ![q] = IF k \in @ THEN @ \ {k} ELSE @ \cup {k}]
        BY <2>5, <3>2 DEF ChangeFormulas
      <4>2. told'[k] \ {None} # {}
        <5>1. CASE k \in shelf[q]
          BY <4>1, <5>1, <2>3, <1>1
        <5>2. CASE k \notin shelf[q]
          BY <2>5, <4>1, <5>2, <2>2 DEF IInv, Types
        <5> QED BY <5>1, <5>2
      <4> QED BY <1>1, <2>1, <2>5, <4>2 DEF AheadOK
    <3> QED BY <3>1, <3>2
  <2> QED BY <2>4, <2>5 DEF ChangeFormulas, Turns
<1>8. \A j \in Package : had[j] \subseteq had'[j] /\ told[j] \subseteq told'[j]
  BY <1>1
<1>9. Phase' /\ GotOK' /\ LinesOK' /\ EarlyEndHasCause'
  BY <1>1, <1>8, RecordGrows
<1>10. FoundOK'
  <2>1. gone' = gone \cup (OnShelf \ OnShelf') \cup (IF shelf'[q] = None THEN {<<q, None>>} ELSE {})
    BY DEF ChangeFormulas
  <2>2. pc = "formula" => <<repo, at>> \in OnShelf' \cup gone'
    BY <2>1 DEF IInv, FoundOK
  <2>3. pc = "shelf" => shelf'[repo] # None \/ <<repo, None>> \in gone'
    <3>1. CASE repo = q
      BY <2>1, <3>1
    <3>2. CASE repo # q /\ pc = "shelf"
      <4>1. shelf'[repo] = shelf[repo]
        BY <3>2 DEF ChangeFormulas, IInv, Types, FoundOK
      <4> QED BY <2>1, <3>2, <4>1 DEF IInv, FoundOK
    <3> QED BY <3>1, <3>2
  <2> QED BY <1>1, <2>2, <2>3 DEF IInv, FoundOK
<1> QED BY <1>5, <1>6, <1>7, <1>9, <1>10 DEF IInv

\* A config file that goes away is on record, and so is what may be found of it.
LEMMA ChangeConfigKeepsIInv ==
  ASSUME IInv, NEW q \in Repo, ChangeConfig(q)
  PROVE  IInv'
<1>1. /\ Running /\ pc # "idle"
      /\ UNCHANGED <<installed, current, shelf, command, pc, ahead, queue, listed, repo, at, got,
                     lines, result, had, told, gone>>
  BY DEF ChangeConfig, Running, scan
<1>2. Types' /\ AheadOK'
  BY <1>1 DEF IInv, Types, AheadOK
<1>3. OnRecord'
  BY <1>1 DEF ChangeConfig, IInv, OnRecord, Tells, Offered
<1>4. FoundOK'
  <2>1. configured \cup unlisted \subseteq configured' \cup unlisted'
    BY DEF ChangeConfig
  <2> QED BY <1>1, <2>1 DEF IInv, FoundOK, OnShelf
<1>5. Phase' /\ GotOK' /\ LinesOK' /\ EarlyEndHasCause'
  BY <1>1, RecordGrows
<1> QED BY <1>2, <1>3, <1>4, <1>5 DEF IInv

-----------------------------------------------------------------------------
(***************************************************************************)
(* The theorems.                                                           *)
(***************************************************************************)
LEMMA InitMeetsIInv ==
  ASSUME Init
  PROVE  IInv
BY DEF Init, IInv, Types, Build, Phase, AboutOne, LookupSteps, InLookup, AtOne, OnRecord, GotOK,
       AheadOK, FoundOK, LinesOK, EarlyEndHasCause

LEMMA StutterKeepsIInv ==
  ASSUME IInv, UNCHANGED vars
  PROVE  IInv'
<1> USE DEF vars
<1>1. Types' /\ Phase' /\ GotOK' /\ AheadOK'
  BY DEF IInv, Types, Phase, InLookup, AtOne, GotOK, AheadOK
<1>2. OnRecord' /\ FoundOK'
  BY DEF IInv, OnRecord, Tells, Offered, FoundOK, OnShelf
<1>3. LinesOK' /\ EarlyEndHasCause'
  BY LinesStay DEF IInv, EarlyEndHasCause
<1> QED BY <1>1, <1>2, <1>3 DEF IInv

LEMMA Inductive == Spec => []IInv
<1>1. Init => IInv
  BY InitMeetsIInv
<1>2. ASSUME IInv, [Next]_vars
      PROVE  IInv'
  BY <1>2, StepKeepsIInv, BeginKeepsIInv, ChangeIndexKeepsIInv, ChangeFormulasKeepsIInv,
     ChangeConfigKeepsIInv, StutterKeepsIInv DEF Next, Command
<1> QED BY <1>1, <1>2, PTL DEF Spec

\* Whatever the others install, remove and sync while a command looks: what it
\* prints of a package was so at some time since it began.
THEOREM NothingIsInvented == Spec => []NothingInvented
<1>1. ASSUME IInv
      PROVE  NothingInvented
  BY <1>1 DEF IInv, LinesOK, LineOK, NothingInvented
<1> QED BY <1>1, Inductive, PTL

\* A command that ends with an error has a reason: for the names of formulas a name in
\* repos.d without a config file, or a formula directory that went away; else the package
\* it ended at, which was not installed at some time of the command or whose receipt
\* cannot be read.  A crash takes a config file that went away.
THEOREM EarlyEndsHaveCauses == Spec => []EarlyEndHasCause
<1>1. IInv => EarlyEndHasCause
  BY DEF IInv
<1> QED BY <1>1, Inductive, PTL

-----------------------------------------------------------------------------
(***************************************************************************)
(* Nothing is missed: what has its turn still ahead is on no line yet, and *)
(* what has had it is on as many as it is due (ScanOK); a lookup has not   *)
(* gone past a repository that offers the formula all the time (LookupOK); *)
(* for formulas the lines are counted against the repositories that have   *)
(* been come to (NamesOK).                                                 *)
(***************************************************************************)
\* The names of a scan that it is still to come to, or is at.
Awaited(k) == pc = "open" \/ k \in ahead \/ (AtOne /\ at = k)

\* The listing has told of k what it is to tell.
Served(k) ==
  IF command = "ls_outdated"
    THEN /\ OutdatedAllAlong(k) /\ Undisturbed(k) => Times(k) = 1
         /\ UpToDateAllAlong(k) => Times(k) = 0
    ELSE Times(k) = 1

\* What the others have left alone is listed when its turn has come, and not before.
ScanOf(k) ==
  None \notin had[k] =>
    /\ had[k] = {installed[k]}
    /\ Awaited(k) => Times(k) = 0 /\ ~(k \in ahead /\ AtOne /\ at = k)
    /\ ~Awaited(k) /\ result \in {"none", "ok"} => Served(k)

ScanOK ==
  pc # "idle" /\ command \in Scans =>
    /\ result = "ok" => ahead = {}
    /\ \A k \in Package : ScanOf(k)

\* The repositories that a lookup, or a listing of names, has still to come to, or is at.
Coming(q) == pc = "repos" \/ q \in queue \/ q \in listed \/ (pc \in {"config", "shelf"} /\ repo = q)

\* A repository that has had the formula all the time is not gone past without it.
LookupOK ==
  /\ pc # "idle" => stood \subseteq OnOffer
  /\ pc \in {"locate", "formula", "shelves", "shelf", "names"} => queue = {}
  /\ InLookup /\ pc # "formula" => \A q \in Repo : <<q, at>> \in stood => Coming(q)

\* The repositories whose formula k has been come to.
Passed(k) == {q \in Repo : /\ <<q, k>> \in stood /\ ~Coming(q)
                           /\ ~(pc = "names" /\ repo = q /\ k \in ahead)}

NamesOK ==
  pc # "idle" /\ command \in Names =>
    /\ result = "ok" => queue = {} /\ listed = {}
    /\ \A k \in Package : PackageNameFilter(k) => Times(k) >= Cardinality(Passed(k))

MissedInv == IInv /\ ScanOK /\ LookupOK /\ NamesOK

\* The lines about a package, counted.
LEMMA LinesAreCounted ==
  ASSUME Types, NEW k
  PROVE  /\ IsFiniteSet({i \in DOMAIN lines : lines[i].pkg = k})
         /\ Times(k) \in Nat /\ (lines = <<>> => Times(k) = 0)
<1> DEFINE L == {i \in DOMAIN lines : lines[i].pkg = k}
<1>1. Len(lines) \in Nat /\ DOMAIN lines = 1 .. Len(lines)
  BY DEF Types
<1>2. IsFiniteSet(1 .. Len(lines))
  BY <1>1, FS_Interval
<1>3. IsFiniteSet(L)
  BY <1>1, <1>2, FS_Subset
<1>4. Cardinality(L) \in Nat
  BY <1>3, FS_CardinalityType
<1>5. lines = <<>> => L = {}
  BY <1>1
<1>6. lines = <<>> => Cardinality(L) = 0
  BY <1>5, FS_EmptySet
<1> QED BY <1>3, <1>4, <1>6 DEF Times

LEMMA LineIsCounted ==
  ASSUME Types, NEW line \in Printed, lines' = Append(lines, line), NEW k
  PROVE  Times(k)' = IF line.pkg = k THEN Times(k) + 1 ELSE Times(k)
<1> DEFINE L == {i \in DOMAIN lines : lines[i].pkg = k}
           M == {i \in DOMAIN lines' : lines'[i].pkg = k}
           n == Len(lines) + 1
<1>1. /\ Len(lines) \in Nat /\ DOMAIN lines = 1 .. Len(lines) /\ DOMAIN lines' = 1 .. n
      /\ lines'[n] = line /\ \A i \in 1 .. Len(lines) : lines'[i] = lines[i]
  BY DEF Types
<1>2. \A i \in 1 .. n : i \in 1 .. Len(lines) \/ i = n
  BY <1>1
<1>3. n \notin L /\ n \in 1 .. n /\ \A i \in 1 .. Len(lines) : i \in 1 .. n
  BY <1>1
<1>4. M = IF line.pkg = k THEN L \cup {n} ELSE L
  BY <1>1, <1>2, <1>3
<1>5. IsFiniteSet(L)
  BY LinesAreCounted
<1>6. Cardinality(L \cup {n}) = Cardinality(L) + 1
  BY <1>3, <1>5, FS_AddElement
<1>7. Times(k) = Cardinality(L) /\ Times(k)' = Cardinality(M)
  BY DEF Times
<1> QED BY <1>4, <1>6, <1>7

\* Nothing but what was at hand is told of a package.
LEMMA OneWasTold ==
  ASSUME IInv, pc # "idle", NEW k \in Package, Cardinality(told[k]) = 1
  PROVE  told[k] = {Tells(k)}
<1>1. IsFiniteSet(Build)
  <2>1. IsFiniteSet(1 .. MaxRev)
    BY ListingAssumption, FS_Interval
  <2> QED BY <2>1, FS_AddElement DEF Build, Revision
<1>2. told[k] \subseteq Build /\ Tells(k) \in told[k]
  BY DEF IInv, Types, OnRecord
<1>3. IsFiniteSet(told[k])
  BY <1>1, <1>2, FS_Subset
<1>4. PICK x : told[k] = {x}
  BY <1>3, FS_Singleton
<1> QED BY <1>2, <1>4

-----------------------------------------------------------------------------
(***************************************************************************)
(* The steps of a scan.                                                    *)
(***************************************************************************)
\* What a step leaves alone when it prints nothing.
LEMMA ServedStays ==
  ASSUME NEW k, UNCHANGED <<had, told, stood, gone, unlisted, bare, command, lines>>
  PROVE  Times(k)' = Times(k) /\ Served(k)' = Served(k)
<1>1. Times(k)' = Times(k)
  BY DEF Times
<1>2. /\ OutdatedAllAlong(k)' = OutdatedAllAlong(k)
      /\ UpToDateAllAlong(k)' = UpToDateAllAlong(k)
      /\ Undisturbed(k)' = Undisturbed(k)
  BY DEF OutdatedAllAlong, UpToDateAllAlong, Undisturbed
<1> QED BY <1>1, <1>2 DEF Served

\* A step that goes on at the same package, or that ends the command there.
LEMMA GoesOnThere ==
  ASSUME IInv, ScanOK, command \in Scans, AtOne,
         UNCHANGED <<installed, had, told, stood, gone, unlisted, bare, command, ahead, at,
                     lines>>,
         \/ pc' \in AboutOne /\ result' = result
         \/ InLookup' /\ result' = result
         \/ pc' = "done" /\ result' \notin {"none", "ok"}
  PROVE  ScanOK'
<1>1. /\ at \in Package /\ pc # "idle" /\ result = "none"
      /\ pc # "open" /\ pc' # "open" /\ (pc' = "done" => ~AtOne')
  BY DEF IInv, Phase, AtOne, AboutOne, InLookup, LookupSteps
<1> SUFFICES ASSUME NEW k \in Package
             PROVE  ScanOf(k)'
  BY <1>1 DEF ScanOK
<1>2. ScanOf(k)
  BY <1>1 DEF ScanOK
<1>3. Times(k)' = Times(k) /\ Served(k)' = Served(k)
  BY ServedStays
<1>4. CASE AtOne' /\ result' = result
  BY <1>1, <1>2, <1>3, <1>4 DEF ScanOf, Awaited
<1>5. CASE pc' = "done" /\ result' \notin {"none", "ok"}
  BY <1>1, <1>2, <1>3, <1>5 DEF ScanOf, Awaited
<1> QED BY <1>4, <1>5 DEF AtOne

\* A step that leaves the package without a line.
LEMMA LeavesThere ==
  ASSUME IInv, ScanOK, command \in Scans, AtOne,
         UNCHANGED <<installed, had, told, stood, gone, unlisted, bare, command, ahead, at,
                     lines, result>>,
         pc' = "entries",
         \/ None \in had[at]
         \/ /\ command = "ls_outdated"
            /\ had[at] = {installed[at]} => ~(OutdatedAllAlong(at) /\ Undisturbed(at))
  PROVE  ScanOK'
<1>1. /\ at \in Package /\ pc # "idle" /\ result = "none"
      /\ pc # "open" /\ pc' # "open" /\ ~AtOne'
  BY DEF IInv, Phase, AtOne, AboutOne, InLookup, LookupSteps
<1> SUFFICES ASSUME NEW k \in Package
             PROVE  ScanOf(k)'
  BY <1>1 DEF ScanOK
<1>2. ScanOf(k)
  BY <1>1 DEF ScanOK
<1>3. Times(k)' = Times(k) /\ Served(k)' = Served(k)
  BY ServedStays
<1>4. CASE k # at
  BY <1>1, <1>2, <1>3, <1>4 DEF ScanOf, Awaited
<1>5. CASE k = at
  <2>1. CASE None \in had[at]
    BY <1>5, <2>1 DEF ScanOf
  <2>2. CASE None \notin had[at]
    <3>1. had[at] = {installed[at]} /\ Times(at) = 0 /\ at \notin ahead
      BY <1>1, <1>2, <1>5, <2>2 DEF ScanOf, Awaited
    <3>2. Served(at)
      BY <2>2, <3>1 DEF Served
    <3> QED BY <1>1, <1>3, <1>5, <3>1, <3>2 DEF ScanOf, Awaited
  <2> QED BY <2>1, <2>2
<1> QED BY <1>4, <1>5

\* A line is about the package it is at.
LEMMA ShowsThere ==
  ASSUME IInv, ScanOK, command \in Scans, AtOne, NEW line \in Printed, line.pkg = at,
         UNCHANGED <<installed, had, told, stood, gone, unlisted, bare, command, ahead, at>>,
         Show(line),
         command = "ls_outdated" /\ had[at] = {installed[at]} => ~UpToDateAllAlong(at)
  PROVE  ScanOK'
<1>1. lines' = Append(lines, line) /\ pc' = "entries" /\ result' = result
  BY DEF Show, Scans, Names, Infos
<1>2. /\ at \in Package /\ pc # "idle" /\ result = "none"
      /\ pc # "open" /\ pc' # "open" /\ ~AtOne'
  BY <1>1 DEF IInv, Phase, AtOne, AboutOne, InLookup, LookupSteps
<1> SUFFICES ASSUME NEW k \in Package
             PROVE  ScanOf(k)'
  BY <1>1, <1>2 DEF ScanOK
<1>3. ScanOf(k)
  BY <1>2 DEF ScanOK
<1>4. Times(k)' = IF at = k THEN Times(k) + 1 ELSE Times(k)
  BY <1>1, LineIsCounted DEF IInv
<1>5. /\ OutdatedAllAlong(k)' = OutdatedAllAlong(k)
      /\ UpToDateAllAlong(k)' = UpToDateAllAlong(k)
      /\ Undisturbed(k)' = Undisturbed(k)
  BY DEF OutdatedAllAlong, UpToDateAllAlong, Undisturbed
<1>6. CASE k # at
  <2>1. Times(k)' = Times(k)
    BY <1>4, <1>6
  <2>2. Served(k)' = Served(k)
    BY <1>5, <2>1 DEF Served
  <2> QED BY <1>1, <1>2, <1>3, <1>6, <2>1, <2>2 DEF ScanOf, Awaited
<1>7. CASE k = at
  <2>1. CASE None \in had[at]
    BY <1>7, <2>1 DEF ScanOf
  <2>2. CASE None \notin had[at]
    <3>1. had[at] = {installed[at]} /\ Times(at) = 0 /\ at \notin ahead
      BY <1>2, <1>3, <1>7, <2>2 DEF ScanOf, Awaited
    <3>2. Times(at)' = 1
      BY <1>4, <1>7, <3>1
    <3>3. Served(at)'
      BY <1>5, <1>7, <3>1, <3>2 DEF Served
    <3> QED BY <1>1, <1>2, <1>3, <1>7, <3>1, <3>3 DEF ScanOf, Awaited
  <2> QED BY <2>1, <2>2
<1> QED BY <1>6, <1>7

LEMMA OpenKeepsScan ==
  ASSUME IInv, ScanOK, OpenInstalled
  PROVE  ScanOK'
<1>1. /\ UNCHANGED <<installed, had, told, command, at, lines, result>>
      /\ pc = "open" /\ pc' = "entries" /\ command \in Scans
      /\ ahead' = {k \in Package : installed[k] # None} /\ result = "none"
  BY DEF OpenInstalled, Goto, IInv, Phase, index, history
<1> SUFFICES ASSUME NEW k \in Package, None \notin had[k]
             PROVE  ScanOf(k)'
  BY <1>1 DEF ScanOK, ScanOf
<1>2. had[k] = {installed[k]} /\ Times(k) = 0
  BY <1>1 DEF ScanOK, ScanOf, Awaited
<1>3. Times(k)' = Times(k)
  BY <1>1 DEF Times
<1>4. k \in ahead'
  BY <1>1, <1>2
<1>5. Awaited(k)' /\ ~AtOne'
  BY <1>1, <1>4 DEF Awaited, AtOne, AboutOne, InLookup, LookupSteps
<1> QED BY <1>1, <1>2, <1>3, <1>5 DEF ScanOf

LEMMA EntryKeepsScan ==
  ASSUME IInv, ScanOK, ReadEntry
  PROVE  ScanOK'
<1>1. /\ UNCHANGED <<installed, had, told, stood, gone, unlisted, bare, command, lines>>
      /\ pc = "entries" /\ command \in Scans
      /\ result' = "ok" => ahead' = {}
  BY DEF ReadEntry, Goto, Return, IInv, Phase, index, history
<1> SUFFICES ASSUME NEW k \in Package
             PROVE  ScanOf(k)'
  BY <1>1 DEF ScanOK
<1>2. ScanOf(k)
  BY <1>1 DEF ScanOK
<1>3. Times(k)' = Times(k) /\ Served(k)' = Served(k)
  BY <1>1, ServedStays
<1>4. ~AtOne /\ (Awaited(k) <=> k \in ahead)
  BY <1>1 DEF Awaited, AtOne, AboutOne, InLookup, LookupSteps
<1>5. CASE ahead = {} /\ Return("ok") /\ UNCHANGED <<ahead, at>>
  <2>1. pc' = "done" /\ ahead' = ahead
    BY <1>5 DEF Return
  <2>2. result \in {"none", "ok"} /\ ~Awaited(k) /\ ~Awaited(k)'
    BY <1>1, <1>4, <1>5, <2>1 DEF Awaited, AtOne, AboutOne, InLookup, LookupSteps, IInv, Phase
  <2> QED BY <1>1, <1>2, <1>3, <2>2 DEF ScanOf
<1>6. ASSUME NEW j \in ahead, at' = j, ahead' = ahead \ {j}, Goto("lstat")
      PROVE  ScanOf(k)'
  <2>1. pc' = "lstat" /\ result' = result
    BY <1>6 DEF Goto
  <2>2. Awaited(k)' <=> k \in ahead
    BY <1>6, <2>1 DEF Awaited, AtOne, AboutOne
  <2>3. ~(k \in ahead' /\ at' = k)
    BY <1>6
  <2> QED BY <1>1, <1>2, <1>3, <1>4, <2>1, <2>2, <2>3 DEF ScanOf
<1> QED BY <1>5, <1>6 DEF ReadEntry

\* A lookup that finds nothing, or that fails, has been disturbed.
LEMMA LookupKeepsScan ==
  ASSUME IInv, ScanOK, LookupOK, command = "ls_outdated", Step, pc \in LookupSteps
  PROVE  ScanOK'
<1>1. /\ UNCHANGED <<installed, shelf, current, had, told, stood, gone, unlisted, bare, command,
                     ahead, at, got>>
      /\ result = "none" /\ pc # "idle" /\ at \in Package
      /\ command \in Scans /\ command \notin Names /\ InLookup /\ AtOne
  <2>1. InLookup /\ AtOne /\ command \in Scans /\ command \notin Names
    BY DEF InLookup, AtOne, Scans, Names
  <2>2. at \in Package
    BY <2>1 DEF IInv, Phase
  <2>3. UNCHANGED <<ahead, at, got>>
    BY DEF LookupSteps, Step, OpenInstalled, ReadEntry, CheckEntry, CheckReceipt, StatDir,
           StatReceipt, ReadReceipt, StatManifest, ReadManifest, ListRepos, ReadRepo, ParseConfig,
           Locate, ReadFormula, VisitShelf, OpenShelf, ReadName, scan
  <2> QED BY <2>1, <2>2, <2>3, StepKeepsRecord
<1>2. got \in had[at] \ {None} /\ had[at] \subseteq Build
  BY <1>1 DEF IInv, GotOK, Types
<1>3. ASSUME NEW step \in LookupSteps, Goto(step)
      PROVE  ScanOK'
  <2>1. InLookup' /\ result' = result /\ lines' = lines
    BY <1>1, <1>3 DEF Goto, InLookup
  <2> QED BY <1>1, <2>1, GoesOnThere
<1>4. ASSUME Goto("entries"),
             had[at] = {installed[at]} => ~(OutdatedAllAlong(at) /\ Undisturbed(at))
      PROVE  ScanOK'
  BY <1>1, <1>4, LeavesThere DEF Goto
<1>5. LookupFails => Goto("entries")
  BY <1>1, FailedLookup
<1>6. CASE ListRepos
  BY <1>3, <1>6 DEF ListRepos, LookupSteps
<1>7. CASE ReadRepo
  <2>1. ASSUME NEW q \in queue, q \notin configured, LookupFails
        PROVE  ScanOK'
    <3>1. q \in Repo /\ q \in bare
      BY <1>1, <2>1 DEF IInv, Types, OnRecord
    <3> QED BY <3>1, <2>1, <1>4, <1>5 DEF Undisturbed
  <2> QED BY <1>1, <1>3, <1>7, <2>1 DEF ReadRepo, LookupSteps
<1>8. CASE ParseConfig
  <2>1. CASE repo \in configured
    BY <1>3, <1>8, <2>1 DEF ParseConfig, LookupSteps
  <2>2. CASE Return("crash")
    BY <1>1, <2>2, GoesOnThere DEF Return
  <2>3. CASE repo \notin configured /\ LookupFails
    <3>1. repo \in Repo /\ repo \in bare
      BY <1>1, <1>8, <2>3 DEF IInv, FoundOK, OnRecord, ParseConfig
    <3> QED BY <3>1, <2>3, <1>4, <1>5 DEF Undisturbed
  <2> QED BY <1>8, <2>1, <2>2, <2>3 DEF ParseConfig
<1>9. CASE Locate
  <2>1. CASE listed = {} /\ LookupFails
    <3>1. \A q \in Repo : <<q, at>> \notin stood
      BY <1>1, <1>9, <2>1 DEF LookupOK, Coming, Locate
    <3> QED BY <2>1, <3>1, <1>4, <1>5 DEF Undisturbed
  <2> QED BY <1>3, <1>9, <2>1 DEF Locate, LookupSteps
<1>10. CASE ReadFormula
  <2>1. repo \in Repo /\ <<repo, at>> \in OnShelf \cup gone
    BY <1>10 DEF ReadFormula, IInv, FoundOK
  <2>2. current[at] # None /\ current[at] \in Build
    BY <1>1, ListingAssumption DEF IInv, Types, Build
  <2>3. <<repo, at>> \in OnShelf => Tells(at) = current[at] /\ current[at] \in told[at]
    BY <1>1, <2>1 DEF OnShelf, Tells, Offered, IInv, OnRecord
  <2>4. CASE <<repo, at>> \notin OnShelf /\ LookupFails
    BY <1>4, <1>5, <2>1, <2>4 DEF Undisturbed
  <2>5. ASSUME <<repo, at>> \in OnShelf, OutdatedAllAlong(at)
        PROVE  <<at, current[at]>> \notin Malformed /\ told[at] = {current[at]}
    <3>1. told[at] = {current[at]}
      BY <1>1, <2>3, <2>5, OneWasTold DEF OutdatedAllAlong
    <3> QED BY <2>5, <3>1 DEF OutdatedAllAlong
  <2>6. CASE <<repo, at>> \in OnShelf /\ <<at, current[at]>> \in Malformed /\ LookupFails
    BY <1>4, <1>5, <2>5, <2>6
  <2>7. CASE <<repo, at>> \in OnShelf /\ current[at] = got /\ Goto("entries")
    <3>1. had[at] = {installed[at]} => ~OutdatedAllAlong(at)
      BY <1>2, <2>5, <2>7 DEF OutdatedAllAlong
    <3> QED BY <1>4, <2>7, <3>1
  <2>8. CASE /\ <<repo, at>> \in OnShelf /\ <<at, current[at]>> \notin Malformed
             /\ current[at] # got /\ Show(Line(at, got, current[at]))
    <3>1. had[at] = {installed[at]} => ~UpToDateAllAlong(at)
      BY <1>2, <2>2, <2>3, <2>8 DEF UpToDateAllAlong
    <3>2. Line(at, got, current[at]) \in Printed /\ Line(at, got, current[at]).pkg = at
      BY <1>1, <1>2, <2>2 DEF Line, Printed
    <3> QED BY <1>1, <2>8, <3>1, <3>2, ShowsThere
  <2> QED BY <1>10, <2>4, <2>6, <2>7, <2>8 DEF ReadFormula
<1> QED
  BY <1>1, <1>6, <1>7, <1>8, <1>9, <1>10
  DEF Step, OpenInstalled, ReadEntry, CheckEntry, CheckReceipt, StatDir, StatReceipt, ReadReceipt,
      StatManifest, ReadManifest, VisitShelf, OpenShelf, ReadName, LookupSteps

LEMMA StepKeepsScan ==
  ASSUME IInv, ScanOK, LookupOK, Step
  PROVE  ScanOK'
<1>1. /\ UNCHANGED <<installed, had, told, stood, gone, unlisted, bare, command>>
      /\ pc # "idle" /\ result = "none"
  BY StepKeepsRecord
<1>2. CASE command \notin Scans
  BY <1>1, <1>2 DEF ScanOK
<1> SUFFICES ASSUME command \in Scans
             PROVE  ScanOK'
  BY <1>2
<1>3. CASE pc \in AboutOne
  <2>1. UNCHANGED <<ahead, at>> /\ at \in Package /\ AtOne
    BY <1>3
    DEF IInv, Phase, AtOne, Step, OpenInstalled, ReadEntry, CheckEntry, CheckReceipt, StatDir,
        StatReceipt, ReadReceipt, StatManifest, ReadManifest, ListRepos, ReadRepo, ParseConfig,
        Locate, ReadFormula, VisitShelf, OpenShelf, ReadName, scan, AboutOne
  <2>2. installed[at] \in had[at] /\ installed[at] \in Build
    BY <1>1, <2>1 DEF IInv, OnRecord, Types
  <2>3. ASSUME NEW step \in AboutOne, Goto(step)
        PROVE  ScanOK'
    BY <1>1, <1>3, <2>1, <2>3, GoesOnThere DEF Goto
  <2>4. ASSUME NEW r \in {"not_installed", "broken", "error"}, Return(r)
        PROVE  ScanOK'
    BY <1>1, <1>3, <2>1, <2>4, GoesOnThere DEF Return
  <2>5. ASSUME Goto("entries"), installed[at] = None
        PROVE  ScanOK'
    BY <1>1, <1>3, <2>1, <2>2, <2>5, LeavesThere DEF Goto
  <2>6. ASSUME Show(Line(at, installed[at], None)), command # "ls_outdated"
        PROVE  ScanOK'
    <3>1. Line(at, installed[at], None) \in Printed /\ Line(at, installed[at], None).pkg = at
      BY <2>1, <2>2 DEF Line, Build, Printed
    <3> QED BY <1>1, <1>3, <2>1, <2>6, <3>1, ShowsThere
  <2>7. CASE CheckEntry
    BY <2>3, <2>5, <2>7 DEF CheckEntry, AboutOne
  <2>8. CASE CheckReceipt
    BY <2>3, <2>5, <2>6, <2>8 DEF CheckReceipt, AboutOne
  <2>9. CASE StatDir
    BY <2>3, <2>4, <2>9 DEF StatDir, AboutOne
  <2>10. CASE StatReceipt
    <3>1. command \notin {"prefix", "files"}
      BY DEF Scans
    <3> QED BY <2>3, <2>4, <2>10, <3>1 DEF StatReceipt, AboutOne
  <2>11. CASE ReadReceipt
    <3>1. /\ command # "field" /\ (command \in AsText => command # "ls_outdated")
          /\ command \notin AsText => command = "ls_outdated"
      BY <2>11 DEF ReadReceipt, IInv, Phase, Scans, AsText
    <3>2. \/ Return("error") \/ (command \notin AsText /\ Goto("repos"))
          \/ command \in AsText /\ Show(Line(at, installed[at], None))
      BY <2>11, <3>1 DEF ReadReceipt
    <3>3. ASSUME command = "ls_outdated", Goto("repos")
          PROVE  ScanOK'
      <4>1. InLookup' /\ result' = result /\ lines' = lines
        BY <1>1, <3>3 DEF Goto, InLookup, LookupSteps
      <4> QED BY <1>1, <2>1, <4>1, GoesOnThere
    <3> QED BY <2>4, <2>6, <3>1, <3>2, <3>3
  <2>12. ~StatManifest /\ ~ReadManifest
    BY DEF StatManifest, ReadManifest, IInv, Phase, Scans
  <2> QED
    BY <1>3, <2>7, <2>8, <2>9, <2>10, <2>11, <2>12
    DEF Step, OpenInstalled, ReadEntry, ListRepos, ReadRepo, ParseConfig, Locate, ReadFormula,
        VisitShelf, OpenShelf, ReadName, AboutOne
<1>4. CASE pc \in LookupSteps
  <2>1. command = "ls_outdated"
    BY <1>1, <1>4 DEF IInv, Phase, Scans, Names
  <2> QED BY <1>4, <2>1, LookupKeepsScan
<1>5. CASE pc \notin AboutOne \cup LookupSteps
  <2>1. OpenInstalled \/ ReadEntry
    BY <1>5
    DEF IInv, Phase, Step, CheckEntry, CheckReceipt, StatDir, StatReceipt, ReadReceipt,
        StatManifest, ReadManifest, ListRepos, ReadRepo, ParseConfig, Locate, ReadFormula,
        VisitShelf, OpenShelf, ReadName, AboutOne, LookupSteps, Scans, Names
  <2> QED BY <2>1, OpenKeepsScan, EntryKeepsScan
<1> QED BY <1>3, <1>4, <1>5

\* The walk goes on only past a repository that does not offer the formula all the time.
LEMMA StepKeepsLookup ==
  ASSUME IInv, LookupOK, Step
  PROVE  LookupOK'
<1>1. /\ UNCHANGED <<shelf, configured, stood, command>>
      /\ pc # "idle" /\ stood \subseteq OnOffer
  BY StepKeepsRecord DEF LookupOK
<1>2. stood' \subseteq OnOffer'
  BY <1>1 DEF OnOffer, OnShelf
<1>3. ASSUME NEW q \in Repo, NEW k, <<q, k>> \in stood
      PROVE  q \in configured /\ <<q, k>> \in OnShelf /\ shelf[q] # None
  BY <1>1, <1>3 DEF OnOffer, OnShelf
<1>4. pc' \in {"locate", "formula", "shelves", "shelf", "names"} => queue' = {}
  <2>1. CASE ReadRepo
    BY <2>1 DEF ReadRepo, LookupFails, Goto, Return
  <2>2. CASE pc \in {"locate", "formula", "shelves", "shelf", "names"}
    BY <2>2
    DEF LookupOK, Step, OpenInstalled, ReadEntry, CheckEntry, CheckReceipt, StatDir, StatReceipt,
        ReadReceipt, StatManifest, ReadManifest, ListRepos, ReadRepo, ParseConfig, Locate,
        ReadFormula, VisitShelf, OpenShelf, ReadName, scan
  <2>3. CASE pc \notin {"locate", "formula", "shelves", "shelf", "names"} /\ ~ReadRepo
    <3>1. pc' \notin {"locate", "formula", "shelves", "shelf", "names"}
      BY <1>1, <2>3
      DEF IInv, Phase, Step, OpenInstalled, ReadEntry, CheckEntry, CheckReceipt, StatDir,
          StatReceipt, ReadReceipt, StatManifest, ReadManifest, ListRepos, ParseConfig, Locate,
          ReadFormula, VisitShelf, OpenShelf, ReadName, LookupFails, Goto, Return, Show,
          Scans, Names, Infos, AsText
    <3> QED BY <3>1
  <2> QED BY <2>1, <2>2, <2>3
<1>5. ASSUME InLookup', pc' # "formula", NEW q \in Repo, <<q, at'>> \in stood'
      PROVE  Coming(q)'
  <2>1. command = "ls_outdated" /\ pc' \in LookupSteps \ {"formula"}
    BY <1>1, <1>5 DEF InLookup
  <2>2. CASE ReadReceipt
    BY <2>1, <2>2 DEF ReadReceipt, Goto, Return, Show, LookupSteps, Coming, Infos, Names
  <2>3. CASE ~ReadReceipt
    <3>1. /\ pc \in LookupSteps \ {"formula"} /\ at' = at
          /\ ListRepos \/ ReadRepo \/ ParseConfig \/ Locate
      BY <2>1, <2>3
      DEF LookupSteps, IInv, Phase, Step, OpenInstalled, ReadEntry, CheckEntry, CheckReceipt,
          StatDir, StatReceipt, StatManifest, ReadManifest, ListRepos, ReadRepo, ParseConfig,
          Locate, ReadFormula, VisitShelf, OpenShelf, ReadName, LookupFails, Goto, Return, Show,
          Infos, Names
    <3>2. Coming(q) /\ q \in configured /\ <<q, at>> \in OnShelf
      BY <1>1, <1>3, <1>5, <2>1, <3>1 DEF LookupOK, InLookup
    <3>3. CASE ListRepos
      BY <3>3 DEF ListRepos, Coming
    <3>4. CASE ReadRepo
      BY <2>1, <3>2, <3>4, FailedLookup DEF ReadRepo, Goto, Return, Coming, LookupSteps
    <3>5. CASE ParseConfig
      BY <2>1, <3>2, <3>5, FailedLookup DEF ParseConfig, Goto, Return, Coming, LookupSteps
    <3>6. CASE Locate
      BY <2>1, <3>2, <3>6, FailedLookup, <1>5 DEF Locate, Goto, Return, Coming, LookupSteps
    <3> QED BY <3>1, <3>3, <3>4, <3>5, <3>6
  <2> QED BY <2>2, <2>3
<1> QED BY <1>2, <1>4, <1>5 DEF LookupOK

-----------------------------------------------------------------------------
(***************************************************************************)
(* The names of formulas.                                                  *)
(***************************************************************************)
LEMMA PassedIsFinite ==
  ASSUME NEW S \in SUBSET Repo
  PROVE  IsFiniteSet(S) /\ Cardinality(S) \in Nat
<1>1. IsFiniteSet(S)
  BY ListingAssumption, FS_Subset
<1> QED BY <1>1, FS_CardinalityType

\* What is passed stays counted, and a repository more needs a line more.
LEMMA PassedIsCounted ==
  ASSUME IInv, NamesOK, NEW k \in Package, pc # "idle", command \in Names,
         PackageNameFilter(k),
         \/ Passed(k)' \subseteq Passed(k) /\ Times(k)' = Times(k)
         \/ Passed(k)' \subseteq Passed(k) \cup {repo} /\ Times(k)' = Times(k) + 1
  PROVE  Times(k)' >= Cardinality(Passed(k)')
<1> DEFINE P == Passed(k)
           Q == Passed(k)'
<1>1. P \in SUBSET Repo /\ Q \in SUBSET Repo
  BY DEF Passed
<1>2. /\ IsFiniteSet(P) /\ IsFiniteSet(Q)
      /\ Cardinality(P) \in Nat /\ Cardinality(Q) \in Nat
  BY <1>1, PassedIsFinite
<1>3. Times(k) >= Cardinality(P) /\ Times(k) \in Nat
  BY LinesAreCounted DEF NamesOK, IInv
<1> HIDE DEF P, Q
<1>4. CASE Q \subseteq P /\ Times(k)' = Times(k)
  <2>1. Cardinality(Q) <= Cardinality(P)
    BY <1>2, <1>4, FS_Subset
  <2> QED BY <1>2, <1>3, <1>4, <2>1 DEF Q
<1>5. CASE Q \subseteq P \cup {repo} /\ Times(k)' = Times(k) + 1
  <2>1. /\ IsFiniteSet(P \cup {repo})
        /\ Cardinality(P \cup {repo}) \in {Cardinality(P), Cardinality(P) + 1}
    BY <1>2, FS_AddElement
  <2>2. Cardinality(Q) <= Cardinality(P \cup {repo})
    BY <1>5, <2>1, FS_Subset
  <2> QED BY <1>2, <1>3, <1>5, <2>1, <2>2 DEF Q
<1> QED BY <1>4, <1>5 DEF P, Q

\* A repository that is not come to although the formula was there all the time would be
\* lost from Passed.
LEMMA StepKeepsNames ==
  ASSUME IInv, LookupOK, NamesOK, Step
  PROVE  NamesOK'
<1>1. UNCHANGED <<shelf, configured, told, command, stood>> /\ pc # "idle" /\ result = "none"
  BY StepKeepsRecord
<1> SUFFICES ASSUME command \in Names
             PROVE  NamesOK'
  BY <1>1 DEF NamesOK
<1>2. /\ ListRepos \/ ReadRepo \/ ParseConfig \/ VisitShelf \/ OpenShelf \/ ReadName
      /\ pc \in {"repos", "repo_names", "config", "shelves", "shelf", "names"}
  BY <1>1
  DEF IInv, Phase, Step, OpenInstalled, ReadEntry, CheckEntry, CheckReceipt, StatDir, StatReceipt,
      ReadReceipt, StatManifest, ReadManifest, ListRepos, ReadRepo, ParseConfig, Locate,
      ReadFormula, VisitShelf, OpenShelf, ReadName, Scans, Names, Infos, AsText
<1>3. LookupFails /\ pc \in LookupSteps => Return("error")
  BY DEF LookupFails
<1>4. result' = "ok" => queue' = {} /\ listed' = {}
  <2>1. CASE VisitShelf
    BY <1>1, <2>1 DEF VisitShelf, LookupOK, Goto, Return
  <2>2. CASE ListRepos \/ ReadRepo \/ ParseConfig \/ OpenShelf \/ ReadName
    BY <1>1, <2>2 DEF ListRepos, ReadRepo, ParseConfig, OpenShelf, ReadName, LookupFails, Goto,
                      Return, Show, Names, Infos
  <2> QED BY <1>2, <2>1, <2>2
<1> SUFFICES ASSUME NEW k \in Package, PackageNameFilter(k)
             PROVE  Times(k)' >= Cardinality(Passed(k)')
  BY <1>1, <1>4 DEF NamesOK, PackageNameFilter
<1>5. \A q \in Repo : <<q, k>> \in stood => q \in configured /\ shelf[q] # None /\ k \in shelf[q]
  BY <1>1 DEF LookupOK, OnOffer, OnShelf
<1>6. ASSUME lines' = lines, Passed(k)' \subseteq Passed(k)
      PROVE  Times(k)' >= Cardinality(Passed(k)')
  <2>1. Times(k)' = Times(k)
    BY <1>6 DEF Times
  <2> QED BY <1>1, <1>6, <2>1, PassedIsCounted
<1>7. CASE ListRepos
  BY <1>1, <1>6, <1>7 DEF ListRepos, Goto, Passed, Coming
<1>8. CASE ReadRepo
  <2>1. Passed(k)' \subseteq Passed(k)
    BY <1>1, <1>3, <1>5, <1>8 DEF ReadRepo, LookupFails, Goto, Return, Passed, Coming,
                                    LookupSteps
  <2> QED BY <1>6, <1>8, <2>1 DEF ReadRepo, LookupFails, Goto, Return
<1>9. CASE ParseConfig
  <2>1. Passed(k)' \subseteq Passed(k)
    BY <1>1, <1>3, <1>5, <1>9 DEF ParseConfig, LookupFails, Goto, Return, Passed, Coming,
                                    LookupSteps
  <2> QED BY <1>6, <1>9, <2>1 DEF ParseConfig, LookupFails, Goto, Return
<1>10. CASE VisitShelf
  <2>1. Passed(k)' \subseteq Passed(k)
    BY <1>1, <1>5, <1>10 DEF VisitShelf, Goto, Return, Passed, Coming
  <2> QED BY <1>6, <1>10, <2>1 DEF VisitShelf, Goto, Return
<1>11. CASE OpenShelf
  <2>1. Passed(k)' \subseteq Passed(k)
    BY <1>1, <1>5, <1>11 DEF OpenShelf, Goto, Return, Passed, Coming
  <2> QED BY <1>6, <1>11, <2>1 DEF OpenShelf, Goto, Return
<1>12. CASE ReadName
  <2>1. pc = "names" /\ UNCHANGED <<queue, listed, repo, stood>>
    BY <1>1, <1>12 DEF ReadName
  <2>2. CASE ahead = {} /\ Goto("shelves")
    <3>1. Passed(k)' \subseteq Passed(k)
      BY <2>1, <2>2 DEF Goto, Passed, Coming
    <3> QED BY <1>6, <2>2, <3>1 DEF Goto
  <2>3. ASSUME NEW j \in ahead, ahead' = ahead \ {j},
               IF PackageNameFilter(j) THEN Show(Line(j, None, None)) ELSE Goto("names")
        PROVE  Times(k)' >= Cardinality(Passed(k)')
    <3>1. pc' = "names" /\ j \in Package
      BY <2>3 DEF Show, Goto, Names, Infos, IInv, AheadOK
    <3>2. Passed(k)' \subseteq IF j = k THEN Passed(k) \cup {repo} ELSE Passed(k)
      BY <2>1, <2>3, <3>1 DEF Passed, Coming
    <3>3. Times(k)' = IF j = k THEN Times(k) + 1 ELSE Times(k)
      <4>1. CASE PackageNameFilter(j)
        <5>1. Line(j, None, None) \in Printed /\ Line(j, None, None).pkg = j
          BY <3>1 DEF Line, Printed, Build
        <5> QED BY <2>3, <4>1, <5>1, LineIsCounted DEF Show, IInv
      <4>2. CASE ~PackageNameFilter(j)
        BY <2>3, <4>2 DEF Goto, Times
      <4> QED BY <4>1, <4>2
    <3> QED BY <2>1, <3>2, <3>3, PassedIsCounted
  <2> QED BY <1>12, <2>2, <2>3 DEF ReadName
<1> QED BY <1>2, <1>7, <1>8, <1>9, <1>10, <1>11, <1>12

-----------------------------------------------------------------------------
(***************************************************************************)
(* The beginning of a command, and the others.                             *)
(***************************************************************************)
LEMMA BeginKeepsMissed ==
  ASSUME MissedInv, NEW k \in Package, NEW c \in Command, Begin(c, k)
  PROVE  ScanOK' /\ LookupOK' /\ NamesOK'
<1>1. /\ pc = "idle" /\ lines = <<>> /\ command' = c /\ result' = "none"
      /\ UNCHANGED <<installed, shelf, configured, lines>>
      /\ had' = [j \in Package |-> {installed[j]}] /\ stood' = OnOffer
  BY DEF Begin, index, scan, MissedInv, IInv, Phase
<1>2. pc' = IF c \in Scans THEN "open" ELSE IF c \in Names THEN "repos" ELSE "stat_dir"
  BY DEF Begin, Command, Scans, Names, Infos
<1>3. \A j \in Package : Times(j)' = 0
  BY <1>1, LinesAreCounted DEF MissedInv, IInv, Times
<1>4. ASSUME c \in Scans, NEW j \in Package
      PROVE  ScanOf(j)'
  <2>1. Awaited(j)' /\ ~AtOne'
    BY <1>1, <1>2, <1>4 DEF Awaited, AtOne, AboutOne, InLookup, LookupSteps
  <2> QED BY <1>1, <1>3, <2>1 DEF ScanOf
<1>5. ScanOK'
  BY <1>1, <1>4 DEF ScanOK
<1>6. LookupOK'
  BY <1>1, <1>2 DEF LookupOK, OnOffer, OnShelf, InLookup, LookupSteps, Names, Coming
<1>7. ASSUME c \in Names, NEW j \in Package
      PROVE  Times(j)' >= Cardinality(Passed(j)')
  <2>1. pc' = "repos"
    BY <1>2, <1>7 DEF Scans, Names
  <2>2. Passed(j)' = {}
    BY <2>1 DEF Passed, Coming
  <2> QED BY <1>3, <2>2, FS_EmptySet
<1> QED BY <1>1, <1>5, <1>6, <1>7 DEF NamesOK

\* A package that comes or goes has not been there all the time; the turn of the
\* others stays what it was.
LEMMA ChangeIndexKeepsMissed ==
  ASSUME MissedInv, NEW k \in Package, ChangeIndex(k)
  PROVE  ScanOK' /\ LookupOK' /\ NamesOK'
<1>1. /\ pc # "idle" /\ result = "none"
      /\ UNCHANGED <<shelf, configured, told, queue, listed, repo, command, pc, at, lines, result,
                     stood, gone, unlisted, bare>>
      /\ ahead' \in Turns(command \in Scans /\ pc # "open", k)
      /\ \A j \in Package \ {k} : j \in ahead' <=> j \in ahead
      /\ had' = [had EXCEPT ![k] = @ \cup {installed'[k]}]
  BY DEF ChangeIndex, Running, Turns, MissedInv, IInv, Phase
<1>2. \A j \in Package \ {k} : installed'[j] = installed[j]
  BY DEF ChangeIndex, Index!Appear, Index!Disappear, MissedInv, IInv, Types
<1>3. None \in had'[k]
  <2>1. installed[k] \in had[k] /\ had'[k] = had[k] \cup {installed'[k]}
    BY <1>1 DEF MissedInv, IInv, OnRecord, Types
  <2>2. installed[k] = None \/ installed'[k] = None
    BY DEF ChangeIndex, Index!Appear, Index!Disappear
  <2> QED BY <2>1, <2>2
<1>4. ASSUME command \in Scans, NEW j \in Package
      PROVE  ScanOf(j)'
  <2>1. CASE j = k
    BY <2>1, <1>3 DEF ScanOf
  <2>2. CASE j # k
    <3>1. /\ ScanOf(j) /\ installed'[j] = installed[j] /\ had'[j] = had[j]
          /\ (j \in ahead' <=> j \in ahead)
      BY <1>1, <1>2, <1>4, <2>2 DEF MissedInv, ScanOK, IInv, Types
    <3>2. Times(j)' = Times(j) /\ (Awaited(j)' <=> Awaited(j)) /\ AtOne' = AtOne
      BY <1>1, <3>1 DEF Times, Awaited, AtOne, InLookup
    <3>3. Served(j)' = Served(j)
      BY <1>1, <3>1, <3>2 DEF Served, OutdatedAllAlong, UpToDateAllAlong, Undisturbed
    <3> QED BY <1>1, <3>1, <3>2, <3>3 DEF ScanOf
  <2> QED BY <2>1, <2>2
<1>5. ScanOK'
  BY <1>1, <1>4 DEF MissedInv, ScanOK
<1>6. LookupOK'
  BY <1>1 DEF MissedInv, LookupOK, OnOffer, OnShelf, InLookup, Coming
<1>7. command \in Names => ahead' = ahead
  BY <1>1 DEF Turns, Scans, Names
<1>8. NamesOK'
  BY <1>1, <1>7 DEF MissedInv, NamesOK, Times, Passed, Coming, PackageNameFilter
<1> QED BY <1>5, <1>6, <1>8

\* What was served stays served when the record of the formulas grows.
LEMMA ServedWhenRecordGrows ==
  ASSUME IInv, pc # "idle", NEW k \in Package, Served(k), had[k] = {installed[k]},
         UNCHANGED <<had, command, lines>>, told[k] \subseteq told'[k], told'[k] \subseteq Build,
         stood' \subseteq stood, gone \subseteq gone', bare \subseteq bare'
  PROVE  Served(k)'
<1>1. Times(k)' = Times(k)
  BY DEF Times
<1>2. Tells(k) \in told[k]
  BY DEF IInv, OnRecord
<1>3. Undisturbed(k)' => Undisturbed(k)
  BY DEF Undisturbed
<1>4. OutdatedAllAlong(k)' => OutdatedAllAlong(k)
  <2>1. ASSUME Cardinality(told'[k]) = 1
        PROVE  told'[k] = told[k]
    <3>1. IsFiniteSet(told'[k])
      <4>1. IsFiniteSet(1 .. MaxRev)
        BY ListingAssumption, FS_Interval
      <4>2. IsFiniteSet(Build)
        BY <4>1, FS_AddElement DEF Build, Revision
      <4> QED BY <4>2, FS_Subset
    <3>2. PICK x : told'[k] = {x}
      BY <2>1, <3>1, FS_Singleton
    <3> QED BY <1>2, <3>2
  <2> QED BY <2>1 DEF OutdatedAllAlong
<1>5. UpToDateAllAlong(k)' => UpToDateAllAlong(k)
  BY <1>2 DEF UpToDateAllAlong
<1> QED BY <1>1, <1>3, <1>4, <1>5 DEF Served

\* Who changes formulas and config files does not move the scan.
LEMMA ScanKeptByOthers ==
  ASSUME MissedInv, Running, UNCHANGED <<installed, had, command, pc, ahead, at, lines, result>>,
         \A j \in Package : told[j] \subseteq told'[j] /\ told'[j] \subseteq Build,
         stood' \subseteq stood, gone \subseteq gone', bare \subseteq bare'
  PROVE  ScanOK'
<1>1. pc # "idle"
  BY DEF Running
<1> SUFFICES ASSUME command \in Scans, NEW j \in Package
             PROVE  ScanOf(j)'
  BY <1>1 DEF MissedInv, ScanOK
<1>2. ScanOf(j) /\ IInv
  BY <1>1 DEF MissedInv, ScanOK
<1>3. Times(j)' = Times(j) /\ (Awaited(j)' <=> Awaited(j)) /\ AtOne' = AtOne
  BY DEF Times, Awaited, AtOne, InLookup
<1>4. Served(j) /\ had[j] = {installed[j]} => Served(j)'
  BY <1>1, <1>2, ServedWhenRecordGrows
<1> QED BY <1>2, <1>3, <1>4 DEF ScanOf

\* A formula that a sync takes away or brings has not been there all the time.
LEMMA ChangeFormulasKeepsMissed ==
  ASSUME MissedInv, NEW k \in Package, NEW q \in Repo, ChangeFormulas(q, k)
  PROVE  ScanOK' /\ LookupOK' /\ NamesOK'
<1>1. /\ Running /\ pc # "idle" /\ pc # "done" /\ result = "none"
      /\ UNCHANGED <<installed, configured, had, queue, listed, repo, command, pc, at, got, lines,
                     result, unlisted, bare>>
      /\ \A j \in Package : told[j] \subseteq told'[j]
      /\ stood' = stood \cap OnShelf' /\ gone \subseteq gone'
  BY DEF ChangeFormulas, Running, MissedInv, IInv, Phase
<1>2. IInv /\ IInv' /\ ScanOK /\ LookupOK /\ NamesOK
  BY ChangeFormulasKeepsIInv DEF MissedInv
<1>3. ~ShelfOpen(q) => ahead' = ahead
  BY DEF ChangeFormulas, Turns
<1>4. ScanOK'
  <2>1. CASE command \in Scans
    <3>1. ahead' = ahead
      BY <1>2, <1>3, <2>1 DEF ShelfOpen, IInv, Phase, Scans, Names
    <3>2. \A j \in Package : told'[j] \subseteq Build
      BY <1>2 DEF IInv, Types
    <3> QED BY <1>1, <3>1, <3>2, ScanKeptByOthers
  <2>2. CASE command \notin Scans
    BY <1>1, <2>2 DEF ScanOK
  <2> QED BY <2>1, <2>2
<1>5. LookupOK'
  <2>1. stood' \subseteq OnOffer'
    BY <1>1, <1>2 DEF LookupOK, OnOffer
  <2> QED BY <1>1, <1>2, <2>1 DEF LookupOK, InLookup, Coming
<1>6. ASSUME NEW j \in Package
      PROVE  Passed(j)' \subseteq Passed(j)
  <2>1. ASSUME NEW r \in Repo, <<r, j>> \in stood', pc = "names", repo = r, j \in ahead
        PROVE  j \in ahead'
    <3>1. <<r, j>> \in stood /\ shelf[r] # None /\ j \in shelf[r]
      BY <1>1, <1>2, <2>1 DEF LookupOK, OnOffer, OnShelf
    <3>2. shelf'[r] # None /\ j \in shelf'[r]
      BY <1>1, <2>1 DEF OnShelf
    <3>3. CASE r # q
      BY <1>3, <2>1, <3>3 DEF ShelfOpen
    <3>4. CASE r = q /\ UNCHANGED ahead
      BY <2>1, <3>4
    <3>5. CASE r = q /\ shelf' = [shelf EXCEPT ![q] = None]
      BY <1>2, <3>2, <3>5 DEF IInv, Types
    <3>6. CASE /\ r = q /\ ahead' \in Turns(ShelfOpen(q), k)
               /\ shelf' = [shelf EXCEPT ![q] = IF k \in @ THEN @ \ {k} ELSE @ \cup {k}]
      <4>1. shelf'[q] = IF k \in shelf[q] THEN shelf[q] \ {k} ELSE shelf[q] \cup {k}
        BY <1>2, <3>6 DEF IInv, Types
      <4>2. j # k
        BY <3>1, <3>2, <3>6, <4>1
      <4> QED BY <2>1, <3>6, <4>2 DEF Turns
    <3> QED BY <3>3, <3>4, <3>5, <3>6 DEF ChangeFormulas
  <2> QED BY <1>1, <2>1 DEF Passed, Coming
<1>7. ASSUME command \in Names, NEW j \in Package, PackageNameFilter(j)
      PROVE  Times(j)' >= Cardinality(Passed(j)')
  <2>1. Times(j)' = Times(j)
    BY <1>1 DEF Times
  <2> QED BY <1>1, <1>2, <1>6, <1>7, <2>1, PassedIsCounted
<1>8. NamesOK'
  BY <1>1, <1>2, <1>7 DEF NamesOK, PackageNameFilter
<1> QED BY <1>4, <1>5, <1>8

\* A repository whose config file goes away has not been there all the time.
LEMMA ChangeConfigKeepsMissed ==
  ASSUME MissedInv, NEW q \in Repo, ChangeConfig(q)
  PROVE  ScanOK' /\ LookupOK' /\ NamesOK'
<1>1. /\ Running /\ pc # "idle" /\ pc # "done" /\ result = "none"
      /\ UNCHANGED <<installed, current, shelf, had, told, ahead, queue, listed, repo, command, pc,
                     at, got, lines, result, gone>>
      /\ stood' = {x \in stood : x[1] \in configured'} /\ bare \subseteq bare'
  BY DEF ChangeConfig, Running, scan, MissedInv, IInv, Phase
<1>2. IInv /\ ScanOK /\ LookupOK /\ NamesOK
  BY DEF MissedInv
<1>3. ScanOK'
  <2>1. \A j \in Package : told[j] \subseteq Build
    BY <1>2 DEF IInv, Types
  <2> QED BY <1>1, <2>1, ScanKeptByOthers
<1>4. LookupOK'
  <2>1. stood' \subseteq OnOffer'
    BY <1>1, <1>2 DEF LookupOK, OnOffer, OnShelf
  <2> QED BY <1>1, <1>2, <2>1 DEF LookupOK, InLookup, Coming
<1>5. ASSUME command \in Names, NEW j \in Package, PackageNameFilter(j)
      PROVE  Times(j)' >= Cardinality(Passed(j)')
  <2>1. Times(j)' = Times(j) /\ Passed(j)' \subseteq Passed(j)
    BY <1>1 DEF Times, Passed, Coming
  <2> QED BY <1>1, <1>2, <1>5, <2>1, PassedIsCounted
<1>6. NamesOK'
  BY <1>1, <1>2, <1>5 DEF NamesOK, PackageNameFilter
<1> QED BY <1>3, <1>4, <1>6

LEMMA StutterKeepsMissed ==
  ASSUME MissedInv, UNCHANGED vars
  PROVE  MissedInv'
<1> USE DEF vars
<1>1. IInv'
  BY StutterKeepsIInv DEF MissedInv
<1>2. ScanOK'
  <2>1. \A k \in Package : ScanOf(k)' = ScanOf(k)
    BY ServedStays DEF ScanOf, Awaited, AtOne, InLookup
  <2> QED BY <2>1 DEF MissedInv, ScanOK
<1>3. LookupOK' /\ NamesOK'
  BY DEF MissedInv, LookupOK, NamesOK, OnOffer, OnShelf, InLookup, Coming, Passed, Times,
         PackageNameFilter
<1> QED BY <1>1, <1>2, <1>3 DEF MissedInv

LEMMA MissedInductive == Spec => []MissedInv
<1>1. Init => MissedInv
  BY InitMeetsIInv DEF Init, MissedInv, ScanOK, LookupOK, NamesOK, InLookup, LookupSteps
<1>2. ASSUME MissedInv, [Next]_vars
      PROVE  MissedInv'
  <2>1. CASE Step
    BY <1>2, <2>1, StepKeepsIInv, StepKeepsScan, StepKeepsLookup, StepKeepsNames DEF MissedInv
  <2>2. ASSUME NEW k \in Package, NEW c \in Command, Begin(c, k)
        PROVE  MissedInv'
    BY <1>2, <2>2, BeginKeepsIInv, BeginKeepsMissed DEF MissedInv
  <2>3. ASSUME NEW k \in Package, ChangeIndex(k) \/ \E q \in Repo : ChangeFormulas(q, k)
        PROVE  MissedInv'
    BY <1>2, <2>3, ChangeIndexKeepsIInv, ChangeFormulasKeepsIInv, ChangeIndexKeepsMissed,
       ChangeFormulasKeepsMissed DEF MissedInv
  <2>4. ASSUME NEW q \in Repo, ChangeConfig(q)
        PROVE  MissedInv'
    BY <1>2, <2>4, ChangeConfigKeepsIInv, ChangeConfigKeepsMissed DEF MissedInv
  <2>5. CASE UNCHANGED vars
    BY <1>2, <2>5, StutterKeepsMissed
  <2> QED BY <1>2, <2>1, <2>2, <2>3, <2>4, <2>5 DEF Next, Command
<1> QED BY <1>1, <1>2, PTL DEF Spec

\* A listing that ends well has passed over nothing: whatever the others install, remove
\* and sync meanwhile, a package that is installed all the time is listed once, one that
\* is outdated all the time is told to be if its lookup was not disturbed, one that never
\* was is not, and a formula is named for every repository it stays in.
THEOREM NothingIsMissed == Spec => []NothingMissed
<1>1. ASSUME MissedInv
      PROVE  NothingMissed
  <2> SUFFICES ASSUME result = "ok"
               PROVE  NothingMissed
    BY DEF NothingMissed
  <2>1. IInv /\ ScanOK /\ NamesOK /\ pc = "done"
    BY <1>1 DEF MissedInv, IInv, Phase
  <2>2. ASSUME NEW k \in Package, None \notin had[k], command \in Scans
        PROVE  Served(k)
    <3>1. ~Awaited(k)
      BY <2>1, <2>2 DEF ScanOK, Awaited, AtOne, AboutOne, InLookup, LookupSteps
    <3> QED BY <2>1, <2>2, <3>1 DEF ScanOK, ScanOf
  <2>3. ASSUME NEW k \in Package, command \in Names, PackageNameFilter(k)
        PROVE  Times(k) >= Cardinality({q \in Repo : <<q, k>> \in stood})
    <3>1. Passed(k) = {q \in Repo : <<q, k>> \in stood}
      BY <2>1, <2>3 DEF NamesOK, Passed, Coming
    <3> QED BY <2>1, <2>3, <3>1 DEF NamesOK
  <2>4. \A k \in Package : OutdatedAllAlong(k) \/ UpToDateAllAlong(k) => None \notin had[k]
    BY DEF OutdatedAllAlong, UpToDateAllAlong
  <2> QED BY <2>2, <2>3, <2>4 DEF NothingMissed, Served, Scans, Names, PackageNameFilter
<1> QED BY <1>1, MissedInductive, PTL
=============================================================================
