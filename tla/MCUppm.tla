------------------------------- MODULE MCUppm -------------------------------
(***************************************************************************)
(* Small instances of Uppm: a needs b and c, b needs c.                    *)
(***************************************************************************)
EXTENDS Uppm

CONSTANTS a, b, c, ua, ub, uc, ub2, sa, sb, sc, sb2, p1, p2, p3,
          OneAtATime,  \* commands run one after the other
          MayFail,     \* transfers, unpacking and processes may fail
          Scenes       \* the sets of command lines, one of which a behaviour takes from

VARIABLE lines         \* that one

\* The first MaxRev revisions of everything.
Cut(seqs) == [k \in Package |-> SubSeq(seqs[k], 1, MaxRev)]

MCFormula ==
  Cut(a :> <<[url |-> ua, sha |-> sa], [url |-> ua, sha |-> sa]>>
      @@ b :> <<[url |-> ub, sha |-> sb], [url |-> ub2, sha |-> sb2]>>
      @@ c :> <<[url |-> uc, sha |-> sc], [url |-> uc, sha |-> sc]>>)

\* a needs itself.
MCCycle == Cut(a :> <<<<a>>, <<a>>>> @@ b :> <<<<c>>, <<c>>>> @@ c :> <<<<>>, <<>>>>)

MCDependency == Cut(a :> <<<<b, c>>, <<b, c>>>> @@ b :> <<<<c>>, <<c>>>> @@ c :> <<<<>>, <<>>>>)

MCVersion == Cut(a :> <<1, 1>> @@ b :> <<1, 2>> @@ c :> <<1, 1>>)

\* The second text of b has no `version' line.
MCVersionLine == Cut([k \in Package |-> [r \in 1 .. 2 |-> k # b \/ r # 2]])

Line(verb, args) == [verb |-> verb, args |-> args]

PlainLines == {Line("install", <<a>>), Line("uninstall", <<b, c>>), Line("fetch", <<c>>)}

ForceLines == {Line("install", <<b>>), Line("reinstall", <<b>>), Line("reinstall", <<c, b>>),
               Line("upgrade", <<b>>), Line("upgrade", <<>>)}

BusyLines == {Line("install", <<b>>), Line("install", <<c, a>>), Line("install", <<Unknown>>),
              Line("reinstall", <<c>>), Line("uninstall", <<b, c>>), Line("uninstall", <<>>),
              Line("fetch", <<c>>), Line("fetch", <<Unknown>>)}

ReinstallLines == {Line("install", <<a>>), Line("reinstall", <<a>>)}

\* c is built twice in the same second.
ClearLines == {Line("install", <<c>>), Line("reinstall", <<c, c>>)}

OneByOne == {PlainLines, ForceLines, ClearLines}
Reinstalls == {ReinstallLines}
AllAtOnce == {BusyLines}

AllLines == PlainLines \cup ForceLines \cup ClearLines \cup BusyLines \cup ReinstallLines

MCInit ==
  /\ UppmInit /\ lines \in Scenes
  /\ download = [x \in Sha |-> None] /\ link = [k \in Package |-> None]

\* A server sends the file it was asked for, or junk.
ServerAnswers(p) ==
  pc[p] = "verify" => partial[Sid(p)] \in {Text(p).sha, Junk}

DiskWasFull(p) ==
  pc[p] = "link" /\ dir[Sid(p)] # None /\ dir[Sid(p)].receipt = "cut"

\* Two commands that build things anew are enough, and only they need a clock and
\* formulas that move: that of b does.
Ended == {p \in Pid : exit[p] # "none"}

MCNext ==
  /\ \/ \E p \in Pid : /\ OneAtATime => Idle
                       /\ lines = ForceLines => Cardinality(Ended) < 2
                       /\ \E line \in lines : Invoke(p, line.verb, line.args)
     \/ \E p \in Pid : Main(p) \/ Work(p) \/ (MayFail /\ (Fail(p) \/ Kill(p)))
     \/ /\ lines = ForceLines
        /\ Elsewhere
        /\ \A k \in Package : k # b \/ ~Idle => current'[k] = current[k]
  /\ \A p \in Pid : ServerAnswers(p)' /\ (lines = PlainLines => ~DiskWasFull(p)')
  /\ UNCHANGED lines

MCSpec == MCInit /\ [][MCNext]_<<lines, cli, vars>>

MCFairSpec == MCSpec /\ \A p \in Pid : WF_<<cli, vars>>(Main(p) \/ Work(p))

Processes == Permutations(Pid)
=============================================================================
