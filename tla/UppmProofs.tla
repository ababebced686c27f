----------------------------- MODULE UppmProofs -----------------------------
(***************************************************************************)
(* For any formulas and any command lines: the processes of the command    *)
(* line do nothing to the files that PackageStore does not allow, so that  *)
(* what is proved of the store holds of the program; the recursion of      *)
(* uppm_install ends where the dependencies have no cycle; and of commands *)
(* given one after the other, one that ends well has done what its verb    *)
(* says, and `install' begins no session twice.                            *)
(***************************************************************************)
EXTENDS Uppm, PackageStoreProofs, SequenceTheorems

-----------------------------------------------------------------------------
(***************************************************************************)
(* The inductive invariant.                                                *)
(***************************************************************************)
ExitCodes == Results \cup {"not_available", "not_outdated", "receipt_error",
                           "stack_overflow", "killed"}

\* A call has parsed a text that its formula has had.
FrameOK(f) == f.rev # 0 => f.pkg \in Package /\ f.rev \in 1 .. current[f.pkg]

\* What main() has let pass has a name that a package can have: uninstall, which looks
\* at no formula, depends on that.
Screened(p) ==
  command[p] # None /\ command[p].verb = "uninstall" =>
    \A i \in 1 .. Len(command[p].args) :
       command[p].phase # "screen" \/ i < command[p].arg => command[p].args[i] \in Package

CommandOK(p) ==
  /\ pc[p] \in Steps => command[p] # None /\ command[p].phase = "in"
  /\ command[p] # None => command[p].arg \in 1 .. Len(command[p].args)
  /\ frames[p] # <<>> => command[p] # None /\ command[p].phase = "in"
  /\ \A i \in 1 .. Len(frames[p]) : FrameOK(frames[p][i])
  /\ Screened(p)

CliType ==
  /\ command \in [Pid -> Command \cup {None}]
  /\ frames \in [Pid -> Seq(Frame)]
  /\ exit \in [Pid -> ExitCodes]

CliInv == TypeOK /\ CliType /\ \A p \in Pid : CommandOK(p)

-----------------------------------------------------------------------------
\* The innermost call is replaced, a call is made.
WithTop(s, f)     == Front(s) \o <<f>>
WithCall(s, f, g) == Front(s) \o <<f, g>>

\* What has become of s: it ends with f, or with f and g.
EndsWith(t, s, f) ==
  /\ t \in Seq(Frame) /\ Len(t) = Len(s) /\ t # <<>> /\ t[Len(s)] = f
  /\ \A i \in 1 .. Len(s) - 1 : t[i] = s[i]

EndsWithBoth(t, s, f, g) ==
  /\ t \in Seq(Frame) /\ Len(t) = Len(s) + 1 /\ t # <<>>
  /\ t[Len(s)] = f /\ t[Len(s) + 1] = g
  /\ \A i \in 1 .. Len(s) - 1 : t[i] = s[i]

LEMMA NotEmpty ==
  ASSUME NEW S, NEW s \in Seq(S), s # <<>>
  PROVE  Len(s) \in Nat \ {0}
BY EmptySeq

LEMMA CallReturned ==
  ASSUME NEW S, NEW s \in Seq(S), s # <<>>
  PROVE  /\ Front(s) \in Seq(S) /\ Len(Front(s)) = Len(s) - 1
         /\ \A i \in 1 .. Len(s) - 1 : Front(s)[i] = s[i]
         /\ Last(s) \in S /\ Last(s) = s[Len(s)]
<1>1. Len(s) \in Nat \ {0}
  BY NotEmpty
<1>2. PICK n \in Nat : n = Len(s) - 1
  BY <1>1
<1>3. Len(SubSeq(s, 1, n)) = n
  BY <1>1, <1>2
<1>4. SubSeq(s, 1, n) \in Seq(S) /\ \A i \in 1 .. n : SubSeq(s, 1, n)[i] = s[i]
  BY <1>1, <1>2
<1>5. s[Len(s)] \in S
  BY <1>1, ElementOfSeq
<1> QED BY <1>2, <1>3, <1>4, <1>5, Zenon DEF Front, Last

LEMMA TopReplaced ==
  ASSUME NEW s \in Seq(Frame), s # <<>>, NEW f \in Frame, NEW t, t = WithTop(s, f)
  PROVE  EndsWith(t, s, f)
<1>1. PICK u : u = Front(s)
  OBVIOUS
<1>2. u \in Seq(Frame) /\ Len(u) = Len(s) - 1 /\ \A i \in 1 .. Len(s) - 1 : u[i] = s[i]
  BY <1>1, CallReturned, Zenon
<1>3. Len(s) \in Nat \ {0}
  BY NotEmpty
<1>4. t = u \o <<f>>
  BY <1>1 DEF WithTop
<1>5. u \o <<f>> \in Seq(Frame)
  BY <1>2
<1>6. Len(u \o <<f>>) = Len(u) + 1 /\ (u \o <<f>>)[Len(u) + 1] = f
  BY <1>2
<1>7. \A i \in 1 .. Len(u) : (u \o <<f>>)[i] = u[i]
  BY <1>2
<1>8. t \in Seq(Frame) /\ Len(t) = Len(u) + 1 /\ t[Len(u) + 1] = f
      /\ \A i \in 1 .. Len(u) : t[i] = u[i]
  BY <1>4, <1>5, <1>6, <1>7, Zenon
<1>9. Len(<<>>) = 0
  OBVIOUS
<1> QED BY <1>2, <1>3, <1>8, <1>9 DEF EndsWith

LEMMA CallMade ==
  ASSUME NEW s \in Seq(Frame), s # <<>>, NEW f \in Frame, NEW g \in Frame,
         NEW t, t = WithCall(s, f, g)
  PROVE  EndsWithBoth(t, s, f, g)
<1>1. PICK u : u = Front(s)
  OBVIOUS
<1>2. u \in Seq(Frame) /\ Len(u) = Len(s) - 1 /\ \A i \in 1 .. Len(s) - 1 : u[i] = s[i]
  BY <1>1, CallReturned, Zenon
<1>3. Len(s) \in Nat \ {0}
  BY NotEmpty
<1>4. t = u \o <<f, g>>
  BY <1>1 DEF WithCall
<1>5. u \o <<f, g>> \in Seq(Frame)
  BY <1>2
<1>6. /\ Len(u \o <<f, g>>) = Len(u) + 2
      /\ (u \o <<f, g>>)[Len(u) + 1] = f /\ (u \o <<f, g>>)[Len(u) + 2] = g
  BY <1>2
<1>7. \A i \in 1 .. Len(u) : (u \o <<f, g>>)[i] = u[i]
  BY <1>2
<1>8. t \in Seq(Frame) /\ Len(t) = Len(u) + 2 /\ t[Len(u) + 1] = f /\ t[Len(u) + 2] = g
      /\ \A i \in 1 .. Len(u) : t[i] = u[i]
  BY <1>4, <1>5, <1>6, <1>7, Zenon
<1>9. Len(<<>>) = 0
  OBVIOUS
<1> QED BY <1>2, <1>3, <1>8, <1>9 DEF EndsWithBoth

-----------------------------------------------------------------------------
(***************************************************************************)
(* Every step of the program is one of the store.                          *)
(***************************************************************************)
LEMMA ArgumentIsName ==
  ASSUME CliInv, NEW p \in Pid, command[p] # None
  PROVE  /\ command[p] \in Command /\ command[p].args \in Seq(Name)
         /\ command[p].arg \in 1 .. Len(command[p].args)
         /\ Argument(p) \in Name
<1>1. command[p] \in Command /\ command[p].arg \in 1 .. Len(command[p].args)
  BY DEF CliInv, CliType, CommandOK
<1>2. command[p].args \in Seq(Name)
  BY <1>1 DEF Command
<1>3. command[p].args[command[p].arg] \in Name
  BY <1>1, <1>2, ElementOfSeq
<1> QED BY <1>1, <1>2, <1>3 DEF Argument

LEMMA TopIsFrame ==
  ASSUME CliInv, NEW p \in Pid, frames[p] # <<>>
  PROVE  /\ frames[p] \in Seq(Frame) /\ Len(frames[p]) \in Nat \ {0}
         /\ Top(p) \in Frame /\ Top(p) = frames[p][Len(frames[p])] /\ FrameOK(Top(p))
<1>1. frames[p] \in Seq(Frame) /\ \A i \in 1 .. Len(frames[p]) : FrameOK(frames[p][i])
  BY DEF CliInv, CliType, CommandOK
<1>2. Len(frames[p]) \in Nat \ {0}
  BY <1>1, NotEmpty
<1>3. Top(p) \in Frame /\ Top(p) = frames[p][Len(frames[p])]
  BY <1>1, CallReturned DEF Top
<1> QED BY <1>1, <1>2, <1>3

LEMMA MainIsStep ==
  ASSUME CliInv, NEW p \in Pid, Main(p)
  PROVE  UNCHANGED vars \/ Begin(p)
<1>1. CASE UNCHANGED store
  BY <1>1 DEF store, vars
<1>2. CASE CallUninstall(p)
  <2>1. Argument(p) \in Package
    BY <1>2, ArgumentIsName DEF CallUninstall, CliInv, CommandOK, Screened, Argument
  <2> QED BY <2>1, <1>2 DEF CallUninstall, Begin
<1>3. CASE CallFetch(p)
  <2>1. CASE UNCHANGED store
    BY <1>1, <2>1
  <2>2. CASE Argument(p) # Unknown /\ BeginFetch(p, Argument(p))
    BY <2>2, <1>3, ArgumentIsName DEF CallFetch, Begin, Name
  <2> QED BY <2>1, <2>2, <1>3 DEF CallFetch
<1>4. CASE InstallPackage(p)
  <2>1. /\ Top(p).pkg \in Package /\ Top(p).rev \in 1 .. current[Top(p).pkg]
        /\ Forced(p) \in BOOLEAN
    BY <1>4, TopIsFrame DEF InstallPackage, Installing, FrameOK, Forced
  <2> QED BY <2>1, <1>4 DEF InstallPackage, Begin
<1> QED
  BY <1>1, <1>2, <1>3, <1>4
  DEF Main, Screen, CallInstall, CallUpgrade, OperationReturns, LookupFormula, InstallDependency,
      StackOverflow, InstallReturns

LEMMA UppmStep == CliInv /\ [UppmNext]_<<cli, vars>> => [Next]_vars
<1> SUFFICES ASSUME CliInv, [UppmNext]_<<cli, vars>>
             PROVE  [Next]_vars
  OBVIOUS
<1>1. CASE UNCHANGED vars
  BY <1>1
<1>2. ASSUME NEW p \in Pid, Main(p)
      PROVE  [Next]_vars
  BY <1>2, MainIsStep DEF Next
<1>3. ASSUME NEW p \in Pid, Work(p) \/ Fail(p)
      PROVE  [Next]_vars
  BY <1>3 DEF Work, Fail, Next
<1>4. ASSUME NEW p \in Pid, Kill(p)
      PROVE  [Next]_vars
  BY <1>4 DEF Kill, Next, store, vars
<1>5. ASSUME NEW p \in Pid, NEW verb, NEW args, Invoke(p, verb, args)
      PROVE  [Next]_vars
  BY <1>5 DEF Invoke, store, vars
<1>6. CASE Elsewhere
  BY <1>6 DEF Elsewhere, Next
<1> QED BY <1>1, <1>2, <1>3, <1>4, <1>5, <1>6 DEF UppmNext, cli

-----------------------------------------------------------------------------
(***************************************************************************)
(* The invariant of the command line.                                      *)
(***************************************************************************)
\* p's own part after a step; what p is not at in the step stays as it is.
OwnCli(p) ==
  /\ CommandOK(p)
  /\ command[p] \in Command \cup {None}
  /\ frames[p] \in Seq(Frame)
  /\ exit[p] \in ExitCodes

LEMMA ExitIsOK ==
  ASSUME CliInv, NEW p \in Pid, NEW r \in ExitCodes, Exit(p, r), pc'[p] \notin Steps
  PROVE  OwnCli(p)'
<1>1. command'[p] = None /\ frames'[p] = <<>> /\ exit'[p] = r
  BY DEF Exit, CliInv, CliType
<1>2. Len(<<>>) = 0 /\ <<>> \in Seq(Frame)
  OBVIOUS
<1> QED BY <1>1, <1>2 DEF OwnCli, CommandOK, Screened

LEMMA NextArgumentIsOK ==
  ASSUME CliInv, NEW p \in Pid, command[p] # None, command[p].phase = "in",
         NextArgument(p), pc'[p] \notin Steps
  PROVE  OwnCli(p)'
<1>1. CASE Exit(p, "ok")
  BY <1>1, ExitIsOK DEF ExitCodes, Results
<1>2. CASE ~Exit(p, "ok")
  <2> DEFINE c == [command[p] EXCEPT !.arg = @ + 1, !.phase = "call"]
  <2>1. /\ command[p].arg # Len(command[p].args)
        /\ command' = [command EXCEPT ![p] = c] /\ frames' = [frames EXCEPT ![p] = <<>>]
        /\ exit' = exit
    BY <1>2 DEF NextArgument
  <2>2. command[p] \in Command /\ command[p].arg \in 1 .. Len(command[p].args)
        /\ command[p].args \in Seq(Name)
    BY ArgumentIsName
  <2>3. c \in Command /\ c.arg = command[p].arg + 1 /\ c.args = command[p].args
        /\ c.phase = "call" /\ c.verb = command[p].verb
    <3>1. PICK n : n = command[p].arg + 1
      OBVIOUS
    <3>2. n \in Nat
      BY <2>2, <3>1 DEF Command
    <3>3. c = [command[p] EXCEPT !.arg = n, !.phase = "call"]
      BY <3>1
    <3>4. /\ [command[p] EXCEPT !.arg = n, !.phase = "call"] \in Command
          /\ [command[p] EXCEPT !.arg = n, !.phase = "call"].arg = n
          /\ [command[p] EXCEPT !.arg = n, !.phase = "call"].args = command[p].args
          /\ [command[p] EXCEPT !.arg = n, !.phase = "call"].phase = "call"
          /\ [command[p] EXCEPT !.arg = n, !.phase = "call"].verb = command[p].verb
      BY <2>2, <3>2 DEF Command
    <3> QED BY <3>1, <3>3, <3>4
  <2>4. Len(c.args) \in Nat
    BY <2>2, <2>3, LenProperties
  <2>5. c.arg \in 1 .. Len(c.args)
    BY <2>1, <2>2, <2>3, <2>4
  <2>6. command'[p] = c /\ frames'[p] = <<>> /\ exit'[p] = exit[p]
    BY <2>1 DEF CliInv, CliType
  <2>7. Len(<<>>) = 0 /\ <<>> \in Seq(Frame)
    OBVIOUS
  <2>8. Screened(p)'
    <3>1. c.verb = "uninstall" => \A i \in 1 .. Len(c.args) : c.args[i] \in Package
      BY <2>3 DEF Screened, CliInv, CommandOK
    <3> QED BY <3>1, <2>6 DEF Screened
  <2>9. exit[p] \in ExitCodes
    BY DEF CliInv, CliType
  <2> HIDE DEF c
  <2> QED BY <2>3, <2>5, <2>6, <2>7, <2>8, <2>9, CommandMarkAssumption DEF OwnCli, CommandOK
<1> QED BY <1>1, <1>2

\* Each answer main() gives to an argument it does not let pass is an exit code.
Answers == ExitCodes \ {"stack_overflow"}

LEMMA AnswersAreCodes ==
  /\ Answers \subseteq ExitCodes
  /\ \A k, verb : verb \in Verb => Screening(verb, k) \in Answers /\ Outdated(k) \in Answers
<1>1. \A k : Availability(k) \in Answers /\ Installation(k) \in Answers
  BY DEF Availability, Installation, Answers, ExitCodes, Results
<1>2. \A k : Outdated(k) \in Answers
  BY DEF Outdated, ParseReceipt, Answers, ExitCodes, Results
<1>3. "ok" \in Answers /\ Answers \subseteq ExitCodes
  BY DEF Answers, ExitCodes, Results
<1> QED BY <1>1, <1>2, <1>3 DEF Screening, Verb

\* uninstall lets pass what is installed, and so has a name that a package can have.
LEMMA InstalledIsPackage ==
  ASSUME NEW k \in Name, Screening("uninstall", k) = "ok"
  PROVE  k \in Package
BY DEF Screening, Installation, Name

\* main(): the steps outside the recursion.
LEMMA ScreenIsOK ==
  ASSUME CliInv, NEW p \in Pid, Screen(p)
  PROVE  OwnCli(p)'
<1> DEFINE c == command[p]
           answer == Screening(c.verb, Argument(p))
<1>1. /\ c # None /\ c.phase = "screen" /\ UNCHANGED pc
      /\ c \in Command /\ c.args \in Seq(Name) /\ c.arg \in 1 .. Len(c.args)
      /\ Argument(p) \in Name /\ c.verb \in Verb
  <2>1. c # None /\ c.phase = "screen" /\ UNCHANGED pc
    BY DEF Screen, store
  <2>2. /\ c \in Command /\ c.args \in Seq(Name) /\ c.arg \in 1 .. Len(c.args)
        /\ Argument(p) \in Name
    BY <2>1, ArgumentIsName
  <2> QED BY <2>1, <2>2 DEF Command
<1>2. pc'[p] \notin Steps /\ frames[p] = <<>>
  BY <1>1 DEF CliInv, CommandOK
<1>3. CASE answer # "ok"
  BY <1>1, <1>2, <1>3, AnswersAreCodes, ExitIsOK DEF Screen
<1>4. CASE answer = "ok"
  <2>1. /\ frames' = frames /\ exit' = exit
        /\ command' = IF c.arg = Len(c.args)
                        THEN [command EXCEPT ![p].arg = 1, ![p].phase = "call"]
                        ELSE [command EXCEPT ![p].arg = @ + 1]
    BY <1>4 DEF Screen
  <2>2. /\ frames'[p] = <<>> /\ Len(<<>>) = 0 /\ <<>> \in Seq(Frame) /\ exit'[p] \in ExitCodes
    BY <2>1, <1>2 DEF CliInv, CliType
  <2>3. c.verb = "uninstall" => \A i \in 1 .. Len(c.args) : i <= c.arg => c.args[i] \in Package
    <3>1. ASSUME c.verb = "uninstall", NEW i \in 1 .. Len(c.args), i < c.arg
          PROVE  c.args[i] \in Package
      BY <3>1, <1>1 DEF CliInv, CommandOK, Screened
    <3>2. c.verb = "uninstall" => c.args[c.arg] \in Package
      BY <1>1, <1>4, InstalledIsPackage DEF Argument
    <3>3. \A i \in 1 .. Len(c.args) : i <= c.arg => i < c.arg \/ i = c.arg
      BY <1>1
    <3> QED BY <3>1, <3>2, <3>3
  <2>4. CASE c.arg = Len(c.args)
    <3> DEFINE d == [c EXCEPT !.arg = 1, !.phase = "call"]
    <3>1. command'[p] = d
      BY <2>1, <2>4 DEF CliInv, CliType
    <3>2. d \in Command /\ d.arg = 1 /\ d.args = c.args /\ d.phase = "call" /\ d.verb = c.verb
      BY <1>1 DEF Command
    <3>3. 1 \in 1 .. Len(c.args) /\ \A i \in 1 .. Len(c.args) : i <= c.arg
      BY <1>1, <2>4, LenProperties
    <3> HIDE DEF d
    <3>4. Screened(p)'
      BY <2>3, <3>1, <3>2, <3>3 DEF Screened
    <3> QED
      BY <1>2, <2>2, <3>1, <3>2, <3>3, <3>4, CommandMarkAssumption DEF OwnCli, CommandOK
  <2>5. CASE c.arg # Len(c.args)
    <3>1. PICK n : n = c.arg + 1
      OBVIOUS
    <3>2. n \in Nat /\ n \in 1 .. Len(c.args) /\ \A i \in 1 .. Len(c.args) : i < n => i <= c.arg
      BY <1>1, <2>5, <3>1, LenProperties
    <3> DEFINE d == [c EXCEPT !.arg = n]
    <3>3. command'[p] = d
      BY <2>1, <2>5, <3>1 DEF CliInv, CliType
    <3>4. d \in Command /\ d.arg = n /\ d.args = c.args /\ d.phase = "screen" /\ d.verb = c.verb
      BY <1>1, <3>2 DEF Command
    <3> HIDE DEF d
    <3>5. Screened(p)'
      BY <2>3, <3>2, <3>3, <3>4 DEF Screened
    <3> QED
      BY <1>2, <2>2, <3>2, <3>3, <3>4, <3>5, CommandMarkAssumption DEF OwnCli, CommandOK
  <2> QED BY <2>4, <2>5
<1> QED BY <1>3, <1>4

\* The operation is called.
LEMMA CallIsOK ==
  ASSUME CliInv, NEW p \in Pid, CallInstall(p) \/ CallUpgrade(p) \/ CallUninstall(p) \/ CallFetch(p)
  PROVE  OwnCli(p)'
<1> DEFINE c == command[p]
           d == [c EXCEPT !.phase = "in"]
<1>1. c # None /\ c.phase = "call"
  BY DEF CallInstall, CallUpgrade, CallUninstall, CallFetch
<1>2. c \in Command /\ c.arg \in 1 .. Len(c.args) /\ Argument(p) \in Name
  BY <1>1, ArgumentIsName
<1>3. pc[p] \notin Steps /\ frames[p] = <<>> /\ exit[p] \in ExitCodes
  BY <1>1 DEF CliInv, CommandOK, CliType
<1>4. d \in Command /\ d.arg = c.arg /\ d.args = c.args /\ d.phase = "in" /\ d.verb = c.verb
  BY <1>2 DEF Command
<1>5. c.verb = "uninstall" => \A i \in 1 .. Len(c.args) : c.args[i] \in Package
  BY <1>1 DEF CliInv, CommandOK, Screened
<1>6. ASSUME command' = [command EXCEPT ![p].phase = "in"]
      PROVE  command'[p] = d /\ Screened(p)'
  <2>1. command'[p] = d
    BY <1>6 DEF CliInv, CliType
  <2> HIDE DEF d
  <2> QED BY <2>1, <1>4, <1>5 DEF Screened
<1>7. CASE \E r \in ExitCodes : Exit(p, r) /\ UNCHANGED pc
  BY <1>3, <1>7, ExitIsOK
<1>8. CASE /\ command' = [command EXCEPT ![p].phase = "in"] /\ exit' = exit
           /\ frames' = [frames EXCEPT ![p] = <<NewFrame(Argument(p))>>]
  <2> DEFINE f == NewFrame(Argument(p))
  <2>1. f \in Frame /\ f.rev = 0
    BY <1>2 DEF NewFrame, Frame
  <2>2. frames'[p] = <<f>>
    BY <1>8 DEF CliInv, CliType
  <2> HIDE DEF f, d
  <2>3. <<f>> \in Seq(Frame) /\ Len(<<f>>) = 1 /\ <<f>>[1] = f
    BY <2>1
  <2>4. \A i \in 1 .. Len(frames'[p]) : frames'[p][i] = f
    BY <2>2, <2>3
  <2>5. \A i \in 1 .. Len(frames'[p]) : FrameOK(frames[p][i])'
    BY <2>1, <2>4 DEF FrameOK
  <2>6. command'[p] = d /\ Screened(p)' /\ exit'[p] = exit[p]
    BY <1>6, <1>8
  <2> QED
    BY <2>2, <2>3, <2>5, <2>6, <1>2, <1>3, <1>4, CommandMarkAssumption DEF OwnCli, CommandOK
<1>9. CASE /\ command' = [command EXCEPT ![p].phase = "in"] /\ exit' = exit
           /\ frames' = frames
  <2>1. Len(<<>>) = 0 /\ <<>> \in Seq(Frame)
    OBVIOUS
  <2>2. command'[p] = d /\ Screened(p)' /\ exit'[p] = exit[p] /\ frames'[p] = <<>>
    BY <1>3, <1>6, <1>9
  <2> HIDE DEF d
  <2> QED
    BY <2>1, <2>2, <1>2, <1>3, <1>4, CommandMarkAssumption DEF OwnCli, CommandOK
<1>10. CASE CallInstall(p)
  BY <1>8, <1>10 DEF CallInstall
<1>11. CASE CallUpgrade(p)
  <2>1. Outdated(Argument(p)) \in ExitCodes
    BY AnswersAreCodes DEF Verb
  <2> QED BY <2>1, <1>7, <1>8, <1>11 DEF CallUpgrade, store
<1>12. CASE CallUninstall(p)
  BY <1>9, <1>12 DEF CallUninstall
<1>13. CASE CallFetch(p)
  BY <1>7, <1>9, <1>13 DEF CallFetch, store, ExitCodes
<1> QED BY <1>10, <1>11, <1>12, <1>13

\* A step that changes the stack of calls only.
LEMMA StackIsOK ==
  ASSUME CliInv, NEW p \in Pid, command'[p] = command[p], exit'[p] = exit[p],
         frames[p] # <<>>, frames'[p] \in Seq(Frame),
         \A i \in 1 .. Len(frames'[p]) : FrameOK(frames[p][i])'
  PROVE  OwnCli(p)'
<1>1. command[p] # None /\ command[p].phase = "in" /\ Screened(p)
  BY DEF CliInv, CommandOK
<1>2. command[p] \in Command \cup {None} /\ exit[p] \in ExitCodes
      /\ command[p].arg \in 1 .. Len(command[p].args)
  BY <1>1 DEF CliInv, CliType, CommandOK
<1>3. Screened(p)'
  BY <1>1 DEF Screened
<1> QED BY <1>1, <1>2, <1>3 DEF OwnCli, CommandOK

\* The steps of uppm_install.
LEMMA RecursionIsOK ==
  ASSUME CliInv, NEW p \in Pid,
         \/ LookupFormula(p) \/ InstallDependency(p) \/ StackOverflow(p)
         \/ InstallPackage(p) \/ InstallReturns(p)
  PROVE  OwnCli(p)'
<1> DEFINE s == frames[p]
           n == Len(frames[p])
<1>1. s # <<>> /\ command[p] # None /\ command[p].phase = "in" /\ pc[p] = "idle"
  BY DEF LookupFormula, InstallDependency, StackOverflow, InstallPackage, InstallReturns,
         Installing, CliInv, CommandOK
<1>2. /\ s \in Seq(Frame) /\ n \in Nat \ {0} /\ Top(p) \in Frame /\ Top(p) = s[n]
      /\ FrameOK(Top(p)) /\ \A i \in 1 .. n : FrameOK(s[i])
  BY <1>1, TopIsFrame DEF CliInv, CommandOK
<1>3. "idle" \notin Steps
  BY DEF Steps, InstallSteps, FetchSteps, UninstallSteps
<1>4. ASSUME NEW r \in ExitCodes, Exit(p, r), UNCHANGED store
      PROVE  OwnCli(p)'
  BY <1>1, <1>3, <1>4, ExitIsOK DEF store
\* The innermost call goes on.
<1>5. ASSUME NEW f \in Frame, SetTop(p, f), UNCHANGED <<command, exit, current>>, FrameOK(f)
      PROVE  OwnCli(p)'
  <2>1. frames'[p] = WithTop(s, f)
    BY <1>5 DEF SetTop, WithTop, CliInv, CliType
  <2>2. PICK t : t = WithTop(s, f)
    OBVIOUS
  <2>3. /\ t \in Seq(Frame) /\ Len(t) = n /\ t[n] = f
        /\ \A i \in 1 .. n - 1 : t[i] = s[i]
    <3>1. s \in Seq(Frame) /\ s # <<>>
      BY <1>1, <1>2
    <3>2. EndsWith(t, s, f)
      BY <3>1, <2>2, TopReplaced, Zenon
    <3> QED BY <3>2 DEF EndsWith
  <2>4. frames'[p] = t
    BY <2>1, <2>2
  <2>5. \A i \in 1 .. n : FrameOK(t[i])
    <3>1. \A i \in 1 .. n : i = n \/ i \in 1 .. n - 1
      BY <1>2
    <3> QED BY <2>3, <3>1, <1>2, <1>5
  <2>6. \A i \in 1 .. Len(frames'[p]) : FrameOK(frames[p][i])'
    BY <2>3, <2>4, <2>5, <1>5 DEF FrameOK
  <2> QED BY <1>1, <1>5, <2>3, <2>4, <2>6, StackIsOK
<1>6. CASE LookupFormula(p)
  <2>1. CASE Top(p).pkg = Unknown
    BY <2>1, <1>4, <1>6 DEF LookupFormula, ExitCodes
  <2>2. CASE Top(p).pkg # Unknown
    <3> DEFINE r == current[Top(p).pkg]
               f == [Top(p) EXCEPT !.rev = r]
    <3>1. Top(p).pkg \in Package
      BY <2>2, <1>2 DEF Frame, Name
    <3>2. r \in Nat /\ r \in 1 .. r
      BY <3>1, BoundAssumption DEF CliInv, TypeOK, DiskTypeOK, Revision
    <3>3. f \in Frame /\ f.pkg = Top(p).pkg /\ f.rev = r
      BY <1>2, <3>2 DEF Frame
    <3>4. FrameOK(f)
      BY <3>1, <3>2, <3>3 DEF FrameOK
    <3>5. SetTop(p, f) /\ UNCHANGED <<command, exit, current>>
      BY <2>2, <1>6 DEF LookupFormula, store
    <3> QED BY <3>3, <3>4, <3>5, <1>5
  <2> QED BY <2>1, <2>2
<1>7. CASE InstallDependency(p)
  <2>1. Top(p).rev # 0 /\ Top(p).next <= Len(Deps(Top(p))) /\ Top(p).next \in Nat \ {0}
    BY <1>2, <1>7 DEF InstallDependency, Frame
  <2>2. PICK f : f = [Top(p) EXCEPT !.next = @ + 1]
    OBVIOUS
  <2>3. f \in Frame /\ f.pkg = Top(p).pkg /\ f.rev = Top(p).rev
    <3>1. PICK m : m = Top(p).next + 1
      OBVIOUS
    <3>2. m \in Nat \ {0}
      BY <2>1, <3>1
    <3>3. f = [Top(p) EXCEPT !.next = m]
      BY <2>2, <3>1
    <3> QED BY <3>2, <3>3, <1>2 DEF Frame
  <2>4. PICK g : g = NewFrame(Deps(Top(p))[Top(p).next])
    OBVIOUS
  <2>5. PICK t : t = WithCall(s, f, g)
    OBVIOUS
  <2>6. frames'[p] = t /\ UNCHANGED <<command, exit, store>>
    BY <1>7, <2>2, <2>4, <2>5 DEF InstallDependency, WithCall, CliInv, CliType
  <2>7. g \in Frame /\ g.rev = 0
    <3>1. Deps(Top(p)) \in Seq(Name)
      <4>1. Top(p).pkg \in Package /\ Top(p).rev \in 1 .. current[Top(p).pkg]
        BY <2>1, <1>2 DEF FrameOK
      <4>2. Top(p).rev \in Revision
        BY <4>1, BoundAssumption DEF CliInv, TypeOK, DiskTypeOK, Revision
      <4> QED BY <4>1, <4>2, DependencyAssumption DEF Deps
    <3>2. Top(p).next \in 1 .. Len(Deps(Top(p)))
      BY <2>1, <1>2, <3>1, LenProperties
    <3>3. Deps(Top(p))[Top(p).next] \in Name
      BY <3>1, <3>2, ElementOfSeq
    <3> QED BY <3>3, <2>4 DEF NewFrame, Frame
  <2>8. /\ t \in Seq(Frame) /\ Len(t) = n + 1 /\ t[n + 1] = g /\ t[n] = f
        /\ \A i \in 1 .. n - 1 : t[i] = s[i]
    <3>1. s \in Seq(Frame) /\ s # <<>> /\ f \in Frame /\ g \in Frame
      BY <1>1, <1>2, <2>3, <2>7
    <3>2. EndsWithBoth(t, s, f, g)
      BY <3>1, <2>5, CallMade, Zenon
    <3> QED BY <3>2 DEF EndsWithBoth
  <2>9. \A i \in 1 .. n + 1 : FrameOK(t[i])
    <3>1. \A i \in 1 .. n + 1 : i = n + 1 \/ i = n \/ i \in 1 .. n - 1
      BY <1>2
    <3>2. FrameOK(f) /\ FrameOK(g)
      BY <2>3, <2>7, <1>2 DEF FrameOK
    <3>3. \A i \in 1 .. n - 1 : FrameOK(s[i])
      BY <1>2
    <3> QED BY <2>8, <3>1, <3>2, <3>3
  <2>10. \A i \in 1 .. Len(frames'[p]) : FrameOK(frames[p][i])'
    BY <2>6, <2>8, <2>9 DEF FrameOK, store
  <2> QED BY <1>1, <2>6, <2>8, <2>10, StackIsOK
<1>8. CASE StackOverflow(p)
  BY <1>4, <1>8 DEF StackOverflow, ExitCodes
<1>9. CASE InstallPackage(p)
  <2> DEFINE f == [Top(p) EXCEPT !.built = TRUE]
  <2>1. f \in Frame /\ f.pkg = Top(p).pkg /\ f.rev = Top(p).rev
    BY <1>2 DEF Frame
  <2>2. SetTop(p, f) /\ UNCHANGED <<command, exit, current>>
    BY <1>9 DEF InstallPackage, BeginInstall, env
  <2> QED BY <2>1, <2>2, <1>2, <1>5 DEF FrameOK
<1>10. CASE InstallReturns(p)
  <2>1. CASE Exit(p, result[p])
    BY <2>1, <1>4, <1>10 DEF InstallReturns, ExitCodes, CliInv, TypeOK, ProcTypeOK
  <2>2. CASE NextArgument(p)
    BY <2>2, <1>1, <1>3, <1>10, NextArgumentIsOK DEF InstallReturns, store
  <2>3. CASE frames' = [frames EXCEPT ![p] = Front(@)] /\ UNCHANGED <<command, exit>>
    <3>1. PICK t : t = Front(s)
      OBVIOUS
    <3>2. t \in Seq(Frame) /\ Len(t) = n - 1 /\ \A i \in 1 .. n - 1 : t[i] = s[i]
      BY <1>1, <1>2, <3>1, CallReturned, Zenon
    <3>3. frames'[p] = t /\ current' = current
      BY <2>3, <3>1, <1>10 DEF InstallReturns, store, CliInv, CliType
    <3>4. \A i \in 1 .. n - 1 : i \in 1 .. n
      BY <1>2
    <3>5. \A i \in 1 .. Len(frames'[p]) : FrameOK(frames[p][i])'
      BY <3>2, <3>3, <3>4, <1>2 DEF FrameOK
    <3> QED BY <2>3, <3>2, <3>3, <3>5, <1>1, StackIsOK
  <2> QED BY <2>1, <2>2, <2>3, <1>10 DEF InstallReturns
<1> QED BY <1>6, <1>7, <1>8, <1>9, <1>10

\* What a process does not touch of the command line.
Others(p) ==
  /\ command' = [q \in Pid |-> command'[q]]
  /\ frames'  = [q \in Pid |-> frames'[q]]
  /\ exit'    = [q \in Pid |-> exit'[q]]
  /\ \A q \in Pid \ {p} : /\ command'[q] = command[q] /\ frames'[q] = frames[q]
                          /\ exit'[q] = exit[q]

LEMMA OthersCli ==
  ASSUME CliInv, NEW p \in Pid
  PROVE  /\ \A r : Exit(p, r) => Others(p)
         /\ NextArgument(p) => Others(p)
         /\ \A verb, args : Invoke(p, verb, args) => Others(p)
         /\ Main(p) \/ Kill(p) => Others(p)
<1> USE DEF CliInv, CliType
<1>1. ASSUME NEW r, Exit(p, r)
      PROVE  Others(p)
  BY <1>1 DEF Exit, Others
<1>2. ASSUME NEW c, NEW f, command' = [command EXCEPT ![p] = c],
             frames' = [frames EXCEPT ![p] = f], exit' = exit
      PROVE  Others(p)
  BY <1>2 DEF Others
<1>3. ASSUME NEW f, command' = command, frames' = [frames EXCEPT ![p] = f], exit' = exit
      PROVE  Others(p)
  BY <1>3 DEF Others
<1>4. ASSUME NEW c, command' = [command EXCEPT ![p] = c], frames' = frames, exit' = exit
      PROVE  Others(p)
  BY <1>4 DEF Others
<1>5. ASSUME NextArgument(p)
      PROVE  Others(p)
  BY <1>1, <1>2, <1>5 DEF NextArgument
<1>6. ASSUME NEW verb, NEW args, Invoke(p, verb, args)
      PROVE  Others(p)
  BY <1>1, <1>4, <1>6 DEF Invoke
<1>7. ASSUME Kill(p)
      PROVE  Others(p)
  BY <1>1, <1>7 DEF Kill
<1>8. ASSUME NEW f, SetTop(p, f), command' = command, exit' = exit
      PROVE  Others(p)
  BY <1>3, <1>8 DEF SetTop
<1>9. CASE Screen(p)
  BY <1>1, <1>4, <1>9 DEF Screen
<1>10. CASE CallInstall(p) \/ CallUpgrade(p)
  BY <1>1, <1>2, <1>10 DEF CallInstall, CallUpgrade
<1>11. CASE CallUninstall(p) \/ CallFetch(p)
  BY <1>1, <1>4, <1>11 DEF CallUninstall, CallFetch
<1>12. CASE OperationReturns(p)
  BY <1>1, <1>5, <1>12 DEF OperationReturns
<1>13. CASE LookupFormula(p) \/ StackOverflow(p) \/ InstallPackage(p)
  BY <1>1, <1>8, <1>13 DEF LookupFormula, StackOverflow, InstallPackage
<1>14. CASE InstallDependency(p)
  BY <1>3, <1>14 DEF InstallDependency
<1>15. CASE InstallReturns(p)
  BY <1>1, <1>3, <1>5, <1>15 DEF InstallReturns
<1> QED
  BY <1>1, <1>5, <1>6, <1>7, <1>9, <1>10, <1>11, <1>12, <1>13, <1>14, <1>15 DEF Main

\* A process whose command line stays as it is.
LEMMA StayingIsOK ==
  ASSUME CliInv, TypeOK', [Next]_vars, NEW q \in Pid, command'[q] = command[q],
         frames'[q] = frames[q], exit'[q] = exit[q], pc'[q] \in Steps => pc[q] \in Steps
  PROVE  OwnCli(q)'
<1>1. CommandOK(q) /\ frames[q] \in Seq(Frame) /\ command[q] \in Command \cup {None}
      /\ exit[q] \in ExitCodes
  BY DEF CliInv, CliType
<1>2. \A k \in Package : current[k] <= current'[k]
  BY Monotone DEF CliInv
<1>3. \A k \in Package : current[k] \in Nat /\ current'[k] \in Nat
  BY BoundAssumption DEF CliInv, TypeOK, DiskTypeOK, Revision
<1>4. ASSUME NEW f, FrameOK(f)
      PROVE  FrameOK(f)'
  BY <1>2, <1>3, <1>4 DEF FrameOK
<1>5. \A i \in 1 .. Len(frames'[q]) : FrameOK(frames[q][i])'
  BY <1>1, <1>4 DEF CommandOK, FrameOK
<1>6. Screened(q)'
  BY <1>1 DEF CommandOK, Screened
<1> QED BY <1>1, <1>5, <1>6 DEF OwnCli, CommandOK

\* The process that takes the step.
LEMMA ActingIsOK ==
  ASSUME CliInv, TypeOK', [Next]_vars, NEW p \in Pid,
         \/ \E line \in CommandLine : Invoke(p, line.verb, line.args)
         \/ Main(p) \/ Work(p) \/ Fail(p) \/ Kill(p)
  PROVE  OwnCli(p)'
<1>1. /\ "idle" \notin Steps /\ "dead" \notin Steps
      /\ {"ok", "error", "killed"} \subseteq ExitCodes /\ Results \subseteq ExitCodes
  BY DEF Steps, InstallSteps, FetchSteps, UninstallSteps, ExitCodes, Results
<1>2. CASE \E line \in CommandLine : Invoke(p, line.verb, line.args)
  <2>1. PICK line \in CommandLine : Invoke(p, line.verb, line.args)
    BY <1>2
  <2>2. pc' = pc /\ current' = current /\ command[p] = None
    BY <2>1 DEF Invoke, store
  <2>3. pc[p] \notin Steps /\ frames[p] = <<>> /\ exit[p] \in ExitCodes
    BY <2>2 DEF CliInv, CommandOK, CliType
  <2>4. CASE line.args = <<>>
    BY <2>1, <2>2, <2>3, <2>4, <1>1, ExitIsOK DEF Invoke
  <2>5. CASE line.args # <<>>
    <3> DEFINE c == [verb |-> line.verb, args |-> line.args, arg |-> 1, phase |-> "screen"]
    <3>1. line.verb \in Verb /\ line.args \in Seq(Name)
      BY CommandLineAssumption
    <3>2. 1 \in 1 .. Len(line.args)
      BY <3>1, <2>5, NotEmpty
    <3>3. c \in Command /\ c.arg = 1 /\ c.args = line.args /\ c.phase = "screen"
      BY <3>1 DEF Command
    <3>4. command'[p] = c /\ frames'[p] = <<>> /\ exit'[p] = exit[p]
      BY <2>1, <2>3, <2>5 DEF Invoke, CliInv, CliType
    <3> HIDE DEF c
    <3>5. Screened(p)'
      BY <3>2, <3>3, <3>4 DEF Screened
    <3>6. Len(<<>>) = 0 /\ <<>> \in Seq(Frame)
      OBVIOUS
    <3> QED
      BY <2>2, <2>3, <3>2, <3>3, <3>4, <3>5, <3>6, CommandMarkAssumption DEF OwnCli, CommandOK
  <2> QED BY <2>4, <2>5
<1>3. CASE Main(p)
  <2>1. CASE OperationReturns(p)
    <3>1. command[p] # None /\ command[p].phase = "in" /\ pc'[p] = "idle" /\ result[p] \in Results
      BY <2>1 DEF OperationReturns, store, CliInv, TypeOK, ProcTypeOK
    <3> QED BY <2>1, <3>1, <1>1, ExitIsOK, NextArgumentIsOK DEF OperationReturns
  <2> QED
    BY <2>1, <1>3, ScreenIsOK, CallIsOK, RecursionIsOK DEF Main
<1>4. CASE Work(p) \/ Fail(p)
  <2>1. pc[p] \in Steps
    <3>1. CASE InstallStep(p)
      BY <3>1
      DEF InstallStep, CheckLink, CheckReceipt, StartSession, LookupDownload, FetchLookup,
          FetchName, FetchOpen, FetchDone, VerifyAndRename, MakeRealDir, ClearRealDir,
          RemakeRealDir, Unpack, RunInstallScript, RecordFiles, CreateReceipt, CopyFormula,
          MakeLink, InspectLink, UnlinkOld, StatInWay, OpenInWay, RemoveInWay, Steps, InstallSteps, FetchSteps
    <3>2. CASE UninstallStep(p)
      BY <3>2
      DEF UninstallStep, UninstallCheckLink, UninstallCheckReceipt, UninstallReadLink,
          UninstallCheckDir, UninstallUnlink, UninstallRemove, Steps, UninstallSteps
    <3>3. CASE Fail(p)
      BY <3>3
      DEF Fail, Fault, FetchFails, CallFails, FallibleSteps, Steps, InstallSteps, FetchSteps,
          UninstallSteps
    <3> QED BY <3>1, <3>2, <3>3, <1>4 DEF Work
  <2>2. UNCHANGED cli
    BY <1>4 DEF Work, Fail
  <2> QED BY <2>1, <2>2, StayingIsOK DEF cli
<1>5. CASE Kill(p)
  <2>1. pc'[p] \notin Steps
    BY <1>1, <1>5 DEF Kill, Crash, store, CliInv, TypeOK, ProcTypeOK
  <2> QED BY <2>1, <1>1, <1>5, ExitIsOK DEF Kill
<1> QED BY <1>2, <1>3, <1>4, <1>5

LEMMA InitCli == UppmInit => CliInv
<1> SUFFICES ASSUME UppmInit
             PROVE  CliInv
  OBVIOUS
<1>1. TypeOK
  BY InitTypeOK DEF UppmInit
<1>2. Len(<<>>) = 0 /\ <<>> \in Seq(Frame)
  OBVIOUS
<1>3. "none" \in ExitCodes /\ "idle" \notin Steps
  BY DEF ExitCodes, Results, Steps, InstallSteps, FetchSteps, UninstallSteps
<1>4. CliType
  BY <1>2, <1>3 DEF UppmInit, CliType
<1>5. \A p \in Pid : command[p] = None /\ frames[p] = <<>> /\ pc[p] = "idle"
  BY DEF UppmInit, Init
<1> QED BY <1>1, <1>2, <1>3, <1>4, <1>5 DEF CliInv, CommandOK, Screened

LEMMA NextCli == CliInv /\ [UppmNext]_<<cli, vars>> => CliInv'
<1> SUFFICES ASSUME CliInv, [UppmNext]_<<cli, vars>>
             PROVE  CliInv'
  OBVIOUS
<1>1. [Next]_vars
  BY UppmStep
<1>2. TypeOK /\ TypeOK'
  BY <1>1, NextTypeOK DEF CliInv
<1>3. CASE UNCHANGED cli /\ pc' = pc
  <2>1. \A q \in Pid : OwnCli(q)'
    BY <1>1, <1>2, <1>3, StayingIsOK DEF cli
  <2> QED BY <2>1, <1>2, <1>3 DEF OwnCli, CliInv, CliType, cli
<1>4. ASSUME NEW p \in Pid,
             \/ \E line \in CommandLine : Invoke(p, line.verb, line.args)
             \/ Main(p) \/ Work(p) \/ Fail(p) \/ Kill(p)
      PROVE  CliInv'
  <2>1. OwnCli(p)'
    BY <1>1, <1>2, <1>4, ActingIsOK
  <2>2. Others(p)
    <3>1. CASE UNCHANGED cli
      BY <3>1 DEF cli, Others, CliInv, CliType
    <3> QED BY <3>1, <1>4, OthersCli DEF Work, Fail
  <2>3. \A q \in Pid \ {p} : pc'[q] = pc[q]
    <3>1. CASE pc' = pc
      BY <3>1
    <3>2. CASE Step(p)
      BY <3>2, <1>2, OthersStay
    <3> QED
      BY <3>1, <3>2, <1>4, MainIsStep DEF Work, Fail, Kill, Invoke, Step, store, vars
  <2>4. \A q \in Pid : OwnCli(q)'
    BY <2>1, <2>2, <2>3, <1>1, <1>2, StayingIsOK DEF Others
  <2>5. CliType'
    BY <2>2, <2>4 DEF Others, OwnCli, CliType
  <2> QED BY <2>4, <2>5, <1>2 DEF OwnCli, CliInv
<1> QED BY <1>3, <1>4 DEF UppmNext, Elsewhere, Tick, Publish, proc, vars

-----------------------------------------------------------------------------
\* Every variable keeps its type; a process is inside an operation of the store only
\* while its command line is.
THEOREM UppmTypeCorrect == UppmSpec => []UppmTypeOK
<1>1. CliInv => UppmTypeOK
  BY DEF CliInv, CliType, CommandOK, UppmTypeOK, ExitCodes
<1> QED BY <1>1, InitCli, NextCli, PTL DEF UppmSpec

\* What the processes of the command line do to the files is what PackageStore allows:
\* they begin operations on packages only, and install a text that the formula has had.
THEOREM UppmImplementsStore == UppmSpec => ImplementsStore
<1>1. UppmInit => Init
  BY DEF UppmInit
<1> QED BY <1>1, InitCli, NextCli, UppmStep, PTL DEF UppmSpec, ImplementsStore, Spec

\* So what is proved of the store holds whatever command lines are run: what a name
\* leads to is built and verified, and is given up only for another build.
THEOREM UppmKeepsStoreSafe ==
  UppmSpec => /\ [](LinkedIsBuilt /\ LinkedIsVerified /\ UnpackedIsVerified)
              /\ GivenUpOnlyForBuilt
              /\ ImplementsIndex
<1>1. UppmSpec => Spec
  BY UppmImplementsStore DEF ImplementsStore
<1> QED
  BY <1>1, LinkedBuilt, LinkedVerified, UnpackedVerified, GivenUpForBuilt,
     StoreImplementsIndex, PTL

-----------------------------------------------------------------------------
(***************************************************************************)
(* The recursion.  That the dependencies have no cycle, whichever texts of *)
(* the formulas are put together, is said with a rank of every name: a     *)
(* formula names only lower ones; and the stack has room for the highest.  *)
(***************************************************************************)
NoCycle(rank) ==
  /\ rank \in [Name -> 0 .. MaxDepth - 1]
  /\ \A k \in Package, r \in Revision :
       \A i \in 1 .. Len(Dependency[k][r]) : rank[Dependency[k][r][i]] < rank[k]

\* Each call is for a name lower than that of the call it is made from.
Descending(rank, s) == \A i \in 1 .. Len(s) : i + rank[s[i].pkg] <= MaxDepth

DepthInv(rank) ==
  \A p \in Pid : Descending(rank, frames[p]) /\ exit[p] # "stack_overflow"

\* The innermost call that still has a dependency to install is not the last that the
\* stack has room for.
LEMMA StackHasRoom ==
  ASSUME NEW rank, NoCycle(rank), CliInv, DepthInv(rank), NEW p \in Pid, frames[p] # <<>>,
         Top(p).rev # 0, Top(p).next <= Len(Deps(Top(p)))
  PROVE  /\ Len(frames[p]) < MaxDepth /\ Deps(Top(p))[Top(p).next] \in Name
         /\ Len(frames[p]) + 1 + rank[Deps(Top(p))[Top(p).next]] <= MaxDepth
<1> DEFINE n == Len(frames[p])
           k == Top(p).pkg
           i == Top(p).next
<1>1. /\ n \in Nat \ {0} /\ Top(p) = frames[p][n] /\ FrameOK(Top(p)) /\ Top(p) \in Frame
  BY TopIsFrame
<1>2. k \in Package /\ Top(p).rev \in Revision /\ i \in Nat \ {0}
  <2>1. k \in Package /\ Top(p).rev \in 1 .. current[k] /\ i \in Nat \ {0}
    BY <1>1 DEF FrameOK, Frame
  <2> QED BY <2>1, BoundAssumption DEF CliInv, TypeOK, DiskTypeOK, Revision
<1>3. Deps(Top(p)) \in Seq(Name) /\ Deps(Top(p)) = Dependency[k][Top(p).rev]
  BY <1>2, DependencyAssumption DEF Deps
<1>4. i \in 1 .. Len(Deps(Top(p)))
  BY <1>2, <1>3, LenProperties
<1>5. Deps(Top(p))[i] \in Name /\ k \in Name
  BY <1>2, <1>3, <1>4, ElementOfSeq DEF Name
<1>6. rank[Deps(Top(p))[i]] < rank[k]
  BY <1>2, <1>3, <1>4 DEF NoCycle
<1>7. rank[Deps(Top(p))[i]] \in Nat /\ rank[k] \in Nat
  BY <1>5, DepthAssumption DEF NoCycle
<1>8. n + rank[k] <= MaxDepth
  BY <1>1 DEF DepthInv, Descending
<1> QED BY <1>1, <1>5, <1>6, <1>7, <1>8, DepthAssumption

LEMMA DepthStep ==
  ASSUME NEW rank, NoCycle(rank), CliInv, DepthInv(rank), NEW p \in Pid,
         \/ \E line \in CommandLine : Invoke(p, line.verb, line.args)
         \/ Main(p) \/ Work(p) \/ Fail(p) \/ Kill(p)
  PROVE  Descending(rank, frames'[p]) /\ exit'[p] # "stack_overflow"
<1> DEFINE s == frames[p]
           n == Len(frames[p])
<1>1. Descending(rank, s) /\ exit[p] # "stack_overflow"
  BY DEF DepthInv
<1>2. CASE frames'[p] = s /\ exit'[p] = exit[p]
  BY <1>1, <1>2
<1>3. Descending(rank, <<>>)
  <2>1. Len(<<>>) = 0
    OBVIOUS
  <2> QED BY <2>1 DEF Descending
<1>4. CASE frames'[p] = <<>> /\ exit'[p] = exit[p]
  BY <1>1, <1>3, <1>4
<1>5. ASSUME NEW r \in Answers, Exit(p, r)
      PROVE  Descending(rank, frames'[p]) /\ exit'[p] # "stack_overflow"
  <2>1. frames'[p] = <<>> /\ exit'[p] = r
    BY <1>5 DEF Exit, CliInv, CliType
  <2> QED BY <2>1, <1>3 DEF Answers
<1>6. /\ {"ok", "error", "killed", "not_available"} \subseteq Answers
      /\ result[p] \in Answers
  BY DEF Answers, ExitCodes, Results, CliInv, TypeOK, ProcTypeOK
<1>7. ASSUME NextArgument(p)
      PROVE  Descending(rank, frames'[p]) /\ exit'[p] # "stack_overflow"
  <2>1. CASE Exit(p, "ok")
    BY <2>1, <1>5, <1>6
  <2>2. CASE ~Exit(p, "ok")
    BY <2>2, <1>4, <1>7 DEF NextArgument, CliInv, CliType
  <2> QED BY <2>1, <2>2
<1>8. CASE \E line \in CommandLine : Invoke(p, line.verb, line.args)
  BY <1>2, <1>5, <1>6, <1>8 DEF Invoke
<1>9. CASE Work(p) \/ Fail(p)
  BY <1>2, <1>9 DEF Work, Fail, cli
<1>10. CASE Kill(p)
  BY <1>5, <1>6, <1>10 DEF Kill
<1>11. ASSUME command[p] # None
       PROVE  /\ Argument(p) \in Name /\ Outdated(Argument(p)) \in Answers
              /\ Screening(command[p].verb, Argument(p)) \in Answers
  BY <1>11, ArgumentIsName, AnswersAreCodes DEF Command
<1>12. CASE Screen(p)
  BY <1>2, <1>5, <1>11, <1>12 DEF Screen
\* The outermost call.
<1>13. ASSUME command[p] # None, exit' = exit,
              frames' = [frames EXCEPT ![p] = <<NewFrame(Argument(p))>>]
       PROVE  Descending(rank, frames'[p]) /\ exit'[p] # "stack_overflow"
  <2>1. PICK f : f = NewFrame(Argument(p))
    OBVIOUS
  <2>2. f.pkg \in Name
    BY <2>1, <1>11, <1>13 DEF NewFrame
  <2>3. 1 + rank[f.pkg] <= MaxDepth
    BY <2>2, DepthAssumption DEF NoCycle
  <2>4. frames'[p] = <<f>>
    BY <2>1, <1>13 DEF CliInv, CliType
  <2>5. Len(<<f>>) = 1 /\ <<f>>[1] = f
    OBVIOUS
  <2>6. Descending(rank, frames'[p])
    BY <2>3, <2>4, <2>5 DEF Descending
  <2> QED BY <2>6, <1>1, <1>13
<1>14. CASE CallInstall(p) \/ CallUpgrade(p)
  BY <1>5, <1>11, <1>13, <1>14 DEF CallInstall, CallUpgrade
<1>15. CASE CallUninstall(p) \/ CallFetch(p)
  BY <1>2, <1>5, <1>6, <1>15 DEF CallUninstall, CallFetch
<1>16. CASE OperationReturns(p)
  BY <1>5, <1>6, <1>7, <1>16 DEF OperationReturns
\* uppm_install.
<1>17. ASSUME Installing(p)
       PROVE  /\ s # <<>> /\ s \in Seq(Frame) /\ n \in Nat \ {0} /\ Top(p) \in Frame
              /\ Top(p) = s[n]
  BY <1>17, TopIsFrame DEF Installing
<1>18. ASSUME Installing(p), NEW f \in Frame, f.pkg = Top(p).pkg, SetTop(p, f), exit' = exit
       PROVE  Descending(rank, frames'[p]) /\ exit'[p] # "stack_overflow"
  <2>1. PICK t : t = WithTop(s, f)
    OBVIOUS
  <2>2. frames'[p] = t
    BY <2>1, <1>18 DEF SetTop, WithTop, CliInv, CliType
  <2>3. s \in Seq(Frame) /\ s # <<>>
    BY <1>17, <1>18
  <2>4. EndsWith(t, s, f)
    BY <2>1, <2>3, TopReplaced, Zenon
  <2>5. Descending(rank, t)
    <3>1. Len(t) = n /\ t[n] = f /\ \A i \in 1 .. n - 1 : t[i] = s[i]
      BY <2>4 DEF EndsWith
    <3>2. \A i \in 1 .. n : i = n \/ i \in 1 .. n - 1
      BY <1>17, <1>18
    <3>3. ASSUME NEW i \in 1 .. n
          PROVE  t[i].pkg = s[i].pkg
      BY <3>1, <3>2, <1>17, <1>18
    <3> QED BY <3>1, <3>3, <1>1 DEF Descending
  <2> QED BY <2>2, <2>5, <1>1, <1>18
<1>19. CASE LookupFormula(p)
  <2>1. CASE Top(p).pkg = Unknown
    BY <2>1, <1>5, <1>6, <1>19 DEF LookupFormula
  <2>2. CASE Top(p).pkg # Unknown
    <3> DEFINE f == [Top(p) EXCEPT !.rev = current[Top(p).pkg]]
    <3>1. Installing(p) /\ SetTop(p, f) /\ exit' = exit
      BY <2>2, <1>19 DEF LookupFormula
    <3>2. current[Top(p).pkg] \in Nat
      BY <2>2, <3>1, <1>17, BoundAssumption
      DEF Frame, Name, CliInv, TypeOK, DiskTypeOK, Revision
    <3>3. f \in Frame /\ f.pkg = Top(p).pkg
      BY <3>1, <3>2, <1>17 DEF Frame
    <3> QED BY <3>1, <3>3, <1>18
  <2> QED BY <2>1, <2>2
<1>20. CASE InstallDependency(p)
  <2>1. /\ Installing(p) /\ Top(p).rev # 0 /\ Top(p).next <= Len(Deps(Top(p)))
        /\ exit' = exit
    BY <1>20 DEF InstallDependency
  <2>2. PICK f : f = [Top(p) EXCEPT !.next = @ + 1]
    OBVIOUS
  <2>3. PICK g : g = NewFrame(Deps(Top(p))[Top(p).next])
    OBVIOUS
  <2>4. PICK t : t = WithCall(s, f, g)
    OBVIOUS
  <2>5. frames'[p] = t
    BY <2>2, <2>3, <2>4, <1>20 DEF InstallDependency, WithCall, CliInv, CliType
  <2>6. /\ Deps(Top(p))[Top(p).next] \in Name
        /\ n + 1 + rank[Deps(Top(p))[Top(p).next]] <= MaxDepth
    BY <2>1, <1>17, StackHasRoom
  <2>7. g \in Frame /\ g.pkg = Deps(Top(p))[Top(p).next]
    BY <2>3, <2>6 DEF NewFrame, Frame
  <2>8. f \in Frame /\ f.pkg = Top(p).pkg
    <3>1. PICK m : m = Top(p).next + 1
      OBVIOUS
    <3>2. m \in Nat \ {0}
      BY <2>1, <3>1, <1>17 DEF Frame
    <3>3. f = [Top(p) EXCEPT !.next = m]
      BY <2>2, <3>1
    <3> QED BY <2>1, <3>2, <3>3, <1>17 DEF Frame
  <2>9. s \in Seq(Frame) /\ s # <<>>
    BY <2>1, <1>17
  <2>10. EndsWithBoth(t, s, f, g)
    BY <2>4, <2>7, <2>8, <2>9, CallMade, Zenon
  <2>11. Descending(rank, t)
    <3>1. Len(t) = n + 1 /\ t[n] = f /\ t[n + 1] = g /\ \A i \in 1 .. n - 1 : t[i] = s[i]
      BY <2>10 DEF EndsWithBoth
    <3>2. \A i \in 1 .. n + 1 : i = n + 1 \/ i = n \/ i \in 1 .. n - 1
      BY <2>1, <1>17
    <3>3. \A i \in 1 .. n : i + rank[s[i].pkg] <= MaxDepth
      BY <1>1 DEF Descending
    <3>4. ASSUME NEW i \in 1 .. n + 1
          PROVE  i + rank[t[i].pkg] <= MaxDepth
      <4>1. CASE i = n + 1
        BY <4>1, <2>6, <2>7, <3>1
      <4>2. CASE i = n
        BY <4>2, <2>1, <2>8, <3>1, <3>3, <1>17
      <4>3. CASE i \in 1 .. n - 1
        BY <4>3, <2>1, <3>1, <3>3, <1>17
      <4> QED BY <3>2, <4>1, <4>2, <4>3
    <3> QED BY <3>1, <3>4 DEF Descending
  <2> QED BY <2>1, <2>5, <2>11, <1>1
<1>21. CASE StackOverflow(p)
  <2>1. /\ Top(p).rev # 0 /\ Top(p).next <= Len(Deps(Top(p))) /\ n = MaxDepth /\ s # <<>>
    BY <1>17, <1>21 DEF StackOverflow
  <2>2. n < MaxDepth
    BY <2>1, StackHasRoom
  <2> QED BY <2>1, <2>2, DepthAssumption
<1>22. CASE InstallPackage(p)
  <2> DEFINE f == [Top(p) EXCEPT !.built = TRUE]
  <2>1. Installing(p) /\ SetTop(p, f) /\ exit' = exit
    BY <1>22 DEF InstallPackage
  <2>2. f \in Frame /\ f.pkg = Top(p).pkg
    BY <2>1, <1>17 DEF Frame
  <2> QED BY <2>1, <2>2, <1>18
<1>23. CASE InstallReturns(p)
  <2>1. CASE Exit(p, result[p])
    BY <2>1, <1>5, <1>6
  <2>2. CASE NextArgument(p)
    BY <2>2, <1>7
  <2>3. CASE frames' = [frames EXCEPT ![p] = Front(@)] /\ exit' = exit
    <3>1. PICK t : t = Front(s)
      OBVIOUS
    <3>2. s \in Seq(Frame) /\ s # <<>> /\ n \in Nat \ {0}
      BY <1>17, <1>23 DEF InstallReturns
    <3>3. t \in Seq(Frame) /\ Len(t) = n - 1 /\ \A i \in 1 .. n - 1 : t[i] = s[i]
      BY <3>1, <3>2, CallReturned, Zenon
    <3>4. frames'[p] = t
      BY <2>3, <3>1 DEF CliInv, CliType
    <3>5. \A i \in 1 .. n - 1 : i \in 1 .. n
      BY <3>2
    <3>6. Descending(rank, t)
      BY <3>3, <3>5, <1>1 DEF Descending
    <3> QED BY <2>3, <3>4, <3>6, <1>1
  <2> QED BY <2>1, <2>2, <2>3, <1>23 DEF InstallReturns
<1> QED
  BY <1>8, <1>9, <1>10, <1>12, <1>14, <1>15, <1>16, <1>19, <1>20, <1>21, <1>22, <1>23 DEF Main

LEMMA InitDepth == ASSUME NEW rank, NoCycle(rank), UppmInit PROVE DepthInv(rank)
<1>1. Len(<<>>) = 0
  OBVIOUS
<1>2. \A p \in Pid : frames[p] = <<>> /\ exit[p] = "none"
  BY DEF UppmInit
<1> QED BY <1>1, <1>2 DEF DepthInv, Descending

LEMMA NextDepth ==
  ASSUME NEW rank, NoCycle(rank), CliInv, DepthInv(rank), [UppmNext]_<<cli, vars>>
  PROVE  DepthInv(rank)'
<1>1. SUFFICES ASSUME NEW q \in Pid
               PROVE  Descending(rank, frames'[q]) /\ exit'[q] # "stack_overflow"
  BY DEF DepthInv, Descending
<1>2. CASE frames'[q] = frames[q] /\ exit'[q] = exit[q]
  BY <1>2 DEF DepthInv
<1>3. ASSUME NEW p \in Pid,
             \/ \E line \in CommandLine : Invoke(p, line.verb, line.args)
             \/ Main(p) \/ Work(p) \/ Fail(p) \/ Kill(p)
      PROVE  Descending(rank, frames'[q]) /\ exit'[q] # "stack_overflow"
  <2>1. CASE p = q
    BY <1>3, <2>1, DepthStep
  <2>2. CASE p # q
    <3>1. CASE UNCHANGED cli
      BY <1>2, <3>1 DEF cli
    <3>2. CASE Others(p)
      BY <1>2, <2>2, <3>2 DEF Others
    <3> QED BY <3>1, <3>2, <1>3, OthersCli DEF Work, Fail
  <2> QED BY <2>1, <2>2
<1>4. CASE Elsewhere \/ UNCHANGED <<cli, vars>>
  BY <1>2, <1>4 DEF Elsewhere, cli
<1> QED BY <1>3, <1>4 DEF UppmNext

\* Where the dependencies have no cycle, no command ends with the stack full: the
\* recursion of uppm_install, which nothing else bounds, ends by itself, even if the
\* formulas change while it runs.
THEOREM RecursionEndsWithoutCycle ==
  ASSUME NEW rank, NoCycle(rank)
  PROVE  UppmSpec => []RecursionEnds
<1>1. UppmInit => CliInv /\ DepthInv(rank)
  BY InitCli, InitDepth
<1>2. CliInv /\ DepthInv(rank) /\ [UppmNext]_<<cli, vars>> => (CliInv /\ DepthInv(rank))'
  BY NextCli, NextDepth
<1>3. DepthInv(rank) => RecursionEnds
  BY DEF DepthInv, RecursionEnds
<1> QED BY <1>1, <1>2, <1>3, PTL DEF UppmSpec

-----------------------------------------------------------------------------
(***************************************************************************)
(* One command after the other: what a command that ends well has done.    *)
(* Nobody else is at work, so the invariant follows the one process that   *)
(* is: its calls of uppm_install and what they have installed so far, and  *)
(* the sessions it has begun.                                              *)
(***************************************************************************)
InstallVerbs == {"install", "reinstall", "upgrade"}

\* A call has parsed the present formula.
CallOK(f) ==
  /\ f.rev = 0 => f.next = 1
  /\ f.rev # 0 => f.rev = current[f.pkg] /\ f.next <= Len(Deps(f)) + 1
  /\ f.built => f.rev # 0 /\ f.next = Len(Deps(f)) + 1

\* g is the call f has made for its dependency.
Calls(f, g) ==
  /\ f.rev # 0 /\ ~f.built
  /\ f.next - 1 \in 1 .. Len(Deps(f)) /\ g.pkg = Deps(f)[f.next - 1]

\* The operation p is inside is the one its command line has called.
JobOK(p) ==
  pc[p] \in Steps =>
    /\ command[p].verb \in InstallVerbs =>
         job[p].cmd = "install" /\ Top(p).built /\ job[p].pkg = Top(p).pkg
    /\ command[p].verb = "uninstall" => job[p].cmd = "uninstall" /\ job[p].pkg = Argument(p)
    /\ command[p].verb = "fetch" =>
         job[p].cmd = "fetch" /\ job[p].pkg = Argument(p) /\ job[p].rev = current[job[p].pkg]
    /\ command[p].verb # "install" => pc[p] \notin {"check_link", "check_receipt"}

\* The operation main() has called, or the innermost call of uppm_install, has returned.
Returned(p) ==
  /\ command[p].phase = "in" /\ pc[p] = "idle"
  /\ frames[p] = <<>> \/ Top(p).built

FramesOK(p) ==
  /\ frames[p] # <<>> => frames[p][1].pkg = Argument(p)
  /\ \A i \in 1 .. Len(frames[p]) : CallOK(frames[p][i])
  /\ \A i \in 1 .. Len(frames[p]) - 1 : Calls(frames[p][i], frames[p][i + 1])

Shape(p) ==
  command[p] # None =>
    /\ exit[p] = "none"
    /\ command[p].phase = "in" => (command[p].verb \in InstallVerbs <=> frames[p] # <<>>)
    /\ command[p].phase # "screen" /\ command[p].verb = "fetch" => command[p].arg = 1
    /\ Returned(p) => result[p] # "none"
    /\ FramesOK(p)
    /\ JobOK(p)

\* The receipt is that of the present formula.
Copied(p) ==
  Holding(p) /\ Sid(p) \notin reused /\ pc[p] \in Linking =>
    dir[Sid(p)].rev = current[job[p].pkg]

\* p works in a directory it has made before: it will clear it, and that ends in an error.
Clearing(p) == Holding(p) /\ Sid(p) \in reused

Spent(p) ==
  Clearing(p) =>
    /\ pc[p] \in {"lookup", "fetch", "fetching", "verify", "real_dir", "clear", "remake"}
    /\ pc[p] \notin {"clear", "remake"} => dir[Sid(p)] # None

\* Nothing but an error can come of the command.
Doomed(p) == Clearing(p) \/ (Returned(p) /\ result[p] # "ok")

\* A process that has not installed anything has begun no session; what one has begun it
\* has made.
Fresh(p) ==
  (IF command[p] = None THEN exit[p] = "none" ELSE command[p].verb \notin InstallVerbs) =>
    \A s \in started : s.pid # p

Made(p) ==
  command[p] # None /\ ~Doomed(p) =>
    \A s \in started : s.pid = p => dir[s] # None \/ (Holding(p) /\ Sid(p) = s)

\* k is as the command wants it; so is everything k needs, but for the package that is
\* being installed right now.
Good(p, k) ==
  /\ Installation(k) = "ok"
  /\ command[p].verb # "install" => dir[link[k]].rev = current[k]

Settled(p, k) == \A l \in Needed(k) : Good(p, l) \/ (pc[p] \in Steps /\ job[p].pkg = l)

\* The arguments before the present one are settled, and so are the dependencies every
\* call has dealt with.
ArgumentsSettled(p) == \A j \in 1 .. command[p].arg - 1 : Settled(p, command[p].args[j])

CallsSettled(p) ==
  \A i \in 1 .. Len(frames[p]) : \A j \in 1 .. frames[p][i].next - 1 :
     i = Len(frames[p]) \/ j < frames[p][i].next - 1 => Settled(p, Deps(frames[p][i])[j])

Installs(p) ==
  /\ command[p] # None /\ command[p].verb \in InstallVerbs /\ command[p].phase # "screen"
  /\ ~Doomed(p)

ArgumentsDone(p) ==
  Installs(p) =>
    /\ ArgumentsSettled(p)
    /\ CallsSettled(p)
    /\ Returned(p) => Good(p, Top(p).pkg)

Removed(p) ==
  command[p] # None /\ command[p].verb = "uninstall" /\ command[p].phase # "screen" =>
    /\ \A j \in 1 .. command[p].arg - 1 : ~Linked(command[p].args[j])
    /\ pc[p] = "u_remove" \/ (Returned(p) /\ result[p] = "ok") => ~Linked(Argument(p))

Fetched(p) ==
  command[p] # None /\ command[p].verb = "fetch" /\ Returned(p) /\ result[p] = "ok" =>
    Achieved("fetch", Argument(p))

Alone == \A p, q \in Pid : command[p] # None /\ command[q] # None => p = q

Progress(p) == ArgumentsDone(p) /\ Removed(p) /\ Fetched(p)

Sessions(p) == Copied(p) /\ Spent(p) /\ Fresh(p) /\ Made(p)

Serial(p) == Shape(p) /\ Sessions(p) /\ Progress(p)

\* One command at a time: no link is made while another installation is emptying its name.
Unexposed == exposed = {}

SerialInv == Alone /\ Unexposed /\ \A p \in Pid : Serial(p)

AllInv == CliInv /\ Inv /\ SerialInv

-----------------------------------------------------------------------------
(***************************************************************************)
(* What a package needs.                                                   *)
(***************************************************************************)
LEMMA NeededSelf == ASSUME NEW k \in Name PROVE k \in Needed(k)
BY DEF Needed

LEMMA PresentDeps ==
  ASSUME TypeOK, NEW k \in Package
  PROVE  /\ Dependency[k][current[k]] \in Seq(Name)
         /\ ToSet(Dependency[k][current[k]]) \subseteq Name
         /\ \A d \in ToSet(Dependency[k][current[k]]) :
              \E j \in 1 .. Len(Dependency[k][current[k]]) : d = Dependency[k][current[k]][j]
<1>1. current[k] \in Revision
  BY DEF TypeOK, DiskTypeOK
<1>2. PICK s \in Seq(Name) : s = Dependency[k][current[k]]
  BY <1>1, DependencyAssumption
<1>3. DOMAIN s = 1 .. Len(s) /\ \A j \in 1 .. Len(s) : s[j] \in Name
  BY LenProperties, ElementOfSeq
<1> QED BY <1>2, <1>3 DEF ToSet

\* A package needs itself and what its dependencies need.
LEMMA NeededStep ==
  ASSUME TypeOK, NEW k \in Package, NEW l \in Needed(k), l # k
  PROVE  \E d \in ToSet(Dependency[k][current[k]]) : l \in Needed(d)
<1> DEFINE D == ToSet(Dependency[k][current[k]])
           S == {k} \cup {m \in Name : \E d \in D : m \in Needed(d)}
<1>1. S \in SUBSET Name /\ k \in S
  BY DEF Name
<1>2. ASSUME NEW m \in S \cap Package, NEW e \in ToSet(Dependency[m][current[m]])
      PROVE  e \in S
  <2>1. e \in Name
    BY PresentDeps
  <2>2. CASE m = k
    BY <2>1, <2>2, NeededSelf
  <2>3. ASSUME NEW d \in D, m \in Needed(d)
        PROVE  e \in Needed(d)
    <3>1. ASSUME NEW T \in SUBSET Name, d \in T, Closed(T)
          PROVE  e \in T
      <4>1. m \in T
        BY <2>3, <3>1 DEF Needed
      <4> QED BY <3>1, <4>1 DEF Closed
    <3> QED BY <2>1, <3>1 DEF Needed
  <2> QED BY <2>1, <2>2, <2>3
<1>3. Closed(S)
  BY <1>2 DEF Closed
<1>4. l \in S
  BY <1>1, <1>3 DEF Needed
<1> QED BY <1>4

\* It is settled once it is as it should be and its dependencies are settled.
LEMMA SettledBy ==
  ASSUME TypeOK, NEW p \in Pid, NEW k \in Package, Good(p, k),
         \A j \in 1 .. Len(Dependency[k][current[k]]) : Settled(p, Dependency[k][current[k]][j])
  PROVE  Settled(p, k)
<1> SUFFICES ASSUME NEW l \in Needed(k), l # k
             PROVE  Good(p, l) \/ (pc[p] \in Steps /\ job[p].pkg = l)
  BY DEF Settled
<1>1. PICK d \in ToSet(Dependency[k][current[k]]) : l \in Needed(d)
  BY NeededStep
<1>2. Settled(p, d)
  BY <1>1, PresentDeps
<1> QED BY <1>1, <1>2 DEF Settled

\* It stays settled if the packages it needs stay as they are.
LEMMA SettledStays ==
  ASSUME NEW p \in Pid, NEW k, Settled(p, k), current' = current,
         \A l \in Name : Good(p, l) \/ (pc[p] \in Steps /\ job[p].pkg = l)
                          => Good(p, l)' \/ (pc'[p] \in Steps /\ job'[p].pkg = l)
  PROVE  Settled(p, k)'
<1>1. Needed(k)' = Needed(k)
  BY DEF Needed, Closed
<1>2. Needed(k) \subseteq Name
  BY DEF Needed
<1> QED BY <1>1, <1>2 DEF Settled

\* A step outside the store.
LEMMA GoodSame ==
  ASSUME NEW p \in Pid, NEW k, Good(p, k), UNCHANGED <<current, dir, link>>,
         command'[p].verb = command[p].verb
  PROVE  Good(p, k)'
BY DEF Good, Installation, Linked, HasReceipt

-----------------------------------------------------------------------------
(***************************************************************************)
(* A step of the store, from the process inside the operation.             *)
(***************************************************************************)
LEMMA WorkIsInside ==
  ASSUME NEW p \in Pid, Work(p) \/ Fail(p)
  PROVE  pc[p] \in Steps /\ UNCHANGED cli /\ Step(p)
<1>1. ASSUME InstallStep(p)
      PROVE  pc[p] \in Steps
  BY <1>1, StepTable
  DEF InstallStep, CheckLink, CheckReceipt, StartSession, LookupDownload, FetchLookup,
      FetchName, FetchOpen, FetchDone, VerifyAndRename, MakeRealDir, ClearRealDir,
      RemakeRealDir, Unpack, RunInstallScript, RecordFiles, CreateReceipt, CopyFormula,
      MakeLink, InspectLink, UnlinkOld, StatInWay, OpenInWay, RemoveInWay
<1>2. ASSUME UninstallStep(p)
      PROVE  pc[p] \in Steps
  BY <1>2, StepTable
  DEF UninstallStep, UninstallCheckLink, UninstallCheckReceipt, UninstallReadLink,
      UninstallCheckDir, UninstallUnlink, UninstallRemove
<1>3. ASSUME Fault(p)
      PROVE  pc[p] \in Steps
  BY <1>3, StepTable DEF Fault, FetchFails, CallFails, FallibleSteps
<1> QED BY <1>1, <1>2, <1>3 DEF Work, Fail, Step

\* The operation goes on, or it returns an error, or it is done.
Going(p) ==
  /\ pc'[p] \in Steps
  /\ job'[p].cmd = job[p].cmd /\ job'[p].pkg = job[p].pkg /\ job'[p].rev = job[p].rev
  /\ pc'[p] \in {"check_link", "check_receipt"} => pc[p] \in {"check_link", "check_receipt"}

Giving(p) == pc'[p] = "idle" /\ result'[p] \notin {"none", "ok"}

Finishing(p) ==
  /\ pc'[p] = "idle" /\ result'[p] = "ok"
  /\ \/ CheckReceipt(p) /\ HasReceipt(job[p].pkg)
     \/ FetchLookup(p) /\ Downloaded(p)
     \/ VerifyAndRename(p) /\ job[p].cmd # "install" /\ partial[Sid(p)] = Text(p).sha
     \/ MakeLink(p) /\ link[job[p].pkg] = None
     \/ UninstallRemove(p)

LEMMA OperationGoes ==
  ASSUME TypeOK, NEW p \in Pid, InstallStep(p) \/ UninstallStep(p) \/ Fault(p)
  PROVE  UNCHANGED current /\ (Going(p) \/ Giving(p) \/ Finishing(p))
<1> USE StepTable DEF TypeOK, ProcTypeOK
<1>1. \A r : Return(p, r) => pc'[p] = "idle" /\ result'[p] = r
  BY DEF Return
<1>2. \A step : Goto(p, step) => pc'[p] = step /\ job'[p] = job[p]
  BY DEF Goto
<1>3. CASE Fault(p)
  BY <1>1, <1>3 DEF Fault, FetchFails, CallFails, Giving, env
<1>4. CASE CheckLink(p) \/ CheckReceipt(p) \/ LookupDownload(p) \/ FetchLookup(p)
  BY <1>1, <1>2, <1>4
  DEF CheckLink, CheckReceipt, LookupDownload, FetchLookup, Going, Giving, Finishing, env
<1>5. CASE StartSession(p) \/ FetchName(p)
  <2>1. job[p] \in Job
    BY <1>5 DEF StartSession, FetchName
  <2>2. job' = [job EXCEPT ![p].sid = NewSession(p)] /\ UNCHANGED current
    BY <1>5 DEF StartSession, FetchName, env
  <2>3. /\ job'[p].cmd = job[p].cmd /\ job'[p].pkg = job[p].pkg /\ job'[p].rev = job[p].rev
    BY <2>1, <2>2 DEF Job
  <2>4. pc'[p] \in {"lookup", "fetch"}
    BY <1>5 DEF StartSession, FetchName
  <2> QED BY <2>2, <2>3, <2>4 DEF Going
<1>6. CASE FetchOpen(p) \/ (\E c \in File : FetchDone(p, c)) \/ VerifyAndRename(p)
  BY <1>1, <1>2, <1>6 DEF FetchOpen, FetchDone, VerifyAndRename, Going, Giving, Finishing, env
<1>7. CASE MakeRealDir(p) \/ ClearRealDir(p) \/ RemakeRealDir(p)
  BY <1>1, <1>2, <1>7 DEF MakeRealDir, ClearRealDir, RemakeRealDir, Going, Giving, env
<1>8. CASE Unpack(p) \/ RunInstallScript(p) \/ RecordFiles(p) \/ CreateReceipt(p) \/ CopyFormula(p)
  BY <1>1, <1>2, <1>8
  DEF Unpack, RunInstallScript, RecordFiles, CreateReceipt, CopyFormula, Going, Giving, env
<1>9. CASE MakeLink(p) \/ InspectLink(p) \/ UnlinkOld(p) \/ StatInWay(p) \/ OpenInWay(p) \/ RemoveInWay(p)
  BY <1>1, <1>2, <1>9 DEF MakeLink, InspectLink, UnlinkOld,
      StatInWay, OpenInWay, RemoveInWay, Going, Giving, Finishing, env
<1>10. CASE UninstallReadLink(p)
  <2>1. CASE Linked(job[p].pkg)
    <3>1. job[p] \in Job /\ job' = [job EXCEPT ![p].sid = link[job[p].pkg]]
      BY <1>10, <2>1 DEF UninstallReadLink
    <3>2. job'[p].cmd = job[p].cmd /\ job'[p].pkg = job[p].pkg /\ job'[p].rev = job[p].rev
      BY <3>1 DEF Job
    <3> QED BY <1>10, <2>1, <3>2 DEF UninstallReadLink, Going, env
  <2> QED BY <2>1, <1>1, <1>10 DEF UninstallReadLink, Giving, env
<1>11. CASE UninstallCheckLink(p) \/ UninstallCheckReceipt(p) \/ UninstallCheckDir(p)
  BY <1>1, <1>2, <1>11
  DEF UninstallCheckLink, UninstallCheckReceipt, UninstallCheckDir, Going, Giving, env
<1>12. CASE UninstallUnlink(p) \/ UninstallRemove(p)
  BY <1>1, <1>2, <1>12 DEF UninstallUnlink, UninstallRemove, Going, Giving, Finishing, env
<1> QED BY <1>3, <1>4, <1>5, <1>6, <1>7, <1>8, <1>9, <1>10, <1>11, <1>12
        DEF InstallStep, UninstallStep

\* It changes no name but that of its package.
LEMMA OwnLink ==
  ASSUME TypeOK, NEW p \in Pid, InstallStep(p) \/ UninstallStep(p) \/ Fault(p),
         NEW k \in Package, link'[k] # link[k]
  PROVE  job[p].pkg = k
<1> USE DEF TypeOK, DiskTypeOK
<1>1. CASE Fault(p)
  BY <1>1 DEF Fault, FetchFails, CallFails, disk
<1>2. CASE InstallStep(p)
  BY <1>2 DEF InstallStep, CheckLink, CheckReceipt, disk,
     StartSession, LookupDownload, FetchLookup, FetchName, FetchOpen, FetchDone, VerifyAndRename,
     MakeRealDir, ClearRealDir, RemakeRealDir, Unpack, RunInstallScript, RecordFiles,
     CreateReceipt, CopyFormula, MakeLink, InspectLink, UnlinkOld, StatInWay, OpenInWay, RemoveInWay
<1>3. CASE UninstallStep(p)
  BY <1>3 DEF UninstallStep, UninstallCheckLink, UninstallReadLink,
     UninstallCheckReceipt, UninstallCheckDir, UninstallUnlink, UninstallRemove, disk
<1> QED BY <1>1, <1>2, <1>3

\* The step of the one command there is.
LEMMA AtWork ==
  ASSUME AllInv, NEW p \in Pid, Work(p) \/ Fail(p)
  PROVE  /\ command[p] # None /\ command[p].phase = "in" /\ command[p].verb \in Verb
         /\ Shape(p) /\ Sessions(p) /\ Progress(p)
         /\ pc[p] \in Steps /\ job[p] \in Job /\ (pc[p] \in UninstallSteps <=> job[p].cmd = "uninstall")
         /\ Phase(p) /\ Named(p) /\ Private(p) /\ Grown(p)
         /\ UNCHANGED <<command, frames, exit, current>>
         /\ InstallStep(p) \/ UninstallStep(p) \/ Fault(p)
         /\ Going(p) \/ Giving(p) \/ Finishing(p)
         /\ [Next]_vars /\ CliInv' /\ Inv' /\ TypeOK /\ TypeOK'
         /\ \A q \in Pid \ {p} : pc[q] \notin Steps
<1>1. pc[p] \in Steps /\ UNCHANGED cli /\ Step(p)
  BY WorkIsInside
<1>2. TypeOK /\ (InstallStep(p) \/ UninstallStep(p) \/ Fault(p))
  BY DEF Work, Fail, AllInv, CliInv
<1>3. UNCHANGED current /\ (Going(p) \/ Giving(p) \/ Finishing(p))
  BY <1>2, OperationGoes DEF AllInv, CliInv
<1>4. [Next]_vars
  BY <1>2 DEF Next
<1>5. [UppmNext]_<<cli, vars>>
  BY DEF UppmNext
<1>6. CliInv' /\ Inv'
  BY <1>4, <1>5, NextCli, NextInv DEF AllInv
<1>7. command[p] # None /\ command[p].phase = "in"
  BY <1>1 DEF AllInv, CliInv, CommandOK
<1>8. command[p].verb \in Verb
  BY <1>7, ArgumentIsName DEF AllInv, Command
<1>9. \A q \in Pid \ {p} : pc[q] \notin Steps
  BY <1>7 DEF AllInv, CliInv, CommandOK, SerialInv, Alone
<1>10. job[p] \in Job /\ (pc[p] \in UninstallSteps <=> job[p].cmd = "uninstall")
  BY <1>1 DEF AllInv, CliInv, TypeOK, ProcTypeOK
<1> QED BY <1>1, <1>2, <1>3, <1>4, <1>6, <1>7, <1>8, <1>9, <1>10
        DEF AllInv, SerialInv, Serial, Inv, ProcessOK, CliInv, cli

\* The directories that the step of an installation changes: its own.
LEMMA OwnDir ==
  ASSUME AllInv, NEW p \in Pid, Work(p) \/ Fail(p), job[p].cmd # "uninstall",
         NEW s \in Session, dir'[s] # dir[s]
  PROVE  Holding(p) /\ Sid(p) = s
<1>0. ~Gutted(s)
  BY DEF Gutted, AllInv, Inv, RemovalOK, SerialInv, Unexposed
<1>1. PICK q \in Pid : Step(q) /\ Touches(q, s)
  BY <1>0, AtWork, DirSummary DEF AllInv, Inv
<1>2. pc[q] \in Steps
  BY <1>1, StepTable DEF Touches, Holding
<1>3. q = p
  BY <1>2, AtWork
<1>4. pc[p] # "u_remove"
  BY AtWork, StepTable
<1> QED BY <1>1, <1>3, <1>4 DEF Touches

\* A package other than the one that is being installed stays as it is.
LEMMA OtherGood ==
  ASSUME AllInv, NEW p \in Pid, Work(p) \/ Fail(p), job[p].cmd = "install", ~Clearing(p),
         NEW l \in Name, Good(p, l), job[p].pkg # l
  PROVE  Good(p, l)'
<1>1. l \in Package /\ Linked(l) /\ HasReceipt(l)
  BY DEF Good, Installation, Name
<1>2. link'[l] = link[l]
  BY <1>1, AtWork, OwnLink
<1>3. link[l] \in Session
  BY <1>1 DEF Linked
<1>4. dir'[link[l]] = dir[link[l]]
  <2>1. ASSUME Holding(p), Sid(p) = link[l]
        PROVE  FALSE
    BY <1>1, <2>1, AtWork DEF Private, Clearing
  <2> QED BY <2>1, <1>3, OwnDir
<1> QED BY <1>2, <1>4, AtWork DEF Good, Installation, Linked, HasReceipt

\* So is the one that has been installed.
LEMMA NewGood ==
  ASSUME AllInv, NEW p \in Pid, Work(p) \/ Fail(p), command[p].verb \in InstallVerbs, Finishing(p),
         NEW k \in Package, job[p].pkg = k
  PROVE  Good(p, k)' /\ ~Clearing(p)
<1>1. /\ job[p].cmd = "install" /\ pc[p] \notin UninstallSteps /\ pc[p] \notin FetchSteps
      /\ k \in Package /\ k # Unknown /\ Spent(p)
  BY AtWork, DependencyAssumption DEF Shape, JobOK, Job, Phase, Sessions, InstallVerbs
<1>2. CASE CheckReceipt(p) /\ HasReceipt(k)
  <2>1. UNCHANGED <<dir, link>> /\ pc[p] = "check_receipt"
    BY <1>2 DEF CheckReceipt, disk
  <2>2. command[p].verb = "install"
    BY <2>1, AtWork DEF Shape, JobOK
  <2>3. ~Clearing(p)
    BY <1>1, <2>1 DEF Spent
  <2> QED BY <1>1, <1>2, <2>1, <2>2, <2>3, AtWork DEF Good, Installation, Linked, HasReceipt
<1>3. CASE MakeLink(p) /\ link[k] = None
  <2> DEFINE s == Sid(p)
  <2>1. pc[p] = "link" /\ Holding(p) /\ s \in Session
    BY <1>3, MakeLinkHolds, AtWork DEF AllInv, Inv, MakeLink
  <2>2. ~Clearing(p)
    BY <1>1, <2>1 DEF Spent
  <2>3. s \notin reused
    BY <2>1, <2>2 DEF Clearing
  <2>4. dir[s] # None /\ dir[s].receipt # "none" /\ dir[s].rev = current[k]
    BY <2>1, <2>3, AtWork DEF Grown, Sessions, Copied, Linking
  <2>5. link'[k] = s /\ dir' = dir
    BY <1>1, <1>3, AtWork DEF MakeLink, TypeOK, DiskTypeOK
  <2> HIDE DEF s
  <2> QED BY <1>1, <2>1, <2>2, <2>4, <2>5, AtWork DEF Good, Installation, Linked, HasReceipt
<1> QED
  BY <1>1, <1>2, <1>3, StepTable DEF Finishing, FetchLookup, FetchSteps, UninstallRemove

\* What is doomed does not recover.
LEMMA StaysDoomed ==
  ASSUME AllInv, NEW p \in Pid, Work(p) \/ Fail(p), command[p].verb \in InstallVerbs, Clearing(p)
  PROVE  Doomed(p)'
<1>1. job[p].cmd = "install" /\ job[p].sid # None /\ Top(p).built /\ job[p].pkg \in Package
  BY AtWork DEF Clearing, Holding, Shape, JobOK, Job
<1>2. CASE Going(p)
  <2>1. ~StartSession(p)
    BY <1>1, AtWork, StepTable DEF StartSession, Phase
  <2>2. ~FetchName(p)
    BY <1>1, AtWork, StepTable DEF FetchName, Phase, FetchSteps
  <2>3. ~UninstallReadLink(p)
    BY <1>1, AtWork, StepTable DEF UninstallReadLink
  <2>4. job'[p] = job[p]
    BY <1>2, <2>1, <2>2, <2>3, AtWork, OwnJob, StepTable DEF AllInv, Inv, Going, Step
  <2>5. reused \subseteq reused'
    BY AtWork, Monotone
  <2> QED BY <1>1, <1>2, <2>4, <2>5 DEF Going, Clearing, Holding, Sid, Doomed
<1>3. CASE Giving(p)
  BY <1>1, <1>3, AtWork DEF Giving, Doomed, Returned, Top
<1>4. CASE Finishing(p)
  BY <1>1, <1>4, NewGood
<1> QED BY <1>2, <1>3, <1>4, AtWork

LEMMA WorkShape ==
  ASSUME AllInv, NEW p \in Pid, Work(p) \/ Fail(p)
  PROVE  Shape(p)'
<1>1. /\ exit'[p] = "none" /\ command'[p] = command[p] /\ frames'[p] = frames[p]
      /\ command[p].phase = "in" => (command[p].verb \in InstallVerbs <=> frames[p] # <<>>)
      /\ command[p].phase # "screen" /\ command[p].verb = "fetch" => command[p].arg = 1
  BY AtWork DEF Shape
<1>2. \A f, g : (CallOK(f) => CallOK(f)') /\ (Calls(f, g) => Calls(f, g)')
  BY AtWork DEF CallOK, Calls, Deps
<1>3. FramesOK(p)'
  BY <1>1, <1>2, AtWork DEF Shape, FramesOK, Argument
<1>4. Returned(p)' => result'[p] # "none"
  BY AtWork, StepTable DEF Going, Giving, Finishing, Returned
<1>5. JobOK(p)'
  <2>1. CASE Going(p)
    BY <1>1, <2>1, AtWork DEF Going, Shape, JobOK, Top, Argument
  <2>2. CASE ~Going(p)
    BY <2>2, AtWork, StepTable DEF Giving, Finishing, JobOK
  <2> QED BY <2>1, <2>2
<1> QED BY <1>1, <1>3, <1>4, <1>5 DEF Shape

\* Only an installation that names its session begins one.
LEMMA NothingBegun ==
  ASSUME NEW p \in Pid, InstallStep(p) \/ UninstallStep(p) \/ Fault(p), ~StartSession(p)
  PROVE  UNCHANGED <<reused, started>>
<1>1. CASE InstallStep(p)
  BY <1>1 DEF InstallStep, CheckLink, CheckReceipt, hist,
    LookupDownload, FetchLookup, FetchName, FetchOpen, FetchDone, VerifyAndRename,
    MakeRealDir, ClearRealDir, RemakeRealDir, Unpack, RunInstallScript, RecordFiles,
    CreateReceipt, CopyFormula, MakeLink, InspectLink, UnlinkOld, StatInWay, OpenInWay, RemoveInWay
<1>2. CASE UninstallStep(p) \/ Fault(p)
  BY <1>2 DEF UninstallStep, UninstallCheckLink, UninstallReadLink, UninstallCheckReceipt,
    UninstallCheckDir, UninstallUnlink, UninstallRemove, Fault, FetchFails, CallFails, hist
<1> QED BY <1>1, <1>2

\* The sessions of an installation.
LEMMA WorkSessions ==
  ASSUME AllInv, NEW p \in Pid, Work(p) \/ Fail(p), command[p].verb \in InstallVerbs
  PROVE  Sessions(p)'
<1>1. /\ job[p].cmd = "install" /\ command'[p] = command[p] /\ Top(p)' = Top(p) /\ Top(p).built
      /\ command[p] # None /\ command[p].phase = "in" /\ pc[p] \notin UninstallSteps
      /\ pc[p] \notin FetchSteps /\ current' = current /\ job[p].pkg \in Package
  BY AtWork DEF Shape, JobOK, Phase, Top, Job
<1>2. reused \subseteq reused' /\ started \subseteq started'
  BY AtWork, Monotone
<1>3. CASE StartSession(p)
  <2> DEFINE s == NewSession(p)
  <2>1. /\ pc[p] = "session" /\ job' = [job EXCEPT ![p].sid = s] /\ pc'[p] = "lookup"
        /\ started' = started \cup {s} /\ reused' = reused \cup ({s} \cap started)
        /\ UNCHANGED dir
    BY <1>3, AtWork DEF StartSession, TypeOK, ProcTypeOK, disk
  <2>2. ~Clearing(p) /\ ~Holding(p) /\ ~Returned(p)
    BY <1>1, <2>1, AtWork, StepTable DEF Clearing, Holding, Returned, Phase
  <2>3. job'[p].sid = s /\ job'[p].cmd = "install" /\ s.pid = p /\ s # None
    <3>1. s \in Session
      BY <2>1, AtWork, FormulaAssumption
      DEF NewSession, Session, Text, Job, TypeOK, DiskTypeOK
    <3>2. job'[p] = [job[p] EXCEPT !.sid = s]
      BY <2>1, AtWork DEF TypeOK, ProcTypeOK
    <3> HIDE DEF s
    <3>3. job'[p].sid = s /\ job'[p].cmd = "install"
      BY <1>1, <3>2, AtWork DEF Job
    <3>4. s.pid = p
      BY DEF NewSession, s
    <3> QED BY <3>1, <3>3, <3>4, MarkAssumption
  <2>4. Holding(p)' /\ Sid(p)' = s
    BY <2>1, <2>3, StepTable DEF Holding, Sid
  <2>5. ASSUME s \in started
        PROVE  dir[s] # None
    BY <1>1, <2>2, <2>3, <2>5, AtWork DEF Sessions, Made, Doomed
  <2> HIDE DEF s
  <2>6. reused \subseteq started
    BY AtWork DEF TypeOK, DiskTypeOK
  <2>7. Spent(p)'
    BY <2>1, <2>4, <2>5, <2>6 DEF Spent, Clearing
  <2>8. Copied(p)' /\ Fresh(p)'
    BY <1>1, <2>1 DEF Copied, Fresh, Linking
  <2>9. Made(p)'
    BY <1>1, <2>1, <2>2, <2>4, AtWork DEF Sessions, Made, Doomed
  <2> QED BY <2>7, <2>8, <2>9 DEF Sessions
<1>4. CASE ~StartSession(p)
  <2>1. Holding(p)' => Holding(p) /\ job'[p] = job[p] /\ Sid(p)' = Sid(p)
    BY <1>4, AtWork, HoldingStep DEF AllInv, Inv, Sid
  <2>2. reused' = reused /\ started' = started
    BY <1>4, AtWork, NothingBegun
  <2>3. Copied(p)'
    <3> SUFFICES ASSUME Holding(p)', Sid(p)' \notin reused', pc'[p] \in Linking
                 PROVE  dir'[Sid(p)'].rev = current[job[p].pkg]
      BY <1>1, <2>1 DEF Copied
    <3> DEFINE s == Sid(p)
    <3>1. Holding(p) /\ s \notin reused /\ s \in Session /\ Sid(p)' = s
      BY <2>1, <2>2, AtWork, MarkAssumption DEF Holding, Job, Sid
    <3>2. CASE CopyFormula(p)
      <4>1. pc[p] = "copy" /\ dir[s] \in PackageDir \cup {None}
        BY <3>1, <3>2, AtWork DEF CopyFormula, TypeOK, DiskTypeOK
      <4>2. dir[s] # None /\ dir[s].receipt = "partial"
        BY <3>1, <4>1, AtWork DEF Grown
      <4>3. PICK r \in {"cut", "full"} :
              dir' = [dir EXCEPT ![s] = [dir[s] EXCEPT !.receipt = r, !.rev = current[job[p].pkg]]]
        BY <3>2, <4>2 DEF CopyFormula
      <4>4. dir'[s] = [dir[s] EXCEPT !.receipt = r, !.rev = current[job[p].pkg]]
        BY <3>1, <4>3, AtWork DEF TypeOK, DiskTypeOK
      <4> DEFINE now == current[job[p].pkg]
      <4>5. dir'[s] = [dir[s] EXCEPT !.receipt = r, !.rev = now]
        BY <4>4
      <4> HIDE DEF now
      <4>6. dir'[s].rev = now
        BY <4>1, <4>2, <4>5 DEF PackageDir
      <4> QED BY <3>1, <4>6 DEF now
    <3>3. CASE ~CopyFormula(p)
      <4>1. InstallStep(p)
        BY <1>1, AtWork, StepTable
        DEF Linking, Fault, FetchFails, CallFails, Return, TypeOK, ProcTypeOK, UninstallStep,
          UninstallCheckLink, UninstallReadLink, UninstallCheckReceipt,
          UninstallCheckDir, UninstallUnlink, UninstallRemove
      <4>0. RemoveInWay(p) => dir' = dir
        <5>1. RemoveInWay(p) => ~Linked(job[p].pkg)
          BY <1>1, <3>1 DEF RemoveInWay, Removing, AllInv, Inv, RemovalOK, SerialInv, Unexposed
        <5> QED BY <5>1 DEF RemoveInWay
      <4>a. /\ pc \in [Pid -> Steps \cup {"idle", "dead"}]
            /\ \A x \in Linking : x \in {"link", "exists", "unlink", "rm_stat", "rm_open", "rm_entry"}
        BY AtWork DEF TypeOK, ProcTypeOK, Linking
      <4>b. pc[p] \in Linking
        BY <1>4, <3>3, <4>1, <4>a
        DEF Linking, InstallStep, CheckLink, CheckReceipt, Goto, Return,
          LookupDownload, FetchLookup, FetchName, FetchOpen, FetchDone, VerifyAndRename,
          MakeRealDir, ClearRealDir, RemakeRealDir, Unpack, RunInstallScript, RecordFiles,
          CreateReceipt, MakeLink, InspectLink, UnlinkOld, StatInWay, OpenInWay, RemoveInWay
      <4>2. dir' = dir
        BY <3>3, <4>0, <4>1, <4>b
        DEF Linking, InstallStep, CheckLink, CheckReceipt, StartSession, disk,
          LookupDownload, FetchLookup, FetchName, FetchOpen, FetchDone, VerifyAndRename,
          MakeRealDir, ClearRealDir, RemakeRealDir, Unpack, RunInstallScript, RecordFiles,
          CreateReceipt, MakeLink, InspectLink, UnlinkOld, StatInWay, OpenInWay
      <4> QED BY <3>1, <4>b, <4>2, AtWork DEF Sessions, Copied
    <3> QED BY <3>2, <3>3
  <2>4. Spent(p)'
    <3> SUFFICES ASSUME Clearing(p)'
                 PROVE  /\ pc'[p] \in {"lookup", "fetch", "fetching", "verify", "real_dir",
                                       "clear", "remake"}
                        /\ pc'[p] \notin {"clear", "remake"} => dir'[Sid(p)] # None
      BY <2>1 DEF Spent, Clearing
    <3>1. Clearing(p) /\ pc'[p] \in Steps
      BY <2>1, <2>2 DEF Clearing, Holding
    <3>2. /\ pc[p] \in {"lookup", "fetch", "fetching", "verify", "real_dir", "clear", "remake"}
          /\ pc[p] \notin {"clear", "remake"} => dir[Sid(p)] # None
      BY <3>1, AtWork DEF Sessions, Spent
    <3>3. InstallStep(p)
      BY <1>1, <3>1, AtWork, StepTable
      DEF Fault, FetchFails, CallFails, Return, TypeOK, ProcTypeOK, UninstallStep,
        UninstallCheckLink, UninstallReadLink, UninstallCheckReceipt,
        UninstallCheckDir, UninstallUnlink, UninstallRemove
    <3>4. \/ LookupDownload(p) \/ FetchOpen(p) \/ (\E c \in File : FetchDone(p, c))
          \/ VerifyAndRename(p) \/ MakeRealDir(p) \/ ClearRealDir(p) \/ RemakeRealDir(p)
      BY <3>2, <3>3
      DEF InstallStep, CheckLink, CheckReceipt, StartSession, FetchLookup, FetchName, Unpack,
        RunInstallScript, RecordFiles, CreateReceipt, CopyFormula, MakeLink, InspectLink, UnlinkOld,
        StatInWay, OpenInWay, RemoveInWay
    <3>5. CASE ClearRealDir(p) \/ RemakeRealDir(p)
      BY <3>1, <3>5, AtWork, StepTable
      DEF ClearRealDir, RemakeRealDir, Goto, Return, TypeOK, ProcTypeOK
    <3>6. CASE MakeRealDir(p)
      BY <3>2, <3>6, AtWork DEF MakeRealDir, Goto, TypeOK, ProcTypeOK
    <3>7. CASE LookupDownload(p) \/ FetchOpen(p) \/ (\E c \in File : FetchDone(p, c))
      BY <3>2, <3>7, AtWork DEF LookupDownload, FetchOpen, FetchDone, Goto, TypeOK, ProcTypeOK, disk
    <3>8. CASE VerifyAndRename(p)
      BY <1>1, <3>1, <3>2, <3>8, AtWork, StepTable
      DEF VerifyAndRename, Goto, Return, TypeOK, ProcTypeOK
    <3> QED BY <3>4, <3>5, <3>6, <3>7, <3>8
  <2>5. Fresh(p)'
    BY <1>1 DEF Fresh
  <2>6. Made(p)'
    <3> SUFFICES ASSUME ~Doomed(p)', NEW s \in started, s.pid = p, dir'[s] = None
                 PROVE  Holding(p)' /\ Sid(p)' = s
      BY <2>2 DEF Made
    <3>1. ~Clearing(p) /\ ~Returned(p)
      BY StaysDoomed, AtWork, StepTable DEF Returned
    <3>2. s \in Session /\ (dir[s] # None \/ (Holding(p) /\ Sid(p) = s))
      BY <3>1, AtWork DEF Sessions, Made, Doomed, TypeOK, DiskTypeOK
    <3>3. Holding(p) /\ Sid(p) = s
      BY <1>1, <3>2, OwnDir
    <3>4. CASE Going(p)
      <4>1. ~FetchName(p) /\ ~UninstallReadLink(p)
        BY <1>1, StepTable DEF FetchName, UninstallReadLink, FetchSteps
      <4>2. job'[p] = job[p]
        BY <1>4, <3>3, <3>4, <4>1, AtWork, OwnJob, StepTable DEF AllInv, Inv, Going, Step
      <4> QED BY <3>3, <3>4, <4>2 DEF Going, Holding, Sid
    <3>5. CASE Giving(p)
      BY <1>1, <3>5 DEF Giving, Doomed, Returned, Top
    <3>6. CASE Finishing(p)
      <4>1. MakeLink(p)
        BY <1>1, <3>3, <3>6, StepTable, AtWork
        DEF Finishing, CheckReceipt, FetchLookup, FetchSteps, UninstallRemove, Holding, Phase
      <4>2. dir' = dir /\ pc[p] = "link" /\ s \notin reused
        BY <3>1, <3>3, <4>1 DEF MakeLink, Clearing
      <4>3. dir[s] # None
        BY <3>3, <4>2, AtWork DEF Grown
      <4> QED BY <4>2, <4>3
    <3> QED BY <3>4, <3>5, <3>6, AtWork
  <2> QED BY <2>3, <2>4, <2>5, <2>6 DEF Sessions
<1> QED BY <1>3, <1>4

\* uninstall and fetch begin none.
LEMMA WorkNoSession ==
  ASSUME AllInv, NEW p \in Pid, Work(p) \/ Fail(p), command[p].verb \notin InstallVerbs
  PROVE  Sessions(p)'
<1>1. /\ command'[p] = command[p] /\ command[p] # None /\ job[p].cmd # "install"
      /\ \A s \in started : s.pid # p
  BY AtWork DEF Shape, JobOK, Verb, InstallVerbs, Sessions, Fresh
<1>2. ~Holding(p)'
  BY <1>1, AtWork, StepTable DEF Going, Giving, Finishing, Holding
<1>3. ~StartSession(p)
  BY <1>1, AtWork, StepTable DEF StartSession, Phase, Job, FetchSteps
<1>4. started' = started
  BY <1>3, AtWork, NothingBegun
<1> QED BY <1>1, <1>2, <1>4 DEF Sessions, Copied, Spent, Clearing, Fresh, Made

LEMMA WorkArgumentsDone ==
  ASSUME AllInv, NEW p \in Pid, Work(p) \/ Fail(p)
  PROVE  ArgumentsDone(p)'
<1> SUFFICES ASSUME command[p].verb \in InstallVerbs, ~Doomed(p)'
             PROVE  (/\ ArgumentsSettled(p) /\ CallsSettled(p)
                     /\ Returned(p) => Good(p, Top(p).pkg))'
  BY AtWork DEF ArgumentsDone, Installs
<1>1. /\ job[p].cmd = "install" /\ Top(p)' = Top(p) /\ Top(p).built /\ job[p].pkg = Top(p).pkg
      /\ job[p].pkg \in Package /\ UNCHANGED <<command, frames, current>>
      /\ command[p] # None /\ command[p].phase = "in"
  BY AtWork DEF Shape, JobOK, Top, Job
<1>2. ~Clearing(p) /\ ~Doomed(p)
  BY StaysDoomed, AtWork, StepTable DEF Doomed, Returned
<1>3. ArgumentsSettled(p) /\ CallsSettled(p)
  BY <1>1, <1>2, AtWork DEF Progress, ArgumentsDone, Installs
<1>4. Going(p) \/ Finishing(p)
  BY <1>1, AtWork DEF Giving, Doomed, Returned, Top
<1>5. \A l \in Package : Finishing(p) /\ job[p].pkg = l => Good(p, l)'
  BY <1>1, NewGood
<1>6. ASSUME NEW l \in Name, Good(p, l) \/ (pc[p] \in Steps /\ job[p].pkg = l)
      PROVE  Good(p, l)' \/ (pc'[p] \in Steps /\ job'[p].pkg = l)
  <2>1. CASE job[p].pkg = l
    <3>1. CASE Going(p)
      BY <2>1, <3>1 DEF Going
    <3>2. CASE Finishing(p)
      BY <1>1, <1>5, <2>1, <3>2
    <3> QED BY <1>4, <3>1, <3>2
  <2>2. CASE job[p].pkg # l
    BY <1>1, <1>2, <1>6, <2>2, OtherGood
  <2> QED BY <2>1, <2>2
<1>7. ASSUME NEW k, Settled(p, k)
      PROVE  Settled(p, k)'
  BY <1>1, <1>6, <1>7, SettledStays
<1>8. ArgumentsSettled(p)'
  BY <1>1, <1>3, <1>7 DEF ArgumentsSettled
<1>9. CallsSettled(p)'
  BY <1>1, <1>3, <1>7 DEF CallsSettled, Deps
<1>10. Returned(p)' => Good(p, Top(p).pkg)'
  <2>1. Returned(p)' => Finishing(p)
    BY <1>4, StepTable DEF Going, Returned
  <2>2. PICK k \in Package : k = Top(p).pkg
    BY <1>1
  <2>3. Finishing(p) => Good(p, k)'
    BY <2>2, <1>1, NewGood
  <2> QED BY <1>1, <2>1, <2>2, <2>3
<1> QED BY <1>8, <1>9, <1>10

LEMMA WorkRemoved ==
  ASSUME AllInv, NEW p \in Pid, Work(p) \/ Fail(p)
  PROVE  Removed(p)'
<1> SUFFICES ASSUME command[p].verb = "uninstall"
             PROVE  Removed(p)'
  BY AtWork DEF Removed
<1>1. /\ job[p].cmd = "uninstall" /\ job[p].pkg = Argument(p) /\ pc[p] \in UninstallSteps
      /\ job[p].pkg \in Package /\ UNCHANGED <<command, frames>>
      /\ Argument(p)' = Argument(p) /\ command[p] # None /\ command[p].phase = "in"
      /\ Removed(p)
  BY AtWork DEF Shape, JobOK, Job, Argument, Progress
<1>2. /\ \A j \in 1 .. command[p].arg - 1 :
            command[p].args[j] \in Package /\ ~Linked(command[p].args[j])
      /\ pc[p] = "u_remove" => ~Linked(job[p].pkg)
  <2>1. \A i \in 1 .. Len(command[p].args) : command[p].args[i] \in Package
    BY <1>1 DEF AllInv, CliInv, CommandOK, Screened
  <2>2. command[p].arg \in 1 .. Len(command[p].args) /\ Len(command[p].args) \in Nat
    BY <1>1, ArgumentIsName, LenProperties DEF AllInv
  <2>3. \A j \in 1 .. command[p].arg - 1 : j \in 1 .. Len(command[p].args)
    BY <2>2
  <2> QED BY <1>1, <2>1, <2>3 DEF Removed
<1>3. ASSUME NEW k \in Package, ~Linked(k)
      PROVE  ~Linked(k)'
  <2>1. CASE link'[k] = link[k]
    BY <1>3, <2>1 DEF Linked
  <2>2. CASE link'[k] = None
    BY <2>2, MarkAssumption DEF Linked
  <2>3. ASSUME NEW q \in Pid, MakeLink(q)
        PROVE  FALSE
    <3>1. q = p
      BY <2>3, AtWork, StepTable DEF MakeLink
    <3> QED BY <1>1, <2>3, <3>1, StepTable DEF MakeLink
  <2> QED BY <2>1, <2>2, <2>3, AtWork, LinkSummary
<1>4. UninstallStep(p) \/ Fault(p)
  BY <1>1, AtWork
  DEF InstallStep, UninstallSteps, CheckLink, CheckReceipt, StartSession, LookupDownload,
      FetchLookup, FetchName, FetchOpen, FetchDone, VerifyAndRename, MakeRealDir,
      ClearRealDir, RemakeRealDir, Unpack, RunInstallScript, RecordFiles, CreateReceipt,
      CopyFormula, MakeLink, InspectLink, UnlinkOld, StatInWay, OpenInWay, RemoveInWay
<1>5. pc'[p] = "u_remove" => UninstallUnlink(p) \/ pc[p] = "u_remove"
  BY <1>4, AtWork, StepTable
  DEF UninstallStep, UninstallCheckLink, UninstallCheckReceipt, UninstallReadLink,
      UninstallCheckDir, UninstallUnlink, UninstallRemove, Fault, FetchFails, CallFails,
      Goto, Return, TypeOK, ProcTypeOK
<1>6. ASSUME UninstallUnlink(p), pc'[p] = "u_remove"
      PROVE  \A k \in Package : k = job[p].pkg => ~Linked(k)'
  BY <1>1, <1>6, AtWork, MarkAssumption, StepTable
  DEF UninstallUnlink, Linked, Return, TypeOK, DiskTypeOK, ProcTypeOK
<1>7. Returned(p)' /\ result'[p] = "ok" => pc[p] = "u_remove"
  BY <1>1, AtWork, StepTable
  DEF Going, Giving, Finishing, Returned, CheckReceipt, FetchLookup, VerifyAndRename, MakeLink,
      UninstallRemove
<1>8. pc'[p] = "u_remove" \/ (Returned(p)' /\ result'[p] = "ok") => ~Linked(Argument(p))'
  <2>1. PICK k \in Package : k = job[p].pkg
    BY <1>1
  <2>2. pc[p] = "u_remove" => ~Linked(k)'
    BY <2>1, <1>2, <1>3
  <2>3. UninstallUnlink(p) /\ pc'[p] = "u_remove" => ~Linked(k)'
    BY <2>1, <1>6
  <2> QED BY <2>1, <2>2, <2>3, <1>1, <1>5, <1>7
<1> QED BY <1>1, <1>2, <1>3, <1>8 DEF Removed

LEMMA WorkFetched ==
  ASSUME AllInv, NEW p \in Pid, Work(p) \/ Fail(p)
  PROVE  Fetched(p)'
<1> SUFFICES ASSUME command[p].verb = "fetch", Returned(p)', result'[p] = "ok"
             PROVE  Achieved("fetch", Argument(p))'
  BY AtWork DEF Fetched
<1>1. /\ job[p].cmd = "fetch" /\ job[p].pkg = Argument(p) /\ job[p].rev = current[job[p].pkg]
      /\ current' = current /\ Argument(p)' = Argument(p)
      /\ job[p].pkg \in Package /\ job[p].rev \in Revision
  BY AtWork DEF Shape, JobOK, Job, Argument
<1>2. Text(p).sha \in Sha /\ Text(p) = Formula[Argument(p)][current[Argument(p)]]
  BY <1>1, FormulaAssumption DEF Text
<1>3. Finishing(p)
  BY AtWork, StepTable DEF Going, Giving, Returned
<1>4. \/ FetchLookup(p) /\ Downloaded(p)
      \/ VerifyAndRename(p) /\ partial[Sid(p)] = Text(p).sha
  BY <1>1, <1>3, AtWork, StepTable
  DEF Finishing, CheckReceipt, MakeLink, UninstallRemove, Phase, FetchSteps
<1>5. download'[Text(p).sha] = Text(p).sha
  BY <1>2, <1>4, AtWork
  DEF FetchLookup, VerifyAndRename, Downloaded, disk, TypeOK, DiskTypeOK
<1> QED BY <1>1, <1>2, <1>5 DEF Achieved

\* All that the invariant says of one process.
LEMMA WorkSerial ==
  ASSUME AllInv, NEW p \in Pid, Work(p) \/ Fail(p)
  PROVE  Serial(p)'
<1>1. Sessions(p)'
  BY WorkSessions, WorkNoSession
<1> QED BY <1>1, WorkShape, WorkArgumentsDone, WorkRemoved, WorkFetched DEF Serial, Progress

-----------------------------------------------------------------------------
(***************************************************************************)
(* A step of main() or of uppm_install.                                    *)
(***************************************************************************)
\* What main() says of an argument it does not let pass.
LEMMA AnswersSay ==
  ASSUME NEW verb \in Verb, NEW k
  PROVE  Screening(verb, k) # "none" /\ Outdated(k) # "none"
<1>1. Availability(k) # "none" /\ Installation(k) # "none"
  BY DEF Availability, Installation
<1>2. Outdated(k) # "none"
  BY DEF Outdated, ParseReceipt
<1> QED BY <1>1, <1>2 DEF Screening, Verb

\* The process has ended.
LEMMA EndedSerial ==
  ASSUME CliInv', NEW p \in Pid, command'[p] = None, exit'[p] # "none"
  PROVE  Serial(p)'
<1>1. pc'[p] \notin Steps
  BY DEF CliInv, CommandOK
<1> QED BY <1>1
  DEF Serial, Shape, Sessions, Progress, Copied, Spent, Clearing, Holding, Fresh, Made, ArgumentsDone,
      Installs, Removed, Fetched

\* It has not begun, or another process is at work.
LEMMA IdleSerial ==
  ASSUME CliInv', NEW p \in Pid, Serial(p), command[p] = None, command'[p] = None,
         exit'[p] = exit[p], \A s \in started' \ started : s.pid # p
  PROVE  Serial(p)'
<1>1. pc'[p] \notin Steps
  BY DEF CliInv, CommandOK
<1>2. Fresh(p)'
  BY DEF Serial, Sessions, Fresh
<1> QED BY <1>1, <1>2
  DEF Serial, Shape, Sessions, Progress, Copied, Spent, Clearing, Holding, Made, ArgumentsDone,
      Installs, Removed, Fetched

\* A step of the process outside the operations.
LEMMA QuietSessions ==
  ASSUME NEW p \in Pid, Sessions(p), ~Holding(p), ~Holding(p)', ~Doomed(p),
         command[p] # None, command'[p] # None, command'[p].verb = command[p].verb,
         UNCHANGED <<dir, started>>
  PROVE  Sessions(p)'
BY DEF Sessions, Copied, Spent, Clearing, Fresh, Made

LEMMA QuietSettled ==
  ASSUME NEW p \in Pid, pc[p] \notin Steps, UNCHANGED <<current, dir, link>>,
         command'[p].verb = command[p].verb, NEW k, Settled(p, k)
  PROVE  Settled(p, k)'
BY GoodSame, SettledStays

\* main() goes on to call the operation, or to the next argument.
LEMMA CalledCommand ==
  ASSUME CliInv, NEW p \in Pid, command[p] # None, command' = [command EXCEPT ![p].phase = "in"]
  PROVE  /\ command'[p] # None /\ command'[p].phase = "in" /\ command'[p].verb = command[p].verb
         /\ command'[p].args = command[p].args /\ command'[p].arg = command[p].arg
         /\ Argument(p)' = Argument(p)
<1> DEFINE d == [command[p] EXCEPT !.phase = "in"]
<1>1. command[p] \in Command
  BY ArgumentIsName
<1>2. command'[p] = d
  BY DEF CliInv, CliType
<1>3. /\ d \in Command /\ d.phase = "in" /\ d.verb = command[p].verb /\ d.args = command[p].args
      /\ d.arg = command[p].arg
  BY <1>1 DEF Command
<1> HIDE DEF d
<1> QED BY <1>2, <1>3, CommandMarkAssumption DEF Argument

\* main() has let an argument pass.
LEMMA ScreenCommand ==
  ASSUME CliInv, NEW p \in Pid, Screen(p),
         Screening(command[p].verb, Argument(p)) = "ok" \/ command'[p] # None
  PROVE  /\ command'[p] # None /\ command'[p].verb = command[p].verb
         /\ \/ command'[p].phase = "screen"
            \/ command'[p].phase = "call" /\ command'[p].arg = 1
<1> DEFINE c == command[p]
<1>1. /\ c \in Command /\ c.arg \in 1 .. Len(c.args) /\ Len(c.args) \in Nat
      /\ command' = IF c.arg = Len(c.args)
                      THEN [command EXCEPT ![p].arg = 1, ![p].phase = "call"]
                      ELSE [command EXCEPT ![p].arg = @ + 1]
  BY ArgumentIsName, LenProperties DEF Screen, Exit, CliInv, CliType, Command
<1>2. CASE c.arg = Len(c.args)
  <2> DEFINE d == [c EXCEPT !.arg = 1, !.phase = "call"]
  <2>1. command'[p] = d
    BY <1>1, <1>2 DEF CliInv, CliType
  <2>2. d \in Command /\ d.arg = 1 /\ d.phase = "call" /\ d.verb = c.verb
    BY <1>1 DEF Command
  <2> HIDE DEF d
  <2> QED BY <2>1, <2>2, CommandMarkAssumption
<1>3. CASE c.arg # Len(c.args)
  <2>1. PICK n \in Nat : n = c.arg + 1
    BY <1>1
  <2> DEFINE d == [c EXCEPT !.arg = n]
  <2>2. command'[p] = d
    BY <1>1, <1>3, <2>1 DEF CliInv, CliType
  <2>3. d \in Command /\ d.phase = c.phase /\ d.verb = c.verb
    BY <1>1 DEF Command
  <2> HIDE DEF d
  <2> QED BY <2>2, <2>3, CommandMarkAssumption DEF Screen
<1> QED BY <1>2, <1>3

LEMMA NextCommand ==
  ASSUME CliInv, NEW p \in Pid, command[p] # None, NextArgument(p),
         command[p].arg # Len(command[p].args)
  PROVE  /\ command'[p] # None /\ command'[p].phase = "call"
         /\ command'[p].verb = command[p].verb /\ command'[p].args = command[p].args
         /\ command'[p].arg - 1 = command[p].arg
         /\ frames'[p] = <<>> /\ exit'[p] = exit[p]
<1>1. command[p] \in Command /\ command[p].arg \in Nat
  BY ArgumentIsName DEF Command
<1>2. PICK n \in Nat : n = command[p].arg + 1
  BY <1>1
<1> DEFINE d == [command[p] EXCEPT !.arg = n, !.phase = "call"]
<1>3. command'[p] = d /\ frames'[p] = <<>> /\ exit'[p] = exit[p]
  BY <1>2 DEF NextArgument, CliInv, CliType
<1>4. /\ d \in Command /\ d.phase = "call" /\ d.verb = command[p].verb
      /\ d.args = command[p].args /\ d.arg = n
  BY <1>1 DEF Command
<1> HIDE DEF d
<1> QED BY <1>1, <1>2, <1>3, <1>4, CommandMarkAssumption

LEMMA NoCalls ==
  ASSUME NEW p \in Pid, frames'[p] = <<>>
  PROVE  FramesOK(p)' /\ CallsSettled(p)'
<1>1. Len(<<>>) = 0 /\ \A i \in 1 .. 0 : FALSE
  OBVIOUS
<1>2. \A i \in 1 .. 0 - 1 : FALSE
  OBVIOUS
<1> QED BY <1>1, <1>2 DEF FramesOK, CallsSettled

\* main() looks at the arguments.
LEMMA InvokeSerial ==
  ASSUME AllInv, CliInv', NEW p \in Pid, NEW line \in CommandLine,
         Invoke(p, line.verb, line.args)
  PROVE  Serial(p)'
<1>1. CASE line.args = <<>>
  BY <1>1, EndedSerial DEF Invoke, Exit, AllInv, CliInv, CliType
<1>2. CASE line.args # <<>>
  <2> DEFINE c == [verb |-> line.verb, args |-> line.args, arg |-> 1, phase |-> "screen"]
  <2>1. /\ command[p] = None /\ exit[p] = "none" /\ command'[p] = c /\ exit' = exit
        /\ frames'[p] = frames[p] /\ UNCHANGED store
    BY <1>2 DEF Invoke, AllInv, CliInv, CliType
  <2>2. pc'[p] \notin Steps /\ frames'[p] = <<>>
    BY <2>1 DEF store, AllInv, CliInv, CommandOK
  <2>3. c # None /\ c.phase = "screen"
    <3>1. c \in Command
      BY <1>2, CommandLineAssumption DEF Command
    <3> QED BY <3>1, CommandMarkAssumption
  <2> HIDE DEF c
  <2>5. Shape(p)'
    BY <2>1, <2>2, <2>3, NoCalls DEF Shape, Returned, JobOK
  <2>6. \A s \in started : s.pid # p
    BY <2>1 DEF AllInv, SerialInv, Serial, Sessions, Fresh
  <2>7. Sessions(p)'
    BY <2>1, <2>2, <2>6 DEF store, Sessions, Copied, Spent, Clearing, Holding, Fresh, Made
  <2>8. Progress(p)'
    BY <2>1, <2>3 DEF Progress, ArgumentsDone, Installs, Removed, Fetched, Returned
  <2> QED BY <2>5, <2>7, <2>8 DEF Serial
<1> QED BY <1>1, <1>2

\* Before the first call nothing is done.
LEMMA ScreenSerial ==
  ASSUME AllInv, CliInv', NEW p \in Pid, Screen(p)
  PROVE  Serial(p)'
<1> DEFINE c == command[p]
           answer == Screening(c.verb, Argument(p))
<1>1. /\ c # None /\ c.phase = "screen" /\ UNCHANGED store /\ c \in Command /\ c.verb \in Verb
      /\ Len(c.args) \in Nat /\ c.arg \in 1 .. Len(c.args) /\ answer # "none"
  <2>1. c # None /\ c.phase = "screen" /\ UNCHANGED store
    BY DEF Screen
  <2>2. c \in Command /\ Len(c.args) \in Nat /\ c.arg \in 1 .. Len(c.args) /\ c.verb \in Verb
    BY <2>1, ArgumentIsName, LenProperties DEF AllInv, Command
  <2> QED BY <2>1, <2>2, AnswersSay
<1>2. CASE answer # "ok"
  BY <1>1, <1>2, EndedSerial DEF Screen, Exit, AllInv, CliInv, CliType
<1>3. CASE answer = "ok"
  <2>1. /\ UNCHANGED <<frames, exit>>
        /\ command' = IF c.arg = Len(c.args)
                        THEN [command EXCEPT ![p].arg = 1, ![p].phase = "call"]
                        ELSE [command EXCEPT ![p].arg = @ + 1]
    BY <1>3 DEF Screen
  <2>2. /\ command'[p] # None /\ command'[p].verb = c.verb
        /\ \/ command'[p].phase = "screen"
           \/ command'[p].phase = "call" /\ command'[p].arg = 1
    BY <1>3, ScreenCommand DEF AllInv
  <2>3. /\ pc[p] \notin Steps /\ frames[p] = <<>> /\ pc'[p] = pc[p] /\ frames'[p] = <<>>
        /\ exit'[p] = exit[p] /\ exit[p] = "none" /\ Sessions(p)
    BY <1>1, <2>1 DEF store, AllInv, CliInv, CommandOK, SerialInv, Serial, Shape
  <2>5. Shape(p)'
    BY <2>2, <2>3, NoCalls DEF Shape, Returned, JobOK
  <2>6. ~Doomed(p) /\ ~Holding(p) /\ ~Holding(p)'
    BY <1>1, <2>3 DEF Doomed, Clearing, Holding, Returned
  <2>7. Sessions(p)'
    BY <1>1, <2>2, <2>3, <2>6, QuietSessions DEF store
  <2>8. command'[p].phase # "screen" => \A j \in 1 .. command'[p].arg - 1 : FALSE
    BY <2>2
  <2>9. command'[p].phase # "screen" => ArgumentsSettled(p)'
    BY <2>8 DEF ArgumentsSettled
  <2>10. CallsSettled(p)' /\ ~Returned(p)'
    BY <2>2, <2>3, NoCalls DEF Returned
  <2>11. ArgumentsDone(p)'
    BY <2>9, <2>10 DEF ArgumentsDone, Installs
  <2>12. Removed(p)' /\ Fetched(p)'
    BY <2>3, <2>8, <2>10, StepTable DEF Removed, Fetched
  <2> QED BY <2>5, <2>7, <2>11, <2>12 DEF Serial, Progress
<1> QED BY <1>2, <1>3

\* The outermost call of uppm_install.
LEMMA CallInstallSerial ==
  ASSUME AllInv, CliInv', NEW p \in Pid, CallInstall(p) \/ CallUpgrade(p)
  PROVE  Serial(p)'
<1> DEFINE c == command[p]
<1>1. /\ c # None /\ c.phase = "call" /\ c.verb \in InstallVerbs /\ UNCHANGED store
      /\ c.verb \in Verb
  BY DEF CallInstall, CallUpgrade, InstallVerbs, Verb
<1>2. CASE command'[p] = None
  <2>1. exit'[p] = Outdated(Argument(p))
    BY <1>1, <1>2, CalledCommand
    DEF CallInstall, CallUpgrade, Exit, AllInv, CliInv, CliType
  <2> QED BY <1>1, <1>2, <2>1, AnswersSay, EndedSerial
<1>3. CASE command'[p] # None
  <2> PICK f : f = NewFrame(Argument(p))
    OBVIOUS
  <2>1. /\ command' = [command EXCEPT ![p].phase = "in"] /\ exit' = exit
        /\ frames' = [frames EXCEPT ![p] = <<f>>]
    BY <1>3 DEF CallInstall, CallUpgrade, Exit, AllInv, CliInv, CliType
  <2>2. /\ command'[p].phase = "in" /\ command'[p].verb = c.verb /\ command'[p].args = c.args
        /\ command'[p].arg = c.arg /\ Argument(p)' = Argument(p)
    BY <1>1, <2>1, CalledCommand DEF AllInv
  <2>3. /\ pc[p] \notin Steps /\ pc'[p] = pc[p] /\ exit'[p] = exit[p] /\ exit[p] = "none"
        /\ Sessions(p) /\ ArgumentsDone(p)
    BY <1>1, <2>1 DEF store, AllInv, CliInv, CommandOK, SerialInv, Serial, Shape, Progress
  <2>4. /\ f.pkg = Argument(p) /\ f.rev = 0 /\ f.next = 1 /\ f.built = FALSE
        /\ f.pkg \in Name
    BY <1>1, ArgumentIsName DEF NewFrame, AllInv
  <2>5. frames'[p] = <<f>>
    BY <2>1 DEF AllInv, CliInv, CliType
  <2>6. /\ frames'[p] # <<>> /\ Len(frames'[p]) = 1 /\ frames'[p][1] = f /\ Top(p)' = f
    <3>1. <<f>> # <<>> /\ Len(<<f>>) = 1 /\ <<f>>[1] = f /\ Last(<<f>>) = f
      BY DEF Last
    <3> QED BY <3>1, <2>5 DEF Top
  <2>7. ~Returned(p)'
    BY <2>4, <2>6 DEF Returned
  <2>8. FramesOK(p)'
    <3>1. CallOK(f)'
      BY <2>4 DEF CallOK
    <3>2. \A i \in 1 .. 1 : i = 1
      OBVIOUS
    <3>3. \A i \in 1 .. 1 - 1 : FALSE
      OBVIOUS
    <3>4. \A i \in 1 .. Len(frames'[p]) : CallOK(frames[p][i])'
      BY <2>6, <3>1, <3>2 DEF CallOK, Deps
    <3> QED BY <2>2, <2>4, <2>6, <3>3, <3>4 DEF FramesOK
  <2>9. Shape(p)'
    BY <1>1, <2>2, <2>3, <2>6, <2>7, <2>8 DEF Shape, JobOK, InstallVerbs
  <2>10. ~Doomed(p) /\ ~Holding(p) /\ ~Holding(p)'
    BY <1>1, <2>3 DEF Doomed, Clearing, Holding, Returned
  <2>11. Sessions(p)'
    BY <1>1, <1>3, <2>2, <2>3, <2>10, QuietSessions DEF store
  <2>12. ArgumentsSettled(p)'
    <3>1. ArgumentsSettled(p)
      BY <1>1, <2>3, <2>10 DEF ArgumentsDone, Installs
    <3>2. \A k : Settled(p, k) => Settled(p, k)'
      BY <1>1, <2>2, <2>3, QuietSettled DEF store
    <3> QED BY <3>1, <3>2, <2>2 DEF ArgumentsSettled
  <2>13. CallsSettled(p)'
    <3>1. \A i \in 1 .. 1 : i = 1
      OBVIOUS
    <3>2. \A j \in 1 .. 1 - 1 : FALSE
      OBVIOUS
    <3> QED BY <2>4, <2>6, <3>1, <3>2 DEF CallsSettled
  <2>14. ArgumentsDone(p)'
    BY <2>7, <2>12, <2>13 DEF ArgumentsDone
  <2>15. Removed(p)' /\ Fetched(p)'
    BY <1>1, <2>2 DEF Removed, Fetched, InstallVerbs
  <2> QED BY <2>9, <2>11, <2>14, <2>15 DEF Serial, Progress
<1> QED BY <1>2, <1>3

\* uppm_uninstall and uppm_fetch.
LEMMA CallOperationSerial ==
  ASSUME AllInv, CliInv', NEW p \in Pid, CallUninstall(p) \/ CallFetch(p)
  PROVE  Serial(p)'
<1> DEFINE c == command[p]
<1>1. c # None /\ c.phase = "call" /\ c.verb \in {"uninstall", "fetch"}
  BY DEF CallUninstall, CallFetch
<1>2. CASE CallFetch(p) /\ Argument(p) = Unknown
  BY <1>2, EndedSerial DEF CallFetch, Exit, AllInv, CliInv, CliType
<1>3. CASE ~(CallFetch(p) /\ Argument(p) = Unknown)
  <2> PICK cmd : cmd = IF c.verb = "fetch" THEN "fetch" ELSE "uninstall"
    OBVIOUS
  <2> PICK new :
        new = [cmd |-> cmd, pkg |-> Argument(p), rev |-> current[Argument(p)], sid |-> None]
    OBVIOUS
  <2>1. /\ command' = [command EXCEPT ![p].phase = "in"] /\ UNCHANGED <<frames, exit>>
        /\ UNCHANGED <<current, dir, link, started>>
        /\ pc' = [pc EXCEPT ![p] = IF c.verb = "fetch" THEN "f_lookup" ELSE "u_link"]
        /\ job' = [job EXCEPT ![p] = new]
    BY <1>1, <1>3 DEF CallUninstall, CallFetch, BeginUninstall, BeginFetch, env, disk, hist
  <2>2. /\ command'[p] # None /\ command'[p].phase = "in" /\ command'[p].verb = c.verb
        /\ command'[p].args = c.args /\ command'[p].arg = c.arg /\ Argument(p)' = Argument(p)
    BY <1>1, <2>1, CalledCommand DEF AllInv
  <2>3. /\ pc'[p] = (IF c.verb = "fetch" THEN "f_lookup" ELSE "u_link") /\ job'[p] = new
    BY <2>1 DEF AllInv, CliInv, TypeOK, ProcTypeOK
  <2>4. /\ new.cmd = cmd /\ new.pkg = Argument(p) /\ new.rev = current[Argument(p)]
    OBVIOUS
  <2>5. /\ pc[p] \notin Steps /\ frames[p] = <<>> /\ exit[p] = "none"
        /\ Sessions(p) /\ Removed(p) /\ (c.verb = "fetch" => c.arg = 1)
    BY <1>1 DEF AllInv, CliInv, CommandOK, SerialInv, Serial, Shape, Progress
  <2>6. ~Returned(p)'
    BY <1>1, <2>3, StepTable DEF Returned
  <2>7. Shape(p)'
    <3>1. JobOK(p)'
      BY <1>1, <2>1, <2>2, <2>3, <2>4 DEF JobOK, InstallVerbs
    <3> QED BY <1>1, <2>1, <2>2, <2>5, <2>6, <3>1, NoCalls DEF Shape, InstallVerbs
  <2>8. ~Doomed(p) /\ ~Holding(p) /\ ~Holding(p)'
    BY <1>1, <2>3, <2>4, <2>5 DEF Doomed, Clearing, Holding, Returned
  <2>9. Sessions(p)'
    BY <1>1, <2>1, <2>2, <2>5, <2>8, QuietSessions
  <2>10. ArgumentsDone(p)' /\ Fetched(p)'
    BY <1>1, <2>2, <2>6 DEF ArgumentsDone, Installs, Fetched, InstallVerbs
  <2>11. Removed(p)'
    <3>1. c.verb = "uninstall" => \A j \in 1 .. c.arg - 1 : link'[c.args[j]] \notin Session
      BY <1>1, <2>1, <2>5 DEF Removed, Linked
    <3>2. pc'[p] # "u_remove"
      BY <2>3
    <3> QED BY <2>2, <2>6, <3>1, <3>2 DEF Removed, Linked
  <2> QED BY <2>7, <2>9, <2>10, <2>11 DEF Serial, Progress
<1> QED BY <1>2, <1>3

LEMMA OperationReturnsSerial ==
  ASSUME AllInv, CliInv', NEW p \in Pid, OperationReturns(p)
  PROVE  Serial(p)'
<1> DEFINE c == command[p]
<1>1. /\ c # None /\ c.phase = "in" /\ frames[p] = <<>> /\ pc[p] = "idle" /\ UNCHANGED store
      /\ Shape(p) /\ Sessions(p) /\ Removed(p) /\ Returned(p) /\ result[p] # "none"
      /\ exit[p] = "none"
  BY DEF OperationReturns, AllInv, SerialInv, Serial, Progress, Shape, Returned
<1>2. CASE command'[p] = None
  BY <1>1, <1>2, EndedSerial, NextCommand
  DEF OperationReturns, NextArgument, Exit, AllInv, CliInv, CliType
<1>3. CASE command'[p] # None
  <2>1. /\ result[p] = "ok" /\ c.verb # "fetch" /\ NextArgument(p) /\ c.arg # Len(c.args)
    BY <1>3 DEF OperationReturns, NextArgument, Exit, AllInv, CliInv, CliType
  <2>2. c.verb = "uninstall"
    BY <1>1, <2>1, ArgumentIsName DEF Shape, AllInv, Command, Verb, InstallVerbs
  <2>3. /\ command'[p].phase = "call" /\ command'[p].verb = c.verb /\ command'[p].args = c.args
        /\ command'[p].arg - 1 = c.arg /\ frames'[p] = <<>> /\ exit'[p] = exit[p]
    BY <1>1, <2>1, NextCommand DEF AllInv
  <2>4. pc'[p] = "idle" /\ UNCHANGED <<dir, link, started>> /\ ~Returned(p)'
    BY <1>1, <2>3 DEF store, Returned
  <2>5. Shape(p)'
    BY <1>1, <2>2, <2>3, <2>4, NoCalls, StepTable DEF Shape, JobOK
  <2>6. ~Doomed(p) /\ ~Holding(p) /\ ~Holding(p)'
    BY <1>1, <2>1, <2>4, StepTable DEF Doomed, Clearing, Holding
  <2>7. Sessions(p)'
    BY <1>1, <1>3, <2>3, <2>4, <2>6, QuietSessions
  <2>8. Removed(p)'
    <3>1. \A j \in 1 .. c.arg - 1 : ~Linked(c.args[j])
      BY <1>1, <2>2 DEF Removed
    <3>2. ~Linked(c.args[c.arg])
      BY <1>1, <2>1, <2>2 DEF Removed, Argument
    <3>3. \A j \in 1 .. c.arg : j = c.arg \/ j \in 1 .. c.arg - 1
      BY <1>1, ArgumentIsName, LenProperties DEF AllInv
    <3>4. \A j \in 1 .. c.arg : link'[c.args[j]] \notin Session
      BY <3>1, <3>2, <3>3, <2>4 DEF Linked
    <3> QED BY <2>3, <2>4, <3>4 DEF Removed, Linked
  <2>9. ArgumentsDone(p)' /\ Fetched(p)'
    BY <2>2, <2>3 DEF ArgumentsDone, Installs, Fetched, InstallVerbs
  <2> QED BY <2>5, <2>7, <2>8, <2>9 DEF Serial, Progress
<1> QED BY <1>2, <1>3

\* Inside uppm_install, outside uppm_install_internal.
LEMMA AtCall ==
  ASSUME AllInv, NEW p \in Pid, Installing(p)
  PROVE  /\ command[p] # None /\ command[p].phase = "in" /\ command[p].verb \in InstallVerbs
         /\ command[p].verb \in Verb /\ pc[p] = "idle" /\ pc[p] \notin Steps /\ exit[p] = "none"
         /\ Shape(p) /\ Sessions(p) /\ ArgumentsDone(p) /\ FramesOK(p) /\ ~Holding(p) /\ ~Clearing(p)
         /\ frames[p] \in Seq(Frame) /\ frames[p] # <<>> /\ Len(frames[p]) \in Nat \ {0}
         /\ Top(p) \in Frame /\ Top(p) = frames[p][Len(frames[p])]
         /\ FrameOK(Top(p)) /\ CallOK(Top(p))
<1>1. command[p] # None /\ frames[p] # <<>> /\ pc[p] = "idle" /\ pc[p] \notin Steps
  BY StepTable DEF Installing
<1>2. command[p].phase = "in" /\ command[p].verb \in Verb
  BY <1>1, ArgumentIsName DEF AllInv, CliInv, CommandOK, Command
<1>3. Shape(p) /\ Sessions(p) /\ ArgumentsDone(p)
  BY DEF AllInv, SerialInv, Serial, Progress
<1>4. command[p].verb \in InstallVerbs /\ exit[p] = "none" /\ FramesOK(p)
  BY <1>1, <1>2, <1>3 DEF Shape
<1>5. /\ frames[p] \in Seq(Frame) /\ Len(frames[p]) \in Nat \ {0} /\ Top(p) \in Frame
      /\ Top(p) = frames[p][Len(frames[p])] /\ FrameOK(Top(p))
  BY <1>1, TopIsFrame DEF AllInv
<1>6. CallOK(Top(p))
  BY <1>4, <1>5 DEF FramesOK
<1> QED BY <1>1, <1>2, <1>3, <1>4, <1>5, <1>6 DEF Holding, Clearing

\* The dependencies of a call that has parsed its formula.
LEMMA CallDeps ==
  ASSUME AllInv, NEW f \in Frame, FrameOK(f), CallOK(f), f.rev # 0
  PROVE  /\ f.pkg \in Package /\ f.rev = current[f.pkg]
         /\ Deps(f) = Dependency[f.pkg][current[f.pkg]]
         /\ Deps(f) \in Seq(Name) /\ Len(Deps(f)) \in Nat
<1>1. f.pkg \in Package /\ f.rev = current[f.pkg]
  BY DEF FrameOK, CallOK
<1>2. Deps(f) = Dependency[f.pkg][current[f.pkg]]
  BY <1>1 DEF Deps
<1>3. Deps(f) \in Seq(Name)
  BY <1>1, <1>2, PresentDeps DEF AllInv, CliInv
<1> QED BY <1>1, <1>2, <1>3, LenProperties

\* The innermost call goes on.
LEMMA TopChanges ==
  ASSUME AllInv, NEW p \in Pid, Installing(p), NEW f \in Frame, SetTop(p, f),
         f.pkg = Top(p).pkg, CallOK(f), UNCHANGED <<command, current>>,
         f.next = 1 \/ (f.next = Top(p).next /\ f.rev = Top(p).rev),
         \A k : Settled(p, k) => Settled(p, k)'
  PROVE  /\ FramesOK(p)' /\ Top(p)' = f /\ frames'[p] # <<>>
         /\ CallsSettled(p) => CallsSettled(p)'
<1> DEFINE s == frames[p]
           n == Len(s)
<1>1. /\ s \in Seq(Frame) /\ s # <<>> /\ n \in Nat \ {0} /\ Top(p) = s[n] /\ FramesOK(p)
  BY AtCall
<1>2. PICK t : t = WithTop(s, f)
  OBVIOUS
<1>3. frames'[p] = t
  BY <1>2 DEF SetTop, WithTop, AllInv, CliInv, CliType
<1>4. EndsWith(t, s, f)
  BY <1>1, <1>2, TopReplaced, Zenon
<1>5. /\ t \in Seq(Frame) /\ Len(t) = n /\ t # <<>> /\ t[n] = f
      /\ \A i \in 1 .. n - 1 : t[i] = s[i]
  BY <1>4 DEF EndsWith
<1>6. Top(p)' = f
  <2>1. Last(t) = t[Len(t)]
    BY <1>5, CallReturned
  <2> QED BY <2>1, <1>3, <1>5 DEF Top
<1>7. \A i \in 1 .. n : i = n \/ i \in 1 .. n - 1
  BY <1>1
<1>8. \A i \in 1 .. n : t[i].pkg = s[i].pkg
  BY <1>1, <1>5, <1>7
<1>9. FramesOK(p)'
  <2>1. t[1].pkg = Argument(p)
    BY <1>1, <1>8 DEF FramesOK
  <2>2. \A i \in 1 .. n : CallOK(t[i])'
    <3>1. \A i \in 1 .. n : CallOK(t[i])
      BY <1>1, <1>5, <1>7 DEF FramesOK
    <3> QED BY <3>1 DEF CallOK
  <2>3. ASSUME NEW i \in 1 .. n - 1
        PROVE  Calls(t[i], t[i + 1])
    <3>1. i + 1 \in 1 .. n /\ t[i] = s[i]
      BY <1>1, <1>5
    <3>2. Calls(s[i], s[i + 1])
      BY <1>1 DEF FramesOK
    <3>3. t[i + 1].pkg = s[i + 1].pkg
      BY <1>8, <3>1
    <3> QED BY <3>1, <3>2, <3>3 DEF Calls
  <2> QED BY <2>1, <2>2, <2>3, <1>3, <1>5 DEF FramesOK, Argument
<1>10. ASSUME CallsSettled(p)
       PROVE  CallsSettled(p)'
  <2>1. ASSUME NEW i \in 1 .. n, NEW j \in 1 .. t[i].next - 1, i = n \/ j < t[i].next - 1
        PROVE  Settled(p, Deps(t[i])[j])'
    <3>1. CASE i # n
      BY <2>1, <3>1, <1>5, <1>7, <1>10 DEF CallsSettled
    <3>2. CASE i = n
      <4>1. f.next = Top(p).next /\ f.rev = Top(p).rev /\ t[i] = f
        <5>1. \A x \in 1 .. 1 - 1 : FALSE
          OBVIOUS
        <5> QED BY <3>2, <5>1, <1>5
      <4>2. j \in 1 .. s[n].next - 1 /\ Deps(t[i]) = Deps(s[n])
        BY <3>2, <4>1, <1>1 DEF Deps
      <4>3. Settled(p, Deps(s[n])[j])
        BY <4>2, <1>1, <1>10 DEF CallsSettled
      <4> QED BY <4>2, <4>3
    <3> QED BY <3>1, <3>2
  <2> QED BY <2>1, <1>3, <1>5 DEF CallsSettled
<1> QED BY <1>3, <1>5, <1>6, <1>9, <1>10

\* The recursion goes on, and no operation of the store is called.
LEMMA StillSerial ==
  ASSUME AllInv, NEW p \in Pid, Installing(p), UNCHANGED <<command, exit, store>>,
         Top(p).built => result[p] = "ok", FramesOK(p)', frames'[p] # <<>>, ~Top(p)'.built,
         CallsSettled(p) /\ Installs(p) => CallsSettled(p)'
  PROVE  Serial(p)'
<1>1. ~Doomed(p) /\ command[p] # None /\ command[p].verb \in InstallVerbs
      /\ command[p].phase = "in" /\ pc'[p] = "idle"
  BY AtCall DEF Doomed, Returned, store
<1>2. Shape(p)' /\ ~Returned(p)'
  BY <1>1, AtCall, StepTable DEF Shape, Returned, JobOK, InstallVerbs
<1>3. Sessions(p)'
  <2>1. ~Holding(p)'
    BY <1>1, StepTable DEF Holding
  <2> QED BY <1>1, <2>1, AtCall, QuietSessions DEF store
<1>4. ArgumentsDone(p)'
  <2>1. Installs(p) /\ ArgumentsSettled(p) /\ CallsSettled(p)
    BY <1>1, AtCall DEF ArgumentsDone, Installs
  <2>2. \A k : Settled(p, k) => Settled(p, k)'
    BY AtCall, QuietSettled DEF store
  <2>3. ArgumentsSettled(p)'
    BY <2>1, <2>2 DEF ArgumentsSettled
  <2> QED BY <2>1, <2>3, <1>2 DEF ArgumentsDone
<1>5. Removed(p)' /\ Fetched(p)'
  BY <1>1 DEF Removed, Fetched, InstallVerbs
<1> QED BY <1>2, <1>3, <1>4, <1>5 DEF Serial, Progress

LEMMA LookupSerial ==
  ASSUME AllInv, CliInv', NEW p \in Pid, LookupFormula(p)
  PROVE  Serial(p)'
<1>1. CASE Top(p).pkg = Unknown
  BY <1>1, EndedSerial DEF LookupFormula, Exit, AllInv, CliInv, CliType
<1>2. CASE Top(p).pkg # Unknown
  <2> PICK r : r = current[Top(p).pkg]
    OBVIOUS
  <2> PICK f : f = [Top(p) EXCEPT !.rev = r]
    OBVIOUS
  <2>1. /\ Installing(p) /\ Top(p).rev = 0 /\ SetTop(p, f) /\ UNCHANGED <<command, exit, store>>
    BY <1>2 DEF LookupFormula
  <2>2. Top(p).pkg \in Package /\ Top(p) \in Frame /\ Top(p).next = 1 /\ Top(p).built = FALSE
    BY <1>2, <2>1, AtCall DEF Frame, Name, CallOK
  <2>3. r \in Nat /\ r # 0
    BY <2>2, BoundAssumption DEF AllInv, CliInv, TypeOK, DiskTypeOK, Revision
  <2>4. f \in Frame /\ f.pkg = Top(p).pkg /\ f.rev = r /\ f.next = 1 /\ f.built = FALSE
    BY <2>2, <2>3 DEF Frame
  <2>5. CallOK(f)
    <3>1. Deps(f) = Dependency[Top(p).pkg][current[Top(p).pkg]]
      BY <2>4 DEF Deps
    <3>2. Len(Deps(f)) \in Nat
      BY <2>2, <3>1, PresentDeps, LenProperties DEF AllInv, CliInv
    <3> QED BY <2>3, <2>4, <3>2 DEF CallOK
  <2>6. \A k : Settled(p, k) => Settled(p, k)'
    BY <2>1, AtCall, QuietSettled DEF store
  <2>7. /\ FramesOK(p)' /\ Top(p)' = f /\ frames'[p] # <<>>
        /\ CallsSettled(p) => CallsSettled(p)'
    BY <2>1, <2>4, <2>5, <2>6, TopChanges DEF store
  <2> QED BY <2>1, <2>2, <2>4, <2>6, <2>7, StillSerial
<1> QED BY <1>1, <1>2

LEMMA InstallDependencySerial ==
  ASSUME AllInv, NEW p \in Pid, InstallDependency(p)
  PROVE  Serial(p)'
<1> DEFINE s == frames[p]
           n == Len(s)
<1>1. /\ Installing(p) /\ Top(p).rev # 0 /\ Top(p).next <= Len(Deps(Top(p)))
      /\ UNCHANGED <<command, exit, store>>
  BY DEF InstallDependency
<1>2. /\ s \in Seq(Frame) /\ s # <<>> /\ n \in Nat \ {0} /\ Top(p) = s[n] /\ Top(p) \in Frame
      /\ FramesOK(p) /\ CallOK(Top(p)) /\ FrameOK(Top(p)) /\ Top(p).next \in Nat \ {0}
  BY <1>1, AtCall DEF Frame
<1>3. /\ Deps(Top(p)) \in Seq(Name) /\ Len(Deps(Top(p))) \in Nat
      /\ Top(p).rev = current[Top(p).pkg]
  BY <1>1, <1>2, CallDeps
<1>4. Top(p).built = FALSE
  BY <1>1, <1>2, <1>3 DEF CallOK, Frame
<1>5. PICK m \in Nat \ {0} : m = Top(p).next + 1
  BY <1>2
<1>6. PICK k \in Name : k = Deps(Top(p))[Top(p).next]
  <2>1. Top(p).next \in 1 .. Len(Deps(Top(p)))
    BY <1>1, <1>2, <1>3
  <2> QED BY <2>1, <1>3, ElementOfSeq
<1>7. PICK f : f = [Top(p) EXCEPT !.next = m]
  OBVIOUS
<1>8. PICK g : g = NewFrame(k)
  OBVIOUS
<1>9. /\ f \in Frame /\ f.pkg = Top(p).pkg /\ f.rev = Top(p).rev /\ f.next = m /\ f.built = FALSE
      /\ g \in Frame /\ g.pkg = k /\ g.rev = 0 /\ g.next = 1 /\ g.built = FALSE
  BY <1>2, <1>4, <1>7, <1>8 DEF Frame, NewFrame
<1>10. PICK t : t = WithCall(s, f, g)
  OBVIOUS
<1>11. frames'[p] = t
  BY <1>5, <1>6, <1>7, <1>8, <1>10
  DEF InstallDependency, WithCall, AllInv, CliInv, CliType
<1>12. EndsWithBoth(t, s, f, g)
  BY <1>2, <1>9, <1>10, CallMade, Zenon
<1>13. /\ t \in Seq(Frame) /\ Len(t) = n + 1 /\ t # <<>> /\ t[n] = f /\ t[n + 1] = g
       /\ \A i \in 1 .. n - 1 : t[i] = s[i]
  BY <1>12 DEF EndsWithBoth
<1>14. Top(p)' = g
  <2>1. Last(t) = t[Len(t)]
    BY <1>13, CallReturned
  <2> QED BY <2>1, <1>11, <1>13 DEF Top
<1>15. \A i \in 1 .. n + 1 : i = n + 1 \/ i = n \/ i \in 1 .. n - 1
  BY <1>2
<1>16. Deps(f) = Deps(Top(p))
  BY <1>9 DEF Deps
<1>17. FramesOK(p)'
  <2>1. t[1].pkg = Argument(p)
    <3>1. CASE n = 1
      BY <3>1, <1>2, <1>9, <1>13 DEF FramesOK
    <3>2. CASE n # 1
      <4>1. \A x \in Nat \ {0} : x # 1 => 1 \in 1 .. x - 1
        OBVIOUS
      <4>2. 1 \in 1 .. n - 1
        BY <3>2, <4>1, <1>2
      <4> QED BY <4>2, <1>2, <1>13 DEF FramesOK
    <3> QED BY <3>1, <3>2
  <2>2. \A i \in 1 .. n + 1 : CallOK(t[i])
    <3>1. CallOK(f)
      BY <1>1, <1>2, <1>3, <1>5, <1>9, <1>16 DEF CallOK
    <3>2. CallOK(g)
      BY <1>9 DEF CallOK
    <3>3. \A i \in 1 .. n - 1 : CallOK(s[i])
      BY <1>2 DEF FramesOK
    <3> QED BY <3>1, <3>2, <3>3, <1>13, <1>15
  <2>3. ASSUME NEW i \in 1 .. n
        PROVE  Calls(t[i], t[i + 1])
    <3>1. CASE i = n
      <4>1. f.next - 1 = Top(p).next /\ Top(p).next \in 1 .. Len(Deps(f))
        BY <1>1, <1>2, <1>3, <1>5, <1>9, <1>16
      <4>2. Calls(f, g)
        BY <4>1, <1>1, <1>6, <1>9, <1>16 DEF Calls
      <4> QED BY <3>1, <4>2, <1>13
    <3>2. CASE i # n
      <4>1. i \in 1 .. n - 1 /\ t[i] = s[i]
        BY <3>2, <1>2, <1>13
      <4>2. Calls(s[i], s[i + 1])
        BY <4>1, <1>2 DEF FramesOK
      <4>3. t[i + 1].pkg = s[i + 1].pkg
        <5>1. CASE i + 1 = n
          BY <5>1, <1>2, <1>9, <1>13
        <5>2. CASE i + 1 # n
          <6>1. i + 1 \in 1 .. n - 1
            BY <4>1, <5>2, <1>2
          <6> QED BY <6>1, <1>13
        <5> QED BY <5>1, <5>2
      <4> QED BY <4>1, <4>2, <4>3 DEF Calls
    <3> QED BY <3>1, <3>2
  <2>4. current' = current /\ command' = command /\ n + 1 - 1 = n
    BY <1>1, <1>2 DEF store
  <2>5. \A i \in 1 .. n + 1 : CallOK(t[i])'
    BY <2>2, <2>4 DEF CallOK
  <2> QED BY <2>1, <2>3, <2>4, <2>5, <1>11, <1>13 DEF FramesOK, Argument
<1>18. ASSUME CallsSettled(p)
       PROVE  CallsSettled(p)'
  <2>1. \A q : Settled(p, q) => Settled(p, q)'
    BY <1>1, AtCall, QuietSettled DEF store
  <2>2. ASSUME NEW i \in 1 .. n + 1, NEW j \in 1 .. t[i].next - 1,
               i = n + 1 \/ j < t[i].next - 1
        PROVE  Settled(p, Deps(t[i])[j])
    <3>1. CASE i = n + 1
      <4>1. \A x \in 1 .. 1 - 1 : FALSE
        OBVIOUS
      <4> QED BY <3>1, <4>1, <1>9, <1>13
    <3>2. CASE i = n
      <4>1. t[i] = f /\ f.next - 1 = Top(p).next
        BY <3>2, <1>2, <1>5, <1>9, <1>13
      <4>2. i # n + 1
        BY <3>2, <1>2
      <4>3. j \in 1 .. Top(p).next - 1
        BY <2>2, <4>1, <4>2, <1>2
      <4> QED BY <4>1, <4>3, <1>2, <1>16, <1>18 DEF CallsSettled
    <3>3. CASE i \in 1 .. n - 1
      <4>1. i # n + 1 /\ i \in 1 .. n /\ t[i] = s[i]
        BY <3>3, <1>2, <1>13
      <4> QED BY <2>2, <4>1, <1>18 DEF CallsSettled
    <3> QED BY <3>1, <3>2, <3>3, <1>15
  <2>3. \A i \in 1 .. n + 1 : \A j \in 1 .. t[i].next - 1 :
           i = n + 1 \/ j < t[i].next - 1 => Settled(p, Deps(t[i])[j])'
    BY <2>1, <2>2
  <2> QED BY <2>3, <1>11, <1>13 DEF CallsSettled
<1> QED BY <1>1, <1>4, <1>9, <1>11, <1>13, <1>14, <1>17, <1>18, StillSerial

\* uppm_install_internal is called.
LEMMA InstallPackageSerial ==
  ASSUME AllInv, NEW p \in Pid, InstallPackage(p)
  PROVE  Serial(p)'
<1> PICK f : f = [Top(p) EXCEPT !.built = TRUE]
  OBVIOUS
<1> PICK new : new = [cmd |-> "install", pkg |-> Top(p).pkg, rev |-> Top(p).rev, sid |-> None]
  OBVIOUS
<1>1. /\ Installing(p) /\ Top(p).rev # 0 /\ Top(p).next > Len(Deps(Top(p))) /\ ~Top(p).built
      /\ SetTop(p, f) /\ UNCHANGED <<command, exit, current, dir, link, started>>
      /\ pc' = [pc EXCEPT ![p] = IF Forced(p) THEN "session" ELSE "check_link"]
      /\ job' = [job EXCEPT ![p] = new]
  BY DEF InstallPackage, BeginInstall, env, disk, hist
<1>2. /\ Top(p) \in Frame /\ CallOK(Top(p)) /\ FrameOK(Top(p)) /\ Top(p).next \in Nat \ {0}
  BY <1>1, AtCall DEF Frame
<1>3. /\ f \in Frame /\ f.pkg = Top(p).pkg /\ f.rev = Top(p).rev /\ f.next = Top(p).next
      /\ f.built = TRUE
      /\ new.cmd = "install" /\ new.pkg = Top(p).pkg /\ new.sid = None
  BY <1>2 DEF Frame
<1>4. CallOK(f)
  <2>1. Len(Deps(Top(p))) \in Nat
    BY <1>1, <1>2, CallDeps
  <2>2. Deps(f) = Deps(Top(p))
    BY <1>3 DEF Deps
  <2>3. Top(p).next = Len(Deps(Top(p))) + 1
    BY <1>1, <1>2, <2>1 DEF CallOK
  <2> QED BY <1>1, <1>2, <1>3, <2>2, <2>3 DEF CallOK
<1>5. \A k : Settled(p, k) => Settled(p, k)'
  BY <1>1, AtCall, QuietSettled
<1>6. /\ FramesOK(p)' /\ Top(p)' = f /\ frames'[p] # <<>>
      /\ CallsSettled(p) => CallsSettled(p)'
  BY <1>1, <1>3, <1>4, <1>5, TopChanges
<1>7. /\ pc'[p] = (IF Forced(p) THEN "session" ELSE "check_link") /\ job'[p] = new
      /\ pc'[p] # "idle"
  BY <1>1 DEF AllInv, CliInv, TypeOK, ProcTypeOK
<1>8. ~Doomed(p) /\ ~Returned(p)'
  BY <1>1, <1>7, AtCall DEF Doomed, Returned
<1>9. Shape(p)'
  <2>1. JobOK(p)'
    BY <1>1, <1>3, <1>6, <1>7, AtCall DEF JobOK, InstallVerbs, Forced
  <2> QED BY <2>1, <1>1, <1>6, <1>8, AtCall DEF Shape, InstallVerbs
<1>10. Sessions(p)'
  <2>1. ~Holding(p)'
    BY <1>3, <1>7 DEF Holding
  <2> QED BY <2>1, <1>1, <1>8, AtCall, QuietSessions
<1>11. ArgumentsDone(p)'
  <2>1. ArgumentsSettled(p) /\ CallsSettled(p)
    BY <1>1, <1>8, AtCall DEF ArgumentsDone, Installs
  <2>2. ArgumentsSettled(p)'
    BY <2>1, <1>1, <1>5 DEF ArgumentsSettled
  <2> QED BY <2>1, <2>2, <1>6, <1>8 DEF ArgumentsDone
<1>12. Removed(p)' /\ Fetched(p)'
  BY <1>1, AtCall DEF Removed, Fetched, InstallVerbs
<1> QED BY <1>9, <1>10, <1>11, <1>12 DEF Serial, Progress

\* What uppm_install was called for is settled when it returns.
LEMMA CallIsSettled ==
  ASSUME AllInv, NEW p \in Pid, Installing(p), Top(p).built, result[p] = "ok"
  PROVE  /\ Settled(p, Top(p).pkg) /\ ArgumentsSettled(p) /\ CallsSettled(p) /\ ~Doomed(p)
         /\ Returned(p)
<1> DEFINE s == frames[p]
           n == Len(s)
<1>1. /\ n \in Nat \ {0} /\ Top(p) = s[n] /\ Top(p) \in Frame /\ CallOK(Top(p))
      /\ FrameOK(Top(p))
  BY AtCall
<1>2. Returned(p) /\ ~Doomed(p)
  BY AtCall DEF Returned, Doomed
<1>3. ArgumentsSettled(p) /\ CallsSettled(p) /\ Good(p, Top(p).pkg)
  BY <1>2, AtCall DEF ArgumentsDone, Installs
<1>4. Top(p).rev # 0 /\ Top(p).next = Len(Deps(Top(p))) + 1
  BY <1>1 DEF CallOK
<1>5. PICK k \in Package : k = Top(p).pkg
  BY <1>1, <1>4, CallDeps
<1>6. Deps(Top(p)) = Dependency[k][current[k]] /\ Len(Deps(Top(p))) \in Nat
  BY <1>1, <1>4, <1>5, CallDeps
<1>7. \A j \in 1 .. Len(Dependency[k][current[k]]) : Settled(p, Dependency[k][current[k]][j])
  <2>1. \A j \in 1 .. s[n].next - 1 : Settled(p, Deps(s[n])[j])
    BY <1>1, <1>3 DEF CallsSettled
  <2>2. s[n].next - 1 = Len(Deps(Top(p)))
    BY <1>1, <1>4, <1>6
  <2> QED BY <2>1, <2>2, <1>1, <1>6
<1>8. Settled(p, k)
  BY <1>3, <1>5, <1>7, SettledBy DEF AllInv, CliInv
<1> QED BY <1>2, <1>3, <1>5, <1>8

\* So is the argument, when it is the outermost call.
LEMMA ArgumentIsSettled ==
  ASSUME AllInv, NEW p \in Pid, Installing(p), Top(p).built, result[p] = "ok",
         Len(frames[p]) = 1
  PROVE  \A j \in 1 .. command[p].arg : Settled(p, command[p].args[j])
<1>1. Settled(p, Argument(p))
  BY CallIsSettled, AtCall DEF FramesOK
<1>2. \A j \in 1 .. command[p].arg - 1 : Settled(p, command[p].args[j])
  BY CallIsSettled DEF ArgumentsSettled
<1>3. command[p].arg \in 1 .. Len(command[p].args) /\ Len(command[p].args) \in Nat
  BY AtCall, ArgumentIsName, LenProperties DEF AllInv
<1>4. \A j \in 1 .. command[p].arg : j = command[p].arg \/ j \in 1 .. command[p].arg - 1
  BY <1>3
<1> QED BY <1>1, <1>2, <1>4 DEF Argument

LEMMA InstallReturnsSerial ==
  ASSUME AllInv, CliInv', NEW p \in Pid, InstallReturns(p)
  PROVE  Serial(p)'
<1> DEFINE s == frames[p]
           n == Len(s)
           c == command[p]
<1>1. Installing(p) /\ Top(p).built /\ UNCHANGED store
  BY DEF InstallReturns
<1>2. /\ s \in Seq(Frame) /\ s # <<>> /\ n \in Nat \ {0} /\ Top(p) = s[n] /\ Shape(p)
      /\ FramesOK(p) /\ c # None /\ c.verb \in InstallVerbs /\ pc'[p] = "idle"
      /\ Returned(p) /\ result[p] # "none" /\ exit[p] = "none"
  BY <1>1, AtCall DEF store, Returned, Shape
<1>3. CASE command'[p] = None
  <2>1. exit'[p] = result[p] \/ exit'[p] = "ok"
    BY <1>2, <1>3, NextCommand
    DEF InstallReturns, NextArgument, Exit, AllInv, CliInv, CliType
  <2> QED BY <1>2, <1>3, <2>1, EndedSerial
<1>4. CASE command'[p] # None /\ n = 1
  <2>1. result[p] = "ok" /\ NextArgument(p) /\ c.arg # Len(c.args)
    <3>1. ~(Len(frames[p]) > 1)
      BY <1>4
    <3>2. \A r : ~Exit(p, r)
      BY <1>4 DEF Exit, AllInv, CliInv, CliType
    <3>3. result[p] = "ok" /\ NextArgument(p)
      BY <3>1, <3>2 DEF InstallReturns
    <3> QED BY <3>2, <3>3 DEF NextArgument
  <2>2. /\ command'[p].phase = "call" /\ command'[p].verb = c.verb /\ command'[p].args = c.args
        /\ command'[p].arg - 1 = c.arg /\ frames'[p] = <<>> /\ exit'[p] = exit[p]
    BY <1>2, <2>1, NextCommand DEF AllInv
  <2>3. ~Doomed(p) /\ \A j \in 1 .. c.arg : Settled(p, c.args[j])
    BY <1>1, <1>4, <2>1, CallIsSettled, ArgumentIsSettled
  <2>4. \A k : Settled(p, k) => Settled(p, k)'
    BY <1>1, <2>2, AtCall, QuietSettled DEF store
  <2>5. ~Returned(p)'
    BY <2>2 DEF Returned
  <2>6. Shape(p)'
    BY <1>2, <1>4, <2>2, <2>5, NoCalls, StepTable DEF Shape, JobOK, InstallVerbs
  <2>7. Sessions(p)'
    <3>1. ~Holding(p)'
      BY <1>2, StepTable DEF Holding
    <3> QED BY <3>1, <1>1, <1>2, <1>4, <2>2, <2>3, AtCall, QuietSessions DEF store
  <2>8. ArgumentsSettled(p)'
    <3>1. ASSUME NEW j \in 1 .. c.arg, NEW k, k = c.args[j]
          PROVE  Settled(p, k)'
      BY <3>1, <2>3, <2>4
    <3>2. PICK args : args = c.args
      OBVIOUS
    <3>3. \A j \in 1 .. c.arg : Settled(p, args[j])'
      BY <3>1, <3>2
    <3> QED BY <3>2, <3>3, <2>2 DEF ArgumentsSettled
  <2>9. ArgumentsDone(p)'
    BY <2>2, <2>5, <2>8, NoCalls DEF ArgumentsDone
  <2>10. Removed(p)' /\ Fetched(p)'
    BY <1>2, <2>2 DEF Removed, Fetched, InstallVerbs
  <2> QED BY <2>6, <2>7, <2>9, <2>10 DEF Serial, Progress
<1>5. CASE command'[p] # None /\ n # 1
  <2>1. /\ result[p] = "ok" /\ frames' = [frames EXCEPT ![p] = Front(@)]
        /\ UNCHANGED <<command, exit>>
    BY <1>5 DEF InstallReturns, Exit, AllInv, CliInv, CliType
  <2>2. PICK t : t = Front(s)
    OBVIOUS
  <2>3. frames'[p] = t
    BY <2>1, <2>2 DEF AllInv, CliInv, CliType
  <2>4. PICK m \in Nat \ {0} : n = m + 1
    <3>1. n - 1 \in Nat \ {0} /\ n = (n - 1) + 1
      BY <1>2, <1>5
    <3> QED BY <3>1
  <2>5. t \in Seq(Frame) /\ Len(t) = m /\ \A i \in 1 .. m : t[i] = s[i]
    <3>1. t \in Seq(Frame) /\ Len(t) = n - 1 /\ \A i \in 1 .. n - 1 : t[i] = s[i]
      BY <1>2, <2>2, CallReturned, Zenon
    <3> QED BY <3>1, <2>4
  <2>6. t # <<>>
    <3>1. Len(<<>>) = 0
      OBVIOUS
    <3> QED BY <3>1, <2>4, <2>5
  <2>7. /\ Calls(s[m], s[n]) /\ Top(p)' = s[m] /\ s[m] \in Frame /\ CallOK(s[m])
        /\ FrameOK(s[m])
    <3>1. m \in 1 .. n - 1 /\ m \in 1 .. n
      BY <2>4
    <3>2. Last(t) = t[Len(t)] /\ Last(t) \in Frame
      BY <2>5, <2>6, CallReturned
    <3>3. m \in 1 .. m /\ Len(t) = m
      BY <2>4, <2>5
    <3>4. Last(t) = s[m] /\ s[m] \in Frame
      BY <3>2, <3>3, <2>5
    <3>5. Top(p)' = s[m]
      BY <3>4, <2>3 DEF Top
    <3> QED BY <3>1, <3>4, <3>5, <2>4, <1>2 DEF FramesOK, AllInv, CliInv, CommandOK
  <2>8. FramesOK(p)'
    <3>1. 1 \in 1 .. m /\ \A i \in 1 .. m : i \in 1 .. n
      BY <2>4
    <3>2. \A i \in 1 .. m - 1 : i \in 1 .. m /\ i + 1 \in 1 .. m /\ i \in 1 .. n - 1
      BY <2>4
    <3>3. \A i \in 1 .. m : CallOK(t[i])
      BY <3>1, <1>2, <2>5 DEF FramesOK
    <3>4. \A i \in 1 .. m - 1 : Calls(t[i], t[i + 1])
      BY <3>2, <1>2, <2>5 DEF FramesOK
    <3>5. t[1].pkg = Argument(p)
      BY <3>1, <1>2, <2>5 DEF FramesOK
    <3>6. current' = current
      BY <1>1 DEF store
    <3>7. \A i \in 1 .. m : CallOK(t[i])'
      BY <3>3, <3>6 DEF CallOK
    <3> QED BY <3>4, <3>5, <3>7, <2>1, <2>3, <2>5 DEF FramesOK, Argument
  <2>9. CallsSettled(p)'
    <3>1. \A k : Settled(p, k) => Settled(p, k)'
      BY <1>1, <2>1, AtCall, QuietSettled DEF store
    <3>2. Settled(p, s[n].pkg) /\ CallsSettled(p)
      BY <1>1, <1>2, <2>1, CallIsSettled
    <3>3. ASSUME NEW i \in 1 .. m, NEW j \in 1 .. t[i].next - 1
          PROVE  i = m \/ j < t[i].next - 1 => Settled(p, Deps(t[i])[j])
      <4>1. i \in 1 .. n /\ i # n /\ t[i] = s[i]
        BY <2>4, <2>5
      <4>2. CASE j < t[i].next - 1
        BY <3>2, <4>1, <4>2 DEF CallsSettled
      <4>3. CASE i = m /\ j = s[m].next - 1
        BY <3>2, <4>1, <4>3, <2>7 DEF Calls
      <4>4. i = m => s[m].next \in Nat
        BY <2>7 DEF Frame
      <4>5. i = m => j = s[m].next - 1 \/ j < t[i].next - 1
        BY <4>1, <4>4
      <4> QED BY <4>2, <4>3, <4>5
    <3>4. \A i \in 1 .. m : \A j \in 1 .. t[i].next - 1 :
             i = m \/ j < t[i].next - 1 => Settled(p, Deps(t[i])[j])'
      BY <3>1, <3>3
    <3> QED BY <3>4, <2>3, <2>5 DEF CallsSettled
  <2> QED BY <1>1, <2>1, <2>3, <2>6, <2>7, <2>8, <2>9, StillSerial DEF Calls
<1> QED BY <1>3, <1>4, <1>5

-----------------------------------------------------------------------------
(***************************************************************************)
(* The invariant.                                                          *)
(***************************************************************************)
\* The one process at work.
LEMMA ActingSerial ==
  ASSUME AllInv, CliInv', NEW p \in Pid, Main(p) \/ Work(p) \/ Fail(p) \/ Kill(p)
  PROVE  Serial(p)' /\ command[p] # None
<1>1. CASE Main(p)
  <2>1. command[p] # None
    BY <1>1 DEF Main, Screen, CallInstall, CallUpgrade, CallUninstall, CallFetch,
       OperationReturns, LookupFormula, InstallDependency, StackOverflow, InstallPackage,
       InstallReturns, Installing
  <2>2. StackOverflow(p) => Serial(p)'
    BY EndedSerial DEF StackOverflow, Exit, AllInv, CliInv, CliType
  <2> QED
    BY <2>1, <2>2, <1>1, ScreenSerial, CallInstallSerial, CallOperationSerial,
       OperationReturnsSerial, LookupSerial, InstallDependencySerial, InstallPackageSerial,
       InstallReturnsSerial
    DEF Main
<1>2. CASE Work(p) \/ Fail(p)
  BY <1>2, WorkSerial, AtWork
<1>3. CASE Kill(p)
  BY <1>3, EndedSerial DEF Kill, Exit, AllInv, CliInv, CliType
<1> QED BY <1>1, <1>2, <1>3

\* Its sessions bear its own id.
LEMMA BegunByOne ==
  ASSUME AllInv, NEW p \in Pid,
         \/ \E line \in CommandLine : Invoke(p, line.verb, line.args)
         \/ Main(p) \/ Work(p) \/ Fail(p) \/ Kill(p)
  PROVE  \A s \in started' \ started : s.pid = p
<1>1. CASE UNCHANGED started
  BY <1>1
<1>2. CASE Begin(p) \/ Crash(p)
  BY <1>2 DEF Begin, BeginInstall, BeginFetch, BeginUninstall, Crash, hist
<1>3. CASE InstallStep(p) \/ UninstallStep(p) \/ Fault(p)
  <2>1. StartSession(p) => \A s \in started' \ started : s.pid = p
    BY DEF StartSession, NewSession
  <2> QED BY <1>3, <2>1, NothingBegun
<1>4. CASE Main(p)
  BY <1>1, <1>2, <1>4, MainIsStep DEF AllInv, vars
<1> QED BY <1>1, <1>2, <1>3, <1>4 DEF Work, Fail, Kill, Invoke, store

\* It makes its link with nobody about.
LEMMA StaysUnexposed ==
  ASSUME AllInv, NEW p \in Pid,
         \/ \E line \in CommandLine : Invoke(p, line.verb, line.args)
         \/ Main(p) \/ Work(p) \/ Fail(p) \/ Kill(p)
  PROVE  exposed' = exposed
<1>1. CASE Work(p) \/ Fail(p)
  <2>1. /\ InstallStep(p) \/ UninstallStep(p) \/ Fault(p)
        /\ \A q \in Pid \ {p} : pc[q] \notin Steps
    BY <1>1, AtWork
  <2>2. MakeLink(p) => exposed' = exposed
    <3>1. \A q \in Pid : MakeLink(p) => ~Removing(q, job[p].pkg)
      BY <2>1, StepTable DEF MakeLink, Removing
    <3> QED BY <3>1 DEF MakeLink
  <2>3. CASE InstallStep(p)
    BY <2>2, <2>3 DEF InstallStep, CheckLink, CheckReceipt, hist, StartSession,
      LookupDownload, FetchLookup, FetchName, FetchOpen, FetchDone, VerifyAndRename,
      MakeRealDir, ClearRealDir, RemakeRealDir, Unpack, RunInstallScript, RecordFiles,
      CreateReceipt, CopyFormula, InspectLink, UnlinkOld, StatInWay, OpenInWay, RemoveInWay
  <2>4. CASE UninstallStep(p) \/ Fault(p)
    BY <2>4 DEF UninstallStep, UninstallCheckLink, UninstallReadLink, UninstallCheckReceipt,
      UninstallCheckDir, UninstallUnlink, UninstallRemove, Fault, FetchFails, CallFails, hist
  <2> QED BY <2>1, <2>3, <2>4
<1>2. CASE Begin(p) \/ Crash(p)
  BY <1>2 DEF Begin, BeginInstall, BeginFetch, BeginUninstall, Crash, hist
<1>3. CASE UNCHANGED exposed
  BY <1>3
<1>4. CASE Main(p)
  BY <1>2, <1>3, <1>4, MainIsStep DEF AllInv, vars
<1> QED BY <1>1, <1>2, <1>3, <1>4 DEF Kill, Invoke, store

\* The clock and the formula repository.
LEMMA ElsewhereSerial ==
  ASSUME AllInv, CliInv', NEW q \in Pid, UNCHANGED <<cli, disk, proc, hist>>,
         current' = current \/ command[q] = None
  PROVE  Serial(q)'
<1>1. /\ UNCHANGED <<command, frames, exit, download, dir, link, pc, job, result, started, reused>>
      /\ Serial(q)
  BY DEF cli, disk, proc, hist, AllInv, SerialInv
<1>2. CASE command[q] = None
  BY <1>1, <1>2, IdleSerial
<1>3. CASE current' = current
  <2>1. Shape(q)'
    BY <1>1, <1>3
    DEF Serial, Shape, Returned, Top, FramesOK, Argument, CallOK, Calls, Deps, JobOK
  <2>2. Sessions(q)'
    BY <1>1, <1>3
    DEF Serial, Sessions, Copied, Spent, Clearing, Holding, Sid, Fresh, Made, Doomed, Returned, Top
  <2>3. \A k : (Good(q, k) <=> Good(q, k)') /\ Needed(k)' = Needed(k)
    BY <1>1, <1>3 DEF Good, Installation, Linked, HasReceipt, Needed, Closed
  <2>4. \A k : Settled(q, k) => Settled(q, k)'
    BY <1>1, <2>3 DEF Settled
  <2>5. (Doomed(q) <=> Doomed(q)') /\ (Returned(q) <=> Returned(q)') /\ Top(q)' = Top(q)
    BY <1>1 DEF Doomed, Clearing, Holding, Sid, Returned, Top
  <2>6. ArgumentsDone(q)'
    BY <1>1, <2>3, <2>4, <2>5
    DEF Serial, Progress, ArgumentsDone, Installs, ArgumentsSettled, CallsSettled, Deps
  <2>7. Removed(q)' /\ Fetched(q)'
    BY <1>1, <1>3, <2>5 DEF Serial, Progress, Removed, Fetched, Linked, Argument, Achieved
  <2> QED BY <2>1, <2>2, <2>6, <2>7 DEF Serial, Progress
<1> QED BY <1>2, <1>3

LEMMA InitSerial == UppmInit => SerialInv
<1> SUFFICES ASSUME UppmInit
             PROVE  SerialInv
  OBVIOUS
<1>1. ASSUME NEW p \in Pid
      PROVE  Serial(p)
  <2>1. command[p] = None /\ pc[p] = "idle" /\ started = {}
    BY DEF UppmInit, Init
  <2> QED BY <2>1, StepTable
    DEF Serial, Shape, Sessions, Progress, Copied, Spent, Clearing, Holding, Fresh, Made,
        ArgumentsDone, Installs, Removed, Fetched
<1>2. Alone /\ Unexposed
  BY DEF UppmInit, Init, Alone, Unexposed
<1> QED BY <1>1, <1>2 DEF SerialInv

LEMMA SerialIsUppm == [SerialNext]_<<cli, vars>> => [UppmNext]_<<cli, vars>>
BY DEF SerialNext, UppmNext

LEMMA NextSerial == AllInv /\ [SerialNext]_<<cli, vars>> => AllInv'
<1> SUFFICES ASSUME AllInv, [SerialNext]_<<cli, vars>>
             PROVE  AllInv'
  OBVIOUS
<1>1. CliInv'
  BY SerialIsUppm, NextCli DEF AllInv
<1>2. Inv'
  BY SerialIsUppm, UppmStep, NextInv DEF AllInv
<1>3. ASSUME NEW p \in Pid,
             \/ Idle /\ \E line \in CommandLine : Invoke(p, line.verb, line.args)
             \/ Main(p) \/ Work(p) \/ Fail(p) \/ Kill(p)
      PROVE  SerialInv'
  <2>1. Serial(p)'
    BY <1>1, <1>3, InvokeSerial, ActingSerial
  <2>2. \A q \in Pid \ {p} : command[q] = None
    BY <1>1, <1>3, ActingSerial DEF Idle, AllInv, SerialInv, Alone
  <2>3. Others(p)
    <3>1. CASE UNCHANGED cli
      BY <3>1 DEF cli, Others, AllInv, CliInv, CliType
    <3> QED BY <3>1, <1>3, OthersCli DEF AllInv, Work, Fail
  <2>4. \A s \in started' \ started : s.pid = p
    BY <1>3, BegunByOne
  <2>5. ASSUME NEW q \in Pid \ {p}
        PROVE  Serial(q)' /\ command'[q] = None
    BY <1>1, <2>2, <2>3, <2>4, IdleSerial DEF Others, AllInv, SerialInv
  <2>6. Unexposed'
    BY <1>3, StaysUnexposed DEF AllInv, SerialInv, Unexposed
  <2> QED BY <2>1, <2>5, <2>6 DEF SerialInv, Alone
<1>4. CASE (Elsewhere /\ (current' = current \/ Idle)) \/ UNCHANGED <<cli, vars>>
  <2>1. UNCHANGED <<cli, disk, proc, hist>> /\ (current' = current \/ Idle)
    BY <1>4 DEF Elsewhere, Tick, Publish, vars, disk, proc, hist
  <2>2. \A q \in Pid : Serial(q)'
    BY <1>1, <2>1, ElsewhereSerial DEF Idle
  <2>3. Alone' /\ Unexposed'
    BY <2>1 DEF cli, hist, AllInv, SerialInv, Alone, Unexposed
  <2> QED BY <1>1, <1>2, <2>2, <2>3 DEF AllInv, SerialInv
<1> QED BY <1>1, <1>2, <1>3, <1>4 DEF AllInv, SerialNext

\* What a command that ends well leaves behind.
LEMMA SettledIsAchieved ==
  ASSUME AllInv, NEW p \in Pid, pc[p] \notin Steps, command[p].verb \in InstallVerbs,
         NEW k, Settled(p, k)
  PROVE  Achieved(command[p].verb, k)
<1>1. ASSUME NEW l \in Needed(k)
      PROVE  /\ Installation(l) = "ok"
             /\ command[p].verb # "install" => dir[link[l]].rev = current[l]
             /\ link[l] \in reused \/ Built(dir[link[l]])
  <2>1. Good(p, l) /\ l \in Name
    BY DEF Settled, Needed
  <2>2. l \in Package /\ Linked(l)
    BY <2>1 DEF Good, Installation, Name
  <2> QED BY <2>1, <2>2 DEF Good, AllInv, Inv, SerialInv, Unexposed, LinkedIsBuilt
<1> QED BY <1>1 DEF Achieved, InstallVerbs

LEMMA SuccessIsDone ==
  ASSUME AllInv, [SerialNext]_<<cli, vars>>, NEW p \in Pid, command[p] # None,
         exit'[p] = "ok", NEW verb, verb = command[p].verb, NEW k \in Asked(command[p])
  PROVE  Achieved(verb, k)'
<1> DEFINE c == command[p]
<1>1. /\ exit[p] = "none" /\ Shape(p) /\ c.verb \in Verb /\ c.arg \in 1 .. Len(c.args)
      /\ c.args \in Seq(Name) /\ Len(c.args) \in Nat
  BY ArgumentIsName, LenProperties
  DEF AllInv, SerialInv, Serial, Shape, Command
<1>2. Main(p)
  <2>1. ASSUME NEW q \in Pid,
               \/ Idle /\ \E line \in CommandLine : Invoke(q, line.verb, line.args)
               \/ Main(q) \/ Work(q) \/ Fail(q) \/ Kill(q)
        PROVE  Main(p)
    <3>1. CASE UNCHANGED cli
      BY <3>1, <1>1 DEF cli
    <3>2. CASE Main(q) \/ Kill(q)
      <4>1. q = p
        BY <3>2, <1>1, OthersCli DEF Others, AllInv
      <4>2. Kill(p) => exit'[p] = "killed"
        BY DEF Kill, Exit, AllInv, CliInv, CliType
      <4> QED BY <3>2, <4>1, <4>2
    <3> QED BY <2>1, <3>1, <3>2 DEF Idle, Work, Fail
  <2> QED BY <2>1, <1>1 DEF SerialNext, Elsewhere, cli
<1>3. \A r : Exit(p, r) => r = "ok"
  BY DEF Exit, AllInv, CliInv, CliType
<1>4. OperationReturns(p) \/ InstallReturns(p)
  BY <1>1, <1>2, <1>3
  DEF Main, Screen, CallInstall, CallUpgrade, CallUninstall, CallFetch, LookupFormula,
      InstallDependency, StackOverflow, InstallPackage
<1>5. UNCHANGED store /\ result[p] = "ok" /\ pc[p] = "idle" /\ c.phase = "in"
  BY <1>1, <1>3, <1>4, AtCall DEF OperationReturns, InstallReturns
<1>6. c.verb # "fetch" => c.arg = Len(c.args) /\ (InstallReturns(p) => Len(frames[p]) = 1)
  BY <1>1, <1>3, <1>4, NextCommand, AtCall
  DEF OperationReturns, InstallReturns, AllInv, InstallVerbs
<1>7. Achieved(c.verb, k)
  <2>1. CASE c.verb = "fetch"
    <3>1. c.arg = 1 /\ k = Argument(p)
      BY <2>1, <1>1, <1>5 DEF Shape, Asked, Argument
    <3>2. Returned(p)
      BY <2>1, <1>1, <1>4, <1>5, AtCall DEF OperationReturns, Returned, InstallReturns, InstallVerbs
    <3> QED BY <2>1, <3>1, <3>2, <1>5 DEF AllInv, SerialInv, Serial, Progress, Fetched
  <2>2. CASE c.verb # "fetch"
    <3>1. PICK j \in 1 .. c.arg : k = c.args[j]
      <4>1. k \in ToSet(c.args)
        BY <2>2 DEF Asked
      <4> QED BY <4>1, <2>2, <1>1, <1>6, LenProperties DEF ToSet
    <3>2. CASE c.verb = "uninstall"
      <4>1. Returned(p) /\ Removed(p)
        BY <3>2, <1>4, <1>5, AtCall
        DEF OperationReturns, InstallReturns, InstallVerbs, Returned, AllInv, SerialInv, Serial,
            Progress
      <4>2. j = c.arg \/ j \in 1 .. c.arg - 1
        BY <1>1
      <4>3. ~Linked(k)
        BY <3>1, <3>2, <4>1, <4>2, <1>5 DEF Removed, Argument
      <4> QED BY <3>2, <4>3 DEF Achieved
    <3>3. CASE c.verb # "uninstall"
      <4>1. c.verb \in InstallVerbs
        BY <1>1, <2>2, <3>3 DEF Verb, InstallVerbs
      <4>2. InstallReturns(p) /\ Installing(p) /\ Top(p).built
        BY <4>1, <1>1, <1>4, <1>5 DEF OperationReturns, InstallReturns, Shape
      <4>3. Settled(p, k)
        BY <3>1, <4>2, <1>5, <1>6, <2>2, ArgumentIsSettled
      <4> QED BY <4>1, <4>3, <1>5, StepTable, SettledIsAchieved
    <3> QED BY <3>2, <3>3
  <2> QED BY <2>1, <2>2
<1>8. UNCHANGED <<current, download, dir, link, reused>>
  BY <1>5 DEF store
<1>9. \A l : Installation(l)' = Installation(l) /\ Needed(l)' = Needed(l)
  BY <1>8 DEF Installation, Linked, HasReceipt, Needed, Closed
<1>10. CASE verb = "install"
  BY <1>7, <1>8, <1>9, <1>10 DEF Achieved
<1>11. CASE verb \in {"reinstall", "upgrade"}
  BY <1>7, <1>8, <1>9, <1>11 DEF Achieved
<1>12. CASE verb = "uninstall"
  BY <1>7, <1>8, <1>12 DEF Achieved, Linked
<1>13. CASE verb = "fetch"
  BY <1>7, <1>8, <1>13 DEF Achieved
<1> QED BY <1>1, <1>10, <1>11, <1>12, <1>13 DEF Verb

\* One command after the other: a command that ends well has done what its verb says,
\* with all its arguments and everything they need, whatever the commands before it did
\* and wherever they failed or were killed.  The formulas may change between commands.
THEOREM SuccessMeansDone == SerialSpec => OkMeansDone
<1>1. UppmInit => AllInv
  BY InitCli, InitSerial, InitInv DEF AllInv, UppmInit
<1>2. AllInv /\ [SerialNext]_<<cli, vars>>
        => [\A p \in Pid : command[p] # None /\ exit'[p] = "ok" =>
              \A verb \in {command[p].verb}, k \in Asked(command[p]) : Achieved(verb, k)']_<<cli, vars>>
  <2>1. ASSUME AllInv, [SerialNext]_<<cli, vars>>
        PROVE  \A p \in Pid : command[p] # None /\ exit'[p] = "ok" =>
                 \A verb \in {command[p].verb}, k \in Asked(command[p]) : Achieved(verb, k)'
    <3>1. ASSUME NEW p \in Pid, command[p] # None, exit'[p] = "ok",
                 NEW verb \in {command[p].verb}, NEW k \in Asked(command[p])
          PROVE  Achieved(verb, k)'
      BY <2>1, <3>1, SuccessIsDone
    <3> QED BY <3>1
  <2> QED BY <2>1
<1> QED BY <1>1, <1>2, NextSerial, PTL DEF SerialSpec, OkMeansDone

-----------------------------------------------------------------------------
(***************************************************************************)
(* One command after the other: an `install' begins no session twice.  It  *)
(* installs a package only while nothing is linked under the package's     *)
(* name, and what it has installed stays linked; so two of its sessions    *)
(* have the urls of two packages.                                          *)
(***************************************************************************)
\* No two packages are fetched from the same url.
UrlsApart ==
  \A k, l \in Package, r, q \in Revision : Formula[k][r].url = Formula[l][q].url => k = l

\* p is at work in session s, or the package it is a build of is linked to it.
Accounted(p, s) ==
  \/ Holding(p) /\ Sid(p) = s
  \/ \E k \in Package, r \in Revision : link[k] = s /\ Formula[k][r].url = s.url

Kept(p) ==
  command[p] # None /\ command[p].verb = "install" =>
    /\ \A s \in reused : s.pid # p
    /\ pc[p] \in Steps \ {"check_link", "check_receipt"} => ~Linked(job[p].pkg)
    /\ ~Doomed(p) => \A s \in started : s.pid = p => Accounted(p, s)

KeptInv == \A p \in Pid : Kept(p)

\* Where an `install' is when it names a session.
LEMMA InstallAtWork ==
  ASSUME AllInv, KeptInv, NEW p \in Pid, Work(p) \/ Fail(p), command[p].verb = "install"
  PROVE  /\ Kept(p) /\ job[p].cmd = "install" /\ job[p].pkg \in Package /\ job[p].rev \in Revision
         /\ Top(p).built /\ pc[p] \notin UninstallSteps /\ pc[p] \notin FetchSteps
         /\ command[p] # None /\ command[p].phase = "in" /\ ~Returned(p)
         /\ \A s \in reused : s.pid # p
         /\ pc[p] \notin {"check_link", "check_receipt"} => ~Linked(job[p].pkg)
         /\ ~Clearing(p)
<1>1. Kept(p) /\ Shape(p) /\ pc[p] \in Steps /\ command[p] # None /\ Named(p)
  BY AtWork DEF KeptInv
<1>2. job[p].cmd = "install" /\ Top(p).built
  BY <1>1 DEF Shape, JobOK, InstallVerbs
<1>3. ~Clearing(p)
  BY <1>1 DEF Kept, Clearing, Named
<1>4. pc[p] # "idle"
  BY <1>1, StepTable
<1> QED BY <1>1, <1>2, <1>3, <1>4, AtWork DEF Kept, Phase, Job, Returned

\* It names a session that it has not begun yet.
LEMMA SessionIsNew ==
  ASSUME AllInv, KeptInv, UrlsApart, NEW p \in Pid, Work(p) \/ Fail(p),
         command[p].verb = "install", StartSession(p)
  PROVE  /\ NewSession(p) \notin started /\ NewSession(p).pid = p /\ ~Holding(p) /\ ~Doomed(p)
         /\ NewSession(p) \in Session
<1> DEFINE s == NewSession(p)
<1>1. pc[p] = "session"
  BY DEF StartSession
<1>2. ~Holding(p) /\ ~Doomed(p)
  BY <1>1, InstallAtWork, AtWork DEF Holding, Phase, Unnamed, Doomed
<1>3. s.pid = p /\ s.url = Formula[job[p].pkg][job[p].rev].url
  BY DEF NewSession, Text
<1>4. s \in Session
  BY InstallAtWork, AtWork, FormulaAssumption DEF NewSession, Session, Text, TypeOK, DiskTypeOK
<1> HIDE DEF s
<1>5. ASSUME s \in started
      PROVE  FALSE
  <2>1. PICK k \in Package, r \in Revision : link[k] = s /\ Formula[k][r].url = s.url
    BY <1>2, <1>3, <1>5, InstallAtWork DEF Kept, Accounted
  <2>2. k = job[p].pkg
    BY <2>1, <1>3, InstallAtWork DEF UrlsApart
  <2> QED BY <2>1, <2>2, <1>1, <1>4, InstallAtWork DEF Linked
<1> QED BY <1>2, <1>3, <1>4, <1>5 DEF s

\* While it installs a package, nobody links that package.
LEMMA StaysUnlinked ==
  ASSUME AllInv, KeptInv, NEW p \in Pid, Work(p) \/ Fail(p), command[p].verb = "install", Going(p),
         pc'[p] \notin {"check_link", "check_receipt"}
  PROVE  ~Linked(job[p].pkg)'
<1> DEFINE k == job[p].pkg
<1>1. k \in Package /\ job'[p].pkg = k
  BY InstallAtWork DEF Going
<1>2. CASE pc[p] \in {"check_link", "check_receipt"}
  <2>1. CheckLink(p) \/ CheckReceipt(p)
    BY <1>2, AtWork
    DEF InstallStep, UninstallStep, Fault, StartSession, LookupDownload, FetchLookup, FetchName,
        FetchOpen, FetchDone, VerifyAndRename, MakeRealDir, ClearRealDir, RemakeRealDir, Unpack,
        RunInstallScript, RecordFiles, CreateReceipt, CopyFormula, MakeLink, InspectLink,
        UnlinkOld,
        StatInWay, OpenInWay, RemoveInWay, UninstallCheckLink, UninstallReadLink, UninstallCheckReceipt,
        UninstallCheckDir, UninstallUnlink, UninstallRemove, FetchFails, CallFails, FallibleSteps
  <2>2. ~CheckReceipt(p)
    BY AtWork, StepTable DEF CheckReceipt, Return, Going, TypeOK, ProcTypeOK
  <2>3. CheckLink(p)
    BY <2>1, <2>2
  <2>4. ~Linked(k)
    BY <2>3, AtWork DEF CheckLink, Goto, TypeOK, ProcTypeOK
  <2>5. link' = link
    BY <2>3 DEF CheckLink, disk
  <2> QED BY <1>1, <2>4, <2>5 DEF Linked
<1>3. CASE pc[p] \notin {"check_link", "check_receipt"}
  <2>1. ~Linked(k)
    BY <1>3, InstallAtWork
  <2>2. CASE link'[k] = link[k]
    BY <1>1, <2>1, <2>2 DEF Linked
  <2>3. CASE link'[k] # link[k]
    <3>1. CASE link'[k] = None
      BY <1>1, <3>1, MarkAssumption DEF Linked
    <3>2. ASSUME NEW q \in Pid, MakeLink(q), job[q].pkg = k, link[k] = None
          PROVE  FALSE
      <4>1. q = p
        BY <3>2, AtWork, StepTable DEF MakeLink
      <4>2. Return(p, "ok")
        BY <3>2, <4>1 DEF MakeLink
      <4> QED BY <4>2, AtWork, StepTable DEF Return, Going, TypeOK, ProcTypeOK
    <3> QED BY <1>1, <2>3, <3>1, <3>2, AtWork, LinkSummary
  <2> QED BY <2>2, <2>3
<1> QED BY <1>2, <1>3

\* What it has installed stays linked.
LEMMA StaysLinked ==
  ASSUME AllInv, KeptInv, NEW p \in Pid, Work(p) \/ Fail(p), command[p].verb = "install",
         NEW k \in Package, Linked(k)
  PROVE  link'[k] = link[k]
<1> SUFFICES ASSUME link'[k] # link[k]
             PROVE  FALSE
  OBVIOUS
<1>1. job[p].pkg = k
  BY AtWork, OwnLink
<1>2. pc[p] \in {"check_link", "check_receipt"}
  BY <1>1, InstallAtWork
<1>3. CASE MakeLink(p) \/ InspectLink(p) \/ UnlinkOld(p) \/ StatInWay(p) \/ OpenInWay(p) \/ RemoveInWay(p)
  BY <1>2, <1>3 DEF MakeLink, InspectLink, UnlinkOld, StatInWay, OpenInWay, RemoveInWay
<1>4. CASE UninstallUnlink(p)
  BY <1>2, <1>4 DEF UninstallUnlink
<1>5. UNCHANGED link
  BY <1>3, <1>4, AtWork
  DEF InstallStep, UninstallStep, Fault, CheckLink, CheckReceipt, StartSession, LookupDownload,
      FetchLookup, FetchName, FetchOpen, FetchDone, VerifyAndRename, MakeRealDir, ClearRealDir,
      RemakeRealDir, Unpack, RunInstallScript, RecordFiles, CreateReceipt, CopyFormula,
      UninstallCheckLink, UninstallReadLink, UninstallCheckReceipt, UninstallCheckDir,
      UninstallRemove, FetchFails, CallFails, disk
<1> QED BY <1>5

\* The session it works in is held until the package is linked to it.
LEMMA StaysAccounted ==
  ASSUME AllInv, KeptInv, NEW p \in Pid, Work(p) \/ Fail(p), command[p].verb = "install",
         ~StartSession(p), ~Doomed(p)', NEW s \in Session, Accounted(p, s)
  PROVE  Accounted(p, s)'
<1>1. ASSUME NEW k \in Package, NEW r \in Revision, link[k] = s, Formula[k][r].url = s.url
      PROVE  Accounted(p, s)'
  BY <1>1, StaysLinked DEF Accounted, Linked
<1>2. CASE Holding(p) /\ Sid(p) = s
  <2>1. CASE Going(p)
    <3>1. ~FetchName(p) /\ ~UninstallReadLink(p)
      BY InstallAtWork, StepTable DEF FetchName, UninstallReadLink, FetchSteps
    <3>2. job'[p] = job[p]
      BY <1>2, <2>1, <3>1, AtWork, OwnJob, StepTable DEF AllInv, Inv, Going, Step
    <3> QED BY <1>2, <2>1, <3>2 DEF Going, Holding, Sid, Accounted
  <2>2. CASE Giving(p)
    BY <2>2, InstallAtWork, AtWork DEF Giving, Doomed, Returned, Top
  <2>3. CASE Finishing(p)
    <3>1. MakeLink(p) /\ link[job[p].pkg] = None
      BY <1>2, <2>3, InstallAtWork, StepTable, AtWork
      DEF Finishing, CheckReceipt, FetchLookup, FetchSteps, UninstallRemove, Holding, Phase
    <3>2. link'[job[p].pkg] = s
      BY <1>2, <3>1, InstallAtWork, AtWork DEF MakeLink, TypeOK, DiskTypeOK
    <3>3. s.url = Formula[job[p].pkg][job[p].rev].url
      BY <1>2, AtWork DEF Named, Text
    <3> QED BY <3>2, <3>3, InstallAtWork DEF Accounted
  <2> QED BY <2>1, <2>2, <2>3, AtWork
<1> QED BY <1>1, <1>2 DEF Accounted

LEMMA WorkKept ==
  ASSUME AllInv, KeptInv, UrlsApart, NEW p \in Pid, Work(p) \/ Fail(p)
  PROVE  Kept(p)'
<1> SUFFICES ASSUME command[p].verb = "install"
             PROVE  Kept(p)'
  BY AtWork DEF Kept
<1>1. pc'[p] \in Steps \ {"check_link", "check_receipt"} => ~Linked(job[p].pkg)'
  BY StaysUnlinked, AtWork, StepTable DEF Giving, Finishing
<1>2. CASE StartSession(p)
  <2> PICK s : s = NewSession(p)
    OBVIOUS
  <2>1. s \notin started /\ s.pid = p /\ ~Holding(p) /\ ~Doomed(p) /\ s \in Session
    BY <1>2, SessionIsNew
  <2>2. /\ job' = [job EXCEPT ![p].sid = s] /\ pc'[p] = "lookup" /\ link' = link
        /\ started' = started \cup {s} /\ reused' = reused \cup ({s} \cap started)
        /\ job[p] \in Job
    BY <1>2, AtWork DEF StartSession, TypeOK, ProcTypeOK, disk
  <2>3. job'[p] = [job[p] EXCEPT !.sid = s]
    BY <2>2, AtWork DEF TypeOK, ProcTypeOK
  <2>4. job'[p].sid = s /\ job'[p].cmd = "install"
    BY <2>2, <2>3, InstallAtWork DEF Job
  <2>5. Accounted(p, s)'
    BY <2>1, <2>2, <2>4, StepTable, MarkAssumption DEF Accounted, Holding, Sid
  <2>6. ASSUME NEW u \in started, u.pid = p
        PROVE  Accounted(p, u)'
    BY <2>1, <2>2, <2>6, InstallAtWork DEF Kept, Accounted
  <2>7. \A u \in reused' : u.pid # p
    BY <2>1, <2>2, InstallAtWork
  <2> QED BY <1>1, <2>2, <2>5, <2>6, <2>7 DEF Kept
<1>3. CASE ~StartSession(p)
  <2>1. UNCHANGED <<started, reused>>
    BY <1>3, AtWork, NothingBegun
  <2>2. ASSUME ~Doomed(p)', NEW s \in started, s.pid = p
        PROVE  Accounted(p, s)'
    <3>1. ~Doomed(p) /\ s \in Session
      BY InstallAtWork, AtWork DEF Doomed, TypeOK, DiskTypeOK
    <3> QED BY <1>3, <2>2, <3>1, InstallAtWork, StaysAccounted DEF Kept
  <2> QED BY <1>1, <2>1, <2>2, InstallAtWork DEF Kept
<1> QED BY <1>2, <1>3

\* A step of main() or of uppm_install names no session and links nothing.
LEMMA QuietKept ==
  ASSUME NEW p \in Pid, Kept(p), pc[p] \notin Steps, ~Doomed(p),
         command[p] # None, command'[p].verb = command[p].verb,
         pc'[p] \in Steps => pc'[p] = "check_link" \/ command[p].verb # "install",
         UNCHANGED <<link, started, reused>>
  PROVE  Kept(p)'
BY DEF Kept, Accounted, Holding

LEMMA ScreenKept ==
  ASSUME AllInv, NEW p \in Pid, Kept(p), Screen(p), command'[p] # None
  PROVE  Kept(p)'
<1>1. command[p] # None /\ command[p].phase = "screen" /\ UNCHANGED store
  BY DEF Screen
<1>2. command'[p].verb = command[p].verb
  BY ScreenCommand DEF AllInv
<1>3. pc[p] \notin Steps /\ pc'[p] = pc[p]
  BY <1>1 DEF store, AllInv, CliInv, CommandOK
<1>4. ~Doomed(p)
  BY <1>1, <1>3 DEF Doomed, Clearing, Holding, Returned
<1> QED BY <1>1, <1>2, <1>3, <1>4, QuietKept DEF store

LEMMA CallKept ==
  ASSUME AllInv, NEW p \in Pid, Kept(p), command'[p] # None,
         CallInstall(p) \/ CallUpgrade(p) \/ CallUninstall(p) \/ CallFetch(p)
  PROVE  Kept(p)'
<1>1. command[p] # None /\ command[p].phase = "call"
  BY DEF CallInstall, CallUpgrade, CallUninstall, CallFetch
<1>2. command' = [command EXCEPT ![p].phase = "in"]
  BY DEF CallInstall, CallUpgrade, CallUninstall, CallFetch, Exit, AllInv, CliInv, CliType
<1>3. command'[p].verb = command[p].verb
  BY <1>1, <1>2, CalledCommand DEF AllInv
<1>4. pc[p] \notin Steps
  BY <1>1 DEF AllInv, CliInv, CommandOK
<1>5. ~Doomed(p)
  BY <1>1, <1>4 DEF Doomed, Clearing, Holding, Returned
<1>6. UNCHANGED <<link, started, reused>>
  BY DEF CallInstall, CallUpgrade, CallUninstall, CallFetch, BeginUninstall, BeginFetch, store,
     disk, hist
<1>7. command[p].verb = "install" => pc' = pc
  BY DEF CallInstall, CallUpgrade, CallUninstall, CallFetch, store
<1> QED BY <1>1, <1>3, <1>4, <1>5, <1>6, <1>7, QuietKept

LEMMA ReturnKept ==
  ASSUME AllInv, NEW p \in Pid, Kept(p), command'[p] # None,
         OperationReturns(p) \/ InstallReturns(p)
  PROVE  Kept(p)'
<1>1. command[p] # None /\ pc[p] = "idle" /\ pc[p] \notin Steps /\ UNCHANGED store
  BY StepTable DEF OperationReturns, InstallReturns, Installing
<1>2. \A r : ~Exit(p, r)
  BY DEF Exit, AllInv, CliInv, CliType
<1>3. result[p] = "ok" /\ (NextArgument(p) \/ UNCHANGED command)
  BY <1>2 DEF OperationReturns, InstallReturns
<1>4. command'[p].verb = command[p].verb
  BY <1>1, <1>2, <1>3, NextCommand DEF NextArgument, AllInv
<1>5. ~Doomed(p)
  BY <1>1, <1>3 DEF Doomed, Clearing, Holding
<1> QED BY <1>1, <1>4, <1>5, QuietKept DEF store

LEMMA RecursionKept ==
  ASSUME AllInv, NEW p \in Pid, Kept(p), command'[p] # None,
         LookupFormula(p) \/ InstallDependency(p) \/ StackOverflow(p) \/ InstallPackage(p)
  PROVE  Kept(p)'
<1>1. /\ Installing(p) /\ UNCHANGED <<command, link, started, reused>>
      /\ pc' = pc \/ pc' = [pc EXCEPT ![p] = IF Forced(p) THEN "session" ELSE "check_link"]
  BY DEF LookupFormula, InstallDependency, StackOverflow, InstallPackage, BeginInstall, Exit,
     store, disk, hist, AllInv, CliInv, CliType
<1>2. ~Top(p).built
  BY <1>1, AtCall
  DEF LookupFormula, InstallDependency, StackOverflow, InstallPackage, CallOK
<1>3. ~Doomed(p)
  BY <1>1, <1>2, AtCall DEF Doomed, Returned
<1>4. pc'[p] \in Steps => pc'[p] = "check_link" \/ command[p].verb # "install"
  BY <1>1, AtCall DEF Forced, AllInv, CliInv, TypeOK, ProcTypeOK
<1> QED BY <1>1, <1>3, <1>4, AtCall, QuietKept

LEMMA ActingKept ==
  ASSUME AllInv, KeptInv, UrlsApart, NEW p \in Pid,
         Main(p) \/ Work(p) \/ Fail(p) \/ Kill(p)
  PROVE  Kept(p)'
<1>1. CASE command'[p] = None
  BY <1>1 DEF Kept
<1>2. CASE Kill(p)
  BY <1>1, <1>2 DEF Kill, Exit, AllInv, CliInv, CliType
<1>3. CASE Main(p) /\ command'[p] # None
  BY <1>3, ScreenKept, CallKept, ReturnKept, RecursionKept DEF Main, KeptInv
<1> QED BY <1>1, <1>2, <1>3, WorkKept

\* A command that has just been given has begun no session.
LEMMA InvokeKept ==
  ASSUME AllInv, NEW p \in Pid, NEW line \in CommandLine, Invoke(p, line.verb, line.args)
  PROVE  Kept(p)'
<1>1. command[p] = None /\ exit[p] = "none" /\ UNCHANGED store
  BY DEF Invoke
<1>2. pc[p] \notin Steps
  BY <1>1 DEF AllInv, CliInv, CommandOK
<1>3. \A s \in started : s.pid # p
  BY <1>1 DEF AllInv, SerialInv, Serial, Sessions, Fresh
<1>4. reused \subseteq started
  BY DEF AllInv, CliInv, TypeOK, DiskTypeOK
<1> QED BY <1>1, <1>2, <1>3, <1>4 DEF store, Kept

LEMMA NextKept ==
  ASSUME UrlsApart
  PROVE  AllInv /\ KeptInv /\ [SerialNext]_<<cli, vars>> => KeptInv'
<1> SUFFICES ASSUME AllInv, KeptInv, [SerialNext]_<<cli, vars>>
             PROVE  KeptInv'
  OBVIOUS
<1>1. ASSUME NEW p \in Pid,
             \/ Idle /\ \E line \in CommandLine : Invoke(p, line.verb, line.args)
             \/ Main(p) \/ Work(p) \/ Fail(p) \/ Kill(p)
      PROVE  KeptInv'
  <2>1. Kept(p)'
    BY <1>1, ActingKept, InvokeKept
  <2>2. SerialInv'
    BY NextSerial DEF AllInv
  <2>3. ASSUME NEW q \in Pid \ {p}, command'[q] # None
        PROVE  Kept(q)'
    <3>1. command[p] # None \/ Idle
      BY <1>1, ActingSerial, NextSerial DEF AllInv
    <3>2. command[q] = None
      BY <3>1, <2>3 DEF Idle, AllInv, SerialInv, Alone
    <3>3. CASE UNCHANGED cli
      BY <2>3, <3>2, <3>3 DEF cli
    <3> QED BY <1>1, <2>3, <3>2, <3>3, OthersCli DEF Others, AllInv, Work, Fail
  <2> QED BY <2>1, <2>3 DEF KeptInv, Kept
<1>2. CASE Elsewhere \/ UNCHANGED <<cli, vars>>
  <2>1. UNCHANGED <<command, frames, link, pc, job, result, started, reused>>
    BY <1>2 DEF Elsewhere, Tick, Publish, vars, disk, proc, hist, cli
  <2>2. ASSUME NEW p \in Pid
        PROVE  (Doomed(p)' <=> Doomed(p)) /\ (Linked(job[p].pkg)' <=> Linked(job[p].pkg))
               /\ \A s : Accounted(p, s)' <=> Accounted(p, s)
    BY <2>1 DEF Doomed, Clearing, Returned, Top, Holding, Sid, Accounted, Linked
  <2> QED BY <2>1, <2>2 DEF KeptInv, Kept
<1> QED BY <1>1, <1>2 DEF SerialNext

\* One command after the other, and no two packages with one url: an installation without
\* force does not begin a session twice, in whatever order and however often it reaches
\* packages, and however long a second lasts.
THEOREM InstallsNameSessionsOnce ==
  ASSUME UrlsApart
  PROVE  SerialSpec => []InstallsNameOnce
<1>1. UppmInit => AllInv /\ KeptInv
  BY InitCli, InitSerial, InitInv DEF AllInv, UppmInit, KeptInv, Kept
<1>2. AllInv /\ KeptInv /\ [SerialNext]_<<cli, vars>> => (AllInv /\ KeptInv)'
  BY NextSerial, NextKept
<1>3. KeptInv => InstallsNameOnce
  BY DEF KeptInv, Kept, InstallsNameOnce
<1> QED BY <1>1, <1>2, <1>3, PTL DEF SerialSpec
=============================================================================
