--------------------------- MODULE MCPackageStore ---------------------------
(***************************************************************************)
(* A small instance of PackageStore.  The number of operations begun in    *)
(* one behaviour is bounded by MaxOps.  A behaviour plays one of two       *)
(* scenes: operations on the package a, whose formula moves to a new       *)
(* version; or operations on a and b, which are made from one file, while  *)
(* the clock may stand still or tick.                                      *)
(***************************************************************************)
EXTENDS PackageStore, TLC

CONSTANTS a, b, u1, u2, s1, s2, p1, p2, MaxOps

VARIABLES
  ops,    \* operations begun so far
  scene

Text1 == [url |-> u1, sha |-> s1]
Text2 == [url |-> u2, sha |-> s2]

MCFormula == a :> <<Text1, Text2>> @@ b :> <<Text1, Text1>>

Nothing == download = [x \in Sha |-> None] /\ link = [k \in Package |-> None]

BoundedInit ==
  /\ Init /\ ops = 0
  /\ \/ scene = "moving" /\ link[b] = None
     \/ scene = "shared" /\ Nothing

BeginHere(p) == Begin(p) /\ (scene = "moving" => job'[p].pkg = a)

BoundedNext ==
  /\ \/ /\ ops < MaxOps
        /\ \E p \in Pid : BeginHere(p)
        /\ ops' = ops + 1
     \/ /\ \/ \E p \in Pid : InstallStep(p) \/ UninstallStep(p) \/ Fault(p) \/ Crash(p)
           \/ scene = "shared" /\ Tick
           \/ scene = "moving" /\ Publish(a)
        /\ UNCHANGED ops
  /\ UNCHANGED scene

BoundedSpec == BoundedInit /\ [][BoundedNext]_<<vars, ops, scene>>

Processes == Permutations(Pid)
=============================================================================
