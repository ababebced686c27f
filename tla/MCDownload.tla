----------------------------- MODULE MCDownload -----------------------------
(***************************************************************************)
(* A small instance of Download: lines shorter than a url, just as long,   *)
(* longer, two lines, and nothing.  One of the two processes has its urls  *)
(* transformed.                                                            *)
(***************************************************************************)
EXTENDS Download

CONSTANTS p1, p2, near, far, good, bad, x, y

Ask(verb, sha, out, transform) ==
  [verb |-> verb, sha |-> sha, out |-> out, transform |-> transform]

Transforming == {Ask("download", good, near, TRUE), Ask("integrate", good, far, TRUE)}

MCCommandLine ==
  Transforming \cup {Ask("download", bad, near, FALSE), Ask("integrate", good, far, FALSE)}

MCPrinted ==
  {<<>>, <<x, Newline>>, <<x, y, Newline>>, <<x, Newline, y>>,
   <<x, y, x, x, Newline>>}

MCInit == Init /\ file[far] \in {None, "directory"} /\ file[near] # bad

MCNext ==
  \/ \E p \in Pid, line \in CommandLine : line.transform = (p = p1) /\ Invoke(p, line)
  \/ \E p \in Pid : \/ Step(p) \/ ChildStep(p) \/ ChildFails(p)
                    \/ Stop(p, "error") \/ Stop(p, "killed")

MCSpec == MCInit /\ [][MCNext]_vars /\ \A p \in Pid : WF_vars(Step(p)) /\ WF_vars(ChildStep(p))
=============================================================================
