----------------------------- MODULE MCDepends ------------------------------
(***************************************************************************)
(* A small instance of Depends: a needs b and c, c needs d and b, d needs   *)
(* e, and b needs e or, in its second revision, d.  s needs itself, u      *)
(* needs what is not there.                                                *)
(***************************************************************************)
EXTENDS Depends, TLC

CONSTANTS a, b, c, d, e, s, u, p1, p2, near, far

Twice(deps) == <<deps, deps>>

MCDependency ==
  a :> Twice(<<b, c>>) @@ b :> <<<<e>>, <<d>>>> @@ c :> Twice(<<d, b>>) @@ d :> Twice(<<e>>)
  @@ e :> Twice(<<>>) @@ s :> Twice(<<e, s>>) @@ u :> Twice(<<d, Unknown>>)

Asks(root, type, path) == [root |-> root, type |-> type, out |-> path]

MCCommandLine ==
  {Asks(a, "svg", far), Asks(b, "svg", far), Asks(c, "dot", near), Asks(b, "box", Here),
   Asks(d, "box", None), Asks(d, "dot", None), Asks(e, "png", None), Asks(b, "png", None),
   Asks(s, "png", far), Asks(u, "box", near), Asks(Unknown, "dot", None)}

\* Only the formula of b has two revisions.
MCNext ==
  \/ \E p \in Pid : \/ \E line \in CommandLine : Invoke(p, line)
                    \/ Step(p) \/ CallFails(p) \/ Kill(p)
  \/ Publish(b)

MCSpec == Init /\ [][MCNext]_vars /\ \A p \in Pid : WF_vars(Step(p))
=============================================================================
