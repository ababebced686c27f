---------------------------- MODULE PackageIndex ----------------------------
(***************************************************************************)
(* What the users of a package store rely on: under the name of a package  *)
(* there is either nothing or one finished build of it.  A build appears   *)
(* only where nothing was, it is one the formulas offer, and it is never   *)
(* changed in place: the only thing that happens to it is that its name    *)
(* disappears.                                                             *)
(***************************************************************************)
CONSTANTS
  Package,
  None,
  Offer        \* Offer[k]: the builds that may appear under the name k

VARIABLE installed

Init == installed = [k \in Package |-> None]

Appear(k, build) ==
  /\ installed[k] = None
  /\ build \in Offer[k]
  /\ installed' = [installed EXCEPT ![k] = build]

Disappear(K) ==
  installed' = [k \in Package |-> IF k \in K THEN None ELSE installed[k]]

Next ==
  \/ \E K \in SUBSET Package : Disappear(K)
  \/ \E k \in Package : \E build \in Offer[k] : Appear(k, build)

Spec == Init /\ [][Next]_installed
=============================================================================
