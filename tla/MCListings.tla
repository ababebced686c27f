----------------------------- MODULE MCListings -----------------------------
(***************************************************************************)
(* A small instance of Listings: three packages and two repositories; the  *)
(* receipt of the second revision of c cannot be read, nor can the formula *)
(* of b.  A command of one package is about a, and only what the command   *)
(* reads changes.                                                          *)
(***************************************************************************)
EXTENDS Listings

CONSTANTS a, b, c, x, y

MCUnreadable == {<<c, 2>>}

MCMalformed == {<<b, 1>>}

MCInit ==
  /\ Init
  /\ current[a] = 1 /\ current[b] = 1 /\ current[c] = 2
  /\ shelf[x] = {a, b, c} /\ shelf[y] \in {{a}, None}
  /\ installed[b] # 2 /\ installed[c] # 1
  /\ x \in configured /\ (shelf[y] = None => y \in configured)

\* Who may change what: a listing of formulas does not read installed/, and only
\* `ls-outdated' reads both.
MCNext ==
  \/ \E e \in Scans \cup Names \cup Infos : Begin(e, IF e = "field" THEN c ELSE a)
  \/ Step
  \/ command \notin Names /\ \E k \in Package : ChangeIndex(k)
  \/ command \in Names \cup {"ls_outdated"} /\
        \E q \in Repo : ChangeConfig(q) \/ \E k \in {a, c} : ChangeFormulas(q, k)

MCSpec == MCInit /\ [][MCNext]_vars
=============================================================================
