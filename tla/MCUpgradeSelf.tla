--------------------------- MODULE MCUpgradeSelf ---------------------------
(***************************************************************************)
(* A small instance of UpgradeSelf: releases on both sides of the one that *)
(* is installed.                                                           *)
(***************************************************************************)
EXTENDS UpgradeSelf, TLC

CONSTANTS p1, p2, p3

MCRelease == {<<1, 2, 1>>, <<1, 3, 0>>, <<2, 0, 0>>, <<0, 9, 9>>}

MCFirst == <<1, 2, 1>>

Processes == Permutations(Pid)
=============================================================================
