---------------------------- MODULE MCFlashStore ----------------------------
(***************************************************************************)
(* Instances of FlashStore: two namespaces with two names each, values of  *)
(* one and of two bytes.  The code compares namespaces and names and does  *)
(* nothing else with them, so they may be exchanged.                       *)
(***************************************************************************)
EXTENDS FlashStore, TLC

CONSTANTS v1, v2, sa, sb, x, y

MCValues == {v1, v2}
MCLength == v1 :> 1 @@ v2 :> 2
MCSpaces == {sa, sb}
MCNames == {x, y}
Symmetry == Permutations(MCSpaces) \cup Permutations(MCNames)
=============================================================================
