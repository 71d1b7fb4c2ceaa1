----------------------------- MODULE MCUniverse -----------------------------
(***************************************************************************)
(* Instances of Universe for TLC: two symbols over three days, volumes on  *)
(* both sides of the threshold.                                            *)
(***************************************************************************)
EXTENDS Universe, TLC

CONSTANTS s1, s2

Symmetry == Permutations(Symbols)
=============================================================================
