---------------------------- MODULE MCRoundRobin ----------------------------
(***************************************************************************)
(* Instances of RoundRobin for TLC: lists of two to four symbols that      *)
(* grow, shrink and change their order, slices of two and three.           *)
(***************************************************************************)
EXTENDS RoundRobin, TLC

CONSTANTS s1, s2, s3, s4

ChangingLists ==
    {<<s1, s2, s3, s4>>, <<s3, s1, s2>>, <<s4, s2>>, << >>}
FixedList == {<<s1, s2, s3>>}

Batches == ("coinglass" :> 2) @@ ("mexc" :> 3)
=============================================================================
