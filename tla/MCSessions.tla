----------------------------- MODULE MCSessions -----------------------------
(* Small instances of Sessions for TLC.                                       *)
EXTENDS Sessions, TLC

CONSTANTS u1, r1, r2, r3

OneToken == {1}
ThreeTokens == 1..3
Symmetry == Permutations(Requests)
=============================================================================
