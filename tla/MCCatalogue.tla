---------------------------- MODULE MCCatalogue ----------------------------
(* Small instances of Catalogue for TLC.                                      *)
EXTENDS Catalogue, TLC

CONSTANTS r1, r2

ThreeIds == 1..3
TwoIds == 1..2
OneId == {1}
OfOneProduct == [i \in Images |-> 1]
Symmetry == Permutations(Requests)
=============================================================================
