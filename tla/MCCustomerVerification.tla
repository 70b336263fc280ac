----------------------- MODULE MCCustomerVerification -----------------------
(* Small instances of CustomerVerification for TLC.                           *)
EXTENDS CustomerVerification, TLC

CONSTANTS k1, k2, l1, l2, r1, r2, r3, r4

TwoIds == 1..2

Symmetry == Permutations(Requests) \cup Permutations(Keys) \cup Permutations(Locales)
=============================================================================
