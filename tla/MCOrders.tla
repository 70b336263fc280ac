------------------------------ MODULE MCOrders ------------------------------
(* Small instances of Orders for TLC.                                         *)
EXTENDS Orders, TLC

CONSTANTS c1, c2, p1, p2, r1, r2, r3, r4, r5, k1, k2, staff

Symmetry ==
    Permutations(Customers) \cup Permutations(Products)
        \cup Permutations(Requests) \cup Permutations(Keys)

\* Adjustments by a unit, and one that takes more than there may be.
FewUnits == {-2, -1, 1}
NoDelta == {}
TwoOrders == 1..2
=============================================================================
