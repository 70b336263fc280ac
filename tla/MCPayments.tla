----------------------------- MODULE MCPayments -----------------------------
(* Small instances of Payments for TLC.                                       *)
EXTENDS Payments, TLC

CONSTANTS c1, c2, o1, o2, k1, k2, x1, x2, r1, r2, r3, r4

\* Everything belongs to one customer.
OneOwner == [o \in OrderIds |-> c1]

Symmetry ==
    Permutations(Requests) \cup Permutations(Keys) \cup Permutations(References)
=============================================================================
