---------------------------- MODULE MCStockLocks ----------------------------
(* Small instances of StockLocks for TLC.                                     *)
EXTENDS StockLocks, TLC

CONSTANTS p1, p2, t1, t2, t3

OneUnit == {-1, 1}

Symmetry == Permutations(Transactions) \cup Permutations(Products)
=============================================================================
