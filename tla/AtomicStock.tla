---------------------------- MODULE AtomicStock -----------------------------
(* What the inventory table promises to whoever orders, cancels or restocks:  *)
(* every change of stock is one step, takes no more than there is, and        *)
(* physical stock never changes without the movement that says so. How much   *)
(* of what it asked for a step takes or gives back is left open here; that    *)
(* orders take and give back what is in them is said of Orders.               *)
EXTENDS Integers

CONSTANT Products

VARIABLES
    quantity,      \* inventory.quantity
    reserved,      \* inventory.reserved_quantity
    stockMoves     \* sum of the movements of the physical quantity

vars == <<quantity, reserved, stockMoves>>

Init ==
    /\ quantity \in [Products -> Nat]
    /\ reserved = [p \in Products |-> 0]
    /\ stockMoves = quantity

\* Some units of some products are taken in one step, no more than are available.
Take ==
    /\ \A p \in Products :
          reserved'[p] = reserved[p] \/ reserved'[p] \in reserved[p]..quantity[p]
    /\ UNCHANGED <<quantity, stockMoves>>

\* Some units are given back, never more than are reserved.
GiveBack ==
    /\ \A p \in Products : reserved'[p] \in 0..reserved[p]
    /\ UNCHANGED <<quantity, stockMoves>>

\* Staff changes the quantity of one product, never below what is reserved.
Restock(p) ==
    /\ quantity'[p] >= reserved[p]
    /\ quantity' = [quantity EXCEPT ![p] = quantity'[p]]
    /\ stockMoves' = [stockMoves EXCEPT ![p] = @ + (quantity'[p] - quantity[p])]
    /\ UNCHANGED reserved

Next == Take \/ GiveBack \/ \E p \in Products : Restock(p)

Spec == Init /\ [][Next]_vars
=============================================================================
