----------------------------- MODULE Inventory ------------------------------
(* The inventory table and its ledger of movements (inventory.service.ts,     *)
(* and the reservation and release statements of orders.service.ts).          *)
(*                                                                            *)
(* Every writer of an inventory row first takes it with SELECT ... FOR UPDATE *)
(* and writes it in the same transaction, so one transaction on stock is one  *)
(* step here; StockLocks models the locks themselves.                         *)
EXTENDS Integers, FiniteSets

CONSTANTS
    Products,      \* the products; each has one inventory row
    OrderIds,      \* ids the orders sequence may hand out, 1..n
    MaxStock,      \* bound: the largest physical quantity staff may set
    Deltas,        \* bound: the signed amounts of POST /inventory/:id/adjust
    Thresholds,    \* bound: the low-stock thresholds staff may set
    MaxMovements   \* bound: how many stock movements staff may make

ASSUME InventoryAssumption ==
    /\ MaxStock \in Nat
    /\ MaxMovements \in Nat
    /\ Deltas \subseteq Int
    /\ Thresholds \subseteq Nat

VARIABLES
    quantity,      \* inventory.quantity of each product
    reserved,      \* inventory.reserved_quantity
    threshold,     \* inventory.low_stock_threshold
    stockMoves,    \* sum of the STOCK_IN, STOCK_OUT and ADJUSTMENT movements
    holdMoves,     \* by order: sum of its RESERVATION and RELEASE movements
    movementCount, \* how many staff movements were written; the id of the last
    alerts         \* LOW_STOCK and OUT_OF_STOCK outbox events, by movement id

inventoryVars ==
    <<quantity, reserved, threshold, stockMoves, holdMoves, movementCount, alerts>>

\* What staff edits; a reservation or a release leaves it alone.
staffStockVars == <<quantity, threshold, stockMoves, movementCount, alerts>>

Lesser(a, b) == IF a < b THEN a ELSE b

AlertTypes == {"LOW_STOCK", "OUT_OF_STOCK"}
Alert == [type : AlertTypes, product : Products, movement : Nat]

InventoryTypeOK ==
    /\ quantity \in [Products -> Nat]
    /\ reserved \in [Products -> Nat]
    /\ threshold \in [Products -> Nat]
    /\ stockMoves \in [Products -> Int]
    /\ holdMoves \in [OrderIds -> [Products -> Int]]
    /\ movementCount \in Nat
    /\ alerts \subseteq Alert

\* Stock starts empty, as products.service.ts creates it, and the first
\* deliveries have been booked as STOCK_IN movements.
InventoryInit ==
    /\ quantity = [p \in Products |-> MaxStock]
    /\ reserved = [p \in Products |-> 0]
    /\ threshold \in [Products -> Thresholds]
    /\ stockMoves = [p \in Products |-> MaxStock]
    /\ holdMoves = [o \in OrderIds |-> [p \in Products |-> 0]]
    /\ movementCount = 0
    /\ alerts = {}

\* What may still be ordered; never stored, never negative.
availableQuantityOf(p) ==
    IF quantity[p] > reserved[p] THEN quantity[p] - reserved[p] ELSE 0

-----------------------------------------------------------------------------
(* Reservation and release, as orders.service.ts writes them.                 *)

\* reservedQuantity += qty and one RESERVATION movement per line.
Reserve(o, items) ==
    /\ reserved' = [p \in Products |-> reserved[p] + items[p]]
    /\ holdMoves' = [holdMoves EXCEPT ![o] = [p \in Products |-> @[p] + items[p]]]
    /\ UNCHANGED staffStockVars

\* A faulty variant: the lines are not found and nothing is released.
ReleaseNothing(o, items) == UNCHANGED inventoryVars

\* A faulty variant: the reservation is given back without a movement.
ReleaseUnlogged(o, items) ==
    /\ reserved' = [p \in Products |-> reserved[p] - Lesser(items[p], reserved[p])]
    /\ UNCHANGED <<staffStockVars, holdMoves>>

\* reservedQuantity -= min(qty, reserved), but the RELEASE movement is -qty.
Release(o, items) ==
    /\ reserved' = [p \in Products |-> reserved[p] - Lesser(items[p], reserved[p])]
    /\ holdMoves' = [holdMoves EXCEPT ![o] = [p \in Products |-> @[p] - items[p]]]
    /\ UNCHANGED staffStockVars

-----------------------------------------------------------------------------
(* Staff endpoints.                                                           *)

\* The alert a change of the physical quantity raises, if it crosses a limit.
crossing(p, before, after) ==
    LET alert(t) == [type |-> t, product |-> p, movement |-> movementCount + 1]
    IN  IF before > 0 /\ after <= 0 THEN {alert("OUT_OF_STOCK")}
        ELSE IF before > threshold[p] /\ after <= threshold[p] THEN {alert("LOW_STOCK")}
        ELSE {}

\* A faulty variant: nothing is compared with what is left.
adjustUnchecked(p, d) ==
    /\ movementCount < MaxMovements
    /\ d # 0
    /\ quantity' = [quantity EXCEPT ![p] = @ + d]
    /\ stockMoves' = [stockMoves EXCEPT ![p] = @ + d]
    /\ movementCount' = movementCount + 1
    /\ UNCHANGED <<reserved, threshold, holdMoves, alerts>>

\* POST /inventory/:productId/adjust: a signed movement of physical stock.
adjust(p, d) ==
    /\ movementCount < MaxMovements
    /\ d # 0
    /\ quantity[p] + d >= 0
    /\ quantity[p] + d >= reserved[p]
    /\ quantity[p] + d <= MaxStock
    /\ quantity' = [quantity EXCEPT ![p] = @ + d]
    /\ stockMoves' = [stockMoves EXCEPT ![p] = @ + d]
    /\ alerts' = alerts \cup crossing(p, quantity[p] - reserved[p],
                                         quantity[p] + d - reserved[p])
    /\ movementCount' = movementCount + 1
    /\ UNCHANGED <<reserved, threshold, holdMoves>>

\* A faulty variant: the new quantity is not logged as an ADJUSTMENT.
updateUnlogged(p, q, t) ==
    /\ q >= reserved[p]
    /\ quantity' = [quantity EXCEPT ![p] = q]
    /\ threshold' = [threshold EXCEPT ![p] = t]
    /\ UNCHANGED <<reserved, stockMoves, holdMoves, movementCount, alerts>>

\* PATCH /inventory/:productId: sets the quantity (logged as an ADJUSTMENT when
\* it changes) and the threshold; it raises no alert.
update(p, q, t) ==
    /\ movementCount < MaxMovements
    /\ q >= reserved[p]
    /\ quantity' = [quantity EXCEPT ![p] = q]
    /\ threshold' = [threshold EXCEPT ![p] = t]
    /\ stockMoves' = [stockMoves EXCEPT ![p] = @ + (q - quantity[p])]
    /\ movementCount' = IF q # quantity[p] THEN movementCount + 1 ELSE movementCount
    /\ UNCHANGED <<reserved, holdMoves, alerts>>

InventoryNext ==
    \E p \in Products :
        \/ \E d \in Deltas : adjust(p, d)
        \/ \E q \in 0..MaxStock, t \in Thresholds : update(p, q, t)
=============================================================================
