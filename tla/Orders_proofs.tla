--------------------------- MODULE Orders_proofs ----------------------------
(* Theorems about Orders.                                                     *)
EXTENDS Orders, FiniteSetTheorems, TLAPS

LEMMA EmptyCartType == EmptyCart \in Cart
BY OrdersAssumption DEF EmptyCart, Cart

LEMMA IdleRequestType == IdleRequest \in Request
BY EmptyCartType DEF IdleRequest, Request

LEMMA InitTypeOK == Init => TypeOK
<1> SUFFICES ASSUME Init PROVE TypeOK
  OBVIOUS
<1>1. InventoryTypeOK
  <2>1. Thresholds \subseteq Nat /\ MaxStock \in Nat
    BY InventoryAssumption
  <2>2. threshold \in [Products -> Nat]
    BY <2>1 DEF Init, InventoryInit
  <2> QED
    BY <2>1, <2>2 DEF Init, InventoryInit, InventoryTypeOK
<1>2. req \in [Requests -> Request]
  BY IdleRequestType DEF Init
<1>3. idem \in [Customers -> [Keys -> IdempotencyRow]]
  BY EmptyCartType DEF Init, IdempotencyRow, NoRow
<1>4. cart \in [Customers -> Cart] /\ orderItems \in [OrderIds -> Cart]
  BY EmptyCartType DEF Init
<1>5. CallsOK
  BY DEF Init, CallsOK, IdleRequest
<1> QED
  BY <1>1, <1>2, <1>3, <1>4, <1>5 DEF Init, TypeOK

-----------------------------------------------------------------------------
(* Type correctness.                                                          *)

LEMMA CartLine ==
    ASSUME NEW items \in Cart, NEW p \in Products
    PROVE  items[p] \in Nat /\ items[p] <= MaxLine
BY OrdersAssumption DEF Cart

LEMMA ReserveType ==
    ASSUME InventoryTypeOK, NEW o \in OrderIds, NEW items \in Cart, Reserve(o, items)
    PROVE  InventoryTypeOK'
<1>1. reserved' \in [Products -> Nat]
  BY CartLine DEF Reserve, InventoryTypeOK
<1>2. holdMoves' \in [OrderIds -> [Products -> Int]]
  BY CartLine DEF Reserve, InventoryTypeOK
<1> QED
  BY <1>1, <1>2 DEF Reserve, staffStockVars, InventoryTypeOK

LEMMA ReleaseType ==
    ASSUME InventoryTypeOK, NEW o \in OrderIds, NEW items \in Cart, Release(o, items)
    PROVE  InventoryTypeOK'
<1>1. reserved' \in [Products -> Nat]
  BY CartLine DEF Release, InventoryTypeOK, Lesser
<1>2. holdMoves' \in [OrderIds -> [Products -> Int]]
  BY CartLine DEF Release, InventoryTypeOK
<1> QED
  BY <1>1, <1>2 DEF Release, staffStockVars, InventoryTypeOK

LEMMA StaffType ==
    ASSUME InventoryTypeOK, InventoryNext
    PROVE  InventoryTypeOK'
<1>1. ASSUME NEW p \in Products, NEW d \in Deltas, adjust(p, d)
      PROVE  InventoryTypeOK'
  <2>1. d \in Int
    BY InventoryAssumption
  <2>2. crossing(p, quantity[p] - reserved[p], quantity[p] + d - reserved[p]) \subseteq Alert
    BY DEF crossing, Alert, AlertTypes, InventoryTypeOK
  <2> QED
    BY <1>1, <2>1, <2>2 DEF adjust, InventoryTypeOK
<1>2. ASSUME NEW p \in Products, NEW q \in 0..MaxStock, NEW t \in Thresholds, update(p, q, t)
      PROVE  InventoryTypeOK'
  <2>1. q \in Nat /\ t \in Nat
    BY InventoryAssumption
  <2> QED
    BY <1>2, <2>1 DEF update, InventoryTypeOK
<1> QED
  BY <1>1, <1>2 DEF InventoryNext

\* A call that is answered, refused or moved on keeps its type.
LEMMA RefuseType ==
    ASSUME TypeOK, NEW r \in Requests, req[r].pc # "idle", refuse(r)
    PROVE  req' \in [Requests -> Request] /\ CallsOK'
<1>1. req \in [Requests -> Request] /\ CallsOK
  BY DEF TypeOK
<1>2. req' \in [Requests -> Request]
  <2>1. [req[r] EXCEPT !.pc = "done", !.answer = "refused"] \in Request
    BY <1>1 DEF Request
  <2> QED
    BY <1>1, <2>1 DEF refuse
<1> QED
  BY <1>1, <1>2 DEF refuse, CallsOK, Request, IdleRequest

LEMMA ReplyType ==
    ASSUME TypeOK, NEW r \in Requests, req[r].pc # "idle",
           NEW o \in OrderIds, reply(r, o)
    PROVE  req' \in [Requests -> Request] /\ CallsOK'
<1>1. req \in [Requests -> Request] /\ CallsOK
  BY DEF TypeOK
<1>2. req' \in [Requests -> Request]
  <2>1. [req[r] EXCEPT !.pc = "done", !.order = o, !.answer = "ok"] \in Request
    BY <1>1 DEF Request
  <2> QED
    BY <1>1, <2>1 DEF reply
<1> QED
  BY <1>1, <1>2 DEF reply, CallsOK, Request, IdleRequest

LEMMA MoveType ==
    ASSUME TypeOK, NEW r \in Requests, NEW pc \in {"tx", "lost"},
           req[r].pc \in {"lookup", "tx"}, req' = [req EXCEPT ![r].pc = pc]
    PROVE  req' \in [Requests -> Request] /\ CallsOK'
<1>1. req \in [Requests -> Request] /\ CallsOK
  BY DEF TypeOK
<1>2. req' \in [Requests -> Request]
  BY <1>1 DEF Request
<1> QED
  BY <1>1, <1>2 DEF CallsOK, Request, IdleRequest

LEMMA StartType ==
    ASSUME TypeOK, NEW r \in Requests, NEW c \in Request,
           c.answer = "none" <=> c.pc # "done",
           c.pc \in {"lookup", "tx", "lost"} => c.op = "create",
           c.pc = "write" => c.op = "confirm",
           c.op = "create" => c.user \in Customers /\ c.key \in Keys,
           c.pc = "write" \/ c.answer = "ok" => c.order \in OrderIds,
           c.pc # "idle",
           req' = [req EXCEPT ![r] = c]
    PROVE  req' \in [Requests -> Request] /\ CallsOK'
<1>1. req \in [Requests -> Request] /\ CallsOK
  BY DEF TypeOK
<1>2. req' \in [Requests -> Request]
  BY <1>1
<1> QED
  BY <1>1, <1>2 DEF CallsOK

LEMMA TablesType ==
    ASSUME TypeOK, UNCHANGED tables, req' \in [Requests -> Request], CallsOK'
    PROVE  TypeOK'
BY DEF TypeOK, tables, inventoryVars, InventoryTypeOK

\* A call of POST /orders that is under way looks at a row of its own customer.
LEMMA RowType ==
    ASSUME TypeOK, NEW r \in Requests, req[r].pc \in {"lookup", "tx", "lost"}
    PROVE  /\ req[r].user \in Customers
           /\ req[r].key \in Keys
           /\ req[r].cart \in Cart
           /\ row(r) \in IdempotencyRow
           /\ row(r).order # NoOrder => row(r).order \in OrderIds
<1>1. req[r].user \in Customers /\ req[r].key \in Keys
  BY DEF TypeOK, CallsOK
<1>2. row(r) \in IdempotencyRow
  BY <1>1 DEF TypeOK, row
<1> QED
  BY <1>1, <1>2 DEF TypeOK, IdempotencyRow, Request

LEMMA StepTypeOK == TypeOK /\ [Next]_vars => TypeOK'
<1> SUFFICES ASSUME TypeOK, [Next]_vars PROVE TypeOK'
  OBVIOUS
<1>1. ASSUME NEW r \in Requests, NEW c \in Customers, NEW k \in Keys, createReadsCart(r, c, k)
      PROVE  TypeOK'
  <2> DEFINE new == [IdleRequest EXCEPT !.pc = "lookup", !.op = "create",
                                        !.user = c, !.key = k, !.cart = cart[c]]
  <2>1. new \in Request
    BY IdleRequestType DEF TypeOK, Request, Actors
  <2>2. /\ new.pc = "lookup" /\ new.op = "create" /\ new.user = c
        /\ new.key = k /\ new.answer = "none"
    BY DEF IdleRequest
  <2>3. req' = [req EXCEPT ![r] = new]
    BY <1>1 DEF createReadsCart
  <2> HIDE DEF new
  <2>4. req' \in [Requests -> Request] /\ CallsOK'
    BY <2>1, <2>2, <2>3, StartType
  <2> QED
    BY <1>1, <2>4, TablesType DEF createReadsCart
<1>2. ASSUME NEW r \in Requests, createReplays(r)
      PROVE  TypeOK'
  BY <1>2, RefuseType, ReplyType, RowType, TablesType DEF createReplays
<1>3. ASSUME NEW r \in Requests, createChecksCart(r)
      PROVE  TypeOK'
  BY <1>3, RefuseType, MoveType, TablesType DEF createChecksCart
<1>4. ASSUME NEW r \in Requests, NEW o \in OrderIds, placeOrder(r, o)
      PROVE  TypeOK'
  <2>1. /\ req[r].user \in Customers /\ req[r].key \in Keys /\ req[r].cart \in Cart
        /\ req[r].pc # "idle"
    BY <1>4, RowType DEF placeOrder
  <2>2. InventoryTypeOK'
    BY <1>4, <2>1, ReserveType DEF placeOrder, TypeOK
  <2>3. req' \in [Requests -> Request] /\ CallsOK'
    BY <1>4, <2>1, ReplyType DEF placeOrder
  <2>4. /\ orderStatus' \in [OrderIds -> ORDER_STATUS \cup {"NONE"}]
        /\ orderUser' \in [OrderIds -> Customers \cup {NoUser}]
        /\ orderItems' \in [OrderIds -> Cart]
        /\ cart' \in [Customers -> Cart]
    BY <1>4, <2>1, EmptyCartType DEF placeOrder, TypeOK, ORDER_STATUS
  <2>5. idem' \in [Customers -> [Keys -> IdempotencyRow]]
    <3>1. [hash |-> req[r].cart, order |-> o] \in IdempotencyRow
      BY <2>1 DEF IdempotencyRow
    <3> QED
      BY <1>4, <2>1, <3>1 DEF placeOrder, TypeOK
  <2>6. outbox' \subseteq (OrderEvents \X OrderIds)
    BY <1>4 DEF placeOrder, TypeOK, OrderEvents
  <2> QED
    BY <1>4, <2>2, <2>3, <2>4, <2>5, <2>6 DEF placeOrder, TypeOK
<1>5. ASSUME NEW r \in Requests, createRollsBack(r)
      PROVE  TypeOK'
  BY <1>5, RefuseType, TablesType DEF createRollsBack
<1>6. ASSUME NEW r \in Requests, createLosesKey(r)
      PROVE  TypeOK'
  BY <1>6, MoveType, TablesType DEF createLosesKey
<1>7. ASSUME NEW r \in Requests, createAnswersLoser(r)
      PROVE  TypeOK'
  BY <1>7, RefuseType, ReplyType, RowType, TablesType DEF createAnswersLoser
<1>8. ASSUME NEW r \in Requests, NEW a \in Actors, NEW o \in OrderIds,
             NEW rest \in {"ok", "refused"},
             req' = [req EXCEPT ![r] = startCancel(r, a, o, rest)]
      PROVE  req' \in [Requests -> Request] /\ CallsOK'
  <2> DEFINE new == startCancel(r, a, o, rest)
  <2>1. new \in Request
    BY IdleRequestType DEF startCancel, Request
  <2>2. new.pc = "done" /\ new.op = "cancel" /\ new.order = o /\ new.answer = rest
    BY DEF startCancel, IdleRequest
  <2>3. req' = [req EXCEPT ![r] = new]
    BY <1>8
  <2> HIDE DEF new
  <2> QED
    BY <2>1, <2>2, <2>3, StartType
<1>9. ASSUME NEW r \in Requests, NEW a \in Actors, NEW o \in OrderIds, cancel(r, a, o)
      PROVE  TypeOK'
  <2>1. InventoryTypeOK'
    BY <1>9, ReleaseType DEF cancel, TypeOK
  <2>2. req' \in [Requests -> Request] /\ CallsOK'
    BY <1>8, <1>9 DEF cancel
  <2>3. /\ orderStatus' \in [OrderIds -> ORDER_STATUS \cup {"NONE"}]
        /\ outbox' \subseteq (OrderEvents \X OrderIds)
    BY <1>9 DEF cancel, TypeOK, ORDER_STATUS, OrderEvents
  <2> QED
    BY <1>9, <2>1, <2>2, <2>3 DEF cancel, TypeOK
<1>10. ASSUME NEW r \in Requests, NEW a \in Actors, NEW o \in OrderIds, cancelRefused(r, a, o)
       PROVE  TypeOK'
  BY <1>8, <1>10, TablesType DEF cancelRefused
<1>11. ASSUME NEW r \in Requests, NEW o \in OrderIds, updateStatusReads(r, o)
       PROVE  TypeOK'
  <2> DEFINE read == [IdleRequest EXCEPT !.op = "confirm", !.user = Staff, !.order = o]
  <2> DEFINE new == IF canTransition(orderStatus[o], "CONFIRMED")
                    THEN [read EXCEPT !.pc = "write"]
                    ELSE [read EXCEPT !.pc = "done", !.answer = "refused"]
  <2>1. new \in Request
    BY IdleRequestType DEF Request, Actors
  <2>2. /\ new.pc \in {"write", "done"} /\ new.op = "confirm" /\ new.order = o
        /\ new.answer = "none" <=> new.pc # "done"
        /\ new.answer # "ok"
    BY DEF IdleRequest
  <2>3. req' = [req EXCEPT ![r] = new]
    BY <1>11 DEF updateStatusReads
  <2> HIDE DEF new
  <2>4. req' \in [Requests -> Request] /\ CallsOK'
    BY <2>1, <2>2, <2>3, StartType
  <2> QED
    BY <1>11, <2>4, TablesType DEF updateStatusReads
<1>12. ASSUME NEW r \in Requests, updateStatusWrites(r)
       PROVE  TypeOK'
  <2>1. req[r].order \in OrderIds
    BY <1>12 DEF updateStatusWrites, TypeOK, CallsOK
  <2>2. req' \in [Requests -> Request] /\ CallsOK'
    BY <1>12, <2>1, ReplyType DEF updateStatusWrites
  <2>3. /\ orderStatus' \in [OrderIds -> ORDER_STATUS \cup {"NONE"}]
        /\ outbox' \subseteq (OrderEvents \X OrderIds)
    BY <1>12, <2>1 DEF updateStatusWrites, TypeOK, ORDER_STATUS, OrderEvents
  <2> QED
    BY <1>12, <2>2, <2>3
       DEF updateStatusWrites, TypeOK, inventoryVars, InventoryTypeOK
<1>13. ASSUME NEW c \in Customers, NEW p \in Products, NEW q \in 0..MaxLine, editCart(c, p, q)
       PROVE  TypeOK'
  <2>1. cart' \in [Customers -> Cart]
    BY <1>13 DEF editCart, TypeOK, Cart
  <2> QED
    BY <1>13, <2>1 DEF editCart, TypeOK, inventoryVars, InventoryTypeOK, CallsOK
<1>14. ASSUME NEW c \in Customers, clearCart(c)
       PROVE  TypeOK'
  <2>1. cart' \in [Customers -> Cart]
    BY <1>14, EmptyCartType DEF clearCart, TypeOK
  <2> QED
    BY <1>14, <2>1 DEF clearCart, TypeOK, inventoryVars, InventoryTypeOK, CallsOK
<1>15. ASSUME NEW p \in Products, NEW b \in BOOLEAN, setPublishable(p, b)
       PROVE  TypeOK'
  <2>1. publishable' \in [Products -> BOOLEAN]
    BY <1>15 DEF setPublishable, TypeOK
  <2> QED
    BY <1>15, <2>1 DEF setPublishable, TypeOK, inventoryVars, InventoryTypeOK, CallsOK
<1>16. ASSUME staffEditsStock
       PROVE  TypeOK'
  BY <1>16, StaffType DEF staffEditsStock, TypeOK, ordersVars, CallsOK
<1>17. ASSUME UNCHANGED vars
       PROVE  TypeOK'
  BY <1>17 DEF vars, ordersVars, inventoryVars, TypeOK, InventoryTypeOK, CallsOK
<1> QED
  BY <1>1, <1>2, <1>3, <1>4, <1>5, <1>6, <1>7, <1>9, <1>10, <1>11, <1>12, <1>13,
     <1>15, <1>16, <1>17, <1>14 DEF Next, serve, call, environment

\* Every table and every call keeps its type.
THEOREM TypeCorrect == Spec => []TypeOK
BY InitTypeOK, StepTypeOK, PTL DEF Spec

-----------------------------------------------------------------------------
(* Stock is never oversold.                                                   *)

\* What a transaction that validated its cart adds to the reservations is there.
LEMMA PurchasableFits ==
    ASSUME TypeOK, StockNotOversold, NEW items \in Cart, purchasable(items), NEW p \in Products
    PROVE  reserved[p] + items[p] <= quantity[p]
<1>1. items[p] \in Nat /\ reserved[p] \in Nat /\ quantity[p] \in Nat
  BY CartLine DEF TypeOK, InventoryTypeOK
<1>2. CASE p \in lines(items)
  <2>1. items[p] > 0 /\ availableQuantityOf(p) >= items[p]
    BY <1>2 DEF purchasable, lines
  <2> QED
    BY <1>1, <2>1 DEF availableQuantityOf
<1>3. CASE p \notin lines(items)
  <2>1. items[p] = 0
    BY <1>1, <1>3 DEF lines
  <2> QED
    BY <1>1, <2>1 DEF StockNotOversold
<1> QED
  BY <1>2, <1>3

LEMMA StepNotOversold == TypeOK /\ StockNotOversold /\ [Next]_vars => StockNotOversold'
<1> SUFFICES ASSUME TypeOK, StockNotOversold, [Next]_vars PROVE StockNotOversold'
  OBVIOUS
<1> USE DEF StockNotOversold
<1>1. ASSUME NEW r \in Requests, NEW o \in OrderIds, placeOrder(r, o)
      PROVE  StockNotOversold'
  <2>1. req[r].cart \in Cart
    BY DEF TypeOK, Request
  <2>2. \A p \in Products : reserved[p] + req[r].cart[p] <= quantity[p]
    BY <1>1, <2>1, PurchasableFits DEF placeOrder
  <2> QED
    BY <1>1, <2>2 DEF placeOrder, Reserve, staffStockVars
<1>2. ASSUME NEW r \in Requests, NEW a \in Actors, NEW o \in OrderIds, cancel(r, a, o)
      PROVE  StockNotOversold'
  <2>1. orderItems[o] \in Cart
    BY DEF TypeOK
  <2>2. ASSUME NEW p \in Products
        PROVE  reserved[p] - Lesser(orderItems[o][p], reserved[p]) <= quantity[p]
    BY <2>1, CartLine DEF Lesser, TypeOK, InventoryTypeOK
  <2> QED
    BY <1>2, <2>2 DEF cancel, Release, staffStockVars
<1>3. ASSUME staffEditsStock
      PROVE  StockNotOversold'
  <2>1. ASSUME NEW p \in Products, NEW d \in Deltas, adjust(p, d)
        PROVE  StockNotOversold'
    BY <2>1, InventoryAssumption DEF adjust, TypeOK, InventoryTypeOK
  <2>2. ASSUME NEW p \in Products, NEW q \in 0..MaxStock, NEW t \in Thresholds, update(p, q, t)
        PROVE  StockNotOversold'
    BY <2>2 DEF update, TypeOK, InventoryTypeOK
  <2> QED
    BY <1>3, <2>1, <2>2 DEF staffEditsStock, InventoryNext
<1>4. ASSUME UNCHANGED <<quantity, reserved>>
      PROVE  StockNotOversold'
  BY <1>4
<1> QED
  BY <1>1, <1>2, <1>3, <1>4
     DEF Next, serve, call, environment, tables, vars, inventoryVars,
         createReadsCart, createReplays, createChecksCart, createRollsBack, createLosesKey,
         createAnswersLoser, cancelRefused, updateStatusReads, updateStatusWrites,
         editCart, clearCart, setPublishable

\* Whatever the interleaving, no row of the inventory table has more reserved
\* than there is: the CHECK constraint never fires.
THEOREM NeverOversold == Spec => []StockNotOversold
<1>1. Init => StockNotOversold
  BY InventoryAssumption DEF Init, InventoryInit, StockNotOversold
<1> QED
  BY <1>1, StepNotOversold, TypeCorrect, PTL DEF Spec

-----------------------------------------------------------------------------
(* Orders and staff together implement AtomicStock.                           *)

LEMMA PlaceTakes ==
    ASSUME TypeOK, StockNotOversold, NEW r \in Requests, NEW o \in OrderIds, placeOrder(r, o)
    PROVE  Atomic!Take
<1>1. req[r].cart \in Cart
  BY DEF TypeOK, Request
<1>2. ASSUME NEW p \in Products
      PROVE  reserved'[p] \in reserved[p]..quantity[p]
  <2>1. req[r].cart[p] \in Nat /\ reserved[p] \in Nat /\ quantity[p] \in Nat
    BY <1>1, CartLine DEF TypeOK, InventoryTypeOK
  <2>2. reserved[p] + req[r].cart[p] <= quantity[p]
    BY <1>1, PurchasableFits DEF placeOrder
  <2>3. reserved'[p] = reserved[p] + req[r].cart[p]
    BY DEF placeOrder, Reserve
  <2> QED
    BY <2>1, <2>2, <2>3
<1> QED
  BY <1>2 DEF Atomic!Take, placeOrder, Reserve, staffStockVars

LEMMA CancelGivesBack ==
    ASSUME TypeOK, NEW r \in Requests, NEW a \in Actors, NEW o \in OrderIds, cancel(r, a, o)
    PROVE  Atomic!GiveBack
<1>1. ASSUME NEW p \in Products
      PROVE  reserved'[p] \in 0..reserved[p]
  <2>1. orderItems[o][p] \in Nat /\ reserved[p] \in Nat
    BY CartLine DEF TypeOK, InventoryTypeOK
  <2>2. reserved'[p] = reserved[p] - Lesser(orderItems[o][p], reserved[p])
    BY DEF cancel, Release
  <2> QED
    BY <2>1, <2>2 DEF Lesser
<1> QED
  BY <1>1 DEF Atomic!GiveBack, cancel, Release, staffStockVars

LEMMA StaffRestocks ==
    ASSUME TypeOK, InventoryNext
    PROVE  \E p \in Products : Atomic!Restock(p)
<1>1. ASSUME NEW p \in Products, NEW d \in Deltas, adjust(p, d)
      PROVE  Atomic!Restock(p)
  <2>1. d \in Int /\ quantity[p] \in Nat /\ stockMoves[p] \in Int
    BY InventoryAssumption DEF TypeOK, InventoryTypeOK
  <2>2. quantity'[p] = quantity[p] + d
    BY <1>1 DEF adjust, TypeOK, InventoryTypeOK
  <2>3. quantity'[p] - quantity[p] = d
    BY <2>1, <2>2
  <2> QED
    BY <1>1, <2>2, <2>3 DEF adjust, Atomic!Restock
<1>2. ASSUME NEW p \in Products, NEW q \in 0..MaxStock, NEW t \in Thresholds, update(p, q, t)
      PROVE  Atomic!Restock(p)
  <2>1. quantity'[p] = q
    BY <1>2 DEF update, TypeOK, InventoryTypeOK
  <2> QED
    BY <1>2, <2>1 DEF update, Atomic!Restock
<1> QED
  BY <1>1, <1>2 DEF InventoryNext

LEMMA AtomicStep ==
    TypeOK /\ StockNotOversold /\ [Next]_vars => [Atomic!Next]_<<quantity, reserved, stockMoves>>
<1> SUFFICES ASSUME TypeOK, StockNotOversold, [Next]_vars
             PROVE  Atomic!Next \/ UNCHANGED <<quantity, reserved, stockMoves>>
  OBVIOUS
<1>1. ASSUME NEW r \in Requests, NEW o \in OrderIds, placeOrder(r, o)
      PROVE  Atomic!Next
  BY <1>1, PlaceTakes DEF Atomic!Next
<1>2. ASSUME NEW r \in Requests, NEW a \in Actors, NEW o \in OrderIds, cancel(r, a, o)
      PROVE  Atomic!Next
  BY <1>2, CancelGivesBack DEF Atomic!Next
<1>3. ASSUME staffEditsStock
      PROVE  Atomic!Next
  BY <1>3, StaffRestocks DEF staffEditsStock, Atomic!Next
<1> QED
  BY <1>1, <1>2, <1>3
     DEF Next, serve, call, environment, tables, vars, inventoryVars,
         createReadsCart, createReplays, createChecksCart, createRollsBack, createLosesKey,
         createAnswersLoser, cancelRefused, updateStatusReads, updateStatusWrites,
         editCart, clearCart, setPublishable

\* Whatever carts, orders, cancellations and staff edits interleave, stock
\* changes only as AtomicStock allows.
THEOREM StockStaysAtomic == Spec => StockIsAtomic
<1>1. Init => Atomic!Init
  BY InventoryAssumption DEF Init, InventoryInit, Atomic!Init
<1> QED
  BY <1>1, AtomicStep, TypeCorrect, NeverOversold, PTL DEF Spec, StockIsAtomic, Atomic!Spec, Atomic!vars

-----------------------------------------------------------------------------
(* Idempotency.                                                               *)

\* The steps that touch no row, no order and no answer keep KeysOK.
LEMMA KeysUntouched ==
    ASSUME TypeOK, KeysOK, UNCHANGED <<idem, orderUser, orderItems>>,
           \A o \in OrderIds : orderStatus'[o] = "NONE" <=> orderStatus[o] = "NONE",
           \A r \in Requests :
              \/ req'[r] = req[r]
              \/ req'[r].pc \notin {"write"} /\ ~ (req'[r].op = "create" /\ req'[r].answer = "ok")
              \/ req'[r].pc = "write" /\ placed(req'[r].order) /\ req'[r].order \in OrderIds
                 /\ req'[r].op = "confirm"
    PROVE  KeysOK'
<1>1. \A c \in Customers, k \in Keys :
         idem[c][k].order # NoOrder => idem[c][k].order \in OrderIds
  BY DEF TypeOK, IdempotencyRow
<1>2. \A r \in Requests : req[r].pc = "write" => req[r].order \in OrderIds
  BY DEF TypeOK, CallsOK
<1> QED
  BY <1>1, <1>2 DEF KeysOK, placed, row

\* A call answered with the order of its own row keeps KeysOK.
LEMMA KeysAnswered ==
    ASSUME TypeOK, KeysOK, NEW r \in Requests, UNCHANGED tables,
           req[r].pc \in {"lookup", "lost"}, row(r).order # NoOrder,
           req[r].cart \in {row(r).hash, EmptyCart}, reply(r, row(r).order)
    PROVE  KeysOK'
<1>1. req'[r] = [req[r] EXCEPT !.pc = "done", !.order = row(r).order, !.answer = "ok"]
  BY DEF reply, TypeOK
<1>2. \A q \in Requests \ {r} : req'[q] = req[q]
  BY DEF reply, TypeOK
<1>3. /\ req'[r].pc = "done" /\ req'[r].order = row(r).order /\ req'[r].cart = req[r].cart
      /\ req'[r].user = req[r].user /\ req'[r].key = req[r].key
  BY <1>1 DEF TypeOK, Request
<1>4. idem' = idem /\ row(r)' = row(r)
  BY <1>3 DEF tables, row
<1>5. \A q \in Requests : req'[q].pc = "write" => orderStatus'[req'[q].order] # "NONE"
  BY <1>2, <1>3 DEF KeysOK, placed, tables
<1>6. \A q \in Requests : req'[q].op = "create" /\ req'[q].answer = "ok" =>
         /\ row(q)'.order = req'[q].order
         /\ req'[q].cart \in {row(q)'.hash, EmptyCart'}
  BY <1>2, <1>3, <1>4 DEF KeysOK, row
<1> QED
  BY <1>4, <1>5, <1>6 DEF KeysOK, placed, tables

LEMMA PlaceKeepsKeys ==
    ASSUME TypeOK, KeysOK, NEW r \in Requests, NEW o \in OrderIds, placeOrder(r, o)
    PROVE  KeysOK'
<1> DEFINE u == req[r].user
           x == req[r].key
           new == [hash |-> req[r].cart, order |-> o]
<1>1. u \in Customers /\ x \in Keys /\ req[r].cart \in Cart
  BY RowType DEF placeOrder
<1>2. /\ idem' = [idem EXCEPT ![u][x] = new]
      /\ orderStatus' = [orderStatus EXCEPT ![o] = "PENDING"]
      /\ orderUser' = [orderUser EXCEPT ![o] = u]
      /\ orderItems' = [orderItems EXCEPT ![o] = req[r].cart]
      /\ orderStatus[o] = "NONE" /\ req[r].pc = "tx" /\ idem[u][x].order = NoOrder
  BY DEF placeOrder, isNextId, keyIsFree, row
<1> HIDE DEF u, x
<1>3. /\ \A c \in Customers, k \in Keys :
            idem'[c][k] = IF c = u /\ k = x THEN new ELSE idem[c][k]
      /\ \A i \in OrderIds : i # o =>
            /\ orderStatus'[i] = orderStatus[i] /\ orderUser'[i] = orderUser[i]
            /\ orderItems'[i] = orderItems[i]
      /\ orderStatus'[o] = "PENDING" /\ orderUser'[o] = u /\ orderItems'[o] = req[r].cart
  BY <1>1, <1>2 DEF TypeOK
<1>4. o # NoOrder
  BY OrdersAssumption DEF NoOrder
<1>5. \A c \in Customers, k \in Keys :
         /\ idem[c][k].order # NoOrder => idem[c][k].order \in OrderIds
         /\ idem[c][k].order # o
  BY <1>2, <1>4 DEF TypeOK, IdempotencyRow, KeysOK, placed
<1>6. \A c \in Customers, k \in Keys : idem'[c][k].order # NoOrder =>
          /\ orderStatus'[idem'[c][k].order] # "NONE"
          /\ orderUser'[idem'[c][k].order] = c
          /\ orderItems'[idem'[c][k].order] = idem'[c][k].hash
  BY <1>3, <1>5 DEF KeysOK, placed
<1>7. \A c, d \in Customers, k, l \in Keys :
          idem'[c][k].order # NoOrder /\ idem'[c][k].order = idem'[d][l].order => c = d /\ k = l
  BY <1>3, <1>5 DEF KeysOK
<1>8. \A i \in OrderIds : orderStatus'[i] # "NONE" =>
          \E c \in Customers, k \in Keys : idem'[c][k].order = i
  <2>1. idem'[u][x].order = o
    BY <1>1, <1>3
  <2>2. ASSUME NEW i \in OrderIds, i # o, orderStatus'[i] # "NONE"
        PROVE  \E c \in Customers, k \in Keys : idem'[c][k].order = i
    <3>1. PICK c \in Customers, k \in Keys : idem[c][k].order = i
      BY <1>3, <2>2 DEF KeysOK, placed
    <3>2. i # NoOrder
      BY OrdersAssumption DEF NoOrder
    <3>3. idem'[c][k].order = i
      BY <1>2, <1>3, <3>1, <3>2
    <3> QED
      BY <3>3
  <2> QED
    BY <1>1, <2>1, <2>2
<1>9. /\ \A q \in Requests \ {r} : req'[q] = req[q]
      /\ req'[r] = [req[r] EXCEPT !.pc = "done", !.order = o, !.answer = "ok"]
  BY DEF placeOrder, reply, TypeOK
<1>10. /\ req'[r].pc = "done" /\ req'[r].order = o /\ req'[r].cart = req[r].cart
       /\ req'[r].user = u /\ req'[r].key = x
  BY <1>9 DEF TypeOK, Request, u, x
<1>11. \A q \in Requests : req'[q].pc = "write" => orderStatus'[req'[q].order] # "NONE"
  <2>1. ASSUME NEW q \in Requests \ {r}, req[q].pc = "write"
        PROVE  req[q].order \in OrderIds /\ orderStatus[req[q].order] # "NONE"
    BY <2>1 DEF KeysOK, placed, TypeOK, CallsOK
  <2>2. ASSUME NEW q \in Requests, req'[q].pc = "write"
        PROVE  orderStatus'[req'[q].order] # "NONE"
    <3>1. q # r /\ req'[q] = req[q]
      BY <1>9, <1>10, <2>2
    <3>2. req[q].order \in OrderIds /\ orderStatus[req[q].order] # "NONE"
      BY <2>1, <2>2, <3>1
    <3>3. orderStatus'[req[q].order] # "NONE"
      BY <1>3, <3>2
    <3> QED
      BY <3>1, <3>3
  <2> QED
    BY <2>2
<1>12. \A q \in Requests : req'[q].op = "create" /\ req'[q].answer = "ok" =>
           /\ idem'[req'[q].user][req'[q].key].order = req'[q].order
           /\ req'[q].cart \in {idem'[req'[q].user][req'[q].key].hash, EmptyCart}
  <2>1. ASSUME NEW q \in Requests \ {r}, req[q].op = "create", req[q].answer = "ok"
        PROVE  /\ req[q].user \in Customers /\ req[q].key \in Keys
               /\ idem[req[q].user][req[q].key].order \in OrderIds
               /\ idem'[req[q].user][req[q].key] = idem[req[q].user][req[q].key]
    <3>1. req[q].user \in Customers /\ req[q].key \in Keys /\ req[q].order \in OrderIds
      BY <2>1 DEF TypeOK, CallsOK
    <3>2. idem[req[q].user][req[q].key].order = req[q].order
      BY <2>1 DEF KeysOK, row
    <3>3. req[q].order # NoOrder
      BY <3>1, OrdersAssumption DEF NoOrder
    <3> QED
      BY <1>2, <1>3, <3>1, <3>2, <3>3
  <2>2. ASSUME NEW q \in Requests \ {r}, req[q].op = "create", req[q].answer = "ok"
        PROVE  /\ idem[req[q].user][req[q].key].order = req[q].order
               /\ req[q].cart \in {idem[req[q].user][req[q].key].hash, EmptyCart}
    BY <2>2 DEF KeysOK, row
  <2>3. /\ idem'[req'[r].user][req'[r].key].order = req'[r].order
        /\ req'[r].cart = idem'[req'[r].user][req'[r].key].hash
    BY <1>1, <1>3, <1>10
  <2>4. ASSUME NEW q \in Requests, req'[q].op = "create", req'[q].answer = "ok"
        PROVE  /\ idem'[req'[q].user][req'[q].key].order = req'[q].order
               /\ req'[q].cart \in {idem'[req'[q].user][req'[q].key].hash, EmptyCart}
    <3>1. CASE q = r
      BY <2>3, <3>1
    <3>2. CASE q # r
      BY <1>9, <2>1, <2>2, <2>4, <3>2
    <3> QED
      BY <3>1, <3>2
  <2> QED
    BY <2>4
<1> QED
  BY <1>6, <1>7, <1>8, <1>11, <1>12 DEF KeysOK, placed, row

LEMMA StepKeysOK == TypeOK /\ KeysOK /\ [Next]_vars => KeysOK'
<1> SUFFICES ASSUME TypeOK, KeysOK, [Next]_vars PROVE KeysOK'
  OBVIOUS
<1>1. ASSUME NEW r \in Requests, UNCHANGED tables,
             \/ refuse(r)
             \/ req' = [req EXCEPT ![r].pc = "tx"] \/ req' = [req EXCEPT ![r].pc = "lost"],
             req[r].answer # "ok"
      PROVE  KeysOK'
  <2>1. \A q \in Requests :
           \/ req'[q] = req[q]
           \/ req'[q].pc # "write" /\ req'[q].answer # "ok"
    BY <1>1 DEF refuse, TypeOK, Request
  <2> QED
    BY <1>1, <2>1, KeysUntouched DEF tables
<1>2. ASSUME NEW r \in Requests, UNCHANGED <<idem, orderUser, orderItems>>,
             \A o \in OrderIds : orderStatus'[o] = "NONE" <=> orderStatus[o] = "NONE",
             NEW c \in Request, c.pc # "write", ~ (c.op = "create" /\ c.answer = "ok"),
             req' = [req EXCEPT ![r] = c]
      PROVE  KeysOK'
  <2>1. \A q \in Requests : req'[q] = req[q] \/ req'[q] = c
    BY <1>2 DEF TypeOK
  <2> QED
    BY <1>2, <2>1, KeysUntouched
<1>3. ASSUME NEW r \in Requests, NEW c \in Customers, NEW k \in Keys, createReadsCart(r, c, k)
      PROVE  KeysOK'
  <2> DEFINE new == [IdleRequest EXCEPT !.pc = "lookup", !.op = "create",
                                        !.user = c, !.key = k, !.cart = cart[c]]
  <2>1. new \in Request /\ new.pc = "lookup" /\ new.answer = "none"
    BY IdleRequestType DEF TypeOK, Request, Actors, IdleRequest
  <2>2. req' = [req EXCEPT ![r] = new] /\ UNCHANGED tables
    BY <1>3 DEF createReadsCart
  <2> HIDE DEF new
  <2> QED
    BY <1>2, <2>1, <2>2 DEF tables
<1>4. ASSUME NEW r \in Requests, createReplays(r)
      PROVE  KeysOK'
  <2>1. req[r].answer # "ok" /\ UNCHANGED tables
    BY <1>4 DEF createReplays, TypeOK, CallsOK
  <2>2. CASE refuse(r)
    BY <1>1, <2>1, <2>2
  <2>3. CASE reply(r, row(r).order) /\ req[r].cart \in {row(r).hash, EmptyCart}
    BY <1>4, <2>1, <2>3, KeysAnswered DEF createReplays, isReplay
  <2> QED
    BY <1>4, <2>2, <2>3 DEF createReplays, isReplay
<1>5. ASSUME NEW r \in Requests, createChecksCart(r) \/ createRollsBack(r) \/ createLosesKey(r)
      PROVE  KeysOK'
  <2>1. req[r].answer # "ok" /\ UNCHANGED tables
    BY <1>5 DEF createChecksCart, createRollsBack, createLosesKey, TypeOK, CallsOK
  <2> QED
    BY <1>1, <1>5, <2>1 DEF createChecksCart, createRollsBack, createLosesKey
<1>6. ASSUME NEW r \in Requests, createAnswersLoser(r)
      PROVE  KeysOK'
  <2>1. req[r].answer # "ok" /\ UNCHANGED tables
    BY <1>6 DEF createAnswersLoser, TypeOK, CallsOK
  <2>2. CASE refuse(r)
    BY <1>1, <2>1, <2>2
  <2>3. CASE row(r).order # NoOrder /\ row(r).hash = req[r].cart /\ reply(r, row(r).order)
    BY <1>6, <2>1, <2>3, KeysAnswered DEF createAnswersLoser
  <2> QED
    BY <1>6, <2>2, <2>3 DEF createAnswersLoser
<1>7. ASSUME NEW r \in Requests, NEW a \in Actors, NEW o \in OrderIds,
             cancel(r, a, o) \/ cancelRefused(r, a, o)
      PROVE  KeysOK'
  <2>1. PICK rest \in {"ok", "refused"} : req' = [req EXCEPT ![r] = startCancel(r, a, o, rest)]
    BY <1>7 DEF cancel, cancelRefused
  <2>2. /\ startCancel(r, a, o, rest) \in Request
        /\ startCancel(r, a, o, rest).pc = "done" /\ startCancel(r, a, o, rest).op = "cancel"
    BY IdleRequestType DEF startCancel, Request, IdleRequest
  <2>3. /\ UNCHANGED <<idem, orderUser, orderItems>>
        /\ \A i \in OrderIds : orderStatus'[i] = "NONE" <=> orderStatus[i] = "NONE"
    BY <1>7 DEF cancel, cancelRefused, tables, TypeOK
  <2> QED
    BY <1>2, <2>1, <2>2, <2>3
<1>8. ASSUME NEW r \in Requests, NEW o \in OrderIds, updateStatusReads(r, o)
      PROVE  KeysOK'
  <2>1. /\ req'[r].op = "confirm" /\ req'[r].order = o
        /\ req'[r].pc \in {"write", "done"}
        /\ \A q \in Requests \ {r} : req'[q] = req[q]
    BY <1>8 DEF updateStatusReads, TypeOK, IdleRequest
  <2>2. UNCHANGED tables /\ placed(o)
    BY <1>8 DEF updateStatusReads, placed
  <2>3. \A q \in Requests :
           \/ req'[q] = req[q]
           \/ req'[q].pc \notin {"write"} /\ ~ (req'[q].op = "create" /\ req'[q].answer = "ok")
           \/ /\ req'[q].pc = "write" /\ orderStatus[req'[q].order] # "NONE"
              /\ req'[q].order \in OrderIds /\ req'[q].op = "confirm"
    BY <2>1, <2>2 DEF placed
  <2> QED
    BY <2>2, <2>3, KeysUntouched DEF tables, placed
<1>9. ASSUME NEW r \in Requests, updateStatusWrites(r)
      PROVE  KeysOK'
  <2>1. req[r].order \in OrderIds /\ orderStatus[req[r].order] # "NONE"
    BY <1>9 DEF updateStatusWrites, KeysOK, placed, TypeOK, CallsOK
  <2>2. /\ UNCHANGED <<idem, orderUser, orderItems>>
        /\ \A i \in OrderIds : orderStatus'[i] = "NONE" <=> orderStatus[i] = "NONE"
    BY <1>9, <2>1 DEF updateStatusWrites, TypeOK
  <2>3. req[r].op # "create"
    BY <1>9 DEF updateStatusWrites, TypeOK, CallsOK
  <2>4. \A q \in Requests :
           req'[q] = req[q] \/ (req'[q].pc = "done" /\ req'[q].op = req[r].op)
    BY <1>9 DEF updateStatusWrites, reply, TypeOK, Request
  <2> QED
    BY <2>2, <2>3, <2>4, KeysUntouched
<1>10. ASSUME UNCHANGED <<idem, orderStatus, orderUser, orderItems, req>>
       PROVE  KeysOK'
  BY <1>10 DEF KeysOK, placed, row
<1> QED
  BY PlaceKeepsKeys, <1>3, <1>4, <1>5, <1>6, <1>7, <1>8, <1>9, <1>10
     DEF Next, serve, call, environment, editCart, clearCart, setPublishable, staffEditsStock,
         vars, ordersVars

\* Rows, orders and answers agree, whatever calls race for a key.
THEOREM KeysAgree == Spec => []KeysOK
<1>1. Init => KeysOK
  <2> SUFFICES ASSUME Init PROVE KeysOK
    OBVIOUS
  <2>1. \A c \in Customers, k \in Keys : idem[c][k].order = NoOrder
    BY DEF Init, NoRow
  <2>2. \A o \in OrderIds : ~ placed(o)
    BY DEF Init, placed
  <2>3. \A r \in Requests : req[r].pc = "idle" /\ req[r].op = "none"
    BY DEF Init, IdleRequest
  <2> QED
    BY <2>1, <2>2, <2>3 DEF KeysOK
<1> QED
  BY <1>1, StepKeysOK, TypeCorrect, PTL DEF Spec

LEMMA KeysImplyOneOrder == TypeOK /\ KeysOK => OneOrderPerKey
<1> SUFFICES ASSUME TypeOK, KeysOK, NEW o \in OrderIds, placed(o)
             PROVE  \E c \in Customers, k \in Keys :
                       /\ idem[c][k] = [hash |-> orderItems[o], order |-> o]
                       /\ orderUser[o] = c
                       /\ \A d \in Customers, l \in Keys :
                             idem[d][l].order = o => d = c /\ l = k
  BY DEF OneOrderPerKey
<1>1. PICK c \in Customers, k \in Keys : idem[c][k].order = o
  BY DEF KeysOK
<1>2. o # NoOrder
  BY OrdersAssumption DEF NoOrder
<1>3. idem[c][k] = [hash |-> orderItems[o], order |-> o] /\ orderUser[o] = c
  BY <1>1, <1>2 DEF KeysOK, TypeOK, IdempotencyRow
<1>4. \A d \in Customers, l \in Keys : idem[d][l].order = o => d = c /\ l = k
  BY <1>1, <1>2 DEF KeysOK
<1> QED
  BY <1>3, <1>4

\* However many calls race with however many keys, no key ever has two orders
\* and no order two keys.
THEOREM OneOrder == Spec => []OneOrderPerKey
BY KeysAgree, TypeCorrect, KeysImplyOneOrder, PTL

LEMMA KeysImplyAnswers == TypeOK /\ KeysOK => AnswerMatchesCart
<1> SUFFICES ASSUME TypeOK, KeysOK, NEW r \in Requests,
                    req[r].op = "create", req[r].answer = "ok"
             PROVE  /\ orderUser[req[r].order] = req[r].user
                    /\ req[r].cart \in {orderItems[req[r].order], EmptyCart}
  BY DEF AnswerMatchesCart
<1>1. req[r].user \in Customers /\ req[r].key \in Keys /\ req[r].order \in OrderIds
  BY DEF TypeOK, CallsOK
<1>2. req[r].order # NoOrder
  BY <1>1, OrdersAssumption DEF NoOrder
<1>3. row(r).order = req[r].order /\ req[r].cart \in {row(r).hash, EmptyCart}
  BY DEF KeysOK
<1> QED
  BY <1>1, <1>2, <1>3 DEF KeysOK, row

\* An order that answers a call is the caller's, with the content it asked for.
THEOREM AnswersMatch == Spec => []AnswerMatchesCart
BY KeysAgree, TypeCorrect, KeysImplyAnswers, PTL

-----------------------------------------------------------------------------
(* orders.service.ts implements IdempotentCreation.                             *)

\* A step that touches no idempotency row and answers no create call stutters.
LEMMA PromiseStutters ==
    ASSUME UNCHANGED idem,
           \A q \in Requests :
              \/ req'[q] = req[q]
              \/ /\ ~ (req[q].op = "create" /\ req[q].answer = "ok")
                 /\ ~ (req'[q].op = "create" /\ req'[q].answer = "ok")
    PROVE  UNCHANGED <<createdUnder, answered>>
<1>1. UNCHANGED createdUnder
  BY DEF createdUnder
<1>2. UNCHANGED answered
  BY DEF answered
<1> QED
  BY <1>1, <1>2

\* A create call that is answered with order o.
LEMMA PromiseAnswers ==
    ASSUME TypeOK, NEW r \in Requests, NEW o \in OrderIds, reply(r, o),
           req[r].op = "create", req[r].pc # "done"
    PROVE  /\ answered[r] = <<>>
           /\ answered' = [answered EXCEPT ![r] = <<req[r].user, req[r].key, o>>]
<1>1. /\ req'[r].op = "create" /\ req'[r].answer = "ok" /\ req'[r].order = o
      /\ req'[r].user = req[r].user /\ req'[r].key = req[r].key
      /\ \A q \in Requests \ {r} : req'[q] = req[q]
  BY DEF reply, TypeOK, Request
<1>2. req[r].answer = "none"
  BY DEF TypeOK, CallsOK
<1> QED
  BY <1>1, <1>2 DEF answered

\* A create call that is answered with the order of its own row is a Replay.
LEMMA PromiseReplays ==
    ASSUME TypeOK, NEW r \in Requests, UNCHANGED tables,
           req[r].pc \in {"lookup", "lost"}, row(r).order # NoOrder,
           reply(r, row(r).order)
    PROVE  Promise!Next
<1> DEFINE u == req[r].user
           k == req[r].key
<1>1. u \in Customers /\ k \in Keys /\ row(r).order \in OrderIds /\ req[r].op = "create"
  BY RowType DEF TypeOK, CallsOK
<1>2. /\ answered[r] = <<>>
      /\ answered' = [answered EXCEPT ![r] = <<u, k, row(r).order>>]
  BY <1>1, PromiseAnswers
<1>3. createdUnder[<<u, k>>] = row(r).order
  BY <1>1 DEF createdUnder, row
<1>4. UNCHANGED createdUnder
  BY DEF createdUnder, tables
<1>5. Promise!Replay(r, u, k)
  BY <1>2, <1>3, <1>4 DEF Promise!Replay, Promise!Answer, Promise!NoAnswer
<1> QED
  BY <1>1, <1>5 DEF Promise!Next

LEMMA PromisePlaces ==
    ASSUME TypeOK, KeysOK, NEW r \in Requests, NEW o \in OrderIds, placeOrder(r, o)
    PROVE  Promise!Next
<1> DEFINE u == req[r].user
           k == req[r].key
           new == [hash |-> req[r].cart, order |-> o]
<1>1. u \in Customers /\ k \in Keys /\ req[r].op = "create"
  BY RowType DEF placeOrder, TypeOK, CallsOK
<1>2. /\ answered[r] = <<>>
      /\ answered' = [answered EXCEPT ![r] = <<u, k, o>>]
  BY <1>1, PromiseAnswers DEF placeOrder
<1>3. idem[u][k].order = NoOrder /\ orderStatus[o] = "NONE" /\ idem' = [idem EXCEPT ![u][k] = new]
  BY DEF placeOrder, isNextId, keyIsFree, row
<1> HIDE DEF u, k
<1>4. createdUnder[<<u, k>>] = NoOrder
  BY <1>1, <1>3 DEF createdUnder
<1>5. \A s \in Customers \X Keys : createdUnder[s] # o
  <2>1. o # NoOrder
    BY OrdersAssumption DEF NoOrder
  <2>2. \A c \in Customers, l \in Keys : idem[c][l].order # o
    BY <1>3, <2>1 DEF KeysOK, placed
  <2> QED
    BY <2>2 DEF createdUnder
<1>6. createdUnder' = [createdUnder EXCEPT ![<<u, k>>] = o]
  <2>1. \A c \in Customers, l \in Keys :
           idem'[c][l] = IF c = u /\ l = k THEN new ELSE idem[c][l]
    BY <1>1, <1>3 DEF TypeOK
  <2>2. \A s \in Customers \X Keys :
           idem'[s[1]][s[2]].order = IF s = <<u, k>> THEN o ELSE idem[s[1]][s[2]].order
    BY <2>1
  <2> QED
    BY <1>1, <2>2 DEF createdUnder
<1>7. Promise!Create(r, u, k, o)
  BY <1>2, <1>4, <1>5, <1>6
     DEF Promise!Create, Promise!Answer, Promise!NoAnswer, Promise!Slots
<1> QED
  BY <1>1, <1>7 DEF Promise!Next

LEMMA PromiseStep ==
    TypeOK /\ KeysOK /\ [Next]_vars => [Promise!Next]_<<createdUnder, answered>>
<1> SUFFICES ASSUME TypeOK, KeysOK, [Next]_vars
             PROVE  Promise!Next \/ UNCHANGED <<createdUnder, answered>>
  OBVIOUS
<1>1. ASSUME NEW r \in Requests, UNCHANGED idem, req[r].answer # "ok",
             \A q \in Requests \ {r} : req'[q] = req[q],
             ~ (req'[r].op = "create" /\ req'[r].answer = "ok")
      PROVE  UNCHANGED <<createdUnder, answered>>
  BY <1>1, PromiseStutters
<1>2. ASSUME NEW r \in Requests, NEW c \in Customers, NEW k \in Keys, createReadsCart(r, c, k)
      PROVE  UNCHANGED <<createdUnder, answered>>
  BY <1>2, <1>1 DEF createReadsCart, tables, TypeOK, CallsOK, IdleRequest
<1>3. ASSUME NEW r \in Requests, refuse(r), UNCHANGED tables, req[r].pc # "done"
      PROVE  UNCHANGED <<createdUnder, answered>>
  <2>1. req'[r].answer = "refused" /\ \A q \in Requests \ {r} : req'[q] = req[q]
    BY <1>3 DEF refuse, TypeOK, Request
  <2> QED
    BY <1>1, <1>3, <2>1 DEF tables, TypeOK, CallsOK
<1>4. ASSUME NEW r \in Requests, NEW pc \in {"tx", "lost"}, UNCHANGED tables,
             req[r].pc # "done", req' = [req EXCEPT ![r].pc = pc]
      PROVE  UNCHANGED <<createdUnder, answered>>
  <2>1. req'[r].answer = req[r].answer /\ \A q \in Requests \ {r} : req'[q] = req[q]
    BY <1>4 DEF TypeOK, Request
  <2> QED
    BY <1>1, <1>4, <2>1 DEF tables, TypeOK, CallsOK
<1>5. ASSUME NEW r \in Requests, createReplays(r)
      PROVE  Promise!Next \/ UNCHANGED <<createdUnder, answered>>
  BY <1>3, <1>5, PromiseReplays DEF createReplays
<1>6. ASSUME NEW r \in Requests, createChecksCart(r) \/ createRollsBack(r) \/ createLosesKey(r)
      PROVE  UNCHANGED <<createdUnder, answered>>
  BY <1>3, <1>4, <1>6 DEF createChecksCart, createRollsBack, createLosesKey
<1>7. ASSUME NEW r \in Requests, createAnswersLoser(r)
      PROVE  Promise!Next \/ UNCHANGED <<createdUnder, answered>>
  BY <1>3, <1>7, PromiseReplays DEF createAnswersLoser
<1>8. ASSUME NEW r \in Requests, NEW a \in Actors, NEW o \in OrderIds,
             cancel(r, a, o) \/ cancelRefused(r, a, o)
      PROVE  UNCHANGED <<createdUnder, answered>>
  <2>1. /\ UNCHANGED idem /\ req[r].answer # "ok" /\ req'[r].op = "cancel"
        /\ \A q \in Requests \ {r} : req'[q] = req[q]
    <3>1. req[r].answer = "none" /\ UNCHANGED idem
      BY <1>8 DEF cancel, cancelRefused, tables, TypeOK, CallsOK
    <3>2. PICK rest \in {"ok", "refused"} : req' = [req EXCEPT ![r] = startCancel(r, a, o, rest)]
      BY <1>8 DEF cancel, cancelRefused
    <3>3. startCancel(r, a, o, rest).op = "cancel"
      BY DEF startCancel, IdleRequest
    <3> QED
      BY <3>1, <3>2, <3>3 DEF TypeOK
  <2> QED
    BY <1>1, <2>1
<1>9. ASSUME NEW r \in Requests, NEW o \in OrderIds, updateStatusReads(r, o)
      PROVE  UNCHANGED <<createdUnder, answered>>
  <2>1. /\ UNCHANGED idem /\ req[r].answer # "ok" /\ req'[r].op = "confirm"
        /\ \A q \in Requests \ {r} : req'[q] = req[q]
    BY <1>9 DEF updateStatusReads, IdleRequest, tables, TypeOK, CallsOK
  <2> QED
    BY <1>1, <2>1
<1>10. ASSUME NEW r \in Requests, updateStatusWrites(r)
       PROVE  UNCHANGED <<createdUnder, answered>>
  <2>1. /\ UNCHANGED idem /\ req[r].answer # "ok" /\ req'[r].op = "confirm"
        /\ \A q \in Requests \ {r} : req'[q] = req[q]
    <3>1. req[r].op = "confirm" /\ req[r].answer = "none" /\ UNCHANGED idem
      BY <1>10 DEF updateStatusWrites, TypeOK, CallsOK
    <3>2. req' = [req EXCEPT ![r] = [@ EXCEPT !.pc = "done", !.order = req[r].order,
                                              !.answer = "ok"]]
      BY <1>10 DEF updateStatusWrites, reply
    <3>3. req'[r].op = req[r].op /\ \A q \in Requests \ {r} : req'[q] = req[q]
      BY <3>2 DEF TypeOK, Request
    <3> QED
      BY <3>1, <3>3
  <2> QED
    BY <1>1, <2>1
<1>11. ASSUME UNCHANGED <<idem, req>>
       PROVE  UNCHANGED <<createdUnder, answered>>
  BY <1>11, PromiseStutters
<1> QED
  BY PromisePlaces, <1>2, <1>5, <1>6, <1>7, <1>8, <1>9, <1>10, <1>11
     DEF Next, serve, call, environment, editCart, clearCart, setPublishable, staffEditsStock,
         vars, ordersVars

\* Every behaviour of orders.service.ts is one that IdempotentCreation allows.
THEOREM ImplementsPromise == Spec => KeysAreIdempotent
<1>1. Init => Promise!Init
  <2> SUFFICES ASSUME Init PROVE Promise!Init
    OBVIOUS
  <2>1. createdUnder = [s \in Customers \X Keys |-> NoOrder]
    BY DEF Init, createdUnder, NoRow
  <2>2. answered = [r \in Requests |-> <<>>]
    BY DEF Init, answered, IdleRequest
  <2> QED
    BY <2>1, <2>2 DEF Promise!Init, Promise!NoAnswer, Promise!Slots
<1> QED
  BY <1>1, PromiseStep, TypeCorrect, KeysAgree, PTL DEF Spec, KeysAreIdempotent, Promise!Spec

-----------------------------------------------------------------------------
(* Units of stock, counted.                                                   *)

positive(n) == IF n > 0 THEN n ELSE 0

LEMMA OneOrdersUnits ==
    ASSUME NEW o \in OrderIds, NEW n \in Int
    PROVE  /\ IsFiniteSet({o} \X (1..n))
           /\ Cardinality({o} \X (1..n)) = positive(n)
<1>1. IsFiniteSet({o}) /\ Cardinality({o}) = 1
  BY FS_Singleton
<1>2. IsFiniteSet(1..n) /\ Cardinality(1..n) = IF 1 > n THEN 0 ELSE n - 1 + 1
  BY FS_Interval
<1>3. /\ IsFiniteSet({o} \X (1..n))
      /\ Cardinality({o} \X (1..n)) = Cardinality({o}) * Cardinality(1..n)
  BY <1>1, <1>2, FS_Product
<1>4. Cardinality(1..n) = positive(n)
  BY <1>2 DEF positive
<1>5. positive(n) \in Int /\ 1 * positive(n) = positive(n)
  BY DEF positive
<1> QED
  BY <1>1, <1>3, <1>4, <1>5

LEMMA UnitsAreFinite ==
    ASSUME NEW f \in [OrderIds -> Int]
    PROVE  IsFiniteSet(unitsIn(f))
<1> DEFINE T == {{o} \X (1..f[o]) : o \in OrderIds}
           g == [o \in OrderIds |-> {o} \X (1..f[o])]
<1>1. g \in Surjection(OrderIds, T)
  BY DEF Surjection
<1>2. IsFiniteSet(T)
  <2> HIDE DEF g, T
  <2> QED
    BY <1>1, OrdersAssumption, FS_Surjection
<1>3. \A S \in T : IsFiniteSet(S)
  BY OneOrdersUnits
<1>4. IsFiniteSet(UNION T)
  <2> HIDE DEF g, T
  <2> QED
    BY <1>2, <1>3, FS_UNION
<1> QED
  BY <1>4 DEF unitsIn

\* The units of one order aside, the others count the same.
LEMMA UnitsSplit ==
    ASSUME NEW f \in [OrderIds -> Int], NEW o \in OrderIds
    PROVE  LET rest == {u \in unitsIn(f) : u[1] # o}
           IN  /\ IsFiniteSet(rest)
               /\ Cardinality(unitsIn(f)) = Cardinality(rest) + positive(f[o])
<1> DEFINE rest == {u \in unitsIn(f) : u[1] # o}
           own == {o} \X (1..f[o])
<1>1. unitsIn(f) = rest \cup own /\ rest \cap own = {}
  BY DEF unitsIn
<1>2. IsFiniteSet(rest)
  BY UnitsAreFinite, FS_Subset
<1>3. IsFiniteSet(own) /\ Cardinality(own) = positive(f[o])
  BY OneOrdersUnits
<1> HIDE DEF rest, own
<1>4. Cardinality(rest \cup own) = Cardinality(rest) + Cardinality(own) - Cardinality(rest \cap own)
  BY <1>2, <1>3, FS_Union
<1>5. Cardinality(rest) \in Nat /\ Cardinality(own) \in Nat /\ Cardinality({}) = 0
  BY <1>2, <1>3, FS_CardinalityType, FS_EmptySet
<1>6. Cardinality(rest \cap own) = 0 /\ Cardinality(unitsIn(f)) = Cardinality(rest \cup own)
  BY <1>1, <1>5
<1>7. Cardinality(unitsIn(f)) = Cardinality(rest) + Cardinality(own)
  BY <1>4, <1>5, <1>6
<1>8. Cardinality(unitsIn(f)) = Cardinality(rest) + positive(f[o])
  BY <1>3, <1>7
<1> QED
  BY <1>2, <1>8 DEF rest

LEMMA UnitsChange ==
    ASSUME NEW f \in [OrderIds -> Int], NEW g \in [OrderIds -> Int], NEW o \in OrderIds,
           \A i \in OrderIds \ {o} : g[i] = f[i]
    PROVE  /\ Cardinality(unitsIn(f)) \in Nat /\ Cardinality(unitsIn(g)) \in Nat
           /\ Cardinality(unitsIn(g)) =
                 Cardinality(unitsIn(f)) + positive(g[o]) - positive(f[o])
<1> DEFINE rest(h) == {u \in unitsIn(h) : u[1] # o}
<1>1. rest(f) = rest(g)
  <2>1. ASSUME NEW a \in [OrderIds -> Int], NEW b \in [OrderIds -> Int],
               \A i \in OrderIds \ {o} : a[i] = b[i]
        PROVE  rest(a) \subseteq rest(b)
    BY <2>1 DEF unitsIn
  <2> QED
    BY <2>1
<1>2. /\ IsFiniteSet(rest(f))
      /\ Cardinality(unitsIn(f)) = Cardinality(rest(f)) + positive(f[o])
  BY UnitsSplit
<1>3. Cardinality(unitsIn(g)) = Cardinality(rest(g)) + positive(g[o])
  BY UnitsSplit
<1> HIDE DEF rest
<1>4. Cardinality(rest(f)) \in Nat
  BY <1>2, FS_CardinalityType
<1>5. positive(f[o]) \in Nat /\ positive(g[o]) \in Nat
  BY DEF positive
<1> QED
  BY <1>1, <1>2, <1>3, <1>4, <1>5

\* What the orders with status st and items own of product p.
owedOf(st, items, p) ==
    [o \in OrderIds |-> IF st[o] \in {"PENDING", "CONFIRMED"} THEN items[o][p] ELSE 0]

LEMMA OwedIsOf ==
    ASSUME TypeOK, NEW p \in Products
    PROVE  /\ owedUnits(p) = unitsIn(owedOf(orderStatus, orderItems, p))
           /\ owedOf(orderStatus, orderItems, p) \in [OrderIds -> Int]
           /\ \A o \in OrderIds : orderItems[o][p] \in Nat
           /\ reserved[p] \in Nat
BY CartLine DEF owedUnits, owedOf, live, TypeOK, InventoryTypeOK

LEMMA OwedIsOfNext ==
    ASSUME TypeOK', NEW p \in Products
    PROVE  /\ owedUnits(p)' = unitsIn(owedOf(orderStatus', orderItems', p))
           /\ owedOf(orderStatus', orderItems', p) \in [OrderIds -> Int]
<1>1. \A o \in OrderIds : orderItems'[o][p] \in Nat
  BY CartLine DEF TypeOK
<1> QED
  BY <1>1 DEF owedUnits, owedOf, live

\* What a step that touches one order makes of the units owed.
LEMMA OwedChanges ==
    ASSUME TypeOK, TypeOK', NEW p \in Products, NEW o \in OrderIds,
           \A i \in OrderIds \ {o} :
              orderStatus'[i] = orderStatus[i] /\ orderItems'[i] = orderItems[i]
    PROVE  /\ Cardinality(owedUnits(p)) \in Nat
           /\ Cardinality(owedUnits(p)') =
                 Cardinality(owedUnits(p))
                    + (IF live(o)' THEN orderItems'[o][p] ELSE 0)
                    - (IF live(o) THEN orderItems[o][p] ELSE 0)
<1>1. PICK f, g : f = owedOf(orderStatus, orderItems, p) /\ g = owedOf(orderStatus', orderItems', p)
  OBVIOUS
<1>2. /\ f \in [OrderIds -> Int] /\ owedUnits(p) = unitsIn(f)
      /\ g \in [OrderIds -> Int] /\ owedUnits(p)' = unitsIn(g)
  BY <1>1, OwedIsOf, OwedIsOfNext
<1>3. \A i \in OrderIds \ {o} : g[i] = f[i]
  BY <1>1 DEF owedOf
<1>4. /\ f[o] = IF live(o) THEN orderItems[o][p] ELSE 0
      /\ g[o] = IF live(o)' THEN orderItems'[o][p] ELSE 0
  BY <1>1 DEF owedOf, live
<1>5. orderItems[o][p] \in Nat /\ orderItems'[o][p] \in Nat
  BY CartLine DEF TypeOK
<1>6. positive(f[o]) = f[o] /\ positive(g[o]) = g[o]
  BY <1>4, <1>5 DEF positive
<1>7. /\ Cardinality(unitsIn(f)) \in Nat
      /\ Cardinality(unitsIn(g)) = Cardinality(unitsIn(f)) + positive(g[o]) - positive(f[o])
  BY <1>2, <1>3, UnitsChange
<1> QED
  BY <1>2, <1>4, <1>6, <1>7

LEMMA StepNoPhantomHold == TypeOK /\ NoPhantomHold /\ [Next]_vars => NoPhantomHold'
<1> SUFFICES ASSUME TypeOK, NoPhantomHold, [Next]_vars, NEW p \in Products
             PROVE  (reserved[p] <= Cardinality(owedUnits(p)))'
  BY DEF NoPhantomHold
<1>0. TypeOK' /\ reserved[p] \in Nat /\ reserved[p] <= Cardinality(owedUnits(p))
  BY StepTypeOK, OwedIsOf DEF NoPhantomHold
<1>1. ASSUME NEW r \in Requests, NEW o \in OrderIds, placeOrder(r, o)
      PROVE  reserved'[p] <= Cardinality(owedUnits(p)')
  <2>1. /\ orderStatus[o] = "NONE" /\ orderStatus' = [orderStatus EXCEPT ![o] = "PENDING"]
        /\ orderItems' = [orderItems EXCEPT ![o] = req[r].cart]
        /\ reserved'[p] = reserved[p] + req[r].cart[p]
    BY <1>1 DEF placeOrder, isNextId, Reserve
  <2>2. ~ live(o) /\ live(o)' /\ orderItems'[o][p] = req[r].cart[p]
    BY <2>1 DEF live, TypeOK
  <2>3. \A i \in OrderIds \ {o} :
           orderStatus'[i] = orderStatus[i] /\ orderItems'[i] = orderItems[i]
    BY <2>1 DEF TypeOK
  <2>4. /\ Cardinality(owedUnits(p)) \in Nat
        /\ Cardinality(owedUnits(p)') = Cardinality(owedUnits(p)) + req[r].cart[p] - 0
    BY <1>0, <2>2, <2>3, OwedChanges
  <2>5. req[r].cart[p] \in Nat
    BY CartLine DEF TypeOK, Request
  <2> QED
    BY <1>0, <2>1, <2>4, <2>5
<1>2. ASSUME NEW r \in Requests, NEW a \in Actors, NEW o \in OrderIds, cancel(r, a, o)
      PROVE  reserved'[p] <= Cardinality(owedUnits(p)')
  <2>1. /\ orderStatus' = [orderStatus EXCEPT ![o] = "CANCELLED"] /\ orderItems' = orderItems
        /\ reserved'[p] = reserved[p] - Lesser(orderItems[o][p], reserved[p])
    BY <1>2 DEF cancel, Release
  <2>2. live(o)
    <3>1. orderStatus[o] \in ORDER_STATUS /\ mayCancel(a, o)
      BY <1>2 DEF cancel, TypeOK
    <3>2. canTransition(orderStatus[o], "CANCELLED") => orderStatus[o] # "CANCELLED"
      BY <3>1 DEF canTransition, ORDER_TRANSITIONS, ORDER_STATUS
    <3> QED
      BY <3>1, <3>2 DEF mayCancel, CUSTOMER_CANCELLABLE_STATUSES, live, ORDER_STATUS
  <2>3. ~ live(o)' /\ \A i \in OrderIds \ {o} :
           orderStatus'[i] = orderStatus[i] /\ orderItems'[i] = orderItems[i]
    BY <2>1 DEF live, TypeOK
  <2>4. /\ Cardinality(owedUnits(p)) \in Nat
        /\ Cardinality(owedUnits(p)') = Cardinality(owedUnits(p)) + 0 - orderItems[o][p]
    BY <1>0, <2>2, <2>3, OwedChanges
  <2>5. orderItems[o][p] \in Nat /\ IsFiniteSet(owedUnits(p)') /\ Cardinality(owedUnits(p)') \in Nat
    BY <1>0, OwedIsOf, OwedIsOfNext, UnitsAreFinite, FS_CardinalityType
  <2> QED
    BY <1>0, <2>1, <2>4, <2>5 DEF Lesser
<1>3. ASSUME NEW r \in Requests, updateStatusWrites(r)
      PROVE  reserved'[p] <= Cardinality(owedUnits(p)')
  <2>1. PICK o \in OrderIds : o = req[r].order
    BY <1>3 DEF updateStatusWrites, TypeOK, CallsOK
  <2>2. /\ orderStatus' = [orderStatus EXCEPT ![o] = "CONFIRMED"] /\ orderItems' = orderItems
        /\ reserved' = reserved
    BY <1>3, <2>1 DEF updateStatusWrites, inventoryVars
  <2>3. live(o)' /\ \A i \in OrderIds \ {o} :
           orderStatus'[i] = orderStatus[i] /\ orderItems'[i] = orderItems[i]
    BY <2>2 DEF live, TypeOK
  <2>4. /\ Cardinality(owedUnits(p)) \in Nat
        /\ Cardinality(owedUnits(p)') = Cardinality(owedUnits(p)) + orderItems[o][p]
                                           - (IF live(o) THEN orderItems[o][p] ELSE 0)
    BY <1>0, <2>2, <2>3, OwedChanges
  <2>5. orderItems[o][p] \in Nat
    BY OwedIsOf
  <2> QED
    BY <1>0, <2>2, <2>4, <2>5
<1>4. ASSUME UNCHANGED <<reserved, orderStatus, orderItems>>
      PROVE  reserved'[p] <= Cardinality(owedUnits(p)')
  BY <1>0, <1>4 DEF owedUnits, live
<1>5. staffEditsStock => UNCHANGED <<reserved, orderStatus, orderItems>>
  BY DEF staffEditsStock, InventoryNext, adjust, update, ordersVars
<1> QED
  BY <1>1, <1>2, <1>3, <1>4, <1>5
     DEF Next, serve, call, environment, tables, vars, inventoryVars, ordersVars,
         createReadsCart, createReplays, createChecksCart, createRollsBack, createLosesKey,
         createAnswersLoser, cancelRefused, updateStatusReads,
         editCart, clearCart, setPublishable

\* No stock stays blocked for nobody: what is reserved is owed to live orders, also when
\* a late confirmation has brought a cancelled order back (orders.service.ts:266-285,
\* 482-499, 556-608).
THEOREM NothingHeldForNobody == Spec => []NoPhantomHold
<1>1. Init => NoPhantomHold
  <2> SUFFICES ASSUME Init, NEW p \in Products
               PROVE  reserved[p] <= Cardinality(owedUnits(p))
    BY DEF NoPhantomHold
  <2>1. TypeOK /\ reserved[p] = 0
    BY InitTypeOK DEF Init, InventoryInit
  <2>2. Cardinality(owedUnits(p)) \in Nat
    BY <2>1, OwedIsOf, UnitsAreFinite, FS_CardinalityType
  <2> QED
    BY <2>1, <2>2
<1> QED
  BY <1>1, StepNoPhantomHold, TypeCorrect, PTL DEF Spec

-----------------------------------------------------------------------------
(* The ledger of movements and the reservations.                              *)

\* The sums of the movements moves about product p, and their negatives.
sums(moves, p) == [o \in OrderIds |-> moves[o][p]]
negated(moves, p) == [o \in OrderIds |-> -moves[o][p]]

\* What a step that moves n units for one order makes of the ledger.
LEMMA LedgerChanges ==
    ASSUME TypeOK, TypeOK', NEW p \in Products, NEW o \in OrderIds, NEW n \in Int,
           holdMoves'[o][p] = holdMoves[o][p] + n,
           \A i \in OrderIds \ {o} : holdMoves'[i] = holdMoves[i]
    PROVE  holdLedger(p) \in Int /\ holdLedger(p)' = holdLedger(p) + n
<1>1. PICK f, g, a, b : /\ f = sums(holdMoves, p) /\ g = sums(holdMoves', p)
                        /\ a = negated(holdMoves, p) /\ b = negated(holdMoves', p)
  OBVIOUS
<1>2. \A i \in OrderIds : holdMoves[i][p] \in Int /\ holdMoves'[i][p] \in Int
  BY DEF TypeOK, InventoryTypeOK
<1>3. /\ f \in [OrderIds -> Int] /\ g \in [OrderIds -> Int]
      /\ a \in [OrderIds -> Int] /\ b \in [OrderIds -> Int]
      /\ \A i \in OrderIds \ {o} : g[i] = f[i] /\ b[i] = a[i]
      /\ a[o] = -f[o] /\ g[o] = f[o] + n /\ b[o] = -(f[o] + n)
  BY <1>1, <1>2 DEF sums, negated
<1>4. /\ holdLedger(p) = Cardinality(unitsIn(f)) - Cardinality(unitsIn(a))
      /\ holdLedger(p)' = Cardinality(unitsIn(g)) - Cardinality(unitsIn(b))
  BY <1>1 DEF holdLedger, sums, negated
<1>5. /\ Cardinality(unitsIn(f)) \in Nat
      /\ Cardinality(unitsIn(g)) = Cardinality(unitsIn(f)) + positive(g[o]) - positive(f[o])
  BY <1>3, UnitsChange
<1>6. /\ Cardinality(unitsIn(a)) \in Nat
      /\ Cardinality(unitsIn(b)) = Cardinality(unitsIn(a)) + positive(b[o]) - positive(a[o])
  BY <1>3, UnitsChange
<1>7. f[o] \in Int
  BY <1>3
<1>8. /\ positive(f[o]) \in Int /\ positive(a[o]) \in Int /\ positive(g[o]) \in Int
      /\ positive(b[o]) \in Int
      /\ positive(f[o]) - positive(a[o]) = f[o] /\ positive(g[o]) - positive(b[o]) = f[o] + n
  BY <1>3, <1>7 DEF positive
<1> QED
  BY <1>4, <1>5, <1>6, <1>7, <1>8

LEMMA StepLedgerNeverAhead == TypeOK /\ LedgerNeverAhead /\ [Next]_vars => LedgerNeverAhead'
<1> SUFFICES ASSUME TypeOK, LedgerNeverAhead, [Next]_vars, NEW p \in Products
             PROVE  (holdLedger(p) <= reserved[p])'
  BY DEF LedgerNeverAhead
<1>0. TypeOK' /\ reserved[p] \in Nat /\ holdLedger(p) <= reserved[p]
  BY StepTypeOK DEF LedgerNeverAhead, TypeOK, InventoryTypeOK
<1>1. ASSUME NEW r \in Requests, NEW o \in OrderIds, placeOrder(r, o)
      PROVE  holdLedger(p)' <= reserved'[p]
  <2>1. PICK n \in Nat : n = req[r].cart[p]
    BY CartLine DEF TypeOK, Request
  <2>2. /\ reserved'[p] = reserved[p] + n /\ holdMoves'[o][p] = holdMoves[o][p] + n
        /\ \A i \in OrderIds \ {o} : holdMoves'[i] = holdMoves[i]
    BY <1>1, <2>1 DEF placeOrder, Reserve, TypeOK, InventoryTypeOK
  <2>3. holdLedger(p) \in Int /\ holdLedger(p)' = holdLedger(p) + n
    BY <1>0, <2>2, LedgerChanges
  <2> QED
    BY <1>0, <2>2, <2>3
<1>2. ASSUME NEW r \in Requests, NEW a \in Actors, NEW o \in OrderIds, cancel(r, a, o)
      PROVE  holdLedger(p)' <= reserved'[p]
  <2>1. PICK n \in Nat : n = orderItems[o][p]
    BY CartLine DEF TypeOK
  <2>2. /\ reserved'[p] = reserved[p] - Lesser(n, reserved[p])
        /\ holdMoves'[o][p] = holdMoves[o][p] - n
        /\ \A i \in OrderIds \ {o} : holdMoves'[i] = holdMoves[i]
    BY <1>2, <2>1 DEF cancel, Release, TypeOK, InventoryTypeOK
  <2>3. holdMoves'[o][p] = holdMoves[o][p] + (-n) /\ -n \in Int
    BY <2>2 DEF TypeOK, InventoryTypeOK
  <2>4. holdLedger(p) \in Int /\ holdLedger(p)' = holdLedger(p) + (-n)
    BY <1>0, <2>2, <2>3, LedgerChanges
  <2> QED
    BY <1>0, <2>2, <2>4 DEF Lesser
<1>3. ASSUME UNCHANGED <<reserved, holdMoves>>
      PROVE  holdLedger(p)' <= reserved'[p]
  BY <1>0, <1>3 DEF holdLedger
<1>4. staffEditsStock => UNCHANGED <<reserved, holdMoves>>
  BY DEF staffEditsStock, InventoryNext, adjust, update
<1> QED
  BY <1>1, <1>2, <1>3, <1>4
     DEF Next, serve, call, environment, tables, vars, inventoryVars,
         createReadsCart, createReplays, createChecksCart, createRollsBack, createLosesKey,
         createAnswersLoser, cancelRefused, updateStatusReads, updateStatusWrites,
         editCart, clearCart, setPublishable

\* The movements never claim more than is reserved: a release writes its full
\* quantity into the ledger and takes no more than there is off the reservation
\* (orders.service.ts:482-499).
THEOREM LedgerStaysBehind == Spec => []LedgerNeverAhead
<1>1. Init => LedgerNeverAhead
  <2> SUFFICES ASSUME Init, NEW p \in Products
               PROVE  holdLedger(p) <= reserved[p]
    BY DEF LedgerNeverAhead
  <2>1. reserved[p] = 0 /\ \A o \in OrderIds : holdMoves[o][p] = 0
    BY DEF Init, InventoryInit
  <2>2. /\ unitsIn([o \in OrderIds |-> holdMoves[o][p]]) = {}
        /\ unitsIn([o \in OrderIds |-> -holdMoves[o][p]]) = {}
    BY <2>1 DEF unitsIn
  <2>3. holdLedger(p) = Cardinality({}) - Cardinality({})
    BY <2>2 DEF holdLedger
  <2>4. Cardinality({}) = 0
    BY FS_EmptySet
  <2> QED
    BY <2>1, <2>3, <2>4
<1> QED
  BY <1>1, StepLedgerNeverAhead, TypeCorrect, PTL DEF Spec

-----------------------------------------------------------------------------
(* The outbox.                                                                *)

\* Why OutboxTellsTheOrders holds: the movements of an order never exceed what it is
\* of, and events are about orders that exist.
OutboxOK ==
    /\ OutboxTellsTheOrders
    /\ \A o \in OrderIds, p \in Products : holdMoves[o][p] <= orderItems[o][p]
    /\ \A o \in OrderIds : ~ placed(o) =>
          /\ <<"ORDER_CANCELLED", o>> \notin outbox
          /\ \A p \in Products : holdMoves[o][p] = 0

LEMMA HoldTypes ==
    ASSUME TypeOK, NEW o \in OrderIds, NEW p \in Products
    PROVE  holdMoves[o][p] \in Int /\ orderItems[o][p] \in Nat
BY CartLine DEF TypeOK, InventoryTypeOK

LEMMA PlaceKeepsOutbox ==
    ASSUME TypeOK, OutboxOK, NEW r \in Requests, NEW o \in OrderIds, placeOrder(r, o)
    PROVE  OutboxOK'
<1>1. /\ orderStatus[o] = "NONE" /\ req[r].cart \in Cart
      /\ outbox' = outbox \cup {<<"ORDER_CREATED", o>>}
  BY DEF placeOrder, isNextId, TypeOK, Request
<1>2. \A i \in OrderIds : orderStatus'[i] = IF i = o THEN "PENDING" ELSE orderStatus[i]
  BY DEF placeOrder, TypeOK
<1>3. \A i \in OrderIds, p \in Products :
         /\ orderItems'[i][p] = IF i = o THEN req[r].cart[p] ELSE orderItems[i][p]
         /\ holdMoves'[i][p] = IF i = o THEN holdMoves[i][p] + req[r].cart[p] ELSE holdMoves[i][p]
  BY DEF placeOrder, Reserve, TypeOK, InventoryTypeOK
<1>4. \A p \in Products : holdMoves[o][p] = 0 /\ req[r].cart[p] \in Nat
  BY <1>1, CartLine DEF OutboxOK, placed
<1>5. \A i \in OrderIds, p \in Products : holdMoves'[i][p] <= orderItems'[i][p]
  BY <1>3, <1>4 DEF OutboxOK
<1>6. \A i \in OrderIds : orderStatus'[i] = "NONE" =>
         /\ <<"ORDER_CANCELLED", i>> \notin outbox'
         /\ \A p \in Products : holdMoves'[i][p] = 0
  BY <1>1, <1>2, <1>3 DEF OutboxOK, placed
<1>7. OutboxTellsTheOrders'
  <2> SUFFICES ASSUME NEW i \in OrderIds
               PROVE  /\ orderStatus'[i] # "NONE" <=> <<"ORDER_CREATED", i>> \in outbox'
                      /\ orderStatus'[i] = "CONFIRMED" => <<"ORDER_CONFIRMED", i>> \in outbox'
                      /\ orderStatus'[i] = "CANCELLED" => <<"ORDER_CANCELLED", i>> \in outbox'
                      /\ <<"ORDER_CANCELLED", i>> \in outbox' =>
                            \A p \in Products : holdMoves'[i][p] <= 0
    BY DEF OutboxTellsTheOrders, placed
  <2>1. CASE i = o
    BY <1>1, <1>2, <2>1 DEF OutboxOK, placed
  <2>2. CASE i # o
    BY <1>1, <1>2, <1>3, <2>2 DEF OutboxOK, OutboxTellsTheOrders, placed
  <2> QED
    BY <2>1, <2>2
<1> QED
  BY <1>5, <1>6, <1>7 DEF OutboxOK, placed

LEMMA CancelKeepsOutbox ==
    ASSUME TypeOK, OutboxOK, NEW r \in Requests, NEW a \in Actors, NEW o \in OrderIds,
           cancel(r, a, o)
    PROVE  OutboxOK'
<1>1. /\ orderStatus[o] # "NONE" /\ orderItems' = orderItems
      /\ outbox' = outbox \cup {<<"ORDER_CANCELLED", o>>}
  BY DEF cancel
<1>2. \A i \in OrderIds : orderStatus'[i] = IF i = o THEN "CANCELLED" ELSE orderStatus[i]
  BY DEF cancel, TypeOK
<1>3. \A i \in OrderIds, p \in Products :
         holdMoves'[i][p] = IF i = o THEN holdMoves[i][p] - orderItems[i][p] ELSE holdMoves[i][p]
  BY DEF cancel, Release, TypeOK, InventoryTypeOK
<1>4. \A p \in Products : holdMoves'[o][p] <= 0
  BY <1>3, HoldTypes DEF OutboxOK
<1>5. \A i \in OrderIds, p \in Products : holdMoves'[i][p] <= orderItems'[i][p]
  BY <1>1, <1>3, HoldTypes DEF OutboxOK
<1>6. \A i \in OrderIds : orderStatus'[i] = "NONE" =>
         /\ <<"ORDER_CANCELLED", i>> \notin outbox'
         /\ \A p \in Products : holdMoves'[i][p] = 0
  BY <1>1, <1>2, <1>3 DEF OutboxOK, placed
<1>7. OutboxTellsTheOrders'
  <2> SUFFICES ASSUME NEW i \in OrderIds
               PROVE  /\ orderStatus'[i] # "NONE" <=> <<"ORDER_CREATED", i>> \in outbox'
                      /\ orderStatus'[i] = "CONFIRMED" => <<"ORDER_CONFIRMED", i>> \in outbox'
                      /\ orderStatus'[i] = "CANCELLED" => <<"ORDER_CANCELLED", i>> \in outbox'
                      /\ <<"ORDER_CANCELLED", i>> \in outbox' =>
                            \A p \in Products : holdMoves'[i][p] <= 0
    BY DEF OutboxTellsTheOrders, placed
  <2>1. CASE i = o
    BY <1>1, <1>2, <1>4, <2>1 DEF OutboxOK, OutboxTellsTheOrders, placed
  <2>2. CASE i # o
    BY <1>1, <1>2, <1>3, <2>2 DEF OutboxOK, OutboxTellsTheOrders, placed
  <2> QED
    BY <2>1, <2>2
<1> QED
  BY <1>5, <1>6, <1>7 DEF OutboxOK, placed

LEMMA ConfirmKeepsOutbox ==
    ASSUME TypeOK, KeysOK, OutboxOK, NEW r \in Requests, updateStatusWrites(r)
    PROVE  OutboxOK'
<1>1. PICK o \in OrderIds : o = req[r].order /\ orderStatus[o] # "NONE"
  BY DEF updateStatusWrites, TypeOK, CallsOK, KeysOK, placed
<1>2. /\ outbox' = outbox \cup {<<"ORDER_CONFIRMED", o>>}
      /\ UNCHANGED <<orderItems, holdMoves>>
      /\ \A i \in OrderIds : orderStatus'[i] = IF i = o THEN "CONFIRMED" ELSE orderStatus[i]
  BY <1>1 DEF updateStatusWrites, inventoryVars, TypeOK
<1>3. OutboxTellsTheOrders'
  BY <1>1, <1>2 DEF OutboxOK, OutboxTellsTheOrders, placed
<1> QED
  BY <1>1, <1>2, <1>3 DEF OutboxOK, placed

LEMMA StepOutboxOK == TypeOK /\ KeysOK /\ OutboxOK /\ [Next]_vars => OutboxOK'
<1> SUFFICES ASSUME TypeOK, KeysOK, OutboxOK, [Next]_vars PROVE OutboxOK'
  OBVIOUS
<1>1. ASSUME UNCHANGED <<outbox, orderStatus, orderItems, holdMoves>>
      PROVE  OutboxOK'
  BY <1>1 DEF OutboxOK, OutboxTellsTheOrders, placed
<1>2. staffEditsStock => UNCHANGED <<outbox, orderStatus, orderItems, holdMoves>>
  BY DEF staffEditsStock, InventoryNext, adjust, update, ordersVars
<1> QED
  BY <1>1, <1>2, PlaceKeepsOutbox, CancelKeepsOutbox, ConfirmKeepsOutbox
     DEF Next, serve, call, environment, tables, vars, inventoryVars, ordersVars,
         createReadsCart, createReplays, createChecksCart, createRollsBack, createLosesKey,
         createAnswersLoser, cancelRefused, updateStatusReads,
         editCart, clearCart, setPublishable

\* The outbox tells what became of each order, and tells of no cancellation that did
\* not give the stock back (orders.service.ts:296, 514, 586).
THEOREM OutboxTells == Spec => []OutboxTellsTheOrders
<1>1. Init => OutboxOK
  <2> SUFFICES ASSUME Init PROVE OutboxOK
    OBVIOUS
  <2>1. /\ outbox = {} /\ \A o \in OrderIds : ~ placed(o) /\ orderStatus[o] = "NONE"
        /\ \A o \in OrderIds, p \in Products : holdMoves[o][p] = 0 /\ orderItems[o][p] = 0
    BY DEF Init, InventoryInit, placed, EmptyCart
  <2> QED
    BY <2>1 DEF OutboxOK, OutboxTellsTheOrders
<1>2. OutboxOK => OutboxTellsTheOrders
  BY DEF OutboxOK
<1> QED
  BY <1>1, <1>2, StepOutboxOK, TypeCorrect, KeysAgree, PTL DEF Spec

-----------------------------------------------------------------------------
(* Retries.                                                                   *)

\* A call that has come to its transaction had something in its cart.
CartsOK == \A r \in Requests : req[r].pc \in {"tx", "lost"} => req[r].cart # EmptyCart

\* A step of one call leaves the others where they are.
LEMMA StepCartsOK == TypeOK /\ CartsOK /\ [Next]_vars => CartsOK'
<1> SUFFICES ASSUME TypeOK, CartsOK, [Next]_vars PROVE CartsOK'
  OBVIOUS
<1>1. ASSUME NEW r \in Requests, \A q \in Requests \ {r} : req'[q] = req[q],
             req'[r].pc \notin {"tx", "lost"} \/ req'[r].cart # EmptyCart
      PROVE  CartsOK'
  BY <1>1 DEF CartsOK
<1>2. ASSUME NEW r \in Requests, NEW o \in OrderIds, refuse(r) \/ reply(r, o)
      PROVE  CartsOK'
  <2>1. \A q \in Requests \ {r} : req'[q] = req[q]
    BY <1>2 DEF refuse, reply, TypeOK
  <2>2. refuse(r) => req'[r].pc = "done"
    BY DEF refuse, TypeOK, Request
  <2>3. reply(r, o) => req'[r].pc = "done"
    BY DEF reply, TypeOK, Request
  <2> QED
    BY <1>1, <1>2, <2>1, <2>2, <2>3
<1>3. ASSUME NEW r \in Requests, NEW pc \in {"tx", "lost"}, req' = [req EXCEPT ![r].pc = pc],
             req[r].cart # EmptyCart
      PROVE  CartsOK'
  <2>1. req'[r].cart = req[r].cart /\ \A q \in Requests \ {r} : req'[q] = req[q]
    BY <1>3 DEF TypeOK, Request
  <2> QED
    BY <1>1, <1>3, <2>1
<1>4. ASSUME NEW r \in Requests, call(r)
      PROVE  CartsOK'
  <2>1. \A q \in Requests \ {r} : req'[q] = req[q]
    BY <1>4 DEF call, createReadsCart, cancel, cancelRefused, updateStatusReads, TypeOK
  <2>2. req'[r].pc \in {"lookup", "write", "done"}
    <3>1. CASE \E c \in Customers, k \in Keys : createReadsCart(r, c, k)
      BY <3>1 DEF createReadsCart, TypeOK, IdleRequest
    <3>2. CASE \E a \in Actors, o \in OrderIds : cancel(r, a, o) \/ cancelRefused(r, a, o)
      <4>1. PICK a \in Actors, o \in OrderIds, rest \in {"ok", "refused"} :
               req' = [req EXCEPT ![r] = startCancel(r, a, o, rest)]
        BY <3>2 DEF cancel, cancelRefused
      <4>2. startCancel(r, a, o, rest).pc = "done"
        BY DEF startCancel, IdleRequest
      <4> QED
        BY <4>1, <4>2 DEF TypeOK
    <3>3. CASE \E o \in OrderIds : updateStatusReads(r, o)
      BY <3>3 DEF updateStatusReads, TypeOK, IdleRequest
    <3> QED
      BY <1>4, <3>1, <3>2, <3>3 DEF call
  <2> QED
    BY <1>1, <2>1, <2>2
<1>5. ASSUME NEW r \in Requests, serve(r)
      PROVE  CartsOK'
  <2>1. CASE refuse(r)
    <3>1. \A q \in Requests \ {r} : req'[q] = req[q]
      BY <2>1 DEF refuse, TypeOK
    <3>2. req'[r].pc = "done"
      BY <2>1 DEF refuse, TypeOK, Request
    <3> QED
      BY <1>1, <3>1, <3>2
  <2>2. CASE \E o \in OrderIds : reply(r, o)
    BY <1>2, <2>2
  <2>3. CASE createChecksCart(r) /\ ~ refuse(r)
    BY <1>3, <2>3 DEF createChecksCart
  <2>4. CASE createLosesKey(r)
    BY <1>3, <2>4 DEF createLosesKey, CartsOK
  <2>5. createReplays(r) \/ createAnswersLoser(r) =>
           refuse(r) \/ \E o \in OrderIds : reply(r, o)
    BY RowType DEF createReplays, createAnswersLoser
  <2>6. updateStatusWrites(r) => \E o \in OrderIds : reply(r, o)
    BY DEF updateStatusWrites, TypeOK, CallsOK
  <2>7. (\E o \in OrderIds : placeOrder(r, o)) => \E o \in OrderIds : reply(r, o)
    BY DEF placeOrder
  <2> QED
    BY <1>5, <2>1, <2>2, <2>3, <2>4, <2>5, <2>6, <2>7 DEF serve, createRollsBack
<1>6. ASSUME UNCHANGED req
      PROVE  CartsOK'
  BY <1>6 DEF CartsOK
<1> QED
  BY <1>4, <1>5, <1>6
     DEF Next, environment, vars, ordersVars, editCart, clearCart, setPublishable, staffEditsStock

\* What a call that is refused in a step was about to do.
LEMMA RefusedStep ==
    ASSUME TypeOK, CartsOK, [Next]_vars, NEW r \in Requests,
           req[r].pc # "done", req'[r].op = "create", req'[r].answer = "refused",
           row(r).order # NoOrder
    PROVE  req[r].cart \notin {row(r).hash, EmptyCart}
<1>1. req[r].answer = "none"
  BY DEF TypeOK, CallsOK
<1>2. ASSUME NEW o, reply(r, o) PROVE FALSE
  BY <1>2 DEF reply, TypeOK, Request
<1>3. ASSUME NEW pc \in {"tx", "lost"}, req' = [req EXCEPT ![r].pc = pc] PROVE FALSE
  BY <1>1, <1>3 DEF TypeOK, Request
<1>4. ASSUME call(r) PROVE FALSE
  <2>1. CASE \E c \in Customers, k \in Keys : createReadsCart(r, c, k)
    BY <2>1 DEF createReadsCart, TypeOK, IdleRequest
  <2>2. CASE \E a \in Actors, o \in OrderIds : cancel(r, a, o) \/ cancelRefused(r, a, o)
    BY <2>2 DEF cancel, cancelRefused, startCancel, TypeOK, IdleRequest
  <2>3. CASE \E o \in OrderIds : updateStatusReads(r, o)
    BY <2>3 DEF updateStatusReads, TypeOK, IdleRequest
  <2> QED
    BY <1>4, <2>1, <2>2, <2>3 DEF call
<1>5. \A q \in Requests \ {r} : ~ call(q) /\ ~ serve(q)
  <2> SUFFICES ASSUME NEW q \in Requests \ {r}, call(q) \/ serve(q)
               PROVE  req'[r] = req[r]
    BY <1>1
  <2>1. CASE call(q)
    BY <2>1 DEF call, createReadsCart, cancel, cancelRefused, updateStatusReads, TypeOK
  <2>2. CASE serve(q)
    BY <2>2 DEF serve, createReplays, createChecksCart, placeOrder, createRollsBack, createLosesKey,
                createAnswersLoser, updateStatusWrites, refuse, reply, TypeOK
  <2> QED
    BY <2>1, <2>2
<1>6. ~ UNCHANGED req
  BY <1>1
<1>7. serve(r)
  BY <1>4, <1>5, <1>6
     DEF Next, environment, vars, ordersVars, editCart, clearCart, setPublishable, staffEditsStock
<1>8. CASE createReplays(r)
  BY <1>2, <1>8 DEF createReplays, isReplay
<1>9. CASE createAnswersLoser(r)
  BY <1>2, <1>9 DEF createAnswersLoser, CartsOK
<1>10. ~ createChecksCart(r) /\ ~ createRollsBack(r)
  BY DEF createChecksCart, createRollsBack, keyIsFree
<1>11. ~ createLosesKey(r) /\ ~ updateStatusWrites(r) /\ \A o \in OrderIds : ~ placeOrder(r, o)
  BY <1>2, <1>3 DEF createLosesKey, updateStatusWrites, placeOrder
<1> QED
  BY <1>7, <1>8, <1>9, <1>10, <1>11 DEF serve

\* A call that names a key with an order, and the content of that order or the emptied
\* cart, is never refused, whatever it raced with (orders.service.ts:316-328).
THEOREM RetriesAreAnswered == Spec => RetryIsAnswered
<1>1. Init => CartsOK
  BY DEF Init, CartsOK, IdleRequest
<1> DEFINE Answered ==
      \A r \in Requests :
         /\ req[r].pc # "done" /\ req'[r].op = "create" /\ req'[r].answer = "refused"
         /\ row(r).order # NoOrder
         => req[r].cart \notin {row(r).hash, EmptyCart}
<1>2. TypeOK /\ CartsOK /\ [Next]_vars => Answered
  BY RefusedStep
<1> HIDE DEF Answered
<1>3. Spec => [][Answered]_vars
  BY <1>1, <1>2, StepCartsOK, TypeCorrect, PTL DEF Spec
<1> QED
  BY <1>3 DEF RetryIsAnswered, Answered
=============================================================================
