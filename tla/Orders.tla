------------------------------- MODULE Orders -------------------------------
(* Orders from cart to cancellation (orders.service.ts), on top of the stock  *)
(* of module Inventory.                                                       *)
(*                                                                            *)
(* A request is one HTTP call. Its steps are the points where the handler     *)
(* awaits the database: what it read at one step may be stale at the next. A  *)
(* prisma.$transaction that locks what it reads is one step.                  *)
EXTENDS Inventory, OrderLifecycle

CONSTANTS
    Customers,     \* user ids of customers
    Staff,         \* one user id that holds orders.update
    Keys,          \* values of the Idempotency-Key header
    Requests,      \* bound: the HTTP calls made in a behaviour
    MaxLine,       \* CART_MAX_ITEM_QUANTITY
    MaxItems       \* maxItemsPerOrder, which mirrors CART_MAX_ITEMS

ASSUME OrdersAssumption ==
    /\ Staff \notin Customers
    /\ MaxLine \in Nat
    /\ MaxItems \in Nat
    /\ OrderIds \subseteq Nat \ {0}
    /\ IsFiniteSet(OrderIds)

VARIABLES
    publishable,   \* product, category and brand are all active
    cart,          \* cart_items: quantity per product, 0 for no line
    orderStatus,   \* orders.status, "NONE" while the id is unused
    orderUser,     \* orders.user_id
    orderItems,    \* order_items: the quantities copied from the cart
    idem,          \* idempotency_keys with scope ORDER
    outbox,        \* notification_outbox rows about orders
    req            \* local state of the HTTP calls

ordersVars == <<publishable, cart, orderStatus, orderUser, orderItems, idem, outbox, req>>
vars == <<inventoryVars, ordersVars>>

-----------------------------------------------------------------------------
Cart == [Products -> 0..MaxLine]
EmptyCart == [p \in Products |-> 0]
lines(items) == {p \in Products : items[p] > 0}

NoOrder == 0
NoUser == "nobody"
Actors == Customers \cup {Staff}

\* An idempotency row is committed together with its order, so no committed row
\* lacks an order; requestHash is the cart it was computed from.
IdempotencyRow == [hash : Cart, order : OrderIds \cup {NoOrder}]
NoRow == [hash |-> EmptyCart, order |-> NoOrder]

OrderEvents == {"ORDER_CREATED", "ORDER_CONFIRMED", "ORDER_CANCELLED"}

Request ==
    [pc : {"idle", "lookup", "tx", "lost", "write", "done"},
     op : {"none", "create", "cancel", "confirm"},
     user : Actors \cup {NoUser},
     key : Keys \cup {"none"},
     cart : Cart,
     order : OrderIds \cup {NoOrder},
     answer : {"none", "ok", "refused"}]

IdleRequest ==
    [pc |-> "idle", op |-> "none", user |-> NoUser, key |-> "none",
     cart |-> EmptyCart, order |-> NoOrder, answer |-> "none"]

\* A call in progress has no answer yet; what it carries depends on where it is.
CallsOK ==
    \A r \in Requests :
        /\ req[r].answer = "none" <=> req[r].pc # "done"
        /\ req[r].pc \in {"lookup", "tx", "lost"} => req[r].op = "create"
        /\ req[r].pc = "write" => req[r].op = "confirm"
        /\ req[r].op = "create" => req[r].user \in Customers /\ req[r].key \in Keys
        /\ req[r].pc = "write" \/ req[r].answer = "ok" => req[r].order \in OrderIds
        /\ req[r].pc = "idle" => req[r] = IdleRequest

TypeOK ==
    /\ InventoryTypeOK
    /\ publishable \in [Products -> BOOLEAN]
    /\ cart \in [Customers -> Cart]
    /\ orderStatus \in [OrderIds -> ORDER_STATUS \cup {"NONE"}]
    /\ orderUser \in [OrderIds -> Customers \cup {NoUser}]
    /\ orderItems \in [OrderIds -> Cart]
    /\ idem \in [Customers -> [Keys -> IdempotencyRow]]
    /\ outbox \subseteq (OrderEvents \X OrderIds)
    /\ req \in [Requests -> Request]
    /\ CallsOK

Init ==
    /\ InventoryInit
    /\ publishable = [p \in Products |-> TRUE]
    /\ cart = [c \in Customers |-> EmptyCart]
    /\ orderStatus = [o \in OrderIds |-> "NONE"]
    /\ orderUser = [o \in OrderIds |-> NoUser]
    /\ orderItems = [o \in OrderIds |-> EmptyCart]
    /\ idem = [c \in Customers |-> [k \in Keys |-> NoRow]]
    /\ outbox = {}
    /\ req = [r \in Requests |-> IdleRequest]

tables == <<inventoryVars, publishable, cart, orderStatus, orderUser, orderItems, idem, outbox>>

\* The call ends with a 2xx answer about order o, or with a 404/409.
reply(r, o) ==
    req' = [req EXCEPT ![r] = [@ EXCEPT !.pc = "done", !.order = o, !.answer = "ok"]]
refuse(r) == req' = [req EXCEPT ![r] = [@ EXCEPT !.pc = "done", !.answer = "refused"]]

row(r) == idem[req[r].user][req[r].key]

\* A faulty variant: the unique index on (user, scope, key) is missing.
keyAlwaysFree(r) == TRUE

\* The unique index lets the call insert its row.
keyIsFree(r) == row(r).order = NoOrder

-----------------------------------------------------------------------------
(* POST /orders.                                                              *)

\* The cart is read, and fingerprinted, before the transaction.
createReadsCart(r, c, k) ==
    /\ req[r].pc = "idle"
    /\ req' = [req EXCEPT ![r] = [IdleRequest EXCEPT
                 !.pc = "lookup", !.op = "create", !.user = c, !.key = k, !.cart = cart[c]]]
    /\ UNCHANGED tables

\* A faulty variant: a known key is replayed without looking at the content.
replaysAnything(r) == TRUE

\* The same content, or a cart that the order of the key has emptied.
isReplay(r) == req[r].cart \in {row(r).hash, EmptyCart}

\* The key is known: a replay gets the order again, other content is a conflict.
createReplays(r) ==
    /\ req[r].pc = "lookup"
    /\ row(r).order # NoOrder
    /\ IF isReplay(r) THEN reply(r, row(r).order) ELSE refuse(r)
    /\ UNCHANGED tables

createChecksCart(r) ==
    /\ req[r].pc = "lookup"
    /\ row(r).order = NoOrder
    /\ IF req[r].cart = EmptyCart \/ Cardinality(lines(req[r].cart)) > MaxItems
       THEN refuse(r)
       ELSE req' = [req EXCEPT ![r].pc = "tx"]
    /\ UNCHANGED tables

\* A faulty variant: the cart's quantities are not compared with what is left.
purchasableIgnoringStock(items) == \A p \in lines(items) : publishable[p]

\* What the transaction checks under the inventory locks.
purchasable(items) ==
    \A p \in lines(items) : publishable[p] /\ availableQuantityOf(p) >= items[p]

\* The ids come from a sequence.
isNextId(o) ==
    /\ orderStatus[o] = "NONE"
    /\ \A i \in OrderIds : i < o => orderStatus[i] # "NONE"

\* The transaction of create: idempotency row, locks, validation, order and
\* items, reservation, cart emptied, ORDER_CREATED enqueued.
placeOrder(r, o) ==
    /\ req[r].pc = "tx"
    /\ keyIsFree(r)
    /\ purchasable(req[r].cart)
    /\ isNextId(o)
    /\ Reserve(o, req[r].cart)
    /\ orderStatus' = [orderStatus EXCEPT ![o] = "PENDING"]
    /\ orderUser' = [orderUser EXCEPT ![o] = req[r].user]
    /\ orderItems' = [orderItems EXCEPT ![o] = req[r].cart]
    /\ cart' = [cart EXCEPT ![req[r].user] = EmptyCart]
    /\ idem' = [idem EXCEPT ![req[r].user][req[r].key] = [hash |-> req[r].cart, order |-> o]]
    /\ outbox' = outbox \cup {<<"ORDER_CREATED", o>>}
    /\ reply(r, o)
    /\ UNCHANGED publishable

\* A line that can no longer be sold rolls everything back.
createRollsBack(r) ==
    /\ req[r].pc = "tx"
    /\ keyIsFree(r)
    /\ ~ purchasable(req[r].cart)
    /\ refuse(r)
    /\ UNCHANGED tables

\* Another call with this key committed first: the unique index raises P2002.
createLosesKey(r) ==
    /\ req[r].pc = "tx"
    /\ ~ keyIsFree(r)
    /\ req' = [req EXCEPT ![r].pc = "lost"]
    /\ UNCHANGED tables

\* A faulty variant: the loser is told that its order is being processed.
createRefusesLoser(r) == req[r].pc = "lost" /\ refuse(r) /\ UNCHANGED tables

\* The loser gets the winner's order, if it asked for the same content.
createAnswersLoser(r) ==
    /\ req[r].pc = "lost"
    /\ IF row(r).order # NoOrder /\ row(r).hash = req[r].cart
       THEN reply(r, row(r).order)
       ELSE refuse(r)
    /\ UNCHANGED tables

-----------------------------------------------------------------------------
(* Cancellation: the order row is locked, so it is one step.                  *)

mayCancel(a, o) ==
    IF a = Staff THEN canTransition(orderStatus[o], "CANCELLED")
    ELSE orderUser[o] = a /\ orderStatus[o] \in CUSTOMER_CANCELLABLE_STATUSES

startCancel(r, a, o, rest) ==
    [IdleRequest EXCEPT !.pc = "done", !.op = "cancel", !.user = a, !.order = o, !.answer = rest]

cancel(r, a, o) ==
    /\ req[r].pc = "idle"
    /\ orderStatus[o] # "NONE"
    /\ mayCancel(a, o)
    /\ Release(o, orderItems[o])
    /\ orderStatus' = [orderStatus EXCEPT ![o] = "CANCELLED"]
    /\ outbox' = outbox \cup {<<"ORDER_CANCELLED", o>>}
    /\ req' = [req EXCEPT ![r] = startCancel(r, a, o, "ok")]
    /\ UNCHANGED <<publishable, cart, orderUser, orderItems, idem>>

cancelRefused(r, a, o) ==
    /\ req[r].pc = "idle"
    /\ orderStatus[o] # "NONE"
    /\ ~ mayCancel(a, o)
    /\ req' = [req EXCEPT ![r] = startCancel(r, a, o, "refused")]
    /\ UNCHANGED tables

-----------------------------------------------------------------------------
(* PATCH /admin/orders/:id/status with CONFIRMED: the status is read and      *)
(* checked without a lock, and written later without looking again.           *)

updateStatusReads(r, o) ==
    /\ req[r].pc = "idle"
    /\ orderStatus[o] # "NONE"
    /\ LET call == [IdleRequest EXCEPT !.op = "confirm", !.user = Staff, !.order = o]
       IN  req' = [req EXCEPT ![r] =
                     IF canTransition(orderStatus[o], "CONFIRMED")
                     THEN [call EXCEPT !.pc = "write"]
                     ELSE [call EXCEPT !.pc = "done", !.answer = "refused"]]
    /\ UNCHANGED tables

updateStatusWrites(r) ==
    /\ req[r].pc = "write"
    /\ orderStatus' = [orderStatus EXCEPT ![req[r].order] = "CONFIRMED"]
    /\ outbox' = outbox \cup {<<"ORDER_CONFIRMED", req[r].order>>}
    /\ reply(r, req[r].order)
    /\ UNCHANGED <<inventoryVars, publishable, cart, orderUser, orderItems, idem>>

-----------------------------------------------------------------------------
(* What happens around the orders: customers edit their carts, staff edit     *)
(* stock and the catalogue.                                                   *)

\* The write of a cart endpoint: one line set or removed. The endpoints check
\* stock on an earlier read, so any line may be written at any time.
editCart(c, p, q) ==
    /\ cart' = [cart EXCEPT ![c][p] = q]
    /\ UNCHANGED <<inventoryVars, publishable, orderStatus, orderUser, orderItems,
                   idem, outbox, req>>

\* DELETE /cart: all lines at once.
clearCart(c) ==
    /\ cart' = [cart EXCEPT ![c] = EmptyCart]
    /\ UNCHANGED <<inventoryVars, publishable, orderStatus, orderUser, orderItems,
                   idem, outbox, req>>

setPublishable(p, b) ==
    /\ publishable' = [publishable EXCEPT ![p] = b]
    /\ UNCHANGED <<inventoryVars, cart, orderStatus, orderUser, orderItems,
                   idem, outbox, req>>

staffEditsStock == InventoryNext /\ UNCHANGED ordersVars

\* The steps a call takes by itself once it was made.
serve(r) ==
    \/ createReplays(r) \/ createChecksCart(r)
    \/ \E o \in OrderIds : placeOrder(r, o)
    \/ createRollsBack(r) \/ createLosesKey(r) \/ createAnswersLoser(r)
    \/ updateStatusWrites(r)

call(r) ==
    \/ \E c \in Customers, k \in Keys : createReadsCart(r, c, k)
    \/ \E a \in Actors, o \in OrderIds : cancel(r, a, o) \/ cancelRefused(r, a, o)
    \/ \E o \in OrderIds : updateStatusReads(r, o)

environment ==
    \/ \E c \in Customers, p \in Products, q \in 0..MaxLine : editCart(c, p, q)
    \/ \E c \in Customers : clearCart(c)
    \/ \E p \in Products, b \in BOOLEAN : setPublishable(p, b)
    \/ staffEditsStock

Next == (\E r \in Requests : call(r) \/ serve(r)) \/ environment

Spec == Init /\ [][Next]_vars

-----------------------------------------------------------------------------
(* What must hold.                                                            *)

placed(o) == orderStatus[o] # "NONE"
live(o) == orderStatus[o] \in {"PENDING", "CONFIRMED"}

\* A quantity for each order, counted in units: as many pairs as the positive ones
\* add up to.
unitsIn(amounts) == UNION {{o} \X (1..amounts[o]) : o \in OrderIds}

\* The units of product p that live orders are owed.
owedUnits(p) == unitsIn([o \in OrderIds |-> IF live(o) THEN orderItems[o][p] ELSE 0])

\* What the RESERVATION and RELEASE movements of product p add up to: the units that
\* orders took, less those they gave back beyond what they took.
holdLedger(p) ==
    Cardinality(unitsIn([o \in OrderIds |-> holdMoves[o][p]]))
        - Cardinality(unitsIn([o \in OrderIds |-> -holdMoves[o][p]]))

\* The validation under the row locks (orders.service.ts:206-220) and the
\* staff endpoints keep reserved_quantity <= quantity: the CHECK constraint of
\* the inventory table never has to refuse a write, whatever was read before.
StockNotOversold == \A p \in Products : reserved[p] <= quantity[p]

\* No stock stays blocked for nobody: what is reserved is owed to orders that
\* are still live. Cancelling gives back all it took (orders.service.ts:482-499),
\* and a call that fails in its transaction leaves nothing reserved.
NoPhantomHold == \A p \in Products : reserved[p] <= Cardinality(owedUnits(p))

\* The RESERVATION and RELEASE movements never claim more than is reserved.
\* With NoPhantomHold: where every order's movements say what its status says,
\* reserved_quantity is exact.
LedgerNeverAhead == \A p \in Products : holdLedger(p) <= reserved[p]

\* Every order was placed under exactly one idempotency row, of its owner, with
\* the fingerprint of what it contains, however many calls raced for the key
\* (schema.prisma:522: a double submit can never create two resources).
OneOrderPerKey ==
    \A o \in OrderIds : placed(o) =>
        \E c \in Customers, k \in Keys :
            /\ idem[c][k] = [hash |-> orderItems[o], order |-> o]
            /\ orderUser[o] = c
            /\ \A d \in Customers, l \in Keys : idem[d][l].order = o => d = c /\ l = k

\* Why OneOrderPerKey and AnswerMatchesCart hold: rows and orders name each
\* other one to one, and an answer names the order of the caller's row.
KeysOK ==
    /\ \A c \in Customers, k \in Keys : idem[c][k].order # NoOrder =>
          /\ placed(idem[c][k].order)
          /\ orderUser[idem[c][k].order] = c
          /\ orderItems[idem[c][k].order] = idem[c][k].hash
    /\ \A c, d \in Customers, k, l \in Keys :
          idem[c][k].order # NoOrder /\ idem[c][k].order = idem[d][l].order => c = d /\ k = l
    /\ \A o \in OrderIds : placed(o) =>
          \E c \in Customers, k \in Keys : idem[c][k].order = o
    /\ \A r \in Requests : req[r].pc = "write" => placed(req[r].order)
    /\ \A r \in Requests : req[r].op = "create" /\ req[r].answer = "ok" =>
          /\ row(r).order = req[r].order
          /\ req[r].cart \in {row(r).hash, EmptyCart}

\* A call to POST /orders that is answered with an order gets one of its own
\* customer, with the content of the cart it read, unless it read a cart that
\* an order had already emptied.
AnswerMatchesCart ==
    \A r \in Requests : req[r].op = "create" /\ req[r].answer = "ok" =>
        /\ orderUser[req[r].order] = req[r].user
        /\ req[r].cart \in {orderItems[req[r].order], EmptyCart}

\* A repeated call is not turned away: once a key has its order, a call that read
\* the same cart, or the emptied one, is answered and not refused, also when it
\* lost the race for the key (orders.service.ts:316-328).
RetryIsAnswered ==
    [][\A r \in Requests :
         /\ req[r].pc # "done" /\ req'[r].op = "create" /\ req'[r].answer = "refused"
         /\ row(r).order # NoOrder
         => req[r].cart \notin {row(r).hash, EmptyCart}]_vars

\* The outbox tells what happened to an order and nothing else: created when it
\* exists, confirmed or cancelled when its status says so, and "cancelled" only
\* of an order whose stock was given back (orders.service.ts:296, 514, 586).
OutboxTellsTheOrders ==
    \A o \in OrderIds :
        /\ placed(o) <=> <<"ORDER_CREATED", o>> \in outbox
        /\ orderStatus[o] = "CONFIRMED" => <<"ORDER_CONFIRMED", o>> \in outbox
        /\ orderStatus[o] = "CANCELLED" => <<"ORDER_CANCELLED", o>> \in outbox
        /\ <<"ORDER_CANCELLED", o>> \in outbox =>
              \A p \in Products : holdMoves[o][p] <= 0

\* orders.service.ts implements the promise of IdempotentCreation: the table
\* idempotency_keys is the memory of what was created, the create calls that
\* were answered with an order are the answers.
createdUnder == [s \in Customers \X Keys |-> idem[s[1]][s[2]].order]
answered ==
    [r \in Requests |->
        IF req[r].op = "create" /\ req[r].answer = "ok"
        THEN <<req[r].user, req[r].key, req[r].order>> ELSE <<>>]

Promise == INSTANCE IdempotentCreation WITH Resources <- OrderIds, NoResource <- NoOrder
KeysAreIdempotent == Promise!Spec

\* Orders, cancellations and staff edits together do what AtomicStock promises:
\* a step takes no more than is available, a cancellation gives back no more than
\* is reserved, and the physical quantity changes only by staff edits, each with
\* the movement that explains it (orders.service.ts:266-285, 482-499,
\* inventory.service.ts:163-173, 212-222).
Atomic == INSTANCE AtomicStock
StockIsAtomic == Atomic!Spec

-----------------------------------------------------------------------------
(* What the repository says of the program and the code does not keep.        *)

\* orders.service.ts:430-431: "a double cancellation can only ever release the
\* stock once": what the orders took and did not give back themselves is still
\* reserved, so no cancellation releases what another order holds.
ReleasedOnce ==
    \A p \in Products :
        Cardinality(unitsIn([o \in OrderIds |-> holdMoves[o][p]])) <= reserved[p]
=============================================================================
