----------------------------- MODULE StockLocks -----------------------------
(* The transactions on the inventory table, lock by lock. The other modules   *)
(* take each of them as one step; this one shows that they may.               *)
(*                                                                            *)
(* orders.service.ts locks the rows of an order with SELECT ... FOR UPDATE in *)
(* the order PostgreSQL finds them; inventory.service.ts locks one row. What  *)
(* a transaction writes is invisible until it commits.                        *)
EXTENDS Integers

CONSTANTS
    Products,
    Transactions,  \* connections on which transactions run, one at a time
    MaxStock,      \* bound: the largest physical quantity
    MaxLine,       \* CART_MAX_ITEM_QUANTITY
    Deltas         \* bound: the signed amounts of adjustments

NoTransaction == "none"
NoProduct == "none"

ASSUME StockLocksAssumption ==
    /\ MaxStock \in Nat
    /\ MaxLine \in Nat
    /\ Deltas \subseteq Int
    /\ NoTransaction \notin Transactions
    /\ NoProduct \notin Products

VARIABLES
    quantity,      \* committed inventory.quantity
    reserved,      \* committed inventory.reserved_quantity
    stockMoves,    \* sum of the committed movements of the physical quantity
    holder,        \* the transaction that holds the lock of a row
    tx             \* local state of the transactions

vars == <<quantity, reserved, stockMoves, holder, tx>>
stock == <<quantity, reserved, stockMoves>>

-----------------------------------------------------------------------------
\* What a transaction is to do with each product: so much to reserve, to release,
\* or, for one product, to add to the quantity.
Jobs ==
    [kind : {"reserve", "release"}, amount : [Products -> 0..MaxLine]]
        \cup [kind : {"adjust"}, amount : [Products -> Deltas \cup {0}]]

needs(job) == {p \in Products : job.amount[p] # 0}
isJob(job) ==
    /\ needs(job) # {}
    /\ job.kind = "adjust" => \E p \in Products : needs(job) = {p}

NoJob == [kind |-> "reserve", amount |-> [p \in Products |-> 0]]

Transaction ==
    [pc : {"idle", "lock"},
     job : Jobs,
     todo : SUBSET Products,              \* rows not locked yet
     wants : Products \cup {NoProduct},   \* the row it is waiting for
     quantity : [Products -> Nat],        \* as read under the locks
     reserved : [Products -> Nat]]

Zero == [p \in Products |-> 0]
Idle ==
    [pc |-> "idle", job |-> NoJob, todo |-> {}, wants |-> NoProduct,
     quantity |-> Zero, reserved |-> Zero]

TypeOK ==
    /\ quantity \in [Products -> 0..MaxStock]
    /\ reserved \in [Products -> 0..MaxStock]
    /\ stockMoves \in [Products -> Int]
    /\ holder \in [Products -> Transactions \cup {NoTransaction}]
    /\ tx \in [Transactions -> Transaction]
    /\ \A t \in Transactions :
          {p \in Products : holder[p] = t} = needs(tx[t].job) \ tx[t].todo

Init ==
    /\ quantity = [p \in Products |-> MaxStock]
    /\ reserved = Zero
    /\ stockMoves = quantity
    /\ holder = [p \in Products |-> NoTransaction]
    /\ tx = [t \in Transactions |-> Idle]

begin(t, job) ==
    /\ tx[t].pc = "idle"
    /\ isJob(job)
    /\ tx' = [tx EXCEPT ![t] = [Idle EXCEPT !.pc = "lock", !.job = job, !.todo = needs(job)]]
    /\ UNCHANGED <<stock, holder>>

-----------------------------------------------------------------------------
(* SELECT ... FOR UPDATE.                                                     *)

\* The plan comes to a row, in no particular order.
reaches(t, p) ==
    /\ tx[t].wants = NoProduct
    /\ p \in tx[t].todo
    /\ tx' = [tx EXCEPT ![t].wants = p]
    /\ UNCHANGED <<stock, holder>>

\* The row is read when its lock is granted, in its last committed version.
granted(t) ==
    LET p == tx[t].wants
    IN  tx' = [tx EXCEPT ![t] = [tx[t] EXCEPT
                 !.wants = NoProduct, !.todo = @ \ {p},
                 !.quantity[p] = quantity[p], !.reserved[p] = reserved[p]]]

\* A faulty variant: the rows are read without FOR UPDATE.
readsUnlocked(t) ==
    /\ tx[t].wants # NoProduct
    /\ granted(t)
    /\ UNCHANGED <<stock, holder>>

locks(t) ==
    /\ tx[t].wants # NoProduct
    /\ holder[tx[t].wants] = NoTransaction
    /\ granted(t)
    /\ holder' = [holder EXCEPT ![tx[t].wants] = t]
    /\ UNCHANGED stock

\* Commit or rollback: the locks are given back.
ends(t) ==
    /\ tx' = [tx EXCEPT ![t] = Idle]
    /\ holder' = [p \in Products |-> IF holder[p] = t THEN NoTransaction ELSE holder[p]]

-----------------------------------------------------------------------------
(* With all rows locked: the check on what was read, the writes, the commit.  *)

hasLocked(t) == tx[t].pc = "lock" /\ tx[t].todo = {}

\* A faulty variant: what was read under the locks is not looked at.
checksNothing(t) == TRUE

checks(t) ==
    \A p \in needs(tx[t].job) :
        LET after == tx[t].quantity[p] + tx[t].job.amount[p]
        IN  CASE tx[t].job.kind = "reserve" ->
                    tx[t].quantity[p] - tx[t].reserved[p] >= tx[t].job.amount[p]
              [] tx[t].job.kind = "release" -> TRUE
              [] tx[t].job.kind = "adjust"  -> after \in tx[t].reserved[p]..MaxStock

Lesser(a, b) == IF a < b THEN a ELSE b

\* An order increments reserved_quantity, whatever was read; a cancellation
\* decrements it by what was reserved when it was read.
commitsHold(t, sign) ==
    /\ reserved' = [p \in Products |->
                      reserved[p] + sign *
                        (IF sign > 0 THEN tx[t].job.amount[p]
                         ELSE Lesser(tx[t].job.amount[p], tx[t].reserved[p]))]
    /\ UNCHANGED <<quantity, stockMoves>>

\* An adjustment writes the sum it computed from what it read.
commitsAdjustment(t) ==
    /\ quantity' = [p \in Products |->
                      IF p \in needs(tx[t].job)
                      THEN tx[t].quantity[p] + tx[t].job.amount[p] ELSE quantity[p]]
    /\ stockMoves' = [p \in Products |-> stockMoves[p] + tx[t].job.amount[p]]
    /\ UNCHANGED reserved

commits(t) ==
    /\ hasLocked(t)
    /\ checks(t)
    /\ CASE tx[t].job.kind = "reserve" -> commitsHold(t, 1)
         [] tx[t].job.kind = "release" -> commitsHold(t, -1)
         [] tx[t].job.kind = "adjust"  -> commitsAdjustment(t)
    /\ ends(t)

\* A faulty variant: an order that finds too little stock is tried again at once,
\* however often it fails.
retriesForEver(t) ==
    /\ hasLocked(t)
    /\ ~ checks(t)
    /\ tx' = [tx EXCEPT ![t] = [Idle EXCEPT
                !.pc = "lock", !.job = tx[t].job, !.todo = needs(tx[t].job)]]
    /\ holder' = [p \in Products |-> IF holder[p] = t THEN NoTransaction ELSE holder[p]]
    /\ UNCHANGED stock

rollsBack(t) ==
    /\ hasLocked(t)
    /\ ~ checks(t)
    /\ ends(t)
    /\ UNCHANGED stock

-----------------------------------------------------------------------------
(* What stops a transaction from outside.                                     *)

waits(t) == tx[t].wants # NoProduct /\ holder[tx[t].wants] # NoTransaction
blocker(t) == holder[tx[t].wants]

\* t is one of some transactions that wait for each other in a circle.
isDeadlocked(t) ==
    \E S \in SUBSET Transactions :
        /\ t \in S
        /\ \A s \in S : waits(s) /\ blocker(s) \in S
        /\ \A s \in S : \E u \in S : blocker(u) = s

\* PostgreSQL's detector cancels one of them: the call ends with an error.
detected(t) ==
    /\ isDeadlocked(t)
    /\ ends(t)
    /\ UNCHANGED stock

\* The transaction times out, or its connection or the server goes down.
aborts(t) ==
    /\ tx[t].pc # "idle"
    /\ ends(t)
    /\ UNCHANGED stock

Next ==
    \E t \in Transactions :
        \/ \E job \in Jobs : begin(t, job)
        \/ \E p \in Products : reaches(t, p)
        \/ locks(t) \/ commits(t) \/ rollsBack(t) \/ detected(t) \/ aborts(t)

Spec == Init /\ [][Next]_vars

\* The statements of a transaction are executed, PostgreSQL looks for deadlocks,
\* and hands the lock of a row to those who queue for it in turn.
Fairness ==
    \A t \in Transactions :
        /\ WF_vars(\E p \in Products : reaches(t, p))
        /\ WF_vars(commits(t)) /\ WF_vars(rollsBack(t)) /\ WF_vars(detected(t))
        /\ SF_vars(locks(t))

FairSpec == Spec /\ Fairness

-----------------------------------------------------------------------------
(* What must hold.                                                            *)

\* Lock by lock, each transaction that commits is one step of AtomicStock: it takes
\* no more than is available at that moment, though others have run since it read,
\* gives back no more than is reserved, and overwrites no quantity without the
\* movement for the difference (orders.service.ts:109-121,
\* inventory.service.ts:121-139).
Atomic == INSTANCE AtomicStock
StockIsAtomic == Atomic!Spec

\* No transaction waits for ever, although nothing orders the locks of an order:
\* it commits, rolls back or is cancelled (orders.service.ts:113-121).
EveryTransactionEnds ==
    \A t \in Transactions : tx[t].pc = "lock" ~> tx[t].pc = "idle"
=============================================================================
