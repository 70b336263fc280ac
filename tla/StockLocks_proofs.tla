-------------------------- MODULE StockLocks_proofs --------------------------
(* Theorems about StockLocks.                                                 *)
EXTENDS StockLocks, TLAPS

\* What holds of a transaction t in local state c, over the locks h and the committed
\* stock q, r: it holds the rows it has read, and those are as it read them.
txOK(t, c, h, q, r) ==
    /\ c.pc = "idle" => c = Idle
    /\ c.pc = "lock" => isJob(c.job)
    /\ c.todo \subseteq needs(c.job)
    /\ c.wants \in c.todo \cup {NoProduct}
    /\ \A p \in Products : h[p] = t <=> p \in needs(c.job) \ c.todo
    /\ \A p \in needs(c.job) \ c.todo : c.quantity[p] = q[p] /\ c.reserved[p] = r[p]

StockOK ==
    /\ quantity \in [Products -> 0..MaxStock]
    /\ reserved \in [Products -> 0..MaxStock]
    /\ stockMoves \in [Products -> Int]

\* The inductive invariant: what was read under a lock that is still held is current.
ReadsAreCurrent ==
    /\ StockOK
    /\ holder \in [Products -> Transactions \cup {NoTransaction}]
    /\ tx \in [Transactions -> Transaction]
    /\ \A t \in Transactions : txOK(t, tx[t], holder, quantity, reserved)

LEMMA ReadsAreTyped == ReadsAreCurrent => TypeOK
<1> SUFFICES ASSUME ReadsAreCurrent PROVE TypeOK
  OBVIOUS
<1>1. \A t \in Transactions : {p \in Products : holder[p] = t} = needs(tx[t].job) \ tx[t].todo
  <2> SUFFICES ASSUME NEW t \in Transactions
               PROVE  {p \in Products : holder[p] = t} = needs(tx[t].job) \ tx[t].todo
    OBVIOUS
  <2>1. \A p \in Products : holder[p] = t <=> p \in needs(tx[t].job) \ tx[t].todo
    BY DEF ReadsAreCurrent, txOK
  <2>2. needs(tx[t].job) \subseteq Products
    BY DEF needs
  <2> QED
    BY <2>1, <2>2
<1> QED
  BY <1>1 DEF ReadsAreCurrent, StockOK, TypeOK

LEMMA IdleType ==
    /\ Idle \in Transaction
    /\ needs(Idle.job) = {} /\ Idle.todo = {} /\ Idle.wants = NoProduct /\ Idle.pc = "idle"
<1>1. NoJob \in Jobs /\ needs(NoJob) = {}
  BY StockLocksAssumption DEF NoJob, Jobs, needs
<1>2. Zero \in [Products -> Nat]
  BY DEF Zero
<1> QED
  BY <1>1, <1>2 DEF Idle, Transaction

\* What a transaction carries.
LEMMA TransactionParts ==
    ASSUME ReadsAreCurrent, NEW t \in Transactions
    PROVE  /\ tx[t] \in Transaction
           /\ txOK(t, tx[t], holder, quantity, reserved)
           /\ needs(tx[t].job) \subseteq Products
           /\ tx[t].job.kind \in {"reserve", "release", "adjust"}
           /\ \A p \in Products : /\ tx[t].job.amount[p] \in Int
                                  /\ tx[t].job.kind # "adjust" => tx[t].job.amount[p] \in Nat
                                  /\ p \notin needs(tx[t].job) => tx[t].job.amount[p] = 0
                                  /\ tx[t].quantity[p] \in Nat /\ tx[t].reserved[p] \in Nat
<1>1. tx[t] \in Transaction /\ txOK(t, tx[t], holder, quantity, reserved)
  BY DEF ReadsAreCurrent
<1>2. tx[t].job \in Jobs /\ tx[t].quantity \in [Products -> Nat] /\ tx[t].reserved \in [Products -> Nat]
  BY <1>1 DEF Transaction
<1>3. CASE tx[t].job \in [kind : {"reserve", "release"}, amount : [Products -> 0..MaxLine]]
  BY <1>1, <1>2, <1>3, StockLocksAssumption DEF needs
<1>4. CASE tx[t].job \in [kind : {"adjust"}, amount : [Products -> Deltas \cup {0}]]
  <2>1. tx[t].job.kind = "adjust" /\ tx[t].job.amount \in [Products -> Deltas \cup {0}]
    BY <1>4
  <2>2. Deltas \cup {0} \subseteq Int
    BY StockLocksAssumption
  <2>3. \A p \in Products : tx[t].job.amount[p] \in Int
    BY <2>1, <2>2
  <2> QED
    BY <1>1, <1>2, <2>1, <2>3 DEF needs
<1> QED
  BY <1>2, <1>3, <1>4 DEF Jobs

-----------------------------------------------------------------------------
\* A step of transaction t that leaves the rows of all others alone.
leavesOthers(t) ==
    /\ \A u \in Transactions \ {t} : tx'[u] = tx[u]
    /\ \A p \in Products : \/ holder'[p] = holder[p]
                           \/ holder[p] \in {t, NoTransaction} /\ holder'[p] \in {t, NoTransaction}
    /\ \A p \in Products : \/ holder[p] = t
                           \/ quantity'[p] = quantity[p] /\ reserved'[p] = reserved[p]

LEMMA StepsOfOne ==
    ASSUME ReadsAreCurrent, NEW t \in Transactions, leavesOthers(t), StockOK',
           holder' \in [Products -> Transactions \cup {NoTransaction}],
           tx' \in [Transactions -> Transaction],
           txOK(t, tx'[t], holder', quantity', reserved')
    PROVE  ReadsAreCurrent'
<1>1. ASSUME NEW u \in Transactions PROVE txOK(u, tx'[u], holder', quantity', reserved')
  <2>1. CASE u = t
    BY <2>1
  <2>2. CASE u # t
    <3>1. tx'[u] = tx[u] /\ txOK(u, tx[u], holder, quantity, reserved)
      BY <2>2 DEF leavesOthers, ReadsAreCurrent
    <3>2. \A p \in Products : holder'[p] = u <=> holder[p] = u
      BY <2>2, StockLocksAssumption DEF leavesOthers
    <3>3. \A p \in needs(tx[u].job) \ tx[u].todo :
             quantity'[p] = quantity[p] /\ reserved'[p] = reserved[p]
      BY <2>2, <3>1 DEF leavesOthers, txOK, needs
    <3> QED
      BY <3>1, <3>2, <3>3 DEF txOK
  <2> QED
    BY <2>1, <2>2
<1>2. (\A u \in Transactions : txOK(u, tx[u], holder, quantity, reserved))'
  BY <1>1
<1> QED
  BY <1>2 DEF ReadsAreCurrent

LEMMA BeginReads ==
    ASSUME ReadsAreCurrent, NEW t \in Transactions, NEW job \in Jobs, begin(t, job)
    PROVE  ReadsAreCurrent'
<1> DEFINE c == [Idle EXCEPT !.pc = "lock", !.job = job, !.todo = needs(job)]
<1>1. tx[t] = Idle /\ isJob(job) /\ tx' = [tx EXCEPT ![t] = c] /\ UNCHANGED <<stock, holder>>
  BY TransactionParts DEF begin, txOK
<1>2. /\ c \in Transaction /\ c.pc = "lock" /\ c.job = job /\ c.todo = needs(job)
      /\ c.wants = NoProduct
  BY IdleType DEF Idle, Transaction, needs
<1> HIDE DEF c
<1>3. \A p \in Products : holder[p] # t
  BY <1>1, IdleType, TransactionParts DEF txOK
<1>4. txOK(t, c, holder, quantity, reserved)
  BY <1>1, <1>2, <1>3 DEF txOK
<1>5. /\ tx' \in [Transactions -> Transaction] /\ tx'[t] = c
      /\ \A u \in Transactions \ {t} : tx'[u] = tx[u]
  BY <1>1, <1>2 DEF ReadsAreCurrent
<1> QED
  BY <1>1, <1>4, <1>5, StepsOfOne DEF leavesOthers, stock, ReadsAreCurrent, StockOK

LEMMA ReachesReads ==
    ASSUME ReadsAreCurrent, NEW t \in Transactions, NEW p \in Products, reaches(t, p)
    PROVE  ReadsAreCurrent'
<1>0. tx[t] \in Transaction /\ txOK(t, tx[t], holder, quantity, reserved)
  BY TransactionParts
<1> DEFINE c == [tx[t] EXCEPT !.wants = p]
<1>1. p \in tx[t].todo /\ tx' = [tx EXCEPT ![t] = c] /\ UNCHANGED <<stock, holder>>
  BY DEF reaches
<1>2. /\ c \in Transaction /\ c.pc = tx[t].pc /\ c.job = tx[t].job /\ c.todo = tx[t].todo
      /\ c.wants = p /\ c.quantity = tx[t].quantity /\ c.reserved = tx[t].reserved
  BY <1>0 DEF Transaction
<1>3. tx[t].pc = "lock"
  BY <1>0, <1>1, IdleType DEF txOK, Transaction
<1> HIDE DEF c
<1>4. txOK(t, c, holder, quantity, reserved)
  BY <1>0, <1>1, <1>2, <1>3 DEF txOK
<1>5. /\ tx' \in [Transactions -> Transaction] /\ tx'[t] = c
      /\ \A u \in Transactions \ {t} : tx'[u] = tx[u]
  BY <1>1, <1>2 DEF ReadsAreCurrent
<1> QED
  BY <1>1, <1>4, <1>5, StepsOfOne DEF leavesOthers, stock, ReadsAreCurrent, StockOK

LEMMA LocksReads ==
    ASSUME ReadsAreCurrent, NEW t \in Transactions, locks(t)
    PROVE  ReadsAreCurrent'
<1>0. tx[t] \in Transaction /\ txOK(t, tx[t], holder, quantity, reserved)
  BY TransactionParts
<1>1. PICK p \in Products : p = tx[t].wants /\ p \in tx[t].todo /\ p \in needs(tx[t].job)
  BY <1>0 DEF locks, txOK, needs
<1>2. /\ holder[p] = NoTransaction /\ holder' = [holder EXCEPT ![p] = t] /\ UNCHANGED stock
      /\ tx' = [tx EXCEPT ![t] = [tx[t] EXCEPT
                  !.wants = NoProduct, !.todo = @ \ {p},
                  !.quantity[p] = quantity[p], !.reserved[p] = reserved[p]]]
  BY <1>1 DEF locks, granted
<1>3. quantity[p] \in Nat /\ reserved[p] \in Nat
  BY StockLocksAssumption DEF ReadsAreCurrent, StockOK
<1> DEFINE c == tx'[t]
<1>4. /\ c \in Transaction /\ c.pc = tx[t].pc /\ c.job = tx[t].job /\ c.todo = tx[t].todo \ {p}
      /\ c.wants = NoProduct
      /\ c.quantity = [tx[t].quantity EXCEPT ![p] = quantity[p]]
      /\ c.reserved = [tx[t].reserved EXCEPT ![p] = reserved[p]]
  <2> DEFINE d == [tx[t] EXCEPT !.wants = NoProduct, !.todo = @ \ {p},
                                !.quantity[p] = quantity[p], !.reserved[p] = reserved[p]]
  <2>1. /\ d \in Transaction /\ d.pc = tx[t].pc /\ d.job = tx[t].job /\ d.todo = tx[t].todo \ {p}
        /\ d.wants = NoProduct
        /\ d.quantity = [tx[t].quantity EXCEPT ![p] = quantity[p]]
        /\ d.reserved = [tx[t].reserved EXCEPT ![p] = reserved[p]]
    BY <1>0, <1>3 DEF Transaction
  <2>2. tx'[t] = d
    BY <1>2 DEF ReadsAreCurrent
  <2> HIDE DEF d
  <2> QED
    BY <2>1, <2>2
<1>a. tx' \in [Transactions -> Transaction] /\ \A u \in Transactions \ {t} : tx'[u] = tx[u]
  BY <1>2, <1>4 DEF ReadsAreCurrent
<1>5. tx[t].pc = "lock"
  BY <1>0, <1>1, IdleType DEF txOK, Transaction
<1> HIDE DEF c
<1>6. \A i \in Products : c.quantity[i] = IF i = p THEN quantity[i] ELSE tx[t].quantity[i]
  BY <1>0, <1>4 DEF Transaction
<1>7. \A i \in Products : c.reserved[i] = IF i = p THEN reserved[i] ELSE tx[t].reserved[i]
  BY <1>0, <1>4 DEF Transaction
<1>8. /\ holder' \in [Products -> Transactions \cup {NoTransaction}] /\ holder'[p] = t
      /\ \A i \in Products \ {p} : holder'[i] = holder[i]
  BY <1>2 DEF ReadsAreCurrent
<1>9. txOK(t, c, holder', quantity, reserved)
  BY <1>0, <1>1, <1>4, <1>5, <1>6, <1>7, <1>8 DEF txOK, needs
<1>10. tx'[t] = c
  BY DEF c
<1>11. leavesOthers(t)
  BY <1>2, <1>8, <1>a DEF leavesOthers, stock
<1>12. StockOK' /\ quantity' = quantity /\ reserved' = reserved
  BY <1>2 DEF stock, ReadsAreCurrent, StockOK
<1> QED
  BY <1>8, <1>9, <1>10, <1>11, <1>12, <1>a, StepsOfOne

\* A transaction that ends, having written no row but those it holds.
LEMMA EndsReads ==
    ASSUME ReadsAreCurrent, NEW t \in Transactions, ends(t), StockOK',
           \A p \in Products : \/ holder[p] = t
                               \/ quantity'[p] = quantity[p] /\ reserved'[p] = reserved[p]
    PROVE  ReadsAreCurrent'
<1>1. \A p \in Products : holder'[p] = IF holder[p] = t THEN NoTransaction ELSE holder[p]
  BY DEF ends
<1>2. holder' \in [Products -> Transactions \cup {NoTransaction}]
  BY DEF ends, ReadsAreCurrent
<1>3. /\ tx' \in [Transactions -> Transaction] /\ tx'[t] = Idle
      /\ \A u \in Transactions \ {t} : tx'[u] = tx[u]
  BY IdleType DEF ends, ReadsAreCurrent
<1>4. t # NoTransaction
  BY StockLocksAssumption
<1>5. txOK(t, Idle, holder', quantity', reserved')
  BY <1>1, <1>4, IdleType DEF txOK
<1>6. leavesOthers(t)
  BY <1>1, <1>3 DEF leavesOthers
<1> QED
  BY <1>2, <1>3, <1>5, <1>6, StepsOfOne

-----------------------------------------------------------------------------
(* Commits.                                                                   *)

\* A transaction that commits holds all its rows and knows what is in them.
LEMMA CommitKnows ==
    ASSUME ReadsAreCurrent, NEW t \in Transactions, hasLocked(t)
    PROVE  /\ \A p \in needs(tx[t].job) :
                 /\ holder[p] = t
                 /\ tx[t].quantity[p] = quantity[p] /\ tx[t].reserved[p] = reserved[p]
           /\ isJob(tx[t].job)
<1>1. txOK(t, tx[t], holder, quantity, reserved) /\ needs(tx[t].job) \subseteq Products
  BY TransactionParts
<1> QED
  BY <1>1 DEF hasLocked, txOK

LEMMA ReserveCommits ==
    ASSUME ReadsAreCurrent, NEW t \in Transactions, commits(t), tx[t].job.kind = "reserve"
    PROVE  /\ Atomic!Take
           /\ StockOK'
           /\ \A p \in Products : \/ holder[p] = t
                                  \/ quantity'[p] = quantity[p] /\ reserved'[p] = reserved[p]
<1> DEFINE a == tx[t].job.amount
<1>1. /\ UNCHANGED <<quantity, stockMoves>>
      /\ \A p \in Products : reserved'[p] = reserved[p] + 1 * a[p]
      /\ reserved' = [p \in Products |-> reserved'[p]]
  <2>1. commitsHold(t, 1)
    BY DEF commits
  <2> QED
    BY <2>1 DEF commitsHold
<1>2. \A p \in Products : a[p] \in Nat /\ (p \notin needs(tx[t].job) => a[p] = 0)
  BY TransactionParts
<1>3. \A p \in needs(tx[t].job) : holder[p] = t /\ quantity[p] - reserved[p] >= a[p]
  <2>1. \A p \in needs(tx[t].job) : tx[t].quantity[p] - tx[t].reserved[p] >= a[p]
    BY DEF commits, checks
  <2> QED
    BY <2>1, CommitKnows DEF commits
<1>4. \A p \in Products : /\ quantity[p] \in 0..MaxStock /\ reserved[p] \in 0..MaxStock
                          /\ MaxStock \in Nat
  BY StockLocksAssumption DEF ReadsAreCurrent, StockOK
<1> HIDE DEF a
<1>5. ASSUME NEW p \in Products
      PROVE  /\ reserved'[p] \in 0..MaxStock
             /\ \/ reserved'[p] = reserved[p]
                \/ holder[p] = t /\ reserved'[p] \in reserved[p]..quantity[p]
  <2>1. CASE p \in needs(tx[t].job)
    BY <1>1, <1>2, <1>3, <1>4, <2>1
  <2>2. CASE p \notin needs(tx[t].job)
    BY <1>1, <1>2, <1>4, <2>2
  <2> QED
    BY <2>1, <2>2
<1>6. Atomic!Take
  BY <1>1, <1>5 DEF Atomic!Take
<1>7. StockOK'
  BY <1>1, <1>5 DEF ReadsAreCurrent, StockOK
<1> QED
  BY <1>1, <1>5, <1>6, <1>7

LEMMA ReleaseCommits ==
    ASSUME ReadsAreCurrent, NEW t \in Transactions, commits(t), tx[t].job.kind = "release"
    PROVE  /\ Atomic!GiveBack
           /\ StockOK'
           /\ \A p \in Products : \/ holder[p] = t
                                  \/ quantity'[p] = quantity[p] /\ reserved'[p] = reserved[p]
<1> DEFINE a == tx[t].job.amount
           was == tx[t].reserved
<1>1. /\ UNCHANGED <<quantity, stockMoves>>
      /\ \A p \in Products :
            reserved'[p] = reserved[p] + (-1) * (IF a[p] < was[p] THEN a[p] ELSE was[p])
      /\ reserved' = [p \in Products |-> reserved'[p]]
  <2>1. commitsHold(t, -1)
    BY DEF commits
  <2> QED
    BY <2>1 DEF commitsHold, Lesser
<1>2. \A p \in Products : /\ a[p] \in Nat /\ was[p] \in Nat
                          /\ (p \notin needs(tx[t].job) => a[p] = 0)
  BY TransactionParts
<1>3. \A p \in needs(tx[t].job) : holder[p] = t /\ was[p] = reserved[p]
  BY CommitKnows DEF commits
<1>4. \A p \in Products : reserved[p] \in 0..MaxStock /\ MaxStock \in Nat
  BY StockLocksAssumption DEF ReadsAreCurrent, StockOK
<1> HIDE DEF a, was
<1>5. ASSUME NEW p \in Products
      PROVE  /\ reserved'[p] \in 0..reserved[p]
             /\ reserved'[p] \in 0..MaxStock
             /\ reserved'[p] = reserved[p] \/ holder[p] = t
  <2>1. CASE p \in needs(tx[t].job)
    BY <1>1, <1>2, <1>3, <1>4, <2>1
  <2>2. CASE p \notin needs(tx[t].job)
    BY <1>1, <1>2, <1>4, <2>2
  <2> QED
    BY <2>1, <2>2
<1>6. Atomic!GiveBack
  BY <1>1, <1>5 DEF Atomic!GiveBack
<1>7. StockOK'
  BY <1>1, <1>5 DEF ReadsAreCurrent, StockOK
<1> QED
  BY <1>1, <1>5, <1>6, <1>7

LEMMA AdjustCommits ==
    ASSUME ReadsAreCurrent, NEW t \in Transactions, commits(t), tx[t].job.kind = "adjust"
    PROVE  /\ \E p \in Products : Atomic!Restock(p)
           /\ StockOK'
           /\ \A p \in Products : \/ holder[p] = t
                                  \/ quantity'[p] = quantity[p] /\ reserved'[p] = reserved[p]
<1> DEFINE a == tx[t].job.amount
<1>1. PICK p \in Products : needs(tx[t].job) = {p}
  BY CommitKnows DEF commits, isJob
<1>2. /\ UNCHANGED reserved
      /\ quantity' = [i \in Products |-> IF i = p THEN tx[t].quantity[i] + a[i] ELSE quantity[i]]
      /\ stockMoves' = [i \in Products |-> stockMoves[i] + a[i]]
  <2>1. commitsAdjustment(t)
    BY DEF commits
  <2> QED
    BY <1>1, <2>1 DEF commitsAdjustment
<1>3. \A i \in Products : a[i] \in Int /\ (i # p => a[i] = 0)
  BY <1>1, TransactionParts
<1>4. /\ holder[p] = t /\ tx[t].quantity[p] = quantity[p] /\ tx[t].reserved[p] = reserved[p]
  BY <1>1, CommitKnows DEF commits
<1>5. quantity[p] + a[p] \in reserved[p]..MaxStock
  <2>1. tx[t].quantity[p] + a[p] \in tx[t].reserved[p]..MaxStock
    BY <1>1 DEF commits, checks
  <2> QED
    BY <1>4, <2>1
<1>6. \A i \in Products : /\ quantity[i] \in 0..MaxStock /\ reserved[i] \in 0..MaxStock
                          /\ stockMoves[i] \in Int /\ MaxStock \in Nat
  BY StockLocksAssumption DEF ReadsAreCurrent, StockOK
<1>7. /\ quantity \in [Products -> 0..MaxStock] /\ reserved \in [Products -> 0..MaxStock]
      /\ stockMoves \in [Products -> Int]
  BY DEF ReadsAreCurrent, StockOK
<1> HIDE DEF a
<1>8. /\ quantity'[p] = quantity[p] + a[p] /\ quantity'[p] >= reserved[p]
      /\ quantity'[p] - quantity[p] = a[p] /\ quantity'[p] \in 0..MaxStock
  BY <1>2, <1>3, <1>4, <1>5, <1>6
<1>9. quantity' = [quantity EXCEPT ![p] = quantity'[p]]
  BY <1>2, <1>7, <1>8
<1>10. stockMoves' = [stockMoves EXCEPT ![p] = @ + (quantity'[p] - quantity[p])]
  <2>1. \A i \in Products : stockMoves'[i] = IF i = p THEN stockMoves[p] + a[p] ELSE stockMoves[i]
    BY <1>2, <1>3, <1>6
  <2>2. stockMoves' = [stockMoves EXCEPT ![p] = stockMoves[p] + a[p]]
    BY <1>2, <1>7, <2>1
  <2> QED
    BY <1>8, <2>2
<1>11. Atomic!Restock(p)
  BY <1>2, <1>8, <1>9, <1>10 DEF Atomic!Restock
<1>12. StockOK'
  <2>1. quantity' \in [Products -> 0..MaxStock]
    BY <1>7, <1>8, <1>9
  <2>2. stockMoves' \in [Products -> Int]
    BY <1>2, <1>3, <1>7
  <2> QED
    BY <1>2, <1>7, <2>1, <2>2 DEF StockOK
<1> QED
  BY <1>2, <1>4, <1>11, <1>12

LEMMA CommitReads ==
    ASSUME ReadsAreCurrent, NEW t \in Transactions, commits(t)
    PROVE  ReadsAreCurrent' /\ Atomic!Next
<1>1. tx[t].job.kind \in {"reserve", "release", "adjust"} /\ ends(t)
  BY TransactionParts DEF commits
<1>2. CASE tx[t].job.kind = "reserve"
  BY <1>1, <1>2, ReserveCommits, EndsReads DEF Atomic!Next
<1>3. CASE tx[t].job.kind = "release"
  BY <1>1, <1>3, ReleaseCommits, EndsReads DEF Atomic!Next
<1>4. CASE tx[t].job.kind = "adjust"
  BY <1>1, <1>4, AdjustCommits, EndsReads DEF Atomic!Next
<1> QED
  BY <1>1, <1>2, <1>3, <1>4

-----------------------------------------------------------------------------
(* The specification.                                                         *)

LEMMA InitReads == Init => ReadsAreCurrent
<1> SUFFICES ASSUME Init PROVE ReadsAreCurrent
  OBVIOUS
<1>1. StockOK
  BY StockLocksAssumption DEF Init, StockOK, Zero
<1>2. /\ holder \in [Products -> Transactions \cup {NoTransaction}]
      /\ tx \in [Transactions -> Transaction]
  BY IdleType DEF Init
<1>3. \A t \in Transactions : txOK(t, tx[t], holder, quantity, reserved)
  <2> SUFFICES ASSUME NEW t \in Transactions PROVE txOK(t, Idle, holder, quantity, reserved)
    BY DEF Init
  <2>1. \A p \in Products : holder[p] # t
    BY StockLocksAssumption DEF Init
  <2> QED
    BY <2>1, IdleType DEF txOK
<1> QED
  BY <1>1, <1>2, <1>3 DEF ReadsAreCurrent

LEMMA StepReads ==
    ReadsAreCurrent /\ [Next]_vars =>
        ReadsAreCurrent' /\ [Atomic!Next]_<<quantity, reserved, stockMoves>>
<1> SUFFICES ASSUME ReadsAreCurrent, [Next]_vars
             PROVE  ReadsAreCurrent' /\ (Atomic!Next \/ UNCHANGED stock)
  BY DEF stock
<1>1. ASSUME NEW t \in Transactions, rollsBack(t) \/ detected(t) \/ aborts(t)
      PROVE  ReadsAreCurrent' /\ UNCHANGED stock
  <2>1. ends(t) /\ UNCHANGED stock
    BY <1>1 DEF rollsBack, detected, aborts
  <2> QED
    BY <2>1, EndsReads DEF stock, ReadsAreCurrent, StockOK
<1>2. ASSUME NEW t \in Transactions, NEW job \in Jobs, begin(t, job)
      PROVE  ReadsAreCurrent' /\ UNCHANGED stock
  BY <1>2, BeginReads DEF begin, stock
<1>3. ASSUME NEW t \in Transactions, NEW p \in Products, reaches(t, p)
      PROVE  ReadsAreCurrent' /\ UNCHANGED stock
  BY <1>3, ReachesReads DEF reaches, stock
<1>4. ASSUME NEW t \in Transactions, locks(t)
      PROVE  ReadsAreCurrent' /\ UNCHANGED stock
  BY <1>4, LocksReads DEF locks, stock
<1>5. CASE UNCHANGED vars
  BY <1>5 DEF vars, stock, ReadsAreCurrent, StockOK
<1> QED
  BY <1>1, <1>2, <1>3, <1>4, <1>5, CommitReads DEF Next

LEMMA AlwaysCurrent == Spec => []ReadsAreCurrent
<1>1. ReadsAreCurrent /\ [Next]_vars => ReadsAreCurrent'
  BY StepReads
<1> QED
  BY <1>1, InitReads, PTL DEF Spec

\* Stock and locks keep their types, and a transaction holds the rows it has read
\* (orders.service.ts:109-121, inventory.service.ts:121-139).
THEOREM TypeCorrect == Spec => []TypeOK
BY AlwaysCurrent, ReadsAreTyped, PTL

\* Lock by lock, the transactions on stock do what AtomicStock does in one step each,
\* for any products, connections and quantities (orders.service.ts:109-121).
THEOREM LocksImplementAtomicStock == Spec => StockIsAtomic
<1>1. Init => Atomic!Init
  BY StockLocksAssumption DEF Init, Atomic!Init, Zero
<1>2. ReadsAreCurrent /\ [Next]_vars => [Atomic!Next]_<<quantity, reserved, stockMoves>>
  BY StepReads
<1> QED
  BY <1>1, <1>2, AlwaysCurrent, PTL DEF Spec, StockIsAtomic, Atomic!Spec, Atomic!vars
=============================================================================
