------------------------------ MODULE Payments ------------------------------
(* Payments for orders (payments.service.ts): creation under an idempotency   *)
(* key, the customer's declaration of a transfer, the decisions of employees. *)
(*                                                                            *)
(* payments.order_id is unique, so a payment is named by its order. A request *)
(* is one HTTP call; its steps are the points where the handler awaits the    *)
(* database. The orders belong to orders.service.ts (module Orders): here     *)
(* their status only moves.                                                   *)
EXTENDS OrderLifecycle, Naturals

CONSTANTS
    Customers,     \* user ids of customers
    Keys,          \* values of the Idempotency-Key header
    OrderIds,      \* the orders, all placed before
    ownerOf,       \* orders.user_id
    References,    \* transfer references customers may declare
    Requests,      \* bound: the HTTP calls made in a behaviour
    MaxCrashes     \* bound: how often the server stops and is restarted

NoOrder == 0
NoReference == "null"
NoUser == "nobody"
Staff == "staff"

ASSUME PaymentsAssumption ==
    /\ ownerOf \in [OrderIds -> Customers]
    /\ NoOrder \notin OrderIds
    /\ NoReference \notin References
    /\ MaxCrashes \in Nat

VARIABLES
    orderStatus,   \* orders.status
    status,        \* payments.status of the order's payment, "NONE" without one
    reference,     \* payments.transaction_reference
    paymentKey,    \* idempotency_keys with scope PAYMENT: the order of the payment
    outbox,        \* notification_outbox rows about payments
    req,           \* local state of the HTTP calls
    crashes

vars == <<orderStatus, status, reference, paymentKey, outbox, req, crashes>>
tables == <<orderStatus, status, reference, paymentKey, outbox>>

-----------------------------------------------------------------------------
(* payments.constants.ts                                                      *)

PAYMENT_STATUS ==
    {"PENDING", "PENDING_REVIEW", "PROCESSING", "SUCCEEDED", "FAILED", "CANCELLED"}

PAYMENT_TRANSITIONS ==
    [s \in PAYMENT_STATUS |->
        CASE s = "PENDING"        -> {"PENDING_REVIEW", "PROCESSING", "CANCELLED"}
          [] s = "PENDING_REVIEW" -> {"SUCCEEDED", "FAILED", "CANCELLED"}
          [] s = "PROCESSING"     -> {"SUCCEEDED", "FAILED", "CANCELLED"}
          [] OTHER                -> {}]

\* A faulty variant: the status checked before the transaction is trusted.
trustsEarlierCheck(from, to) == TRUE

canTransitionPayment(from, to) == to \in PAYMENT_TRANSITIONS[from]

PAYABLE_ORDER_STATUSES == {"PENDING", "CONFIRMED"}

\* What each operation makes of a payment, the statuses it may start from, and
\* the event it enqueues with the change.
Target ==
    [submit  |-> "PENDING_REVIEW", confirm |-> "SUCCEEDED",
     reject  |-> "FAILED",         cancel  |-> "CANCELLED"]

StartsFrom ==
    [submit  |-> {"PENDING"},        confirm |-> {"PENDING_REVIEW"},
     reject  |-> {"PENDING_REVIEW"}, cancel  |-> {"PENDING", "PENDING_REVIEW", "PROCESSING"}]

Announces ==
    [submit  |-> {"PAYMENT_SUBMITTED_FOR_REVIEW"}, confirm |-> {"PAYMENT_CONFIRMED"},
     reject  |-> {"PAYMENT_REJECTED"},             cancel  |-> {}]

Decisions == {"confirm", "reject", "cancel"}
PaymentEvents ==
    {"PAYMENT_CREATED", "PAYMENT_SUBMITTED_FOR_REVIEW", "PAYMENT_REVIEW_REQUIRED",
     "PAYMENT_CONFIRMED", "PAYMENT_REJECTED"}

-----------------------------------------------------------------------------
Request ==
    [pc : {"idle", "order", "tx", "lost", "reference", "write", "event", "done"},
     op : {"none", "create", "submit"} \cup Decisions,
     user : Customers \cup {Staff, NoUser},
     key : Keys \cup {"none"},
     order : OrderIds \cup {NoOrder},
     reference : References \cup {NoReference},
     payment : OrderIds \cup {NoOrder},
     answer : {"none", "ok", "refused", "lost"}]

IdleRequest ==
    [pc |-> "idle", op |-> "none", user |-> NoUser, key |-> "none", order |-> NoOrder,
     reference |-> NoReference, payment |-> NoOrder, answer |-> "none"]

\* What a call carries depends on where it is.
CallsOK ==
    \A r \in Requests :
        /\ req[r].answer = "none" <=> req[r].pc # "done"
        /\ req[r].pc = "idle" <=> req[r] = IdleRequest
        /\ req[r].pc \in {"order", "tx", "lost"} => req[r].op = "create"
        /\ req[r].pc \in {"reference", "event"} => req[r].op = "submit"
        /\ req[r].pc = "write" => req[r].op \in Decisions \cup {"submit"}
        /\ req[r].pc # "idle" => req[r].order \in OrderIds
        /\ req[r].pc \in {"reference", "write", "event"} => status[req[r].order] # "NONE"
        /\ req[r].op = "create" => req[r].user \in Customers /\ req[r].key \in Keys
        /\ req[r].op = "submit" => req[r].reference \in References
        /\ req[r].answer = "ok" => req[r].payment \in OrderIds

TypeOK ==
    /\ orderStatus \in [OrderIds -> ORDER_STATUS]
    /\ status \in [OrderIds -> PAYMENT_STATUS \cup {"NONE"}]
    /\ reference \in [OrderIds -> References \cup {NoReference}]
    /\ paymentKey \in [Customers -> [Keys -> OrderIds \cup {NoOrder}]]
    /\ outbox \subseteq (PaymentEvents \X OrderIds)
    /\ req \in [Requests -> Request]
    /\ CallsOK
    /\ crashes \in 0..MaxCrashes

Init ==
    /\ orderStatus \in [OrderIds -> ORDER_STATUS]
    /\ status = [o \in OrderIds |-> "NONE"]
    /\ reference = [o \in OrderIds |-> NoReference]
    /\ paymentKey = [c \in Customers |-> [k \in Keys |-> NoOrder]]
    /\ outbox = {}
    /\ req = [r \in Requests |-> IdleRequest]
    /\ crashes = 0

start(r, call) == req[r].pc = "idle" /\ req' = [req EXCEPT ![r] = call]
goto(r, pc) == req' = [req EXCEPT ![r] = [@ EXCEPT !.pc = pc]]
finish(r, payment, answer) ==
    req' = [req EXCEPT ![r] = [@ EXCEPT !.pc = "done", !.payment = payment, !.answer = answer]]
reply(r, o) == finish(r, o, "ok")
refuse(r) == finish(r, NoOrder, "refused")

known(r) == paymentKey[req[r].user][req[r].key]

-----------------------------------------------------------------------------
(* POST /payments.                                                            *)

\* A faulty variant: a known key is replayed for whatever order is named.
looksUpKeyOnly(r, c, k, o) ==
    /\ LET call == [IdleRequest EXCEPT !.op = "create", !.user = c, !.key = k, !.order = o]
           row  == paymentKey[c][k]
       IN  start(r, IF row = NoOrder THEN [call EXCEPT !.pc = "order"]
                    ELSE [call EXCEPT !.pc = "done", !.payment = row, !.answer = "ok"])
    /\ UNCHANGED <<tables, crashes>>

\* The key is looked up first: a replay, a conflict, or a new request. The
\* fingerprint of a request is the order it names.
createLooksUpKey(r, c, k, o) ==
    /\ LET call == [IdleRequest EXCEPT !.op = "create", !.user = c, !.key = k, !.order = o]
           row  == paymentKey[c][k]
       IN  start(r, IF row = NoOrder THEN [call EXCEPT !.pc = "order"]
                    ELSE IF row = o THEN [call EXCEPT !.pc = "done", !.payment = row, !.answer = "ok"]
                    ELSE [call EXCEPT !.pc = "done", !.answer = "refused"])
    /\ UNCHANGED <<tables, crashes>>

\* The order is read, without a lock: its owner and whether it may be paid.
createReadsOrder(r) ==
    /\ req[r].pc = "order"
    /\ IF /\ ownerOf[req[r].order] = req[r].user
          /\ orderStatus[req[r].order] \in PAYABLE_ORDER_STATUSES
       THEN goto(r, "tx")
       ELSE refuse(r)
    /\ UNCHANGED <<tables, crashes>>

\* A faulty variant: the unique index on (user, scope, key) is missing.
keyAlwaysFree(r) == TRUE

keyIsFree(r) == known(r) = NoOrder

\* The transaction: idempotency row, payment, PAYMENT_CREATED.
createInserts(r) ==
    /\ req[r].pc = "tx"
    /\ keyIsFree(r)
    /\ status[req[r].order] = "NONE"
    /\ status' = [status EXCEPT ![req[r].order] = "PENDING"]
    /\ paymentKey' = [paymentKey EXCEPT ![req[r].user][req[r].key] = req[r].order]
    /\ outbox' = outbox \cup {<<"PAYMENT_CREATED", req[r].order>>}
    /\ reply(r, req[r].order)
    /\ UNCHANGED <<orderStatus, reference, crashes>>

\* The order has a payment already: the unique index on order_id.
createConflicts(r) ==
    /\ req[r].pc = "tx"
    /\ keyIsFree(r)
    /\ status[req[r].order] # "NONE"
    /\ refuse(r)
    /\ UNCHANGED <<tables, crashes>>

\* Another call with this key committed first.
createLosesKey(r) ==
    /\ req[r].pc = "tx"
    /\ ~ keyIsFree(r)
    /\ goto(r, "lost")
    /\ UNCHANGED <<tables, crashes>>

createAnswersLoser(r) ==
    /\ req[r].pc = "lost"
    /\ IF known(r) = req[r].order THEN reply(r, known(r)) ELSE refuse(r)
    /\ UNCHANGED <<tables, crashes>>

-----------------------------------------------------------------------------
(* What all other operations share: a look at the status, without a lock, and *)
(* later transition(), which locks the payment row and looks again.           *)

\* A faulty variant: the look does not check the status.
looksUnchecked(r, op, u, o, x, next) ==
    /\ start(r, [IdleRequest EXCEPT !.pc = next, !.op = op, !.user = u,
                                    !.order = o, !.reference = x])
    /\ UNCHANGED <<tables, crashes>>

looks(r, op, u, o, x, next) ==
    /\ LET call == [IdleRequest EXCEPT !.op = op, !.user = u, !.order = o, !.reference = x]
       IN  start(r, IF status[o] \in StartsFrom[op]
                    THEN [call EXCEPT !.pc = next]
                    ELSE [call EXCEPT !.pc = "done", !.answer = "refused"])
    /\ UNCHANGED <<tables, crashes>>

\* A faulty variant: nothing but the earlier look keeps references apart.
referenceAlwaysFree(o, x) == TRUE

\* The unique index on transaction_reference.
referenceIsFree(o, x) == \A i \in OrderIds \ {o} : reference[i] # x

\* The checks inside the transaction, and the constraints of the table.
transitionHolds(r) ==
    /\ canTransitionPayment(status[req[r].order], Target[req[r].op])
    /\ req[r].op = "submit" => referenceIsFree(req[r].order, req[r].reference)

\* A faulty variant: the event is written before the status is checked.
transitionAnnouncesFirst(r) ==
    /\ req[r].pc = "write"
    /\ outbox' = outbox \cup (Announces[req[r].op] \X {req[r].order})
    /\ IF transitionHolds(r)
       THEN /\ status' = [status EXCEPT ![req[r].order] = Target[req[r].op]]
            /\ reply(r, req[r].order)
       ELSE refuse(r) /\ UNCHANGED status
    /\ UNCHANGED <<orderStatus, reference, paymentKey, crashes>>

\* The transaction of transition(): the status, what comes with it, the event.
transition(r) ==
    /\ req[r].pc = "write"
    /\ transitionHolds(r)
    /\ status' = [status EXCEPT ![req[r].order] = Target[req[r].op]]
    /\ reference' = IF req[r].op = "submit"
                    THEN [reference EXCEPT ![req[r].order] = req[r].reference]
                    ELSE reference
    /\ outbox' = outbox \cup (Announces[req[r].op] \X {req[r].order})
    /\ IF req[r].op = "submit" THEN goto(r, "event") ELSE reply(r, req[r].order)
    /\ UNCHANGED <<orderStatus, paymentKey, crashes>>

transitionRefused(r) ==
    /\ req[r].pc = "write"
    /\ ~ transitionHolds(r)
    /\ refuse(r)
    /\ UNCHANGED <<tables, crashes>>

\* POST /payments/:id/submit, by the owner: an unlocked look at the status and at
\* the reference, the proof is stored, transition(), and, in a write of its own,
\* the event for the staff who review payments.
submitProof(r, c, o, x) == ownerOf[o] = c /\ looks(r, "submit", c, o, x, "reference")

submitChecksReference(r) ==
    /\ req[r].pc = "reference"
    /\ IF referenceIsFree(req[r].order, req[r].reference) THEN goto(r, "write") ELSE refuse(r)
    /\ UNCHANGED <<tables, crashes>>

submitEnqueuesReview(r) ==
    /\ req[r].pc = "event"
    /\ outbox' = outbox \cup {<<"PAYMENT_REVIEW_REQUIRED", req[r].order>>}
    /\ reply(r, req[r].order)
    /\ UNCHANGED <<orderStatus, status, reference, paymentKey, crashes>>

\* POST /admin/payments/:id/confirm, /reject and /cancel.
decide(r, op, o) == looks(r, op, Staff, o, NoReference, "write")

-----------------------------------------------------------------------------
(* Around the payments.                                                       *)

\* A committed write of orders.status: a cancellation, or the unlocked write of
\* CONFIRMED, which may meet any status.
orderMoves(o, s) ==
    /\ s = "CONFIRMED" \/ canTransition(orderStatus[o], s)
    /\ orderStatus' = [orderStatus EXCEPT ![o] = s]
    /\ UNCHANGED <<status, reference, paymentKey, outbox, req, crashes>>

\* The server stops: the calls under way get no answer, what they committed stays.
crash ==
    /\ crashes < MaxCrashes
    /\ crashes' = crashes + 1
    /\ req' = [r \in Requests |->
                 IF req[r].pc \in {"idle", "done"} THEN req[r]
                 ELSE [req[r] EXCEPT !.pc = "done", !.answer = "lost"]]
    /\ UNCHANGED tables

serve(r) ==
    \/ createReadsOrder(r) \/ createInserts(r) \/ createConflicts(r)
    \/ createLosesKey(r) \/ createAnswersLoser(r)
    \/ submitChecksReference(r) \/ submitEnqueuesReview(r)
    \/ transition(r) \/ transitionRefused(r)

call(r) ==
    \/ \E c \in Customers, k \in Keys, o \in OrderIds : createLooksUpKey(r, c, k, o)
    \/ \E c \in Customers, o \in OrderIds, x \in References : submitProof(r, c, o, x)
    \/ \E op \in Decisions, o \in OrderIds : decide(r, op, o)

Next ==
    \/ \E r \in Requests : call(r) \/ serve(r)
    \/ \E o \in OrderIds, s \in {"CONFIRMED", "CANCELLED"} : orderMoves(o, s)
    \/ crash

Spec == Init /\ [][Next]_vars

-----------------------------------------------------------------------------
(* What must hold.                                                            *)

paid(o) == status[o] # "NONE"

\* Employees race: of the confirmations, rejections and cancellations of one
\* payment at most one is answered with success, and the payment keeps what that
\* one made of it (payments.service.ts:315-327, 484: "row-locked, so a concurrent
\* reject/confirm cannot corrupt the outcome").
DecisionsStand ==
    \A q, r \in Requests :
        req[r].op \in Decisions /\ req[r].answer = "ok" =>
            /\ status[req[r].order] = Target[req[r].op]
            /\ req[q].op \in Decisions /\ req[q].answer = "ok"
                  /\ req[q].order = req[r].order => q = r

\* A payment under review, confirmed or rejected is backed by a reference that no
\* other payment has, though references are compared before the lock is taken; an
\* untouched payment has none (payments.service.ts:409-416, schema.prisma:563).
EvidenceIsItsOwn ==
    \A o \in OrderIds :
        /\ status[o] \in {"NONE", "PENDING"} => reference[o] = NoReference
        /\ status[o] \in {"PENDING_REVIEW", "SUCCEEDED", "FAILED"} => reference[o] # NoReference
        /\ reference[o] # NoReference =>
              \A i \in OrderIds \ {o} : reference[i] # reference[o]

\* What customers are told of a payment is what is in its row: rejected or
\* confirmed, never both; and the staff is asked to review only what was declared
\* (payments.service.ts:332-336, 448-459).
OutboxTellsThePayments ==
    \A o \in OrderIds :
        /\ paid(o) <=> <<"PAYMENT_CREATED", o>> \in outbox
        /\ reference[o] # NoReference <=> <<"PAYMENT_SUBMITTED_FOR_REVIEW", o>> \in outbox
        /\ status[o] = "SUCCEEDED" <=> <<"PAYMENT_CONFIRMED", o>> \in outbox
        /\ status[o] = "FAILED" <=> <<"PAYMENT_REJECTED", o>> \in outbox
        /\ <<"PAYMENT_REVIEW_REQUIRED", o>> \in outbox => reference[o] # NoReference

\* Every payment was created under exactly one key, of the customer whose order it
\* pays, and no key has two payments (README.md:289: concurrent requests make one).
\* A call is never answered with the payment of another order than the one it named
\* (same key, other request: 409).
OneKeyPerPayment ==
    /\ \A o \in OrderIds : paid(o) =>
          \E c \in Customers, k \in Keys :
              /\ paymentKey[c][k] = o
              /\ ownerOf[o] = c
              /\ \A d \in Customers, l \in Keys : paymentKey[d][l] = o => d = c /\ l = k
    /\ \A c \in Customers, k \in Keys : paymentKey[c][k] # NoOrder => paid(paymentKey[c][k])
    /\ \A r \in Requests : req[r].op = "create" /\ req[r].answer = "ok" =>
          /\ req[r].payment = req[r].order
          /\ ownerOf[req[r].order] = req[r].user

\* payments.service.ts implements the promise of IdempotentCreation.
createdUnder == [s \in Customers \X Keys |-> paymentKey[s[1]][s[2]]]
answered ==
    [r \in Requests |->
        IF req[r].op = "create" /\ req[r].answer = "ok"
        THEN <<req[r].user, req[r].key, req[r].payment>> ELSE <<>>]

Promise == INSTANCE IdempotentCreation WITH Resources <- OrderIds, NoResource <- NoOrder
PaymentKeysAreIdempotent == Promise!Spec

-----------------------------------------------------------------------------
(* What the repository says of the program and the code does not keep.        *)

\* payments.service.ts:333: "a committed payment change can never lose its
\* notification": a payment under review that no call is still working on has
\* its event in the staff's queue.
ReviewIsRequested ==
    \A o \in OrderIds :
        status[o] = "PENDING_REVIEW" =>
            \/ <<"PAYMENT_REVIEW_REQUIRED", o>> \in outbox
            \/ \E r \in Requests : req[r].pc = "event" /\ req[r].order = o
=============================================================================
