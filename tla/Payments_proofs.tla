--------------------------- MODULE Payments_proofs ---------------------------
(* Theorems about Payments.                                                   *)
EXTENDS Payments, TLAPS

\* What a call carries, over the statuses st.
callOK(c, st) ==
    /\ c.answer = "none" <=> c.pc # "done"
    /\ c.pc = "idle" <=> c = IdleRequest
    /\ c.pc \in {"order", "tx", "lost"} => c.op = "create"
    /\ c.pc \in {"reference", "event"} => c.op = "submit"
    /\ c.pc = "write" => c.op \in Decisions \cup {"submit"}
    /\ c.pc # "idle" => c.order \in OrderIds
    /\ c.pc \in {"reference", "write", "event"} => st[c.order] # "NONE"
    /\ c.op = "create" => c.user \in Customers /\ c.key \in Keys
    /\ c.op = "submit" => c.reference \in References
    /\ c.answer = "ok" => c.payment \in OrderIds

LEMMA CallsAreOK == CallsOK <=> \A r \in Requests : callOK(req[r], status)
BY DEF CallsOK, callOK

LEMMA IdleRequestType == IdleRequest \in Request /\ callOK(IdleRequest, status)
BY DEF IdleRequest, Request, callOK, Decisions

\* The table of payments only moves to where Target says.
LEMMA StatusesNamed ==
    /\ \A op \in Decisions \cup {"submit"} :
          /\ Target[op] \in PAYMENT_STATUS
          /\ StartsFrom[op] \subseteq PAYMENT_STATUS
          /\ Announces[op] \subseteq PaymentEvents
    /\ {"PENDING", "NONE"} \subseteq PAYMENT_STATUS \cup {"NONE"}
BY DEF Target, StartsFrom, Announces, Decisions, PAYMENT_STATUS, PaymentEvents

-----------------------------------------------------------------------------
(* Type correctness.                                                          *)

TablesOK ==
    /\ orderStatus \in [OrderIds -> ORDER_STATUS]
    /\ status \in [OrderIds -> PAYMENT_STATUS \cup {"NONE"}]
    /\ reference \in [OrderIds -> References \cup {NoReference}]
    /\ paymentKey \in [Customers -> [Keys -> OrderIds \cup {NoOrder}]]
    /\ outbox \subseteq (PaymentEvents \X OrderIds)
    /\ crashes \in 0..MaxCrashes

LEMMA TypeParts ==
    TypeOK <=> /\ TablesOK
               /\ req \in [Requests -> Request]
               /\ \A r \in Requests : callOK(req[r], status)
BY CallsAreOK DEF TypeOK, TablesOK

\* Payments do not go away.
statusesStay == \A o \in OrderIds : status[o] # "NONE" => status'[o] # "NONE"

\* One call moves on to c.
moves(r, c) ==
    /\ c \in Request
    /\ callOK(c, status')
    /\ req' = [req EXCEPT ![r] = c]

LEMMA MovesKeepTypes ==
    ASSUME TypeOK, NEW r \in Requests, NEW c, moves(r, c), statusesStay, TablesOK'
    PROVE  TypeOK'
<1>1. \A q \in Requests \ {r} : req'[q] = req[q] /\ callOK(req'[q], status')
  <2> SUFFICES ASSUME NEW q \in Requests \ {r} PROVE req'[q] = req[q] /\ callOK(req'[q], status')
    OBVIOUS
  <2>1. req'[q] = req[q] /\ callOK(req[q], status)
    BY TypeParts DEF moves
  <2> QED
    BY <2>1 DEF callOK, statusesStay
<1>2. req'[r] = c
  BY TypeParts DEF moves
<1>3. req' \in [Requests -> Request] /\ \A q \in Requests : callOK(req'[q], status')
  BY <1>1, <1>2, TypeParts DEF moves
<1>4. (\A q \in Requests : callOK(req[q], status))'
  BY <1>3
<1> QED
  BY <1>3, <1>4, TypeParts DEF TypeOK, TablesOK, CallsOK, callOK

LEMMA QuietTables ==
    ASSUME TypeOK, UNCHANGED <<tables, crashes>>
    PROVE  TablesOK' /\ statusesStay
BY DEF TypeOK, TablesOK, tables, statusesStay

\* The steps a call under way takes when it is answered or goes on.
LEMMA FinishMoves ==
    ASSUME TypeOK, NEW r \in Requests, req[r].pc # "idle", statusesStay,
           NEW payment \in OrderIds \cup {NoOrder}, NEW answer \in {"ok", "refused"},
           answer = "ok" => payment \in OrderIds,
           finish(r, payment, answer)
    PROVE  moves(r, [req[r] EXCEPT !.pc = "done", !.payment = payment, !.answer = answer])
<1>1. req[r] \in Request /\ callOK(req[r], status)
  BY TypeParts
<1> DEFINE c == [req[r] EXCEPT !.pc = "done", !.payment = payment, !.answer = answer]
<1>2. c \in Request
  BY <1>1 DEF Request
<1>3. callOK(c, status')
  BY <1>1 DEF callOK, Request, IdleRequest
<1> QED
  BY <1>2, <1>3 DEF moves, finish

LEMMA GotoMoves ==
    ASSUME TypeOK, NEW r \in Requests, statusesStay,
           \/ req[r].pc = "order" /\ goto(r, "tx")
           \/ req[r].pc = "tx" /\ goto(r, "lost")
           \/ req[r].pc = "reference" /\ goto(r, "write")
           \/ req[r].pc = "write" /\ goto(r, "event") /\ req[r].op = "submit"
    PROVE  \E pc \in {"tx", "lost", "write", "event"} : moves(r, [req[r] EXCEPT !.pc = pc])
<1>1. req[r] \in Request /\ callOK(req[r], status)
  BY TypeParts
<1>2. \A pc \in {"tx", "lost", "write", "event"} : [req[r] EXCEPT !.pc = pc] \in Request
  BY <1>1 DEF Request
<1>3. PICK pc \in {"tx", "lost", "write", "event"} :
         /\ goto(r, pc)
         /\ \/ req[r].pc = "order" /\ pc = "tx"
            \/ req[r].pc = "tx" /\ pc = "lost"
            \/ req[r].pc = "reference" /\ pc = "write"
            \/ req[r].pc = "write" /\ pc = "event" /\ req[r].op = "submit"
  OBVIOUS
<1>4. callOK([req[r] EXCEPT !.pc = pc], status')
  BY <1>1, <1>3 DEF callOK, Request, IdleRequest, statusesStay
<1> QED
  BY <1>2, <1>3, <1>4 DEF moves, goto

LEMMA StartMoves ==
    ASSUME TypeOK, NEW r \in Requests, NEW c \in Request, start(r, c), callOK(c, status')
    PROVE  moves(r, c)
BY DEF start, moves

LEMMA LookMoves ==
    ASSUME TypeOK, NEW r \in Requests, NEW op \in Decisions \cup {"submit"},
           NEW u \in Customers \cup {Staff}, NEW o \in OrderIds,
           NEW x \in References \cup {NoReference}, op = "submit" => x \in References,
           NEW next \in {"reference", "write"}, next = "reference" => op = "submit",
           looks(r, op, u, o, x, next)
    PROVE  /\ \E c : moves(r, c) /\ c.op = op /\ c.order = o /\ c.answer \in {"none", "refused"}
                                   /\ c.pc \in {next, "done"}
           /\ UNCHANGED <<tables, crashes>>
<1> DEFINE made == [IdleRequest EXCEPT !.op = op, !.user = u, !.order = o, !.reference = x]
           c == IF status[o] \in StartsFrom[op] THEN [made EXCEPT !.pc = next]
                ELSE [made EXCEPT !.pc = "done", !.answer = "refused"]
<1>1. c \in Request
  BY DEF IdleRequest, Request, Decisions
<1>2. status[o] \in StartsFrom[op] => status[o] # "NONE"
  BY StatusesNamed DEF PAYMENT_STATUS
<1>3. callOK(c, status)
  BY <1>2 DEF callOK, IdleRequest, Decisions
<1>4. start(r, c) /\ UNCHANGED <<tables, crashes>>
  BY DEF looks
<1>5. moves(r, c)
  BY <1>1, <1>3, <1>4 DEF moves, start, tables
<1>6. c.op = op /\ c.order = o /\ c.answer \in {"none", "refused"} /\ c.pc \in {next, "done"}
  BY DEF IdleRequest
<1> QED
  BY <1>4, <1>5, <1>6

LEMMA CreateMoves ==
    ASSUME TypeOK, NEW r \in Requests, NEW c \in Customers, NEW k \in Keys, NEW o \in OrderIds,
           createLooksUpKey(r, c, k, o)
    PROVE  /\ \E d : /\ moves(r, d)
                      /\ d.op = "create" /\ d.user = c /\ d.key = k /\ d.order = o
                      /\ \/ d.pc = "order" /\ d.answer = "none"
                         \/ d.pc = "done" /\ d.answer = "refused"
                         \/ /\ d.pc = "done" /\ d.answer = "ok"
                            /\ d.payment = o /\ paymentKey[c][k] = o
           /\ UNCHANGED <<tables, crashes>>
<1> DEFINE made == [IdleRequest EXCEPT !.op = "create", !.user = c, !.key = k, !.order = o]
           row == paymentKey[c][k]
           d == IF row = NoOrder THEN [made EXCEPT !.pc = "order"]
                ELSE IF row = o THEN [made EXCEPT !.pc = "done", !.payment = row, !.answer = "ok"]
                ELSE [made EXCEPT !.pc = "done", !.answer = "refused"]
<1>1. row \in OrderIds \cup {NoOrder}
  BY DEF TypeOK
<1>2. d \in Request
  BY <1>1 DEF IdleRequest, Request
<1>3. callOK(d, status)
  BY DEF callOK, IdleRequest, Decisions
<1>4. start(r, d) /\ UNCHANGED <<tables, crashes>>
  BY DEF createLooksUpKey
<1>5. moves(r, d)
  BY <1>2, <1>3, <1>4 DEF moves, start, tables
<1>6. /\ d.op = "create" /\ d.user = c /\ d.key = k /\ d.order = o
      /\ \/ d.pc = "order" /\ d.answer = "none"
         \/ d.pc = "done" /\ d.answer = "refused"
         \/ d.pc = "done" /\ d.answer = "ok" /\ d.payment = o /\ row = o
  BY DEF IdleRequest
<1> QED
  BY <1>4, <1>5, <1>6

LEMMA InsertMoves ==
    ASSUME TypeOK, NEW r \in Requests, createInserts(r)
    PROVE  /\ moves(r, [req[r] EXCEPT !.pc = "done", !.payment = req[r].order, !.answer = "ok"])
           /\ statusesStay
           /\ TablesOK'
<1>1. req[r] \in Request /\ callOK(req[r], status) /\ req[r].pc = "tx"
  BY TypeParts DEF createInserts
<1>2. req[r].order \in OrderIds /\ req[r].user \in Customers /\ req[r].key \in Keys
  BY <1>1 DEF callOK
<1>3. statusesStay
  BY <1>2 DEF createInserts, statusesStay, TypeOK
<1>4. TablesOK'
  <2>1. status' \in [OrderIds -> PAYMENT_STATUS \cup {"NONE"}]
    BY StatusesNamed DEF createInserts, TypeOK
  <2>2. paymentKey' \in [Customers -> [Keys -> OrderIds \cup {NoOrder}]]
    BY <1>2 DEF createInserts, TypeOK
  <2>3. outbox' \subseteq (PaymentEvents \X OrderIds)
    BY <1>2 DEF createInserts, TypeOK, PaymentEvents
  <2> QED
    BY <2>1, <2>2, <2>3 DEF createInserts, TypeOK, TablesOK
<1> QED
  BY <1>1, <1>2, <1>3, <1>4, FinishMoves DEF createInserts, reply

LEMMA TransitionMoves ==
    ASSUME TypeOK, NEW r \in Requests, transition(r)
    PROVE  /\ \/ /\ req[r].op = "submit"
                 /\ moves(r, [req[r] EXCEPT !.pc = "event"])
              \/ /\ req[r].op \in Decisions
                 /\ moves(r, [req[r] EXCEPT !.pc = "done", !.payment = req[r].order, !.answer = "ok"])
           /\ statusesStay
           /\ TablesOK'
<1>1. req[r] \in Request /\ callOK(req[r], status) /\ req[r].pc = "write"
  BY TypeParts DEF transition
<1>2. /\ req[r].order \in OrderIds
      /\ req[r].op \in Decisions \cup {"submit"}
      /\ req[r].op = "submit" => req[r].reference \in References
  BY <1>1 DEF callOK
<1>3. Target[req[r].op] \in PAYMENT_STATUS /\ Announces[req[r].op] \subseteq PaymentEvents
  BY <1>2, StatusesNamed
<1>4. statusesStay
  <2>1. Target[req[r].op] # "NONE"
    BY <1>3 DEF PAYMENT_STATUS
  <2> QED
    BY <1>2, <2>1 DEF transition, statusesStay, TypeOK
<1>5. TablesOK'
  <2>1. status' \in [OrderIds -> PAYMENT_STATUS \cup {"NONE"}]
    BY <1>3 DEF transition, TypeOK
  <2>2. reference' \in [OrderIds -> References \cup {NoReference}]
    BY <1>2 DEF transition, TypeOK
  <2>3. outbox' \subseteq (PaymentEvents \X OrderIds)
    BY <1>2, <1>3 DEF transition, TypeOK
  <2> QED
    BY <2>1, <2>2, <2>3 DEF transition, TypeOK, TablesOK
<1>6. CASE req[r].op = "submit"
  <2>1. goto(r, "event")
    BY <1>6 DEF transition
  <2>2. req[r] \in Request /\ [req[r] EXCEPT !.pc = "event"] \in Request
    BY <1>1 DEF Request
  <2>3. callOK([req[r] EXCEPT !.pc = "event"], status')
    BY <1>1, <1>2, <1>4, <1>6 DEF callOK, Request, IdleRequest, statusesStay
  <2> QED
    BY <1>4, <1>5, <1>6, <2>1, <2>2, <2>3 DEF moves, goto
<1>7. CASE req[r].op \in Decisions
  <2>1. reply(r, req[r].order)
    BY <1>7 DEF transition, Decisions
  <2> QED
    BY <1>1, <1>2, <1>4, <1>5, <1>7, <2>1, FinishMoves DEF reply
<1> QED
  BY <1>2, <1>6, <1>7

LEMMA ReviewMoves ==
    ASSUME TypeOK, NEW r \in Requests, submitEnqueuesReview(r)
    PROVE  /\ moves(r, [req[r] EXCEPT !.pc = "done", !.payment = req[r].order, !.answer = "ok"])
           /\ statusesStay
           /\ TablesOK'
<1>1. req[r] \in Request /\ callOK(req[r], status) /\ req[r].pc = "event"
  BY TypeParts DEF submitEnqueuesReview
<1>2. req[r].order \in OrderIds
  BY <1>1 DEF callOK
<1>3. statusesStay
  BY DEF submitEnqueuesReview, statusesStay
<1>4. TablesOK'
  BY <1>2 DEF submitEnqueuesReview, TypeOK, TablesOK, PaymentEvents
<1> QED
  BY <1>1, <1>2, <1>3, <1>4, FinishMoves DEF submitEnqueuesReview, reply

\* The steps that leave the tables alone: the call is answered with a payment, refused,
\* or goes on.
LEMMA QuietMoves ==
    ASSUME TypeOK, NEW r \in Requests,
           \/ createReadsOrder(r) \/ createConflicts(r) \/ createLosesKey(r)
           \/ createAnswersLoser(r) \/ submitChecksReference(r) \/ transitionRefused(r)
    PROVE  /\ UNCHANGED <<tables, crashes>>
           /\ \/ /\ req[r].pc = "order"
                 /\ ownerOf[req[r].order] = req[r].user
                 /\ moves(r, [req[r] EXCEPT !.pc = "tx"])
              \/ req[r].pc = "tx" /\ moves(r, [req[r] EXCEPT !.pc = "lost"])
              \/ req[r].pc = "reference" /\ moves(r, [req[r] EXCEPT !.pc = "write"])
              \/ /\ req[r].pc \notin {"idle", "done"}
                 /\ moves(r, [req[r] EXCEPT !.pc = "done", !.payment = NoOrder, !.answer = "refused"])
              \/ /\ req[r].pc = "lost"
                 /\ known(r) = req[r].order
                 /\ moves(r, [req[r] EXCEPT !.pc = "done", !.payment = known(r), !.answer = "ok"])
<1>0. UNCHANGED <<tables, crashes>>
  BY DEF createReadsOrder, createConflicts, createLosesKey, createAnswersLoser,
         submitChecksReference, transitionRefused
<1>1. statusesStay /\ status' = status
  BY <1>0 DEF statusesStay, tables
<1>2. req[r] \in Request /\ callOK(req[r], status)
  BY TypeParts
<1>3. ASSUME refuse(r), req[r].pc \notin {"idle", "done"}
      PROVE  moves(r, [req[r] EXCEPT !.pc = "done", !.payment = NoOrder, !.answer = "refused"])
  BY <1>1, <1>3, FinishMoves DEF refuse
<1>4. ASSUME NEW pc \in {"tx", "lost", "write"}, goto(r, pc),
             <<req[r].pc, pc>> \in {<<"order", "tx">>, <<"tx", "lost">>, <<"reference", "write">>}
      PROVE  moves(r, [req[r] EXCEPT !.pc = pc])
  <2>1. [req[r] EXCEPT !.pc = pc] \in Request
    BY <1>2 DEF Request
  <2>2. callOK([req[r] EXCEPT !.pc = pc], status')
    BY <1>1, <1>2, <1>4 DEF callOK, Request, IdleRequest
  <2> QED
    BY <1>4, <2>1, <2>2 DEF moves, goto
<1>5. CASE createReadsOrder(r)
  BY <1>0, <1>3, <1>4, <1>5 DEF createReadsOrder
<1>6. CASE createConflicts(r) \/ transitionRefused(r)
  BY <1>0, <1>3, <1>6 DEF createConflicts, transitionRefused
<1>7. CASE createLosesKey(r)
  BY <1>0, <1>4, <1>7 DEF createLosesKey
<1>8. CASE submitChecksReference(r)
  BY <1>0, <1>3, <1>4, <1>8 DEF submitChecksReference
<1>9. CASE createAnswersLoser(r)
  <2>1. CASE known(r) = req[r].order
    <3>1. req[r].pc = "lost" /\ req[r].order \in OrderIds /\ reply(r, known(r))
      BY <1>2, <1>9, <2>1 DEF createAnswersLoser, callOK
    <3>2. moves(r, [req[r] EXCEPT !.pc = "done", !.payment = known(r), !.answer = "ok"])
      BY <1>1, <2>1, <3>1, FinishMoves DEF reply
    <3> QED
      BY <1>0, <2>1, <3>1, <3>2
  <2>2. CASE known(r) # req[r].order
    BY <1>0, <1>3, <1>9, <2>2 DEF createAnswersLoser
  <2> QED
    BY <2>1, <2>2
<1> QED
  BY <1>5, <1>6, <1>7, <1>8, <1>9

LEMMA CrashMoves ==
    ASSUME TypeOK, crash
    PROVE  /\ TypeOK'
           /\ \A q \in Requests :
                 \/ req'[q] = req[q]
                 \/ /\ req[q].pc \notin {"idle", "done"}
                    /\ req'[q] = [req[q] EXCEPT !.pc = "done", !.answer = "lost"]
<1>1. \A q \in Requests :
         \/ req'[q] = req[q]
         \/ /\ req[q].pc \notin {"idle", "done"}
            /\ req'[q] = [req[q] EXCEPT !.pc = "done", !.answer = "lost"]
  BY DEF crash
<1>2. \A q \in Requests : req[q] \in Request /\ callOK(req[q], status)
  BY TypeParts
<1>3. \A q \in Requests : req'[q] \in Request /\ callOK(req'[q], status')
  <2> SUFFICES ASSUME NEW q \in Requests PROVE req'[q] \in Request /\ callOK(req'[q], status')
    OBVIOUS
  <2> DEFINE c == [req[q] EXCEPT !.pc = "done", !.answer = "lost"]
  <2>1. req[q] \in Request /\ callOK(req[q], status) /\ status' = status
    BY <1>2 DEF crash, tables
  <2>2. c \in Request
    BY <2>1 DEF Request
  <2>3. req[q].pc # "idle" => callOK(c, status)
    BY <2>1 DEF callOK, Request, IdleRequest
  <2> QED
    BY <1>1, <2>1, <2>2, <2>3
<1>4. TablesOK'
  <2>1. crashes' \in 0..MaxCrashes
    <3>1. crashes \in 0..MaxCrashes /\ MaxCrashes \in Nat
      BY PaymentsAssumption DEF TypeOK
    <3>2. crashes < MaxCrashes /\ crashes' = crashes + 1
      BY DEF crash
    <3> QED
      BY <3>1, <3>2
  <2> QED
    BY <2>1 DEF crash, tables, TypeOK, TablesOK
<1>5. req' \in [Requests -> Request]
  BY <1>3 DEF crash
<1>6. TypeOK'
  BY <1>3, <1>4, <1>5, TypeParts DEF TypeOK, TablesOK, CallsOK, callOK
<1> QED
  BY <1>1, <1>6

LEMMA InitTypeOK == Init => TypeOK
<1> SUFFICES ASSUME Init PROVE TypeOK
  OBVIOUS
<1>1. TablesOK
  BY PaymentsAssumption, StatusesNamed DEF Init, TablesOK
<1>2. req \in [Requests -> Request] /\ \A r \in Requests : callOK(req[r], status)
  BY IdleRequestType DEF Init
<1> QED
  BY <1>1, <1>2, TypeParts

\* Whatever a call does, it moves on, and the tables keep their types.
LEMMA CallStepMoves ==
    ASSUME TypeOK, NEW r \in Requests, call(r) \/ serve(r)
    PROVE  (\E c : moves(r, c)) /\ statusesStay /\ TablesOK'
<1>1. CASE call(r)
  <2>1. ASSUME NEW c \in Customers, NEW k \in Keys, NEW o \in OrderIds, createLooksUpKey(r, c, k, o)
        PROVE  (\E d : moves(r, d)) /\ UNCHANGED <<tables, crashes>>
    BY <2>1, CreateMoves
  <2>2. ASSUME NEW c \in Customers, NEW o \in OrderIds, NEW x \in References, submitProof(r, c, o, x)
        PROVE  (\E d : moves(r, d)) /\ UNCHANGED <<tables, crashes>>
    BY <2>2, LookMoves DEF submitProof
  <2>3. ASSUME NEW op \in Decisions, NEW o \in OrderIds, decide(r, op, o)
        PROVE  (\E d : moves(r, d)) /\ UNCHANGED <<tables, crashes>>
    <3>1. op # "submit"
      BY DEF Decisions
    <3> QED
      BY <2>3, <3>1, LookMoves DEF decide
  <2>4. (\E d : moves(r, d)) /\ UNCHANGED <<tables, crashes>>
    BY <1>1, <2>1, <2>2, <2>3 DEF call
  <2> QED
    BY <2>4, QuietTables
<1>2. CASE serve(r)
  <2>1. CASE createInserts(r) \/ transition(r) \/ submitEnqueuesReview(r)
    BY <2>1, InsertMoves, TransitionMoves, ReviewMoves
  <2>2. CASE \/ createReadsOrder(r) \/ createConflicts(r) \/ createLosesKey(r)
             \/ createAnswersLoser(r) \/ submitChecksReference(r) \/ transitionRefused(r)
    BY <2>2, QuietMoves, QuietTables
  <2> QED
    BY <1>2, <2>1, <2>2 DEF serve
<1> QED
  BY <1>1, <1>2

LEMMA OrderMovesType ==
    ASSUME TypeOK, NEW o \in OrderIds, NEW s \in {"CONFIRMED", "CANCELLED"}, orderMoves(o, s)
    PROVE  TypeOK'
<1>1. TablesOK'
  BY DEF orderMoves, TypeOK, TablesOK, ORDER_STATUS
<1>2. UNCHANGED <<status, req>>
  BY DEF orderMoves
<1> QED
  BY <1>1, <1>2, TypeParts DEF TypeOK, TablesOK, CallsOK

LEMMA StepTypeOK == TypeOK /\ [Next]_vars => TypeOK'
<1> SUFFICES ASSUME TypeOK, [Next]_vars PROVE TypeOK'
  OBVIOUS
<1>1. ASSUME NEW r \in Requests, call(r) \/ serve(r) PROVE TypeOK'
  BY <1>1, CallStepMoves, MovesKeepTypes
<1>2. CASE UNCHANGED vars
  BY <1>2 DEF vars, TypeOK, CallsOK
<1> QED
  BY <1>1, <1>2, OrderMovesType, CrashMoves DEF Next

\* Every table keeps its type, and a call carries what its place in the handler
\* needs (payments.service.ts:84-345).
THEOREM TypeCorrect == Spec => []TypeOK
BY InitTypeOK, StepTypeOK, PTL DEF Spec

-----------------------------------------------------------------------------
(* Evidence: the statuses and the references of payments.                      *)

\* With no provider registered nothing is ever PROCESSING, from where a payment
\* would be confirmed without a reference.
StatusOK ==
    /\ EvidenceIsItsOwn
    /\ \A o \in OrderIds : status[o] # "PROCESSING"

LEMMA TransitionChanges ==
    ASSUME TypeOK, StatusOK, NEW r \in Requests, transition(r)
    PROVE  LET o == req[r].order
           IN  /\ o \in OrderIds
               /\ status' = [status EXCEPT ![o] = Target[req[r].op]]
               /\ \/ /\ req[r].op = "submit"
                     /\ status[o] = "PENDING"
                     /\ req[r].reference \in References
                     /\ referenceIsFree(o, req[r].reference)
                     /\ reference' = [reference EXCEPT ![o] = req[r].reference]
                  \/ /\ req[r].op \in {"confirm", "reject"}
                     /\ status[o] = "PENDING_REVIEW"
                     /\ reference' = reference
                  \/ /\ req[r].op = "cancel"
                     /\ status[o] \in {"PENDING", "PENDING_REVIEW"}
                     /\ reference' = reference
<1> DEFINE o == req[r].order
<1>1. /\ o \in OrderIds
      /\ req[r].op \in {"submit", "confirm", "reject", "cancel"}
      /\ req[r].op = "submit" => req[r].reference \in References
  BY TypeParts DEF transition, callOK, Decisions
<1>2. status[o] \in PAYMENT_STATUS
  BY <1>1, TypeParts DEF transition, callOK, TypeOK
<1>3. canTransitionPayment(status[o], Target[req[r].op])
  BY DEF transition, transitionHolds
<1>4. /\ req[r].op = "submit" => status[o] = "PENDING"
      /\ req[r].op \in {"confirm", "reject"} => status[o] \in {"PENDING_REVIEW", "PROCESSING"}
      /\ req[r].op = "cancel" => status[o] \in {"PENDING", "PENDING_REVIEW", "PROCESSING"}
  BY <1>1, <1>2, <1>3 DEF canTransitionPayment, PAYMENT_TRANSITIONS, PAYMENT_STATUS, Target
<1>5. status[o] # "PROCESSING"
  BY <1>1 DEF StatusOK
<1>6. status' = [status EXCEPT ![o] = Target[req[r].op]]
  BY DEF transition
<1>7. CASE req[r].op = "submit"
  BY <1>1, <1>4, <1>6, <1>7 DEF transition, transitionHolds
<1>8. CASE req[r].op # "submit"
  BY <1>1, <1>4, <1>5, <1>6, <1>8 DEF transition
<1> QED
  BY <1>7, <1>8

LEMMA TransitionKeepsStatus ==
    ASSUME TypeOK, StatusOK, NEW r \in Requests, transition(r)
    PROVE  StatusOK'
<1> DEFINE o == req[r].order
           op == req[r].op
<1>1. /\ o \in OrderIds
      /\ status' = [status EXCEPT ![o] = Target[op]]
      /\ op \in {"submit", "confirm", "reject", "cancel"}
  BY TransitionChanges
<1>2. /\ status \in [OrderIds -> PAYMENT_STATUS \cup {"NONE"}]
      /\ reference \in [OrderIds -> References \cup {NoReference}]
      /\ NoReference \notin References
  BY PaymentsAssumption DEF TypeOK
<1>3. status'[o] = Target[op] /\ \A i \in OrderIds \ {o} : status'[i] = status[i]
  BY <1>1, <1>2
<1>4. \A i \in OrderIds : status'[i] # "PROCESSING"
  BY <1>1, <1>3 DEF StatusOK, Target
<1>5. CASE op = "submit"
  <2> DEFINE x == req[r].reference
  <2>1. /\ status[o] = "PENDING" /\ x \in References /\ \A i \in OrderIds \ {o} : reference[i] # x
        /\ reference' = [reference EXCEPT ![o] = x]
    BY <1>5, TransitionChanges DEF referenceIsFree
  <2>2. reference'[o] = x /\ \A i \in OrderIds \ {o} : reference'[i] = reference[i]
    BY <1>1, <1>2, <2>1
  <2>3. status'[o] = "PENDING_REVIEW"
    BY <1>3, <1>5 DEF Target
  <2> QED
    BY <1>1, <1>2, <1>3, <1>4, <2>1, <2>2, <2>3 DEF StatusOK, EvidenceIsItsOwn
<1>6. CASE op # "submit"
  <2>1. /\ reference' = reference
        /\ \/ status[o] = "PENDING_REVIEW"
           \/ op = "cancel"
    BY <1>6, TransitionChanges
  <2>2. status'[o] \in {"SUCCEEDED", "FAILED", "CANCELLED"} /\ (op = "cancel" => status'[o] = "CANCELLED")
    BY <1>1, <1>3, <1>6 DEF Target
  <2> QED
    BY <1>1, <1>2, <1>3, <1>4, <2>1, <2>2 DEF StatusOK, EvidenceIsItsOwn
<1> QED
  BY <1>5, <1>6

\* All other steps but the creation of a payment leave the two columns alone.
LEMMA ColumnsStay ==
    ASSUME TypeOK, [Next]_vars, ~ \E r \in Requests : createInserts(r) \/ transition(r)
    PROVE  UNCHANGED <<status, reference>>
<1>1. ASSUME NEW r \in Requests, call(r) PROVE UNCHANGED <<status, reference>>
  BY <1>1 DEF call, createLooksUpKey, submitProof, decide, looks, tables
<1>2. ASSUME NEW r \in Requests, serve(r) PROVE UNCHANGED <<status, reference>>
  <2>1. CASE submitEnqueuesReview(r)
    BY <2>1 DEF submitEnqueuesReview
  <2>2. CASE ~ submitEnqueuesReview(r)
    BY <1>2, <2>2, QuietMoves DEF serve, tables
  <2> QED
    BY <2>1, <2>2
<1> QED
  BY <1>1, <1>2 DEF Next, vars, orderMoves, crash, tables

LEMMA InsertKeepsStatus ==
    ASSUME TypeOK, StatusOK, NEW r \in Requests, createInserts(r)
    PROVE  StatusOK'
<1> DEFINE o == req[r].order
<1>1. /\ o \in OrderIds /\ status[o] = "NONE" /\ reference' = reference
      /\ status' = [status EXCEPT ![o] = "PENDING"]
  BY TypeParts DEF createInserts, callOK
<1>2. status'[o] = "PENDING" /\ \A i \in OrderIds \ {o} : status'[i] = status[i]
  BY <1>1 DEF TypeOK
<1> QED
  BY <1>1, <1>2 DEF StatusOK, EvidenceIsItsOwn

LEMMA StepStatusOK == TypeOK /\ StatusOK /\ [Next]_vars => StatusOK'
<1> SUFFICES ASSUME TypeOK, StatusOK, [Next]_vars PROVE StatusOK'
  OBVIOUS
<1>1. CASE \E r \in Requests : createInserts(r) \/ transition(r)
  BY <1>1, InsertKeepsStatus, TransitionKeepsStatus
<1>2. CASE ~ \E r \in Requests : createInserts(r) \/ transition(r)
  BY <1>2, ColumnsStay DEF StatusOK, EvidenceIsItsOwn
<1> QED
  BY <1>1, <1>2

LEMMA InitStatusOK == Init => StatusOK
BY DEF Init, StatusOK, EvidenceIsItsOwn

\* Statuses agree with the evidence behind them, and no payment is ever in PROCESSING:
\* the registry of providers is empty (payments.service.ts:409-416).
THEOREM StatusesAgree == Spec => []StatusOK
<1>1. Init => StatusOK
  BY InitStatusOK
<1>2. TypeOK /\ StatusOK /\ [Next]_vars => StatusOK'
  BY StepStatusOK
<1> QED
  BY <1>1, <1>2, TypeCorrect, PTL DEF Spec

\* A payment under review, confirmed or rejected is backed by a reference no other
\* payment has (payments.service.ts:409-416).
THEOREM EvidenceStands == Spec => []EvidenceIsItsOwn
<1>1. StatusOK => EvidenceIsItsOwn
  BY DEF StatusOK
<1> QED
  BY <1>1, StatusesAgree, PTL

-----------------------------------------------------------------------------
(* What a step is to the calls: it is one of these.                           *)

\* Call r becomes c and no table changes; if it is answered with a payment, that is
\* the one its key stands for.
quiet(r, c) ==
    /\ moves(r, c)
    /\ UNCHANGED <<tables, crashes>>
    /\ req[r].pc # "done"
    /\ c.pc # "event"
    /\ c.pc = "tx" => ownerOf[c.order] = c.user
    /\ c.answer = "ok" =>
          c.op = "create" /\ c.payment = c.order /\ paymentKey[c.user][c.key] = c.order

LEMMA QuietSteps ==
    ASSUME TypeOK, NEW r \in Requests, call(r) \/ serve(r),
           ~ createInserts(r), ~ transition(r), ~ submitEnqueuesReview(r)
    PROVE  \E c : quiet(r, c)
<1>0. req[r] \in Request /\ callOK(req[r], status)
  BY TypeParts
<1>1. ASSUME NEW c \in Customers, NEW k \in Keys, NEW o \in OrderIds, createLooksUpKey(r, c, k, o)
      PROVE  \E d : quiet(r, d)
  <2>1. req[r].pc = "idle"
    BY <1>1 DEF createLooksUpKey, start
  <2> QED
    BY <1>1, <2>1, CreateMoves DEF quiet
<1>2. ASSUME NEW c \in Customers, NEW o \in OrderIds, NEW x \in References, submitProof(r, c, o, x)
      PROVE  \E d : quiet(r, d)
  <2>1. req[r].pc = "idle"
    BY <1>2 DEF submitProof, looks, start
  <2> QED
    BY <1>2, <2>1, LookMoves DEF submitProof, quiet
<1>3. ASSUME NEW op \in Decisions, NEW o \in OrderIds, decide(r, op, o)
      PROVE  \E d : quiet(r, d)
  <2>1. req[r].pc = "idle" /\ op # "submit"
    BY <1>3 DEF decide, looks, start, Decisions
  <2> QED
    BY <1>3, <2>1, LookMoves DEF decide, quiet
<1>4. CASE \/ createReadsOrder(r) \/ createConflicts(r) \/ createLosesKey(r)
           \/ createAnswersLoser(r) \/ submitChecksReference(r) \/ transitionRefused(r)
  <2>1. UNCHANGED <<tables, crashes>> /\ req[r].answer \in {"none", "ok", "refused", "lost"}
    BY <1>0, <1>4, QuietMoves DEF Request
  <2>2. ASSUME NEW pc \in {"tx", "lost", "write"}, moves(r, [req[r] EXCEPT !.pc = pc]),
               req[r].pc \notin {"idle", "done"},
               pc = "tx" => ownerOf[req[r].order] = req[r].user
        PROVE  quiet(r, [req[r] EXCEPT !.pc = pc])
    <3> DEFINE c == [req[r] EXCEPT !.pc = pc]
    <3>1. c.pc = pc /\ c.order = req[r].order /\ c.user = req[r].user /\ c.answer = req[r].answer
      BY <1>0 DEF Request
    <3>2. c.answer = "none"
      BY <1>0, <2>2, <3>1 DEF callOK
    <3> QED
      BY <2>1, <2>2, <3>1, <3>2 DEF quiet
  <2>3. ASSUME moves(r, [req[r] EXCEPT !.pc = "done", !.payment = NoOrder, !.answer = "refused"]),
               req[r].pc # "done"
        PROVE  \E c : quiet(r, c)
    <3> DEFINE c == [req[r] EXCEPT !.pc = "done", !.payment = NoOrder, !.answer = "refused"]
    <3>1. c.pc = "done" /\ c.answer = "refused"
      BY <1>0 DEF Request
    <3> QED
      BY <2>1, <2>3, <3>1 DEF quiet
  <2>4. ASSUME moves(r, [req[r] EXCEPT !.pc = "done", !.payment = known(r), !.answer = "ok"]),
               req[r].pc = "lost", known(r) = req[r].order
        PROVE  \E c : quiet(r, c)
    <3> DEFINE c == [req[r] EXCEPT !.pc = "done", !.payment = known(r), !.answer = "ok"]
    <3>1. /\ c.pc = "done" /\ c.op = req[r].op /\ c.payment = known(r) /\ c.order = req[r].order
          /\ c.user = req[r].user /\ c.key = req[r].key
      BY <1>0 DEF Request
    <3>2. req[r].op = "create"
      BY <1>0, <2>4 DEF callOK
    <3>3. c.payment = c.order /\ paymentKey[c.user][c.key] = c.order
      BY <2>4, <3>1 DEF known
    <3>4. moves(r, c) /\ c.pc = "done" /\ c.op = "create"
      BY <2>4, <3>1, <3>2
    <3> HIDE DEF c
    <3>5. quiet(r, c)
      BY <2>1, <2>4, <3>3, <3>4 DEF quiet
    <3> QED
      BY <3>5
  <2> QED
    BY <1>4, <2>2, <2>3, <2>4, QuietMoves
<1> QED
  BY <1>1, <1>2, <1>3, <1>4 DEF call, serve

\* A call that moves is alone.
LEMMA MovesAlone ==
    ASSUME TypeOK, NEW r \in Requests, NEW c, moves(r, c)
    PROVE  req'[r] = c /\ \A q \in Requests \ {r} : req'[q] = req[q]
BY DEF moves, TypeOK

\* The calls after an insert, a transition and the event for the staff.
LEMMA InsertAnswers ==
    ASSUME TypeOK, NEW r \in Requests, createInserts(r)
    PROVE  /\ req'[r] = [req[r] EXCEPT !.pc = "done", !.payment = req[r].order, !.answer = "ok"]
           /\ req'[r].pc = "done" /\ req'[r].op = "create" /\ req'[r].answer = "ok"
           /\ req'[r].payment = req[r].order
           /\ req'[r].order = req[r].order /\ req'[r].user = req[r].user /\ req'[r].key = req[r].key
           /\ \A q \in Requests \ {r} : req'[q] = req[q]
<1>1. req[r] \in Request /\ req[r].op = "create"
  BY TypeParts DEF createInserts, callOK
<1>2. /\ req'[r] = [req[r] EXCEPT !.pc = "done", !.payment = req[r].order, !.answer = "ok"]
      /\ \A q \in Requests \ {r} : req'[q] = req[q]
  BY InsertMoves, MovesAlone
<1> QED
  BY <1>1, <1>2 DEF Request

LEMMA TransitionAnswers ==
    ASSUME TypeOK, NEW r \in Requests, transition(r)
    PROVE  /\ req'[r].op = req[r].op /\ req'[r].order = req[r].order
           /\ \/ req[r].op = "submit" /\ req'[r].pc = "event" /\ req'[r].answer = "none"
              \/ req[r].op \in Decisions /\ req'[r].pc = "done" /\ req'[r].answer = "ok"
           /\ \A q \in Requests \ {r} : req'[q] = req[q]
<1>1. req[r] \in Request /\ req[r].answer = "none"
  BY TypeParts DEF transition, callOK
<1>2. /\ \/ /\ req[r].op = "submit"
            /\ req'[r] = [req[r] EXCEPT !.pc = "event"]
         \/ /\ req[r].op \in Decisions
            /\ req'[r] = [req[r] EXCEPT !.pc = "done", !.payment = req[r].order, !.answer = "ok"]
      /\ \A q \in Requests \ {r} : req'[q] = req[q]
  BY TransitionMoves, MovesAlone
<1> QED
  BY <1>1, <1>2 DEF Request

LEMMA ReviewAnswers ==
    ASSUME TypeOK, NEW r \in Requests, submitEnqueuesReview(r)
    PROVE  /\ req'[r].op = "submit" /\ req'[r].pc = "done"
           /\ \A q \in Requests \ {r} : req'[q] = req[q]
<1>1. req[r] \in Request /\ req[r].op = "submit"
  BY TypeParts DEF submitEnqueuesReview, callOK
<1>2. /\ req'[r] = [req[r] EXCEPT !.pc = "done", !.payment = req[r].order, !.answer = "ok"]
      /\ \A q \in Requests \ {r} : req'[q] = req[q]
  BY ReviewMoves, MovesAlone
<1> QED
  BY <1>1, <1>2 DEF Request

\* What becomes of a call that a crash cuts short.
LEMMA CrashAnswers ==
    ASSUME TypeOK, crash, NEW q \in Requests, req'[q] # req[q]
    PROVE  /\ req'[q].pc = "done" /\ req'[q].answer = "lost"
           /\ req[q].answer = "none"
<1>1. req[q] \in Request /\ callOK(req[q], status)
  BY TypeParts
<1>2. req[q].pc \notin {"idle", "done"} /\ req'[q] = [req[q] EXCEPT !.pc = "done", !.answer = "lost"]
  BY CrashMoves
<1> QED
  BY <1>1, <1>2 DEF callOK, Request

\* Every step is of one of these kinds.
LEMMA StepKinds ==
    ASSUME TypeOK, [Next]_vars
    PROVE  \/ \E r \in Requests : createInserts(r)
           \/ \E r \in Requests : transition(r)
           \/ \E r \in Requests : submitEnqueuesReview(r)
           \/ \E r \in Requests : \E c : quiet(r, c)
           \/ crash
           \/ UNCHANGED <<status, reference, paymentKey, outbox, req>>
BY QuietSteps DEF Next, vars, orderMoves

-----------------------------------------------------------------------------
(* What the outbox tells.                                                     *)

\* A call about to ask the staff for a review has declared a reference.
OutboxOK ==
    /\ OutboxTellsThePayments
    /\ \A r \in Requests : req[r].pc = "event" => reference[req[r].order] # NoReference

tells(o) ==
    /\ status[o] # "NONE" <=> <<"PAYMENT_CREATED", o>> \in outbox
    /\ reference[o] # NoReference <=> <<"PAYMENT_SUBMITTED_FOR_REVIEW", o>> \in outbox
    /\ status[o] = "SUCCEEDED" <=> <<"PAYMENT_CONFIRMED", o>> \in outbox
    /\ status[o] = "FAILED" <=> <<"PAYMENT_REJECTED", o>> \in outbox
    /\ <<"PAYMENT_REVIEW_REQUIRED", o>> \in outbox => reference[o] # NoReference

LEMMA TellsParts == OutboxTellsThePayments <=> \A o \in OrderIds : tells(o)
BY DEF OutboxTellsThePayments, tells, paid

\* A step that changes the row of one order and only adds events about it.
LEMMA OthersTold ==
    ASSUME TypeOK, OutboxOK, NEW o \in OrderIds, NEW E,
           \A i \in OrderIds \ {o} : status'[i] = status[i] /\ reference'[i] = reference[i],
           outbox' = outbox \cup (E \X {o}), tells(o)'
    PROVE  OutboxTellsThePayments'
<1> SUFFICES ASSUME NEW i \in OrderIds PROVE tells(i)'
  BY TellsParts DEF OutboxTellsThePayments, tells, paid
<1>1. CASE i = o
  BY <1>1
<1>2. CASE i # o
  <2>1. tells(i)
    BY TellsParts DEF OutboxOK
  <2>2. \A e : <<e, i>> \in outbox' <=> <<e, i>> \in outbox
    BY <1>2
  <2> QED
    BY <1>2, <2>1, <2>2 DEF tells
<1> QED
  BY <1>1, <1>2

LEMMA TransitionTells ==
    ASSUME TypeOK, StatusOK, OutboxOK, NEW r \in Requests, transition(r)
    PROVE  OutboxOK'
<1>0. PICK o \in OrderIds, op \in {"submit", "confirm", "reject", "cancel"} :
        o = req[r].order /\ op = req[r].op
  BY TransitionChanges
<1>1. /\ status' = [status EXCEPT ![o] = Target[op]]
      /\ outbox' = outbox \cup (Announces[op] \X {o})
      /\ status[o] \in {"PENDING", "PENDING_REVIEW"}
      /\ op \in {"confirm", "reject"} => status[o] = "PENDING_REVIEW"
      /\ op = "submit" => status[o] = "PENDING"
  BY <1>0, TransitionChanges DEF transition
<1>2. /\ status'[o] = Target[op]
      /\ \A i \in OrderIds \ {o} : status'[i] = status[i] /\ reference'[i] = reference[i]
  BY <1>0, <1>1, TransitionChanges DEF TypeOK
<1>3. tells(o)
  BY <1>1, TellsParts DEF OutboxOK
<1>4. \A e : <<e, o>> \in outbox' <=> <<e, o>> \in outbox \/ e \in Announces[op]
  BY <1>1
<1>5. ASSUME op = "submit" PROVE reference'[o] # NoReference /\ reference[o] = NoReference
  <2>1. /\ reference \in [OrderIds -> References \cup {NoReference}]
        /\ NoReference \notin References
    BY PaymentsAssumption DEF TypeOK
  <2>2. req[r].reference \in References /\ reference' = [reference EXCEPT ![o] = req[r].reference]
    BY <1>0, <1>5, TransitionChanges
  <2>3. reference'[o] # NoReference
    BY <2>1, <2>2
  <2> QED
    BY <1>1, <1>5, <2>3 DEF StatusOK, EvidenceIsItsOwn
<1>6. op # "submit" => reference'[o] = reference[o]
  BY <1>0, TransitionChanges
<1>a. op \in {"confirm", "reject"} => reference[o] # NoReference
  BY <1>1 DEF StatusOK, EvidenceIsItsOwn
<1>7. tells(o)'
  <2>1. CASE op = "submit"
    BY <1>1, <1>2, <1>3, <1>4, <1>5, <2>1 DEF tells, Target, Announces
  <2>2. CASE op = "confirm"
    BY <1>1, <1>2, <1>3, <1>4, <1>6, <1>a, <2>2 DEF tells, Target, Announces
  <2>3. CASE op = "reject"
    BY <1>1, <1>2, <1>3, <1>4, <1>6, <1>a, <2>3 DEF tells, Target, Announces
  <2>4. CASE op = "cancel"
    BY <1>1, <1>2, <1>3, <1>4, <1>6, <2>4 DEF tells, Target, Announces
  <2> QED
    BY <2>1, <2>2, <2>3, <2>4
<1>8. OutboxTellsThePayments'
  BY <1>1, <1>2, <1>7, OthersTold
<1>9. ASSUME NEW q \in Requests, req'[q].pc = "event"
      PROVE  reference'[req'[q].order] # NoReference
  <2>1. CASE q = r
    <3>1. req'[r].order = o /\ op = "submit"
      BY <1>0, <1>9, <2>1, TransitionAnswers
    <3> QED
      BY <1>5, <2>1, <3>1
  <2>2. CASE q # r
    <3>1. req'[q] = req[q] /\ reference[req[q].order] # NoReference /\ req[q].order \in OrderIds
      BY <1>9, <2>2, TransitionAnswers, TypeParts DEF OutboxOK, callOK
    <3> QED
      BY <1>2, <1>5, <1>6, <3>1
  <2> QED
    BY <2>1, <2>2
<1> QED
  BY <1>8, <1>9 DEF OutboxOK

LEMMA InsertTells ==
    ASSUME TypeOK, StatusOK, OutboxOK, NEW r \in Requests, createInserts(r)
    PROVE  OutboxOK'
<1>0. PICK o \in OrderIds : o = req[r].order
  BY TypeParts DEF createInserts, callOK
<1>1. /\ status[o] = "NONE" /\ reference' = reference
      /\ status' = [status EXCEPT ![o] = "PENDING"]
      /\ outbox' = outbox \cup ({"PAYMENT_CREATED"} \X {o})
  BY <1>0 DEF createInserts
<1>2. status'[o] = "PENDING" /\ \A i \in OrderIds \ {o} : status'[i] = status[i]
  BY <1>1 DEF TypeOK
<1>3. \A e : <<e, o>> \in outbox' <=> <<e, o>> \in outbox \/ e = "PAYMENT_CREATED"
  BY <1>1
<1>4. tells(o)'
  BY <1>1, <1>2, <1>3, TellsParts DEF OutboxOK, tells
<1>5. OutboxTellsThePayments'
  BY <1>1, <1>2, <1>4, OthersTold
<1>6. ASSUME NEW q \in Requests, req'[q].pc = "event"
      PROVE  reference'[req'[q].order] # NoReference
  <2>1. q # r /\ req'[q] = req[q]
    BY <1>6, InsertAnswers
  <2> QED
    BY <1>1, <1>6, <2>1 DEF OutboxOK
<1> QED
  BY <1>5, <1>6 DEF OutboxOK

LEMMA ReviewTells ==
    ASSUME TypeOK, OutboxOK, NEW r \in Requests, submitEnqueuesReview(r)
    PROVE  OutboxOK'
<1>0. PICK o \in OrderIds : o = req[r].order
  BY TypeParts DEF submitEnqueuesReview, callOK
<1>1. /\ reference[o] # NoReference
      /\ status' = status /\ reference' = reference
      /\ outbox' = outbox \cup ({"PAYMENT_REVIEW_REQUIRED"} \X {o})
  BY <1>0 DEF submitEnqueuesReview, OutboxOK
<1>2. \A e : <<e, o>> \in outbox' <=> <<e, o>> \in outbox \/ e = "PAYMENT_REVIEW_REQUIRED"
  BY <1>1
<1>3. tells(o)'
  BY <1>1, <1>2, TellsParts DEF OutboxOK, tells
<1>4. OutboxTellsThePayments'
  BY <1>1, <1>3, OthersTold
<1> QED
  BY <1>1, <1>4, ReviewAnswers DEF OutboxOK

LEMMA StepOutboxOK == TypeOK /\ StatusOK /\ OutboxOK /\ [Next]_vars => OutboxOK'
<1> SUFFICES ASSUME TypeOK, StatusOK, OutboxOK, [Next]_vars PROVE OutboxOK'
  OBVIOUS
<1>1. ASSUME NEW r \in Requests, NEW c, quiet(r, c) PROVE OutboxOK'
  <2>1. UNCHANGED <<status, reference, outbox>> /\ c.pc # "event"
    BY <1>1 DEF quiet, tables
  <2>2. req'[r] = c /\ \A q \in Requests \ {r} : req'[q] = req[q]
    BY <1>1, MovesAlone DEF quiet
  <2> QED
    BY <2>1, <2>2 DEF OutboxOK, OutboxTellsThePayments, paid
<1>2. CASE crash
  <2>1. UNCHANGED <<status, reference, outbox>>
    BY <1>2 DEF crash, tables
  <2>2. \A q \in Requests : req'[q] = req[q] \/ req'[q].pc = "done"
    BY <1>2, CrashAnswers
  <2> QED
    BY <2>1, <2>2 DEF OutboxOK, OutboxTellsThePayments, paid
<1>3. CASE UNCHANGED <<status, reference, paymentKey, outbox, req>>
  BY <1>3 DEF OutboxOK, OutboxTellsThePayments, paid
<1> QED
  BY <1>1, <1>2, <1>3, StepKinds, InsertTells, TransitionTells, ReviewTells

LEMMA InitOutboxOK == Init => OutboxOK
BY DEF Init, OutboxOK, OutboxTellsThePayments, paid, IdleRequest

\* Customers are told what is in the row, and the staff is asked to review only
\* what was declared (payments.service.ts:332-336, 448-459).
THEOREM OutboxTells == Spec => []OutboxTellsThePayments
<1>1. Init => OutboxOK
  BY InitOutboxOK
<1>2. TypeOK /\ StatusOK /\ OutboxOK /\ [Next]_vars => OutboxOK'
  BY StepOutboxOK
<1>3. OutboxOK => OutboxTellsThePayments
  BY DEF OutboxOK
<1> QED
  BY <1>1, <1>2, <1>3, TypeCorrect, StatusesAgree, PTL DEF Spec

-----------------------------------------------------------------------------
(* Decisions.                                                                 *)

\* A decision stands because what it makes of a payment is final: the statuses
\* from which the table lets a payment go on are none of its results.
LEMMA DecisionsAreFinal ==
    ASSUME TypeOK, DecisionsStand, NEW r \in Requests, transition(r),
           NEW q \in Requests, req[q].op \in Decisions, req[q].answer = "ok"
    PROVE  req[q].order # req[r].order
<1>1. req[q].order \in OrderIds /\ status[req[q].order] = Target[req[q].op]
  <2>1. req[q].pc # "idle"
    BY TypeParts DEF callOK
  <2> QED
    BY <2>1, TypeParts DEF callOK, DecisionsStand
<1>2. Target[req[q].op] \in {"SUCCEEDED", "FAILED", "CANCELLED"}
  BY DEF Target, Decisions
<1>3. \A s \in {"SUCCEEDED", "FAILED", "CANCELLED"} : PAYMENT_TRANSITIONS[s] = {}
  BY DEF PAYMENT_TRANSITIONS, PAYMENT_STATUS
<1>4. Target[req[r].op] \in PAYMENT_TRANSITIONS[status[req[r].order]]
  BY DEF transition, transitionHolds, canTransitionPayment
<1> QED
  BY <1>1, <1>2, <1>3, <1>4

LEMMA StepDecisions == TypeOK /\ StatusOK /\ DecisionsStand /\ [Next]_vars => DecisionsStand'
<1> SUFFICES ASSUME TypeOK, StatusOK, DecisionsStand, [Next]_vars PROVE DecisionsStand'
  OBVIOUS
<1>0. \A q \in Requests : req[q].op \in Decisions /\ req[q].answer = "ok" =>
         req[q].order \in OrderIds /\ status[req[q].order] = Target[req[q].op]
  <2> SUFFICES ASSUME NEW q \in Requests, req[q].op \in Decisions, req[q].answer = "ok"
               PROVE  req[q].order \in OrderIds /\ status[req[q].order] = Target[req[q].op]
    OBVIOUS
  <2>1. req[q].pc # "idle"
    BY TypeParts DEF callOK
  <2> QED
    BY <2>1, TypeParts DEF callOK, DecisionsStand
<1>1. ASSUME NEW r \in Requests, NEW c, quiet(r, c) PROVE DecisionsStand'
  <2>1. UNCHANGED status /\ ~ (c.op \in Decisions /\ c.answer = "ok")
    BY <1>1 DEF quiet, tables, Decisions
  <2>2. req'[r] = c /\ \A q \in Requests \ {r} : req'[q] = req[q]
    BY <1>1, MovesAlone DEF quiet
  <2> QED
    BY <2>1, <2>2 DEF DecisionsStand
<1>2. ASSUME NEW r \in Requests, createInserts(r) PROVE DecisionsStand'
  <2> DEFINE o == req[r].order
  <2>1. o \in OrderIds /\ status[o] = "NONE" /\ status' = [status EXCEPT ![o] = "PENDING"]
    BY <1>2, TypeParts DEF createInserts, callOK
  <2>2. \A i \in OrderIds \ {o} : status'[i] = status[i]
    BY <2>1 DEF TypeOK
  <2>3. \A q \in Requests : req[q].op \in Decisions /\ req[q].answer = "ok" => req[q].order # o
    BY <1>0, <2>1 DEF Target, Decisions
  <2>4. req'[r].op \notin Decisions /\ \A q \in Requests \ {r} : req'[q] = req[q]
    BY <1>2, InsertAnswers DEF Decisions
  <2> QED
    BY <1>0, <2>2, <2>3, <2>4 DEF DecisionsStand
<1>3. ASSUME NEW r \in Requests, transition(r) PROVE DecisionsStand'
  <2> DEFINE o == req[r].order
  <2>1. /\ o \in OrderIds
        /\ status' = [status EXCEPT ![o] = Target[req[r].op]]
    BY <1>3, TransitionChanges
  <2>2. status'[o] = Target[req[r].op] /\ \A i \in OrderIds \ {o} : status'[i] = status[i]
    BY <2>1 DEF TypeOK
  <2>3. \A q \in Requests : req[q].op \in Decisions /\ req[q].answer = "ok" => req[q].order # o
    BY <1>3, DecisionsAreFinal
  <2>4. /\ req'[r].op = req[r].op /\ req'[r].order = o
        /\ \A q \in Requests \ {r} : req'[q] = req[q]
    BY <1>3, TransitionAnswers
  <2> QED
    BY <1>0, <2>1, <2>2, <2>3, <2>4 DEF DecisionsStand
<1>4. ASSUME NEW r \in Requests, submitEnqueuesReview(r) PROVE DecisionsStand'
  <2>1. req'[r].op \notin Decisions /\ \A q \in Requests \ {r} : req'[q] = req[q]
    BY <1>4, ReviewAnswers DEF Decisions
  <2> QED
    BY <1>4, <2>1 DEF submitEnqueuesReview, DecisionsStand
<1>5. CASE crash
  <2>1. UNCHANGED status
    BY <1>5 DEF crash, tables
  <2>2. \A q \in Requests : req'[q] = req[q] \/ req'[q].answer = "lost"
    BY <1>5, CrashAnswers
  <2> QED
    BY <2>1, <2>2 DEF DecisionsStand
<1>6. CASE UNCHANGED <<status, reference, paymentKey, outbox, req>>
  BY <1>6 DEF DecisionsStand
<1> QED
  BY <1>1, <1>2, <1>3, <1>4, <1>5, <1>6, StepKinds

\* Of the decisions on one payment one is answered with success, and it stands
\* (payments.service.ts:315-327, 484).
THEOREM DecisionsHold == Spec => []DecisionsStand
<1>1. Init => DecisionsStand
  BY DEF Init, DecisionsStand, IdleRequest
<1>2. TypeOK /\ StatusOK /\ DecisionsStand /\ [Next]_vars => DecisionsStand'
  BY StepDecisions
<1> QED
  BY <1>1, <1>2, TypeCorrect, StatusesAgree, PTL DEF Spec

-----------------------------------------------------------------------------
(* Keys.                                                                      *)

\* A call in the transaction pays an order of its caller; that is why the key a
\* payment is created under is its owner's.
KeysOK ==
    /\ OneKeyPerPayment
    /\ \A r \in Requests : req[r].pc = "tx" => ownerOf[req[r].order] = req[r].user

\* Where a key leads, a payment of its customer is.
LEMMA KeysLead ==
    ASSUME TypeOK, KeysOK, NEW c \in Customers, NEW k \in Keys, NEW o \in OrderIds,
           paymentKey[c][k] = o
    PROVE  ownerOf[o] = c /\ status[o] # "NONE"
<1>1. paid(o)
  BY PaymentsAssumption DEF KeysOK, OneKeyPerPayment
<1>2. PICK d \in Customers, l \in Keys :
         /\ ownerOf[o] = d
         /\ \A e \in Customers, m \in Keys : paymentKey[e][m] = o => e = d /\ m = l
  BY <1>1 DEF KeysOK, OneKeyPerPayment
<1> QED
  BY <1>1, <1>2 DEF paid

\* What an insert does to the keys.
LEMMA InsertKeys ==
    ASSUME TypeOK, KeysOK, NEW r \in Requests, createInserts(r)
    PROVE  \E u \in Customers, k \in Keys, o \in OrderIds :
              /\ u = req[r].user /\ k = req[r].key /\ o = req[r].order
              /\ ownerOf[o] = u /\ status[o] = "NONE" /\ paymentKey[u][k] = NoOrder
              /\ \A c \in Customers, l \in Keys : paymentKey[c][l] # o
              /\ \A c \in Customers, l \in Keys :
                    paymentKey'[c][l] = IF c = u /\ l = k THEN o ELSE paymentKey[c][l]
              /\ \A i \in OrderIds : status'[i] = IF i = o THEN "PENDING" ELSE status[i]
<1>0. PICK u \in Customers, k \in Keys, o \in OrderIds :
         u = req[r].user /\ k = req[r].key /\ o = req[r].order
  BY TypeParts DEF createInserts, callOK
<1>1. /\ ownerOf[o] = u /\ status[o] = "NONE" /\ paymentKey[u][k] = NoOrder
      /\ paymentKey' = [paymentKey EXCEPT ![u][k] = o]
      /\ status' = [status EXCEPT ![o] = "PENDING"]
  BY <1>0 DEF createInserts, keyIsFree, known, KeysOK
<1>2. \A c \in Customers, l \in Keys : paymentKey[c][l] # o
  BY <1>1, KeysLead
<1>3. /\ \A c \in Customers, l \in Keys :
            paymentKey'[c][l] = IF c = u /\ l = k THEN o ELSE paymentKey[c][l]
      /\ \A i \in OrderIds : status'[i] = IF i = o THEN "PENDING" ELSE status[i]
  BY <1>1 DEF TypeOK
<1> QED
  BY <1>0, <1>1, <1>2, <1>3

LEMMA InsertKeepsKeys ==
    ASSUME TypeOK, KeysOK, NEW r \in Requests, createInserts(r)
    PROVE  KeysOK'
<1>0. PICK u \in Customers, k \in Keys, o \in OrderIds :
              /\ u = req[r].user /\ k = req[r].key /\ o = req[r].order
              /\ ownerOf[o] = u /\ status[o] = "NONE" /\ paymentKey[u][k] = NoOrder
              /\ \A c \in Customers, l \in Keys : paymentKey[c][l] # o
              /\ \A c \in Customers, l \in Keys :
                    paymentKey'[c][l] = IF c = u /\ l = k THEN o ELSE paymentKey[c][l]
              /\ \A i \in OrderIds : status'[i] = IF i = o THEN "PENDING" ELSE status[i]
  BY InsertKeys
<1>1. ASSUME NEW i \in OrderIds, status'[i] # "NONE"
      PROVE  \E c \in Customers, l \in Keys :
                /\ paymentKey'[c][l] = i
                /\ ownerOf[i] = c
                /\ \A d \in Customers, m \in Keys : paymentKey'[d][m] = i => d = c /\ m = l
  <2>1. CASE i = o
    BY <1>0, <2>1
  <2>2. CASE i # o
    <3>1. PICK c \in Customers, l \in Keys :
             /\ paymentKey[c][l] = i
             /\ ownerOf[i] = c
             /\ \A d \in Customers, m \in Keys : paymentKey[d][m] = i => d = c /\ m = l
      BY <1>0, <1>1, <2>2 DEF KeysOK, OneKeyPerPayment, paid
    <3>2. i # NoOrder
      BY PaymentsAssumption
    <3>3. /\ paymentKey'[c][l] = i
          /\ \A d \in Customers, m \in Keys : paymentKey'[d][m] = i => d = c /\ m = l
      BY <1>0, <2>2, <3>1, <3>2
    <3> QED
      BY <3>1, <3>3
  <2> QED
    BY <2>1, <2>2
<1>2. ASSUME NEW c \in Customers, NEW l \in Keys, paymentKey'[c][l] # NoOrder
      PROVE  status'[paymentKey'[c][l]] # "NONE"
  <2>1. CASE c = u /\ l = k
    BY <1>0, <2>1
  <2>2. CASE ~ (c = u /\ l = k)
    <3>1. paymentKey'[c][l] = paymentKey[c][l] /\ paymentKey[c][l] \in OrderIds
      BY <1>0, <1>2, <2>2 DEF TypeOK
    <3>2. status[paymentKey[c][l]] # "NONE"
      BY <1>2, <3>1 DEF KeysOK, OneKeyPerPayment, paid
    <3> QED
      BY <1>0, <3>1, <3>2
  <2> QED
    BY <2>1, <2>2
<1>3. ASSUME NEW q \in Requests, req'[q].op = "create", req'[q].answer = "ok"
      PROVE  req'[q].payment = req'[q].order /\ ownerOf[req'[q].order] = req'[q].user
  <2>1. CASE q = r
    <3>1. /\ req'[r].payment = req[r].order
          /\ req'[r].order = req[r].order
          /\ req'[r].user = req[r].user
      BY InsertAnswers
    <3>2. ownerOf[req[r].order] = req[r].user
      BY <1>0
    <3> QED
      BY <2>1, <3>1, <3>2
  <2>2. CASE q # r
    <3>1. req'[q] = req[q]
      BY <2>2, InsertAnswers
    <3> QED
      BY <1>3, <3>1 DEF KeysOK, OneKeyPerPayment
  <2> QED
    BY <2>1, <2>2
<1>4. ASSUME NEW q \in Requests, req'[q].pc = "tx"
      PROVE  ownerOf[req'[q].order] = req'[q].user
  BY <1>4, InsertAnswers DEF KeysOK
<1> QED
  BY <1>1, <1>2, <1>3, <1>4 DEF KeysOK, OneKeyPerPayment, paid

\* The steps that answer no create call anew leave what KeysOK says alone.
LEMMA OthersKeepKeys ==
    ASSUME KeysOK, UNCHANGED paymentKey,
           \A o \in OrderIds : status[o] # "NONE" <=> status'[o] # "NONE",
           \A c \in Customers, k \in Keys : paymentKey[c][k] \in OrderIds \cup {NoOrder},
           \A q \in Requests :
              \/ req'[q] = req[q]
              \/ /\ req'[q].pc = "tx" => ownerOf[req'[q].order] = req'[q].user
                 /\ req'[q].op = "create" /\ req'[q].answer = "ok" =>
                       /\ req'[q].payment = req'[q].order
                       /\ ownerOf[req'[q].order] = req'[q].user
    PROVE  KeysOK'
<1>1. ASSUME NEW i \in OrderIds, status'[i] # "NONE"
      PROVE  \E c \in Customers, l \in Keys :
                /\ paymentKey'[c][l] = i
                /\ ownerOf[i] = c
                /\ \A d \in Customers, m \in Keys : paymentKey'[d][m] = i => d = c /\ m = l
  BY <1>1 DEF KeysOK, OneKeyPerPayment, paid
<1>2. ASSUME NEW c \in Customers, NEW l \in Keys, paymentKey'[c][l] # NoOrder
      PROVE  status'[paymentKey'[c][l]] # "NONE"
  BY <1>2 DEF KeysOK, OneKeyPerPayment, paid
<1>3. ASSUME NEW q \in Requests
      PROVE  /\ req'[q].op = "create" /\ req'[q].answer = "ok" =>
                   req'[q].payment = req'[q].order /\ ownerOf[req'[q].order] = req'[q].user
             /\ req'[q].pc = "tx" => ownerOf[req'[q].order] = req'[q].user
  BY DEF KeysOK, OneKeyPerPayment
<1> QED
  BY <1>1, <1>2, <1>3 DEF KeysOK, OneKeyPerPayment, paid

LEMMA StepKeysOK == TypeOK /\ StatusOK /\ KeysOK /\ [Next]_vars => KeysOK'
<1> SUFFICES ASSUME TypeOK, StatusOK, KeysOK, [Next]_vars PROVE KeysOK'
  OBVIOUS
<1>0. \A c \in Customers, k \in Keys : paymentKey[c][k] \in OrderIds \cup {NoOrder}
  BY DEF TypeOK
<1>1. ASSUME NEW r \in Requests, NEW c, quiet(r, c) PROVE KeysOK'
  <2>1. UNCHANGED <<status, paymentKey>> /\ (c.pc = "tx" => ownerOf[c.order] = c.user)
    BY <1>1 DEF quiet, tables
  <2>2. req'[r] = c /\ \A q \in Requests \ {r} : req'[q] = req[q]
    BY <1>1, MovesAlone DEF quiet
  <2>3. ASSUME c.op = "create", c.answer = "ok"
        PROVE  c.payment = c.order /\ ownerOf[c.order] = c.user
    <3>1. c.user \in Customers /\ c.key \in Keys /\ c.order \in OrderIds
      BY <1>1, <2>3 DEF quiet, moves, callOK, IdleRequest
    <3>2. c.payment = c.order /\ paymentKey[c.user][c.key] = c.order
      BY <1>1, <2>3 DEF quiet
    <3> QED
      BY <3>1, <3>2, KeysLead
  <2> QED
    BY <1>0, <2>1, <2>2, <2>3, OthersKeepKeys
<1>2. ASSUME NEW r \in Requests, transition(r) PROVE KeysOK'
  <2>1. UNCHANGED paymentKey
    BY <1>2 DEF transition
  <2>2. PICK o \in OrderIds, op \in Decisions \cup {"submit"} :
           status' = [status EXCEPT ![o] = Target[op]] /\ status[o] # "NONE"
    BY <1>2, TransitionChanges DEF Decisions
  <2>3. Target[op] # "NONE"
    BY StatusesNamed DEF PAYMENT_STATUS
  <2>4. \A i \in OrderIds : status[i] # "NONE" <=> status'[i] # "NONE"
    BY <2>2, <2>3 DEF TypeOK
  <2>5. req'[r].pc # "tx" /\ ~ (req'[r].op = "create" /\ req'[r].answer = "ok")
    BY <1>2, TransitionAnswers DEF Decisions
  <2>6. \A q \in Requests \ {r} : req'[q] = req[q]
    BY <1>2, TransitionAnswers
  <2> QED
    BY <1>0, <2>1, <2>4, <2>5, <2>6, OthersKeepKeys
<1>3. ASSUME NEW r \in Requests, submitEnqueuesReview(r) PROVE KeysOK'
  <2>1. UNCHANGED <<status, paymentKey>>
    BY <1>3 DEF submitEnqueuesReview
  <2> QED
    BY <1>0, <1>3, <2>1, ReviewAnswers, OthersKeepKeys
<1>4. CASE crash
  <2>1. UNCHANGED <<status, paymentKey>>
    BY <1>4 DEF crash, tables
  <2>2. \A q \in Requests : req'[q] = req[q] \/ (req'[q].pc = "done" /\ req'[q].answer = "lost")
    BY <1>4, CrashAnswers
  <2> QED
    BY <1>0, <2>1, <2>2, OthersKeepKeys
<1>5. CASE UNCHANGED <<status, reference, paymentKey, outbox, req>>
  BY <1>0, <1>5, OthersKeepKeys
<1> QED
  BY <1>1, <1>2, <1>3, <1>4, <1>5, InsertKeepsKeys, StepKinds

LEMMA InitKeysOK == Init => KeysOK
BY DEF Init, KeysOK, OneKeyPerPayment, paid, IdleRequest

LEMMA KeysAgree == Spec => []KeysOK
<1>1. TypeOK /\ StatusOK /\ KeysOK /\ [Next]_vars => KeysOK'
  BY StepKeysOK
<1> QED
  BY <1>1, InitKeysOK, TypeCorrect, StatusesAgree, PTL DEF Spec

\* Concurrent creations under one key make one payment, of the caller's own order
\* (payments.service.ts:84-180).
THEOREM OneKey == Spec => []OneKeyPerPayment
<1>1. KeysOK => OneKeyPerPayment
  BY DEF KeysOK
<1> QED
  BY <1>1, KeysAgree, PTL

-----------------------------------------------------------------------------
(* payments.service.ts implements IdempotentCreation.                           *)

\* A step that touches no key and answers no create call stutters.
LEMMA PromiseStutters ==
    ASSUME UNCHANGED paymentKey,
           \A q \in Requests :
              \/ req'[q] = req[q]
              \/ /\ ~ (req[q].op = "create" /\ req[q].answer = "ok")
                 /\ ~ (req'[q].op = "create" /\ req'[q].answer = "ok")
    PROVE  UNCHANGED <<createdUnder, answered>>
<1>1. UNCHANGED createdUnder
  BY DEF createdUnder
<1>2. UNCHANGED answered
  BY DEF answered
<1> QED
  BY <1>1, <1>2

\* Call r, not answered before, is answered with the payment of order o.
LEMMA PromiseAnswers ==
    ASSUME NEW r \in Requests, NEW u, NEW k, NEW o, req[r].answer = "none",
           req'[r].op = "create", req'[r].answer = "ok",
           req'[r].user = u, req'[r].key = k, req'[r].payment = o,
           \A q \in Requests \ {r} : req'[q] = req[q]
    PROVE  answered[r] = <<>> /\ answered' = [answered EXCEPT ![r] = <<u, k, o>>]
BY DEF answered

LEMMA PromiseReplays ==
    ASSUME TypeOK, NEW r \in Requests, NEW c, quiet(r, c), c.answer = "ok"
    PROVE  Promise!Next
<1>1. req[r].answer = "none" /\ req'[r] = c /\ \A q \in Requests \ {r} : req'[q] = req[q]
  BY TypeParts, MovesAlone DEF quiet, callOK
<1>2. c.op = "create" /\ c.payment = c.order /\ paymentKey[c.user][c.key] = c.order
  BY DEF quiet
<1>3. c.user \in Customers /\ c.key \in Keys /\ c.order \in OrderIds
  BY <1>2 DEF quiet, moves, callOK, IdleRequest
<1>4. PICK u \in Customers, k \in Keys, o \in OrderIds : u = c.user /\ k = c.key /\ o = c.order
  BY <1>3
<1>5. answered[r] = <<>> /\ answered' = [answered EXCEPT ![r] = <<u, k, o>>]
  BY <1>1, <1>2, <1>4, PromiseAnswers
<1>6. createdUnder[<<u, k>>] = o /\ o # NoOrder
  BY <1>2, <1>4, PaymentsAssumption DEF createdUnder
<1>7. UNCHANGED createdUnder
  BY DEF quiet, tables, createdUnder
<1>8. Promise!Replay(r, u, k)
  BY <1>5, <1>6, <1>7 DEF Promise!Replay, Promise!Answer, Promise!NoAnswer
<1> QED
  BY <1>8 DEF Promise!Next

LEMMA PromiseCreates ==
    ASSUME TypeOK, KeysOK, NEW r \in Requests, createInserts(r)
    PROVE  Promise!Next
<1>0. PICK u \in Customers, k \in Keys, o \in OrderIds :
              /\ u = req[r].user /\ k = req[r].key /\ o = req[r].order
              /\ ownerOf[o] = u /\ status[o] = "NONE" /\ paymentKey[u][k] = NoOrder
              /\ \A c \in Customers, l \in Keys : paymentKey[c][l] # o
              /\ \A c \in Customers, l \in Keys :
                    paymentKey'[c][l] = IF c = u /\ l = k THEN o ELSE paymentKey[c][l]
              /\ \A i \in OrderIds : status'[i] = IF i = o THEN "PENDING" ELSE status[i]
  BY InsertKeys
<1>1. req[r].answer = "none"
  BY TypeParts DEF createInserts, callOK
<1>2. answered[r] = <<>> /\ answered' = [answered EXCEPT ![r] = <<u, k, o>>]
  <2>1. /\ req'[r].op = "create" /\ req'[r].answer = "ok"
        /\ req'[r].user = req[r].user /\ req'[r].key = req[r].key
        /\ req'[r].payment = req[r].order
        /\ \A q \in Requests \ {r} : req'[q] = req[q]
    BY InsertAnswers
  <2> QED
    BY <1>0, <1>1, <2>1, PromiseAnswers
<1>3. createdUnder[<<u, k>>] = NoOrder /\ \A s \in Customers \X Keys : createdUnder[s] # o
  BY <1>0 DEF createdUnder
<1>4. createdUnder' = [createdUnder EXCEPT ![<<u, k>>] = o]
  <2>1. \A s \in Customers \X Keys :
           paymentKey'[s[1]][s[2]] = IF s = <<u, k>> THEN o ELSE paymentKey[s[1]][s[2]]
    BY <1>0
  <2> QED
    BY <2>1 DEF createdUnder
<1>5. Promise!Create(r, u, k, o)
  BY <1>2, <1>3, <1>4 DEF Promise!Create, Promise!Answer, Promise!NoAnswer, Promise!Slots
<1> QED
  BY <1>5 DEF Promise!Next

LEMMA PromiseStep ==
    TypeOK /\ KeysOK /\ [Next]_vars => [Promise!Next]_<<createdUnder, answered>>
<1> SUFFICES ASSUME TypeOK, KeysOK, [Next]_vars
             PROVE  Promise!Next \/ UNCHANGED <<createdUnder, answered>>
  OBVIOUS
<1>1. ASSUME NEW r \in Requests, NEW c, quiet(r, c)
      PROVE  Promise!Next \/ UNCHANGED <<createdUnder, answered>>
  <2>1. CASE c.answer = "ok"
    BY <1>1, <2>1, PromiseReplays
  <2>2. CASE c.answer # "ok"
    <3>1. req[r].answer = "none" /\ req'[r] = c /\ \A q \in Requests \ {r} : req'[q] = req[q]
      BY <1>1, TypeParts, MovesAlone DEF quiet, callOK
    <3>2. UNCHANGED paymentKey
      BY <1>1 DEF quiet, tables
    <3> QED
      BY <2>2, <3>1, <3>2, PromiseStutters
  <2> QED
    BY <2>1, <2>2
<1>2. ASSUME NEW r \in Requests, transition(r) \/ submitEnqueuesReview(r)
      PROVE  UNCHANGED <<createdUnder, answered>>
  <2>1. UNCHANGED paymentKey /\ req[r].answer = "none"
    BY <1>2, TypeParts DEF transition, submitEnqueuesReview, callOK
  <2>2. req'[r].op # "create" \/ req'[r].answer # "ok"
    BY <1>2, TransitionAnswers, ReviewAnswers DEF Decisions
  <2>3. \A q \in Requests \ {r} : req'[q] = req[q]
    BY <1>2, TransitionAnswers, ReviewAnswers
  <2> QED
    BY <2>1, <2>2, <2>3, PromiseStutters
<1>3. CASE crash
  <2>1. UNCHANGED paymentKey
    BY <1>3 DEF crash, tables
  <2>2. \A q \in Requests : req'[q] = req[q] \/ (req[q].answer = "none" /\ req'[q].answer = "lost")
    BY <1>3, CrashAnswers
  <2> QED
    BY <2>1, <2>2, PromiseStutters
<1>4. CASE UNCHANGED <<status, reference, paymentKey, outbox, req>>
  BY <1>4, PromiseStutters
<1> QED
  BY <1>1, <1>2, <1>3, <1>4, PromiseCreates, StepKinds

\* Every behaviour of payments.service.ts is one that IdempotentCreation allows.
THEOREM ImplementsPromise == Spec => PaymentKeysAreIdempotent
<1>1. Init => Promise!Init
  <2> SUFFICES ASSUME Init PROVE Promise!Init
    OBVIOUS
  <2>1. createdUnder = [s \in Customers \X Keys |-> NoOrder]
    BY DEF Init, createdUnder
  <2>2. answered = [r \in Requests |-> <<>>]
    BY DEF Init, answered, IdleRequest
  <2> QED
    BY <2>1, <2>2 DEF Promise!Init, Promise!NoAnswer, Promise!Slots
<1> QED
  BY <1>1, PromiseStep, TypeCorrect, KeysAgree, PTL
     DEF Spec, PaymentKeysAreIdempotent, Promise!Spec
=============================================================================
