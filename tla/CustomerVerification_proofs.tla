--------------------- MODULE CustomerVerification_proofs ---------------------
(* Theorems about CustomerVerification.                                       *)
EXTENDS CustomerVerification, TLAPS

LEMMA OperationNames == Operations = {"start", "cancel", "review", "verify", "reject"}
BY DEF Operations, Target

\* No operation makes a request not started, and each has its own status.
LEMMA TargetsNamed ==
    /\ \A op \in Operations : Target[op] \in VERIFICATION_STATUS \ {"NOT_STARTED", "EXPIRED"}
    /\ \A op \in Operations : Announces[op] \subseteq Events
    /\ \A op, p \in Operations : Target[op] = Target[p] => op = p
<1>1. \A op \in Operations : Target[op] \in VERIFICATION_STATUS \ {"NOT_STARTED", "EXPIRED"}
  BY OperationNames DEF Target, VERIFICATION_STATUS
<1>2. \A op \in Operations : Announces[op] \subseteq Events
  BY DEF Events
<1>3. \A op, p \in Operations : Target[op] = Target[p] => op = p
  BY OperationNames DEF Target
<1> QED
  BY <1>1, <1>2, <1>3

\* Nothing but a start goes on from no request at all.
LEMMA Proceeding ==
    ASSUME NEW op \in {"none", "look"} \cup Operations, NEW s, mayProceed(op, s)
    PROVE  op \in Operations /\ (s = "NOT_STARTED" => op = "start")
<1>1. op \in Operations
  BY OperationNames DEF mayProceed, Employee
<1>2. CASE op = "start"
  BY <1>1, <1>2
<1>3. CASE op = "cancel"
  <2>1. mayProceed("cancel", s)
    BY <1>3
  <2>2. s \in ACTIVE_VERIFICATION_STATUSES
    BY <2>1 DEF mayProceed, Employee
  <2> QED
    BY <1>1, <2>2 DEF ACTIVE_VERIFICATION_STATUSES
<1>4. CASE op \in Employee
  <2>1. canTransitionVerification(s, Target[op])
    BY <1>4 DEF mayProceed, Employee
  <2>2. Target[op] # "PENDING"
    BY <1>4 DEF Employee, Target
  <2> QED
    BY <1>1, <2>1, <2>2
       DEF canTransitionVerification, VERIFICATION_TRANSITIONS, VERIFICATION_STATUS
<1> QED
  BY <1>1, <1>2, <1>3, <1>4, OperationNames DEF Employee

-----------------------------------------------------------------------------
(* Type correctness.                                                          *)

\* What a call carries, over the statuses st: the clauses of CallsOK, and that a
\* call past its reads, unless it is about to create a request, works on one that exists.
callOK(c, st) ==
    /\ c.answer = "none" <=> c.pc # "done"
    /\ c.pc \in {"read", "key", "lost"} => c.op = "start"
    /\ c.op = "start" => c.key \in Keys /\ c.locale \in Locales
    /\ c.pc = "write" => mayProceed(c.op, c.status)
    /\ c.pc = "read" => c.status = "NOT_STARTED"
    /\ \/ c.pc \in {"expire", "key"}
       \/ c.pc = "write" /\ ~ (c.op = "start" /\ c.status = "NOT_STARTED")
       => c.id \in Ids /\ st[c.id] # "NOT_STARTED"

TablesOK ==
    /\ status \in [Ids -> VERIFICATION_STATUS]
    /\ attempt \in [Ids -> Nat]
    /\ overdue \in [Ids -> BOOLEAN]
    /\ keyRow \in [Keys -> KeyRow]
    /\ outbox \subseteq (Events \X Ids \X Nat)
    /\ crashes \in 0..MaxCrashes
    /\ \A i \in Ids : status[i] = "NOT_STARTED" <=> attempt[i] = 0

\* The inductive form of TypeOK.
Typed ==
    /\ TablesOK
    /\ req \in [Requests -> Request]
    /\ \A r \in Requests : callOK(req[r], status)

LEMMA TypedIsTypeOK == Typed => TypeOK
<1> SUFFICES ASSUME Typed PROVE TypeOK
  OBVIOUS
<1>1. CallsOK
  <2> SUFFICES ASSUME NEW r \in Requests
               PROVE  /\ req[r].answer = "none" <=> req[r].pc # "done"
                      /\ req[r].pc \in {"read", "key", "lost"} => req[r].op = "start"
                      /\ req[r].op = "start" => req[r].key \in Keys /\ req[r].locale \in Locales
                      /\ req[r].pc = "write" => mayProceed(req[r].op, req[r].status)
                      /\ req[r].pc \in {"expire", "key"} => status[req[r].id] # "NOT_STARTED"
    BY DEF CallsOK, Typed, TablesOK
  <2> QED
    BY DEF Typed, callOK
<1> QED
  BY <1>1 DEF Typed, TablesOK, TypeOK

\* Requests do not go away.
statusesStay == \A i \in Ids : status[i] # "NOT_STARTED" => status'[i] # "NOT_STARTED"

\* One call moves on to c.
moves(r, c) ==
    /\ c \in Request
    /\ callOK(c, status')
    /\ req' = [req EXCEPT ![r] = c]

LEMMA MovesKeepTypes ==
    ASSUME Typed, NEW r \in Requests, NEW c, moves(r, c), statusesStay, TablesOK'
    PROVE  Typed'
<1>1. \A q \in Requests \ {r} : req'[q] = req[q] /\ callOK(req'[q], status')
  <2> SUFFICES ASSUME NEW q \in Requests \ {r} PROVE req'[q] = req[q] /\ callOK(req'[q], status')
    OBVIOUS
  <2>1. req'[q] = req[q] /\ callOK(req[q], status)
    BY DEF moves, Typed
  <2> QED
    BY <2>1 DEF callOK, statusesStay
<1>2. req'[r] = c
  BY DEF moves, Typed
<1>3. req' \in [Requests -> Request] /\ \A q \in Requests : callOK(req'[q], status')
  BY <1>1, <1>2 DEF moves, Typed
<1>4. (\A q \in Requests : callOK(req[q], status))'
  BY <1>3
<1> QED
  BY <1>3, <1>4 DEF Typed

LEMMA MovesAlone ==
    ASSUME Typed, NEW r \in Requests, NEW c, moves(r, c)
    PROVE  req'[r] = c /\ \A q \in Requests \ {r} : req'[q] = req[q]
BY DEF moves, Typed

LEMMA QuietTables ==
    ASSUME Typed, UNCHANGED <<tables, crashes>>
    PROVE  TablesOK' /\ statusesStay /\ status' = status
BY DEF Typed, TablesOK, tables, statusesStay

\* The answer of a start call is what its key stands for.
answersItsKey(c, rows) ==
    c.op = "start" /\ c.answer = "ok" => rows[c.key] = [locale |-> c.locale, id |-> c.id]

LEMMA FinishedOK ==
    ASSUME NEW c \in Request, NEW i \in Ids \cup {NoId}, NEW answer \in {"ok", "refused"},
           NEW st, callOK(c, st)
    PROVE  /\ finished(c, i, answer) \in Request
           /\ callOK(finished(c, i, answer), st)
           /\ finished(c, i, answer).op = c.op
           /\ finished(c, i, answer).key = c.key
           /\ finished(c, i, answer).locale = c.locale
           /\ finished(c, i, answer).id = i
           /\ finished(c, i, answer).answer = answer
BY DEF finished, Request, callOK

\* What a call becomes that has read the status of a request.
LEMMA DecidedOK ==
    ASSUME NEW c \in Request, NEW st, c.answer = "none", c.pc # "done",
           c.id \in Ids, st[c.id] # "NOT_STARTED",
           c.op = "start" => c.key \in Keys /\ c.locale \in Locales
    PROVE  /\ decided(c) \in Request
           /\ callOK(decided(c), st)
           /\ \A rows : answersItsKey(decided(c), rows)
<1>1. CASE c.op = "look"
  <2> DEFINE d == finished(c, c.id, "ok")
  <2>1. d \in Request /\ d.pc = "done" /\ d.op = "look" /\ d.answer = "ok"
    BY <1>1 DEF finished, Request
  <2> QED
    BY <1>1, <2>1 DEF decided, callOK, answersItsKey
<1>2. CASE c.op # "look" /\ mayProceed(c.op, c.status)
  <2> DEFINE d == [c EXCEPT !.pc = "write"]
  <2>1. /\ d \in Request /\ d.pc = "write" /\ d.op = c.op /\ d.answer = "none" /\ d.id = c.id
        /\ d.status = c.status /\ d.key = c.key /\ d.locale = c.locale
    BY DEF Request
  <2>2. decided(c) = d
    BY <1>2 DEF decided
  <2> HIDE DEF d
  <2> QED
    BY <1>2, <2>1, <2>2 DEF callOK, answersItsKey
<1>3. CASE c.op # "look" /\ ~ mayProceed(c.op, c.status)
  <2> DEFINE d == finished(c, NoId, "refused")
  <2>1. /\ d \in Request /\ d.pc = "done" /\ d.op = c.op /\ d.answer = "refused"
        /\ d.key = c.key /\ d.locale = c.locale
    BY DEF finished, Request
  <2>2. decided(c) = d
    BY <1>3 DEF decided
  <2> HIDE DEF d
  <2> QED
    BY <2>1, <2>2 DEF callOK, answersItsKey
<1> QED
  BY <1>1, <1>2, <1>3

-----------------------------------------------------------------------------
(* What a step is: one of these.                                              *)

\* Call r becomes c and no table changes.
quiet(r, c) ==
    /\ moves(r, c)
    /\ UNCHANGED <<tables, crashes>>
    /\ answersItsKey(c, keyRow)

\* Call r becomes c and row i the status s, of which the event set E tells.
changes(r, c, i, s, n, E) ==
    /\ moves(r, c)
    /\ status' = [status EXCEPT ![i] = s]
    /\ attempt' = [attempt EXCEPT ![i] = n]
    /\ outbox' = outbox \cup (E \X {i} \X {n})
    /\ overdue' \in [Ids -> BOOLEAN]
    /\ UNCHANGED <<keyRow, crashes>>
    /\ \A rows : answersItsKey(c, rows)

LEMMA ReadsQuietly ==
    ASSUME Typed, NEW r \in Requests, NEW c \in Request, NEW i \in Ids,
           status[i] # "NOT_STARTED", c.answer = "none", c.pc # "done",
           c.op = "start" => c.key \in Keys /\ c.locale \in Locales,
           reads(r, c, i)
    PROVE  \E d : quiet(r, d)
<1> DEFINE e == [c EXCEPT !.id = i, !.status = status[i], !.attempt = attempt[i]]
<1>1. status[i] \in VERIFICATION_STATUS /\ attempt[i] \in Nat
  BY DEF Typed, TablesOK
<1>2. e \in Request
  BY <1>1 DEF Request
<1>3. /\ e.answer = "none" /\ e.pc = c.pc /\ e.op = c.op /\ e.key = c.key
      /\ e.locale = c.locale /\ e.id = i
  BY DEF Request
<1>4. /\ req' = [req EXCEPT ![r] = IF expiresNow(i) THEN [e EXCEPT !.pc = "expire"]
                                   ELSE decided(e)]
      /\ UNCHANGED <<tables, crashes>> /\ status' = status
  BY DEF reads, tables
<1> HIDE DEF e
<1>5. CASE expiresNow(i)
  <2> DEFINE d == [e EXCEPT !.pc = "expire"]
  <2>1. /\ d \in Request /\ d.pc = "expire" /\ d.answer = "none" /\ d.op = c.op
        /\ d.key = c.key /\ d.locale = c.locale /\ d.id = i
    BY <1>2, <1>3 DEF Request
  <2>2. req' = [req EXCEPT ![r] = d]
    BY <1>4, <1>5
  <2> HIDE DEF d
  <2>3. callOK(d, status')
    BY <1>4, <2>1 DEF callOK
  <2> QED
    BY <1>4, <2>1, <2>2, <2>3 DEF quiet, moves, answersItsKey
<1>6. CASE ~ expiresNow(i)
  <2>1. decided(e) \in Request /\ callOK(decided(e), status) /\ answersItsKey(decided(e), keyRow)
    BY <1>2, <1>3, DecidedOK
  <2> QED
    BY <1>4, <1>6, <2>1 DEF quiet, moves
<1> QED
  BY <1>5, <1>6

LEMMA IdleRequestType ==
    /\ IdleRequest \in Request
    /\ \A st : callOK(IdleRequest, st)
    /\ \A op \in {"look"} \cup Operations : [IdleRequest EXCEPT !.op = op] \in Request
BY DEF IdleRequest, Request, callOK, VERIFICATION_STATUS

LEMMA CallsQuietly ==
    ASSUME Typed, NEW r \in Requests, call(r)
    PROVE  \E c : quiet(r, c)
<1>1. ASSUME NEW op \in {"look", "cancel"} \cup Employee, NEW i \in Ids, exists(i),
             reads(r, [IdleRequest EXCEPT !.op = op], i)
      PROVE  \E c : quiet(r, c)
  <2> DEFINE d == [IdleRequest EXCEPT !.op = op]
  <2>1. op \in {"look"} \cup Operations /\ op # "start"
    BY OperationNames DEF Employee
  <2>2. d \in Request
    BY <2>1, IdleRequestType
  <2>3. d.answer = "none" /\ d.pc = "idle" /\ d.op = op
    BY DEF IdleRequest
  <2> HIDE DEF d
  <2>4. reads(r, d, i)
    BY <1>1 DEF d
  <2> QED
    BY <1>1, <2>1, <2>2, <2>3, <2>4, ReadsQuietly DEF exists
<1>2. ASSUME NEW k \in Keys, NEW l \in Locales, startLooksUpKey(r, k, l)
      PROVE  \E c : quiet(r, c)
  <2> DEFINE d == [IdleRequest EXCEPT !.op = "start", !.key = k, !.locale = l]
  <2>1. /\ d \in Request /\ d.op = "start" /\ d.key = k /\ d.locale = l /\ d.answer = "none"
        /\ d.pc = "idle" /\ d.status = "NOT_STARTED"
    BY OperationNames DEF IdleRequest, Request, VERIFICATION_STATUS
  <2>2. keyRow[k] \in KeyRow
    BY DEF Typed, TablesOK
  <2>3. /\ req' = [req EXCEPT ![r] =
                     IF keyRow[k] = NoKeyRow THEN [d EXCEPT !.pc = "read"]
                     ELSE IF keyRow[k].locale = l THEN finished(d, keyRow[k].id, "ok")
                     ELSE finished(d, NoId, "refused")]
        /\ UNCHANGED <<tables, crashes>> /\ status' = status
    BY <1>2 DEF startLooksUpKey, tables
  <2> HIDE DEF d
  <2>4. callOK(d, status')
    BY <2>1 DEF callOK
  <2>5. CASE keyRow[k] = NoKeyRow
    <3> DEFINE e == [d EXCEPT !.pc = "read"]
    <3>1. /\ e \in Request /\ e.op = "start" /\ e.key = k /\ e.locale = l /\ e.answer = "none"
          /\ e.pc = "read" /\ e.status = "NOT_STARTED"
      BY <2>1 DEF Request
    <3>2. req' = [req EXCEPT ![r] = e]
      BY <2>3, <2>5
    <3> HIDE DEF e
    <3> QED
      BY <2>3, <3>1, <3>2 DEF quiet, moves, callOK, answersItsKey
  <2>6. CASE keyRow[k] # NoKeyRow /\ keyRow[k].locale = l
    <3>1. keyRow[k].id \in Ids \cup {NoId} /\ keyRow[k] = [locale |-> l, id |-> keyRow[k].id]
      BY <2>2, <2>6 DEF KeyRow
    <3>2. /\ moves(r, finished(d, keyRow[k].id, "ok"))
          /\ answersItsKey(finished(d, keyRow[k].id, "ok"), keyRow)
      BY <2>1, <2>3, <2>4, <2>6, <3>1, FinishedOK DEF moves, answersItsKey
    <3> QED
      BY <2>3, <3>2 DEF quiet
  <2>7. CASE keyRow[k] # NoKeyRow /\ keyRow[k].locale # l
    BY <2>1, <2>3, <2>4, <2>7, FinishedOK DEF quiet, moves, answersItsKey
  <2> QED
    BY <2>5, <2>6, <2>7
<1> QED
  BY <1>1, <1>2 DEF call, look, cancel, decide, isLatest

LEMMA ServesQuietly ==
    ASSUME Typed, NEW r \in Requests,
           \/ startReads(r) \/ writeRefused(r) \/ startLosesKey(r) \/ startAnswersLoser(r)
    PROVE  \E c : quiet(r, c)
<1>0. req[r] \in Request /\ callOK(req[r], status)
  BY DEF Typed
<1>1. ASSUME refuse(r), UNCHANGED <<tables, crashes>>
      PROVE  \E c : quiet(r, c)
  <2>1. callOK(req[r], status')
    BY <1>0, <1>1 DEF tables
  <2> QED
    BY <1>0, <1>1, <2>1, FinishedOK DEF quiet, moves, refuse, answersItsKey
<1>2. CASE startReads(r)
  <2>1. req[r].pc = "read" /\ req[r].op = "start" /\ req[r].answer = "none"
        /\ req[r].key \in Keys /\ req[r].locale \in Locales /\ req[r].status = "NOT_STARTED"
    BY <1>0, <1>2 DEF startReads, callOK
  <2>2. CASE \E i \in Ids : isLatest(i) /\ reads(r, req[r], i)
    BY <1>0, <2>1, <2>2, ReadsQuietly DEF isLatest, exists
  <2>3. CASE req' = [req EXCEPT ![r].pc = "write"] /\ UNCHANGED <<tables, crashes>>
    <3> DEFINE e == [req[r] EXCEPT !.pc = "write"]
    <3>1. /\ e \in Request /\ e.op = "start" /\ e.key \in Keys /\ e.locale \in Locales
          /\ e.answer = "none" /\ e.pc = "write" /\ e.status = "NOT_STARTED"
      BY <1>0, <2>1 DEF Request
    <3>2. req' = [req EXCEPT ![r] = e]
      BY <2>3
    <3> HIDE DEF e
    <3>3. mayProceed(e.op, e.status)
      <4>1. mayProceed("start", "NOT_STARTED")
        BY DEF mayProceed, Employee
      <4> QED
        BY <3>1, <4>1
    <3> QED
      BY <2>3, <3>1, <3>2, <3>3 DEF quiet, moves, callOK, answersItsKey
  <2> QED
    BY <1>2, <2>2, <2>3 DEF startReads
<1>3. CASE writeRefused(r)
  BY <1>1, <1>3 DEF writeRefused
<1>4. CASE startLosesKey(r)
  <2>1. /\ req[r].pc = "key" /\ req' = [req EXCEPT ![r].pc = "lost"]
        /\ UNCHANGED <<tables, crashes>>
    BY <1>4 DEF startLosesKey
  <2> DEFINE e == [req[r] EXCEPT !.pc = "lost"]
  <2>2. /\ e \in Request /\ e.op = "start" /\ e.key \in Keys /\ e.locale \in Locales
        /\ e.answer = "none" /\ e.pc = "lost"
    BY <1>0, <2>1 DEF Request, callOK
  <2>3. req' = [req EXCEPT ![r] = e]
    BY <2>1
  <2> HIDE DEF e
  <2> QED
    BY <2>1, <2>2, <2>3 DEF quiet, moves, callOK, answersItsKey
<1>5. CASE startAnswersLoser(r)
  <2>1. /\ req[r].pc = "lost" /\ req[r].op = "start" /\ req[r].key \in Keys
        /\ UNCHANGED <<tables, crashes>>
    BY <1>0, <1>5 DEF startAnswersLoser, callOK
  <2> DEFINE row == keyRow[req[r].key]
  <2>2. CASE row.locale # req[r].locale
    BY <1>1, <1>5, <2>1, <2>2 DEF startAnswersLoser
  <2>3. CASE row.locale = req[r].locale
    <3>1. row \in KeyRow
      BY <2>1 DEF Typed, TablesOK
    <3>2. row.id \in Ids \cup {NoId} /\ row = [locale |-> req[r].locale, id |-> row.id]
      BY <2>3, <3>1 DEF KeyRow
    <3>3. reply(r, row.id) /\ callOK(req[r], status')
      BY <1>0, <1>5, <2>1, <2>3 DEF startAnswersLoser, tables
    <3>4. /\ moves(r, finished(req[r], row.id, "ok"))
          /\ answersItsKey(finished(req[r], row.id, "ok"), keyRow)
      BY <1>0, <3>2, <3>3, FinishedOK DEF moves, reply, answersItsKey
    <3> QED
      BY <2>1, <3>4 DEF quiet
  <2> QED
    BY <2>2, <2>3
<1> QED
  BY <1>2, <1>3, <1>4, <1>5

LEMMA ExpiryChanges ==
    ASSUME Typed, NEW r \in Requests, applyLazyExpiry(r)
    PROVE  \E c : \E i \in Ids :
              /\ changes(r, c, i, "EXPIRED", attempt[i], {})
              /\ status[i] # "NOT_STARTED"
<1>0. req[r] \in Request /\ callOK(req[r], status)
  BY DEF Typed
<1>1. PICK i \in Ids : i = req[r].id
  BY <1>0 DEF applyLazyExpiry, callOK
<1>2. /\ status' = [status EXCEPT ![i] = "EXPIRED"]
      /\ UNCHANGED <<attempt, overdue, keyRow, outbox, crashes>>
      /\ req[r].pc = "expire" /\ status[i] # "NOT_STARTED"
  BY <1>0, <1>1 DEF applyLazyExpiry, callOK
<1> DEFINE e == [req[r] EXCEPT !.status = "EXPIRED", !.attempt = attempt[i]]
<1>3. req' = [req EXCEPT ![r] = decided(e)]
  BY <1>1 DEF applyLazyExpiry
<1>4. attempt[i] \in Nat
  BY DEF Typed, TablesOK
<1>5. /\ e \in Request /\ e.id = i /\ e.answer = "none" /\ e.pc = "expire"
      /\ e.op = req[r].op /\ e.key = req[r].key /\ e.locale = req[r].locale
  BY <1>0, <1>1, <1>2, <1>4 DEF Request, VERIFICATION_STATUS, callOK
<1>6. status'[i] = "EXPIRED"
  BY <1>2 DEF Typed, TablesOK
<1>7. e.op = "start" => e.key \in Keys /\ e.locale \in Locales
  BY <1>0, <1>5 DEF callOK
<1> HIDE DEF e
<1>8. /\ decided(e) \in Request /\ callOK(decided(e), status')
      /\ \A rows : answersItsKey(decided(e), rows)
  BY <1>5, <1>6, <1>7, DecidedOK
<1>9. /\ attempt' = [attempt EXCEPT ![i] = attempt[i]]
      /\ outbox' = outbox \cup ({} \X {i} \X {attempt[i]})
      /\ overdue' \in [Ids -> BOOLEAN]
  BY <1>2 DEF Typed, TablesOK
<1>10. changes(r, decided(e), i, "EXPIRED", attempt[i], {})
  BY <1>2, <1>3, <1>8, <1>9 DEF changes, moves
<1> QED
  BY <1>2, <1>10

LEMMA BeginsChanges ==
    ASSUME Typed, NEW r \in Requests, NEW i \in Ids, NEW n \in Nat \ {0},
           req[r].pc = "write", req[r].op = "start", begins(r, i, n)
    PROVE  /\ \E c : changes(r, c, i, "PENDING", n, Announces["start"])
           /\ indexAllows(i)
<1>0. req[r] \in Request /\ callOK(req[r], status)
  BY DEF Typed
<1>1. /\ status' = [status EXCEPT ![i] = "PENDING"]
      /\ attempt' = [attempt EXCEPT ![i] = n]
      /\ overdue' = [overdue EXCEPT ![i] = FALSE]
      /\ outbox' = outbox \cup (Announces["start"] \X {i} \X {n})
      /\ UNCHANGED <<keyRow, crashes>>
      /\ indexAllows(i)
  BY DEF begins, announce
<1> DEFINE e == [req[r] EXCEPT !.pc = "key", !.id = i]
<1>2. req' = [req EXCEPT ![r] = e]
  BY DEF begins
<1>3. /\ e \in Request /\ e.pc = "key" /\ e.id = i /\ e.op = "start" /\ e.answer = "none"
      /\ e.key \in Keys /\ e.locale \in Locales
  BY <1>0 DEF Request, callOK
<1>4. status'[i] = "PENDING" /\ overdue' \in [Ids -> BOOLEAN]
  BY <1>1 DEF Typed, TablesOK
<1> HIDE DEF e
<1>5. moves(r, e)
  BY <1>2, <1>3, <1>4 DEF moves, callOK
<1>6. changes(r, e, i, "PENDING", n, Announces["start"])
  BY <1>1, <1>3, <1>4, <1>5 DEF changes, answersItsKey
<1> QED
  BY <1>1, <1>6

\* The transactions that write a status which is announced: those of start, and the
\* update of the other operations.
announces(r, c, i, n, op) ==
    /\ changes(r, c, i, Target[op], n, Announces[op])
    /\ Target[op] \in ACTIVE_VERIFICATION_STATUSES => indexAllows(i)

LEMMA StartAnnounces ==
    ASSUME Typed, NEW r \in Requests, startRestarts(r) \/ \E i \in Ids : startCreates(r, i)
    PROVE  \E c : \E i \in Ids, n \in Nat \ {0} : announces(r, c, i, n, "start")
<1>0. req[r] \in Request /\ callOK(req[r], status)
  BY DEF Typed
<1>1. Target["start"] = "PENDING"
  BY DEF Target
<1>2. CASE startRestarts(r)
  <2>1. req[r].id \in Ids /\ req[r].attempt \in Nat
    BY <1>0, <1>2 DEF startRestarts, callOK, Request
  <2>2. req[r].attempt + 1 \in Nat \ {0}
    BY <2>1
  <2> QED
    BY <1>1, <1>2, <2>1, <2>2, BeginsChanges DEF startRestarts, announces
<1>3. ASSUME NEW i \in Ids, startCreates(r, i)
      PROVE  \E c : \E j \in Ids, n \in Nat \ {0} : announces(r, c, j, n, "start")
  BY <1>1, <1>3, BeginsChanges DEF startCreates, announces
<1> QED
  BY <1>2, <1>3

LEMMA WriteAnnounces ==
    ASSUME Typed, NEW r \in Requests, writes(r)
    PROVE  \E c : \E i \in Ids, op \in Operations :
              announces(r, c, i, attempt[i], op) /\ attempt[i] # 0
<1>0. req[r] \in Request /\ callOK(req[r], status) /\ req[r].pc = "write" /\ req[r].op # "start"
  BY DEF Typed, writes
<1>1. PICK i \in Ids : i = req[r].id /\ status[i] # "NOT_STARTED"
  BY <1>0 DEF callOK
<1>2. PICK op \in Operations : op = req[r].op
  <2>1. mayProceed(req[r].op, req[r].status) /\ req[r].op \in {"none", "look"} \cup Operations
    BY <1>0 DEF callOK, Request
  <2> QED
    BY <2>1, Proceeding
<1>3. attempt[i] \in Nat \ {0}
  BY <1>1 DEF Typed, TablesOK
<1>4. /\ status' = [status EXCEPT ![i] = Target[op]]
      /\ outbox' = outbox \cup (Announces[op] \X {i} \X {attempt[i]})
      /\ UNCHANGED <<attempt, overdue, keyRow, crashes>>
      /\ Target[op] \in ACTIVE_VERIFICATION_STATUSES => indexAllows(i)
      /\ reply(r, i)
  BY <1>1, <1>2 DEF writes, announce, writtenAttempt
<1> DEFINE e == finished(req[r], i, "ok")
<1>5. /\ e \in Request /\ e.op = op /\ e.answer = "ok" /\ e.pc = "done"
  BY <1>0, <1>2 DEF finished, Request
<1>6. req' = [req EXCEPT ![r] = e]
  BY <1>4 DEF reply
<1> HIDE DEF e
<1>7. callOK(e, status') /\ \A rows : answersItsKey(e, rows)
  BY <1>0, <1>2, <1>5 DEF callOK, answersItsKey
<1>8. attempt' = [attempt EXCEPT ![i] = attempt[i]] /\ overdue' \in [Ids -> BOOLEAN]
  BY <1>4 DEF Typed, TablesOK
<1>9. announces(r, e, i, attempt[i], op)
  BY <1>4, <1>5, <1>6, <1>7, <1>8 DEF announces, changes, moves
<1> QED
  BY <1>3, <1>9

\* Call r records its key and is answered.
records(r, c) ==
    /\ moves(r, c)
    /\ c.op = "start" /\ c.key \in Keys
    /\ keyRow[c.key] = NoKeyRow
    /\ keyRow' = [keyRow EXCEPT ![c.key] = [locale |-> c.locale, id |-> c.id]]
    /\ UNCHANGED <<status, attempt, overdue, outbox, crashes>>

LEMMA RecordsItsKey ==
    ASSUME Typed, NEW r \in Requests, startRecordsKey(r)
    PROVE  \E c : records(r, c)
<1>0. req[r] \in Request /\ callOK(req[r], status) /\ req[r].pc = "key"
  BY DEF Typed, startRecordsKey
<1>1. /\ req[r].op = "start" /\ req[r].key \in Keys /\ req[r].id \in Ids
      /\ status' = status
  BY <1>0 DEF callOK, startRecordsKey
<1> DEFINE e == finished(req[r], req[r].id, "ok")
<1>2. /\ e \in Request /\ callOK(e, status) /\ e.op = "start" /\ e.key = req[r].key
      /\ e.locale = req[r].locale /\ e.id = req[r].id
  BY <1>0, <1>1, FinishedOK
<1> HIDE DEF e
<1>3. req' = [req EXCEPT ![r] = e]
  BY DEF startRecordsKey, reply, e
<1>4. moves(r, e)
  BY <1>1, <1>2, <1>3 DEF moves
<1> QED
  BY <1>1, <1>2, <1>4 DEF records, startRecordsKey, keyIsFree

\* Every step is of one of these kinds.
LEMMA StepKinds ==
    ASSUME Typed, [Next]_vars
    PROVE  \/ \E r \in Requests : \E c : quiet(r, c)
           \/ \E r \in Requests : \E c : \E i \in Ids :
                 changes(r, c, i, "EXPIRED", attempt[i], {}) /\ status[i] # "NOT_STARTED"
           \/ \E r \in Requests : \E c : \E i \in Ids, n \in Nat \ {0}, op \in Operations :
                 announces(r, c, i, n, op)
           \/ \E r \in Requests : \E c : records(r, c)
           \/ \E i \in Ids : timePasses(i)
           \/ crash
           \/ UNCHANGED vars
<1>1. ASSUME NEW r \in Requests, writes(r)
      PROVE  \E c : \E i \in Ids, n \in Nat \ {0}, op \in Operations : announces(r, c, i, n, op)
  <2>1. \A i \in Ids : attempt[i] \in Nat
    BY DEF Typed, TablesOK
  <2> QED
    BY <1>1, <2>1, WriteAnnounces
<1>2. ASSUME NEW r \in Requests, startRestarts(r) \/ \E i \in Ids : startCreates(r, i)
      PROVE  \E c : \E i \in Ids, n \in Nat \ {0}, op \in Operations : announces(r, c, i, n, op)
  BY <1>2, StartAnnounces, OperationNames
<1>3. ASSUME NEW r \in Requests, serve(r),
             ~ writes(r), ~ startRestarts(r), ~ \E i \in Ids : startCreates(r, i)
      PROVE  \/ \E c : quiet(r, c)
             \/ \E c : \E i \in Ids :
                   changes(r, c, i, "EXPIRED", attempt[i], {}) /\ status[i] # "NOT_STARTED"
             \/ \E c : records(r, c)
  BY <1>3, ServesQuietly, ExpiryChanges, RecordsItsKey DEF serve
<1> QED
  BY <1>1, <1>2, <1>3, CallsQuietly DEF Next

-----------------------------------------------------------------------------
LEMMA ChangesKeepTypes ==
    ASSUME Typed, NEW r \in Requests, NEW c, NEW i \in Ids, NEW n \in Nat \ {0},
           NEW s \in VERIFICATION_STATUS \ {"NOT_STARTED"}, NEW E \in SUBSET Events,
           changes(r, c, i, s, n, E)
    PROVE  Typed'
<1>1. /\ status' = [status EXCEPT ![i] = s]
      /\ attempt' = [attempt EXCEPT ![i] = n]
      /\ outbox' = outbox \cup (E \X {i} \X {n})
      /\ overdue' \in [Ids -> BOOLEAN]
      /\ UNCHANGED <<keyRow, crashes>>
  BY DEF changes
<1>2. statusesStay
  BY <1>1 DEF Typed, TablesOK, statusesStay
<1>3. /\ status' \in [Ids -> VERIFICATION_STATUS]
      /\ attempt' \in [Ids -> Nat]
      /\ \A j \in Ids : status'[j] = "NOT_STARTED" <=> attempt'[j] = 0
  BY <1>1 DEF Typed, TablesOK
<1>4. outbox' \subseteq (Events \X Ids \X Nat)
  <2>1. E \X {i} \X {n} \subseteq Events \X Ids \X Nat
    OBVIOUS
  <2> QED
    BY <1>1, <2>1 DEF Typed, TablesOK
<1>5. TablesOK'
  BY <1>1, <1>3, <1>4 DEF Typed, TablesOK
<1> QED
  BY <1>2, <1>5, MovesKeepTypes DEF changes

LEMMA CrashCalls ==
    ASSUME Typed, crash, NEW q \in Requests
    PROVE  /\ req'[q] \in Request /\ callOK(req'[q], status')
           /\ \/ req'[q] = req[q]
              \/ req'[q].answer = "lost"
<1>0. req[q] \in Request /\ callOK(req[q], status) /\ status' = status
  BY DEF Typed, crash, tables
<1> DEFINE c == [req[q] EXCEPT !.pc = "done", !.answer = "lost"]
<1>1. /\ c \in Request /\ c.pc = "done" /\ c.answer = "lost" /\ c.op = req[q].op
      /\ c.key = req[q].key /\ c.locale = req[q].locale
  BY <1>0 DEF Request
<1>2. req'[q] = req[q] \/ req'[q] = c
  BY DEF crash
<1> HIDE DEF c
<1> QED
  BY <1>0, <1>1, <1>2 DEF callOK

LEMMA CrashKeepsTypes ==
    ASSUME Typed, crash
    PROVE  Typed'
<1>1. crashes' \in 0..MaxCrashes
  <2>1. crashes \in 0..MaxCrashes /\ MaxCrashes \in Nat
    BY VerificationAssumption DEF Typed, TablesOK
  <2>2. crashes < MaxCrashes /\ crashes' = crashes + 1
    BY DEF crash
  <2> QED
    BY <2>1, <2>2
<1>2. TablesOK'
  BY <1>1 DEF crash, tables, Typed, TablesOK
<1>3. req' \in [Requests -> Request] /\ \A q \in Requests : callOK(req'[q], status')
  BY CrashCalls DEF crash
<1> QED
  BY <1>2, <1>3 DEF Typed

LEMMA RecordsKeepTypes ==
    ASSUME Typed, NEW r \in Requests, NEW c, records(r, c)
    PROVE  Typed'
<1>1. c \in Request /\ statusesStay
  BY DEF records, moves, statusesStay
<1>2. [locale |-> c.locale, id |-> c.id] \in KeyRow
  BY <1>1 DEF Request, KeyRow
<1>3. TablesOK'
  BY <1>2 DEF records, Typed, TablesOK
<1> QED
  BY <1>1, <1>3, MovesKeepTypes DEF records

LEMMA StepTyped == Typed /\ [Next]_vars => Typed'
<1> SUFFICES ASSUME Typed, [Next]_vars PROVE Typed'
  OBVIOUS
<1>1. ASSUME NEW r \in Requests, NEW c, quiet(r, c) PROVE Typed'
  BY <1>1, QuietTables, MovesKeepTypes DEF quiet
<1>2. ASSUME NEW r \in Requests, NEW c, NEW i \in Ids,
             changes(r, c, i, "EXPIRED", attempt[i], {}), status[i] # "NOT_STARTED"
      PROVE  Typed'
  <2>1. attempt[i] \in Nat \ {0} /\ "EXPIRED" \in VERIFICATION_STATUS \ {"NOT_STARTED"}
    BY <1>2 DEF Typed, TablesOK, VERIFICATION_STATUS
  <2> QED
    BY <1>2, <2>1, ChangesKeepTypes
<1>3. ASSUME NEW r \in Requests, NEW c, NEW i \in Ids, NEW n \in Nat \ {0}, NEW op \in Operations,
             announces(r, c, i, n, op)
      PROVE  Typed'
  BY <1>3, TargetsNamed, ChangesKeepTypes DEF announces
<1>4. ASSUME NEW i \in Ids, timePasses(i) PROVE Typed'
  <2>1. overdue' \in [Ids -> BOOLEAN]
    BY <1>4 DEF timePasses, Typed, TablesOK
  <2> QED
    BY <1>4, <2>1 DEF timePasses, Typed, TablesOK
<1>5. CASE UNCHANGED vars
  BY <1>5 DEF vars, Typed, TablesOK
<1> QED
  BY <1>1, <1>2, <1>3, <1>4, <1>5, StepKinds, RecordsKeepTypes, CrashKeepsTypes

LEMMA InitTyped == Init => Typed
<1> SUFFICES ASSUME Init PROVE Typed
  OBVIOUS
<1>1. TablesOK
  BY VerificationAssumption DEF Init, TablesOK, VERIFICATION_STATUS, KeyRow, NoKeyRow
<1> QED
  BY <1>1, IdleRequestType DEF Init, Typed

LEMMA AlwaysTyped == Spec => []Typed
BY InitTyped, StepTyped, PTL DEF Spec

\* Every table keeps its type, and a call works on a request that exists
\* (customer-verification.service.ts:155-560).
THEOREM TypeCorrect == Spec => []TypeOK
BY AlwaysTyped, TypedIsTypeOK, PTL

-----------------------------------------------------------------------------
(* One request under way.                                                     *)

LEMMA ChangesStatuses ==
    ASSUME Typed, NEW r, NEW c, NEW i \in Ids, NEW s, NEW n, NEW E,
           changes(r, c, i, s, n, E)
    PROVE  /\ status'[i] = s /\ attempt'[i] = n
           /\ \A j \in Ids \ {i} : status'[j] = status[j] /\ attempt'[j] = attempt[j]
           /\ outbox \subseteq outbox'
           /\ \A e \in E : <<e, i, n>> \in outbox'
BY DEF changes, Typed, TablesOK

LEMMA AnnouncesStatuses ==
    ASSUME Typed, NEW r, NEW c, NEW i \in Ids, NEW n, NEW op, announces(r, c, i, n, op)
    PROVE  /\ status'[i] = Target[op] /\ attempt'[i] = n /\ outbox \subseteq outbox'
           /\ \A j \in Ids \ {i} : status'[j] = status[j] /\ attempt'[j] = attempt[j]
           /\ \A e \in Announces[op] : <<e, i, n>> \in outbox'
<1>1. changes(r, c, i, Target[op], n, Announces[op])
  BY DEF announces
<1> QED
  BY <1>1, ChangesStatuses

LEMMA StepOneActive == Typed /\ OneActive /\ [Next]_vars => OneActive'
<1> SUFFICES ASSUME Typed, OneActive, [Next]_vars PROVE OneActive'
  OBVIOUS
<1>1. ASSUME NEW r \in Requests, NEW c, NEW i \in Ids,
             changes(r, c, i, "EXPIRED", attempt[i], {})
      PROVE  OneActive'
  BY <1>1, ChangesStatuses DEF OneActive, ACTIVE_VERIFICATION_STATUSES
<1>2. ASSUME NEW r \in Requests, NEW c, NEW i \in Ids, NEW n \in Nat \ {0}, NEW op \in Operations,
             announces(r, c, i, n, op)
      PROVE  OneActive'
  <2>1. /\ status'[i] = Target[op] /\ attempt'[i] = n /\ outbox \subseteq outbox'
        /\ \A j \in Ids \ {i} : status'[j] = status[j] /\ attempt'[j] = attempt[j]
        /\ \A e \in Announces[op] : <<e, i, n>> \in outbox'
    BY <1>2, AnnouncesStatuses
  <2>2. \/ status'[i] \notin ACTIVE_VERIFICATION_STATUSES
        \/ \A j \in Ids \ {i} : status[j] \notin ACTIVE_VERIFICATION_STATUSES
    BY <1>2, <2>1 DEF announces, indexAllows
  <2> QED
    BY <2>1, <2>2 DEF OneActive
<1>3. CASE UNCHANGED status
  BY <1>3 DEF OneActive
<1>4. ASSUME \/ \E r \in Requests : \E c : quiet(r, c) \/ records(r, c)
             \/ (\E i \in Ids : timePasses(i)) \/ crash \/ UNCHANGED vars
      PROVE  UNCHANGED status
  BY <1>4 DEF quiet, tables, records, timePasses, crash, vars
<1> QED
  BY <1>1, <1>2, <1>3, <1>4, StepKinds

\* However starts, retries and decisions race, one request of the customer is under
\* way (customer-verification.service.ts:305-309).
THEOREM OneIsActive == Spec => []OneActive
<1>1. Init => OneActive
  BY DEF Init, OneActive, ACTIVE_VERIFICATION_STATUSES
<1> QED
  BY <1>1, StepOneActive, AlwaysTyped, PTL DEF Spec

-----------------------------------------------------------------------------
(* What the customer is told.                                                 *)

LEMMA StepAnnounced == Typed /\ StatusIsAnnounced /\ [Next]_vars => StatusIsAnnounced'
<1> SUFFICES ASSUME Typed, StatusIsAnnounced, [Next]_vars PROVE StatusIsAnnounced'
  OBVIOUS
<1>0. ASSUME NEW j \in Ids, NEW op \in Operations, Announces[op] # {}, status'[j] = Target[op],
             status'[j] = status[j], attempt'[j] = attempt[j], outbox \subseteq outbox'
      PROVE  \E e \in Announces[op] : <<e, j, attempt'[j]>> \in outbox'
  BY <1>0 DEF StatusIsAnnounced
<1>1. ASSUME NEW r \in Requests, NEW c, NEW i \in Ids,
             changes(r, c, i, "EXPIRED", attempt[i], {})
      PROVE  StatusIsAnnounced'
  <2>1. \A op \in Operations : Target[op] # "EXPIRED"
    BY TargetsNamed
  <2>2. /\ status'[i] = "EXPIRED" /\ outbox \subseteq outbox'
        /\ \A j \in Ids \ {i} : status'[j] = status[j] /\ attempt'[j] = attempt[j]
    BY <1>1, ChangesStatuses
  <2> QED
    BY <1>0, <2>1, <2>2 DEF StatusIsAnnounced
<1>2. ASSUME NEW r \in Requests, NEW c, NEW i \in Ids, NEW n \in Nat \ {0}, NEW p \in Operations,
             announces(r, c, i, n, p)
      PROVE  StatusIsAnnounced'
  <2>1. /\ status'[i] = Target[p] /\ attempt'[i] = n /\ outbox \subseteq outbox'
        /\ \A j \in Ids \ {i} : status'[j] = status[j] /\ attempt'[j] = attempt[j]
        /\ \A e \in Announces[p] : <<e, i, n>> \in outbox'
    BY <1>2, AnnouncesStatuses
  <2>2. \A op \in Operations : Target[op] = Target[p] => op = p
    BY TargetsNamed
  <2> QED
    BY <1>0, <2>1, <2>2 DEF StatusIsAnnounced
<1>3. CASE UNCHANGED <<status, attempt, outbox>>
  BY <1>3 DEF StatusIsAnnounced
<1> QED
  BY <1>1, <1>2, <1>3, StepKinds DEF quiet, tables, records, timePasses, crash, vars

\* The customer has been told of the status the row has and of the attempt it counts
\* (customer-verification.service.ts:258, 289, 447, 497, 544).
THEOREM Announced == Spec => []StatusIsAnnounced
<1>1. Init => StatusIsAnnounced
  <2>1. \A op \in Operations : Target[op] # "NOT_STARTED"
    BY TargetsNamed
  <2> QED
    BY <2>1 DEF Init, StatusIsAnnounced
<1> QED
  BY <1>1, StepAnnounced, AlwaysTyped, PTL DEF Spec

-----------------------------------------------------------------------------
(* What a key stands for.                                                     *)

LEMMA AnswersParts == AnswerIsOfTheKey <=> \A r \in Requests : answersItsKey(req[r], keyRow)
BY DEF AnswerIsOfTheKey, answersItsKey

LEMMA StepAnswers == Typed /\ AnswerIsOfTheKey /\ [Next]_vars => AnswerIsOfTheKey'
<1> SUFFICES ASSUME Typed, AnswerIsOfTheKey, [Next]_vars
             PROVE  \A q \in Requests : answersItsKey(req'[q], keyRow')
  BY DEF AnswerIsOfTheKey, answersItsKey
<1>0. \A q \in Requests : answersItsKey(req[q], keyRow)
  BY AnswersParts
<1>1. ASSUME NEW r \in Requests, NEW c, moves(r, c), UNCHANGED keyRow, answersItsKey(c, keyRow)
      PROVE  \A q \in Requests : answersItsKey(req'[q], keyRow')
  BY <1>0, <1>1, MovesAlone
<1>2. ASSUME NEW r \in Requests, NEW c, records(r, c)
      PROVE  \A q \in Requests : answersItsKey(req'[q], keyRow')
  <2> SUFFICES ASSUME NEW q \in Requests, req'[q].op = "start", req'[q].answer = "ok"
               PROVE  keyRow'[req'[q].key] = [locale |-> req'[q].locale, id |-> req'[q].id]
    BY DEF answersItsKey
  <2>1. /\ c.key \in Keys /\ keyRow[c.key] = NoKeyRow
        /\ keyRow' = [keyRow EXCEPT ![c.key] = [locale |-> c.locale, id |-> c.id]]
        /\ keyRow \in [Keys -> KeyRow]
    BY <1>2 DEF records, Typed, TablesOK
  <2>2. req'[r] = c /\ \A p \in Requests \ {r} : req'[p] = req[p]
    BY <1>2, MovesAlone DEF records
  <2>3. CASE q = r
    BY <2>1, <2>2, <2>3
  <2>4. CASE q # r
    <3>1. req'[q] = req[q] /\ keyRow[req[q].key] = [locale |-> req[q].locale, id |-> req[q].id]
      BY <1>0, <2>2, <2>4 DEF answersItsKey
    <3>2. req[q].locale \in Locales /\ req[q].key \in Keys
      BY <3>1 DEF Typed, callOK
    <3>3. req[q].key # c.key
      BY <2>1, <3>1, <3>2, VerificationAssumption DEF NoKeyRow
    <3> QED
      BY <2>1, <3>1, <3>2, <3>3
  <2> QED
    BY <2>3, <2>4
<1>3. CASE crash
  <2>1. UNCHANGED keyRow
    BY <1>3 DEF crash, tables
  <2>2. \A q \in Requests : req'[q] = req[q] \/ req'[q].answer = "lost"
    BY <1>3, CrashCalls
  <2> QED
    BY <1>0, <2>1, <2>2 DEF answersItsKey
<1>4. CASE UNCHANGED <<keyRow, req>>
  BY <1>0, <1>4
<1>5. ASSUME NEW r \in Requests, NEW c, quiet(r, c)
      PROVE  \A q \in Requests : answersItsKey(req'[q], keyRow')
  BY <1>1, <1>5 DEF quiet, tables
<1>6. ASSUME NEW r \in Requests, NEW c, NEW i, NEW s, NEW n, NEW E, changes(r, c, i, s, n, E)
      PROVE  \A q \in Requests : answersItsKey(req'[q], keyRow')
  BY <1>1, <1>6 DEF changes
<1> QED
  BY <1>2, <1>3, <1>4, <1>5, <1>6, StepKinds DEF announces, timePasses, vars

\* A start call that is answered names the request its key stands for, and was made
\* with the same body (customer-verification.service.ts:216-231, 349-364).
THEOREM AnswersKeys == Spec => []AnswerIsOfTheKey
<1>1. Init => AnswerIsOfTheKey
  BY DEF Init, AnswerIsOfTheKey, IdleRequest
<1> QED
  BY <1>1, StepAnswers, AlwaysTyped, PTL DEF Spec
=============================================================================
