------------------------ MODULE CustomerVerification ------------------------
(* Verification of a customer's identity (customer-verification.service.ts):  *)
(* the customer starts, retries and cancels; employees review and decide; an  *)
(* unanswered request expires the next time someone looks at it.              *)
(*                                                                            *)
(* Customers share nothing here, so there is one. A call reads the request,   *)
(* checks what it read, and writes later without looking again.               *)
EXTENDS Naturals

CONSTANTS
    Ids,           \* ids of customer_verifications, 1..n by createdAt
    Keys,          \* values of the Idempotency-Key header
    Locales,       \* dto.locale, the body of a start call
    Requests,      \* bound: the HTTP calls made in a behaviour
    MaxCrashes     \* bound: how often the server stops and is restarted

NoId == 0
NoLocale == "none"

ASSUME VerificationAssumption ==
    /\ Ids \subseteq Nat \ {NoId}
    /\ NoLocale \notin Locales
    /\ MaxCrashes \in Nat

VARIABLES
    status,        \* customer_verifications.status, "NOT_STARTED" without a row
    attempt,       \* customer_verifications.attempt, 0 without a row
    overdue,       \* expires_at has passed
    keyRow,        \* idempotency_keys with scope VERIFICATION
    outbox,        \* notification_outbox rows: <<type, id, attempt>>
    req,           \* local state of the HTTP calls
    crashes

vars == <<status, attempt, overdue, keyRow, outbox, req, crashes>>
tables == <<status, attempt, overdue, keyRow, outbox>>

-----------------------------------------------------------------------------
(* customer-verification.constants.ts                                         *)

VERIFICATION_STATUS ==
    {"NOT_STARTED", "PENDING", "IN_REVIEW", "VERIFIED", "REJECTED", "EXPIRED", "CANCELLED"}

VERIFICATION_TRANSITIONS ==
    [s \in VERIFICATION_STATUS |->
        CASE s = "NOT_STARTED" -> {"PENDING"}
          [] s = "PENDING"     -> {"IN_REVIEW", "CANCELLED", "EXPIRED"}
          [] s = "IN_REVIEW"   -> {"VERIFIED", "REJECTED", "CANCELLED"}
          [] s = "REJECTED"    -> {"PENDING"}
          [] s = "EXPIRED"     -> {"PENDING"}
          [] OTHER             -> {}]

canTransitionVerification(from, to) == to \in VERIFICATION_TRANSITIONS[from]

ACTIVE_VERIFICATION_STATUSES == {"PENDING", "IN_REVIEW"}
RETRYABLE_VERIFICATION_STATUSES == {"REJECTED", "EXPIRED"}

\* What the operations make of a request, and the event that goes with it.
Target ==
    [start  |-> "PENDING",  cancel |-> "CANCELLED", review |-> "IN_REVIEW",
     verify |-> "VERIFIED", reject |-> "REJECTED"]
Announces ==
    [start  |-> {"VERIFICATION_STARTED"},  cancel |-> {},
     review |-> {"VERIFICATION_REVIEWED"}, verify |-> {"VERIFICATION_VERIFIED"},
     reject |-> {"VERIFICATION_REJECTED"}]

Operations == DOMAIN Target
Employee == {"review", "verify", "reject"}

\* The checks the operations make on the status they read; a look has none.
mayProceed(op, s) ==
    CASE op = "start"    -> s \in RETRYABLE_VERIFICATION_STATUSES \cup {"NOT_STARTED"}
      [] op = "cancel"   -> s \in ACTIVE_VERIFICATION_STATUSES
      [] op \in Employee -> canTransitionVerification(s, Target[op])
      [] OTHER           -> FALSE

-----------------------------------------------------------------------------
Request ==
    [pc : {"idle", "read", "expire", "write", "key", "lost", "done"},
     op : {"none", "look"} \cup Operations,
     key : Keys \cup {"none"},
     locale : Locales \cup {NoLocale},
     id : Ids \cup {NoId},
     status : VERIFICATION_STATUS,    \* as it was read
     attempt : Nat,                   \* as it was read
     answer : {"none", "ok", "refused", "lost"}]

IdleRequest ==
    [pc |-> "idle", op |-> "none", key |-> "none", locale |-> NoLocale, id |-> NoId,
     status |-> "NOT_STARTED", attempt |-> 0, answer |-> "none"]

KeyRow == [locale : Locales \cup {NoLocale}, id : Ids \cup {NoId}]
NoKeyRow == [locale |-> NoLocale, id |-> NoId]

Events == UNION {Announces[op] : op \in Operations}

\* Only what exists is worked on, and what exists has been attempted.
CallsOK ==
    /\ \A i \in Ids : status[i] = "NOT_STARTED" <=> attempt[i] = 0
    /\ \A r \in Requests :
        /\ req[r].answer = "none" <=> req[r].pc # "done"
        /\ req[r].pc \in {"read", "key", "lost"} => req[r].op = "start"
        /\ req[r].op = "start" => req[r].key \in Keys /\ req[r].locale \in Locales
        /\ req[r].pc = "write" => mayProceed(req[r].op, req[r].status)
        /\ req[r].pc \in {"expire", "key"} => status[req[r].id] # "NOT_STARTED"

TypeOK ==
    /\ status \in [Ids -> VERIFICATION_STATUS]
    /\ attempt \in [Ids -> Nat]
    /\ overdue \in [Ids -> BOOLEAN]
    /\ keyRow \in [Keys -> KeyRow]
    /\ outbox \subseteq (Events \X Ids \X Nat)
    /\ req \in [Requests -> Request]
    /\ crashes \in 0..MaxCrashes
    /\ CallsOK

Init ==
    /\ status = [i \in Ids |-> "NOT_STARTED"]
    /\ attempt = [i \in Ids |-> 0]
    /\ overdue = [i \in Ids |-> FALSE]
    /\ keyRow = [k \in Keys |-> NoKeyRow]
    /\ outbox = {}
    /\ req = [r \in Requests |-> IdleRequest]
    /\ crashes = 0

finished(call, i, answer) == [call EXCEPT !.pc = "done", !.id = i, !.answer = answer]
reply(r, i) == req' = [req EXCEPT ![r] = finished(@, i, "ok")]
refuse(r) == req' = [req EXCEPT ![r] = finished(@, NoId, "refused")]

-----------------------------------------------------------------------------
(* Reading, and lazy expiry.                                                  *)

exists(i) == status[i] # "NOT_STARTED"
isLatest(i) == exists(i) /\ \A j \in Ids : exists(j) => j <= i
none == \A i \in Ids : ~ exists(i)

\* A faulty variant: the operations do not check the status they read.
decidedUnchecked(call) ==
    IF call.op = "look" THEN finished(call, call.id, "ok") ELSE [call EXCEPT !.pc = "write"]

\* What becomes of a call that knows the status: a look is answered.
decided(call) ==
    IF call.op = "look" THEN finished(call, call.id, "ok")
    ELSE IF mayProceed(call.op, call.status) THEN [call EXCEPT !.pc = "write"]
    ELSE finished(call, NoId, "refused")

\* An active row past expiresAt expires, if the state machine lets it.
expiresNow(i) ==
    /\ overdue[i]
    /\ status[i] \in ACTIVE_VERIFICATION_STATUSES
    /\ canTransitionVerification(status[i], "EXPIRED")

reads(r, call, i) ==
    /\ LET read == [call EXCEPT !.id = i, !.status = status[i], !.attempt = attempt[i]]
       IN  req' = [req EXCEPT ![r] =
                     IF expiresNow(i) THEN [read EXCEPT !.pc = "expire"] ELSE decided(read)]
    /\ UNCHANGED <<tables, crashes>>

\* The update of lazy expiry: by id, whatever the row has become meanwhile.
applyLazyExpiry(r) ==
    /\ req[r].pc = "expire"
    /\ status' = [status EXCEPT ![req[r].id] = "EXPIRED"]
    /\ req' = [req EXCEPT ![r] = decided(
                 [@ EXCEPT !.status = "EXPIRED", !.attempt = attempt[req[r].id]])]
    /\ UNCHANGED <<attempt, overdue, keyRow, outbox, crashes>>

\* POST /verification/start looks up its key first.
startLooksUpKey(r, k, l) ==
    /\ req[r].pc = "idle"
    /\ LET call == [IdleRequest EXCEPT !.op = "start", !.key = k, !.locale = l]
       IN  req' = [req EXCEPT ![r] =
             IF keyRow[k] = NoKeyRow THEN [call EXCEPT !.pc = "read"]
             ELSE IF keyRow[k].locale = l THEN finished(call, keyRow[k].id, "ok")
             ELSE finished(call, NoId, "refused")]
    /\ UNCHANGED <<tables, crashes>>

startReads(r) ==
    /\ req[r].pc = "read"
    /\ \/ \E i \in Ids : isLatest(i) /\ reads(r, req[r], i)
       \/ none /\ req' = [req EXCEPT ![r].pc = "write"] /\ UNCHANGED <<tables, crashes>>

\* The calls that begin by reading: GET /verification/me and /:id, cancel, and
\* those of the employees.
look(r, i) ==
    req[r].pc = "idle" /\ exists(i) /\ reads(r, [IdleRequest EXCEPT !.op = "look"], i)
cancel(r, i) ==
    req[r].pc = "idle" /\ isLatest(i) /\ reads(r, [IdleRequest EXCEPT !.op = "cancel"], i)
decide(r, op, i) ==
    req[r].pc = "idle" /\ exists(i) /\ reads(r, [IdleRequest EXCEPT !.op = op], i)

-----------------------------------------------------------------------------
(* Writing.                                                                   *)

\* A faulty variant: the partial unique index is missing.
indexMissing(i) == TRUE

\* The partial unique index lets row i become active.
indexAllows(i) == \A j \in Ids \ {i} : status[j] \notin ACTIVE_VERIFICATION_STATUSES

isNextId(i) == ~ exists(i) /\ \A j \in Ids : j < i => exists(j)

announce(op, i, n) == outbox' = outbox \cup (Announces[op] \X {i} \X {n})

\* The transactions of start: a new row, or the old one again with the next
\* attempt; the key is recorded afterwards.
begins(r, i, n) ==
    /\ indexAllows(i)
    /\ status' = [status EXCEPT ![i] = "PENDING"]
    /\ attempt' = [attempt EXCEPT ![i] = n]
    /\ overdue' = [overdue EXCEPT ![i] = FALSE]
    /\ announce("start", i, n)
    /\ req' = [req EXCEPT ![r] = [@ EXCEPT !.pc = "key", !.id = i]]
    /\ UNCHANGED <<keyRow, crashes>>

startCreates(r, i) ==
    /\ req[r].pc = "write" /\ req[r].op = "start" /\ req[r].status = "NOT_STARTED"
    /\ isNextId(i)
    /\ begins(r, i, 1)

startRestarts(r) ==
    /\ req[r].pc = "write" /\ req[r].op = "start" /\ req[r].status # "NOT_STARTED"
    /\ begins(r, req[r].id, req[r].attempt + 1)

\* A faulty variant: the event names the attempt the call read at its start.
readAttempt(r) == req[r].attempt

\* The event names the attempt that the update returns.
writtenAttempt(r) == attempt[req[r].id]

\* The update of cancel, review, verify and reject: by id and nothing else.
writes(r) ==
    /\ req[r].pc = "write" /\ req[r].op # "start"
    /\ Target[req[r].op] \in ACTIVE_VERIFICATION_STATUSES => indexAllows(req[r].id)
    /\ status' = [status EXCEPT ![req[r].id] = Target[req[r].op]]
    /\ announce(req[r].op, req[r].id, writtenAttempt(r))
    /\ reply(r, req[r].id)
    /\ UNCHANGED <<attempt, overdue, keyRow, crashes>>

\* Another row is active: P2002.
writeRefused(r) ==
    /\ req[r].pc = "write"
    /\ Target[req[r].op] \in ACTIVE_VERIFICATION_STATUSES
    /\ ~ indexAllows(req[r].id)
    /\ refuse(r)
    /\ UNCHANGED <<tables, crashes>>

\* A faulty variant: the unique index on (user, scope, key) is missing.
keyAlwaysFree(r) == TRUE

keyIsFree(r) == keyRow[req[r].key] = NoKeyRow

startRecordsKey(r) ==
    /\ req[r].pc = "key"
    /\ keyIsFree(r)
    /\ keyRow' = [keyRow EXCEPT ![req[r].key] = [locale |-> req[r].locale, id |-> req[r].id]]
    /\ reply(r, req[r].id)
    /\ UNCHANGED <<status, attempt, overdue, outbox, crashes>>

startLosesKey(r) ==
    /\ req[r].pc = "key"
    /\ ~ keyIsFree(r)
    /\ req' = [req EXCEPT ![r].pc = "lost"]
    /\ UNCHANGED <<tables, crashes>>

startAnswersLoser(r) ==
    /\ req[r].pc = "lost"
    /\ IF keyRow[req[r].key].locale = req[r].locale
       THEN reply(r, keyRow[req[r].key].id)
       ELSE refuse(r)
    /\ UNCHANGED <<tables, crashes>>

-----------------------------------------------------------------------------
\* expires_at passes; it matters for a request that is under way.
timePasses(i) ==
    /\ overdue' = [overdue EXCEPT ![i] = @ \/ status[i] \in ACTIVE_VERIFICATION_STATUSES]
    /\ UNCHANGED <<status, attempt, keyRow, outbox, req, crashes>>

crash ==
    /\ crashes < MaxCrashes
    /\ crashes' = crashes + 1
    /\ req' = [r \in Requests |->
                 IF req[r].pc \in {"idle", "done"} THEN req[r]
                 ELSE [req[r] EXCEPT !.pc = "done", !.answer = "lost"]]
    /\ UNCHANGED tables

serve(r) ==
    \/ applyLazyExpiry(r) \/ startReads(r) \/ startRestarts(r)
    \/ \E i \in Ids : startCreates(r, i)
    \/ writes(r) \/ writeRefused(r)
    \/ startRecordsKey(r) \/ startLosesKey(r) \/ startAnswersLoser(r)

call(r) ==
    \/ \E k \in Keys, l \in Locales : startLooksUpKey(r, k, l)
    \/ \E i \in Ids : look(r, i) \/ cancel(r, i)
    \/ \E op \in Employee, i \in Ids : decide(r, op, i)

Next ==
    \/ \E r \in Requests : call(r) \/ serve(r)
    \/ \E i \in Ids : timePasses(i)
    \/ crash

Spec == Init /\ [][Next]_vars

-----------------------------------------------------------------------------
(* What must hold.                                                            *)

\* However starts, retries and late decisions race, one request of the customer
\* is under way (customer-verification.service.ts:305-309).
OneActive ==
    \A i, j \in Ids :
        /\ status[i] \in ACTIVE_VERIFICATION_STATUSES
        /\ status[j] \in ACTIVE_VERIFICATION_STATUSES
        => i = j

\* The customer has been told of the status the row has, of the attempt it counts,
\* even when it was written by a call that had read an earlier attempt
\* (customer-verification.service.ts:258, 289, 447, 497, 544).
StatusIsAnnounced ==
    \A i \in Ids, op \in Operations :
        status[i] = Target[op] /\ Announces[op] # {} =>
            \E e \in Announces[op] : <<e, i, attempt[i]>> \in outbox

\* A start call that is answered names the request its key stands for, and was
\* made with the same body (customer-verification.service.ts:216-231, 349-364).
AnswerIsOfTheKey ==
    \A r \in Requests : req[r].op = "start" /\ req[r].answer = "ok" =>
        keyRow[req[r].key] = [locale |-> req[r].locale, id |-> req[r].id]
=============================================================================
