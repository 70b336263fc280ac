------------------------- MODULE NotificationOutbox -------------------------
(* From the outbox to the inboxes (notifications.service.ts).                 *)
(*                                                                            *)
(* Business transactions enqueue events; after every commit, and on request   *)
(* of an administrator, a dispatch pass reads the pending rows and delivers   *)
(* them one after the other. Nothing keeps two passes apart: each step of a   *)
(* pass is one await, and passes interleave.                                  *)
EXTENDS Naturals, FiniteSets

CONSTANTS
    Users,
    Events,        \* outbox rows, 1..n in the order of createdAt
    recipientOf,   \* recipientUserId of an event, or Permission
    Permission,    \* the event goes to every user who holds its permissionKey
    StaffUsers,    \* the users who hold it
    Passes,        \* dispatch passes that may run side by side
    MaxAttempts,   \* NOTIFICATION_LIMITS.maxAttempts
    Batch,         \* NOTIFICATION_LIMITS.outboxBatch
    MaxRecipients, \* NOTIFICATION_LIMITS.maxLimit * 10: holders of a permission read
    MaxFailures,   \* bound: how often delivering one event may fail
    MaxCrashes     \* bound: how often the server stops and is restarted

NoEvent == 0
NoOne == "no one"

ASSUME OutboxAssumption ==
    /\ Events \subseteq Nat \ {0}
    /\ StaffUsers \subseteq Users
    /\ recipientOf \in [Events -> Users \cup {Permission}]
    /\ MaxAttempts \in Nat \ {0}
    /\ Batch \in Nat \ {0}
    /\ MaxRecipients \in Nat \ {0}
    /\ MaxFailures \in Nat
    /\ MaxCrashes \in Nat

VARIABLES
    status,        \* notification_outbox.status, "NONE" before it is enqueued
    attempts,      \* notification_outbox.attempts
    delayed,       \* notification_outbox.available_at lies ahead
    inbox,         \* notifications: deliveryStatus by user and event
    muted,         \* users who disabled the staff types (notification_preferences)
    pass,          \* local state of the dispatch passes
    failures,      \* how often delivering an event has failed
    deliveries,    \* how often the provider was handed a notification
    mutedOnce,     \* users who were ever muted
    crashes

vars == <<status, attempts, delayed, inbox, muted, pass, failures, deliveries, mutedOnce, crashes>>
ghosts == <<failures, deliveries, mutedOnce, crashes>>

-----------------------------------------------------------------------------
Pass ==
    [pc : {"idle", "next", "look", "create", "deliver", "update", "retry"},
     rows : SUBSET Events,          \* read at the start and not yet dealt with
     seen : [Events -> Nat],        \* attempts as they were read
     event : Events \cup {NoEvent},
     who : SUBSET Users,            \* recipients of the event, as this pass read them
     todo : SUBSET Users,           \* recipients not yet dealt with
     user : Users \cup {NoOne}]

NoPass ==
    [pc |-> "idle", rows |-> {}, seen |-> [e \in Events |-> 0],
     event |-> NoEvent, who |-> {}, todo |-> {}, user |-> NoOne]

TypeOK ==
    /\ status \in [Events -> {"NONE", "PENDING", "PROCESSED", "FAILED"}]
    /\ attempts \in [Events -> 0..MaxAttempts]
    /\ delayed \in [Events -> BOOLEAN]
    /\ inbox \in [Users -> [Events -> {"NONE", "PENDING", "DELIVERED"}]]
    /\ muted \subseteq StaffUsers
    /\ pass \in [Passes -> Pass]
    /\ failures \in [Events -> 0..MaxFailures]
    /\ deliveries \in [Users -> [Events -> Nat]]
    /\ mutedOnce \subseteq StaffUsers
    /\ crashes \in 0..MaxCrashes

Init ==
    /\ status = [e \in Events |-> "NONE"]
    /\ attempts = [e \in Events |-> 0]
    /\ delayed = [e \in Events |-> FALSE]
    /\ inbox = [u \in Users |-> [e \in Events |-> "NONE"]]
    /\ muted = {}
    /\ pass = [d \in Passes |-> NoPass]
    /\ failures = [e \in Events |-> 0]
    /\ deliveries = [u \in Users |-> [e \in Events |-> 0]]
    /\ mutedOnce = {}
    /\ crashes = 0

isStaffEvent(e) == recipientOf[e] = Permission

\* findMany with take and no order: all there are, or any MaxRecipients of them.
taken(users) ==
    IF Cardinality(users) <= MaxRecipients THEN {users}
    ELSE {who \in SUBSET users : Cardinality(who) = MaxRecipients}

\* The lists of recipients a pass may work on.
recipientLists(e) == IF isStaffEvent(e) THEN taken(StaffUsers) ELSE {{recipientOf[e]}}

\* A business transaction commits with its event; enqueueing it again is a no-op.
enqueue(e) ==
    /\ status[e] = "NONE"
    /\ \A i \in Events : i < e => status[i] # "NONE"
    /\ status' = [status EXCEPT ![e] = "PENDING"]
    /\ UNCHANGED <<attempts, delayed, inbox, muted, pass, ghosts>>

-----------------------------------------------------------------------------
(* A pass.                                                                    *)

due == {e \in Events : status[e] = "PENDING" /\ ~ delayed[e] /\ attempts[e] < MaxAttempts}
oldest(rows, limit) == {e \in rows : Cardinality({i \in rows : i < e}) < limit}

\* After a commit a pass takes up to Batch rows; an administrator may ask for less.
startPass(d, limit) ==
    /\ pass[d].pc = "idle"
    /\ due # {}
    /\ pass' = [pass EXCEPT ![d] = [NoPass EXCEPT
                  !.pc = "next", !.rows = oldest(due, limit), !.seen = attempts]]
    /\ UNCHANGED <<status, attempts, delayed, inbox, muted, ghosts>>

takeRow(d) ==
    /\ pass[d].pc = "next"
    /\ \E e \in pass[d].rows :
          /\ \A i \in pass[d].rows : e <= i
          /\ pass' = [pass EXCEPT ![d].pc = "look", ![d].event = e, ![d].rows = @ \ {e}]
    /\ UNCHANGED <<status, attempts, delayed, inbox, muted, ghosts>>

endPass(d) ==
    /\ pass[d].pc = "next"
    /\ pass[d].rows = {}
    /\ pass' = [pass EXCEPT ![d] = NoPass]
    /\ UNCHANGED <<status, attempts, delayed, inbox, muted, ghosts>>

\* The recipients are read, then who of them has the notification already and who
\* does not want it.
looksUpRecipients(d) ==
    /\ pass[d].pc = "look"
    /\ LET e == pass[d].event
       IN  \E who \in recipientLists(e) :
              pass' = [pass EXCEPT ![d].pc = "create", ![d].who = who,
                         ![d].todo = {u \in who : /\ inbox[u][e] = "NONE"
                                                  /\ isStaffEvent(e) => u \notin muted}]
    /\ UNCHANGED <<status, attempts, delayed, inbox, muted, ghosts>>

\* A faulty variant: the duplicate is handed to the provider all the same.
createsAnyway(d, u) ==
    /\ pass[d].pc = "create"
    /\ u \in pass[d].todo
    /\ LET e == pass[d].event
       IN  inbox' = [inbox EXCEPT ![u][e] = IF @ = "NONE" THEN "PENDING" ELSE @]
    /\ pass' = [pass EXCEPT ![d].pc = "deliver", ![d].user = u]
    /\ UNCHANGED <<status, attempts, delayed, muted, ghosts>>

\* The insert of one notification; a pass that was faster wins the unique index.
creates(d, u) ==
    /\ pass[d].pc = "create"
    /\ u \in pass[d].todo
    /\ LET e == pass[d].event
       IN  IF inbox[u][e] = "NONE"
           THEN /\ inbox' = [inbox EXCEPT ![u][e] = "PENDING"]
                /\ pass' = [pass EXCEPT ![d].pc = "deliver", ![d].user = u]
           ELSE /\ pass' = [pass EXCEPT ![d].todo = @ \ {u}]
                /\ UNCHANGED inbox
    /\ UNCHANGED <<status, attempts, delayed, muted, ghosts>>

\* The in-app provider never refuses a notification.
delivers(d) ==
    /\ pass[d].pc = "deliver"
    /\ deliveries' = [deliveries EXCEPT ![pass[d].user][pass[d].event] = @ + 1]
    /\ pass' = [pass EXCEPT ![d].pc = "update"]
    /\ UNCHANGED <<status, attempts, delayed, inbox, muted, failures, mutedOnce, crashes>>

marksDelivered(d) ==
    /\ pass[d].pc = "update"
    /\ inbox' = [inbox EXCEPT ![pass[d].user][pass[d].event] = "DELIVERED"]
    /\ pass' = [pass EXCEPT ![d].pc = "create", ![d].todo = @ \ {pass[d].user}]
    /\ UNCHANGED <<status, attempts, delayed, muted, ghosts>>

\* A faulty variant: the row is done as soon as one recipient was dealt with.
marksProcessedEarly(d) ==
    /\ pass[d].pc = "create"
    /\ \/ pass[d].todo = {}
       \/ \E u \in pass[d].who : inbox[u][pass[d].event] # "NONE"
    /\ status' = [status EXCEPT ![pass[d].event] = "PROCESSED"]
    /\ pass' = [pass EXCEPT ![d].pc = "next"]
    /\ UNCHANGED <<attempts, delayed, inbox, muted, ghosts>>

marksProcessed(d) ==
    /\ pass[d].pc = "create"
    /\ pass[d].todo = {}
    /\ status' = [status EXCEPT ![pass[d].event] = "PROCESSED"]
    /\ pass' = [pass EXCEPT ![d].pc = "next"]
    /\ UNCHANGED <<attempts, delayed, inbox, muted, ghosts>>

\* The database fails one of the statements of delivering a row. At "deliver" the
\* insert was committed and its answer is lost.
fails(d) ==
    /\ pass[d].pc \in {"look", "create", "deliver", "update"}
    /\ failures[pass[d].event] < MaxFailures
    /\ failures' = [failures EXCEPT ![pass[d].event] = @ + 1]
    /\ pass' = [pass EXCEPT ![d].pc = "retry"]
    /\ UNCHANGED <<status, attempts, delayed, inbox, muted, deliveries, mutedOnce, crashes>>

\* A faulty variant: gives up one attempt early.
givesUpEarly(n) == n + 1 >= MaxAttempts

\* A faulty variant: after its last attempt a row stays PENDING and is never read again.
neverGivesUp(n) == FALSE

givesUp(n) == n >= MaxAttempts

\* A faulty variant: the row's own count is incremented, and not looked at.
recordsOneMore(d) ==
    /\ pass[d].pc = "retry"
    /\ LET e == pass[d].event
       IN  /\ attempts' = [attempts EXCEPT ![e] = @ + 1]
           /\ status' = [status EXCEPT ![e] = IF givesUp(attempts[e] + 1) THEN "FAILED" ELSE "PENDING"]
           /\ delayed' = [delayed EXCEPT ![e] = TRUE]
    /\ pass' = [pass EXCEPT ![d].pc = "next"]
    /\ UNCHANGED <<inbox, muted, ghosts>>

\* The failure is recorded from the attempts the pass read at its start, whatever
\* another pass has made of the row since.
recordsFailure(d) ==
    /\ pass[d].pc = "retry"
    /\ LET e == pass[d].event
           n == pass[d].seen[e] + 1
       IN  /\ attempts' = [attempts EXCEPT ![e] = n]
           /\ status' = [status EXCEPT ![e] = IF givesUp(n) THEN "FAILED" ELSE "PENDING"]
           /\ delayed' = [delayed EXCEPT ![e] = TRUE]
    /\ pass' = [pass EXCEPT ![d].pc = "next"]
    /\ UNCHANGED <<inbox, muted, ghosts>>

\* That write fails too: the pass ends.
failsToRecord(d) ==
    /\ pass[d].pc = "retry"
    /\ failures[pass[d].event] < MaxFailures
    /\ failures' = [failures EXCEPT ![pass[d].event] = @ + 1]
    /\ pass' = [pass EXCEPT ![d] = NoPass]
    /\ UNCHANGED <<status, attempts, delayed, inbox, muted, deliveries, mutedOnce, crashes>>

-----------------------------------------------------------------------------
(* Around the passes.                                                         *)

\* attempts seconds later the row is available again.
timePasses(e) ==
    /\ delayed[e]
    /\ delayed' = [delayed EXCEPT ![e] = FALSE]
    /\ UNCHANGED <<status, attempts, inbox, muted, pass, ghosts>>

\* PATCH /notifications/preferences, for a type that may be disabled.
updatePreference(u) ==
    /\ muted' = IF u \in muted THEN muted \ {u} ELSE muted \cup {u}
    /\ mutedOnce' = mutedOnce \cup {u}
    /\ UNCHANGED <<status, attempts, delayed, inbox, pass, failures, deliveries, crashes>>

crash ==
    /\ crashes < MaxCrashes
    /\ crashes' = crashes + 1
    /\ pass' = [d \in Passes |-> NoPass]
    /\ UNCHANGED <<status, attempts, delayed, inbox, muted, failures, deliveries, mutedOnce>>

startsPass(d) == \E limit \in 1..Batch : startPass(d, limit)

\* What a pass does by itself once it was started.
proceed(d) ==
    \/ takeRow(d) \/ endPass(d) \/ looksUpRecipients(d)
    \/ \E u \in Users : creates(d, u)
    \/ delivers(d) \/ marksDelivered(d) \/ marksProcessed(d) \/ recordsFailure(d)

Next ==
    \/ \E e \in Events : enqueue(e) \/ timePasses(e)
    \/ \E d \in Passes : startsPass(d) \/ proceed(d) \/ fails(d) \/ failsToRecord(d)
    \/ \E u \in StaffUsers : updatePreference(u)
    \/ crash

Spec == Init /\ [][Next]_vars

\* A pass that runs goes on, time passes, and business goes on: the passes are
\* started by the commits to come, for the code has no timer of its own.
Fairness ==
    /\ \A d \in Passes : WF_vars(proceed(d)) /\ WF_vars(startsPass(d))
    /\ \A e \in Events : WF_vars(timePasses(e))

FairSpec == Spec /\ Fairness

-----------------------------------------------------------------------------
(* What must hold.                                                            *)

\* A row is only marked processed when all the recipients that the last pass read
\* have the notification, whichever passes shared the work, failed or stopped half
\* way: the customer of a transactional event; of the staff as many as are read at
\* once, but for those who ever muted the type (notifications.service.ts:145-248).
\* It is only given up when it has failed maxAttempts times, though passes overwrite
\* each other's count (notifications-architecture.md:60).
SettledWithReason ==
    \A e \in Events :
        /\ status[e] = "PROCESSED" =>
              \E who \in recipientLists(e) : \A u \in who :
                  (isStaffEvent(e) => u \notin mutedOnce) => inbox[u][e] # "NONE"
        /\ status[e] = "FAILED" => failures[e] >= MaxAttempts

\* Whatever passes race and retry, a notification is handed to the provider at
\* most once (notifications-architecture.md:55-56).
DeliveredAtMostOnce == \A u \in Users, e \in Events : deliveries[u][e] <= 1

\* As long as business goes on, every committed event is settled in the end:
\* delivered, or given up; no stale write leaves it in the queue for ever
\* (notifications.service.ts:103-143).
EveryEventSettles ==
    \A e \in Events : status[e] = "PENDING" ~> status[e] \in {"PROCESSED", "FAILED"}

-----------------------------------------------------------------------------
(* What the repository says of the program and the code does not keep.        *)

\* notifications.service.ts:34-35: a pass "creates the notification, hands it to the
\* IN_APP provider and marks the outbox row processed": once the row is processed,
\* every notification it has was handed to the provider, or a pass is about to.
ProcessedIsHandedOver ==
    \A e \in Events, u \in Users :
        status[e] = "PROCESSED" /\ inbox[u][e] # "NONE" =>
            \/ deliveries[u][e] > 0
            \/ \E d \in Passes :
                  pass[d].pc = "deliver" /\ pass[d].event = e /\ pass[d].user = u
=============================================================================
