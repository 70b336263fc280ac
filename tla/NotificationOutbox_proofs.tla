---------------------- MODULE NotificationOutbox_proofs ----------------------
(* Theorems about NotificationOutbox.                                         *)
EXTENDS NotificationOutbox, TLAPS

\* Who of the recipients a pass read must have the notification, or still get it:
\* everyone in a customer's event, and those who never muted the type, m being those
\* who did.
owed(e, who, m) == {u \in who : isStaffEvent(e) => u \notin m}

AtWork == {"look", "create", "deliver", "update", "retry"}

\* What a pass carries, over the failures f, the inboxes b and the muted users m.
passOK(c, f, b, m) ==
    /\ \A e \in c.rows : c.seen[e] < MaxAttempts /\ c.seen[e] <= f[e]
    /\ c.pc \in AtWork =>
          c.event \in Events /\ c.seen[c.event] < MaxAttempts /\ c.seen[c.event] <= f[c.event]
    /\ c.pc = "retry" => c.seen[c.event] < f[c.event]
    /\ c.pc \in {"create", "deliver", "update"} =>
          /\ c.who \in recipientLists(c.event)
          /\ \A u \in owed(c.event, c.who, m) : b[u][c.event] # "NONE" \/ u \in c.todo
    /\ c.pc \in {"deliver", "update"} => c.user \in Users
    /\ c.pc = "deliver" => b[c.user][c.event] # "NONE"

TablesOK ==
    /\ status \in [Events -> {"NONE", "PENDING", "PROCESSED", "FAILED"}]
    /\ attempts \in [Events -> 0..MaxAttempts]
    /\ delayed \in [Events -> BOOLEAN]
    /\ inbox \in [Users -> [Events -> {"NONE", "PENDING", "DELIVERED"}]]
    /\ muted \subseteq StaffUsers
    /\ failures \in [Events -> 0..MaxFailures]
    /\ deliveries \in [Users -> [Events -> Nat]]
    /\ mutedOnce \subseteq StaffUsers
    /\ crashes \in 0..MaxCrashes

\* A failure is counted when it happens and recorded later, from what was read before.
CountsOK ==
    /\ \A e \in Events : attempts[e] <= failures[e]
    /\ muted \subseteq mutedOnce

PassesOK ==
    /\ pass \in [Passes -> Pass]
    /\ \A d \in Passes : passOK(pass[d], failures, inbox, mutedOnce)

\* The inductive form of TypeOK.
Typed == TablesOK /\ CountsOK /\ PassesOK

LEMMA TypedIsTypeOK == Typed => TypeOK
BY DEF Typed, TablesOK, PassesOK, TypeOK

LEMMA OwedAreUsers ==
    ASSUME NEW e \in Events, NEW who \in recipientLists(e), NEW m
    PROVE  who \subseteq Users /\ owed(e, who, m) \subseteq Users
BY OutboxAssumption DEF owed, recipientLists, taken, isStaffEvent

\* Failures are counted up, a notification stays, who muted once did so for good.
grows ==
    /\ \A e \in Events : failures[e] <= failures'[e]
    /\ \A u \in Users, e \in Events : inbox[u][e] # "NONE" => inbox'[u][e] # "NONE"
    /\ mutedOnce \subseteq mutedOnce'

LEMMA GrowthKeepsPasses ==
    ASSUME Typed, grows, TablesOK', NEW d \in Passes
    PROVE  passOK(pass[d], failures', inbox', mutedOnce')
<1> DEFINE c == pass[d]
<1>1. c \in Pass /\ passOK(c, failures, inbox, mutedOnce)
  BY DEF Typed, PassesOK
<1>2. \A e \in Events : c.seen[e] \in Nat /\ failures[e] \in Nat /\ failures'[e] \in Nat
  <2>1. c.seen \in [Events -> Nat]
    BY <1>1 DEF Pass
  <2>2. /\ failures \in [Events -> 0..MaxFailures] /\ failures' \in [Events -> 0..MaxFailures]
        /\ MaxFailures \in Nat
    BY OutboxAssumption DEF Typed, TablesOK
  <2>3. \A e \in Events : failures[e] \in 0..MaxFailures /\ failures'[e] \in 0..MaxFailures
    BY <2>2
  <2> QED
    BY <2>1, <2>2, <2>3
<1>3. c.rows \subseteq Events
  BY <1>1 DEF Pass
<1> HIDE DEF c
<1>4. \A e \in c.rows : c.seen[e] < MaxAttempts /\ c.seen[e] <= failures'[e]
  BY <1>1, <1>2, <1>3 DEF passOK, grows
<1>5. c.pc \in AtWork =>
         c.event \in Events /\ c.seen[c.event] < MaxAttempts /\ c.seen[c.event] <= failures'[c.event]
  BY <1>1, <1>2 DEF passOK, grows
<1>6. c.pc = "retry" => c.seen[c.event] < failures'[c.event]
  BY <1>1, <1>2 DEF passOK, grows, AtWork
<1>7. ASSUME c.pc \in {"create", "deliver", "update"}, NEW u \in owed(c.event, c.who, mutedOnce')
      PROVE  inbox'[u][c.event] # "NONE" \/ u \in c.todo
  <2>1. c.event \in Events /\ c.who \in recipientLists(c.event)
    BY <1>1, <1>7 DEF passOK, AtWork
  <2>2. u \in Users /\ u \in owed(c.event, c.who, mutedOnce)
    BY <1>7, <2>1, OwedAreUsers DEF owed, grows
  <2> QED
    BY <1>1, <1>7, <2>1, <2>2 DEF passOK, grows
<1>8. c.pc \in {"deliver", "update"} => c.user \in Users
  BY <1>1 DEF passOK
<1>9. c.pc = "deliver" => inbox'[c.user][c.event] # "NONE"
  BY <1>1, <1>8 DEF passOK, grows, AtWork
<1> QED
  <2>1. c.pc \in {"create", "deliver", "update"} => c.who \in recipientLists(c.event)
    BY <1>1 DEF passOK
  <2> QED
    BY <1>4, <1>5, <1>6, <1>7, <1>8, <1>9, <2>1 DEF passOK, c

-----------------------------------------------------------------------------
(* What a step is to the passes.                                              *)

\* Pass d moves on to c; what the others carry stays true.
moves(d, c) ==
    /\ c \in Pass
    /\ passOK(c, failures', inbox', mutedOnce')
    /\ pass' = [pass EXCEPT ![d] = c]

LEMMA MovesAlone ==
    ASSUME Typed, NEW d \in Passes, NEW c, moves(d, c)
    PROVE  pass'[d] = c /\ \A i \in Passes \ {d} : pass'[i] = pass[i]
BY DEF moves, Typed, PassesOK

LEMMA MovesKeepPasses ==
    ASSUME Typed, NEW d \in Passes, NEW c, moves(d, c), grows, TablesOK'
    PROVE  PassesOK'
<1>1. \A i \in Passes : passOK(pass'[i], failures', inbox', mutedOnce')
  BY MovesAlone, GrowthKeepsPasses DEF moves
<1>2. (\A i \in Passes : passOK(pass[i], failures, inbox, mutedOnce))'
  BY <1>1
<1>3. pass' \in [Passes -> Pass]
  BY DEF moves, Typed, PassesOK
<1> QED
  BY <1>2, <1>3 DEF PassesOK

LEMMA StayKeepsPasses ==
    ASSUME Typed, UNCHANGED pass, grows, TablesOK'
    PROVE  PassesOK'
<1>1. \A i \in Passes : passOK(pass'[i], failures', inbox', mutedOnce')
  BY GrowthKeepsPasses
<1>2. (\A i \in Passes : passOK(pass[i], failures, inbox, mutedOnce))'
  BY <1>1
<1> QED
  BY <1>2 DEF Typed, PassesOK

\* The tables of a step that only moves a pass.
tables == <<status, attempts, delayed, inbox, muted, ghosts>>

LEMMA TablesStay ==
    ASSUME Typed, UNCHANGED tables
    PROVE  TablesOK' /\ CountsOK' /\ grows
<1>1. \A e \in Events : failures[e] <= failures[e]
  BY OutboxAssumption DEF Typed, TablesOK
<1> QED
  BY <1>1 DEF Typed, TablesOK, CountsOK, grows, tables, ghosts

LEMMA NoPassOK ==
    NoPass \in Pass /\ \A f, b, m : passOK(NoPass, f, b, m)
BY DEF NoPass, Pass, passOK, AtWork

LEMMA PassParts ==
    ASSUME Typed, NEW d \in Passes
    PROVE  /\ pass[d] \in Pass /\ passOK(pass[d], failures, inbox, mutedOnce)
           /\ pass[d].rows \subseteq Events /\ pass[d].todo \subseteq Users
           /\ pass[d].seen \in [Events -> Nat]
BY DEF Typed, PassesOK, Pass

\* Pass d moves on to c, with what the tables keep.
goesOn(d, c) == moves(d, c) /\ grows /\ TablesOK' /\ CountsOK'

\* It settles no event and hands nothing to the provider.
plain(d, c) == goesOn(d, c) /\ UNCHANGED <<status, deliveries>> /\ c.pc # "deliver"

LEMMA QuietIsPlain ==
    ASSUME Typed, NEW d \in Passes, NEW c, moves(d, c), c.pc # "deliver", UNCHANGED tables
    PROVE  plain(d, c)
BY TablesStay DEF plain, goesOn, tables, ghosts

LEMMA StartMoves ==
    ASSUME Typed, NEW d \in Passes, NEW limit \in Nat, startPass(d, limit)
    PROVE  \E c : plain(d, c)
<1> DEFINE c == [NoPass EXCEPT !.pc = "next", !.rows = oldest(due, limit), !.seen = attempts]
<1>1. pass' = [pass EXCEPT ![d] = c] /\ UNCHANGED tables
  BY DEF startPass, tables
<1>2. oldest(due, limit) \subseteq due /\ due \subseteq Events
  BY DEF oldest, due
<1>3. attempts \in [Events -> Nat]
  BY OutboxAssumption DEF Typed, TablesOK
<1>4. /\ c \in Pass /\ c.pc = "next" /\ c.rows \subseteq due /\ c.seen = attempts
  BY <1>2, <1>3 DEF NoPass, Pass
<1> HIDE DEF c
<1>5. \A e \in due : attempts[e] < MaxAttempts /\ attempts[e] <= failures[e]
  BY DEF due, Typed, CountsOK
<1>6. passOK(c, failures, inbox, mutedOnce)
  BY <1>4, <1>5 DEF passOK, AtWork
<1>7. UNCHANGED <<failures, inbox, mutedOnce>>
  BY <1>1 DEF tables, ghosts
<1>8. moves(d, c)
  BY <1>1, <1>4, <1>6, <1>7 DEF moves
<1> QED
  BY <1>1, <1>4, <1>8, QuietIsPlain

LEMMA TakeRowMoves ==
    ASSUME Typed, NEW d \in Passes, takeRow(d)
    PROVE  \E c : plain(d, c)
<1>1. PICK e \in pass[d].rows :
         pass' = [pass EXCEPT ![d].pc = "look", ![d].event = e, ![d].rows = @ \ {e}]
  BY DEF takeRow
<1> DEFINE c == [pass[d] EXCEPT !.pc = "look", !.event = e, !.rows = @ \ {e}]
<1>2. pass' = [pass EXCEPT ![d] = c]
  BY <1>1, PassParts
<1>3. /\ c \in Pass /\ c.pc = "look" /\ c.event = e /\ c.rows = pass[d].rows \ {e}
      /\ c.seen = pass[d].seen
  BY PassParts DEF Pass
<1> HIDE DEF c
<1>4. passOK(c, failures, inbox, mutedOnce)
  BY <1>3, PassParts DEF passOK, AtWork
<1>5. UNCHANGED tables /\ UNCHANGED <<failures, inbox, mutedOnce>>
  BY DEF takeRow, tables, ghosts
<1>6. moves(d, c)
  BY <1>2, <1>3, <1>4, <1>5 DEF moves
<1> QED
  BY <1>3, <1>5, <1>6, QuietIsPlain

LEMMA EndMoves ==
    ASSUME Typed, NEW d \in Passes, endPass(d)
    PROVE  \E c : plain(d, c)
<1>1. moves(d, NoPass) /\ UNCHANGED tables
  BY NoPassOK DEF endPass, moves, tables
<1>2. NoPass.pc # "deliver"
  BY DEF NoPass
<1> QED
  BY <1>1, <1>2, QuietIsPlain

LEMMA LookMoves ==
    ASSUME Typed, NEW d \in Passes, looksUpRecipients(d)
    PROVE  \E c : plain(d, c)
<1> DEFINE e == pass[d].event
<1>1. e \in Events
  BY PassParts DEF looksUpRecipients, passOK, AtWork
<1>2. PICK who \in recipientLists(e) :
         pass' = [pass EXCEPT ![d].pc = "create", ![d].who = who,
                    ![d].todo = {u \in who : /\ inbox[u][e] = "NONE"
                                             /\ isStaffEvent(e) => u \notin muted}]
  BY DEF looksUpRecipients
<1> DEFINE T == {u \in who : inbox[u][e] = "NONE" /\ (isStaffEvent(e) => u \notin muted)}
           c == [pass[d] EXCEPT !.pc = "create", !.who = who, !.todo = T]
<1>3. who \subseteq Users /\ T \subseteq Users
  BY <1>1, OwedAreUsers
<1>4. \A u \in owed(e, who, mutedOnce) : inbox[u][e] # "NONE" \/ u \in T
  BY DEF owed, Typed, CountsOK
<1>5. pass' = [pass EXCEPT ![d] = c]
  BY <1>2, PassParts
<1> HIDE DEF T
<1>6. /\ c \in Pass /\ c.pc = "create" /\ c.event = e /\ c.rows = pass[d].rows
      /\ c.seen = pass[d].seen /\ c.who = who /\ c.todo = T
  BY <1>1, <1>3, PassParts DEF Pass
<1> HIDE DEF c
<1>7. e \in Events /\ pass[d].seen[e] < MaxAttempts /\ pass[d].seen[e] <= failures[e]
  BY <1>1, PassParts DEF looksUpRecipients, passOK, AtWork
<1>8. passOK(c, failures, inbox, mutedOnce)
  BY <1>4, <1>6, <1>7, PassParts DEF passOK
<1>9. UNCHANGED tables
  BY DEF looksUpRecipients, tables
<1>10. moves(d, c)
  BY <1>5, <1>6, <1>8, <1>9 DEF moves, tables, ghosts
<1> QED
  BY <1>6, <1>9, <1>10, QuietIsPlain

LEMMA CreatePasses ==
    ASSUME Typed, NEW d \in Passes, pass[d].pc \in {"create", "deliver", "update"}
    PROVE  \E e \in Events :
              /\ e = pass[d].event
              /\ pass[d].seen[e] < MaxAttempts /\ pass[d].seen[e] <= failures[e]
              /\ pass[d].who \in recipientLists(e)
              /\ \A u \in owed(e, pass[d].who, mutedOnce) :
                    inbox[u][e] # "NONE" \/ u \in pass[d].todo
              /\ pass[d].pc # "create" => pass[d].user \in Users
BY PassParts DEF passOK, AtWork

LEMMA CreateMoves ==
    ASSUME Typed, NEW d \in Passes, NEW u \in Users, creates(d, u)
    PROVE  \/ \E c : plain(d, c)
           \/ \E e \in Events : \E c :
                 /\ goesOn(d, c) /\ UNCHANGED <<status, deliveries>>
                 /\ c.pc = "deliver" /\ c.user = u /\ c.event = e
                 /\ inbox[u][e] = "NONE" /\ inbox'[u][e] # "NONE"
<1>1. PICK e \in Events :
         /\ e = pass[d].event
         /\ pass[d].seen[e] < MaxAttempts /\ pass[d].seen[e] <= failures[e]
         /\ pass[d].who \in recipientLists(e)
         /\ \A v \in owed(e, pass[d].who, mutedOnce) :
               inbox[v][e] # "NONE" \/ v \in pass[d].todo
  BY CreatePasses DEF creates
<1>2. pass[d].pc = "create" /\ UNCHANGED <<status, attempts, delayed, muted, ghosts>>
  BY DEF creates
<1>3. CASE inbox[u][e] = "NONE"
  <2>1. /\ inbox' = [inbox EXCEPT ![u][e] = "PENDING"]
        /\ pass' = [pass EXCEPT ![d].pc = "deliver", ![d].user = u]
    BY <1>1, <1>3 DEF creates
  <2> DEFINE c == [pass[d] EXCEPT !.pc = "deliver", !.user = u]
  <2>2. pass' = [pass EXCEPT ![d] = c]
    BY <2>1, PassParts
  <2>3. /\ c \in Pass /\ c.pc = "deliver" /\ c.user = u /\ c.event = e
        /\ c.rows = pass[d].rows /\ c.seen = pass[d].seen /\ c.todo = pass[d].todo
      /\ c.who = pass[d].who
    BY <1>1, PassParts DEF Pass
  <2> HIDE DEF c
  <2>4. \A v \in Users, i \in Events :
           inbox'[v][i] = IF v = u /\ i = e THEN "PENDING" ELSE inbox[v][i]
    BY <2>1 DEF Typed, TablesOK
  <2>5. inbox' \in [Users -> [Events -> {"NONE", "PENDING", "DELIVERED"}]]
    BY <2>1 DEF Typed, TablesOK
  <2>6. TablesOK'
    BY <1>2, <2>5 DEF Typed, TablesOK, ghosts
  <2>7. CountsOK'
    BY <1>2 DEF Typed, CountsOK, ghosts
  <2>8. grows
    <3>1. \A i \in Events : failures[i] <= failures[i]
      BY OutboxAssumption DEF Typed, TablesOK
    <3> QED
      BY <1>2, <2>4, <3>1 DEF grows, ghosts
  <2>9. passOK(c, failures', inbox', mutedOnce')
    <3>1. failures' = failures /\ mutedOnce' = mutedOnce
      BY <1>2 DEF ghosts
    <3>2. \A v \in owed(e, c.who, mutedOnce) : inbox'[v][e] # "NONE" \/ v \in c.todo
      BY <1>1, <2>3, <2>4, OwedAreUsers
    <3> QED
      BY <1>1, <2>3, <2>4, <3>1, <3>2, PassParts DEF passOK
  <2>10. goesOn(d, c)
    BY <2>2, <2>3, <2>6, <2>7, <2>8, <2>9 DEF goesOn, moves
  <2> QED
    BY <1>2, <1>3, <2>3, <2>4, <2>10 DEF ghosts
<1>4. CASE inbox[u][e] # "NONE"
  <2>1. pass' = [pass EXCEPT ![d].todo = @ \ {u}] /\ UNCHANGED inbox
    BY <1>1, <1>4 DEF creates
  <2> DEFINE c == [pass[d] EXCEPT !.todo = @ \ {u}]
  <2>2. pass' = [pass EXCEPT ![d] = c]
    BY <2>1, PassParts
  <2>3. /\ c \in Pass /\ c.pc = "create" /\ c.event = e
        /\ c.rows = pass[d].rows /\ c.seen = pass[d].seen /\ c.todo = pass[d].todo \ {u}
      /\ c.who = pass[d].who
    BY <1>1, <1>2, PassParts DEF Pass
  <2> HIDE DEF c
  <2>4. UNCHANGED tables
    BY <1>2, <2>1 DEF tables
  <2>5. passOK(c, failures, inbox, mutedOnce)
    BY <1>1, <1>4, <2>3, PassParts DEF passOK
  <2>6. moves(d, c)
    BY <2>2, <2>3, <2>4, <2>5 DEF moves, tables, ghosts
  <2> QED
    BY <2>3, <2>4, <2>6, QuietIsPlain
<1> QED
  BY <1>3, <1>4

LEMMA DeliverMoves ==
    ASSUME Typed, NEW d \in Passes, delivers(d)
    PROVE  \E c : \E u \in Users, e \in Events :
              /\ goesOn(d, c) /\ UNCHANGED <<status, inbox>> /\ c.pc = "update"
              /\ u = pass[d].user /\ e = pass[d].event /\ pass[d].pc = "deliver"
              /\ deliveries' = [deliveries EXCEPT ![u][e] = deliveries[u][e] + 1]
<1>1. PICK e \in Events, u \in Users :
         /\ e = pass[d].event /\ u = pass[d].user
         /\ pass[d].seen[e] < MaxAttempts /\ pass[d].seen[e] <= failures[e]
         /\ pass[d].who \in recipientLists(e)
         /\ \A v \in owed(e, pass[d].who, mutedOnce) :
               inbox[v][e] # "NONE" \/ v \in pass[d].todo
  BY CreatePasses DEF delivers
<1>2. /\ pass[d].pc = "deliver"
      /\ deliveries' = [deliveries EXCEPT ![u][e] = deliveries[u][e] + 1]
      /\ pass' = [pass EXCEPT ![d].pc = "update"]
      /\ UNCHANGED <<status, attempts, delayed, inbox, muted, failures, mutedOnce, crashes>>
  BY <1>1 DEF delivers
<1> DEFINE c == [pass[d] EXCEPT !.pc = "update"]
<1>3. pass' = [pass EXCEPT ![d] = c]
  BY <1>2, PassParts
<1>4. /\ c \in Pass /\ c.pc = "update" /\ c.user = u /\ c.event = e
      /\ c.rows = pass[d].rows /\ c.seen = pass[d].seen /\ c.todo = pass[d].todo
      /\ c.who = pass[d].who
  BY <1>1, PassParts DEF Pass
<1> HIDE DEF c
<1>5. passOK(c, failures, inbox, mutedOnce)
  BY <1>1, <1>4, PassParts DEF passOK
<1>6. TablesOK'
  <2>1. deliveries' \in [Users -> [Events -> Nat]]
    BY <1>2 DEF Typed, TablesOK
  <2> QED
    BY <1>2, <2>1 DEF Typed, TablesOK
<1>7. CountsOK' /\ grows
  <2>1. \A i \in Events : failures[i] <= failures[i]
    BY OutboxAssumption DEF Typed, TablesOK
  <2> QED
    BY <1>2, <2>1 DEF Typed, CountsOK, grows
<1>8. goesOn(d, c)
  BY <1>2, <1>3, <1>4, <1>5, <1>6, <1>7 DEF goesOn, moves
<1> QED
  BY <1>1, <1>2, <1>4, <1>8

LEMMA MarkMoves ==
    ASSUME Typed, NEW d \in Passes, marksDelivered(d)
    PROVE  \E c : plain(d, c)
<1>1. PICK e \in Events, u \in Users :
         /\ e = pass[d].event /\ u = pass[d].user
         /\ pass[d].seen[e] < MaxAttempts /\ pass[d].seen[e] <= failures[e]
         /\ pass[d].who \in recipientLists(e)
         /\ \A v \in owed(e, pass[d].who, mutedOnce) :
               inbox[v][e] # "NONE" \/ v \in pass[d].todo
  BY CreatePasses DEF marksDelivered
<1>2. /\ inbox' = [inbox EXCEPT ![u][e] = "DELIVERED"]
      /\ pass' = [pass EXCEPT ![d].pc = "create", ![d].todo = @ \ {u}]
      /\ UNCHANGED <<status, attempts, delayed, muted, ghosts>>
  BY <1>1 DEF marksDelivered
<1> DEFINE c == [pass[d] EXCEPT !.pc = "create", !.todo = @ \ {u}]
<1>3. pass' = [pass EXCEPT ![d] = c]
  BY <1>2, PassParts
<1>4. /\ c \in Pass /\ c.pc = "create" /\ c.event = e
      /\ c.rows = pass[d].rows /\ c.seen = pass[d].seen /\ c.todo = pass[d].todo \ {u}
      /\ c.who = pass[d].who
  BY <1>1, PassParts DEF Pass
<1> HIDE DEF c
<1>5. \A v \in Users, i \in Events :
         inbox'[v][i] = IF v = u /\ i = e THEN "DELIVERED" ELSE inbox[v][i]
  BY <1>2 DEF Typed, TablesOK
<1>6. TablesOK'
  <2>1. inbox' \in [Users -> [Events -> {"NONE", "PENDING", "DELIVERED"}]]
    BY <1>2 DEF Typed, TablesOK
  <2> QED
    BY <1>2, <2>1 DEF Typed, TablesOK, ghosts
<1>7. CountsOK'
  BY <1>2 DEF Typed, CountsOK, ghosts
<1>8. grows
  <2>1. \A i \in Events : failures[i] <= failures[i]
    BY OutboxAssumption DEF Typed, TablesOK
  <2> QED
    BY <1>2, <1>5, <2>1 DEF grows, ghosts
<1>9. failures' = failures /\ mutedOnce' = mutedOnce
  BY <1>2 DEF ghosts
<1>10. \A v \in owed(e, c.who, mutedOnce) : inbox'[v][e] # "NONE" \/ v \in c.todo
  BY <1>1, <1>4, <1>5, OwedAreUsers
<1>11. passOK(c, failures', inbox', mutedOnce')
  BY <1>1, <1>4, <1>9, <1>10, PassParts DEF passOK
<1>12. plain(d, c)
  BY <1>2, <1>3, <1>4, <1>6, <1>7, <1>8, <1>11 DEF plain, goesOn, moves, ghosts
<1> QED
  BY <1>12

\* All of a list of recipients that a pass may read have the notification.
allToldOf(e) ==
    \E who \in recipientLists(e) : \A u \in owed(e, who, mutedOnce) : inbox[u][e] # "NONE"

LEMMA ProcessedMoves ==
    ASSUME Typed, NEW d \in Passes, marksProcessed(d)
    PROVE  \E c : \E e \in Events :
              /\ goesOn(d, c) /\ UNCHANGED <<deliveries, inbox, mutedOnce>> /\ c.pc = "next"
              /\ status' = [status EXCEPT ![e] = "PROCESSED"]
              /\ allToldOf(e)
<1>1. PICK e \in Events :
         /\ e = pass[d].event
         /\ pass[d].who \in recipientLists(e)
         /\ \A v \in owed(e, pass[d].who, mutedOnce) :
               inbox[v][e] # "NONE" \/ v \in pass[d].todo
  BY CreatePasses DEF marksProcessed
<1>2. /\ pass[d].todo = {}
      /\ status' = [status EXCEPT ![e] = "PROCESSED"]
      /\ pass' = [pass EXCEPT ![d].pc = "next"]
      /\ UNCHANGED <<attempts, delayed, inbox, muted, ghosts>>
  BY <1>1 DEF marksProcessed
<1> DEFINE c == [pass[d] EXCEPT !.pc = "next"]
<1>3. pass' = [pass EXCEPT ![d] = c]
  BY <1>2, PassParts
<1>4. c \in Pass /\ c.pc = "next" /\ c.rows = pass[d].rows /\ c.seen = pass[d].seen
  BY PassParts DEF Pass
<1> HIDE DEF c
<1>5. passOK(c, failures, inbox, mutedOnce)
  BY <1>4, PassParts DEF passOK, AtWork
<1>6. TablesOK'
  BY <1>2 DEF Typed, TablesOK, ghosts
<1>7. CountsOK' /\ grows
  <2>1. \A i \in Events : failures[i] <= failures[i]
    BY OutboxAssumption DEF Typed, TablesOK
  <2> QED
    BY <1>2, <2>1 DEF Typed, CountsOK, grows, ghosts
<1>8. goesOn(d, c)
  BY <1>2, <1>3, <1>4, <1>5, <1>6, <1>7 DEF goesOn, moves, ghosts
<1>9. \A u \in owed(e, pass[d].who, mutedOnce) : inbox[u][e] # "NONE"
  BY <1>1, <1>2
<1>10. allToldOf(e)
  BY <1>1, <1>9 DEF allToldOf
<1> QED
  BY <1>2, <1>4, <1>8, <1>10 DEF ghosts

\* A failure of the event a pass works on is counted.
LEMMA FailureCounts ==
    ASSUME Typed, NEW e \in Events, failures[e] < MaxFailures,
           failures' = [failures EXCEPT ![e] = @ + 1],
           UNCHANGED <<status, attempts, delayed, inbox, muted, deliveries, mutedOnce, crashes>>
    PROVE  TablesOK' /\ CountsOK' /\ grows /\ failures'[e] = failures[e] + 1
<1>1. failures \in [Events -> 0..MaxFailures] /\ MaxFailures \in Nat
  BY OutboxAssumption DEF Typed, TablesOK
<1>2. failures' \in [Events -> 0..MaxFailures]
  BY <1>1
<1>3. \A i \in Events : failures'[i] = IF i = e THEN failures[i] + 1 ELSE failures[i]
  BY <1>1
<1>4. \A i \in Events : failures[i] \in Nat /\ attempts[i] \in Nat
  BY <1>1, OutboxAssumption DEF Typed, TablesOK
<1>5. \A i \in Events : failures[i] <= failures'[i] /\ attempts[i] <= failures'[i]
  BY <1>3, <1>4 DEF Typed, CountsOK
<1> QED
  BY <1>2, <1>3, <1>5 DEF Typed, TablesOK, CountsOK, grows

LEMMA FailMoves ==
    ASSUME Typed, NEW d \in Passes, fails(d) \/ failsToRecord(d)
    PROVE  \E c : plain(d, c)
<1>1. pass[d].pc \in AtWork
  BY DEF fails, failsToRecord, AtWork
<1>2. PICK e \in Events :
         /\ e = pass[d].event
         /\ pass[d].seen[e] < MaxAttempts /\ pass[d].seen[e] <= failures[e]
  BY <1>1, PassParts DEF passOK
<1>3. /\ failures[e] < MaxFailures
      /\ failures' = [failures EXCEPT ![e] = @ + 1]
      /\ UNCHANGED <<status, attempts, delayed, inbox, muted, deliveries, mutedOnce, crashes>>
  BY <1>2 DEF fails, failsToRecord
<1>4. TablesOK' /\ CountsOK' /\ grows /\ failures'[e] = failures[e] + 1
  BY <1>3, FailureCounts
<1>5. CASE failsToRecord(d)
  <2>1. moves(d, NoPass) /\ NoPass.pc # "deliver"
    BY <1>5, NoPassOK DEF failsToRecord, moves, NoPass
  <2> QED
    BY <1>3, <1>4, <2>1 DEF plain, goesOn
<1>6. CASE fails(d)
  <2> DEFINE c == [pass[d] EXCEPT !.pc = "retry"]
  <2>1. pass' = [pass EXCEPT ![d].pc = "retry"]
    BY <1>6 DEF fails
  <2>2. pass' = [pass EXCEPT ![d] = c]
    BY <2>1, PassParts
  <2>3. /\ c \in Pass /\ c.pc = "retry" /\ c.event = e /\ c.rows = pass[d].rows
        /\ c.seen = pass[d].seen
    BY <1>2, PassParts DEF Pass
  <2> HIDE DEF c
  <2>4. \A i \in pass[d].rows : pass[d].seen[i] < MaxAttempts /\ pass[d].seen[i] <= failures'[i]
    BY <1>4, GrowthKeepsPasses DEF passOK
  <2>5. pass[d].seen[e] \in Nat /\ failures[e] \in Nat
    <3>1. failures \in [Events -> 0..MaxFailures] /\ MaxFailures \in Nat
      BY OutboxAssumption DEF Typed, TablesOK
    <3> QED
      BY <3>1, PassParts
  <2>6. pass[d].seen[e] < failures'[e] /\ pass[d].seen[e] <= failures'[e]
    BY <1>2, <1>4, <2>5
  <2>7. passOK(c, failures', inbox', mutedOnce')
    BY <1>2, <2>3, <2>4, <2>6 DEF passOK
  <2> QED
    BY <1>3, <1>4, <2>2, <2>3, <2>7 DEF plain, goesOn, moves
<1> QED
  BY <1>5, <1>6

LEMMA RecordMoves ==
    ASSUME Typed, NEW d \in Passes, recordsFailure(d)
    PROVE  \E c : \E e \in Events :
              /\ goesOn(d, c) /\ UNCHANGED <<deliveries, inbox, mutedOnce, failures>>
              /\ c.pc = "next"
              /\ \E s \in {"PENDING", "FAILED"} :
                    /\ status' = [status EXCEPT ![e] = s]
                    /\ s = "FAILED" => failures[e] >= MaxAttempts
<1>1. PICK e \in Events :
         e = pass[d].event /\ pass[d].seen[e] < MaxAttempts /\ pass[d].seen[e] < failures[e]
  BY PassParts DEF recordsFailure, passOK, AtWork
<1> DEFINE n == pass[d].seen[e] + 1
           s == IF givesUp(n) THEN "FAILED" ELSE "PENDING"
<1>2. /\ attempts' = [attempts EXCEPT ![e] = n]
      /\ status' = [status EXCEPT ![e] = s]
      /\ delayed' = [delayed EXCEPT ![e] = TRUE]
      /\ pass' = [pass EXCEPT ![d].pc = "next"]
      /\ UNCHANGED <<inbox, muted, ghosts>>
  BY <1>1 DEF recordsFailure
<1>3. pass[d].seen[e] \in Nat /\ failures[e] \in Nat /\ MaxAttempts \in Nat
  <2>1. failures \in [Events -> 0..MaxFailures] /\ MaxFailures \in Nat
    BY OutboxAssumption DEF Typed, TablesOK
  <2> QED
    BY <2>1, PassParts, OutboxAssumption
<1>4. n \in 0..MaxAttempts /\ n <= failures[e] /\ (n >= MaxAttempts => failures[e] >= MaxAttempts)
  BY <1>1, <1>3
<1>5. s \in {"PENDING", "FAILED"} /\ (s = "FAILED" => failures[e] >= MaxAttempts)
  BY <1>4 DEF givesUp
<1> HIDE DEF n, s
<1> DEFINE c == [pass[d] EXCEPT !.pc = "next"]
<1>6. pass' = [pass EXCEPT ![d] = c]
  BY <1>2, PassParts
<1>7. c \in Pass /\ c.pc = "next" /\ c.rows = pass[d].rows /\ c.seen = pass[d].seen
  BY PassParts DEF Pass
<1> HIDE DEF c
<1>8. passOK(c, failures, inbox, mutedOnce)
  BY <1>7, PassParts DEF passOK, AtWork
<1>9. TablesOK'
  <2>1. attempts' \in [Events -> 0..MaxAttempts]
    BY <1>2, <1>4 DEF Typed, TablesOK
  <2>2. status' \in [Events -> {"NONE", "PENDING", "PROCESSED", "FAILED"}]
    BY <1>2, <1>5 DEF Typed, TablesOK
  <2>3. delayed' \in [Events -> BOOLEAN]
    BY <1>2 DEF Typed, TablesOK
  <2> QED
    BY <1>2, <2>1, <2>2, <2>3 DEF Typed, TablesOK, ghosts
<1>10. CountsOK'
  <2>1. \A i \in Events : attempts'[i] <= failures[i]
    BY <1>2, <1>4 DEF Typed, TablesOK, CountsOK
  <2> QED
    BY <1>2, <2>1 DEF Typed, CountsOK, ghosts
<1>11. grows
  <2>1. \A i \in Events : failures[i] <= failures[i]
    BY OutboxAssumption DEF Typed, TablesOK
  <2> QED
    BY <1>2, <2>1 DEF grows, ghosts
<1>12. goesOn(d, c)
  BY <1>2, <1>6, <1>7, <1>8, <1>9, <1>10, <1>11 DEF goesOn, moves, ghosts
<1> QED
  BY <1>2, <1>5, <1>7, <1>12 DEF ghosts

\* The steps in which no pass moves.
still ==
    /\ grows /\ TablesOK' /\ CountsOK'
    /\ UNCHANGED deliveries
    /\ \/ UNCHANGED status
       \/ \E e \in Events : status' = [status EXCEPT ![e] = "PENDING"]

LEMMA StillSteps ==
    ASSUME Typed, \/ \E e \in Events : enqueue(e) \/ timePasses(e)
                  \/ \E u \in StaffUsers : updatePreference(u)
                  \/ UNCHANGED vars
    PROVE  still /\ UNCHANGED pass
<1>0. \A i \in Events : failures[i] <= failures[i]
  BY OutboxAssumption DEF Typed, TablesOK
<1>1. ASSUME NEW e \in Events, enqueue(e) PROVE still /\ UNCHANGED pass
  <2>1. status' \in [Events -> {"NONE", "PENDING", "PROCESSED", "FAILED"}]
    BY <1>1 DEF enqueue, Typed, TablesOK
  <2> QED
    BY <1>0, <1>1, <2>1 DEF enqueue, still, grows, Typed, TablesOK, CountsOK, ghosts
<1>2. ASSUME NEW e \in Events, timePasses(e) PROVE still /\ UNCHANGED pass
  <2>1. delayed' \in [Events -> BOOLEAN]
    BY <1>2 DEF timePasses, Typed, TablesOK
  <2> QED
    BY <1>0, <1>2, <2>1 DEF timePasses, still, grows, Typed, TablesOK, CountsOK, ghosts
<1>3. ASSUME NEW u \in StaffUsers, updatePreference(u) PROVE still /\ UNCHANGED pass
  <2>1. /\ muted' \subseteq StaffUsers /\ mutedOnce' \subseteq StaffUsers
        /\ muted' \subseteq mutedOnce' /\ mutedOnce \subseteq mutedOnce'
    BY <1>3 DEF updatePreference, Typed, TablesOK, CountsOK
  <2> QED
    BY <1>0, <1>3, <2>1 DEF updatePreference, still, grows, Typed, TablesOK, CountsOK
<1>4. CASE UNCHANGED vars
  BY <1>0, <1>4 DEF vars, still, grows, Typed, TablesOK, CountsOK, ghosts
<1> QED
  BY <1>1, <1>2, <1>3, <1>4

LEMMA CrashStep ==
    ASSUME Typed, crash
    PROVE  still /\ PassesOK' /\ \A d \in Passes : pass'[d].pc = "idle"
<1>0. \A i \in Events : failures[i] <= failures[i]
  BY OutboxAssumption DEF Typed, TablesOK
<1>1. crashes' \in 0..MaxCrashes
  <2>1. crashes \in 0..MaxCrashes /\ MaxCrashes \in Nat
    BY OutboxAssumption DEF Typed, TablesOK
  <2>2. crashes < MaxCrashes /\ crashes' = crashes + 1
    BY DEF crash
  <2> QED
    BY <2>1, <2>2
<1>2. still
  BY <1>0, <1>1 DEF crash, still, grows, Typed, TablesOK, CountsOK
<1>3. PassesOK'
  <2>1. \A i \in Passes : pass'[i] = NoPass
    BY DEF crash
  <2>2. (\A i \in Passes : passOK(pass[i], failures, inbox, mutedOnce))'
    BY <2>1, NoPassOK
  <2> QED
    BY <2>2, NoPassOK DEF crash, PassesOK
<1>4. \A d \in Passes : pass'[d].pc = "idle"
  BY DEF crash, NoPass
<1> QED
  BY <1>2, <1>3, <1>4

-----------------------------------------------------------------------------
(* The kinds of a step, by what they tell the inboxes and the rows.           *)

plainStep == \E d \in Passes : \E c : plain(d, c)

insertStep ==
    \E d \in Passes, u \in Users, e \in Events : \E c :
        /\ goesOn(d, c) /\ UNCHANGED <<status, deliveries>>
        /\ c.pc = "deliver" /\ c.user = u /\ c.event = e
        /\ inbox[u][e] = "NONE" /\ inbox'[u][e] # "NONE"

deliverStep ==
    \E d \in Passes, u \in Users, e \in Events : \E c :
        /\ goesOn(d, c) /\ UNCHANGED <<status, inbox>> /\ c.pc = "update"
        /\ u = pass[d].user /\ e = pass[d].event /\ pass[d].pc = "deliver"
        /\ deliveries' = [deliveries EXCEPT ![u][e] = deliveries[u][e] + 1]

processedStep ==
    \E d \in Passes, e \in Events : \E c :
        /\ goesOn(d, c) /\ UNCHANGED <<deliveries, inbox, mutedOnce>> /\ c.pc = "next"
        /\ status' = [status EXCEPT ![e] = "PROCESSED"]
        /\ allToldOf(e)

recordStep ==
    \E d \in Passes, e \in Events, s \in {"PENDING", "FAILED"} : \E c :
        /\ goesOn(d, c) /\ UNCHANGED <<deliveries, inbox, mutedOnce, failures>> /\ c.pc = "next"
        /\ status' = [status EXCEPT ![e] = s]
        /\ s = "FAILED" => failures[e] >= MaxAttempts

stillStep == still /\ UNCHANGED pass

crashStep == still /\ PassesOK' /\ \A d \in Passes : pass'[d].pc = "idle"

LEMMA StepKinds ==
    ASSUME Typed, [Next]_vars
    PROVE  plainStep \/ insertStep \/ deliverStep \/ processedStep \/ recordStep
              \/ stillStep \/ crashStep
<1>1. CASE \/ \E e \in Events : enqueue(e) \/ timePasses(e)
           \/ \E u \in StaffUsers : updatePreference(u)
           \/ UNCHANGED vars
  BY <1>1, StillSteps DEF stillStep
<1>2. CASE crash
  BY <1>2, CrashStep DEF crashStep
<1>3. ASSUME NEW d \in Passes, startsPass(d)
      PROVE  plainStep
  <2>1. PICK limit \in Nat : startPass(d, limit)
    BY <1>3, OutboxAssumption DEF startsPass
  <2> QED
    BY <2>1, StartMoves DEF plainStep
<1>4. ASSUME NEW d \in Passes, fails(d) \/ failsToRecord(d)
      PROVE  plainStep
  BY <1>4, FailMoves DEF plainStep
<1>5. ASSUME NEW d \in Passes, proceed(d)
      PROVE  plainStep \/ insertStep \/ deliverStep \/ processedStep \/ recordStep
  <2>1. CASE takeRow(d) \/ endPass(d) \/ looksUpRecipients(d) \/ marksDelivered(d)
    BY <2>1, TakeRowMoves, EndMoves, LookMoves, MarkMoves DEF plainStep
  <2>2. ASSUME NEW u \in Users, creates(d, u) PROVE plainStep \/ insertStep
    <3>1. CASE \E c : plain(d, c)
      BY <3>1 DEF plainStep
    <3>2. CASE \E e \in Events : \E c :
                 /\ goesOn(d, c) /\ UNCHANGED <<status, deliveries>>
                 /\ c.pc = "deliver" /\ c.user = u /\ c.event = e
                 /\ inbox[u][e] = "NONE" /\ inbox'[u][e] # "NONE"
      BY <3>2 DEF insertStep
    <3> QED
      BY <2>2, <3>1, <3>2, CreateMoves
  <2>3. CASE delivers(d)
    BY <2>3, DeliverMoves DEF deliverStep
  <2>4. CASE marksProcessed(d)
    BY <2>4, ProcessedMoves DEF processedStep
  <2>5. CASE recordsFailure(d)
    BY <2>5, RecordMoves DEF recordStep
  <2> QED
    BY <1>5, <2>1, <2>2, <2>3, <2>4, <2>5 DEF proceed
<1> QED
  BY <1>1, <1>2, <1>3, <1>4, <1>5 DEF Next

LEMMA GoingOnIsTyped ==
    ASSUME Typed, NEW d \in Passes, NEW c, goesOn(d, c)
    PROVE  Typed'
BY MovesKeepPasses DEF goesOn, Typed

LEMMA StepTyped ==
    ASSUME Typed, [Next]_vars
    PROVE  Typed' /\ grows
<1>1. CASE \E d \in Passes : \E c : goesOn(d, c)
  BY <1>1, GoingOnIsTyped DEF goesOn
<1>2. CASE stillStep
  BY <1>2, StayKeepsPasses DEF stillStep, still, Typed
<1>3. CASE crashStep
  BY <1>3 DEF crashStep, still, Typed
<1>4. plainStep \/ insertStep \/ deliverStep \/ processedStep \/ recordStep
        => \E d \in Passes : \E c : goesOn(d, c)
  BY DEF plainStep, plain, insertStep, deliverStep, processedStep, recordStep
<1> QED
  BY <1>1, <1>2, <1>3, <1>4, StepKinds

LEMMA InitTyped ==
    ASSUME Init
    PROVE  Typed
<1>1. 0 \in 0..MaxAttempts /\ 0 \in 0..MaxFailures /\ 0 \in 0..MaxCrashes /\ 0 <= 0
  BY OutboxAssumption
<1>2. TablesOK
  BY <1>1 DEF Init, TablesOK
<1>3. CountsOK
  BY <1>1 DEF Init, CountsOK
<1>4. PassesOK
  BY NoPassOK DEF Init, PassesOK
<1> QED
  BY <1>2, <1>3, <1>4 DEF Typed

LEMMA AlwaysTyped == Spec => []Typed
<1>1. Init => Typed
  BY InitTyped
<1>2. Typed /\ [Next]_vars => Typed'
  BY StepTyped
<1> QED
  BY <1>1, <1>2, PTL DEF Spec

\* The tables and the passes keep their types: a pass that overwrites a row's count
\* with what it read never takes it past maxAttempts (notifications.service.ts:103-143).
THEOREM TypeCorrect == Spec => []TypeOK
BY AlwaysTyped, TypedIsTypeOK, PTL

-----------------------------------------------------------------------------
(* Rows are settled with reason.                                              *)

ProcessedWithReason == \A e \in Events : status[e] = "PROCESSED" => allToldOf(e)

FailedWithReason ==
    \A e \in Events : status[e] = "FAILED" => failures[e] >= MaxAttempts

LEMMA ReasonsSettle ==
    ASSUME ProcessedWithReason, FailedWithReason
    PROVE  SettledWithReason
BY DEF ProcessedWithReason, FailedWithReason, SettledWithReason, allToldOf, owed

LEMMA GrowthKeepsOwed ==
    ASSUME Typed, grows, NEW e \in Events, allToldOf(e)
    PROVE  allToldOf(e)'
<1>1. PICK who \in recipientLists(e) : \A u \in owed(e, who, mutedOnce) : inbox[u][e] # "NONE"
  BY DEF allToldOf
<1>2. /\ owed(e, who, mutedOnce') \subseteq owed(e, who, mutedOnce)
      /\ owed(e, who, mutedOnce) \subseteq Users
  BY OwedAreUsers DEF owed, grows
<1>3. \A u \in owed(e, who, mutedOnce') : inbox'[u][e] # "NONE"
  BY <1>1, <1>2 DEF grows
<1>4. \E R \in recipientLists(e) : \A u \in owed(e, R, mutedOnce') : inbox'[u][e] # "NONE"
  BY <1>3
<1> QED
  BY <1>4 DEF allToldOf, owed, recipientLists, taken, isStaffEvent

\* What a step makes of the status of a row.
LEMMA StatusMoves ==
    ASSUME Typed, [Next]_vars, NEW e \in Events
    PROVE  \/ status'[e] = status[e]
           \/ status'[e] = "PENDING"
           \/ status'[e] = "PROCESSED" /\ allToldOf(e)
           \/ status'[e] = "FAILED" /\ failures[e] >= MaxAttempts
<1>1. \A i \in Events : \A s : status' = [status EXCEPT ![i] = s] =>
         status'[e] = IF e = i THEN s ELSE status[e]
  BY DEF Typed, TablesOK
<1>2. CASE plainStep \/ insertStep \/ deliverStep
  BY <1>2 DEF plainStep, plain, insertStep, deliverStep
<1>3. CASE stillStep \/ crashStep
  BY <1>1, <1>3 DEF stillStep, crashStep, still
<1>4. CASE processedStep
  BY <1>1, <1>4 DEF processedStep
<1>5. CASE recordStep
  BY <1>1, <1>5 DEF recordStep
<1> QED
  BY <1>2, <1>3, <1>4, <1>5, StepKinds

LEMMA StepReasons ==
    ASSUME Typed, ProcessedWithReason, FailedWithReason, [Next]_vars
    PROVE  ProcessedWithReason' /\ FailedWithReason'
<1>1. grows
  BY StepTyped
<1>2. ASSUME NEW e \in Events, status'[e] = "PROCESSED"
      PROVE  allToldOf(e)'
  <2>1. allToldOf(e)
    BY <1>2, StatusMoves DEF ProcessedWithReason
  <2> QED
    BY <1>1, <2>1, GrowthKeepsOwed
<1>3. ASSUME NEW e \in Events, status'[e] = "FAILED"
      PROVE  failures'[e] >= MaxAttempts
  <2>1. failures[e] >= MaxAttempts
    BY <1>3, StatusMoves DEF FailedWithReason
  <2>2. failures[e] <= failures'[e]
    BY <1>1 DEF grows
  <2>3. failures[e] \in Nat /\ failures'[e] \in Nat /\ MaxAttempts \in Nat
    BY StepTyped, OutboxAssumption DEF Typed, TablesOK
  <2> QED
    BY <2>1, <2>2, <2>3
<1>4. ProcessedWithReason'
  BY <1>2 DEF ProcessedWithReason
<1>5. FailedWithReason'
  BY <1>3 DEF FailedWithReason
<1> QED
  BY <1>4, <1>5

\* A row is marked processed only when all of a list of recipients that a pass may read,
\* however many the limit lets through, have the notification but for those who muted
\* it, and given up only after maxAttempts failures, whatever passes race, overwrite each
\* other's count, fail or are cut off (notifications.service.ts:103-227).
THEOREM Settled == Spec => []SettledWithReason
<1>1. Init => ProcessedWithReason /\ FailedWithReason
  BY DEF Init, ProcessedWithReason, FailedWithReason
<1>2. Typed /\ ProcessedWithReason /\ FailedWithReason /\ [Next]_vars
         => ProcessedWithReason' /\ FailedWithReason'
  BY StepReasons
<1>3. ProcessedWithReason /\ FailedWithReason => SettledWithReason
  BY ReasonsSettle
<1> QED
  BY <1>1, <1>2, <1>3, AlwaysTyped, PTL DEF Spec

-----------------------------------------------------------------------------
(* A notification is handed to the provider at most once.                     *)

\* Pass d has inserted the notification and is about to hand it over.
about(d, u, e) == pass[d].pc = "deliver" /\ pass[d].user = u /\ pass[d].event = e

\* Only who inserted a notification delivers it, and nobody else inserts it again.
OnceOK ==
    \A u \in Users, e \in Events :
        /\ deliveries[u][e] <= 1
        /\ inbox[u][e] = "NONE" => deliveries[u][e] = 0
        /\ \A d \in Passes : about(d, u, e) => deliveries[u][e] = 0
        /\ \A d, i \in Passes : about(d, u, e) /\ about(i, u, e) => d = i

LEMMA AboutIsInserted ==
    ASSUME Typed, NEW d \in Passes, NEW u \in Users, NEW e \in Events, about(d, u, e)
    PROVE  inbox[u][e] # "NONE"
BY PassParts DEF about, passOK

\* A step that hands over nothing and after which no pass is newly about to.
LEMMA QuietKeepsOnce ==
    ASSUME Typed, OnceOK, grows, UNCHANGED deliveries, Typed',
           \A d \in Passes, u \in Users, e \in Events : about(d, u, e)' => about(d, u, e)
    PROVE  OnceOK'
<1>1. \A u \in Users, e \in Events : inbox'[u][e] = "NONE" => inbox[u][e] = "NONE"
  BY DEF grows
<1> QED
  BY <1>1 DEF OnceOK

LEMMA GoingOnAbout ==
    ASSUME Typed, NEW d \in Passes, NEW c, goesOn(d, c)
    PROVE  \A i \in Passes, u \in Users, e \in Events :
              about(i, u, e)' <=> IF i = d THEN c.pc = "deliver" /\ c.user = u /\ c.event = e
                                          ELSE about(i, u, e)
BY MovesAlone DEF goesOn, about

LEMMA StepOnce ==
    ASSUME Typed, OnceOK, [Next]_vars
    PROVE  OnceOK'
<1>1. Typed' /\ grows
  BY StepTyped
<1>2. CASE plainStep \/ processedStep \/ recordStep
  <2>1. PICK d \in Passes : \E c : goesOn(d, c) /\ UNCHANGED deliveries /\ c.pc # "deliver"
    BY <1>2 DEF plainStep, plain, processedStep, recordStep
  <2>2. PICK c : goesOn(d, c) /\ UNCHANGED deliveries /\ c.pc # "deliver"
    BY <2>1
  <2>3. \A i \in Passes, u \in Users, e \in Events : about(i, u, e)' => about(i, u, e)
    BY <2>2, GoingOnAbout
  <2> QED
    BY <1>1, <2>2, <2>3, QuietKeepsOnce
<1>3. CASE stillStep \/ crashStep
  <2>1. \A i \in Passes, u \in Users, e \in Events : about(i, u, e)' => about(i, u, e)
    BY <1>3 DEF stillStep, crashStep, about
  <2>2. UNCHANGED deliveries
    BY <1>3 DEF stillStep, crashStep, still
  <2> QED
    BY <1>1, <2>1, <2>2, QuietKeepsOnce
<1>4. CASE insertStep
  <2>1. PICK d \in Passes, v \in Users, x \in Events : \E c :
           /\ goesOn(d, c) /\ UNCHANGED <<status, deliveries>>
           /\ c.pc = "deliver" /\ c.user = v /\ c.event = x
           /\ inbox[v][x] = "NONE" /\ inbox'[v][x] # "NONE"
    BY <1>4 DEF insertStep
  <2>2. \A i \in Passes, u \in Users, e \in Events :
           about(i, u, e)' <=> IF i = d THEN v = u /\ x = e ELSE about(i, u, e)
    BY <2>1, GoingOnAbout
  <2>3. deliveries[v][x] = 0 /\ \A i \in Passes : ~ about(i, v, x)
    BY <2>1, AboutIsInserted DEF OnceOK
  <2>4. \A u \in Users, e \in Events : inbox'[u][e] = "NONE" => inbox[u][e] = "NONE"
    BY <1>1 DEF grows
  <2>5. UNCHANGED deliveries
    BY <2>1
  <2>6. ASSUME NEW u \in Users, NEW e \in Events
        PROVE  /\ deliveries'[u][e] <= 1
               /\ inbox'[u][e] = "NONE" => deliveries'[u][e] = 0
               /\ \A i \in Passes : about(i, u, e)' => deliveries'[u][e] = 0
               /\ \A i, j \in Passes : about(i, u, e)' /\ about(j, u, e)' => i = j
    BY <2>2, <2>3, <2>4, <2>5 DEF OnceOK
  <2> QED
    BY <2>6 DEF OnceOK
<1>5. CASE deliverStep
  <2>1. PICK d \in Passes, v \in Users, x \in Events : \E c :
           /\ goesOn(d, c) /\ UNCHANGED <<status, inbox>> /\ c.pc = "update"
           /\ v = pass[d].user /\ x = pass[d].event /\ pass[d].pc = "deliver"
           /\ deliveries' = [deliveries EXCEPT ![v][x] = deliveries[v][x] + 1]
    BY <1>5 DEF deliverStep
  <2>2. \A i \in Passes, u \in Users, e \in Events :
           about(i, u, e)' <=> i # d /\ about(i, u, e)
    BY <2>1, GoingOnAbout
  <2>3. about(d, v, x)
    BY <2>1 DEF about
  <2>4. /\ deliveries[v][x] = 0 /\ inbox[v][x] # "NONE"
        /\ \A i \in Passes : about(i, v, x) => i = d
    BY <2>3, AboutIsInserted DEF OnceOK
  <2>5. \A u \in Users, e \in Events :
           deliveries'[u][e] = IF u = v /\ e = x THEN 1 ELSE deliveries[u][e]
    BY <2>1, <2>4 DEF Typed, TablesOK
  <2>6. UNCHANGED inbox
    BY <2>1
  <2>7. ASSUME NEW u \in Users, NEW e \in Events
        PROVE  /\ deliveries'[u][e] <= 1
               /\ inbox'[u][e] = "NONE" => deliveries'[u][e] = 0
               /\ \A i \in Passes : about(i, u, e)' => deliveries'[u][e] = 0
               /\ \A i, j \in Passes : about(i, u, e)' /\ about(j, u, e)' => i = j
    <3>1. CASE u = v /\ e = x
      BY <2>2, <2>4, <2>5, <2>6, <3>1
    <3>2. CASE ~ (u = v /\ e = x)
      BY <2>2, <2>5, <2>6, <3>2 DEF OnceOK
    <3> QED
      BY <3>1, <3>2
  <2> QED
    BY <2>7 DEF OnceOK
<1> QED
  BY <1>2, <1>3, <1>4, <1>5, StepKinds

\* Whatever passes race, retry, fail or are cut off, no notification is handed to the
\* provider twice: the pass whose insert won is the only one that delivers it
\* (notifications.service.ts:178-227).
THEOREM AtMostOnce == Spec => []DeliveredAtMostOnce
<1>1. Init => OnceOK
  BY DEF Init, OnceOK, about, NoPass
<1>2. Typed /\ OnceOK /\ [Next]_vars => OnceOK'
  BY StepOnce
<1>3. OnceOK => DeliveredAtMostOnce
  BY DEF OnceOK, DeliveredAtMostOnce
<1> QED
  BY <1>1, <1>2, <1>3, AlwaysTyped, PTL DEF Spec
=============================================================================
