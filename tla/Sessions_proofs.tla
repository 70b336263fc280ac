--------------------------- MODULE Sessions_proofs ---------------------------
(* Theorems about Sessions, and below about Accounts, whose calls are among    *)
(* those of Sessions: their rows keep their types by the same lemmas.          *)
EXTENDS Accounts, FiniteSetTheorems, TLAPS

\* The tables, without the calls.
TablesOK ==
    /\ userStatus \in [Users -> {"NONE", "ACTIVE", "SUSPENDED"}]
    /\ session \in [Tokens -> Session]
    /\ resetToken \in [ResetTokens -> ResetToken]
    /\ interrupted \subseteq Users

\* What CallsOK says of one call, beside the others.
callShape(c) ==
    /\ c.pc = "idle" <=> c = Idle
    /\ c.pc # "idle" /\ c.op # "remove" => c.user \in Users
    /\ c.pc \in {"claim", "undo"} <=> c.fresh # NoToken
    /\ c.fresh # NoToken =>
          /\ session[c.fresh].from = c.token
          /\ ~ session[c.fresh].handed

\* A step of call r leaves the calls of others as they are, but for the mark that
\* what they read is stale.
othersKept(r) ==
    \A q \in Requests \ {r} :
        \/ req'[q] = req[q]
        \/ req[q].op \in StaffOps /\ req'[q] = [req[q] EXCEPT !.stale = TRUE]

\* A step of call r leaves the sessions there are in place: only r hands out the
\* session it holds, and the sessions of a user are outdated together.
sessionsKept(r) ==
    /\ \A t \in Tokens : session[t].status # "NONE" =>
          /\ session'[t].user = session[t].user
          /\ session'[t].from = session[t].from
          /\ session'[t].status # "NONE"
          /\ session[t].handed => session'[t].handed
          /\ session'[t].handed => session[t].handed \/ t = req[r].fresh
    /\ \A s, t \in Tokens :
          /\ session[s].status # "NONE" /\ session[t].status # "NONE"
          /\ session[s].user = session[t].user
          /\ session[s].outdated = session[t].outdated
          => session'[s].outdated = session'[t].outdated

LEMMA NoTokenIsNone == NoToken \notin Tokens /\ NoToken \notin ResetTokens
BY SessionsAssumption

LEMMA IdleType == Idle \in Request
BY DEF Idle, Request

LEMMA CallOfType ==
    ASSUME NEW op \in {"none", "login", "refresh", "logout", "changePassword", "forgot", "reset",
                       "create", "enable", "disable", "assign", "revoke", "remove"},
           NEW u \in Users, NEW t \in Tokens \cup ResetTokens \cup {NoToken},
           NEW pc \in {"mint", "resolve", "claim", "undo", "end", "password", "reset",
                       "issue", "count", "write", "revokeAll"}
    PROVE  /\ callOf(op, u, t, pc) \in Request
           /\ callOf(op, u, t, pc).pc = pc
           /\ callOf(op, u, t, pc).op = op
           /\ callOf(op, u, t, pc).user = u
           /\ callOf(op, u, t, pc).token = t
           /\ callOf(op, u, t, pc).fresh = NoToken
           /\ callOf(op, u, t, pc) # Idle
<1> DEFINE c == callOf(op, u, t, pc)
<1>1. /\ c.pc = pc /\ c.op = op /\ c.user = u /\ c.token = t
      /\ c.fresh = NoToken /\ c.role = NoRole /\ c.stale = FALSE
  BY DEF callOf, Idle
<1>2. c \in Request
  BY DEF callOf, Idle, Request
<1>3. c # Idle
  BY <1>1 DEF Idle
<1> QED
  BY <1>1, <1>2, <1>3

\* Rows and calls keep what they hold on to, whatever step is taken for call r.
LEMMA StepKeeps ==
    ASSUME SessionsTypeOK, SessionsOK, NEW r \in Requests,
           TablesOK', req' \in [Requests -> Request],
           othersKept(r), sessionsKept(r),
           \A t \in Tokens : rowOK(t)',
           callShape(req[r])', callOK(req[r])',
           req'[r].fresh # NoToken =>
              req'[r].fresh = req[r].fresh \/ session[req'[r].fresh].status = "NONE"
    PROVE  SessionsTypeOK' /\ SessionsOK'
<1>1. ASSUME NEW q \in Requests, q # r
      PROVE  /\ callShape(req[q])' /\ callOK(req[q])'
             /\ req'[q].fresh = req[q].fresh
             /\ req[q].fresh # NoToken => session[req[q].fresh].status # "NONE"
  <2>1. callShape(req[q]) /\ callOK(req[q]) /\ req[q] \in Request
    BY <1>1 DEF SessionsTypeOK, SessionsOK, CallsOK, callShape
  <2>2. /\ req'[q].pc = req[q].pc /\ req'[q].op = req[q].op /\ req'[q].user = req[q].user
        /\ req'[q].token = req[q].token /\ req'[q].fresh = req[q].fresh
    BY <1>1, <2>1 DEF othersKept, Request
  <2>3. req'[q].pc = "idle" <=> req'[q] = Idle
    BY <1>1, <2>1, <2>2 DEF othersKept, callShape, Idle, StaffOps, Request
  <2>4. req[q].fresh # NoToken =>
          /\ req[q].fresh \in Tokens
          /\ req[q].token \in Tokens
          /\ session[req[q].fresh].status # "NONE"
          /\ session[req[q].token].status # "NONE"
          /\ req[q].fresh # req[r].fresh
    BY <1>1, <2>1 DEF callOK, SessionsTypeOK, SessionsOK, CallsOK, rowOK, Request
  <2>5. req[q].fresh # NoToken =>
          /\ session'[req[q].fresh].from = req[q].token
          /\ ~ session'[req[q].fresh].handed
          /\ session'[req[q].fresh].status # "NONE"
          /\ session'[req[q].fresh].user = req[q].user
    BY <2>1, <2>4 DEF sessionsKept, callShape, callOK
  <2>6. req[q].fresh # NoToken =>
          session'[req[q].fresh].outdated = session'[req[q].token].outdated
    BY <2>1, <2>4 DEF sessionsKept, callOK
  <2>7. req[q].op = "refresh" =>
          /\ req[q].token \in Tokens
          /\ session'[req[q].token].handed
          /\ session'[req[q].token].user = req[q].user
    BY <2>1 DEF sessionsKept, callOK, SessionsOK, rowOK
  <2>8. req[q].pc = "end" => req[q].token \in Tokens /\ session'[req[q].token].handed
    BY <2>1 DEF sessionsKept, callOK, SessionsOK, rowOK
  <2>9. callShape(req[q])'
    BY <2>1, <2>2, <2>3, <2>5 DEF callShape
  <2>10. callOK(req[q])'
    BY <2>1, <2>2, <2>5, <2>6, <2>7, <2>8 DEF callOK
  <2> QED
    BY <2>2, <2>4, <2>9, <2>10
<1>2. \A q \in Requests : callShape(req[q])' /\ callOK(req[q])'
  BY <1>1
<1>3. ASSUME NEW p \in Requests, NEW q \in Requests \ {p}, req'[p].fresh # NoToken
      PROVE  req'[q].fresh # req'[p].fresh
  <2>1. CASE p # r /\ q # r
    BY <1>1, <1>3, <2>1 DEF SessionsTypeOK, CallsOK
  <2>2. CASE p = r
    BY <1>1, <1>3, <2>2 DEF SessionsTypeOK, CallsOK
  <2>3. CASE q = r
    BY <1>1, <1>3, <2>3 DEF SessionsTypeOK, CallsOK
  <2> QED
    BY <2>1, <2>2, <2>3
<1>4. CallsOK'
  BY <1>2, <1>3 DEF CallsOK, callShape
<1> QED
  BY <1>2, <1>4 DEF SessionsTypeOK, SessionsOK, TablesOK

-----------------------------------------------------------------------------
(* What the steps do to the calls and to the sessions.                        *)

LEMMA OneCall ==
    ASSUME SessionsTypeOK, NEW r \in Requests, NEW c \in Request,
           req' = [req EXCEPT ![r] = c] \/ req' = outdateReads(r, c)
    PROVE  req' \in [Requests -> Request] /\ othersKept(r) /\ req'[r] = c
<1>1. CASE req' = [req EXCEPT ![r] = c]
  BY <1>1 DEF SessionsTypeOK, othersKept
<1>2. CASE req' = outdateReads(r, c)
  <2>1. \A q \in Requests : [req[q] EXCEPT !.stale = TRUE] \in Request
    BY DEF SessionsTypeOK, Request
  <2> QED
    BY <1>2, <2>1 DEF SessionsTypeOK, othersKept, outdateReads
<1> QED
  BY <1>1, <1>2

LEMMA SameSessions ==
    ASSUME SessionsTypeOK, SessionsOK, NEW r \in Requests, session' = session
    PROVE  sessionsKept(r) /\ \A t \in Tokens : rowOK(t)'
BY DEF sessionsKept, SessionsOK, rowOK

LEMMA OutdatedSessions ==
    ASSUME SessionsTypeOK, SessionsOK, NEW r \in Requests, NEW u \in Users,
           session' = outdate(session, u)
    PROVE  /\ session' \in [Tokens -> Session]
           /\ sessionsKept(r)
           /\ \A t \in Tokens : rowOK(t)'
<1>1. ASSUME NEW t \in Tokens
      PROVE  /\ session'[t] \in Session
             /\ session'[t].status = session[t].status
             /\ session'[t].user = session[t].user
             /\ session'[t].from = session[t].from
             /\ session'[t].handed = session[t].handed
             /\ session'[t].outdated = (session[t].outdated \/ session[t].user = u)
  BY DEF outdate, Session, SessionsTypeOK
<1>2. session' \in [Tokens -> Session]
  BY <1>1 DEF outdate
<1>3. sessionsKept(r)
  BY <1>1 DEF sessionsKept
<1>4. ASSUME NEW t \in Tokens PROVE rowOK(t)'
  <2>1. session[t].from \in Tokens \cup {NoToken}
    BY DEF SessionsTypeOK, Session
  <2> QED
    BY <1>1, <2>1 DEF SessionsOK, rowOK
<1> QED
  BY <1>2, <1>3, <1>4

\* The sessions in T lose their status to REVOKED.
LEMMA RevokedSessions ==
    ASSUME SessionsTypeOK, SessionsOK, NEW r \in Requests, NEW T \in SUBSET Tokens,
           \A t \in T : session[t].status # "NONE",
           session' = [t \in Tokens |-> IF t \in T THEN [session[t] EXCEPT !.status = "REVOKED"]
                                        ELSE session[t]]
    PROVE  /\ session' \in [Tokens -> Session]
           /\ sessionsKept(r)
           /\ \A t \in Tokens : rowOK(t)'
<1>1. ASSUME NEW t \in Tokens
      PROVE  /\ session'[t] \in Session
             /\ session'[t].status = (IF t \in T THEN "REVOKED" ELSE session[t].status)
             /\ session'[t].user = session[t].user
             /\ session'[t].from = session[t].from
             /\ session'[t].handed = session[t].handed
             /\ session'[t].outdated = session[t].outdated
  BY DEF Session, SessionsTypeOK
<1>2. session' \in [Tokens -> Session]
  BY <1>1
<1>3. sessionsKept(r)
  BY <1>1 DEF sessionsKept
<1>4. ASSUME NEW t \in Tokens PROVE rowOK(t)'
  <2>1. session[t].from \in Tokens \cup {NoToken}
    BY DEF SessionsTypeOK, Session
  <2> QED
    BY <1>1, <2>1 DEF SessionsOK, rowOK
<1> QED
  BY <1>2, <1>3, <1>4

\* A new row m, opened by a login or rotated from a session there is.
LEMMA MintedSession ==
    ASSUME SessionsTypeOK, SessionsOK, NEW r \in Requests, NEW t \in Tokens, isNext(t),
           NEW m \in Session, m.status # "NONE", m.user \in Users,
           m.from # NoToken => session[m.from].status # "NONE",
           session' = [session EXCEPT ![t] = m]
    PROVE  /\ session' \in [Tokens -> Session]
           /\ sessionsKept(r)
           /\ \A i \in Tokens : rowOK(i)'
           /\ session'[t] = m
           /\ \A i \in Tokens \ {t} : session'[i] = session[i]
<1>1. session'[t] = m /\ \A i \in Tokens \ {t} : session'[i] = session[i]
  BY DEF SessionsTypeOK
<1>2. session[t].status = "NONE"
  BY DEF isNext
<1>3. sessionsKept(r)
  BY <1>1, <1>2 DEF sessionsKept
<1>4. ASSUME NEW i \in Tokens PROVE rowOK(i)'
  <2>1. /\ session[i].from \in Tokens \cup {NoToken}
        /\ m.from \in Tokens \cup {NoToken}
    BY DEF SessionsTypeOK, Session
  <2>2. CASE i = t
    BY <1>1, <1>2, <2>1, <2>2 DEF rowOK
  <2>3. CASE i # t
    BY <1>1, <1>2, <2>1, <2>3 DEF rowOK, SessionsOK
  <2> QED
    BY <2>2, <2>3
<1> QED
  BY <1>1, <1>3, <1>4 DEF SessionsTypeOK

LEMMA MintedType ==
    ASSUME SessionsTypeOK, NEW u \in Users, NEW old \in Tokens \cup {NoToken}
    PROVE  /\ minted(u, old, TRUE) \in Session
           /\ minted(u, old, FALSE) \in Session
BY DEF minted, Session, SessionsTypeOK

-----------------------------------------------------------------------------
(* The invariant, action by action.                                           *)

\* Call r becomes c, which holds no session that is not handed out.
LEMMA CallMoves ==
    ASSUME SessionsTypeOK, SessionsOK, TablesOK', NEW r \in Requests, NEW c \in Request,
           req' = [req EXCEPT ![r] = c] \/ req' = outdateReads(r, c),
           sessionsKept(r), \A t \in Tokens : rowOK(t)',
           c.fresh = NoToken, c.pc \notin {"claim", "undo"}, c.pc = "idle" <=> c = Idle,
           c.pc # "idle" => c.user \in Users,
           c.op = "refresh" => /\ c.token \in Tokens
                               /\ session'[c.token].handed
                               /\ session'[c.token].user = c.user,
           c.pc = "end" => c.token \in Tokens /\ session'[c.token].handed,
           c.op # "remove"
    PROVE  SessionsTypeOK' /\ SessionsOK'
<1>1. req' \in [Requests -> Request] /\ othersKept(r) /\ req'[r] = c
  BY OneCall
<1>2. callShape(req[r])'
  BY <1>1 DEF callShape
<1>3. callOK(req[r])'
  BY <1>1 DEF callOK
<1> QED
  BY <1>1, <1>2, <1>3, StepKeeps

\* Call r moves on and no session changes.
LEMMA CallMovesAlone ==
    ASSUME SessionsTypeOK, SessionsOK, TablesOK', NEW r \in Requests, NEW c \in Request,
           req' = [req EXCEPT ![r] = c] \/ req' = outdateReads(r, c),
           session' = session,
           c.fresh = NoToken, c.pc \notin {"claim", "undo"}, c.pc = "idle" <=> c = Idle,
           c.pc # "idle" => c.user \in Users,
           c.op = "refresh" => /\ c.token \in Tokens
                               /\ session[c.token].handed
                               /\ session[c.token].user = c.user,
           c.pc = "end" => c.token \in Tokens /\ session[c.token].handed,
           c.op # "remove"
    PROVE  SessionsTypeOK' /\ SessionsOK'
BY CallMoves, SameSessions

LEMMA CallFinishes ==
    ASSUME SessionsTypeOK, SessionsOK, TablesOK', NEW r \in Requests,
           req' = [req EXCEPT ![r] = Idle] \/ req' = outdateReads(r, Idle),
           sessionsKept(r), \A t \in Tokens : rowOK(t)'
    PROVE  SessionsTypeOK' /\ SessionsOK'
<1>1. /\ Idle.fresh = NoToken /\ Idle.pc = "idle" /\ Idle.op = "none"
  BY DEF Idle
<1> HIDE DEF Idle
<1> QED
  BY <1>1, IdleType, CallMoves

\* Call r finds that all sessions of user u are to end.
LEMMA CallEndsAll ==
    ASSUME SessionsTypeOK, SessionsOK, NEW r \in Requests, NEW u \in Users,
           req' = [req EXCEPT ![r] = ending(u)] \/ req' = outdateReads(r, ending(u)),
           session' = outdate(session, u),
           userStatus' \in [Users -> {"NONE", "ACTIVE", "SUSPENDED"}],
           resetToken' \in [ResetTokens -> ResetToken],
           interrupted' \subseteq Users
    PROVE  SessionsTypeOK' /\ SessionsOK'
<1> DEFINE c == ending(u)
<1>1. /\ c \in Request /\ c.pc = "revokeAll" /\ c.op = "none" /\ c.user = u
      /\ c.fresh = NoToken /\ c # Idle
  BY CallOfType DEF ending
<1>2. TablesOK'
  BY OutdatedSessions DEF TablesOK
<1> HIDE DEF c
<1>3. req' = [req EXCEPT ![r] = c] \/ req' = outdateReads(r, c)
  BY DEF c
<1> QED
  BY <1>1, <1>2, <1>3, OutdatedSessions, CallMoves

LEMMA CallerKnown ==
    ASSUME SessionsTypeOK, SessionsOK, NEW r \in Requests
    PROVE  /\ req[r] \in Request
           /\ req[r].pc # "idle" /\ req[r].op # "remove" => req[r].user \in Users
           /\ req[r].pc \in {"claim", "undo"} <=> req[r].fresh # NoToken
           /\ callOK(req[r])
BY DEF SessionsTypeOK, SessionsOK, CallsOK

LEMMA GivenHasUser ==
    ASSUME SessionsTypeOK, SessionsOK, NEW t \in Tokens, presentable(t)
    PROVE  session[t].user \in Users /\ session[t].status # "NONE"
BY DEF SessionsOK, rowOK, presentable

\* Logins, logouts and refreshes as clients make them.
LEMMA ClientCallsKeep ==
    ASSUME SessionsTypeOK, SessionsOK, NEW r \in Requests, clientCalls(r)
    PROVE  SessionsTypeOK' /\ SessionsOK'
<1> USE NoTokenIsNone
<1>1. ASSUME NEW u \in Clients, login(r, u) PROVE SessionsTypeOK' /\ SessionsOK'
  <2> DEFINE c == callOf("login", u, NoToken, "mint")
  <2>1. u \in Users
    BY SessionsAssumption
  <2>2. /\ c \in Request /\ c.pc = "mint" /\ c.op = "login" /\ c.user = u
        /\ c.fresh = NoToken /\ c # Idle
    BY <2>1, CallOfType
  <2>3. req' = [req EXCEPT ![r] = c] /\ session' = session /\ TablesOK'
    BY <1>1 DEF login, begin, TablesOK, SessionsTypeOK
  <2> HIDE DEF c
  <2> QED
    BY <2>1, <2>2, <2>3, CallMovesAlone
<1>2. ASSUME NEW u \in Clients, logoutAll(r, u) PROVE SessionsTypeOK' /\ SessionsOK'
  <2>1. u \in Users
    BY SessionsAssumption
  <2> QED
    BY <1>2, <2>1, CallEndsAll DEF logoutAll, endsAllOf, SessionsTypeOK
<1>3. ASSUME NEW u \in Clients, changePassword(r, u) PROVE SessionsTypeOK' /\ SessionsOK'
  <2> DEFINE c == callOf("changePassword", u, NoToken, "password")
  <2>1. u \in Users
    BY SessionsAssumption
  <2>2. /\ c \in Request /\ c.pc = "password" /\ c.op = "changePassword" /\ c.user = u
        /\ c.fresh = NoToken /\ c # Idle
    BY <2>1, CallOfType
  <2>3. req' = [req EXCEPT ![r] = c] /\ session' = session /\ TablesOK'
    BY <1>3 DEF changePassword, begin, TablesOK, SessionsTypeOK
  <2> HIDE DEF c
  <2> QED
    BY <2>1, <2>2, <2>3, CallMovesAlone
<1>4. ASSUME NEW u \in Clients, forgotPassword(r, u) PROVE SessionsTypeOK' /\ SessionsOK'
  <2> DEFINE c == callOf("forgot", u, NoToken, "issue")
  <2>1. u \in Users
    BY SessionsAssumption
  <2>2. /\ c \in Request /\ c.pc = "issue" /\ c.op = "forgot" /\ c.user = u
        /\ c.fresh = NoToken /\ c # Idle
    BY <2>1, CallOfType
  <2>3. req' = [req EXCEPT ![r] = c] /\ session' = session
    BY <1>4 DEF forgotPassword, begin
  <2>4. TablesOK'
    BY <1>4 DEF forgotPassword, TablesOK, SessionsTypeOK, ResetToken
  <2> HIDE DEF c
  <2> QED
    BY <2>1, <2>2, <2>3, <2>4, CallMovesAlone
<1>5. ASSUME NEW t \in Tokens, refresh(r, t) PROVE SessionsTypeOK' /\ SessionsOK'
  <2> DEFINE c == callOf("refresh", session[t].user, t, "resolve")
  <2>1. session[t].user \in Users /\ session[t].handed
    BY <1>5, GivenHasUser DEF refresh, presentable
  <2>2. CASE isActive(session[t].user)
    <3>1. /\ c \in Request /\ c.pc = "resolve" /\ c.op = "refresh" /\ c.user = session[t].user
          /\ c.token = t /\ c.fresh = NoToken /\ c # Idle
      BY <2>1, CallOfType
    <3>2. req' = [req EXCEPT ![r] = c] /\ session' = session /\ TablesOK'
      BY <1>5, <2>2 DEF refresh, begin, TablesOK, SessionsTypeOK
    <3> HIDE DEF c
    <3> QED
      BY <2>1, <3>1, <3>2, CallMovesAlone
  <2>3. CASE ~ isActive(session[t].user)
    BY <1>5, <2>1, <2>3, CallEndsAll DEF refresh, endsAllOf, SessionsTypeOK
  <2> QED
    BY <2>2, <2>3
<1>6. ASSUME NEW t \in Tokens, logout(r, t) PROVE SessionsTypeOK' /\ SessionsOK'
  <2> DEFINE c == callOf("logout", session[t].user, t, "end")
  <2>1. session[t].user \in Users /\ session[t].handed
    BY <1>6, GivenHasUser DEF logout, presentable
  <2>2. /\ c \in Request /\ c.pc = "end" /\ c.op = "logout" /\ c.user \in Users
        /\ c.token = t /\ c.fresh = NoToken /\ c # Idle
    BY <2>1, CallOfType
  <2>3. req' = [req EXCEPT ![r] = c] /\ session' = session /\ TablesOK'
    BY <1>6 DEF logout, begin, TablesOK, SessionsTypeOK
  <2> HIDE DEF c
  <2> QED
    BY <2>1, <2>2, <2>3, CallMovesAlone
<1>7. ASSUME NEW x \in ResetTokens, resetPassword(r, x) PROVE SessionsTypeOK' /\ SessionsOK'
  <2> DEFINE c == callOf("reset", resetToken[x].user, x, "reset")
  <2>1. resetToken[x].user \in Users
    BY <1>7 DEF resetPassword, SessionsTypeOK, ResetToken
  <2>2. /\ c \in Request /\ c.pc = "reset" /\ c.op = "reset" /\ c.user \in Users
        /\ c.fresh = NoToken /\ c # Idle
    BY <2>1, CallOfType
  <2>3. req' = [req EXCEPT ![r] = c] /\ session' = session /\ TablesOK'
    BY <1>7 DEF resetPassword, begin, TablesOK, SessionsTypeOK
  <2> HIDE DEF c
  <2> QED
    BY <2>1, <2>2, <2>3, CallMovesAlone
<1> QED
  BY <1>1, <1>2, <1>3, <1>4, <1>5, <1>6, <1>7 DEF clientCalls

\* goto() moves the call without touching what it holds.
LEMMA GoneTo ==
    ASSUME SessionsTypeOK, NEW r \in Requests, goto(r, "mint") \/ goto(r, "undo") \/ goto(r, "write")
    PROVE  \E c \in Request :
              /\ req' = [req EXCEPT ![r] = c]
              /\ goto(r, "mint") => c.pc = "mint"
              /\ goto(r, "undo") => c.pc = "undo"
              /\ c.pc \in {"mint", "undo", "write"}
              /\ c.op = req[r].op /\ c.user = req[r].user
              /\ c.token = req[r].token /\ c.fresh = req[r].fresh
<1>1. ASSUME NEW pc \in {"mint", "undo", "write"}, goto(r, pc)
      PROVE  \E c \in Request :
              /\ req' = [req EXCEPT ![r] = c]
              /\ c.pc = pc
              /\ c.op = req[r].op /\ c.user = req[r].user
              /\ c.token = req[r].token /\ c.fresh = req[r].fresh
  <2> DEFINE c == [req[r] EXCEPT !.pc = pc]
  <2>1. req' = [req EXCEPT ![r] = c]
    BY <1>1 DEF goto, SessionsTypeOK
  <2>2. c \in Request /\ c.pc = pc
    BY DEF SessionsTypeOK, Request
  <2>3. c.op = req[r].op /\ c.user = req[r].user /\ c.token = req[r].token /\ c.fresh = req[r].fresh
    BY DEF SessionsTypeOK, Request
  <2> HIDE DEF c
  <2> QED
    BY <2>1, <2>2, <2>3
<1>2. goto(r, "mint") => req'[r].pc = "mint"
  BY DEF goto, SessionsTypeOK, Request
<1>3. goto(r, "undo") => req'[r].pc = "undo"
  BY DEF goto, SessionsTypeOK, Request
<1>4. \A c \in Request : req' = [req EXCEPT ![r] = c] => req'[r] = c
  BY DEF SessionsTypeOK
<1> QED
  BY <1>1, <1>2, <1>3, <1>4

\* A refresh reads its token, mints, claims, and undoes.
LEMMA RefreshKeeps ==
    ASSUME SessionsTypeOK, SessionsOK, NEW r \in Requests,
           \/ refreshResolves(r) \/ refreshExpires(r)
           \/ \E t \in Tokens : refreshMints(r, t)
           \/ claims(r) \/ claimFails(r) \/ undoes(r)
    PROVE  SessionsTypeOK' /\ SessionsOK'
<1> USE NoTokenIsNone, CallerKnown
<1>1. CASE refreshResolves(r)
  <2>1. /\ req[r].pc = "resolve" /\ req[r].op = "refresh" /\ req[r].user \in Users
        /\ req[r].fresh = NoToken
    BY <1>1 DEF refreshResolves
  <2>2. CASE session[req[r].token].status = "ACTIVE"
    <3>1. goto(r, "mint") /\ session' = session /\ TablesOK'
      BY <1>1, <2>2 DEF refreshResolves, TablesOK, SessionsTypeOK
    <3>2. PICK c \in Request : /\ req' = [req EXCEPT ![r] = c] /\ c.pc = "mint"
                               /\ c.op = req[r].op /\ c.user = req[r].user
                               /\ c.token = req[r].token /\ c.fresh = req[r].fresh
      BY <3>1, GoneTo
    <3>3. c # Idle
      BY <3>2 DEF Idle
    <3>4. /\ c.token \in Tokens /\ session[c.token].handed /\ session[c.token].user = c.user
      BY <2>1, <3>2 DEF callOK
    <3> QED
      BY <2>1, <3>1, <3>2, <3>3, <3>4, CallMovesAlone
  <2>3. CASE session[req[r].token].status # "ACTIVE"
    BY <1>1, <2>1, <2>3, CallEndsAll DEF refreshResolves, endsAllOf, SessionsTypeOK
  <2> QED
    BY <2>2, <2>3
<1>2. CASE refreshExpires(r)
  <2>1. session' = session /\ TablesOK' /\ req' = [req EXCEPT ![r] = Idle]
    BY <1>2 DEF refreshExpires, finish, TablesOK, SessionsTypeOK
  <2> QED
    BY <2>1, SameSessions, CallFinishes
<1>3. ASSUME NEW t \in Tokens, refreshMints(r, t) PROVE SessionsTypeOK' /\ SessionsOK'
  <2> DEFINE c == [req[r] EXCEPT !.pc = "claim", !.fresh = t]
  <2>1. /\ req[r].pc = "mint" /\ req[r].op = "refresh" /\ req[r].user \in Users
        /\ isNext(t) /\ session[t].status = "NONE"
    BY <1>3 DEF refreshMints, isNext
  <2>2. /\ req[r].token \in Tokens /\ session[req[r].token].handed
        /\ session[req[r].token].user = req[r].user
        /\ session[req[r].token].status # "NONE"
    BY <2>1 DEF callOK, SessionsOK, rowOK
  <2> DEFINE m == minted(req[r].user, req[r].token, FALSE)
  <2>3. /\ m \in Session
        /\ m.status = "ACTIVE" /\ m.user = req[r].user /\ m.from = req[r].token
        /\ m.handed = FALSE
    BY <2>1, <2>2, MintedType DEF minted
  <2>4. m.outdated = session[req[r].token].outdated
    <3>1. session[req[r].token].outdated \in BOOLEAN
      BY <2>2 DEF SessionsTypeOK, Session
    <3>2. m.outdated = (req[r].token # NoToken /\ session[req[r].token].outdated)
      BY DEF minted
    <3> QED
      BY <2>2, <3>1, <3>2
  <2>5. session' = [session EXCEPT ![t] = m]
    BY <1>3 DEF refreshMints
  <2> HIDE DEF m
  <2>6. /\ session' \in [Tokens -> Session]
        /\ sessionsKept(r)
        /\ \A i \in Tokens : rowOK(i)'
        /\ session'[t] = m
        /\ \A i \in Tokens \ {t} : session'[i] = session[i]
    BY <2>1, <2>2, <2>3, <2>5, MintedSession
  <2>7. /\ session' \in [Tokens -> Session]
        /\ sessionsKept(r)
        /\ \A i \in Tokens : rowOK(i)'
        /\ session'[t].status = "ACTIVE" /\ session'[t].user = req[r].user
        /\ session'[t].from = req[r].token /\ ~ session'[t].handed
        /\ session'[t].outdated = session'[req[r].token].outdated
    BY <2>1, <2>2, <2>3, <2>4, <2>6
  <2>8. /\ c \in Request /\ c.pc = "claim" /\ c.op = "refresh" /\ c.fresh = t
        /\ c.user = req[r].user /\ c.token = req[r].token
    BY <2>1 DEF Request
  <2>9. req' = [req EXCEPT ![r] = c] /\ TablesOK'
    BY <1>3, <2>7 DEF refreshMints, TablesOK, SessionsTypeOK
  <2>10. c # Idle
    BY <2>8 DEF Idle
  <2> HIDE DEF c
  <2>11. req' \in [Requests -> Request] /\ othersKept(r) /\ req'[r] = c
    BY <2>8, <2>9, OneCall
  <2>12. session'[req[r].token].handed /\ session'[req[r].token].user = req[r].user
    BY <2>2, <2>7 DEF sessionsKept
  <2>13. callShape(req[r])'
    BY <2>1, <2>7, <2>8, <2>10, <2>11 DEF callShape
  <2>14. callOK(req[r])'
    BY <2>2, <2>7, <2>8, <2>11, <2>12 DEF callOK
  <2> QED
    BY <2>1, <2>7, <2>8, <2>9, <2>11, <2>13, <2>14, StepKeeps
<1>4. CASE claims(r)
  <2> DEFINE old == req[r].token
  <2> DEFINE t == req[r].fresh
  <2>1. /\ t \in Tokens /\ old \in Tokens /\ old # t
        /\ session[t].status # "NONE" /\ session[old].status = "ACTIVE"
    BY <1>4 DEF claims, claimable, callOK, SessionsTypeOK, CallsOK, Request
  <2>2. session' = [session EXCEPT ![old].status = "USED", ![old].replacedBy = t,
                                   ![t].handed = TRUE]
    BY <1>4 DEF claims
  <2> HIDE DEF old, t
  <2>3. ASSUME NEW i \in Tokens
        PROVE  /\ session'[i] \in Session
               /\ session'[i].status = (IF i = old THEN "USED" ELSE session[i].status)
               /\ session'[i].user = session[i].user
               /\ session'[i].from = session[i].from
               /\ session'[i].handed = (IF i = t THEN TRUE ELSE session[i].handed)
               /\ session'[i].outdated = session[i].outdated
    <3>1. CASE i = old
      BY <2>1, <2>2, <3>1 DEF SessionsTypeOK, Session
    <3>2. CASE i = t
      BY <2>1, <2>2, <3>2 DEF SessionsTypeOK, Session
    <3>3. CASE i # old /\ i # t
      BY <2>1, <2>2, <3>3 DEF SessionsTypeOK, Session
    <3> QED
      BY <2>1, <3>1, <3>2, <3>3
  <2>4. session' \in [Tokens -> Session]
    BY <2>2, <2>3 DEF SessionsTypeOK
  <2>5. sessionsKept(r)
    BY <2>3 DEF sessionsKept, t
  <2>6. ASSUME NEW i \in Tokens PROVE rowOK(i)'
    <3>1. session[i].from \in Tokens \cup {NoToken} /\ rowOK(i)
      BY DEF SessionsTypeOK, SessionsOK, Session
    <3>2. \A k \in Tokens : session[k].status # "NONE" => session'[k].status # "NONE"
      BY <2>3
    <3>3. session'[i].handed => session'[i].status # "NONE"
      BY <2>1, <2>3, <3>1 DEF rowOK
    <3> QED
      BY <2>3, <3>1, <3>2, <3>3, <2>1 DEF rowOK
  <2>7. TablesOK' /\ req' = [req EXCEPT ![r] = Idle]
    BY <1>4, <2>4 DEF claims, finish, TablesOK, SessionsTypeOK
  <2> QED
    BY <2>5, <2>6, <2>7, CallFinishes
<1>5. CASE claimFails(r)
  <2>1. req[r].pc = "claim" /\ goto(r, "undo") /\ session' = session /\ TablesOK'
    BY <1>5 DEF claimFails, TablesOK, SessionsTypeOK
  <2>2. PICK c \in Request : /\ req' = [req EXCEPT ![r] = c] /\ c.pc = "undo"
                             /\ c.op = req[r].op /\ c.user = req[r].user
                             /\ c.token = req[r].token /\ c.fresh = req[r].fresh
    BY <2>1, GoneTo
  <2>3. c # Idle
    BY <2>2 DEF Idle
  <2>4. req' \in [Requests -> Request] /\ othersKept(r) /\ req'[r] = c
    BY <2>2, OneCall
  <2>5. callShape(req[r])'
    BY <2>1, <2>2, <2>3, <2>4 DEF callShape, SessionsTypeOK, CallsOK
  <2>6. callOK(req[r])'
    BY <2>1, <2>2, <2>4 DEF callOK
  <2> QED
    BY <2>1, <2>2, <2>4, <2>5, <2>6, SameSessions, StepKeeps
<1>6. CASE undoes(r)
  <2>1. req[r].fresh \in Tokens /\ session[req[r].fresh].status # "NONE"
    BY <1>6 DEF undoes, callOK, Request
  <2>2. session' = [i \in Tokens |-> IF i \in {req[r].fresh}
                                     THEN [session[i] EXCEPT !.status = "REVOKED"] ELSE session[i]]
    BY <1>6, <2>1 DEF undoes, SessionsTypeOK
  <2>3. session' \in [Tokens -> Session] /\ sessionsKept(r) /\ \A i \in Tokens : rowOK(i)'
    <3> DEFINE T == {req[r].fresh}
    <3>1. T \in SUBSET Tokens /\ \A i \in T : session[i].status # "NONE"
      BY <2>1
    <3>2. session' = [i \in Tokens |-> IF i \in T THEN [session[i] EXCEPT !.status = "REVOKED"]
                                       ELSE session[i]]
      BY <2>2
    <3> HIDE DEF T
    <3> QED
      BY <3>1, <3>2, RevokedSessions
  <2>4. TablesOK' /\ req' = [req EXCEPT ![r] = Idle]
    BY <1>6, <2>3 DEF undoes, finish, TablesOK, SessionsTypeOK
  <2> QED
    BY <2>3, <2>4, CallFinishes
<1> QED
  BY <1>1, <1>2, <1>3, <1>4, <1>5, <1>6

\* A login opens its session, and a logout ends the one it read.
LEMMA LoginAndLogoutKeep ==
    ASSUME SessionsTypeOK, SessionsOK, NEW r \in Requests,
           (\E t \in Tokens : loginMints(r, t)) \/ logoutEnds(r)
    PROVE  SessionsTypeOK' /\ SessionsOK'
<1> USE NoTokenIsNone, CallerKnown
<1>1. ASSUME NEW t \in Tokens, loginMints(r, t) PROVE SessionsTypeOK' /\ SessionsOK'
  <2> DEFINE m == minted(req[r].user, NoToken, TRUE)
  <2>1. req[r].user \in Users /\ isNext(t)
    BY <1>1 DEF loginMints
  <2>2. m \in Session /\ m.status = "ACTIVE" /\ m.user = req[r].user /\ m.from = NoToken
    BY <2>1, MintedType DEF minted
  <2>3. session' = [session EXCEPT ![t] = m]
    BY <1>1 DEF loginMints
  <2> HIDE DEF m
  <2>4. session' \in [Tokens -> Session] /\ sessionsKept(r) /\ \A i \in Tokens : rowOK(i)'
    BY <2>1, <2>2, <2>3, MintedSession
  <2>5. TablesOK' /\ req' = [req EXCEPT ![r] = Idle]
    BY <1>1, <2>4 DEF loginMints, finish, TablesOK, SessionsTypeOK
  <2> QED
    BY <2>4, <2>5, CallFinishes
<1>2. CASE logoutEnds(r)
  <2> DEFINE T == {req[r].token}
  <2>1. T \in SUBSET Tokens /\ \A t \in T : session[t].status # "NONE"
    BY <1>2 DEF logoutEnds, callOK, SessionsOK, rowOK
  <2>2. session' = [t \in Tokens |-> IF t \in T THEN [session[t] EXCEPT !.status = "REVOKED"]
                                     ELSE session[t]]
    BY <1>2, <2>1 DEF logoutEnds, SessionsTypeOK
  <2> HIDE DEF T
  <2>3. session' \in [Tokens -> Session] /\ sessionsKept(r) /\ \A t \in Tokens : rowOK(t)'
    BY <2>1, <2>2, RevokedSessions
  <2>4. TablesOK' /\ req' = [req EXCEPT ![r] = Idle]
    BY <1>2, <2>3 DEF logoutEnds, finish, TablesOK, SessionsTypeOK
  <2> QED
    BY <2>3, <2>4, CallFinishes
<1> QED
  BY <1>1, <1>2

\* The end of all sessions of a user.
LEMMA RevokeAllKeeps ==
    ASSUME SessionsTypeOK, SessionsOK, NEW r \in Requests, revokeAll(r)
    PROVE  SessionsTypeOK' /\ SessionsOK'
<1> DEFINE T == {t \in Tokens : session[t].user = req[r].user /\ session[t].status = "ACTIVE"}
<1>1. T \in SUBSET Tokens /\ \A t \in T : session[t].status # "NONE"
  OBVIOUS
<1>2. session' = [t \in Tokens |-> IF t \in T THEN [session[t] EXCEPT !.status = "REVOKED"]
                                   ELSE session[t]]
  BY DEF revokeAll
<1> HIDE DEF T
<1>3. session' \in [Tokens -> Session] /\ sessionsKept(r) /\ \A t \in Tokens : rowOK(t)'
  BY <1>1, <1>2, RevokedSessions
<1>4. TablesOK' /\ req' = [req EXCEPT ![r] = Idle]
  BY <1>3 DEF revokeAll, finish, TablesOK, SessionsTypeOK
<1> QED
  BY <1>3, <1>4, CallFinishes

\* Passwords and reset tokens.
LEMMA PasswordKeeps ==
    ASSUME SessionsTypeOK, SessionsOK, NEW r \in Requests,
           \/ writesPassword(r) \/ resetWrites(r)
           \/ \E x \in ResetTokens : issuesResetToken(r, x)
    PROVE  SessionsTypeOK' /\ SessionsOK'
<1>1. CASE writesPassword(r)
  <2>1. req[r].pc = "password"
    BY <1>1 DEF writesPassword
  <2>2. req[r].user \in Users
    BY <2>1, CallerKnown DEF callOK
  <2> QED
    BY <1>1, <2>2, CallEndsAll DEF writesPassword, endsAllOf, SessionsTypeOK
<1>2. CASE resetWrites(r)
  <2>1. req[r].user \in Users
    BY <1>2, CallerKnown DEF resetWrites, callOK
  <2>2. resetToken' \in [ResetTokens -> ResetToken]
    BY <1>2 DEF resetWrites, SessionsTypeOK, ResetToken
  <2> QED
    BY <1>2, <2>1, <2>2, CallEndsAll DEF resetWrites, endsAllOf, SessionsTypeOK
<1>3. ASSUME NEW x \in ResetTokens, issuesResetToken(r, x) PROVE SessionsTypeOK' /\ SessionsOK'
  <2>1. req[r].user \in Users
    BY <1>3, CallerKnown DEF issuesResetToken, callOK
  <2>2. session' = session /\ TablesOK' /\ req' = [req EXCEPT ![r] = Idle]
    BY <1>3, <2>1 DEF issuesResetToken, finish, TablesOK, SessionsTypeOK, ResetToken
  <2> QED
    BY <2>2, SameSessions, CallFinishes
<1> QED
  BY <1>1, <1>2, <1>3

\* Accounts that are enabled and disabled.
LEMMA StatusKeeps ==
    ASSUME SessionsTypeOK, SessionsOK, NEW r \in Requests,
           \/ \E u \in Users, op \in {"enable", "disable"} : setStatus(r, u, op)
           \/ enables(r) \/ disables(r)
    PROVE  SessionsTypeOK' /\ SessionsOK'
<1>1. ASSUME NEW u \in Users, NEW op \in {"enable", "disable"}, setStatus(r, u, op)
      PROVE  SessionsTypeOK' /\ SessionsOK'
  <2> DEFINE b == callOf(op, u, NoToken, "write")
  <2> DEFINE c == [b EXCEPT !.role = NoRole]
  <2>1. /\ b \in Request /\ b.pc = "write" /\ b.op = op /\ b.user = u /\ b.fresh = NoToken
    BY CallOfType
  <2>2. req' = [req EXCEPT ![r] = c] /\ session' = session /\ TablesOK'
    BY <1>1 DEF setStatus, begin, staffCall, TablesOK, SessionsTypeOK
  <2> HIDE DEF b
  <2>3. /\ c \in Request /\ c.pc = "write" /\ c.op = op /\ c.user = u /\ c.fresh = NoToken
    BY <2>1 DEF Request
  <2> HIDE DEF c
  <2>4. c # Idle
    BY <2>3 DEF Idle
  <2> QED
    BY <2>2, <2>3, <2>4, CallMovesAlone
<1>2. CASE enables(r)
  <2>1. session' = session /\ TablesOK' /\ req' = outdateReads(r, Idle)
    BY <1>2 DEF enables, TablesOK, SessionsTypeOK
  <2> QED
    BY <2>1, SameSessions, CallFinishes
<1>3. CASE disables(r)
  <2>1. req[r].user \in Users
    BY <1>3, CallerKnown DEF disables, writing
  <2> QED
    BY <1>3, <2>1, CallEndsAll DEF disables, SessionsTypeOK
<1> QED
  BY <1>1, <1>2, <1>3

\* A crash leaves no call, and every session as it is.
LEMMA CrashKeeps ==
    ASSUME SessionsTypeOK, SessionsOK, crash
    PROVE  SessionsTypeOK' /\ SessionsOK'
<1>1. \A r \in Requests : req'[r] = Idle
  BY DEF crash
<1>2. Idle.pc = "idle" /\ Idle.op = "none" /\ Idle.fresh = NoToken
  BY DEF Idle
<1>3. CallsOK'
  BY <1>1, <1>2 DEF CallsOK
<1>4. SessionsTypeOK'
  BY <1>3, IdleType DEF crash, SessionsTypeOK
<1>5. SessionsOK'
  BY <1>1, <1>2 DEF crash, SessionsOK, rowOK, callOK
<1> QED
  BY <1>4, <1>5

LEMMA StepKeepsAll ==
    ASSUME SessionsTypeOK, SessionsOK, [SessionsNext]_sessionVars
    PROVE  SessionsTypeOK' /\ SessionsOK'
<1>1. CASE UNCHANGED sessionVars
  BY <1>1 DEF sessionVars, SessionsTypeOK, CallsOK, SessionsOK, rowOK, callOK
<1>2. CASE SessionsNext
  BY <1>2, ClientCallsKeep, RefreshKeeps, LoginAndLogoutKeep, RevokeAllKeeps, PasswordKeeps,
     StatusKeeps, CrashKeeps DEF SessionsNext, sessionSteps
<1> QED
  BY <1>1, <1>2

LEMMA InitOK == SessionsInit => SessionsTypeOK /\ SessionsOK
<1> SUFFICES ASSUME SessionsInit PROVE SessionsTypeOK /\ SessionsOK
  OBVIOUS
<1>1. session \in [Tokens -> Session]
  BY DEF SessionsInit, NoSession, Session
<1>2. resetToken \in [ResetTokens -> ResetToken]
  BY DEF SessionsInit, ResetToken
<1>3. \A r \in Requests : req[r] = Idle
  BY DEF SessionsInit
<1>4. Idle.pc = "idle" /\ Idle.op = "none" /\ Idle.fresh = NoToken
  BY DEF Idle
<1>5. CallsOK
  BY <1>3, <1>4 DEF CallsOK
<1>6. SessionsTypeOK
  BY <1>1, <1>2, <1>5, IdleType DEF SessionsInit, SessionsTypeOK
<1>7. SessionsOK
  BY <1>3, <1>4 DEF SessionsInit, SessionsOK, rowOK, callOK, NoSession
<1> QED
  BY <1>6, <1>7

\* Every table and every call keeps its type, and a session that is not handed out
\* is held by one refresh (session.service.ts:51-171).
THEOREM SessionsTyped == SessionsSpec => [](SessionsTypeOK /\ SessionsOK)
<1>1. SessionsInit => SessionsTypeOK /\ SessionsOK
  BY InitOK
<1>2. SessionsTypeOK /\ SessionsOK /\ [SessionsNext]_sessionVars => (SessionsTypeOK /\ SessionsOK)'
  BY StepKeepsAll
<1> QED
  BY <1>1, <1>2, PTL DEF SessionsSpec

-----------------------------------------------------------------------------
(* One successor for a token, and no session that outlives its credentials.   *)

\* Some call is about to end the sessions of user u, or was, when it crashed.
pending(u) ==
    \/ u \in interrupted
    \/ \E q \in Requests : req[q].pc = "revokeAll" /\ req[q].user = u

callsStay(r) ==
    /\ req[r].pc # "revokeAll"
    /\ \A q \in Requests \ {r} : req'[q].pc = req[q].pc /\ req'[q].user = req[q].user
    /\ interrupted' = interrupted

\* No session is minted, handed out, claimed or outdated.
sessionsStay ==
    \A t \in Tokens :
        /\ session'[t].handed = session[t].handed
        /\ session'[t].from = session[t].from
        /\ session'[t].replacedBy = session[t].replacedBy
        /\ session'[t].user = session[t].user
        /\ session'[t].outdated = session[t].outdated
        /\ session'[t].status = "ACTIVE" => session[t].status = "ACTIVE"

Both == RotationIsExclusive /\ SessionsEndWithCredentials

LEMMA PendingStays ==
    ASSUME NEW r \in Requests, callsStay(r), NEW u \in Users, pending(u)
    PROVE  pending(u)'
BY DEF pending, callsStay

LEMMA QuietKeeps ==
    ASSUME SessionsTypeOK, SessionsOK, Both, NEW r \in Requests, callsStay(r), sessionsStay
    PROVE  Both'
<1>1. RotationIsExclusive'
  <2> SUFFICES ASSUME NEW t \in Tokens, session'[t].handed, session'[t].from # NoToken
               PROVE  /\ session'[session'[t].from].replacedBy = t
                      /\ session'[session'[t].from].status # "ACTIVE"
    BY DEF RotationIsExclusive
  <2>1. session[t].handed /\ session'[t].from = session[t].from /\ session[t].from \in Tokens
    BY DEF sessionsStay, SessionsTypeOK, Session
  <2> QED
    BY <2>1 DEF sessionsStay, Both, RotationIsExclusive
<1>2. SessionsEndWithCredentials'
  <2> SUFFICES ASSUME NEW t \in Tokens, session'[t].handed, session'[t].status = "ACTIVE",
                      session'[t].outdated
               PROVE  pending(session[t].user)' /\ session'[t].user = session[t].user
    BY DEF SessionsEndWithCredentials, pending
  <2>1. /\ session[t].handed /\ session[t].status = "ACTIVE" /\ session[t].outdated
        /\ session'[t].user = session[t].user
    BY DEF sessionsStay
  <2>2. session[t].user \in Users
    BY <2>1 DEF SessionsOK, rowOK
  <2>3. pending(session[t].user)
    BY <2>1 DEF Both, SessionsEndWithCredentials, pending
  <2> QED
    BY <2>1, <2>2, <2>3, PendingStays
<1> QED
  BY <1>1, <1>2 DEF Both

LEMMA EndsKeep ==
    ASSUME SessionsTypeOK, SessionsOK, Both, NEW r \in Requests, callsStay(r), NEW u \in Users,
           req'[r].pc = "revokeAll", req'[r].user = u, session' = outdate(session, u)
    PROVE  Both'
<1>1. ASSUME NEW t \in Tokens
      PROVE  /\ session'[t].status = session[t].status
             /\ session'[t].user = session[t].user
             /\ session'[t].from = session[t].from
             /\ session'[t].replacedBy = session[t].replacedBy
             /\ session'[t].handed = session[t].handed
             /\ session'[t].outdated = (session[t].outdated \/ session[t].user = u)
  BY DEF outdate, Session, SessionsTypeOK
<1>2. RotationIsExclusive'
  <2> SUFFICES ASSUME NEW t \in Tokens, session'[t].handed, session'[t].from # NoToken
               PROVE  /\ session'[session'[t].from].replacedBy = t
                      /\ session'[session'[t].from].status # "ACTIVE"
    BY DEF RotationIsExclusive
  <2>1. session[t].handed /\ session'[t].from = session[t].from /\ session[t].from \in Tokens
    BY <1>1 DEF SessionsTypeOK, Session
  <2> QED
    BY <1>1, <2>1 DEF Both, RotationIsExclusive
<1>3. SessionsEndWithCredentials'
  <2> SUFFICES ASSUME NEW t \in Tokens, session'[t].handed, session'[t].status = "ACTIVE",
                      session'[t].outdated
               PROVE  pending(session[t].user)' /\ session'[t].user = session[t].user
    BY DEF SessionsEndWithCredentials, pending
  <2>1. CASE session[t].user = u
    BY <1>1, <2>1 DEF pending
  <2>2. CASE session[t].user # u
    <3>1. session[t].handed /\ session[t].status = "ACTIVE" /\ session[t].outdated
      BY <1>1, <2>2
    <3>2. session[t].user \in Users
      BY <3>1 DEF SessionsOK, rowOK
    <3>3. pending(session[t].user)
      BY <3>1 DEF Both, SessionsEndWithCredentials, pending
    <3> QED
      BY <1>1, <3>2, <3>3, PendingStays
  <2> QED
    BY <2>1, <2>2
<1> QED
  BY <1>2, <1>3 DEF Both

\* A new row counts when it is handed out: then it comes from a login.
LEMMA MintKeeps ==
    ASSUME SessionsTypeOK, SessionsOK, Both, NEW r \in Requests, callsStay(r),
           NEW t \in Tokens, session[t].status = "NONE",
           \A i \in Tokens \ {t} : session'[i] = session[i],
           session'[t].handed => session'[t].from = NoToken /\ ~ session'[t].outdated
    PROVE  Both'
<1>1. RotationIsExclusive'
  <2> SUFFICES ASSUME NEW i \in Tokens, session'[i].handed, session'[i].from # NoToken
               PROVE  /\ session'[session'[i].from].replacedBy = i
                      /\ session'[session'[i].from].status # "ACTIVE"
    BY DEF RotationIsExclusive
  <2>1. i # t /\ session'[i] = session[i]
    OBVIOUS
  <2>2. session[i].from \in Tokens /\ session[i].from # t
    BY <2>1 DEF SessionsTypeOK, Session, SessionsOK, rowOK
  <2> QED
    BY <2>1, <2>2 DEF Both, RotationIsExclusive
<1>2. SessionsEndWithCredentials'
  <2> SUFFICES ASSUME NEW i \in Tokens, session'[i].handed, session'[i].status = "ACTIVE",
                      session'[i].outdated
               PROVE  pending(session[i].user)' /\ session'[i].user = session[i].user
    BY DEF SessionsEndWithCredentials, pending
  <2>1. i # t /\ session'[i] = session[i]
    OBVIOUS
  <2>2. session[i].user \in Users /\ pending(session[i].user)
    BY <2>1 DEF SessionsOK, rowOK, Both, SessionsEndWithCredentials, pending
  <2> QED
    BY <2>1, <2>2, PendingStays
<1> QED
  BY <1>1, <1>2 DEF Both

\* The session that is handed out takes the place of the one that is claimed: no
\* other has, since that one was ACTIVE; and it is outdated only if that one is.
LEMMA ClaimKeeps ==
    ASSUME SessionsTypeOK, SessionsOK, Both, NEW r \in Requests, claims(r)
    PROVE  Both'
<1> DEFINE old == req[r].token
<1> DEFINE t == req[r].fresh
<1>1. callsStay(r)
  BY DEF claims, finish, callsStay
<1>2. /\ t \in Tokens /\ old \in Tokens /\ old # t
      /\ session[t].from = old /\ session[t].user = session[old].user
      /\ session[t].outdated = session[old].outdated
      /\ session[old].status = "ACTIVE" /\ session[old].handed
      /\ session[old].user \in Users
  BY NoTokenIsNone DEF claims, claimable, callOK, SessionsTypeOK, SessionsOK, rowOK, CallsOK, Request
<1>3. session' = [session EXCEPT ![old].status = "USED", ![old].replacedBy = t, ![t].handed = TRUE]
  BY DEF claims
<1> HIDE DEF old, t
<1>4. ASSUME NEW i \in Tokens
      PROVE  /\ session'[i].status = (IF i = old THEN "USED" ELSE session[i].status)
             /\ session'[i].replacedBy = (IF i = old THEN t ELSE session[i].replacedBy)
             /\ session'[i].user = session[i].user
             /\ session'[i].from = session[i].from
             /\ session'[i].handed => session[i].handed \/ i = t
             /\ session'[i].outdated = session[i].outdated
  <2>1. CASE i = old
    BY <1>2, <1>3, <2>1 DEF SessionsTypeOK, Session
  <2>2. CASE i = t
    BY <1>2, <1>3, <2>2 DEF SessionsTypeOK, Session
  <2>3. CASE i # old /\ i # t
    BY <1>2, <1>3, <2>3 DEF SessionsTypeOK, Session
  <2> QED
    BY <1>2, <2>1, <2>2, <2>3
<1>5. RotationIsExclusive'
  <2> SUFFICES ASSUME NEW i \in Tokens, session'[i].handed, session'[i].from # NoToken
               PROVE  /\ session'[session'[i].from].replacedBy = i
                      /\ session'[session'[i].from].status # "ACTIVE"
    BY DEF RotationIsExclusive
  <2>1. CASE i = t
    BY <1>2, <1>4, <2>1
  <2>2. CASE i # t
    <3>1. session[i].handed /\ session'[i].from = session[i].from /\ session[i].from \in Tokens
      BY <1>4, <2>2 DEF SessionsTypeOK, Session
    <3>2. /\ session[session[i].from].replacedBy = i
          /\ session[session[i].from].status # "ACTIVE"
      BY <3>1 DEF Both, RotationIsExclusive
    <3> QED
      BY <1>2, <1>4, <3>1, <3>2
  <2> QED
    BY <2>1, <2>2
<1>6. SessionsEndWithCredentials'
  <2> SUFFICES ASSUME NEW i \in Tokens, session'[i].handed, session'[i].status = "ACTIVE",
                      session'[i].outdated
               PROVE  pending(session[i].user)' /\ session'[i].user = session[i].user
    BY DEF SessionsEndWithCredentials, pending
  <2>1. CASE i = t
    <3>1. session[old].outdated
      BY <1>2, <1>4, <2>1
    <3>2. pending(session[old].user)
      BY <1>2, <3>1 DEF Both, SessionsEndWithCredentials, pending
    <3> QED
      BY <1>1, <1>2, <1>4, <2>1, <3>2, PendingStays
  <2>2. CASE i # t
    <3>1. /\ session[i].handed /\ session[i].status = "ACTIVE" /\ session[i].outdated
          /\ session'[i].user = session[i].user
      BY <1>4, <2>2
    <3>2. session[i].user \in Users /\ pending(session[i].user)
      BY <3>1 DEF SessionsOK, rowOK, Both, SessionsEndWithCredentials, pending
    <3> QED
      BY <1>1, <3>1, <3>2, PendingStays
  <2> QED
    BY <2>1, <2>2
<1> QED
  BY <1>5, <1>6 DEF Both

\* All active sessions of the user end, and whoever asked for it can be at ease:
\* calls and crashes stay pending for others.
LEMMA RevokeKeeps ==
    ASSUME SessionsTypeOK, SessionsOK, Both, NEW r \in Requests, revokeAll(r)
    PROVE  Both'
<1>1. ASSUME NEW t \in Tokens
      PROVE  /\ session'[t].status =
                   (IF session[t].user = req[r].user /\ session[t].status = "ACTIVE"
                    THEN "REVOKED" ELSE session[t].status)
             /\ session'[t].user = session[t].user
             /\ session'[t].from = session[t].from
             /\ session'[t].replacedBy = session[t].replacedBy
             /\ session'[t].handed = session[t].handed
             /\ session'[t].outdated = session[t].outdated
  BY DEF revokeAll, Session, SessionsTypeOK
<1>2. RotationIsExclusive'
  <2> SUFFICES ASSUME NEW t \in Tokens, session'[t].handed, session'[t].from # NoToken
               PROVE  /\ session'[session'[t].from].replacedBy = t
                      /\ session'[session'[t].from].status # "ACTIVE"
    BY DEF RotationIsExclusive
  <2>1. session[t].handed /\ session'[t].from = session[t].from /\ session[t].from \in Tokens
    BY <1>1 DEF SessionsTypeOK, Session
  <2> QED
    BY <1>1, <2>1 DEF Both, RotationIsExclusive
<1>3. SessionsEndWithCredentials'
  <2> SUFFICES ASSUME NEW t \in Tokens, session'[t].handed, session'[t].status = "ACTIVE",
                      session'[t].outdated
               PROVE  pending(session[t].user)' /\ session'[t].user = session[t].user
    BY DEF SessionsEndWithCredentials, pending
  <2>1. /\ session[t].handed /\ session[t].status = "ACTIVE" /\ session[t].outdated
        /\ session[t].user # req[r].user
    BY <1>1
  <2>2. pending(session[t].user)
    BY <2>1 DEF Both, SessionsEndWithCredentials, pending
  <2>3. /\ interrupted' = interrupted \ {req[r].user}
        /\ \A q \in Requests \ {r} : req'[q] = req[q]
    BY DEF revokeAll, finish, SessionsTypeOK
  <2>4. pending(session[t].user)'
    BY <1>1, <2>1, <2>2, <2>3 DEF pending
  <2> QED
    BY <1>1, <2>4
<1> QED
  BY <1>2, <1>3 DEF Both

\* A crash notes whose sessions were about to end.
LEMMA CrashKeepsBoth ==
    ASSUME SessionsTypeOK, SessionsOK, Both, crash
    PROVE  Both'
<1>1. session' = session
  BY DEF crash
<1>2. RotationIsExclusive'
  BY <1>1 DEF Both, RotationIsExclusive
<1>3. ASSUME NEW t \in Tokens, session[t].handed, session[t].status = "ACTIVE",
             session[t].outdated
      PROVE  session[t].user \in interrupted'
  <2>1. session[t].user \in Users /\ pending(session[t].user)
    BY <1>3 DEF SessionsOK, rowOK, Both, SessionsEndWithCredentials, pending
  <2> QED
    BY <1>3, <2>1 DEF crash, sessionsOf, pending
<1>4. SessionsEndWithCredentials'
  BY <1>1, <1>3 DEF SessionsEndWithCredentials
<1> QED
  BY <1>2, <1>4 DEF Both

LEMMA OthersStay ==
    ASSUME SessionsTypeOK, NEW r \in Requests, NEW c \in Request, req[r].pc # "revokeAll",
           interrupted' = interrupted,
           req' = [req EXCEPT ![r] = c] \/ req' = outdateReads(r, c)
    PROVE  callsStay(r) /\ req'[r] = c
<1>1. othersKept(r) /\ req'[r] = c
  BY OneCall
<1>2. \A q \in Requests : req[q] \in Request
  BY DEF SessionsTypeOK
<1> QED
  BY <1>1, <1>2 DEF othersKept, callsStay, Request

\* Calls that are made, or over, or moved on, while no session comes or goes on.
LEMMA UnchangedKeeps ==
    ASSUME SessionsTypeOK, SessionsOK, Both, NEW r \in Requests, callsStay(r),
           session' = session
    PROVE  Both'
BY QuietKeeps DEF sessionsStay

LEMMA EndsAllKeeps ==
    ASSUME SessionsTypeOK, SessionsOK, Both, NEW r \in Requests, NEW u \in Users,
           req[r].pc # "revokeAll", interrupted' = interrupted,
           req' = [req EXCEPT ![r] = ending(u)] \/ req' = outdateReads(r, ending(u)),
           session' = outdate(session, u)
    PROVE  Both'
<1> DEFINE c == ending(u)
<1>1. c \in Request /\ c.pc = "revokeAll" /\ c.user = u
  BY CallOfType DEF ending
<1>2. req' = [req EXCEPT ![r] = c] \/ req' = outdateReads(r, c)
  OBVIOUS
<1> HIDE DEF c
<1>3. callsStay(r) /\ req'[r] = c
  BY <1>1, <1>2, OthersStay
<1> QED
  BY <1>1, <1>3, EndsKeep

LEMMA ClientCallsKeepBoth ==
    ASSUME SessionsTypeOK, SessionsOK, Both, NEW r \in Requests, clientCalls(r)
    PROVE  Both'
<1>1. ASSUME NEW u \in Clients, login(r, u) \/ changePassword(r, u) \/ forgotPassword(r, u)
      PROVE  Both'
  <2>1. callsStay(r) /\ session' = session
    BY <1>1 DEF login, changePassword, forgotPassword, begin, callsStay, SessionsTypeOK
  <2> QED
    BY <2>1, UnchangedKeeps
<1>2. ASSUME NEW u \in Clients, logoutAll(r, u) PROVE Both'
  <2>1. u \in Users
    BY SessionsAssumption
  <2> QED
    BY <1>2, <2>1, EndsAllKeeps DEF logoutAll, endsAllOf
<1>3. ASSUME NEW t \in Tokens, refresh(r, t) PROVE Both'
  <2>1. CASE isActive(session[t].user)
    <3>1. callsStay(r) /\ session' = session
      BY <1>3, <2>1 DEF refresh, begin, callsStay, SessionsTypeOK
    <3> QED
      BY <3>1, UnchangedKeeps
  <2>2. CASE ~ isActive(session[t].user)
    <3>1. session[t].user \in Users
      BY <1>3, GivenHasUser DEF refresh
    <3> QED
      BY <1>3, <2>2, <3>1, EndsAllKeeps DEF refresh, endsAllOf
  <2> QED
    BY <2>1, <2>2
<1>4. ASSUME NEW t \in Tokens, logout(r, t) PROVE Both'
  <2>1. callsStay(r) /\ session' = session
    BY <1>4 DEF logout, begin, callsStay
  <2> QED
    BY <2>1, UnchangedKeeps
<1>5. ASSUME NEW x \in ResetTokens, resetPassword(r, x) PROVE Both'
  <2>1. callsStay(r) /\ session' = session
    BY <1>5 DEF resetPassword, begin, callsStay
  <2> QED
    BY <2>1, UnchangedKeeps
<1> QED
  BY <1>1, <1>2, <1>3, <1>4, <1>5 DEF clientCalls

LEMMA MintsKeepBoth ==
    ASSUME SessionsTypeOK, SessionsOK, Both, NEW r \in Requests, NEW t \in Tokens,
           loginMints(r, t) \/ refreshMints(r, t)
    PROVE  Both'
<1>1. CASE loginMints(r, t)
  <2> DEFINE m == minted(req[r].user, NoToken, TRUE)
  <2>1. m.from = NoToken /\ ~ m.outdated
    BY DEF minted
  <2>2. callsStay(r) /\ session[t].status = "NONE" /\ session' = [session EXCEPT ![t] = m]
    BY <1>1 DEF loginMints, finish, isNext, callsStay
  <2> HIDE DEF m
  <2> QED
    BY <2>1, <2>2, MintKeeps DEF SessionsTypeOK
<1>2. CASE refreshMints(r, t)
  <2> DEFINE m == minted(req[r].user, req[r].token, FALSE)
  <2>1. ~ m.handed
    BY DEF minted
  <2>2. session[t].status = "NONE" /\ session' = [session EXCEPT ![t] = m]
    BY <1>2 DEF refreshMints, isNext
  <2>3. callsStay(r)
    BY <1>2 DEF refreshMints, callsStay, SessionsTypeOK
  <2> HIDE DEF m
  <2> QED
    BY <2>1, <2>2, <2>3, MintKeeps DEF SessionsTypeOK
<1> QED
  BY <1>1, <1>2

\* Sessions that end one at a time.
LEMMA EndedKeeps ==
    ASSUME SessionsTypeOK, SessionsOK, Both, NEW r \in Requests, callsStay(r),
           NEW t \in Tokens, session' = [session EXCEPT ![t].status = "REVOKED"]
    PROVE  Both'
<1>1. sessionsStay
  BY DEF sessionsStay, SessionsTypeOK, Session
<1> QED
  BY <1>1, QuietKeeps

LEMMA RefreshKeepsBoth ==
    ASSUME SessionsTypeOK, SessionsOK, Both, NEW r \in Requests,
           \/ refreshResolves(r) \/ refreshExpires(r) \/ claimFails(r) \/ undoes(r)
           \/ logoutEnds(r)
    PROVE  Both'
<1>1. CASE refreshResolves(r)
  <2>1. CASE session[req[r].token].status = "ACTIVE"
    <3>1. callsStay(r) /\ session' = session
      BY <1>1, <2>1 DEF refreshResolves, goto, callsStay, SessionsTypeOK
    <3> QED
      BY <3>1, UnchangedKeeps
  <2>2. CASE session[req[r].token].status # "ACTIVE"
    <3>1. req[r].user \in Users
      BY <1>1, CallerKnown DEF refreshResolves
    <3> QED
      BY <1>1, <2>2, <3>1, EndsAllKeeps DEF refreshResolves, endsAllOf
  <2> QED
    BY <2>1, <2>2
<1>2. CASE refreshExpires(r) \/ claimFails(r)
  <2>1. callsStay(r) /\ session' = session
    BY <1>2 DEF refreshExpires, claimFails, finish, goto, callsStay, SessionsTypeOK
  <2> QED
    BY <2>1, UnchangedKeeps
<1>3. CASE undoes(r)
  <2>1. callsStay(r)
    BY <1>3 DEF undoes, finish, callsStay
  <2>2. req[r].fresh \in Tokens
    BY <1>3, CallerKnown DEF undoes, Request
  <2> QED
    BY <1>3, <2>1, <2>2, EndedKeeps DEF undoes
<1>4. CASE logoutEnds(r)
  <2>1. callsStay(r)
    BY <1>4 DEF logoutEnds, finish, callsStay
  <2>2. req[r].token \in Tokens
    BY <1>4, CallerKnown DEF logoutEnds, callOK
  <2> QED
    BY <1>4, <2>1, <2>2, EndedKeeps DEF logoutEnds
<1> QED
  BY <1>1, <1>2, <1>3, <1>4

LEMMA AccountStepsKeepBoth ==
    ASSUME SessionsTypeOK, SessionsOK, Both, NEW r \in Requests,
           \/ writesPassword(r) \/ resetWrites(r)
           \/ \E x \in ResetTokens : issuesResetToken(r, x)
           \/ \E u \in Users, op \in {"enable", "disable"} : setStatus(r, u, op)
           \/ enables(r) \/ disables(r)
    PROVE  Both'
<1>1. CASE writesPassword(r) \/ resetWrites(r)
  <2>1. req[r].user \in Users
    BY <1>1, CallerKnown DEF writesPassword, resetWrites, callOK
  <2> QED
    BY <1>1, <2>1, EndsAllKeeps DEF writesPassword, resetWrites, endsAllOf
<1>2. CASE \E x \in ResetTokens : issuesResetToken(r, x)
  <2>1. callsStay(r) /\ session' = session
    BY <1>2 DEF issuesResetToken, finish, callsStay
  <2> QED
    BY <2>1, UnchangedKeeps
<1>3. CASE \E u \in Users, op \in {"enable", "disable"} : setStatus(r, u, op)
  <2>1. callsStay(r) /\ session' = session
    BY <1>3 DEF setStatus, begin, callsStay
  <2> QED
    BY <2>1, UnchangedKeeps
<1>4. CASE enables(r)
  <2>1. callsStay(r) /\ session' = session
    BY <1>4, IdleType, OthersStay DEF enables, writing
  <2> QED
    BY <2>1, UnchangedKeeps
<1>5. CASE disables(r)
  <2>1. req[r].user \in Users /\ req[r].pc # "revokeAll"
    BY <1>5, CallerKnown DEF disables, writing
  <2> QED
    BY <1>5, <2>1, EndsAllKeeps DEF disables
<1> QED
  BY <1>1, <1>2, <1>3, <1>4, <1>5

LEMMA StepKeepsBoth ==
    ASSUME SessionsTypeOK, SessionsOK, Both, [SessionsNext]_sessionVars
    PROVE  Both'
<1>1. CASE UNCHANGED sessionVars
  BY <1>1 DEF sessionVars, Both, RotationIsExclusive, SessionsEndWithCredentials
<1>2. CASE SessionsNext
  BY <1>2, ClientCallsKeepBoth, MintsKeepBoth, ClaimKeeps, RefreshKeepsBoth, RevokeKeeps,
     AccountStepsKeepBoth, CrashKeepsBoth DEF SessionsNext, sessionSteps
<1> QED
  BY <1>1, <1>2

\* Every row and every call of the session service and its callers keeps its
\* type (session.service.ts:51-171, auth.service.ts:160-330).
THEOREM SessionsTypeCorrect == SessionsSpec => []SessionsTypeOK
BY SessionsTyped, PTL

\* Both properties at once: the conditional claim of rotate() and the revokeAll()
\* after each change of credentials (session.service.ts:112-152).
THEOREM SessionsSound == SessionsSpec => []Both
<1>1. SessionsInit => Both
  BY DEF SessionsInit, NoSession, Both, RotationIsExclusive, SessionsEndWithCredentials
<1>2. SessionsTypeOK /\ SessionsOK /\ Both /\ [SessionsNext]_sessionVars => Both'
  BY StepKeepsBoth
<1> QED
  BY <1>1, <1>2, SessionsTyped, PTL DEF SessionsSpec

\* However many refreshes present a token, and whatever else happens, one session
\* takes its place and the token does not count beside it
\* (session.service.ts:129-144).
THEOREM RotationExclusive == SessionsSpec => []RotationIsExclusive
<1>1. Both => RotationIsExclusive
  BY DEF Both
<1> QED
  BY <1>1, SessionsSound, PTL

\* No session outlives the password, the account or the reuse that ended it, but
\* for the call that is about to end it and the crash that cut one short
\* (auth.service.ts:241, 318; employees.service.ts:277; users.service.ts:148).
THEOREM SessionsEnd == SessionsSpec => []SessionsEndWithCredentials
<1>1. Both => SessionsEndWithCredentials
  BY DEF Both
<1> QED
  BY <1>1, SessionsSound, PTL

-----------------------------------------------------------------------------
(* Accounts.                                                                  *)

\* Another account than that of u can sign in and is an owner's.
otherOwner(u) == \E a \in Users \ {u} : isOwner(a) /\ isActive(a)

\* What a call of staff that is not stale has read is still so.
readsHold(c) ==
    /\ c.op = "disable" /\ isOwner(c.user) => otherOwner(c.user)
    /\ c.op = "revoke" /\ c.role = OWNER => otherOwner(c.user)
    /\ c.op = "revoke" => hasOtherRoles(c.user)
    /\ c.op = "remove" => \A u \in Users : c.role \notin roles[u]

\* A call of staff works on a role there may be, and none deletes a system role.
staffCallOK(c) ==
    c.pc \in {"count", "write"} =>
        /\ c.op \in {"create", "assign", "revoke", "remove"} => c.role \in Roles
        /\ c.op = "remove" => c.role \notin SystemRoles
        /\ ~ c.stale => readsHold(c)

\* The account side of AccountsTypeOK, and the seeded roles.
RolesOK ==
    /\ roles \in [Users -> SUBSET {x \in Roles : role[x] = "EXISTS"}]
    /\ role \in [Roles -> {"NONE", "EXISTS", "DELETED"}]
    /\ \A x \in SystemRoles : role[x] = "EXISTS"

SessionsInv == SessionsTypeOK /\ SessionsOK
StaffInv == RolesOK /\ \A r \in Requests : staffCallOK(req[r])
Inv == SessionsInv /\ StaffInv

sessionStep(r) == clientCalls(r) \/ sessionSteps(r)

-----------------------------------------------------------------------------
(* The steps of clients, which only move their own call.                      *)

\* The calls of others are as they were, and call r is no call of staff.
clientMoves(r) ==
    /\ userStatus' = userStatus
    /\ \A q \in Requests \ {r} : req'[q] = req[q]
    /\ req'[r].pc \notin {"count", "write"}

LEMMA CallTo ==
    ASSUME SessionsTypeOK, NEW r \in Requests, NEW c, req' = [req EXCEPT ![r] = c],
           c.pc \notin {"count", "write"}, userStatus' = userStatus
    PROVE  clientMoves(r)
BY DEF SessionsTypeOK, clientMoves

LEMMA PlacesOfCalls ==
    /\ Idle.pc = "idle"
    /\ \A u : ending(u).pc = "revokeAll"
    /\ \A op, u, t, pc : callOf(op, u, t, pc).pc = pc
BY DEF Idle, ending, callOf

LEMMA SessionStepMoves ==
    ASSUME SessionsTypeOK, NEW r \in Requests, sessionStep(r)
    PROVE  clientMoves(r)
<1>1. CASE clientCalls(r)
  <2>1. ASSUME NEW op, NEW u, NEW t, NEW pc, pc \notin {"count", "write"},
               begin(r, callOf(op, u, t, pc)), userStatus' = userStatus
        PROVE  clientMoves(r)
    <3> DEFINE c == callOf(op, u, t, pc)
    <3>1. c.pc = pc
      BY PlacesOfCalls
    <3>2. req' = [req EXCEPT ![r] = c]
      BY <2>1 DEF begin
    <3> HIDE DEF c
    <3> QED
      BY <2>1, <3>1, <3>2, CallTo
  <2>2. ASSUME NEW u, endsAllOf(r, u), userStatus' = userStatus
        PROVE  clientMoves(r)
    BY <2>2, PlacesOfCalls, CallTo DEF endsAllOf
  <2>3. ASSUME NEW u \in Clients,
               login(r, u) \/ logoutAll(r, u) \/ changePassword(r, u) \/ forgotPassword(r, u)
        PROVE  clientMoves(r)
    <3>1. CASE login(r, u)
      BY <2>1, <3>1 DEF login
    <3>2. CASE logoutAll(r, u)
      BY <2>2, <3>2 DEF logoutAll
    <3>3. CASE changePassword(r, u)
      BY <2>1, <3>3 DEF changePassword
    <3>4. CASE forgotPassword(r, u)
      BY <2>1, <3>4 DEF forgotPassword
    <3> QED
      BY <2>3, <3>1, <3>2, <3>3, <3>4
  <2>4. ASSUME NEW t \in Tokens, refresh(r, t) \/ logout(r, t)
        PROVE  clientMoves(r)
    BY <2>4, <2>1, <2>2 DEF refresh, logout
  <2>5. ASSUME NEW x \in ResetTokens, resetPassword(r, x)
        PROVE  clientMoves(r)
    BY <2>5, <2>1 DEF resetPassword
  <2> QED
    BY <1>1, <2>3, <2>4, <2>5 DEF clientCalls
<1>2. CASE sessionSteps(r)
  <2>1. ASSUME goto(r, "mint") \/ goto(r, "undo"), userStatus' = userStatus
        PROVE  clientMoves(r)
    BY <2>1, GoneTo, CallTo
  <2>2. ASSUME finish(r), userStatus' = userStatus
        PROVE  clientMoves(r)
    BY <2>2, PlacesOfCalls, CallTo DEF finish
  <2>3. ASSUME NEW u, endsAllOf(r, u), userStatus' = userStatus
        PROVE  clientMoves(r)
    BY <2>3, PlacesOfCalls, CallTo DEF endsAllOf
  <2>4. ASSUME NEW t \in Tokens, refreshMints(r, t)
        PROVE  clientMoves(r)
    <3>1. req'[r].pc = "claim"
      BY <2>4 DEF refreshMints, SessionsTypeOK, Request
    <3> QED
      BY <2>4, <3>1 DEF refreshMints, clientMoves, SessionsTypeOK
  <2>5. ASSUME NEW t \in Tokens, loginMints(r, t)
        PROVE  clientMoves(r)
    BY <2>5, <2>2 DEF loginMints
  <2>6. CASE refreshResolves(r)
    BY <2>6, <2>1, <2>3 DEF refreshResolves
  <2>7. CASE refreshExpires(r) \/ claims(r) \/ undoes(r) \/ logoutEnds(r) \/ revokeAll(r)
    BY <2>7, <2>2 DEF refreshExpires, claims, undoes, logoutEnds, revokeAll
  <2>8. CASE claimFails(r)
    BY <2>8, <2>1 DEF claimFails
  <2>9. CASE writesPassword(r) \/ resetWrites(r)
    BY <2>9, <2>3 DEF writesPassword, resetWrites
  <2>10. ASSUME NEW x \in ResetTokens, issuesResetToken(r, x)
         PROVE  clientMoves(r)
    BY <2>10, <2>2 DEF issuesResetToken
  <2> QED
    BY <1>2, <2>4, <2>5, <2>6, <2>7, <2>8, <2>9, <2>10 DEF sessionSteps
<1> QED
  BY <1>1, <1>2 DEF sessionStep

-----------------------------------------------------------------------------
(* The rows and calls of the sessions, under the steps of staff.              *)

LEMMA StaffCallType ==
    ASSUME NEW op \in {"create", "enable", "disable", "assign", "revoke", "remove"},
           NEW u \in Users \cup {NoUser}, NEW x \in Roles \cup {NoRole},
           NEW pc \in {"count", "write"}
    PROVE  /\ staffCall(op, u, x, pc) \in Request
           /\ staffCall(op, u, x, pc).pc = pc
           /\ staffCall(op, u, x, pc).op = op
           /\ staffCall(op, u, x, pc).user = u
           /\ staffCall(op, u, x, pc).role = x
           /\ staffCall(op, u, x, pc).fresh = NoToken
           /\ ~ staffCall(op, u, x, pc).stale
           /\ staffCall(op, u, x, pc) # Idle
<1> DEFINE b == callOf(op, u, NoToken, pc)
<1> DEFINE c == [b EXCEPT !.role = x]
<1>1. /\ b \in Request
      /\ b.pc = pc /\ b.op = op /\ b.user = u /\ b.fresh = NoToken /\ ~ b.stale
  BY DEF callOf, Idle, Request
<1>2. staffCall(op, u, x, pc) = c
  BY DEF staffCall
<1> HIDE DEF b
<1>3. c \in Request /\ c.pc = pc /\ c.op = op /\ c.user = u /\ c.role = x
      /\ c.fresh = NoToken /\ ~ c.stale
  BY <1>1 DEF Request
<1> HIDE DEF c
<1>4. c # Idle
  BY <1>3 DEF Idle
<1> QED
  BY <1>2, <1>3, <1>4

\* A call of staff begins on the account of someone.
LEMMA StaffCallBegins ==
    ASSUME SessionsInv, NEW r \in Requests,
           NEW op \in {"create", "enable", "disable", "assign", "revoke"},
           NEW u \in Users, NEW x \in Roles \cup {NoRole}, NEW pc \in {"count", "write"},
           reads(r, staffCall(op, u, x, pc))
    PROVE  SessionsInv'
<1> DEFINE c == staffCall(op, u, x, pc)
<1>1. /\ c \in Request /\ c.pc = pc /\ c.op = op /\ c.user = u
      /\ c.fresh = NoToken /\ c # Idle
  BY StaffCallType
<1>2. req' = [req EXCEPT ![r] = c] /\ session' = session /\ TablesOK'
  BY DEF reads, begin, accountVars, TablesOK, SessionsInv, SessionsTypeOK
<1> HIDE DEF c
<1> QED
  BY <1>1, <1>2, CallMovesAlone DEF SessionsInv

\* A call of staff begins on no account, but a role.
LEMMA RemovalBegins ==
    ASSUME SessionsInv, NEW r \in Requests, NEW x \in Roles,
           reads(r, staffCall("remove", NoUser, x, "write"))
    PROVE  SessionsInv'
<1> DEFINE c == staffCall("remove", NoUser, x, "write")
<1>1. /\ c \in Request /\ c.pc = "write" /\ c.op = "remove"
      /\ c.fresh = NoToken /\ c # Idle
  BY StaffCallType
<1>2. req' = [req EXCEPT ![r] = c] /\ session' = session /\ TablesOK'
  BY DEF reads, begin, accountVars, TablesOK, SessionsInv, SessionsTypeOK
<1> HIDE DEF c
<1>3. req' \in [Requests -> Request] /\ othersKept(r) /\ req'[r] = c
  BY <1>1, <1>2, OneCall DEF SessionsInv
<1>4. callShape(req[r])' /\ callOK(req[r])'
  BY <1>1, <1>3 DEF callShape, callOK
<1>5. sessionsKept(r) /\ \A t \in Tokens : rowOK(t)'
  BY <1>2, SameSessions DEF SessionsInv
<1> QED
  BY <1>1, <1>2, <1>3, <1>4, <1>5, StepKeeps DEF SessionsInv

\* A call of staff ends, with its write or without.
LEMMA StaffCallEnds ==
    ASSUME SessionsInv, NEW r \in Requests,
           finish(r) \/ req' = outdateReads(r, Idle),
           userStatus' \in [Users -> {"NONE", "ACTIVE", "SUSPENDED"}],
           UNCHANGED <<session, resetToken, interrupted>>
    PROVE  SessionsInv'
<1>1. session' = session /\ TablesOK'
  BY DEF TablesOK, SessionsInv, SessionsTypeOK
<1>2. sessionsKept(r) /\ \A t \in Tokens : rowOK(t)'
  BY <1>1, SameSessions DEF SessionsInv
<1> QED
  BY <1>1, <1>2, CallFinishes DEF SessionsInv, finish

\* The count of owners is over: the call goes on to its write, or is staffRefused.
LEMMA CountKeeps ==
    ASSUME SessionsInv, NEW r \in Requests, counts(r)
    PROVE  SessionsInv'
<1>1. CASE finish(r)
  BY <1>1, StaffCallEnds DEF counts, accountVars, SessionsInv, SessionsTypeOK
<1>2. CASE goto(r, "write")
  <2>1. /\ req[r].pc = "count" /\ req[r].fresh = NoToken /\ req[r].op # "remove"
        /\ req[r].user \in Users /\ callOK(req[r])
    BY CallerKnown DEF counts, SessionsInv, callOK
  <2>2. PICK c \in Request : /\ req' = [req EXCEPT ![r] = c]
                             /\ c.pc \in {"mint", "undo", "write"}
                             /\ c.op = req[r].op /\ c.user = req[r].user
                             /\ c.token = req[r].token /\ c.fresh = req[r].fresh
    BY <1>2, GoneTo DEF SessionsInv
  <2>3. session' = session /\ TablesOK'
    BY DEF counts, accountVars, TablesOK, SessionsInv, SessionsTypeOK
  <2>4. c # Idle
    BY <2>2 DEF Idle
  <2>5. c.pc = "write"
    BY <1>2, <2>2 DEF goto, SessionsInv, SessionsTypeOK, Request
  <2> QED
    BY <2>1, <2>2, <2>3, <2>4, <2>5, CallMovesAlone DEF SessionsInv, callOK
<1> QED
  BY <1>1, <1>2 DEF counts

\* A customer registers: the call goes on as a login.
LEMMA RegistrationKeeps ==
    ASSUME SessionsInv, NEW r \in Requests, NEW u \in Users, register(r, u)
    PROVE  SessionsInv'
<1> DEFINE c == callOf("login", u, NoToken, "mint")
<1>1. /\ c \in Request /\ c.pc = "mint" /\ c.op = "login" /\ c.user = u
      /\ c.fresh = NoToken /\ c # Idle
  BY CallOfType
<1>2. req' = outdateReads(r, c) /\ session' = session
  BY DEF register
<1>3. TablesOK'
  BY DEF register, TablesOK, SessionsInv, SessionsTypeOK
<1> HIDE DEF c
<1> QED
  BY <1>1, <1>2, <1>3, CallMovesAlone DEF SessionsInv

LEMMA SessionsInvKept ==
    ASSUME Inv, [AccountsNext]_allVars
    PROVE  SessionsInv'
<1> USE DEF Inv
<1>1. CASE UNCHANGED allVars
  BY <1>1, StepKeepsAll DEF allVars, SessionsInv
<1>2. ASSUME NEW r \in Requests, sessionStep(r) \/ enables(r) \/ disables(r)
      PROVE  SessionsInv'
  BY <1>2, StepKeepsAll DEF sessionStep, SessionsInv, SessionsNext
<1>3. ASSUME NEW r \in Requests, NEW u \in Clients, register(r, u)
      PROVE  SessionsInv'
  BY <1>3, RegistrationKeeps, SessionsAssumption
<1>4. ASSUME NEW r \in Requests, NEW a \in Users, NEW x \in Roles, removeRole(r, a, x)
      PROVE  SessionsInv'
  BY <1>4, RemovalBegins DEF removeRole
<1>5. ASSUME NEW r \in Requests, staffCalls(r)
      PROVE  SessionsInv'
  <2>1. ASSUME NEW a \in Users, NEW u \in Users, NEW x \in Roles, createEmployee(r, a, u, x)
        PROVE  SessionsInv'
    BY <2>1, StaffCallBegins DEF createEmployee
  <2>2. ASSUME NEW a \in Users, NEW u \in Users, NEW x \in Roles, assignRole(r, a, u, x)
        PROVE  SessionsInv'
    BY <2>2, StaffCallBegins DEF assignRole
  <2>3. ASSUME NEW a \in Users, NEW u \in Users, NEW x \in Roles, revokeRole(r, a, u, x)
        PROVE  SessionsInv'
    BY <2>3, StaffCallBegins DEF revokeRole
  <2>4. ASSUME NEW a \in Users, NEW u \in Users, NEW op \in {"enable", "disable"},
               setEmployeeStatus(r, a, u, op) \/ setUserStatus(r, a, u, op)
        PROVE  SessionsInv'
    BY <2>4, StaffCallBegins DEF setEmployeeStatus, setUserStatus
  <2> QED
    BY <1>5, <2>1, <2>2, <2>3, <2>4 DEF staffCalls
<1>6. ASSUME NEW r \in Requests, staffSteps(r)
      PROVE  SessionsInv'
  <2>1. CASE writesEmployee(r)
    BY <2>1, StaffCallEnds DEF writesEmployee, SessionsInv, SessionsTypeOK
  <2>2. CASE employeeRefused(r) \/ assignRefused(r) \/ revokeRefused(r) \/ removeRefused(r)
    <3>1. finish(r) /\ UNCHANGED <<userStatus, session, resetToken, interrupted>>
      BY <2>2 DEF employeeRefused, assignRefused, revokeRefused, removeRefused, staffRefused, accountVars
    <3> QED
      BY <3>1, StaffCallEnds DEF SessionsInv, SessionsTypeOK
  <2>3. CASE assigns(r) \/ revokes(r) \/ removes(r)
    <3>1. req' = outdateReads(r, Idle) /\ UNCHANGED <<userStatus, session, resetToken, interrupted>>
      BY <2>3 DEF assigns, revokes, removes
    <3> QED
      BY <3>1, StaffCallEnds DEF SessionsInv, SessionsTypeOK
  <2> QED
    BY <1>6, <2>1, <2>2, <2>3, CountKeeps DEF staffSteps
<1>7. ASSUME NEW a \in Users, NEW x \in Roles, createRole(a, x)
      PROVE  SessionsInv'
  BY <1>7, StepKeepsAll DEF createRole, SessionsInv
<1>8. CASE crash
  BY <1>8, StepKeepsAll DEF SessionsInv, SessionsNext
<1> QED
  BY <1>1, <1>2, <1>3, <1>4, <1>5, <1>6, <1>7, <1>8 DEF AccountsNext, sessionStep

-----------------------------------------------------------------------------
(* What the calls of staff have read, under every step.                       *)

LEMMA CallMark ==
    ASSUME SessionsTypeOK, NEW r \in Requests, NEW q \in Requests \ {r}, NEW c,
           req' = outdateReads(r, c), staffCallOK(req[q])
    PROVE  staffCallOK(req[q])'
<1>1. CASE req[q].op \in StaffOps
  <2>1. /\ req'[q].pc = req[q].pc /\ req'[q].op = req[q].op /\ req'[q].role = req[q].role
        /\ req'[q].stale
    BY <1>1 DEF outdateReads, SessionsTypeOK, Request
  <2> QED
    BY <2>1 DEF staffCallOK
<1>2. CASE req[q].op \notin StaffOps
  <2>1. req'[q] = req[q]
    BY <1>2 DEF outdateReads
  <2> QED
    BY <1>2, <2>1 DEF staffCallOK, readsHold, StaffOps
<1> QED
  BY <1>1, <1>2

\* A write leaves no call of staff with what it read still trusted: the call itself
\* is over, the others are marked.
LEMMA WriteKeepsReads ==
    ASSUME SessionsTypeOK, NEW r \in Requests, NEW c, c.pc \notin {"count", "write"},
           req' = outdateReads(r, c),
           \A q \in Requests : staffCallOK(req[q])
    PROVE  \A q \in Requests : staffCallOK(req[q])'
<1>1. staffCallOK(req[r])'
  BY DEF staffCallOK, outdateReads
<1> QED
  BY <1>1, CallMark

\* A step that changes no account and no assignment leaves what was read as it is.
LEMMA NothingWritten ==
    ASSUME NEW r \in Requests, userStatus' = userStatus, roles' = roles,
           \A q \in Requests \ {r} : req'[q] = req[q],
           \A q \in Requests : staffCallOK(req[q]),
           staffCallOK(req[r])'
    PROVE  \A q \in Requests : staffCallOK(req[q])'
BY DEF staffCallOK, readsHold, otherOwner, isOwner, isActive, hasOtherRoles

\* A call of staff begins, with what holds when it is made.
LEMMA ReadsKeep ==
    ASSUME SessionsInv, StaffInv, NEW r \in Requests,
           NEW op \in {"create", "enable", "disable", "assign", "revoke", "remove"},
           NEW u \in Users \cup {NoUser}, NEW x \in Roles \cup {NoRole},
           NEW pc \in {"count", "write"}, NEW call,
           call = staffCall(op, u, x, pc), reads(r, call),
           op \in {"create", "assign", "revoke", "remove"} => x \in Roles,
           op = "remove" => x \notin SystemRoles,
           readsHold(call)
    PROVE  StaffInv'
<1>1. /\ call.pc = pc /\ call.op = op /\ call.user = u /\ call.role = x
  BY StaffCallType
<1>2. /\ req' = [req EXCEPT ![r] = call]
      /\ userStatus' = userStatus /\ roles' = roles /\ role' = role
  BY DEF reads, begin, accountVars
<1>3. req'[r] = call /\ \A q \in Requests \ {r} : req'[q] = req[q]
  BY <1>2 DEF SessionsInv, SessionsTypeOK
<1>4. readsHold(call)'
  BY <1>2 DEF readsHold, otherOwner, isOwner, isActive, hasOtherRoles
<1>5. staffCallOK(req[r])'
  BY <1>1, <1>3, <1>4 DEF staffCallOK, readsHold
<1> QED
  BY <1>2, <1>3, <1>5, NothingWritten DEF StaffInv, RolesOK

\* A call of staff is staffRefused.
LEMMA RefusalKeeps ==
    ASSUME SessionsInv, StaffInv, NEW r \in Requests,
           finish(r), UNCHANGED <<userStatus, roles, role>>
    PROVE  StaffInv'
<1>1. req'[r].pc = "idle" /\ \A q \in Requests \ {r} : req'[q] = req[q]
  BY DEF finish, Idle, SessionsInv, SessionsTypeOK
<1>2. staffCallOK(req[r])'
  BY <1>1 DEF staffCallOK
<1> QED
  BY <1>1, <1>2, NothingWritten DEF StaffInv, RolesOK

LEMMA StaffCallsKeep ==
    ASSUME SessionsInv, StaffInv, NEW r \in Requests, staffCalls(r)
    PROVE  StaffInv'
<1>1. ASSUME NEW a \in Users, NEW u \in Users, NEW x \in Roles, createEmployee(r, a, u, x)
      PROVE  StaffInv'
  <2> DEFINE c == staffCall("create", u, x, "write")
  <2>1. c.op = "create"
    BY StaffCallType
  <2> HIDE DEF c
  <2>2. readsHold(c)
    BY <2>1 DEF readsHold
  <2> QED
    BY <1>1, <2>2, ReadsKeep DEF createEmployee, c
<1>2. ASSUME NEW a \in Users, NEW u \in Users, NEW x \in Roles, assignRole(r, a, u, x)
      PROVE  StaffInv'
  <2> DEFINE c == staffCall("assign", u, x, "write")
  <2>1. c.op = "assign"
    BY StaffCallType
  <2> HIDE DEF c
  <2>2. readsHold(c)
    BY <2>1 DEF readsHold
  <2> QED
    BY <1>2, <2>2, ReadsKeep DEF assignRole, c
<1>3. ASSUME NEW a \in Users, NEW u \in Users, NEW x \in Roles, revokeRole(r, a, u, x)
      PROVE  StaffInv'
  <2> DEFINE pc == IF x = OWNER THEN "count" ELSE "write"
  <2> DEFINE c == staffCall("revoke", u, x, pc)
  <2>1. pc \in {"count", "write"}
    OBVIOUS
  <2> HIDE DEF pc
  <2>2. c.op = "revoke" /\ c.user = u /\ c.role = x
    BY <2>1, StaffCallType
  <2> HIDE DEF c
  <2>3. x = OWNER => isOwner(a) /\ isActive(a) /\ a # u
    BY <1>3, AccountsAssumption DEF revokeRole, mayCall, isAnother
  <2>4. readsHold(c)
    BY <1>3, <2>2, <2>3 DEF readsHold, otherOwner, revokeRole
  <2>5. reads(r, c)
    BY <1>3 DEF revokeRole, c, pc
  <2> QED
    BY <2>1, <2>4, <2>5, ReadsKeep DEF c
<1>4. ASSUME NEW a \in Users, NEW u \in Users, NEW op \in {"enable", "disable"},
             setEmployeeStatus(r, a, u, op) \/ setUserStatus(r, a, u, op)
      PROVE  StaffInv'
  <2>1. PICK pc \in {"count", "write"} : reads(r, staffCall(op, u, NoRole, pc))
    BY <1>4 DEF setEmployeeStatus, setUserStatus
  <2> DEFINE c == staffCall(op, u, NoRole, pc)
  <2>2. c.op = op /\ c.user = u
    BY StaffCallType
  <2> HIDE DEF c
  <2>3. isOwner(u) => isOwner(a) /\ isActive(a) /\ a # u
    BY <1>4, AccountsAssumption
    DEF setEmployeeStatus, setUserStatus, mayCall, isAnother, manageable, isOwner
  <2>4. readsHold(c)
    BY <2>2, <2>3 DEF readsHold, otherOwner
  <2> QED
    BY <2>1, <2>4, ReadsKeep DEF c
<1> QED
  BY <1>1, <1>2, <1>3, <1>4 DEF staffCalls

\* Nobody has the role whose removal begins.
LEMMA RemovalKeeps ==
    ASSUME SessionsInv, StaffInv, NEW r \in Requests, NEW a \in Users, NEW x \in Roles,
           removeRole(r, a, x)
    PROVE  StaffInv'
<1> DEFINE c == staffCall("remove", NoUser, x, "write")
<1>1. c.op = "remove" /\ c.role = x
  BY StaffCallType
<1> HIDE DEF c
<1>2. readsHold(c)
  BY <1>1 DEF readsHold, removeRole
<1> QED
  BY <1>2, ReadsKeep DEF removeRole, c

\* What a step of staff writes keeps every role that is assigned in place.
LEMMA WritesKeepRoles ==
    ASSUME SessionsInv, StaffInv, NEW r \in Requests,
           writesEmployee(r) \/ assigns(r) \/ revokes(r) \/ removes(r)
    PROVE  RolesOK'
<1>1. /\ req[r].op \in {"create", "assign", "revoke", "remove"} => req[r].role \in Roles
      /\ req[r].op = "remove" => req[r].role \notin SystemRoles
      /\ req[r].op # "remove" => req[r].user \in Users
  BY CallerKnown
  DEF StaffInv, staffCallOK, SessionsInv, writing, writesEmployee, assigns, revokes, removes
<1>2. CASE writesEmployee(r)
  BY <1>1, <1>2 DEF writesEmployee, writing, StaffInv, RolesOK
<1>3. CASE assigns(r)
  BY <1>1, <1>3 DEF assigns, writing, StaffInv, RolesOK
<1>4. CASE revokes(r)
  BY <1>1, <1>4 DEF revokes, writing, StaffInv, RolesOK
<1>5. CASE removes(r)
  <2> DEFINE x == req[r].role
  <2>1. x \in Roles \ SystemRoles
    BY <1>1, <1>5 DEF removes, writing
  <2>2. /\ role' = [role EXCEPT ![x] = "DELETED"]
        /\ roles' = [u \in Users |-> roles[u] \ {x}]
    BY <1>5 DEF removes
  <2> HIDE DEF x
  <2>3. \A y \in Roles : role'[y] = IF y = x THEN "DELETED" ELSE role[y]
    BY <2>2 DEF StaffInv, RolesOK
  <2>4. role' \in [Roles -> {"NONE", "EXISTS", "DELETED"}]
    BY <2>1, <2>2 DEF StaffInv, RolesOK
  <2>5. \A y \in SystemRoles : role'[y] = "EXISTS"
    BY <2>1, <2>3, AccountsAssumption DEF StaffInv, RolesOK
  <2>6. ASSUME NEW u \in Users PROVE roles'[u] \subseteq {y \in Roles : role'[y] = "EXISTS"}
    BY <2>2, <2>3 DEF StaffInv, RolesOK
  <2>7. roles' \in [Users -> SUBSET {y \in Roles : role'[y] = "EXISTS"}]
    BY <2>2, <2>6
  <2> QED
    BY <2>4, <2>5, <2>7 DEF RolesOK
<1> QED
  BY <1>2, <1>3, <1>4, <1>5

LEMMA StaffStepsKeep ==
    ASSUME SessionsInv, StaffInv, NEW r \in Requests, staffSteps(r)
    PROVE  StaffInv'
<1>1. CASE writesEmployee(r) \/ assigns(r) \/ revokes(r) \/ removes(r)
  <2>1. req' = outdateReads(r, Idle)
    BY <1>1 DEF writesEmployee, assigns, revokes, removes
  <2> QED
    BY <1>1, <2>1, PlacesOfCalls, WriteKeepsReads, WritesKeepRoles DEF StaffInv, SessionsInv
<1>2. CASE employeeRefused(r) \/ assignRefused(r) \/ revokeRefused(r) \/ removeRefused(r)
  BY <1>2, RefusalKeeps
  DEF employeeRefused, assignRefused, revokeRefused, removeRefused, staffRefused, accountVars
<1>3. CASE counts(r)
  <2>1. UNCHANGED <<userStatus, roles, role>>
    BY <1>3 DEF counts, accountVars
  <2>2. CASE finish(r)
    BY <2>1, <2>2, RefusalKeeps
  <2>3. CASE goto(r, "write")
    <3>1. /\ req'[r].pc = "write" /\ req'[r].op = req[r].op /\ req'[r].user = req[r].user
          /\ req'[r].role = req[r].role /\ req'[r].stale = req[r].stale
          /\ \A q \in Requests \ {r} : req'[q] = req[q]
      BY <2>3 DEF goto, SessionsInv, SessionsTypeOK, Request
    <3>2. req[r].pc = "count" /\ staffCallOK(req[r])
      BY <1>3 DEF counts, StaffInv
    <3>3. staffCallOK(req[r])'
      BY <2>1, <3>1, <3>2
      DEF staffCallOK, readsHold, otherOwner, isOwner, isActive, hasOtherRoles
    <3> QED
      BY <2>1, <3>1, <3>3, NothingWritten DEF StaffInv, RolesOK
  <2> QED
    BY <1>3, <2>2, <2>3 DEF counts
<1> QED
  BY <1>1, <1>2, <1>3 DEF staffSteps

LEMMA StaffInvKept ==
    ASSUME Inv, [AccountsNext]_allVars
    PROVE  StaffInv'
<1> USE DEF Inv
<1>1. CASE UNCHANGED allVars
  BY <1>1
  DEF allVars, sessionVars, StaffInv, RolesOK, staffCallOK, readsHold, otherOwner, isOwner, isActive,
      hasOtherRoles
<1>2. ASSUME NEW r \in Requests, sessionStep(r), UNCHANGED <<roles, role>>
      PROVE  StaffInv'
  <2>1. clientMoves(r)
    BY <1>2, SessionStepMoves DEF SessionsInv
  <2>2. staffCallOK(req[r])'
    BY <2>1 DEF clientMoves, staffCallOK
  <2> QED
    BY <1>2, <2>1, <2>2, NothingWritten DEF clientMoves, StaffInv, RolesOK
<1>3. ASSUME NEW r \in Requests, enables(r) \/ disables(r), UNCHANGED <<roles, role>>
      PROVE  StaffInv'
  <2>1. \E c : c.pc \notin {"count", "write"} /\ req' = outdateReads(r, c)
    BY <1>3, PlacesOfCalls DEF enables, disables
  <2> QED
    BY <1>3, <2>1, WriteKeepsReads DEF StaffInv, RolesOK, SessionsInv
<1>4. ASSUME NEW r \in Requests, NEW u \in Users, register(r, u)
      PROVE  StaffInv'
  <2> DEFINE c == callOf("login", u, NoToken, "mint")
  <2>1. req' = outdateReads(r, c) /\ c.pc = "mint"
    BY <1>4, PlacesOfCalls DEF register
  <2> HIDE DEF c
  <2>2. \A q \in Requests : staffCallOK(req[q])'
    BY <2>1, WriteKeepsReads DEF StaffInv, SessionsInv
  <2>3. RolesOK'
    BY <1>4, AccountsAssumption DEF register, StaffInv, RolesOK
  <2> QED
    BY <2>2, <2>3 DEF StaffInv
<1>5. ASSUME NEW a \in Users, NEW x \in Roles, createRole(a, x)
      PROVE  StaffInv'
  <2>1. UNCHANGED <<userStatus, req, roles>> /\ role' = [role EXCEPT ![x] = "EXISTS"]
    BY <1>5 DEF createRole, sessionVars
  <2>2. \A q \in Requests : staffCallOK(req[q])'
    BY <2>1 DEF StaffInv, staffCallOK, readsHold, otherOwner, isOwner, isActive, hasOtherRoles
  <2>3. \A y \in Roles : role[y] = "EXISTS" => role'[y] = "EXISTS"
    BY <2>1 DEF StaffInv, RolesOK
  <2>4. role' \in [Roles -> {"NONE", "EXISTS", "DELETED"}]
    BY <2>1 DEF StaffInv, RolesOK
  <2>5. roles' \in [Users -> SUBSET {y \in Roles : role'[y] = "EXISTS"}]
    BY <2>1, <2>3 DEF StaffInv, RolesOK
  <2>6. \A y \in SystemRoles : role'[y] = "EXISTS"
    BY <2>3, AccountsAssumption DEF StaffInv, RolesOK
  <2> QED
    BY <2>2, <2>4, <2>5, <2>6 DEF StaffInv, RolesOK
<1>6. ASSUME crash, UNCHANGED <<roles, role>>
      PROVE  StaffInv'
  <2>1. \A r \in Requests : req'[r].pc = "idle"
    BY <1>6, PlacesOfCalls DEF crash
  <2> QED
    BY <1>6, <2>1 DEF StaffInv, RolesOK, staffCallOK
<1> QED
  BY <1>1, <1>2, <1>3, <1>4, <1>5, <1>6, RemovalKeeps, StaffCallsKeep, StaffStepsKeep,
     SessionsAssumption DEF AccountsNext, sessionStep

LEMMA AccountsAtFirst ==
    ASSUME AccountsInit
    PROVE  Inv
<1>1. session \in [Tokens -> Session]
  BY DEF AccountsInit, NoSession, Session
<1>2. resetToken \in [ResetTokens -> ResetToken]
  BY DEF AccountsInit, ResetToken
<1>3. \A r \in Requests : req[r] = Idle
  BY DEF AccountsInit
<1>4. Idle.pc = "idle" /\ Idle.op = "none" /\ Idle.fresh = NoToken
  BY DEF Idle
<1>5. CallsOK
  BY <1>3, <1>4 DEF CallsOK
<1>6. SessionsTypeOK
  BY <1>1, <1>2, <1>5, IdleType DEF AccountsInit, SessionsTypeOK
<1>7. SessionsOK
  BY <1>3, <1>4 DEF AccountsInit, SessionsOK, rowOK, callOK, NoSession
<1>8. StaffInv
  BY <1>3, <1>4 DEF AccountsInit, StaffInv, RolesOK, staffCallOK
<1> QED
  BY <1>6, <1>7, <1>8 DEF Inv, SessionsInv

\* A call of staff works on a role there is or was, none deletes a system role, and
\* what a call that overlaps no other has read of the owners, of the roles of its
\* account and of the holders of its role holds until it writes
\* (employees.service.ts:236-349, roles.service.ts:150-180).
THEOREM CallsStandOnTheirReads == AccountsSpec => []Inv
<1>1. AccountsInit => Inv
  BY AccountsAtFirst
<1>2. Inv /\ [AccountsNext]_allVars => Inv'
  BY SessionsInvKept, StaffInvKept DEF Inv
<1> QED
  BY <1>1, <1>2, PTL DEF AccountsSpec

\* Every table and every call keeps its type, and every role that is assigned
\* exists, whoever deletes roles meanwhile (roles.service.ts:150-180).
THEOREM AccountsTypeCorrect == AccountsSpec => []AccountsTypeOK
<1>1. Inv => AccountsTypeOK
  BY DEF Inv, SessionsInv, StaffInv, RolesOK, AccountsTypeOK
<1> QED
  BY <1>1, CallsStandOnTheirReads, PTL

-----------------------------------------------------------------------------
(* What a write may take away.                                                *)

\* A write that holds what has changed since it was read, as the properties say it.
LEMMA StaleWriteSeen ==
    ASSUME NEW r \in Requests, req[r].pc = "write", req[r].stale,
           NEW c, c.pc # "write", req' = outdateReads(r, c)
    PROVE  staleWrite
BY DEF staleWrite, outdateReads

\* The steps that write accounts and assignments.
writesAccounts(r) ==
    \/ (enables(r) \/ disables(r)) /\ roles' = roles
    \/ \E u \in Users : register(r, u)
    \/ writesEmployee(r) \/ assigns(r) \/ revokes(r) \/ removes(r)

LEMMA OthersLeaveAccounts ==
    ASSUME Inv, [AccountsNext]_allVars, \A r \in Requests : ~ writesAccounts(r)
    PROVE  userStatus' = userStatus /\ roles' = roles
<1>1. CASE UNCHANGED allVars
  BY <1>1 DEF allVars, sessionVars
<1>2. ASSUME NEW r \in Requests, sessionStep(r), UNCHANGED <<roles, role>>
      PROVE  userStatus' = userStatus /\ roles' = roles
  BY <1>2, SessionStepMoves DEF Inv, SessionsInv, clientMoves
<1>3. ASSUME NEW r \in Requests, NEW a \in Users, NEW x \in Roles, removeRole(r, a, x)
      PROVE  userStatus' = userStatus /\ roles' = roles
  BY <1>3 DEF removeRole, reads, accountVars
<1>4. ASSUME NEW r \in Requests, staffCalls(r)
      PROVE  userStatus' = userStatus /\ roles' = roles
  BY <1>4 DEF staffCalls, createEmployee, assignRole, revokeRole, setEmployeeStatus, setUserStatus,
              reads, accountVars
<1>5. ASSUME NEW r \in Requests,
             \/ employeeRefused(r) \/ assignRefused(r) \/ revokeRefused(r) \/ removeRefused(r)
             \/ counts(r)
      PROVE  userStatus' = userStatus /\ roles' = roles
  BY <1>5 DEF employeeRefused, assignRefused, revokeRefused, removeRefused, counts, staffRefused,
              accountVars
<1>6. ASSUME NEW a \in Users, NEW x \in Roles, createRole(a, x)
      PROVE  userStatus' = userStatus /\ roles' = roles
  BY <1>6 DEF createRole, sessionVars
<1>7. ASSUME crash, UNCHANGED <<roles, role>>
      PROVE  userStatus' = userStatus /\ roles' = roles
  BY <1>7 DEF crash
<1> QED
  BY <1>1, <1>2, <1>3, <1>4, <1>5, <1>6, <1>7, SessionsAssumption
  DEF AccountsNext, staffSteps, sessionStep, writesAccounts

LEMMA CallRead ==
    ASSUME Inv, NEW r \in Requests, req[r].pc = "write"
    PROVE  /\ req[r].op # "remove" => req[r].user \in Users
           /\ req[r].op = "remove" => req[r].role \notin SystemRoles
           /\ ~ req[r].stale => readsHold(req[r])
BY CallerKnown DEF Inv, SessionsInv, StaffInv, staffCallOK

\* An owner who can sign in stays one, but for a write that read what was still so
\* and leaves another owner, or a write of a call that is stale.
LEMMA OwnerOutlivesWrites ==
    ASSUME Inv, [AccountsNext]_allVars, NEW o \in Users, isOwner(o), isActive(o)
    PROVE  staleWrite \/ \E a \in Users : isOwner(a)' /\ isActive(a)'
<1> DEFINE stays == \E a \in Users : isOwner(a)' /\ isActive(a)'
<1>1. CASE userStatus' = userStatus /\ roles' = roles
  BY <1>1 DEF isOwner, isActive
<1>2. ASSUME NEW r \in Requests, enables(r), roles' = roles PROVE stays
  <2>1. roles' = roles /\ userStatus' = [userStatus EXCEPT ![req[r].user] = "ACTIVE"]
    BY <1>2 DEF enables
  <2> QED
    BY <2>1 DEF isOwner, isActive, Inv, SessionsInv, SessionsTypeOK
<1>3. ASSUME NEW r \in Requests, disables(r), roles' = roles PROVE staleWrite \/ stays
  <2> DEFINE u == req[r].user
  <2>1. /\ roles' = roles /\ userStatus' = [userStatus EXCEPT ![u] = "SUSPENDED"]
        /\ req' = outdateReads(r, ending(u)) /\ req[r].pc = "write" /\ req[r].op = "disable"
    BY <1>3 DEF disables, writing
  <2>2. CASE req[r].stale
    BY <2>1, <2>2, PlacesOfCalls, StaleWriteSeen
  <2>3. CASE ~ req[r].stale
    <3>1. \E a \in Users \ {u} : isOwner(a) /\ isActive(a)
      BY <2>1, <2>3, CallRead DEF readsHold, otherOwner
    <3> QED
      BY <2>1, <3>1 DEF isOwner, isActive, Inv, SessionsInv, SessionsTypeOK
  <2> QED
    BY <2>2, <2>3
<1>4. ASSUME NEW r \in Requests, NEW u \in Users, register(r, u) PROVE stays
  <2>1. /\ u # o
        /\ userStatus' = [userStatus EXCEPT ![u] = "ACTIVE"] /\ roles' = [roles EXCEPT ![u] = {CUSTOMER}]
    BY <1>4 DEF register, exists, isActive
  <2> QED
    BY <2>1 DEF isOwner, isActive, Inv, SessionsInv, SessionsTypeOK, StaffInv, RolesOK
<1>5. ASSUME NEW r \in Requests, writesEmployee(r) PROVE stays
  <2> DEFINE u == req[r].user
  <2>1. /\ u # o
        /\ userStatus' = [userStatus EXCEPT ![u] = "ACTIVE"]
        /\ roles' = [roles EXCEPT ![u] = {req[r].role}]
    BY <1>5 DEF writesEmployee, exists, isActive
  <2> QED
    BY <2>1 DEF isOwner, isActive, Inv, SessionsInv, SessionsTypeOK, StaffInv, RolesOK
<1>6. ASSUME NEW r \in Requests, assigns(r) PROVE stays
  <2>1. roles'[o] = roles[o] \/ roles'[o] = roles[o] \cup {req[r].role}
    BY <1>6 DEF assigns, Inv, StaffInv, RolesOK
  <2>2. userStatus' = userStatus
    BY <1>6 DEF assigns
  <2> QED
    BY <2>1, <2>2 DEF isOwner, isActive
<1>7. ASSUME NEW r \in Requests, revokes(r) PROVE staleWrite \/ stays
  <2> DEFINE u == req[r].user
  <2>1. /\ userStatus' = userStatus
        /\ roles' = [roles EXCEPT ![u] = roles[u] \ {req[r].role}]
        /\ req' = outdateReads(r, Idle) /\ req[r].pc = "write" /\ req[r].op = "revoke"
    BY <1>7 DEF revokes, writing
  <2>2. CASE req[r].stale
    BY <2>1, <2>2, PlacesOfCalls, StaleWriteSeen
  <2>3. CASE req[r].role # OWNER
    <3>1. roles'[o] = roles[o] \/ roles'[o] = roles[o] \ {req[r].role}
      BY <2>1 DEF Inv, StaffInv, RolesOK
    <3> QED
      BY <2>1, <2>3, <3>1 DEF isOwner, isActive
  <2>4. CASE ~ req[r].stale /\ req[r].role = OWNER
    <3>1. \E a \in Users \ {u} : isOwner(a) /\ isActive(a)
      BY <2>1, <2>4, CallRead DEF readsHold, otherOwner
    <3> QED
      BY <2>1, <3>1 DEF isOwner, isActive, Inv, StaffInv, RolesOK
  <2> QED
    BY <2>2, <2>3, <2>4
<1>8. ASSUME NEW r \in Requests, removes(r) PROVE stays
  <2>1. /\ userStatus' = userStatus
        /\ roles'[o] = roles[o] \ {req[r].role}
        /\ req[r].pc = "write" /\ req[r].op = "remove"
    BY <1>8 DEF removes, writing
  <2>2. req[r].role # OWNER
    BY <2>1, CallRead, AccountsAssumption
  <2> QED
    BY <2>1, <2>2 DEF isOwner, isActive
<1> QED
  BY <1>1, <1>2, <1>3, <1>4, <1>5, <1>6, <1>7, <1>8, OthersLeaveAccounts DEF writesAccounts

\* Calls of staff that do not overlap leave an owner who can sign in, whoever
\* disables or demotes whom (employees.service.ts:262-268, 332-348).
THEOREM OwnersStay == AccountsSpec => OwnersRemain
<1>1. ASSUME Inv, [AccountsNext]_allVars
      PROVE  [activeOwners # {} /\ activeOwners' = {} => staleWrite]_allVars
  <2>1. ASSUME activeOwners # {} PROVE staleWrite \/ activeOwners' # {}
    <3>1. PICK o \in Users : isOwner(o) /\ isActive(o)
      BY <2>1 DEF activeOwners, owners
    <3>2. ASSUME NEW a \in Users, isOwner(a)' /\ isActive(a)' PROVE a \in activeOwners'
      BY <3>2 DEF activeOwners, owners
    <3> QED
      BY <1>1, <3>1, <3>2, OwnerOutlivesWrites
  <2> QED
    BY <2>1
<1> QED
  BY <1>1, CallsStandOnTheirReads, PTL DEF AccountsSpec, OwnersRemain

\* Calls of staff that do not overlap leave every account a role, though a role that
\* is deleted takes its assignments with it (employees.service.ts:349,
\* roles.service.ts:178).
THEOREM RolesStay == AccountsSpec => EveryoneKeepsARole
<1>1. ASSUME Inv, [AccountsNext]_allVars
      PROVE  [\A u \in Users : roles[u] # {} /\ roles[u]' = {} => staleWrite]_allVars
  <2> SUFFICES ASSUME NEW u \in Users, roles[u] # {}, roles'[u] = {}
               PROVE  staleWrite
    OBVIOUS
  <2> USE DEF Inv, StaffInv, RolesOK
  <2>1. PICK r \in Requests : writesAccounts(r) /\ roles' # roles
    BY <1>1, OthersLeaveAccounts
  <2>2. ~ \E x \in Users : register(r, x)
    BY <1>1 DEF register
  <2>3. ~ writesEmployee(r)
    BY <1>1 DEF writesEmployee
  <2>4. ~ assigns(r)
    BY <1>1 DEF assigns
  <2>5. CASE revokes(r)
    <3> DEFINE x == req[r].role
    <3>1. /\ roles' = [roles EXCEPT ![req[r].user] = roles[req[r].user] \ {x}]
          /\ req' = outdateReads(r, Idle) /\ req[r].pc = "write" /\ req[r].op = "revoke"
      BY <2>5 DEF revokes, writing
    <3>2. req[r].user = u /\ roles[u] \ {x} = {}
      BY <1>1, <3>1
    <3>3. roles[u] = {x}
      BY <3>2
    <3>4. ~ hasOtherRoles(u)
      <4>1. Cardinality({x}) = 1
        BY FS_Singleton
      <4> QED
        BY <3>3, <4>1 DEF hasOtherRoles
    <3>5. req[r].stale
      BY <1>1, <3>1, <3>2, <3>4, CallRead DEF readsHold
    <3> QED
      BY <3>1, <3>5, PlacesOfCalls, StaleWriteSeen
  <2>6. CASE removes(r)
    <3> DEFINE x == req[r].role
    <3>1. /\ roles'[u] = roles[u] \ {x}
          /\ req' = outdateReads(r, Idle) /\ req[r].pc = "write" /\ req[r].op = "remove"
      BY <2>6 DEF removes, writing
    <3>2. x \in roles[u]
      BY <3>1
    <3>3. req[r].stale
      BY <1>1, <3>1, <3>2, CallRead DEF readsHold
    <3> QED
      BY <3>1, <3>3, PlacesOfCalls, StaleWriteSeen
  <2> QED
    BY <2>1, <2>2, <2>3, <2>4, <2>5, <2>6 DEF writesAccounts
<1> QED
  BY <1>1, CallsStandOnTheirReads, PTL DEF AccountsSpec, EveryoneKeepsARole

-----------------------------------------------------------------------------
(* The promises of the sessions, beside the calls of staff.                   *)

\* A step of staff, or a registration, moves one call and no session.
staffMoves(r) ==
    /\ req[r].pc # "revokeAll"
    /\ UNCHANGED <<session, interrupted>>
    /\ \E c : req' = [req EXCEPT ![r] = c] \/ req' = outdateReads(r, c)

LEMMA StaffMovesQuietly ==
    ASSUME SessionsInv, NEW r \in Requests, staffMoves(r)
    PROVE  callsStay(r)
<1> USE DEF SessionsInv, SessionsTypeOK
<1>1. PICK c : req' = [req EXCEPT ![r] = c] \/ req' = outdateReads(r, c)
  BY DEF staffMoves
<1>2. ASSUME NEW q \in Requests \ {r}
      PROVE  req'[q].pc = req[q].pc /\ req'[q].user = req[q].user
  BY <1>1, <1>2 DEF outdateReads, Request
<1> QED
  BY <1>2 DEF callsStay, staffMoves

LEMMA StaffMoves ==
    ASSUME NEW r \in Requests,
           \/ \E u \in Users : register(r, u)
           \/ \E a \in Users, x \in Roles : removeRole(r, a, x)
           \/ staffCalls(r) \/ staffSteps(r)
    PROVE  staffMoves(r)
<1>1. CASE \E u \in Users : register(r, u)
  BY <1>1 DEF register, staffMoves
<1>2. ASSUME NEW c, reads(r, c) PROVE staffMoves(r)
  BY <1>2 DEF reads, begin, staffMoves
<1>3. CASE \E a \in Users, x \in Roles : removeRole(r, a, x)
  BY <1>2, <1>3 DEF removeRole
<1>4. CASE staffCalls(r)
  BY <1>2, <1>4
  DEF staffCalls, createEmployee, assignRole, revokeRole, setEmployeeStatus, setUserStatus
<1>5. ASSUME finish(r) \/ goto(r, "write") PROVE \E c : req' = [req EXCEPT ![r] = c]
  BY <1>5 DEF finish, goto
<1>6. CASE staffSteps(r)
  <2>1. CASE writesEmployee(r) \/ assigns(r) \/ revokes(r) \/ removes(r)
    BY <2>1 DEF writesEmployee, assigns, revokes, removes, writing, staffMoves
  <2>2. CASE employeeRefused(r) \/ assignRefused(r) \/ revokeRefused(r) \/ removeRefused(r)
    BY <1>5, <2>2
    DEF employeeRefused, assignRefused, revokeRefused, removeRefused, staffRefused, writing, staffMoves
  <2>3. CASE counts(r)
    BY <1>5, <2>3 DEF counts, staffMoves
  <2> QED
    BY <1>6, <2>1, <2>2, <2>3 DEF staffSteps
<1> QED
  BY <1>1, <1>3, <1>4, <1>6

\* What the sessions promise to clients, they promise while staff creates, disables
\* and demotes accounts and customers register (employees.service.ts:277,
\* users.service.ts:148, session.service.ts:129-144).
THEOREM SessionsHoldAmongStaff ==
    AccountsSpec => [](RotationIsExclusive /\ SessionsEndWithCredentials)
<1>1. AccountsInit => Both
  BY DEF AccountsInit, NoSession, Both, RotationIsExclusive, SessionsEndWithCredentials
<1>2. ASSUME Inv, Both, [AccountsNext]_allVars PROVE Both'
  <2> USE DEF Inv, SessionsInv
  <2>1. CASE UNCHANGED allVars
    BY <1>2, <2>1, StepKeepsBoth DEF allVars
  <2>2. ASSUME NEW r \in Requests, sessionStep(r) \/ enables(r) \/ disables(r)
        PROVE  Both'
    BY <1>2, <2>2, StepKeepsBoth DEF sessionStep, SessionsNext
  <2>3. ASSUME NEW r \in Requests,
               \/ \E u \in Users : register(r, u)
               \/ \E a \in Users, x \in Roles : removeRole(r, a, x)
               \/ staffCalls(r) \/ staffSteps(r)
        PROVE  Both'
    <3>1. staffMoves(r) /\ session' = session
      BY <2>3, StaffMoves DEF staffMoves
    <3> QED
      BY <1>2, <3>1, StaffMovesQuietly, UnchangedKeeps
  <2>4. ASSUME NEW a \in Users, NEW x \in Roles, createRole(a, x)
        PROVE  Both'
    BY <1>2, <2>4, StepKeepsBoth DEF createRole
  <2>5. CASE crash
    BY <1>2, <2>5, StepKeepsBoth DEF SessionsNext
  <2> QED
    BY <1>2, <2>1, <2>2, <2>3, <2>4, <2>5, SessionsAssumption DEF AccountsNext, sessionStep
<1>3. Both <=> RotationIsExclusive /\ SessionsEndWithCredentials
  BY DEF Both
<1> QED
  BY <1>1, <1>2, <1>3, CallsStandOnTheirReads, PTL DEF AccountsSpec
=============================================================================
