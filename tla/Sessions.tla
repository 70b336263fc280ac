------------------------------ MODULE Sessions ------------------------------
(* Sessions (auth/session.service.ts) and the calls that open, renew and end   *)
(* them (auth/auth.service.ts). A session is a row of refresh_tokens; its      *)
(* token is handed to the client and is good for one refresh.                  *)
(*                                                                            *)
(* A request is one HTTP call under way. Its steps are the statements the      *)
(* handler awaits; a call that is over leaves its slot to the next one. Who     *)
(* may disable an account is looked at in module Accounts, which extends this. *)
EXTENDS Naturals, FiniteSets

CONSTANTS
    Users,
    Clients,       \* the users whose own calls are looked at
    Tokens,        \* bound: ids of refresh_tokens rows, taken in ascending order
    ResetTokens,   \* bound: ids of password_reset_tokens rows, likewise
    Roles,         \* names of roles
    Requests       \* bound: the calls under way at a time

NoToken == 0
NoUser == "nobody"
NoRole == "none"

ASSUME SessionsAssumption ==
    /\ Clients \subseteq Users
    /\ Tokens \subseteq Nat \ {NoToken}
    /\ ResetTokens \subseteq Nat \ {NoToken}
    /\ NoUser \notin Users
    /\ NoRole \notin Roles

VARIABLES
    userStatus,    \* users.status, or NONE before the account; nothing writes DELETED
    session,       \* refresh_tokens
    resetToken,    \* password_reset_tokens
    req,           \* local state of the HTTP calls
    interrupted    \* history: users whose sessions a call was to end when it crashed

sessionVars == <<userStatus, session, resetToken, req, interrupted>>

-----------------------------------------------------------------------------
\* from, handed and outdated are history: the token a rotation minted this one
\* for; the client was answered with it; since it was opened by a login,
\* something has called for the end of all sessions of its user.
Session ==
    [status : {"NONE", "ACTIVE", "USED", "REVOKED"},
     user : Users \cup {NoUser},
     replacedBy : Tokens \cup {NoToken},
     from : Tokens \cup {NoToken},
     handed : BOOLEAN,
     outdated : BOOLEAN]

NoSession ==
    [status |-> "NONE", user |-> NoUser, replacedBy |-> NoToken, from |-> NoToken,
     handed |-> FALSE, outdated |-> FALSE]

ResetToken == [user : Users \cup {NoUser}, used : BOOLEAN]

Request ==
    [pc : {"idle", "mint", "resolve", "claim", "undo", "end", "password", "reset",
           "issue", "count", "write", "revokeAll"},
     op : {"none", "login", "refresh", "logout", "changePassword", "forgot", "reset", "create",
            "enable", "disable", "assign", "revoke", "remove"},
     user : Users \cup {NoUser},       \* whose account the call works on
     token : Tokens \cup ResetTokens \cup {NoToken},
     fresh : Tokens \cup {NoToken},    \* minted by a refresh, not yet handed out
     role : Roles \cup {NoRole},
     stale : BOOLEAN]                  \* history: an account changed since it was read

Idle ==
    [pc |-> "idle", op |-> "none", user |-> NoUser, token |-> NoToken, fresh |-> NoToken,
     role |-> NoRole, stale |-> FALSE]

\* What a call holds depends on where it is: a session that was minted for a
\* refresh and is not yet handed out is held by that refresh alone.
CallsOK ==
    \A r \in Requests :
        /\ req[r].pc = "idle" <=> req[r] = Idle
        /\ req[r].pc # "idle" /\ req[r].op # "remove" => req[r].user \in Users
        /\ req[r].pc \in {"claim", "undo"} <=> req[r].fresh # NoToken
        /\ req[r].fresh # NoToken =>
              /\ session[req[r].fresh].from = req[r].token
              /\ ~ session[req[r].fresh].handed
              /\ \A q \in Requests \ {r} : req[q].fresh # req[r].fresh

SessionsTypeOK ==
    /\ userStatus \in [Users -> {"NONE", "ACTIVE", "SUSPENDED"}]
    /\ session \in [Tokens -> Session]
    /\ resetToken \in [ResetTokens -> ResetToken]
    /\ req \in [Requests -> Request]
    /\ interrupted \subseteq Users
    /\ CallsOK

exists(u) == userStatus[u] # "NONE"
isActive(u) == userStatus[u] = "ACTIVE"

begin(r, call) == req[r].pc = "idle" /\ req' = [req EXCEPT ![r] = call]
goto(r, pc) == req' = [req EXCEPT ![r].pc = pc]
finish(r) == req' = [req EXCEPT ![r] = Idle]

callOf(op, u, t, pc) == [Idle EXCEPT !.pc = pc, !.op = op, !.user = u, !.token = t]

\* All that is left of any call that has come to its revokeAll().
ending(u) == callOf("none", u, NoToken, "revokeAll")

isNext(t) == session[t].status = "NONE" /\ \A i \in Tokens : i < t => session[i].status # "NONE"
sessionsOf(u) == {t \in Tokens : session[t].user = u}
presentable(t) == session[t].handed

\* Everything the user has opened until now is to end.
outdate(sessions, u) ==
    [t \in Tokens |-> IF sessions[t].user = u THEN [sessions[t] EXCEPT !.outdated = TRUE]
                      ELSE sessions[t]]

\* A faulty variant: the token of a refresh is answered before the old one is claimed.
mintedAtOnce(u, old, isHanded) ==
    [status |-> "ACTIVE", user |-> u, replacedBy |-> NoToken, from |-> old,
     handed |-> TRUE, outdated |-> old # NoToken /\ session[old].outdated]

\* mint() inserts an ACTIVE row. Its second statement only sets the hash of a
\* token that nobody can present before the call is answered.
minted(u, old, isHanded) ==
    [status |-> "ACTIVE", user |-> u, replacedBy |-> NoToken, from |-> old,
     handed |-> isHanded, outdated |-> old # NoToken /\ session[old].outdated]

-----------------------------------------------------------------------------
(* revokeAll(), the last write of many calls.                                 *)

revokeAll(r) ==
    /\ req[r].pc = "revokeAll"
    /\ session' = [t \in Tokens |->
                     IF session[t].user = req[r].user /\ session[t].status = "ACTIVE"
                     THEN [session[t] EXCEPT !.status = "REVOKED"] ELSE session[t]]
    /\ interrupted' = interrupted \ {req[r].user}
    /\ finish(r)
    /\ UNCHANGED <<userStatus, resetToken>>

\* A call finds that all sessions of user u are to end: it goes on to revokeAll().
endsAllOf(r, u) ==
    /\ req' = [req EXCEPT ![r] = ending(u)]
    /\ session' = outdate(session, u)

-----------------------------------------------------------------------------
(* POST /auth/login and /auth/logout-all.                                     *)

\* The account is read and the password verified; a wrong one, or an account that
\* is not active, ends the call without effect.
login(r, u) ==
    /\ isActive(u)
    /\ begin(r, callOf("login", u, NoToken, "mint"))
    /\ UNCHANGED <<userStatus, session, resetToken, interrupted>>

loginMints(r, t) ==
    /\ req[r].pc = "mint"
    /\ req[r].op = "login"
    /\ isNext(t)
    /\ session' = [session EXCEPT ![t] = minted(req[r].user, NoToken, TRUE)]
    /\ finish(r)
    /\ UNCHANGED <<userStatus, resetToken, interrupted>>

logoutAll(r, u) ==
    /\ isActive(u)
    /\ req[r].pc = "idle"
    /\ endsAllOf(r, u)
    /\ UNCHANGED <<userStatus, resetToken, interrupted>>

-----------------------------------------------------------------------------
(* POST /auth/refresh.                                                        *)

\* The account comes first: one that is not active loses all its sessions.
refresh(r, t) ==
    /\ presentable(t)
    /\ req[r].pc = "idle"
    /\ IF isActive(session[t].user)
       THEN begin(r, callOf("refresh", session[t].user, t, "resolve")) /\ UNCHANGED session
       ELSE endsAllOf(r, session[t].user)
    /\ UNCHANGED <<userStatus, resetToken, interrupted>>

\* resolve(): the row of the token is read. Anything but ACTIVE is a reuse, and
\* all sessions of the user end.
refreshResolves(r) ==
    /\ req[r].pc = "resolve"
    /\ req[r].op = "refresh"
    /\ IF session[req[r].token].status = "ACTIVE"
       THEN goto(r, "mint") /\ UNCHANGED session
       ELSE endsAllOf(r, req[r].user)
    /\ UNCHANGED <<userStatus, resetToken, interrupted>>

\* The token may have expired.
refreshExpires(r) ==
    /\ req[r].pc = "resolve"
    /\ session[req[r].token].status = "ACTIVE"
    /\ finish(r)
    /\ UNCHANGED <<userStatus, session, resetToken, interrupted>>

refreshMints(r, t) ==
    /\ req[r].pc = "mint"
    /\ req[r].op = "refresh"
    /\ isNext(t)
    /\ session' = [session EXCEPT ![t] = minted(req[r].user, req[r].token, FALSE)]
    /\ req' = [req EXCEPT ![r].pc = "claim", ![r].fresh = t]
    /\ UNCHANGED <<userStatus, resetToken, interrupted>>

\* A faulty variant: the token is claimed by its id alone.
claimableAnyway(t) == TRUE

\* The condition in the claiming UPDATE.
claimable(t) == session[t].status = "ACTIVE"

\* One conditional UPDATE; the client is answered with the fresh token.
claims(r) ==
    /\ req[r].pc = "claim"
    /\ claimable(req[r].token)
    /\ session' = [session EXCEPT ![req[r].token].status = "USED",
                                  ![req[r].token].replacedBy = req[r].fresh,
                                  ![req[r].fresh].handed = TRUE]
    /\ finish(r)
    /\ UNCHANGED <<userStatus, resetToken, interrupted>>

\* The race is lost: the fresh session goes, the family stays.
claimFails(r) ==
    /\ req[r].pc = "claim"
    /\ ~ claimable(req[r].token)
    /\ goto(r, "undo")
    /\ UNCHANGED <<userStatus, session, resetToken, interrupted>>

undoes(r) ==
    /\ req[r].pc = "undo"
    /\ session' = [session EXCEPT ![req[r].fresh].status = "REVOKED"]
    /\ finish(r)
    /\ UNCHANGED <<userStatus, resetToken, interrupted>>

-----------------------------------------------------------------------------
(* POST /auth/logout: the row is read, and later written by its id.           *)

logout(r, t) ==
    /\ presentable(t)
    /\ session[t].status = "ACTIVE"
    /\ begin(r, callOf("logout", session[t].user, t, "end"))
    /\ UNCHANGED <<userStatus, session, resetToken, interrupted>>

logoutEnds(r) ==
    /\ req[r].pc = "end"
    /\ session' = [session EXCEPT ![req[r].token].status = "REVOKED"]
    /\ finish(r)
    /\ UNCHANGED <<userStatus, resetToken, interrupted>>

-----------------------------------------------------------------------------
(* Passwords: the change, the reset token, the reset.                         *)

\* The current password is verified; a wrong one ends the call without effect.
changePassword(r, u) ==
    /\ isActive(u)
    /\ begin(r, callOf("changePassword", u, NoToken, "password"))
    /\ UNCHANGED <<userStatus, session, resetToken, interrupted>>

\* The new password is stored; the sessions end with the next statement.
writesPassword(r) ==
    /\ req[r].pc = "password"
    /\ endsAllOf(r, req[r].user)
    /\ UNCHANGED <<userStatus, resetToken, interrupted>>

\* The unused reset tokens of the user are used up, then a new one is issued.
forgotPassword(r, u) ==
    /\ exists(u)
    /\ begin(r, callOf("forgot", u, NoToken, "issue"))
    /\ resetToken' = [x \in ResetTokens |->
                        IF resetToken[x].user = u THEN [resetToken[x] EXCEPT !.used = TRUE]
                        ELSE resetToken[x]]
    /\ UNCHANGED <<userStatus, session, interrupted>>

issuesResetToken(r, x) ==
    /\ req[r].pc = "issue"
    /\ resetToken[x].user = NoUser
    /\ \A i \in ResetTokens : i < x => resetToken[i].user # NoUser
    /\ resetToken' = [resetToken EXCEPT ![x] = [user |-> req[r].user, used |-> FALSE]]
    /\ finish(r)
    /\ UNCHANGED <<userStatus, session, interrupted>>

\* The reset token is read; a used or unknown one ends the call without effect.
resetPassword(r, x) ==
    /\ resetToken[x].user # NoUser
    /\ ~ resetToken[x].used
    /\ begin(r, callOf("reset", resetToken[x].user, x, "reset"))
    /\ UNCHANGED <<userStatus, session, resetToken, interrupted>>

\* One transaction: the new password, and the token used by its id.
resetWrites(r) ==
    /\ req[r].pc = "reset"
    /\ resetToken' = [resetToken EXCEPT ![req[r].token].used = TRUE]
    /\ endsAllOf(r, req[r].user)
    /\ UNCHANGED <<userStatus, interrupted>>

-----------------------------------------------------------------------------
(* PATCH /employees/:id/status and /users/:id/status.                         *)

\* What the calls of staff under way have read is no longer what there is.
StaffOps == {"create", "enable", "disable", "assign", "revoke", "remove"}
outdateReads(r, call) ==
    [q \in Requests |->
        IF q = r THEN call
        ELSE IF req[q].op \in StaffOps THEN [req[q] EXCEPT !.stale = TRUE]
        ELSE req[q]]

staffCall(op, u, x, pc) == [callOf(op, u, NoToken, pc) EXCEPT !.role = x]
writing(r, op) == req[r].pc = "write" /\ req[r].op = op

setStatus(r, u, op) ==
    /\ exists(u)
    /\ begin(r, staffCall(op, u, NoRole, "write"))
    /\ UNCHANGED <<userStatus, session, resetToken, interrupted>>

enables(r) ==
    /\ writing(r, "enable")
    /\ userStatus' = [userStatus EXCEPT ![req[r].user] = "ACTIVE"]
    /\ req' = outdateReads(r, Idle)
    /\ UNCHANGED <<session, resetToken, interrupted>>

\* The sessions end with the next statement.
disables(r) ==
    /\ writing(r, "disable")
    /\ userStatus' = [userStatus EXCEPT ![req[r].user] = "SUSPENDED"]
    /\ req' = outdateReads(r, ending(req[r].user))
    /\ session' = outdate(session, req[r].user)
    /\ UNCHANGED <<resetToken, interrupted>>

-----------------------------------------------------------------------------
\* The server stops: the calls under way are over, what they committed stays.
crash ==
    /\ \E r \in Requests : req[r].pc # "idle"
    /\ interrupted' = interrupted \cup
                        {u \in Users : /\ \E t \in sessionsOf(u) : session[t].status = "ACTIVE"
                                       /\ \E r \in Requests : req[r].pc = "revokeAll" /\ req[r].user = u}
    /\ req' = [r \in Requests |-> Idle]
    /\ UNCHANGED <<userStatus, session, resetToken>>

clientCalls(r) ==
    \/ \E u \in Clients : login(r, u) \/ logoutAll(r, u) \/ changePassword(r, u)
                             \/ forgotPassword(r, u)
    \/ \E t \in Tokens : refresh(r, t) \/ logout(r, t)
    \/ \E x \in ResetTokens : resetPassword(r, x)

\* What the calls of clients do once they are made.
sessionSteps(r) ==
    \/ \E t \in Tokens : loginMints(r, t) \/ refreshMints(r, t)
    \/ refreshResolves(r) \/ refreshExpires(r) \/ claims(r) \/ claimFails(r) \/ undoes(r)
    \/ logoutEnds(r) \/ writesPassword(r) \/ resetWrites(r) \/ revokeAll(r)
    \/ \E x \in ResetTokens : issuesResetToken(r, x)

SessionsInit ==
    /\ userStatus \in [Users -> {"ACTIVE", "SUSPENDED"}]
    /\ session = [t \in Tokens |-> NoSession]
    /\ resetToken = [x \in ResetTokens |-> [user |-> NoUser, used |-> FALSE]]
    /\ req = [r \in Requests |-> Idle]
    /\ interrupted = {}

SessionsNext ==
    \/ \E r \in Requests :
          \/ clientCalls(r) \/ sessionSteps(r) \/ enables(r) \/ disables(r)
          \/ \E u \in Users, op \in {"enable", "disable"} : setStatus(r, u, op)
    \/ crash

SessionsSpec == SessionsInit /\ [][SessionsNext]_sessionVars

-----------------------------------------------------------------------------
(* What must hold.                                                            *)

\* However many refreshes present one token, the client is answered with one new
\* token for it: a session that was handed out for an older one is the one that
\* took its place, and never counts beside it (session.service.ts:129-144).
RotationIsExclusive ==
    \A t \in Tokens :
        session[t].handed /\ session[t].from # NoToken =>
            /\ session[session[t].from].replacedBy = t
            /\ session[session[t].from].status # "ACTIVE"

\* A session opened before the password was changed or reset, the account
\* disabled, a token reused or all sessions given up does not outlive that: it
\* ends, or a call is still about to end it, or a crash cut that call short. No
\* refresh under way carries it over (auth.service.ts:241, 318;
\* employees.service.ts:277; users.service.ts:148; session.service.ts:121).
SessionsEndWithCredentials ==
    \A t \in Tokens :
        session[t].handed /\ session[t].status = "ACTIVE" /\ session[t].outdated =>
            \/ session[t].user \in interrupted
            \/ \E r \in Requests : req[r].pc = "revokeAll" /\ req[r].user = session[t].user

\* What rows and calls hold on to. With the types it is inductive, and both
\* properties rest on it: a refresh works on a session its client was given, and
\* the fresh one belongs to the same user, is in nobody else's hands, and has been
\* outdated whenever the old one has (session.service.ts:112-152).
rowOK(t) ==
    /\ session[t].status # "NONE" => session[t].user \in Users
    /\ session[t].handed => session[t].status # "NONE"
    /\ session[t].from # NoToken => session[session[t].from].status # "NONE"

callOK(c) ==
    /\ c.op = "refresh" =>
          /\ c.token \in Tokens
          /\ session[c.token].handed
          /\ session[c.token].user = c.user
    /\ c.pc = "end" => c.token \in Tokens /\ session[c.token].handed
    /\ c.op = "remove" => c.pc = "write"
    /\ c.fresh # NoToken =>
          /\ c.op = "refresh"
          /\ session[c.fresh].status # "NONE"
          /\ session[c.fresh].user = c.user
          /\ session[c.fresh].outdated = session[c.token].outdated

SessionsOK ==
    /\ \A t \in Tokens : rowOK(t)
    /\ \A r \in Requests : callOK(req[r])
=============================================================================
