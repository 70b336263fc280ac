--------------------------- MODULE BrowserSession ---------------------------
(* The staff panel in a browser (frontend/assets/js/core: api.js, session.js,  *)
(* auth.js) in front of the session service. The access token is in the memory *)
(* of a page, the refresh token in localStorage, which the tabs share. A call   *)
(* that is answered 401 asks for a refresh, shared with the other calls of its *)
(* page, and is repeated once.                                                *)
(*                                                                            *)
(* The calls of the browser are requests of module Sessions; answers may be     *)
(* late or lost, pages are reloaded, the user signs out at any time.            *)
EXTENDS Sessions

CONSTANTS
    Me,         \* the user of the browser
    Tabs,
    MaxCalls    \* bound: calls of a page under way that were sent with a dead access token

NoCall == "no call"

ASSUME BrowserAssumption == Me \in Clients /\ NoCall \notin Requests /\ MaxCalls \in Nat

VARIABLES
    stored,     \* the refresh token in localStorage
    page,       \* what each tab keeps in memory
    cut         \* history: tokens in storage whose refresh a reload cut short

browserVars == <<stored, page, cut>>
vars == <<userStatus, session, resetToken, req, interrupted, stored, page, cut>>

-----------------------------------------------------------------------------
\* A refresh that a page waits for. token is what was presented, fresh what was
\* answered. ok, failed: the answer is on its way; body: its headers are in, which
\* ends the timer, and its body is not; lost: no answer will come.
Flight ==
    [call : Requests \cup {NoCall},
     at : {"sent", "ok", "failed", "body", "lost"},
     token : Tokens,
     fresh : Tokens \cup {NoToken}]

\* The user signs in or out, one at a time: the form and the dialog are busy.
Act ==
    [kind : {"none", "login", "logout", "logoutAll"},
     at : {"none", "sent", "ok", "failed", "waits", "again"},
     call : Requests \cup {NoCall},
     fresh : Tokens \cup {NoToken}]

NoAct == [kind |-> "none", at |-> "none", call |-> NoCall, fresh |-> NoToken]

\* sent: calls with a dead access token on their way; waits: calls that were
\* answered 401 and wait for the refresh; retried: calls that were repeated.
\* at: restore() has a refresh under way, loads the user, waits for a refresh to do
\* so, does so again; the router runs.
Page ==
    [at : {"boot", "me", "meWaits", "meAgain", "on"},
     access : {"none", "live", "expired"},
     sent : 0..MaxCalls,
     waits : 0..MaxCalls,
     retried : 0..MaxCalls,
     flights : SUBSET Flight,
     act : Act]

NewPage ==
    [at |-> "boot", access |-> "none", sent |-> 0, waits |-> 0, retried |-> 0,
     flights |-> {}, act |-> NoAct]

TypeOK ==
    /\ SessionsTypeOK
    /\ stored \in Tokens \cup {NoToken}
    /\ page \in [Tabs -> Page]
    /\ cut \subseteq Tokens

pageIs(b, p) == page' = [page EXCEPT ![b] = p]
flightOf(r, t) == [call |-> r, at |-> "sent", token |-> t, fresh |-> NoToken]
actOf(kind, at, r) == [kind |-> kind, at |-> at, call |-> r, fresh |-> NoToken]

\* session.expire() and session.clear().
withoutSession(p) == [p EXCEPT !.access = "none"]
forgetsSession == stored' = NoToken

\* session.start().
withSession(p) == [p EXCEPT !.access = "live"]

\* A faulty variant: a page remembers no refresh under way.
joinsNothing(b) == FALSE

\* refreshInFlight of the page.
joinsRefresh(b) == page[b].flights # {}

\* Calls are interchangeable: a new one takes whichever is free.
someFree == \E r \in Requests : req[r].pc = "idle"
free == CHOOSE r \in Requests : req[r].pc = "idle"

\* The page presents the stored token.
presents(b, p) ==
    /\ someFree
    /\ refresh(free, stored)
    /\ pageIs(b, [p EXCEPT !.flights = @ \cup {flightOf(free, stored)}])
    /\ UNCHANGED <<stored, cut>>

-----------------------------------------------------------------------------
(* A page is opened or reloaded: restore().                                   *)

\* With a stored token it refreshes before the router starts.
restores(b) ==
    /\ page[b].at = "boot"
    /\ page[b].flights = {}
    /\ stored # NoToken
    /\ presents(b, page[b])

opensSignedOut(b) ==
    /\ page[b].at = "boot"
    /\ page[b].flights = {}
    /\ stored = NoToken
    /\ pageIs(b, [page[b] EXCEPT !.at = "on"])
    /\ UNCHANGED <<sessionVars, stored, cut>>

\* GET /auth/me of restore() is answered; if it failed the session is cleared. The one
\* that follows a login is a call like any other (calls, unauthorized, repeated).
loadsMe(b) ==
    /\ page[b].at \in {"me", "meAgain"}
    /\ \/ pageIs(b, [page[b] EXCEPT !.at = "on"]) /\ UNCHANGED stored
       \/ pageIs(b, withoutSession([page[b] EXCEPT !.at = "on"])) /\ forgetsSession
    /\ UNCHANGED <<sessionVars, cut>>

\* The page goes with all it has in memory, also while it is being restored; what
\* the server was asked goes on.
reload(b) ==
    /\ pageIs(b, NewPage)
    /\ cut' = cut \cup {f.token : f \in page[b].flights}
    /\ UNCHANGED <<sessionVars, stored>>

-----------------------------------------------------------------------------
(* Calls, their 401, and the refresh they share.                              *)

accessExpires(b) ==
    /\ page[b].at = "on"
    /\ page[b].access = "live"
    /\ pageIs(b, [page[b] EXCEPT !.access = "expired"])
    /\ UNCHANGED <<sessionVars, stored, cut>>

\* Calls with a live token, and their answers, change nothing here.
calls(b) ==
    /\ page[b].at = "on"
    /\ page[b].access = "expired"
    /\ page[b].sent + page[b].waits + page[b].retried < MaxCalls
    /\ pageIs(b, [page[b] EXCEPT !.sent = @ + 1])
    /\ UNCHANGED <<sessionVars, stored, cut>>

\* A 401: the call waits for the refresh under way, or has one begun; without a
\* stored token there is nothing to wait for.
asksForRefresh(b, waiting, without) ==
    \/ /\ joinsRefresh(b)
       /\ pageIs(b, waiting)
       /\ UNCHANGED <<sessionVars, stored, cut>>
    \/ /\ ~ joinsRefresh(b)
       /\ stored # NoToken
       /\ presents(b, waiting)
    \/ /\ ~ joinsRefresh(b)
       /\ stored = NoToken
       /\ pageIs(b, withoutSession(without))
       /\ forgetsSession
       /\ UNCHANGED <<sessionVars, cut>>

\* The 401 of a call arrives, perhaps long after another had the token renewed.
unauthorized(b) ==
    /\ page[b].sent > 0
    /\ LET p == [page[b] EXCEPT !.sent = @ - 1]
       IN  asksForRefresh(b, [p EXCEPT !.waits = @ + 1], p)

\* GET /auth/me is a call like others: its 401 asks for a refresh, and it is repeated.
meUnauthorized(b) ==
    /\ page[b].at = "me"
    /\ asksForRefresh(b, [page[b] EXCEPT !.at = "meWaits"], [page[b] EXCEPT !.at = "on"])

afterRefresh(at) ==
    CASE at = "boot"    -> "me"
      [] at = "meWaits" -> "meAgain"
      [] OTHER          -> at

nextAct(a, at) == IF a.at = "waits" THEN [a EXCEPT !.at = at] ELSE a

\* The body of the answer is in, and holds tokens; or it holds none, or is lost.
renewed(f) == f.at = "body" /\ f.fresh # NoToken
notRenewed(f) == f.at = "lost" \/ (f.at = "body" /\ f.fresh = NoToken)

\* A faulty variant: the calls that were repeated are still counted as waiting.
refreshedAndWaiting(b, f) ==
    /\ renewed(f)
    /\ pageIs(b, withSession([page[b] EXCEPT
                    !.at = afterRefresh(@),
                    !.flights = @ \ {f},
                    !.retried = @ + page[b].waits,
                    !.act = nextAct(@, "again")]))
    /\ stored' = f.fresh
    /\ UNCHANGED <<sessionVars, cut>>

\* The calls that waited are repeated with the new token.
refreshed(b, f) ==
    /\ renewed(f)
    /\ pageIs(b, withSession([page[b] EXCEPT
                    !.at = afterRefresh(@),
                    !.flights = @ \ {f},
                    !.retried = @ + page[b].waits,
                    !.waits = 0,
                    !.act = nextAct(@, "again")]))
    /\ stored' = f.fresh
    /\ UNCHANGED <<sessionVars, cut>>

\* A faulty variant: a refresh that fails is still remembered as under way.
refusedAndKept(b, f) ==
    /\ notRenewed(f)
    /\ pageIs(b, withoutSession([page[b] EXCEPT
                    !.at = "on",
                    !.act = nextAct(@, "failed")]))
    /\ forgetsSession
    /\ UNCHANGED <<sessionVars, cut>>

\* The calls that waited fail, and the session is given up.
refused(b, f) ==
    /\ notRenewed(f)
    /\ pageIs(b, withoutSession([page[b] EXCEPT
                    !.at = "on",
                    !.flights = @ \ {f},
                    !.waits = 0,
                    !.act = nextAct(@, "failed")]))
    /\ forgetsSession
    /\ UNCHANGED <<sessionVars, cut>>

\* A call that was repeated is over; if it failed, for whatever reason, the handler
\* of the refresh takes it for a refresh that failed.
repeated(b) ==
    /\ page[b].retried > 0
    /\ LET p == [page[b] EXCEPT !.retried = @ - 1]
       IN  \/ pageIs(b, p) /\ UNCHANGED stored
           \/ pageIs(b, withoutSession(p)) /\ forgetsSession
    /\ UNCHANGED <<sessionVars, cut>>

-----------------------------------------------------------------------------
(* Signing in and out.                                                        *)

signsIn(b) ==
    /\ page[b].at = "on"
    /\ page[b].access = "none"
    /\ page[b].act = NoAct
    /\ someFree
    /\ login(free, Me)
    /\ pageIs(b, [page[b] EXCEPT !.act = actOf("login", "sent", free)])
    /\ UNCHANGED <<stored, cut>>

signedIn(b) ==
    /\ page[b].act.kind = "login"
    /\ \/ /\ page[b].act.at = "ok"
          /\ pageIs(b, withSession([page[b] EXCEPT !.act = NoAct]))
          /\ stored' = page[b].act.fresh
       \/ /\ page[b].act.at = "failed"
          /\ pageIs(b, [page[b] EXCEPT !.act = NoAct])
          /\ UNCHANGED stored
    /\ UNCHANGED <<sessionVars, cut>>

storedIsActive == stored # NoToken /\ session[stored].status = "ACTIVE"

\* The stored token is given back; one that is no longer ACTIVE, or none, is
\* answered at once.
signsOut(b) ==
    /\ page[b].at = "on"
    /\ page[b].access # "none"
    /\ page[b].act = NoAct
    /\ \/ /\ storedIsActive
          /\ someFree
          /\ logout(free, stored)
          /\ pageIs(b, [page[b] EXCEPT !.act = actOf("logout", "sent", free)])
       \/ /\ ~ storedIsActive
          /\ pageIs(b, [page[b] EXCEPT !.act = actOf("logout", "ok", NoCall)])
          /\ UNCHANGED sessionVars
    /\ UNCHANGED <<stored, cut>>

\* logout(true) needs a live access token: with a dead one it is answered 401 and
\* repeated once.
asksLogoutAll(b) ==
    /\ page[b].access = "live"
    /\ someFree
    /\ logoutAll(free, Me)
    /\ pageIs(b, [page[b] EXCEPT !.act = actOf("logoutAll", "sent", free)])
    /\ UNCHANGED <<stored, cut>>

signsOutEverywhere(b) ==
    /\ page[b].at = "on"
    /\ page[b].access # "none"
    /\ page[b].act = NoAct
    /\ \/ asksLogoutAll(b)
       \/ /\ page[b].access = "expired"
          /\ asksForRefresh(b, [page[b] EXCEPT !.act = actOf("logoutAll", "waits", NoCall)],
                               [page[b] EXCEPT !.act = actOf("logoutAll", "failed", NoCall)])

repeatsLogoutAll(b) ==
    /\ page[b].act.at = "again"
    /\ \/ asksLogoutAll(b)
       \/ /\ page[b].access # "live"
          /\ pageIs(b, withoutSession([page[b] EXCEPT !.act = actOf("logoutAll", "failed", NoCall)]))
          /\ forgetsSession
          /\ UNCHANGED <<sessionVars, cut>>

\* Whatever the answer, the session of this browser is cleared.
signedOut(b) ==
    /\ page[b].act.kind \in {"logout", "logoutAll"}
    /\ page[b].act.at \in {"ok", "failed"}
    /\ pageIs(b, withoutSession([page[b] EXCEPT !.act = NoAct]))
    /\ forgetsSession
    /\ UNCHANGED <<sessionVars, cut>>

-----------------------------------------------------------------------------
(* The server, and its answers on their way back.                             *)

\* The call of request r is over with this step; only the claim hands a session out.
isOver(r) == r # NoCall /\ req[r].pc # "idle" /\ req'[r].pc = "idle"
given == {t \in Tokens : session'[t].handed /\ ~ session[t].handed}

answered(x) ==
    IF x.at = "sent" /\ isOver(x.call)
    THEN IF given = {} THEN [x EXCEPT !.at = "failed", !.call = NoCall]
         ELSE [x EXCEPT !.at = "ok", !.call = NoCall, !.fresh = CHOOSE t \in given : TRUE]
    ELSE x

answers ==
    /\ page' = [b \in Tabs |-> [page[b] EXCEPT !.flights = {answered(f) : f \in @},
                                               !.act = answered(@)]]
    /\ UNCHANGED <<stored, cut>>

\* A crash of the server is a lost answer to a browser: module Sessions has it.
serverStep == (\E r \in Requests : sessionSteps(r)) /\ answers

\* The user signs out of all sessions on another device.
elsewhere == someFree /\ logoutAll(free, Me) /\ UNCHANGED browserVars

lost(x, at) == [x EXCEPT !.at = at, !.call = NoCall, !.fresh = NoToken]

flightIs(b, f, g) ==
    /\ pageIs(b, [page[b] EXCEPT !.flights = (@ \ {f}) \cup {g}])
    /\ UNCHANGED <<sessionVars, stored, cut>>

\* The headers of an answer arrive and the timer is cleared: from now on nothing
\* but the network decides whether the body comes (api.js:152-153).
headersArrive(b) ==
    \E f \in page[b].flights :
        f.at \in {"ok", "failed"} /\ flightIs(b, f, [f EXCEPT !.at = "body"])

\* The timer of a refresh runs out, or the connection is lost, before the headers
\* are there; the server goes on.
refreshTimesOut(b) ==
    \E f \in page[b].flights :
        f.at \in {"sent", "ok", "failed"} /\ flightIs(b, f, lost(f, "lost"))

\* The connection is lost in the middle of the body.
bodyIsLost(b) ==
    \E f \in page[b].flights : f.at = "body" /\ flightIs(b, f, lost(f, "lost"))

\* The same for the call of a user who signs in or out.
actTimesOut(b) ==
    /\ page[b].act.at \in {"sent", "ok"}
    /\ pageIs(b, [page[b] EXCEPT !.act = lost(@, "failed")])
    /\ UNCHANGED <<sessionVars, stored, cut>>

\* What a page does with answers, and when it goes on by itself.
hearsOfRefresh(b) == \E f \in page[b].flights : refreshed(b, f) \/ refused(b, f)
hearsOfLoss(b) == \E f \in page[b].flights : f.at = "lost" /\ refused(b, f)

goesOn(b) ==
    \/ repeated(b) \/ signedIn(b) \/ signedOut(b) \/ repeatsLogoutAll(b) \/ loadsMe(b)
    \/ meUnauthorized(b) \/ unauthorized(b) \/ opensSignedOut(b) \/ restores(b)

userDoes(b) ==
    \/ calls(b) \/ accessExpires(b) \/ reload(b) \/ signsOut(b) \/ signsOutEverywhere(b)
    \/ signsIn(b)

Init ==
    /\ SessionsInit
    /\ stored = NoToken
    /\ page = [b \in Tabs |-> NewPage]
    /\ cut = {}

Next ==
    \/ serverStep
    \/ elsewhere
    \/ \E b \in Tabs : hearsOfRefresh(b) \/ goesOn(b) \/ userDoes(b)
                         \/ headersArrive(b) \/ refreshTimesOut(b) \/ bodyIsLost(b)
                         \/ actTimesOut(b)

\* A fetch has a timer until its headers are in, and the page handles what failed.
\* Nothing is assumed of the server and of the network: no answer has to come, and a
\* body that was begun may neither end nor fail.
Spec ==
    /\ Init /\ [][Next]_vars
    /\ \A b \in Tabs : WF_vars(hearsOfLoss(b)) /\ WF_vars(refreshTimesOut(b))

-----------------------------------------------------------------------------
(* What must hold.                                                            *)

\* A browser with one tab presents each refresh token once, however many calls are
\* answered 401 together or late, whatever is lost: a second use would have the
\* server end all sessions of the user. Excepted is the token of a refresh that a
\* reload cut short, also one of restore() itself: the page that knew of it is gone,
\* and the token is still in storage (api.js:96, auth.js:83).
\* Two tabs may clash: each page shares its refresh with nobody else.
OneUsePerToken ==
    \A r \in Requests :
        req[r].op = "refresh" /\ req[r].pc = "resolve" =>
            session[req[r].token].replacedBy = NoToken \/ req[r].token \in cut

\* The body of an answer has begun and is not in.
bodyUnderWay(b) == \E f \in page[b].flights : f.at = "body"

\* No call waits for a refresh for ever, whether it is answered, refused or lost,
\* and whoever asked for it (api.js:97-112); unless the body of an answer stalls for
\* ever, against which the code has no timer (api.js:152).
WaitingEnds ==
    \A b \in Tabs :
        \/ <>[]bodyUnderWay(b)
        \/ page[b].waits > 0 ~> page[b].waits = 0
=============================================================================
