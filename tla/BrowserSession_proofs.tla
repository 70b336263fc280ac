------------------------ MODULE BrowserSession_proofs ------------------------
(* Theorems about BrowserSession.                                             *)
EXTENDS BrowserSession, Sessions_proofs

\* The calls a page has under way stay within the bound, wherever they are.
pageOK(p) == p \in Page /\ p.sent + p.waits + p.retried <= MaxCalls

BrowserOK ==
    /\ stored \in Tokens \cup {NoToken}
    /\ page \in [Tabs -> Page]
    /\ \A b \in Tabs : pageOK(page[b])
    /\ cut \subseteq Tokens

-----------------------------------------------------------------------------
(* The calls of the browser are calls of module Sessions.                     *)

LEMMA FreeIsIdle ==
    ASSUME someFree
    PROVE  free \in Requests /\ req[free].pc = "idle"
BY DEF someFree, free

LEMMA PresentsIsACall ==
    ASSUME BrowserOK, NEW b \in Tabs, NEW p, presents(b, p), stored # NoToken
    PROVE  SessionsNext
BY FreeIsIdle DEF presents, BrowserOK, SessionsNext, clientCalls

LEMMA AskingIsACall ==
    ASSUME BrowserOK, NEW b \in Tabs, NEW p, NEW q, asksForRefresh(b, p, q)
    PROVE  SessionsNext \/ UNCHANGED sessionVars
BY PresentsIsACall DEF asksForRefresh, sessionVars

LEMMA LogoutAllIsACall ==
    ASSUME BrowserOK, NEW b \in Tabs, asksLogoutAll(b)
    PROVE  SessionsNext
BY FreeIsIdle, BrowserAssumption DEF asksLogoutAll, SessionsNext, clientCalls

LEMMA PageStepsAreCalls ==
    ASSUME BrowserOK, NEW b \in Tabs,
           \/ hearsOfRefresh(b) \/ goesOn(b) \/ userDoes(b)
           \/ headersArrive(b) \/ refreshTimesOut(b) \/ bodyIsLost(b) \/ actTimesOut(b)
    PROVE  SessionsNext \/ UNCHANGED sessionVars
<1>1. CASE \/ hearsOfRefresh(b) \/ headersArrive(b) \/ refreshTimesOut(b) \/ bodyIsLost(b)
           \/ actTimesOut(b)
  BY <1>1 DEF hearsOfRefresh, refreshed, refused, headersArrive, refreshTimesOut, bodyIsLost,
              flightIs, actTimesOut, sessionVars
<1>2. CASE repeated(b) \/ signedIn(b) \/ signedOut(b) \/ loadsMe(b) \/ opensSignedOut(b)
  BY <1>2 DEF repeated, signedIn, signedOut, loadsMe, opensSignedOut, sessionVars
<1>3. CASE repeatsLogoutAll(b)
  BY <1>3, LogoutAllIsACall DEF repeatsLogoutAll, sessionVars
<1>4. CASE unauthorized(b) \/ meUnauthorized(b)
  BY <1>4, AskingIsACall DEF unauthorized, meUnauthorized
<1>5. CASE restores(b)
  BY <1>5, PresentsIsACall DEF restores
<1>6. CASE calls(b) \/ accessExpires(b) \/ reload(b)
  BY <1>6 DEF calls, accessExpires, reload, sessionVars
<1>7. CASE signsOut(b)
  <2>1. CASE storedIsActive /\ someFree /\ logout(free, stored)
    <3>1. stored \in Tokens
      BY <2>1 DEF storedIsActive, BrowserOK
    <3> QED
      BY <2>1, <3>1, FreeIsIdle DEF SessionsNext, clientCalls
  <2> QED
    BY <1>7, <2>1 DEF signsOut, sessionVars
<1>8. CASE signsOutEverywhere(b)
  BY <1>8, LogoutAllIsACall, AskingIsACall DEF signsOutEverywhere
<1>9. CASE signsIn(b)
  BY <1>9, FreeIsIdle, BrowserAssumption DEF signsIn, SessionsNext, clientCalls
<1> QED
  BY <1>1, <1>2, <1>3, <1>4, <1>5, <1>6, <1>7, <1>8, <1>9 DEF goesOn, userDoes

LEMMA StepsAreCalls ==
    ASSUME BrowserOK, [Next]_vars
    PROVE  [SessionsNext]_sessionVars
<1>1. CASE UNCHANGED vars
  BY <1>1 DEF vars, sessionVars
<1>2. CASE serverStep
  BY <1>2 DEF serverStep, SessionsNext
<1>3. CASE elsewhere
  BY <1>3, FreeIsIdle, BrowserAssumption DEF elsewhere, SessionsNext, clientCalls
<1> QED
  BY <1>1, <1>2, <1>3, PageStepsAreCalls DEF Next

-----------------------------------------------------------------------------
(* What the pages and the storage hold.                                       *)

LEMMA PageChanges ==
    ASSUME BrowserOK, NEW b \in Tabs, NEW p, pageOK(p), pageIs(b, p),
           stored' \in Tokens \cup {NoToken}, cut' \subseteq Tokens
    PROVE  BrowserOK'
BY DEF BrowserOK, pageIs, pageOK

LEMMA FlightOfType ==
    ASSUME NEW r \in Requests, NEW t \in Tokens
    PROVE  flightOf(r, t) \in Flight
BY DEF flightOf, Flight

LEMMA ActOfType ==
    /\ NoAct \in Act
    /\ \A r \in Requests \cup {NoCall},
          kind \in {"none", "login", "logout", "logoutAll"},
          at \in {"none", "sent", "ok", "failed", "waits", "again"} : actOf(kind, at, r) \in Act
BY DEF NoAct, actOf, Act

LEMMA NextActType ==
    ASSUME NEW a \in Act, NEW at \in {"failed", "again"}
    PROVE  nextAct(a, at) \in Act
BY DEF nextAct, Act

LEMMA AnsweredType ==
    /\ \A f \in Flight : answered(f) \in Flight
    /\ \A a \in Act : answered(a) \in Act
<1>1. given # {} => (CHOOSE t \in given : TRUE) \in Tokens
  BY DEF given
<1>2. ASSUME NEW f \in Flight PROVE answered(f) \in Flight
  BY <1>1 DEF answered, Flight
<1>3. ASSUME NEW a \in Act PROVE answered(a) \in Act
  BY <1>1 DEF answered, Act
<1> QED
  BY <1>2, <1>3

LEMMA LostType ==
    /\ \A f \in Flight : lost(f, "lost") \in Flight
    /\ \A f \in Flight : [f EXCEPT !.at = "body"] \in Flight
    /\ \A a \in Act : lost(a, "failed") \in Act
BY DEF lost, Flight, Act

LEMMA PageType ==
    ASSUME NEW p, pageOK(p)
    PROVE  /\ p.flights \subseteq Flight
           /\ p.act \in Act
           /\ p.sent \in Nat /\ p.waits \in Nat /\ p.retried \in Nat
           /\ withoutSession(p) \in Page /\ pageOK(withoutSession(p))
           /\ withSession(p) \in Page /\ pageOK(withSession(p))
           /\ \A a \in Act : pageOK([p EXCEPT !.act = a])
           /\ \A F \in SUBSET Flight : pageOK([p EXCEPT !.flights = F])
           /\ \A at \in {"boot", "me", "meWaits", "meAgain", "on"} : pageOK([p EXCEPT !.at = at])
           /\ \A a \in {"none", "live", "expired"} : pageOK([p EXCEPT !.access = a])
BY DEF pageOK, Page, withoutSession, withSession

LEMMA PresentsKeeps ==
    ASSUME BrowserOK, NEW b \in Tabs, NEW p, pageOK(p), presents(b, p), stored # NoToken
    PROVE  BrowserOK'
<1>1. flightOf(free, stored) \in Flight
  BY FreeIsIdle, FlightOfType DEF presents, BrowserOK
<1>2. pageOK([p EXCEPT !.flights = @ \cup {flightOf(free, stored)}])
  <2>1. p.flights \cup {flightOf(free, stored)} \in SUBSET Flight
    BY <1>1, PageType
  <2> QED
    BY <2>1, PageType
<1> QED
  BY <1>2, PageChanges DEF presents, BrowserOK

LEMMA AskingKeeps ==
    ASSUME BrowserOK, NEW b \in Tabs, NEW p, NEW q, pageOK(p), pageOK(q),
           asksForRefresh(b, p, q)
    PROVE  BrowserOK'
<1>1. CASE pageIs(b, p) /\ UNCHANGED <<sessionVars, stored, cut>>
  BY <1>1, PageChanges DEF BrowserOK
<1>2. CASE stored # NoToken /\ presents(b, p)
  BY <1>2, PresentsKeeps
<1>3. CASE pageIs(b, withoutSession(q)) /\ forgetsSession /\ UNCHANGED <<sessionVars, cut>>
  BY <1>3, PageType, PageChanges DEF BrowserOK, forgetsSession
<1> QED
  BY <1>1, <1>2, <1>3 DEF asksForRefresh

LEMMA AskingLogoutKeeps ==
    ASSUME BrowserOK, NEW b \in Tabs, asksLogoutAll(b)
    PROVE  BrowserOK'
<1>1. pageOK([page[b] EXCEPT !.act = actOf("logoutAll", "sent", free)])
  BY FreeIsIdle, ActOfType, PageType DEF asksLogoutAll, BrowserOK
<1> QED
  BY <1>1, PageChanges DEF asksLogoutAll, BrowserOK

\* A page that opens, and calls that come and go.
LEMMA CallsKeep ==
    ASSUME BrowserOK, NEW b \in Tabs,
           \/ restores(b) \/ opensSignedOut(b) \/ loadsMe(b) \/ reload(b)
           \/ accessExpires(b) \/ calls(b) \/ unauthorized(b) \/ meUnauthorized(b)
           \/ repeated(b)
    PROVE  BrowserOK'
<1>0. pageOK(page[b])
  BY DEF BrowserOK
<1>1. CASE restores(b)
  BY <1>0, <1>1, PresentsKeeps DEF restores
<1>2. CASE opensSignedOut(b)
  BY <1>0, <1>2, PageType, PageChanges DEF opensSignedOut, BrowserOK
<1>3. CASE loadsMe(b)
  <2>1. pageOK([page[b] EXCEPT !.at = "on"]) /\ pageOK(withoutSession([page[b] EXCEPT !.at = "on"]))
    BY <1>0, PageType
  <2> QED
    BY <1>3, <2>1, PageChanges DEF loadsMe, BrowserOK, forgetsSession
<1>4. CASE reload(b)
  <2>1. pageOK(NewPage)
    BY ActOfType, BrowserAssumption DEF NewPage, pageOK, Page
  <2>2. \A f \in page[b].flights : f.token \in Tokens
    <3>1. \A f \in Flight : f.token \in Tokens
      BY DEF Flight
    <3> QED
      BY <1>0, <3>1, PageType
  <2>3. cut' = cut \cup {f.token : f \in page[b].flights}
    BY <1>4 DEF reload
  <2>4. cut' \subseteq Tokens
    BY <2>2, <2>3 DEF BrowserOK
  <2> QED
    BY <1>4, <2>1, <2>4, PageChanges DEF reload, BrowserOK
<1>5. CASE accessExpires(b)
  BY <1>0, <1>5, PageType, PageChanges DEF accessExpires, BrowserOK
<1>6. CASE calls(b)
  <2>1. pageOK([page[b] EXCEPT !.sent = @ + 1])
    BY <1>0, <1>6, BrowserAssumption DEF calls, pageOK, Page
  <2> QED
    BY <1>6, <2>1, PageChanges DEF calls, BrowserOK
<1>7. CASE unauthorized(b)
  <2> DEFINE p == [page[b] EXCEPT !.sent = @ - 1]
             q == [p EXCEPT !.waits = @ + 1]
  <2>1. pageOK(p)
    BY <1>0, <1>7, BrowserAssumption DEF unauthorized, pageOK, Page
  <2>2. pageOK(q)
    <3>1. /\ page[b] \in Page /\ page[b].sent > 0
          /\ page[b].sent \in Nat /\ page[b].waits \in Nat /\ page[b].retried \in Nat
          /\ page[b].sent + page[b].waits + page[b].retried <= MaxCalls
      BY <1>0, <1>7, PageType DEF unauthorized, pageOK
    <3>2. /\ p \in Page
          /\ p.sent = page[b].sent - 1 /\ p.waits = page[b].waits /\ p.retried = page[b].retried
      BY <2>1, <3>1 DEF pageOK, Page
    <3>3. q = [p EXCEPT !.waits = p.waits + 1] /\ p.waits + 1 \in 0..MaxCalls
      BY <3>1, <3>2, BrowserAssumption
    <3> HIDE DEF p, q
    <3>4. /\ q \in Page
          /\ q.sent = p.sent /\ q.waits = p.waits + 1 /\ q.retried = p.retried
      BY <3>2, <3>3 DEF Page
    <3> QED
      BY <3>1, <3>2, <3>4, BrowserAssumption DEF pageOK
  <2>3. asksForRefresh(b, q, p)
    BY <1>7 DEF unauthorized
  <2> QED
    BY <2>1, <2>2, <2>3, AskingKeeps
<1>8. CASE repeated(b)
  <2> DEFINE p == [page[b] EXCEPT !.retried = @ - 1]
  <2>1. pageOK(p)
    BY <1>0, <1>8, BrowserAssumption DEF repeated, pageOK, Page
  <2>2. pageOK(withoutSession(p))
    BY <2>1, PageType
  <2> QED
    BY <1>8, <2>1, <2>2, PageChanges DEF repeated, BrowserOK, forgetsSession
<1>9. CASE meUnauthorized(b)
  <2> DEFINE p == [page[b] EXCEPT !.at = "meWaits"]
             q == [page[b] EXCEPT !.at = "on"]
  <2>1. pageOK(p) /\ pageOK(q)
    BY <1>0, PageType
  <2>2. asksForRefresh(b, p, q)
    BY <1>9 DEF meUnauthorized
  <2> QED
    BY <2>1, <2>2, AskingKeeps
<1> QED
  BY <1>1, <1>2, <1>3, <1>4, <1>5, <1>6, <1>7, <1>8, <1>9

\* Answers of a refresh, and answers that never come.
LEMMA HearingKeeps ==
    ASSUME BrowserOK, NEW b \in Tabs,
           \/ hearsOfRefresh(b) \/ headersArrive(b) \/ refreshTimesOut(b) \/ bodyIsLost(b)
           \/ actTimesOut(b)
    PROVE  BrowserOK'
<1>0. pageOK(page[b])
  BY DEF BrowserOK
<1>1. ASSUME NEW f \in page[b].flights, refreshed(b, f)
      PROVE  BrowserOK'
  <2> DEFINE p == [page[b] EXCEPT
                    !.at = afterRefresh(@),
                    !.flights = @ \ {f},
                    !.retried = @ + page[b].waits,
                    !.waits = 0,
                    !.act = nextAct(@, "again")]
  <2>1. nextAct(page[b].act, "again") \in Act /\ f \in Flight
    BY <1>0, NextActType, PageType
  <2>2. pageOK(p)
    <3>1. /\ page[b] \in Page
          /\ page[b].sent \in Nat /\ page[b].waits \in Nat /\ page[b].retried \in Nat
          /\ page[b].sent + page[b].waits + page[b].retried <= MaxCalls
          /\ page[b].flights \ {f} \in SUBSET Flight
      BY <1>0, PageType DEF pageOK
    <3>2. page[b].retried + page[b].waits \in 0..MaxCalls /\ 0 \in 0..MaxCalls
      BY <3>1, BrowserAssumption
    <3>3. afterRefresh(page[b].at) \in {"boot", "me", "meWaits", "meAgain", "on"}
      BY <3>1 DEF Page, afterRefresh
    <3>4. /\ p \in Page
          /\ p.sent = page[b].sent /\ p.waits = 0 /\ p.retried = page[b].retried + page[b].waits
      BY <2>1, <3>1, <3>2, <3>3 DEF Page
    <3> HIDE DEF p
    <3>5. p.sent + p.waits + p.retried <= MaxCalls
      BY <3>1, <3>4
    <3> QED
      BY <3>4, <3>5 DEF pageOK
  <2>3. pageOK(withSession(p))
    BY <2>2, PageType
  <2>4. stored' \in Tokens \cup {NoToken}
    BY <1>1, <2>1 DEF refreshed, Flight
  <2> QED
    BY <1>1, <2>3, <2>4, PageChanges DEF refreshed, BrowserOK
<1>2. ASSUME NEW f \in page[b].flights, refused(b, f)
      PROVE  BrowserOK'
  <2> DEFINE p == [page[b] EXCEPT
                    !.at = "on",
                    !.flights = @ \ {f},
                    !.waits = 0,
                    !.act = nextAct(@, "failed")]
  <2>1. nextAct(page[b].act, "failed") \in Act
    BY <1>0, NextActType, PageType
  <2>2. pageOK(p)
    <3>1. /\ page[b] \in Page
          /\ page[b].sent \in Nat /\ page[b].waits \in Nat /\ page[b].retried \in Nat
          /\ page[b].sent + page[b].waits + page[b].retried <= MaxCalls
          /\ page[b].flights \ {f} \in SUBSET Flight
      BY <1>0, PageType DEF pageOK
    <3>2. 0 \in 0..MaxCalls
      BY BrowserAssumption
    <3>3. /\ p \in Page
          /\ p.sent = page[b].sent /\ p.waits = 0 /\ p.retried = page[b].retried
      BY <2>1, <3>1, <3>2 DEF Page
    <3> HIDE DEF p
    <3> QED
      BY <3>1, <3>3, BrowserAssumption DEF pageOK
  <2>3. pageOK(withoutSession(p))
    BY <2>2, PageType
  <2> QED
    BY <1>2, <2>3, PageChanges DEF refused, BrowserOK, forgetsSession
<1>3. CASE headersArrive(b) \/ refreshTimesOut(b) \/ bodyIsLost(b)
  <2>1. PICK f \in page[b].flights, g \in Flight : flightIs(b, f, g)
    BY <1>0, <1>3, LostType, PageType DEF headersArrive, refreshTimesOut, bodyIsLost
  <2>2. (page[b].flights \ {f}) \cup {g} \in SUBSET Flight
    BY <1>0, PageType
  <2>3. pageOK([page[b] EXCEPT !.flights = (@ \ {f}) \cup {g}])
    BY <1>0, <2>2, PageType
  <2> QED
    BY <2>1, <2>3, PageChanges DEF flightIs, BrowserOK
<1>4. CASE actTimesOut(b)
  <2>1. pageOK([page[b] EXCEPT !.act = lost(@, "failed")])
    BY <1>0, LostType, PageType
  <2> QED
    BY <1>4, <2>1, PageChanges DEF actTimesOut, BrowserOK
<1> QED
  BY <1>1, <1>2, <1>3, <1>4 DEF hearsOfRefresh

\* Signing in and out.
LEMMA SigningKeeps ==
    ASSUME BrowserOK, NEW b \in Tabs,
           \/ signsIn(b) \/ signedIn(b) \/ signsOut(b) \/ signsOutEverywhere(b)
           \/ repeatsLogoutAll(b) \/ signedOut(b)
    PROVE  BrowserOK'
<1>0. pageOK(page[b]) /\ page[b].act \in Act /\ NoAct \in Act
  BY ActOfType, PageType DEF BrowserOK
<1>1. CASE signsIn(b)
  <2>1. pageOK([page[b] EXCEPT !.act = actOf("login", "sent", free)])
    BY <1>0, <1>1, FreeIsIdle, ActOfType, PageType DEF signsIn
  <2> QED
    BY <1>1, <2>1, PageChanges DEF signsIn, BrowserOK
<1>2. CASE signedIn(b)
  <2>1. pageOK([page[b] EXCEPT !.act = NoAct]) /\ pageOK(withSession([page[b] EXCEPT !.act = NoAct]))
    BY <1>0, PageType
  <2>2. page[b].act.fresh \in Tokens \cup {NoToken}
    BY <1>0 DEF Act
  <2> QED
    BY <1>2, <2>1, <2>2, PageChanges DEF signedIn, BrowserOK
<1>3. CASE signsOut(b)
  <2>1. someFree => pageOK([page[b] EXCEPT !.act = actOf("logout", "sent", free)])
    BY <1>0, FreeIsIdle, ActOfType, PageType
  <2>2. pageOK([page[b] EXCEPT !.act = actOf("logout", "ok", NoCall)])
    BY <1>0, ActOfType, PageType
  <2> QED
    BY <1>3, <2>1, <2>2, PageChanges DEF signsOut, BrowserOK
<1>4. CASE signsOutEverywhere(b)
  <2>1. /\ pageOK([page[b] EXCEPT !.act = actOf("logoutAll", "waits", NoCall)])
        /\ pageOK([page[b] EXCEPT !.act = actOf("logoutAll", "failed", NoCall)])
    BY <1>0, ActOfType, PageType
  <2> QED
    BY <1>4, <2>1, AskingLogoutKeeps, AskingKeeps DEF signsOutEverywhere
<1>5. CASE repeatsLogoutAll(b)
  <2>1. pageOK(withoutSession([page[b] EXCEPT !.act = actOf("logoutAll", "failed", NoCall)]))
    BY <1>0, ActOfType, PageType
  <2> QED
    BY <1>5, <2>1, AskingLogoutKeeps, PageChanges DEF repeatsLogoutAll, BrowserOK, forgetsSession
<1>6. CASE signedOut(b)
  <2>1. pageOK(withoutSession([page[b] EXCEPT !.act = NoAct]))
    BY <1>0, PageType
  <2> QED
    BY <1>6, <2>1, PageChanges DEF signedOut, BrowserOK, forgetsSession
<1> QED
  BY <1>1, <1>2, <1>3, <1>4, <1>5, <1>6

LEMMA AnswersKeep ==
    ASSUME BrowserOK, answers
    PROVE  BrowserOK'
<1>1. ASSUME NEW b \in Tabs PROVE pageOK(page'[b])
  <2>1. pageOK(page[b])
    BY DEF BrowserOK
  <2>2. {answered(f) : f \in page[b].flights} \in SUBSET Flight /\ answered(page[b].act) \in Act
    BY <2>1, AnsweredType, PageType
  <2>3. page'[b] = [page[b] EXCEPT !.flights = {answered(f) : f \in @}, !.act = answered(@)]
    BY DEF answers
  <2> QED
    BY <2>1, <2>2, <2>3 DEF pageOK, Page
<1>2. page' \in [Tabs -> Page]
  BY <1>1 DEF answers, pageOK
<1> QED
  BY <1>1, <1>2 DEF answers, BrowserOK

LEMMA BrowserKeeps ==
    ASSUME BrowserOK, [Next]_vars
    PROVE  BrowserOK'
<1>1. CASE UNCHANGED vars
  BY <1>1 DEF vars, BrowserOK
<1>2. CASE serverStep
  BY <1>2, AnswersKeep DEF serverStep
<1>3. CASE elsewhere
  BY <1>3 DEF elsewhere, browserVars, BrowserOK
<1> QED
  BY <1>1, <1>2, <1>3, CallsKeep, HearingKeeps, SigningKeeps DEF Next, goesOn, userDoes

LEMMA BrowserInit == Init => BrowserOK
BY ActOfType, BrowserAssumption DEF Init, BrowserOK, NewPage, pageOK, Page

-----------------------------------------------------------------------------

LEMMA BrowserAlwaysOK == Init /\ [][Next]_vars => []BrowserOK
<1>1. Init => BrowserOK
  BY BrowserInit
<1>2. BrowserOK /\ [Next]_vars => BrowserOK'
  BY BrowserKeeps
<1> QED
  BY <1>1, <1>2, PTL

\* Whatever pages, users and lost answers do, the session service is only ever
\* called as module Sessions allows: what is proved of it holds behind a browser
\* (api.js:114-214, auth.js:59-140).
THEOREM BrowserCallsSessions == Spec => SessionsSpec
<1>1. Init => SessionsInit
  BY DEF Init
<1>2. BrowserOK /\ [Next]_vars => [SessionsNext]_sessionVars
  BY StepsAreCalls
<1> QED
  BY <1>1, <1>2, BrowserAlwaysOK, PTL DEF Spec, SessionsSpec

\* The pages, the storage and the calls behind them keep their types, for all tabs
\* and numbers of calls (api.js:97-187).
THEOREM BrowserTyped == Spec => []TypeOK
<1>1. BrowserOK /\ SessionsTypeOK => TypeOK
  BY DEF BrowserOK, TypeOK
<1> QED
  BY <1>1, BrowserAlwaysOK, BrowserCallsSessions, SessionsTypeCorrect, PTL DEF Spec

\* However many tabs present one token, one session takes its place
\* (api.js:97-112, session.service.ts:129-144).
THEOREM BrowserRotationExclusive == Spec => []RotationIsExclusive
BY BrowserCallsSessions, RotationExclusive, PTL

-----------------------------------------------------------------------------
(* A browser with one tab presents each token once.                           *)

OneTab == \A a, b \in Tabs : a = b

renews(r, t) == req[r].op = "refresh" /\ req[r].token = t
underWay(r) == r \in Requests /\ req[r].pc # "idle"

\* The client was given the token and has not presented it.
unused(t) ==
    /\ session[t].handed
    /\ session[t].replacedBy = NoToken
    /\ \A r \in Requests : ~ renews(r, t)

\* One refresh at a time works on a token that no reload left behind, and the token
\* has no successor yet.
CallsOnce ==
    /\ \A t \in Tokens : ~ session[t].handed => session[t].replacedBy = NoToken
    /\ \A r \in Requests, t \in Tokens : renews(r, t) =>
          \/ t \in cut
          \/ session[t].replacedBy = NoToken /\ \A q \in Requests : renews(q, t) => q = r

\* The tokens a browser holds, in storage and in answers on their way, have not been
\* presented, but for the stored one while its refresh is in flight.
pageOnce(p) ==
    /\ stored # NoToken =>
          /\ session[stored].handed
          /\ stored \in cut \/ unused(stored) \/ \E f \in p.flights : f.token = stored
    /\ \A f \in p.flights : f.fresh # NoToken => unused(f.fresh)
    /\ p.act.fresh # NoToken =>
          /\ unused(p.act.fresh)
          /\ p.act.fresh # stored
          /\ \A f \in p.flights : f.fresh # p.act.fresh
    /\ \A f, g \in p.flights : f = g
    /\ \A f \in p.flights : f.at = "sent" => underWay(f.call)
    /\ p.act.at = "sent" =>
          /\ underWay(p.act.call)
          /\ \A f \in p.flights : f.at = "sent" => f.call # p.act.call

Once == CallsOnce /\ \A b \in Tabs : pageOnce(page[b])

\* Nothing the client was given is taken away, and no token gets a successor.
sameTokens ==
    \A t \in Tokens : /\ session'[t].handed = session[t].handed
                      /\ session'[t].replacedBy = session[t].replacedBy

LEMMA OutdatedTokens ==
    ASSUME SessionsTypeOK, NEW u, session' = outdate(session, u)
    PROVE  sameTokens
BY DEF SessionsTypeOK, Session, outdate, sameTokens

LEMMA RefreshedToken ==
    ASSUME SessionsTypeOK, SessionsOK, NEW r \in Requests, req[r].op = "refresh"
    PROVE  req[r].token \in Tokens /\ session[req[r].token].handed
BY DEF SessionsTypeOK, SessionsOK, callOK

\* What a step of the server does to one call, and to the tokens.
serverMoves(r) ==
    /\ req[r].pc # "idle"
    /\ \A q \in Requests \ {r} : req'[q] = req[q]
    /\ \A t \in Tokens : renews(r, t)' => renews(r, t)
    /\ \A t \in Tokens : session[t].handed => session'[t].handed
    /\ \A t \in Tokens : session'[t].replacedBy # session[t].replacedBy =>
          \/ session'[t].replacedBy = NoToken
          \/ renews(r, t) /\ req'[r].op # "refresh"

\* A new row, before anyone has its token.
LEMMA NewTokens ==
    ASSUME SessionsTypeOK, SessionsOK, NEW t \in Tokens, isNext(t),
           NEW u, NEW old, NEW b, session' = [session EXCEPT ![t] = minted(u, old, b)]
    PROVE  \A i \in Tokens :
              /\ session[i].handed => session'[i].handed
              /\ session'[i].replacedBy = session[i].replacedBy \/ session'[i].replacedBy = NoToken
<1>1. ~ session[t].handed
  BY DEF isNext, SessionsOK, rowOK
<1> QED
  BY <1>1 DEF minted, SessionsTypeOK

LEMMA CallAlone ==
    ASSUME SessionsTypeOK, NEW r \in Requests, NEW c, req' = [req EXCEPT ![r] = c]
    PROVE  req'[r] = c /\ \A q \in Requests \ {r} : req'[q] = req[q]
BY DEF SessionsTypeOK

LEMMA NoRefreshLeft ==
    /\ Idle.op = "none" /\ Idle.pc = "idle"
    /\ \A u : ending(u).op = "none" /\ ending(u).pc = "revokeAll"
BY DEF Idle, ending, callOf

LEMMA ServerMoves ==
    ASSUME SessionsTypeOK, SessionsOK, NEW r \in Requests, sessionSteps(r)
    PROVE  serverMoves(r)
<1> USE DEF renews
<1>1. ASSUME finish(r), sameTokens, req[r].pc # "idle" PROVE serverMoves(r)
  <2>1. req'[r].op = "none" /\ \A q \in Requests \ {r} : req'[q] = req[q]
    BY <1>1, NoRefreshLeft, CallAlone DEF finish
  <2> QED
    BY <1>1, <2>1 DEF serverMoves, sameTokens
<1>2. ASSUME NEW u, endsAllOf(r, u), req[r].pc # "idle" PROVE serverMoves(r)
  <2>1. req'[r].op = "none" /\ \A q \in Requests \ {r} : req'[q] = req[q]
    <3> DEFINE c == ending(u)
    <3>1. c.op = "none"
      BY NoRefreshLeft
    <3>2. req' = [req EXCEPT ![r] = c]
      BY <1>2 DEF endsAllOf
    <3> HIDE DEF c
    <3> QED
      BY <3>1, <3>2, CallAlone
  <2>2. sameTokens
    BY <1>2, OutdatedTokens DEF endsAllOf
  <2> QED
    BY <1>2, <2>1, <2>2 DEF serverMoves, sameTokens
<1>3. ASSUME goto(r, "mint") \/ goto(r, "undo"), session' = session, req[r].pc # "idle"
      PROVE  serverMoves(r)
  <2>1. PICK c \in Request : /\ req' = [req EXCEPT ![r] = c]
                             /\ c.op = req[r].op /\ c.token = req[r].token
    BY <1>3, GoneTo
  <2>2. req'[r] = c /\ \A q \in Requests \ {r} : req'[q] = req[q]
    BY <2>1, CallAlone
  <2> QED
    BY <1>3, <2>1, <2>2 DEF serverMoves
<1>4. session' = session => sameTokens
  BY DEF sameTokens
<1>5. ASSUME NEW t \in Tokens, loginMints(r, t) PROVE serverMoves(r)
  <2>1. req'[r].op = "none" /\ \A q \in Requests \ {r} : req'[q] = req[q]
    BY <1>5, NoRefreshLeft, CallAlone DEF loginMints, finish
  <2>2. \A i \in Tokens :
              /\ session[i].handed => session'[i].handed
              /\ session'[i].replacedBy = session[i].replacedBy \/ session'[i].replacedBy = NoToken
    BY <1>5, NewTokens DEF loginMints
  <2> QED
    BY <1>5, <2>1, <2>2 DEF serverMoves, loginMints
<1>6. ASSUME NEW t \in Tokens, refreshMints(r, t) PROVE serverMoves(r)
  <2>1. /\ req'[r].op = req[r].op /\ req'[r].token = req[r].token
        /\ \A q \in Requests \ {r} : req'[q] = req[q]
    BY <1>6 DEF refreshMints, SessionsTypeOK, Request
  <2>2. \A i \in Tokens :
              /\ session[i].handed => session'[i].handed
              /\ session'[i].replacedBy = session[i].replacedBy \/ session'[i].replacedBy = NoToken
    BY <1>6, NewTokens DEF refreshMints
  <2> QED
    BY <1>6, <2>1, <2>2 DEF serverMoves, refreshMints
<1>7. CASE refreshResolves(r)
  BY <1>2, <1>3, <1>7 DEF refreshResolves
<1>8. CASE refreshExpires(r)
  BY <1>1, <1>4, <1>8 DEF refreshExpires
<1>9. CASE claims(r)
  <2> DEFINE old == req[r].token
             new == req[r].fresh
  <2>1. /\ req[r].op = "refresh" /\ old \in Tokens /\ new \in Tokens /\ old # new
        /\ req[r].pc # "idle"
    <3>1. req[r].pc = "claim" /\ new # NoToken /\ new \in Tokens
      BY <1>9, CallerKnown DEF claims, Request
    <3>2. callOK(req[r]) /\ ~ session[new].handed
      BY <3>1, CallerKnown DEF SessionsTypeOK, CallsOK
    <3> QED
      BY <3>1, <3>2 DEF callOK
  <2>2. session' = [session EXCEPT ![old].status = "USED", ![old].replacedBy = new,
                                   ![new].handed = TRUE]
    BY <1>9 DEF claims
  <2>3. req'[r].op = "none" /\ \A q \in Requests \ {r} : req'[q] = req[q]
    BY <1>9, NoRefreshLeft, CallAlone DEF claims, finish
  <2> HIDE DEF old, new
  <2>4. \A t \in Tokens : /\ session[t].handed => session'[t].handed
                          /\ t # old => session'[t].replacedBy = session[t].replacedBy
    BY <2>1, <2>2 DEF SessionsTypeOK, Session
  <2>5. renews(r, old)
    BY <2>1 DEF old
  <2> QED
    BY <2>1, <2>3, <2>4, <2>5 DEF serverMoves
<1>10. CASE claimFails(r)
  BY <1>3, <1>10 DEF claimFails
<1>11. CASE undoes(r) \/ logoutEnds(r) \/ revokeAll(r)
  <2>1. sameTokens
    BY <1>11 DEF undoes, logoutEnds, revokeAll, sameTokens, SessionsTypeOK, Session
  <2> QED
    BY <1>1, <1>11, <2>1 DEF undoes, logoutEnds, revokeAll
<1>12. CASE writesPassword(r) \/ resetWrites(r)
  BY <1>2, <1>12 DEF writesPassword, resetWrites
<1>13. ASSUME NEW x \in ResetTokens, issuesResetToken(r, x) PROVE serverMoves(r)
  BY <1>1, <1>4, <1>13 DEF issuesResetToken
<1> QED
  BY <1>5, <1>6, <1>7, <1>8, <1>9, <1>10, <1>11, <1>12, <1>13 DEF sessionSteps

\* A token the client holds unused stays so while the server works.
LEMMA UnusedStays ==
    ASSUME NEW r \in Requests, serverMoves(r), NEW t \in Tokens, unused(t)
    PROVE  unused(t)'
<1>1. \A q \in Requests : ~ renews(q, t)'
  BY DEF serverMoves, unused, renews
<1> QED
  BY <1>1 DEF serverMoves, unused

LEMMA ServerKeepsCallsOnce ==
    ASSUME SessionsTypeOK, SessionsOK, CallsOnce, NEW r \in Requests, serverMoves(r), cut' = cut
    PROVE  CallsOnce'
<1>1. ASSUME NEW t \in Tokens, ~ session'[t].handed PROVE session'[t].replacedBy = NoToken
  <2>1. ~ session[t].handed /\ session[t].replacedBy = NoToken
    BY <1>1 DEF serverMoves, CallsOnce
  <2>2. ~ renews(r, t)
    BY <2>1, RefreshedToken DEF renews
  <2> QED
    BY <2>1, <2>2 DEF serverMoves
<1>2. ASSUME NEW q \in Requests, NEW t \in Tokens, renews(q, t)', t \notin cut
      PROVE  session'[t].replacedBy = NoToken /\ \A p \in Requests : renews(p, t)' => p = q
  <2>1. \A p \in Requests : renews(p, t)' => renews(p, t)
    BY DEF serverMoves, renews
  <2>2. session[t].replacedBy = NoToken /\ \A p \in Requests : renews(p, t) => p = q
    BY <1>2, <2>1 DEF CallsOnce
  <2>3. renews(r, t) => r = q /\ req'[r].op = "refresh"
    BY <1>2, <2>2 DEF renews
  <2> QED
    BY <2>1, <2>2, <2>3 DEF serverMoves
<1> QED
  BY <1>1, <1>2 DEF CallsOnce

\* A token that the server hands out has never been presented.
LEMMA GivenIsUnused ==
    ASSUME SessionsTypeOK, SessionsOK, CallsOnce, NEW r \in Requests, serverMoves(r),
           NEW t \in given
    PROVE  unused(t)'
<1>1. /\ t \in Tokens /\ session'[t].handed /\ ~ session[t].handed
      /\ session[t].replacedBy = NoToken
  BY DEF given, CallsOnce
<1>2. \A q \in Requests : ~ renews(q, t)
  BY <1>1, RefreshedToken DEF renews
<1>3. \A q \in Requests : ~ renews(q, t)'
  BY <1>1, <1>2 DEF serverMoves, renews
<1> QED
  BY <1>1, <1>2, <1>3 DEF serverMoves, unused

\* What comes of x, a flight or a user who signs in, when the server moves call r.
answerOf(r, x, y) ==
    /\ x \in Flight => y.token = x.token
    /\ \/ y.fresh = x.fresh
       \/ y.fresh \in given /\ x.at = "sent" /\ x.call = r
    /\ y.at = "sent" => /\ x.at = "sent" /\ y.call = x.call
                        /\ y.call \in Requests /\ req'[y.call].pc # "idle"

LEMMA AnswerIs ==
    ASSUME NEW r \in Requests, serverMoves(r), NEW x, x \in Flight \/ x \in Act,
           x.at = "sent" => underWay(x.call), NEW y, y = answered(x)
    PROVE  answerOf(r, x, y)
<1> DEFINE new == CHOOSE t \in given : TRUE
<1>1. given # {} => new \in given
  OBVIOUS
<1>2. CASE x.at = "sent" /\ isOver(x.call)
  <2>1. x.call = r
    BY <1>2 DEF isOver, serverMoves, underWay
  <2>2. CASE given = {}
    <3>1. y = [x EXCEPT !.at = "failed", !.call = NoCall]
      BY <1>2, <2>2 DEF answered
    <3> QED
      BY <3>1 DEF Flight, Act, answerOf
  <2>3. CASE given # {}
    <3>1. y = [x EXCEPT !.at = "ok", !.call = NoCall, !.fresh = new]
      BY <1>2, <2>3 DEF answered
    <3> HIDE DEF new
    <3>2. y.fresh = new /\ y.at = "ok" /\ (x \in Flight => y.token = x.token)
      BY <3>1 DEF Flight, Act
    <3> QED
      BY <1>1, <1>2, <2>1, <2>3, <3>2 DEF answerOf
  <2> QED
    BY <2>2, <2>3
<1>3. CASE ~ (x.at = "sent" /\ isOver(x.call))
  <2>1. y = x
    BY <1>3 DEF answered
  <2>2. y.at = "sent" => y.call \in Requests /\ req'[y.call].pc # "idle"
    BY <1>3, <2>1, BrowserAssumption DEF underWay, isOver
  <2> QED
    BY <1>3, <2>1, <2>2 DEF answerOf
<1> QED
  BY <1>2, <1>3

\* The page, once its flights and the sign-in have been answered.
LEMMA AnsweredPage ==
    ASSUME SessionsTypeOK, SessionsOK, BrowserOK, CallsOnce, CallsOnce',
           NEW b \in Tabs, pageOnce(page[b]), NEW r \in Requests, serverMoves(r), stored' = stored, cut' = cut,
           NEW p, p = page[b], NEW q, q = page'[b],
           \A g \in q.flights : \E f \in p.flights : g = answered(f) /\ answerOf(r, f, g),
           \A f \in p.flights : answered(f) \in q.flights /\ answered(f).token = f.token,
           answerOf(r, p.act, q.act)
    PROVE  pageOnce(q)'
<1>1. p.flights \subseteq Flight /\ p.act \in Act /\ pageOnce(p)
  BY PageType DEF BrowserOK
<1>2. \A t \in given : unused(t)' /\ ~ session[t].handed /\ t \in Tokens
  BY GivenIsUnused DEF given
<1>3. \A t \in Tokens : unused(t) => unused(t)' /\ session[t].handed
  BY UnusedStays DEF unused
<1>4. /\ p.act.fresh \in Tokens \cup {NoToken}
      /\ \A f \in p.flights : f.fresh \in Tokens \cup {NoToken}
  BY <1>1 DEF Flight, Act
<1>5. stored # NoToken => stored \in Tokens /\ session[stored].handed /\ session'[stored].handed
  BY <1>1 DEF pageOnce, BrowserOK, serverMoves
<1>6. stored # NoToken =>
          stored \in cut \/ unused(stored)' \/ \E g \in q.flights : g.token = stored
  BY <1>1, <1>3, <1>5 DEF pageOnce
<1>7. \A g \in q.flights : g.fresh # NoToken => unused(g.fresh)'
  BY <1>1, <1>2, <1>3, <1>4 DEF pageOnce, answerOf
<1>8. q.act.fresh # NoToken =>
          /\ unused(q.act.fresh)'
          /\ q.act.fresh # stored
          /\ \A g \in q.flights : g.fresh # q.act.fresh
  <2>1. CASE q.act.fresh = p.act.fresh
    <3>1. q.act.fresh # NoToken => /\ unused(q.act.fresh) /\ q.act.fresh # stored
                                   /\ q.act.fresh \in Tokens
                                   /\ \A f \in p.flights : f.fresh # q.act.fresh
      BY <1>1, <1>4, <2>1 DEF pageOnce
    <3>2. q.act.fresh # NoToken => unused(q.act.fresh)' /\ q.act.fresh \notin given
      BY <1>2, <1>3, <3>1
    <3> QED
      BY <3>1, <3>2 DEF answerOf
  <2>2. CASE q.act.fresh \in given /\ p.act.at = "sent" /\ p.act.call = r
    <3>1. q.act.fresh # stored
      BY <1>2, <1>5, <2>2, NoTokenIsNone
    <3>2. \A f \in p.flights : ~ (f.at = "sent" /\ f.call = r)
      BY <1>1, <2>2 DEF pageOnce
    <3>3. \A f \in p.flights : f.fresh = NoToken \/ session[f.fresh].handed
      BY <1>1 DEF pageOnce, unused
    <3>4. \A g \in q.flights : g.fresh # q.act.fresh
      BY <1>2, <2>2, <3>2, <3>3, NoTokenIsNone DEF answerOf
    <3> QED
      BY <1>2, <2>2, <3>1, <3>4
  <2> QED
    BY <2>1, <2>2 DEF answerOf
<1>9. \A f, g \in q.flights : f = g
  BY <1>1 DEF pageOnce
<1>10. \A g \in q.flights : g.at = "sent" => underWay(g.call)'
  BY DEF answerOf, underWay
<1>11. q.act.at = "sent" =>
          /\ underWay(q.act.call)'
          /\ \A g \in q.flights : g.at = "sent" => g.call # q.act.call
  BY <1>1 DEF answerOf, underWay, pageOnce
<1> QED
  BY <1>5, <1>6, <1>7, <1>8, <1>9, <1>10, <1>11 DEF pageOnce

LEMMA ServerKeepsOnce ==
    ASSUME SessionsTypeOK, SessionsOK, BrowserOK, Once, serverStep
    PROVE  Once'
<1>1. PICK r \in Requests : serverMoves(r)
  BY ServerMoves DEF serverStep
<1>2. CallsOnce /\ CallsOnce'
  BY <1>1, ServerKeepsCallsOnce DEF serverStep, answers, Once
<1>3. ASSUME NEW b \in Tabs PROVE pageOnce(page[b])'
  <2>1. PICK p, q : p = page[b] /\ q = page'[b]
    OBVIOUS
  <2>2. p \in Page /\ p.flights \subseteq Flight /\ p.act \in Act /\ pageOnce(p)
    BY <2>1, PageType DEF BrowserOK, Once
  <2>3. /\ q = [p EXCEPT !.flights = {answered(f) : f \in p.flights}, !.act = answered(p.act)]
        /\ stored' = stored /\ cut' = cut
    BY <2>1 DEF serverStep, answers
  <2>4. q.flights = {answered(f) : f \in p.flights} /\ q.act = answered(p.act)
    BY <2>2, <2>3 DEF Page
  <2>5. ASSUME NEW f \in p.flights PROVE answerOf(r, f, answered(f)) /\ f \in Flight
    <3>1. f \in Flight /\ (f.at = "sent" => underWay(f.call))
      BY <2>2 DEF pageOnce
    <3> QED
      BY <1>1, <3>1, AnswerIs
  <2>6. answerOf(r, p.act, q.act)
    <3>1. p.act.at = "sent" => underWay(p.act.call)
      BY <2>2 DEF pageOnce
    <3> QED
      BY <1>1, <2>2, <2>4, <3>1, AnswerIs
  <2>7. \A g \in q.flights : \E f \in p.flights : g = answered(f) /\ answerOf(r, f, g)
    BY <2>4, <2>5
  <2>8. \A f \in p.flights : answered(f) \in q.flights /\ answered(f).token = f.token
    BY <2>4, <2>5 DEF answerOf
  <2>9. pageOnce(q)'
    BY <1>1, <1>2, <2>1, <2>2, <2>3, <2>6, <2>7, <2>8, AnsweredPage
  <2> QED
    BY <2>1, <2>9
<1> QED
  BY <1>2, <1>3 DEF Once

\* The calls stay as they are, but for one that a page makes and that is no refresh.
callsQuiet ==
    \A r \in Requests :
        \/ req'[r] = req[r]
        \/ req[r].pc = "idle" /\ req'[r].pc # "idle" /\ req'[r].op # "refresh"

\* A page p becomes q: nothing comes in flight, and what is stored is what it was,
\* nothing, or a token that has been waiting in an answer.
pageQuiet(p, q) ==
    /\ \A g \in q.flights : \E f \in p.flights :
          /\ g.token = f.token
          /\ g.fresh \in {f.fresh, NoToken}
          /\ g.at = "sent" => f.at = "sent" /\ g.call = f.call
    /\ \A f, g \in q.flights : f = g
    /\ q.act.fresh \in {p.act.fresh, NoToken}
    /\ q.act.at = "sent" =>
          \/ p.act.at = "sent" /\ q.act.call = p.act.call
          \/ q.act.call \in Requests /\ req[q.act.call].pc = "idle" /\ req'[q.act.call].pc # "idle"
    /\ \/ stored' = NoToken
       \/ /\ stored' = stored
          /\ \A f \in p.flights : f.token \in cut' \/ \E g \in q.flights : g.token = f.token
       \/ \E f \in p.flights : stored' = f.fresh /\ q.flights = {}
       \/ stored' = p.act.fresh /\ q.act.fresh = NoToken

LEMMA UnusedStaysQuiet ==
    ASSUME SessionsTypeOK, sameTokens, callsQuiet, NEW t \in Tokens, unused(t)
    PROVE  unused(t)'
BY DEF sameTokens, callsQuiet, unused, renews

LEMMA QuietKeepsCallsOnce ==
    ASSUME SessionsTypeOK, CallsOnce, sameTokens, callsQuiet, cut \subseteq cut'
    PROVE  CallsOnce'
<1>1. \A r \in Requests, t \in Tokens : renews(r, t)' => renews(r, t)
  BY DEF callsQuiet, renews
<1> QED
  BY <1>1 DEF CallsOnce, sameTokens

LEMMA QuietKeepsPageOnce ==
    ASSUME SessionsTypeOK, BrowserOK, NEW b \in Tabs, NEW p, p = page[b], pageOnce(p),
           NEW q, pageQuiet(p, q), sameTokens, callsQuiet, cut \subseteq cut'
    PROVE  pageOnce(q)'
<1>1. p.flights \subseteq Flight /\ p.act \in Act
  BY PageType DEF BrowserOK
<1>2. /\ p.act.fresh \in Tokens \cup {NoToken}
      /\ \A f \in p.flights : f.fresh \in Tokens \cup {NoToken}
      /\ stored \in Tokens \cup {NoToken}
  BY <1>1 DEF Flight, Act, BrowserOK
<1>3. \A t \in Tokens : unused(t) => unused(t)' /\ session'[t].handed
  BY UnusedStaysQuiet DEF unused
<1>4. \A r : underWay(r) => underWay(r)'
  BY DEF callsQuiet, underWay
<1>5. \A g \in q.flights : g.fresh # NoToken => unused(g.fresh)'
  BY <1>2, <1>3 DEF pageOnce, pageQuiet
<1>6. q.act.fresh # NoToken => /\ q.act.fresh = p.act.fresh
                               /\ q.act.fresh \in Tokens
                               /\ unused(q.act.fresh)'
                               /\ q.act.fresh # stored
                               /\ \A f \in p.flights : f.fresh # q.act.fresh
  BY <1>2, <1>3 DEF pageOnce, pageQuiet
<1>7. q.act.fresh # NoToken => /\ q.act.fresh # stored'
                               /\ \A g \in q.flights : g.fresh # q.act.fresh
  BY <1>6 DEF pageQuiet
<1>8. \A g \in q.flights : g.at = "sent" => underWay(g.call)'
  BY <1>4 DEF pageOnce, pageQuiet
<1>9. q.act.at = "sent" => underWay(q.act.call)'
  BY <1>4 DEF pageOnce, pageQuiet, underWay
<1>10. \A g \in q.flights : g.at = "sent" /\ q.act.at = "sent" => g.call # q.act.call
  BY DEF pageOnce, pageQuiet, underWay
<1>11. PICK s : s = stored'
  OBVIOUS
<1>12. s # NoToken =>
          /\ session'[s].handed
          /\ s \in cut' \/ unused(s)' \/ \E g \in q.flights : g.token = s
  <2>1. CASE /\ s = stored
             /\ \A f \in p.flights : f.token \in cut' \/ \E g \in q.flights : g.token = f.token
    BY <1>2, <1>3, <2>1 DEF pageOnce, sameTokens
  <2>2. CASE \E f \in p.flights : s = f.fresh
    BY <1>2, <1>3, <2>2 DEF pageOnce
  <2>3. CASE s = p.act.fresh
    BY <1>2, <1>3, <2>3 DEF pageOnce
  <2> QED
    BY <1>11, <2>1, <2>2, <2>3 DEF pageQuiet
<1> QED
  BY <1>5, <1>6, <1>7, <1>8, <1>9, <1>10, <1>11, <1>12 DEF pageOnce, pageQuiet

LEMMA PageKeepsOnce ==
    ASSUME OneTab, SessionsTypeOK, BrowserOK, Once, NEW b \in Tabs, NEW q,
           pageIs(b, q), pageQuiet(page[b], q), sameTokens, callsQuiet, cut \subseteq cut'
    PROVE  Once'
<1>1. page'[b] = q /\ \A a \in Tabs : a = b
  BY DEF OneTab, pageIs, BrowserOK
<1>2. PICK p : p = page[b]
  OBVIOUS
<1>3. pageOnce(q)'
  BY <1>2, QuietKeepsPageOnce DEF Once
<1>4. pageOnce(page[b])'
  BY <1>1, <1>3
<1>5. \A a \in Tabs : pageOnce(page[a])'
  BY <1>1, <1>4
<1>6. CallsOnce'
  BY QuietKeepsCallsOnce DEF Once
<1> QED
  BY <1>5, <1>6 DEF Once

\* Nothing that the server keeps has changed.
LEMMA ServerUnchanged ==
    ASSUME UNCHANGED sessionVars
    PROVE  sameTokens /\ callsQuiet
BY DEF sessionVars, sameTokens, callsQuiet

\* A page presents the stored token while no refresh is in flight.
LEMMA PresentsKeepsOnce ==
    ASSUME OneTab, SessionsTypeOK, SessionsOK, BrowserOK, Once, NEW b \in Tabs,
           NEW p \in Page, presents(b, p), stored # NoToken,
           page[b].flights = {}, p.flights = {},
           p.act = page[b].act \/ (p.act.fresh = NoToken /\ p.act.at # "sent")
    PROVE  Once'
<1> DEFINE new == flightOf(free, stored)
<1>1. free \in Requests /\ req[free].pc = "idle" /\ stored \in Tokens
  BY FreeIsIdle DEF presents, BrowserOK
<1>2. PICK r, f, q : r = free /\ f = flightOf(free, stored) /\ q = page'[b]
  OBVIOUS
<1>3. q = [p EXCEPT !.flights = {f}]
  BY <1>2 DEF presents, pageIs, BrowserOK
<1>4. q.flights = {f} /\ q.act = p.act
  BY <1>3 DEF Page
<1>5. f.call = r /\ f.token = stored /\ f.fresh = NoToken
  BY <1>2 DEF flightOf
<1>6. /\ sameTokens
      /\ \A i \in Requests \ {r} : req'[i] = req[i]
      /\ req'[r].pc # "idle"
      /\ \A t \in Tokens : renews(r, t)' => t = stored
  <2>1. CASE isActive(session[stored].user)
    <3> DEFINE c == callOf("refresh", session[stored].user, stored, "resolve")
    <3>1. c.pc = "resolve" /\ c.token = stored
      BY DEF callOf, Idle
    <3>2. req' = [req EXCEPT ![r] = c] /\ session' = session
      BY <1>2, <2>1 DEF presents, refresh, begin
    <3> HIDE DEF c
    <3>3. req'[r] = c /\ \A i \in Requests \ {r} : req'[i] = req[i]
      BY <1>1, <1>2, <3>2, CallAlone
    <3> QED
      BY <3>1, <3>2, <3>3 DEF sameTokens, renews
  <2>2. CASE ~ isActive(session[stored].user)
    <3>1. PICK c : c = ending(session[stored].user)
      OBVIOUS
    <3>2. req' = [req EXCEPT ![r] = c] /\ session' = outdate(session, session[stored].user)
      BY <1>2, <2>2, <3>1 DEF presents, refresh, endsAllOf
    <3>3. req'[r] = c /\ \A i \in Requests \ {r} : req'[i] = req[i]
      BY <1>1, <1>2, <3>2, CallAlone
    <3>4. c.pc = "revokeAll" /\ c.op = "none"
      BY <3>1, NoRefreshLeft
    <3> QED
      BY <3>2, <3>3, <3>4, OutdatedTokens DEF renews
  <2> QED
    BY <2>1, <2>2
<1>7. stored' = stored /\ cut' = cut
  BY DEF presents
<1>8. stored \in cut \/ unused(stored)
  BY DEF Once, pageOnce
<1>9. \A i \in Requests \ {r}, t \in Tokens : renews(i, t)' => renews(i, t)
  BY <1>6 DEF renews
<1>10. CallsOnce'
  <2>1. \A t \in Tokens : ~ session'[t].handed => session'[t].replacedBy = NoToken
    BY <1>6 DEF Once, CallsOnce, sameTokens
  <2>2. ASSUME NEW i \in Requests, NEW t \in Tokens, renews(i, t)', t \notin cut
        PROVE  session'[t].replacedBy = NoToken /\ \A j \in Requests : renews(j, t)' => j = i
    <3>1. CASE t = stored
      BY <1>1, <1>2, <1>6, <1>8, <1>9, <2>2, <3>1 DEF unused, sameTokens
    <3>2. CASE t # stored
      <4>1. \A j \in Requests : renews(j, t)' => renews(j, t)
        BY <1>6, <1>9, <3>2
      <4> QED
        BY <1>6, <2>2, <4>1 DEF Once, CallsOnce, sameTokens
    <3> QED
      BY <3>1, <3>2
  <2> QED
    BY <1>7, <2>1, <2>2 DEF CallsOnce
<1>11. page[b].act \in Act /\ page[b].act.fresh \in Tokens \cup {NoToken}
  BY PageType DEF BrowserOK, Act
<1>12. q.act.fresh # NoToken => unused(q.act.fresh)' /\ q.act.fresh # stored
  <2> SUFFICES ASSUME q.act.fresh # NoToken PROVE unused(q.act.fresh)' /\ q.act.fresh # stored
    OBVIOUS
  <2>1. PICK t \in Tokens : t = q.act.fresh /\ t = page[b].act.fresh
    BY <1>4, <1>11
  <2>2. unused(t) /\ t # stored
    BY <2>1 DEF Once, pageOnce
  <2>3. unused(t)'
    BY <1>6, <1>9, <2>2 DEF unused, sameTokens
  <2> QED
    BY <2>1, <2>2, <2>3
<1>13. q.act.at = "sent" => underWay(q.act.call)' /\ q.act.call # r
  <2> SUFFICES ASSUME q.act.at = "sent" PROVE underWay(q.act.call)' /\ q.act.call # r
    OBVIOUS
  <2>1. underWay(q.act.call)
    BY <1>4 DEF Once, pageOnce
  <2> QED
    BY <1>1, <1>2, <1>6, <2>1 DEF underWay
<1>14. underWay(r)'
  BY <1>1, <1>2, <1>6 DEF underWay
<1>15. session'[stored].handed
  BY <1>1, <1>6 DEF Once, pageOnce, sameTokens
<1>16. pageOnce(q)'
  BY <1>1, <1>4, <1>5, <1>7, <1>12, <1>13, <1>14, <1>15, NoTokenIsNone DEF pageOnce
<1>17. \A a \in Tabs : pageOnce(page[a])'
  <2>1. pageOnce(page[b])'
    BY <1>2, <1>16
  <2> QED
    BY <2>1 DEF OneTab
<1> QED
  BY <1>10, <1>17 DEF Once

\* A call that is made, but is no refresh.
LEMMA CallMade ==
    ASSUME SessionsTypeOK, someFree, NEW c, req' = [req EXCEPT ![free] = c],
           c.pc # "idle", c.op # "refresh"
    PROVE  callsQuiet /\ req[free].pc = "idle" /\ req'[free].pc # "idle" /\ free \in Requests
<1>1. req[free].pc = "idle" /\ free \in Requests
  BY FreeIsIdle
<1>2. req'[free] = c /\ \A q \in Requests \ {free} : req'[q] = req[q]
  BY <1>1, CallAlone
<1> QED
  BY <1>1, <1>2 DEF callsQuiet

LEMMA SignInAndOutAreMade ==
    ASSUME SessionsTypeOK, someFree,
           login(free, Me) \/ logoutAll(free, Me) \/ logout(free, stored)
    PROVE  /\ callsQuiet /\ sameTokens
           /\ req[free].pc = "idle" /\ req'[free].pc # "idle" /\ free \in Requests
<1>1. CASE login(free, Me)
  <2>1. PICK c : c = callOf("login", Me, NoToken, "mint")
    OBVIOUS
  <2>2. c.pc = "mint" /\ c.op = "login"
    BY <2>1 DEF callOf, Idle
  <2>3. req' = [req EXCEPT ![free] = c] /\ session' = session
    BY <1>1, <2>1 DEF login, begin
  <2> QED
    BY <2>2, <2>3, CallMade DEF sameTokens
<1>2. CASE logoutAll(free, Me)
  <2>1. PICK c : c = ending(Me)
    OBVIOUS
  <2>2. c.pc = "revokeAll" /\ c.op = "none"
    BY <2>1, NoRefreshLeft
  <2>3. req' = [req EXCEPT ![free] = c] /\ session' = outdate(session, Me)
    BY <1>2, <2>1 DEF logoutAll, endsAllOf
  <2> QED
    BY <2>2, <2>3, CallMade, OutdatedTokens
<1>3. CASE logout(free, stored)
  <2>1. PICK c : c = callOf("logout", session[stored].user, stored, "end")
    OBVIOUS
  <2>2. c.pc = "end" /\ c.op = "logout"
    BY <2>1 DEF callOf, Idle
  <2>3. req' = [req EXCEPT ![free] = c] /\ session' = session
    BY <1>3, <2>1 DEF logout, begin
  <2> QED
    BY <2>2, <2>3, CallMade DEF sameTokens
<1> QED
  BY <1>1, <1>2, <1>3

LEMMA PageKeepsHolding ==
    ASSUME NEW p, pageOnce(p), NEW q, q.flights = p.flights, q.act = p.act,
           stored' = stored \/ stored' = NoToken
    PROVE  pageQuiet(p, q)
BY DEF pageOnce, pageQuiet

\* The user begins to sign in or out, or is done.
LEMMA ActBegins ==
    ASSUME NEW p, pageOnce(p), NEW q, q.flights = p.flights, q.act.fresh = NoToken,
           q.act.at = "sent" =>
              q.act.call \in Requests /\ req[q.act.call].pc = "idle" /\ req'[q.act.call].pc # "idle",
           stored' = stored \/ stored' = NoToken \/ stored' = p.act.fresh
    PROVE  pageQuiet(p, q)
BY DEF pageOnce, pageQuiet

\* What a page holds does not depend on where it is and how many calls it makes.
LEMMA FieldsOfPage ==
    ASSUME NEW p \in Page
    PROVE  /\ withoutSession(p).flights = p.flights /\ withoutSession(p).act = p.act
           /\ withSession(p).flights = p.flights /\ withSession(p).act = p.act
           /\ \A x : /\ [p EXCEPT !.at = x].flights = p.flights
                     /\ [p EXCEPT !.at = x].act = p.act
                     /\ [p EXCEPT !.access = x].flights = p.flights
                     /\ [p EXCEPT !.access = x].act = p.act
                     /\ [p EXCEPT !.sent = x].flights = p.flights
                     /\ [p EXCEPT !.sent = x].act = p.act
                     /\ [p EXCEPT !.waits = x].flights = p.flights
                     /\ [p EXCEPT !.waits = x].act = p.act
                     /\ [p EXCEPT !.retried = x].flights = p.flights
                     /\ [p EXCEPT !.retried = x].act = p.act
                     /\ [p EXCEPT !.flights = x].flights = x
                     /\ [p EXCEPT !.flights = x].act = p.act
                     /\ [p EXCEPT !.act = x].flights = p.flights
                     /\ [p EXCEPT !.act = x].act = x
BY DEF Page, withoutSession, withSession

LEMMA FieldsOfActs ==
    /\ NoAct.at = "none" /\ NoAct.fresh = NoToken
    /\ \A k, a, r : LET x == actOf(k, a, r) IN x.at = a /\ x.call = r /\ x.fresh = NoToken
BY DEF NoAct, actOf

LEMMA AskingKeepsOnce ==
    ASSUME OneTab, SessionsTypeOK, SessionsOK, BrowserOK, Once, NEW b \in Tabs,
           NEW p \in Page, NEW q \in Page, asksForRefresh(b, p, q),
           p.flights = page[b].flights, q.flights = page[b].flights,
           p.act = page[b].act \/ (p.act.fresh = NoToken /\ p.act.at # "sent"),
           q.act = page[b].act \/ (q.act.fresh = NoToken /\ q.act.at # "sent")
    PROVE  Once'
<1>0. pageOnce(page[b])
  BY DEF Once
<1>1. CASE pageIs(b, p) /\ UNCHANGED <<sessionVars, stored, cut>>
  <2>1. pageQuiet(page[b], p)
    BY <1>0, <1>1, PageKeepsHolding, ActBegins
  <2> QED
    BY <1>1, <2>1, ServerUnchanged, PageKeepsOnce
<1>2. CASE ~ joinsRefresh(b) /\ stored # NoToken /\ presents(b, p)
  <2>1. page[b].flights = {} /\ p.flights = {}
    BY <1>2 DEF joinsRefresh
  <2> QED
    BY <1>2, <2>1, PresentsKeepsOnce
<1>3. CASE pageIs(b, withoutSession(q)) /\ forgetsSession /\ UNCHANGED <<sessionVars, cut>>
  <2>1. withoutSession(q).flights = q.flights /\ withoutSession(q).act = q.act
    BY FieldsOfPage
  <2>2. stored' = NoToken
    BY <1>3 DEF forgetsSession
  <2>3. pageQuiet(page[b], withoutSession(q))
    BY <1>0, <2>1, <2>2, PageKeepsHolding, ActBegins
  <2> QED
    BY <1>3, <2>3, ServerUnchanged, PageKeepsOnce
<1> QED
  BY <1>1, <1>2, <1>3 DEF asksForRefresh

LEMMA CallsKeepOnce ==
    ASSUME OneTab, SessionsTypeOK, SessionsOK, BrowserOK, Once, NEW b \in Tabs,
           \/ restores(b) \/ opensSignedOut(b) \/ loadsMe(b) \/ reload(b)
           \/ accessExpires(b) \/ calls(b) \/ unauthorized(b) \/ meUnauthorized(b)
           \/ repeated(b)
    PROVE  Once'
<1>0. pageOnce(page[b]) /\ page[b] \in Page /\ pageOK(page[b])
  BY DEF Once, BrowserOK
<1>1. CASE restores(b)
  BY <1>0, <1>1, PresentsKeepsOnce DEF restores
<1>2. ASSUME NEW q, pageIs(b, q), q.flights = page[b].flights, q.act = page[b].act,
             stored' = stored \/ forgetsSession, UNCHANGED <<sessionVars, cut>>
      PROVE  Once'
  <2>1. pageQuiet(page[b], q)
    BY <1>0, <1>2, PageKeepsHolding DEF forgetsSession
  <2> QED
    BY <1>2, <2>1, ServerUnchanged, PageKeepsOnce
<1>3. CASE opensSignedOut(b)
  BY <1>0, <1>2, <1>3, FieldsOfPage DEF opensSignedOut
<1>4. CASE loadsMe(b)
  <2>1. PICK p : p = [page[b] EXCEPT !.at = "on"]
    OBVIOUS
  <2>2. p \in Page /\ p.flights = page[b].flights /\ p.act = page[b].act
    BY <1>0, <2>1, FieldsOfPage, PageType DEF pageOK
  <2>3. withoutSession(p).flights = page[b].flights /\ withoutSession(p).act = page[b].act
    BY <2>2, FieldsOfPage
  <2> QED
    BY <1>2, <1>4, <2>1, <2>2, <2>3 DEF loadsMe
<1>5. CASE reload(b)
  <2>1. page[b].flights \subseteq Flight /\ NewPage.flights = {} /\ NewPage.act = NoAct
    BY <1>0, PageType DEF NewPage
  <2>2. cut' = cut \cup {f.token : f \in page[b].flights}
    BY <1>5 DEF reload
  <2>3. \A f \in page[b].flights : f.token \in cut'
    BY <2>2
  <2>4. stored' = stored /\ UNCHANGED sessionVars /\ pageIs(b, NewPage)
    BY <1>5 DEF reload
  <2>5. pageQuiet(page[b], NewPage)
    BY <1>0, <2>1, <2>3, <2>4, FieldsOfActs DEF pageQuiet
  <2> QED
    BY <2>2, <2>4, <2>5, ServerUnchanged, PageKeepsOnce
<1>6. CASE accessExpires(b)
  BY <1>0, <1>2, <1>6, FieldsOfPage DEF accessExpires
<1>7. CASE calls(b)
  BY <1>0, <1>2, <1>7, FieldsOfPage DEF calls
<1>8. CASE repeated(b)
  <2>1. PICK p : p = [page[b] EXCEPT !.retried = @ - 1]
    OBVIOUS
  <2>2. p \in Page /\ p.flights = page[b].flights /\ p.act = page[b].act
    <3>1. pageOK(p)
      BY <1>0, <1>8, <2>1, BrowserAssumption DEF repeated, pageOK, Page
    <3> QED
      BY <1>0, <2>1, <3>1, FieldsOfPage DEF pageOK
  <2>3. withoutSession(p).flights = page[b].flights /\ withoutSession(p).act = page[b].act
    BY <2>2, FieldsOfPage
  <2> QED
    BY <1>2, <1>8, <2>1, <2>2, <2>3 DEF repeated
<1>9. CASE unauthorized(b)
  <2>1. PICK p : p = [page[b] EXCEPT !.sent = @ - 1]
    OBVIOUS
  <2>2. PICK q : q = [p EXCEPT !.waits = @ + 1]
    OBVIOUS
  <2>3. /\ p \in Page /\ p.flights = page[b].flights /\ p.act = page[b].act
        /\ p.sent = page[b].sent - 1 /\ p.waits = page[b].waits
    <3>1. page[b].sent > 0
      BY <1>9 DEF unauthorized
    <3> QED
      BY <1>0, <2>1, <3>1, BrowserAssumption DEF pageOK, Page
  <2>4. q \in Page /\ q.flights = page[b].flights /\ q.act = page[b].act
    <3>1. p.waits + 1 \in 0..MaxCalls
      <4>1. /\ page[b].sent \in Nat /\ page[b].waits \in Nat /\ page[b].retried \in Nat
            /\ page[b].sent > 0 /\ page[b].sent + page[b].waits + page[b].retried <= MaxCalls
        BY <1>0, <1>9, PageType DEF unauthorized, pageOK
      <4> QED
        BY <2>3, <4>1, BrowserAssumption
    <3> QED
      BY <2>2, <2>3, <3>1 DEF Page
  <2>5. asksForRefresh(b, q, p)
    BY <1>9, <2>1, <2>2 DEF unauthorized
  <2> QED
    BY <2>3, <2>4, <2>5, AskingKeepsOnce
<1>10. CASE meUnauthorized(b)
  <2>1. PICK p, q : p = [page[b] EXCEPT !.at = "meWaits"] /\ q = [page[b] EXCEPT !.at = "on"]
    OBVIOUS
  <2>2. /\ p \in Page /\ p.flights = page[b].flights /\ p.act = page[b].act
        /\ q \in Page /\ q.flights = page[b].flights /\ q.act = page[b].act
    BY <1>0, <2>1, FieldsOfPage, PageType DEF pageOK
  <2>3. asksForRefresh(b, p, q)
    BY <1>10, <2>1 DEF meUnauthorized
  <2> QED
    BY <2>2, <2>3, AskingKeepsOnce
<1> QED
  BY <1>1, <1>3, <1>4, <1>5, <1>6, <1>7, <1>8, <1>9, <1>10

\* Answers of a refresh, and answers that never come.
LEMMA HearingKeepsOnce ==
    ASSUME OneTab, SessionsTypeOK, SessionsOK, BrowserOK, Once, NEW b \in Tabs,
           \/ hearsOfRefresh(b) \/ headersArrive(b) \/ refreshTimesOut(b) \/ bodyIsLost(b)
           \/ actTimesOut(b)
    PROVE  Once'
<1>0. /\ pageOnce(page[b]) /\ page[b] \in Page
      /\ page[b].flights \subseteq Flight /\ page[b].act \in Act
  BY PageType DEF Once, BrowserOK
<1>1. ASSUME NEW q, pageIs(b, q), pageQuiet(page[b], q), UNCHANGED <<sessionVars, cut>>
      PROVE  Once'
  BY <1>1, ServerUnchanged, PageKeepsOnce
<1>2. ASSUME NEW f \in page[b].flights PROVE page[b].flights \ {f} = {}
  BY <1>0 DEF pageOnce
<1>3. ASSUME NEW at \in {"again", "failed"}
      PROVE  /\ nextAct(page[b].act, at).fresh = page[b].act.fresh
             /\ nextAct(page[b].act, at).at # "sent" \/ nextAct(page[b].act, at) = page[b].act
  BY <1>0 DEF nextAct, Act
<1>4. ASSUME NEW f \in page[b].flights, refreshed(b, f) PROVE Once'
  <2> DEFINE p == [page[b] EXCEPT
                    !.at = afterRefresh(@),
                    !.flights = @ \ {f},
                    !.retried = @ + page[b].waits,
                    !.waits = 0,
                    !.act = nextAct(@, "again")]
  <2>1. p.flights = {} /\ p.act = nextAct(page[b].act, "again")
    BY <1>0, <1>2 DEF Page
  <2>2. withSession(p).flights = p.flights /\ withSession(p).act = p.act
    BY <1>0 DEF withSession, Page
  <2>3. pageIs(b, withSession(p)) /\ stored' = f.fresh /\ UNCHANGED <<sessionVars, cut>>
    BY <1>4 DEF refreshed
  <2> HIDE DEF p
  <2>4. PICK q : q = withSession(p)
    OBVIOUS
  <2>5. pageQuiet(page[b], q)
    BY <1>3, <2>1, <2>2, <2>3, <2>4 DEF pageQuiet
  <2> QED
    BY <1>1, <2>3, <2>4, <2>5
<1>5. ASSUME NEW f \in page[b].flights, refused(b, f) PROVE Once'
  <2> DEFINE p == [page[b] EXCEPT
                    !.at = "on",
                    !.flights = @ \ {f},
                    !.waits = 0,
                    !.act = nextAct(@, "failed")]
  <2>1. p.flights = {} /\ p.act = nextAct(page[b].act, "failed")
    BY <1>0, <1>2 DEF Page
  <2>2. withoutSession(p).flights = p.flights /\ withoutSession(p).act = p.act
    BY <1>0 DEF withoutSession, Page
  <2>3. pageIs(b, withoutSession(p)) /\ stored' = NoToken /\ UNCHANGED <<sessionVars, cut>>
    BY <1>5 DEF refused, forgetsSession
  <2> HIDE DEF p
  <2>4. PICK q : q = withoutSession(p)
    OBVIOUS
  <2>5. pageQuiet(page[b], q)
    BY <1>3, <2>1, <2>2, <2>3, <2>4 DEF pageQuiet
  <2> QED
    BY <1>1, <2>3, <2>4, <2>5
<1>6. CASE headersArrive(b) \/ refreshTimesOut(b) \/ bodyIsLost(b)
  <2>0. PICK f \in page[b].flights :
            \/ flightIs(b, f, [f EXCEPT !.at = "body"])
            \/ flightIs(b, f, lost(f, "lost"))
    BY <1>6 DEF headersArrive, refreshTimesOut, bodyIsLost
  <2>1. PICK g :
            /\ flightIs(b, f, g)
            /\ g = [f EXCEPT !.at = "body"] \/ g = lost(f, "lost")
    BY <2>0
  <2>2. PICK q : q = [page[b] EXCEPT !.flights = {g}]
    OBVIOUS
  <2>3. q.flights = {g} /\ q.act = page[b].act
    BY <1>0, <2>2, FieldsOfPage
  <2>4. pageIs(b, q)
    <3>1. (page[b].flights \ {f}) \cup {g} = {g}
      BY <1>2, <2>2
    <3> QED
      BY <2>1, <2>2, <3>1 DEF flightIs
  <2>5. g.token = f.token /\ g.fresh \in {f.fresh, NoToken} /\ g.at # "sent"
    BY <1>0, <2>1 DEF lost, Flight
  <2>6. \A h \in page[b].flights : h = f
    BY <1>0 DEF pageOnce
  <2>7. stored' = stored /\ cut' = cut /\ UNCHANGED sessionVars
    BY <2>1 DEF flightIs
  <2>8. pageQuiet(page[b], q)
    BY <2>3, <2>5, <2>6, <2>7 DEF pageQuiet
  <2> QED
    BY <1>1, <2>4, <2>7, <2>8
<1>7. CASE actTimesOut(b)
  <2>1. PICK q : q = [page[b] EXCEPT !.act = lost(@, "failed")]
    OBVIOUS
  <2>2. q.flights = page[b].flights /\ q.act = lost(page[b].act, "failed")
    BY <1>0, <2>1, FieldsOfPage
  <2>3. lost(page[b].act, "failed").at = "failed" /\ lost(page[b].act, "failed").fresh = NoToken
    BY <1>0 DEF lost, Act
  <2>4. stored' = stored /\ cut' = cut /\ pageIs(b, q) /\ UNCHANGED sessionVars
    BY <1>7, <2>1 DEF actTimesOut
  <2>5. pageQuiet(page[b], q)
    BY <1>0, <2>2, <2>3, <2>4, ActBegins
  <2> QED
    BY <1>1, <2>4, <2>5
<1> QED
  BY <1>4, <1>5, <1>6, <1>7 DEF hearsOfRefresh

LEMMA AskingLogoutKeepsOnce ==
    ASSUME OneTab, SessionsTypeOK, SessionsOK, BrowserOK, Once, NEW b \in Tabs, asksLogoutAll(b)
    PROVE  Once'
<1>0. pageOnce(page[b]) /\ page[b] \in Page
  BY DEF Once, BrowserOK
<1>1. PICK a, q : a = actOf("logoutAll", "sent", free) /\ q = [page[b] EXCEPT !.act = a]
  OBVIOUS
<1>2. a.call = free /\ a.fresh = NoToken
  BY <1>1, FieldsOfActs
<1>3. q.flights = page[b].flights /\ q.act = a
  BY <1>0, <1>1, FieldsOfPage
<1>4. pageIs(b, q) /\ stored' = stored /\ cut' = cut
  BY <1>1 DEF asksLogoutAll
<1>5. /\ callsQuiet /\ sameTokens
      /\ req[free].pc = "idle" /\ req'[free].pc # "idle" /\ free \in Requests
  BY SignInAndOutAreMade DEF asksLogoutAll
<1>6. pageQuiet(page[b], q)
  BY <1>0, <1>2, <1>3, <1>4, <1>5, ActBegins
<1> QED
  BY <1>4, <1>5, <1>6, PageKeepsOnce

\* Signing in and out.
LEMMA SigningKeepsOnce ==
    ASSUME OneTab, SessionsTypeOK, SessionsOK, BrowserOK, Once, NEW b \in Tabs,
           \/ signsIn(b) \/ signedIn(b) \/ signsOut(b) \/ signsOutEverywhere(b)
           \/ repeatsLogoutAll(b) \/ signedOut(b)
    PROVE  Once'
<1>0. pageOnce(page[b]) /\ page[b] \in Page /\ pageOK(page[b])
  BY DEF Once, BrowserOK
<1>1. ASSUME NEW q, NEW a, pageIs(b, q), q.flights = page[b].flights, q.act = a,
             a.fresh = NoToken,
             a.at = "sent" => /\ a.call \in Requests /\ req[a.call].pc = "idle"
                              /\ req'[a.call].pc # "idle",
             stored' = stored \/ forgetsSession \/ stored' = page[b].act.fresh,
             sameTokens, callsQuiet, cut' = cut
      PROVE  Once'
  <2>1. pageQuiet(page[b], q)
    BY <1>0, <1>1, ActBegins DEF forgetsSession
  <2> QED
    BY <1>1, <2>1, PageKeepsOnce
<1>2. ASSUME NEW a PROVE /\ [page[b] EXCEPT !.act = a].flights = page[b].flights
                         /\ [page[b] EXCEPT !.act = a].act = a
                         /\ withoutSession([page[b] EXCEPT !.act = a]).flights = page[b].flights
                         /\ withoutSession([page[b] EXCEPT !.act = a]).act = a
                         /\ withSession([page[b] EXCEPT !.act = a]).flights = page[b].flights
                         /\ withSession([page[b] EXCEPT !.act = a]).act = a
  BY <1>0 DEF withoutSession, withSession, Page
<1>3. CASE signsIn(b)
  <2>1. PICK a, q : a = actOf("login", "sent", free) /\ q = [page[b] EXCEPT !.act = a]
    OBVIOUS
  <2>2. a.call = free /\ a.fresh = NoToken
    BY <2>1, FieldsOfActs
  <2>3. /\ callsQuiet /\ sameTokens
        /\ req[free].pc = "idle" /\ req'[free].pc # "idle" /\ free \in Requests
    BY <1>3, SignInAndOutAreMade DEF signsIn
  <2>4. pageIs(b, q) /\ stored' = stored /\ cut' = cut
    BY <1>3, <2>1 DEF signsIn
  <2> QED
    BY <1>1, <1>2, <2>1, <2>2, <2>3, <2>4
<1>4. CASE signedIn(b)
  <2>1. PICK a : a = NoAct
    OBVIOUS
  <2>2. a.at = "none" /\ a.fresh = NoToken
    BY <2>1, FieldsOfActs
  <2>3. PICK q : /\ q = [page[b] EXCEPT !.act = a] \/ q = withSession([page[b] EXCEPT !.act = a])
                 /\ pageIs(b, q)
                 /\ stored' = stored \/ stored' = page[b].act.fresh
    BY <1>4, <2>1 DEF signedIn
  <2>4. q.flights = page[b].flights /\ q.act = a
    <3>1. CASE q = [page[b] EXCEPT !.act = a]
      BY <1>2, <3>1
    <3>2. CASE q = withSession([page[b] EXCEPT !.act = a])
      BY <1>2, <3>2
    <3> QED
      BY <2>3, <3>1, <3>2
  <2>5. sameTokens /\ callsQuiet /\ cut' = cut
    BY <1>4, ServerUnchanged DEF signedIn
  <2> QED
    BY <1>1, <2>2, <2>3, <2>4, <2>5
<1>5. CASE signsOut(b)
  <2>1. CASE someFree /\ logout(free, stored)
               /\ pageIs(b, [page[b] EXCEPT !.act = actOf("logout", "sent", free)])
    <3>1. PICK a, q : a = actOf("logout", "sent", free) /\ q = [page[b] EXCEPT !.act = a]
      OBVIOUS
    <3>2. a.call = free /\ a.fresh = NoToken
      BY <3>1, FieldsOfActs
    <3>3. /\ callsQuiet /\ sameTokens
          /\ req[free].pc = "idle" /\ req'[free].pc # "idle" /\ free \in Requests
      BY <2>1, SignInAndOutAreMade
    <3>4. pageIs(b, q) /\ stored' = stored /\ cut' = cut
      BY <1>5, <2>1, <3>1 DEF signsOut
    <3> QED
      BY <1>1, <1>2, <3>1, <3>2, <3>3, <3>4
  <2>2. CASE /\ pageIs(b, [page[b] EXCEPT !.act = actOf("logout", "ok", NoCall)])
             /\ UNCHANGED sessionVars
    <3>1. PICK a, q : a = actOf("logout", "ok", NoCall) /\ q = [page[b] EXCEPT !.act = a]
      OBVIOUS
    <3>2. a.at = "ok" /\ a.fresh = NoToken
      BY <3>1, FieldsOfActs
    <3>3. pageIs(b, q) /\ stored' = stored /\ cut' = cut
      BY <1>5, <2>2, <3>1 DEF signsOut
    <3> QED
      BY <1>1, <1>2, <2>2, <3>1, <3>2, <3>3, ServerUnchanged
  <2> QED
    BY <1>5, <2>1, <2>2 DEF signsOut
<1>6. CASE signsOutEverywhere(b)
  <2>1. CASE asksLogoutAll(b)
    BY <2>1, AskingLogoutKeepsOnce
  <2>2. CASE ~ asksLogoutAll(b)
    <3>1. PICK v, w : /\ v = actOf("logoutAll", "waits", NoCall)
                      /\ w = actOf("logoutAll", "failed", NoCall)
      OBVIOUS
    <3>2. v.at = "waits" /\ v.fresh = NoToken /\ w.at = "failed" /\ w.fresh = NoToken
      BY <3>1, FieldsOfActs
    <3>3. v \in Act /\ w \in Act
      BY <3>1, ActOfType
    <3>4. PICK p, q : p = [page[b] EXCEPT !.act = v] /\ q = [page[b] EXCEPT !.act = w]
      OBVIOUS
    <3>5. p \in Page /\ q \in Page
      BY <1>0, <3>3, <3>4, PageType DEF pageOK
    <3>6. /\ p.flights = page[b].flights /\ q.flights = page[b].flights
          /\ p.act = v /\ q.act = w
      BY <1>2, <3>4
    <3>7. asksForRefresh(b, p, q)
      BY <1>6, <2>2, <3>1, <3>4 DEF signsOutEverywhere
    <3> QED
      BY <3>2, <3>5, <3>6, <3>7, AskingKeepsOnce
  <2> QED
    BY <2>1, <2>2
<1>7. CASE repeatsLogoutAll(b)
  <2>1. CASE asksLogoutAll(b)
    BY <2>1, AskingLogoutKeepsOnce
  <2>2. CASE ~ asksLogoutAll(b)
    <3>1. PICK a, q : /\ a = actOf("logoutAll", "failed", NoCall)
                      /\ q = withoutSession([page[b] EXCEPT !.act = a])
      OBVIOUS
    <3>2. a.at = "failed" /\ a.fresh = NoToken
      BY <3>1, FieldsOfActs
    <3>3. pageIs(b, q) /\ forgetsSession /\ cut' = cut /\ UNCHANGED sessionVars
      BY <1>7, <2>2, <3>1 DEF repeatsLogoutAll
    <3> QED
      BY <1>1, <1>2, <3>1, <3>2, <3>3, ServerUnchanged
  <2> QED
    BY <2>1, <2>2
<1>8. CASE signedOut(b)
  <2>1. PICK a, q : a = NoAct /\ q = withoutSession([page[b] EXCEPT !.act = a])
    OBVIOUS
  <2>2. a.at = "none" /\ a.fresh = NoToken
    BY <2>1, FieldsOfActs
  <2>3. pageIs(b, q) /\ forgetsSession /\ cut' = cut /\ UNCHANGED sessionVars
    BY <1>8, <2>1 DEF signedOut
  <2> QED
    BY <1>1, <1>2, <2>1, <2>2, <2>3, ServerUnchanged
<1> QED
  BY <1>3, <1>4, <1>5, <1>6, <1>7, <1>8

LEMMA StepKeepsOnce ==
    ASSUME OneTab, SessionsTypeOK, SessionsOK, BrowserOK, Once, [Next]_vars
    PROVE  Once'
<1>1. CASE UNCHANGED vars
  <2>1. CallsOnce' /\ \A b \in Tabs : pageOnce(page[b])'
    BY <1>1 DEF vars, Once, CallsOnce, pageOnce, unused, underWay, renews
  <2> QED
    BY <2>1 DEF Once
<1>2. CASE elsewhere
  <2>1. sameTokens /\ callsQuiet /\ stored' = stored /\ page' = page /\ cut' = cut
    BY <1>2, SignInAndOutAreMade DEF elsewhere, browserVars
  <2>2. ASSUME NEW b \in Tabs PROVE Once'
    <3>1. pageQuiet(page[b], page[b])
      BY <2>1, PageKeepsHolding DEF Once
    <3>2. pageIs(b, page[b])
      BY <2>1 DEF pageIs, BrowserOK
    <3> QED
      BY <2>1, <3>1, <3>2, PageKeepsOnce
  <2>3. CASE Tabs = {}
    BY <2>1, <2>3, QuietKeepsCallsOnce DEF Once
  <2> QED
    BY <2>2, <2>3
<1> QED
  BY <1>1, <1>2, ServerKeepsOnce, CallsKeepOnce, HearingKeepsOnce, SigningKeepsOnce
  DEF Next, goesOn, userDoes

LEMMA OnceAtFirst ==
    ASSUME Init
    PROVE  Once
<1>1. \A r \in Requests : req[r].op = "none" /\ req[r].pc = "idle"
  BY NoRefreshLeft DEF Init, SessionsInit
<1>2. \A t \in Tokens : session[t].replacedBy = NoToken
  BY DEF Init, SessionsInit, NoSession
<1>3. CallsOnce
  BY <1>1, <1>2 DEF CallsOnce, renews
<1>4. \A b \in Tabs : page[b] = NewPage
  BY DEF Init
<1>5. NewPage.flights = {} /\ NewPage.act.fresh = NoToken /\ NewPage.act.at = "none"
  BY FieldsOfActs DEF NewPage
<1>6. \A b \in Tabs : pageOnce(page[b])
  BY <1>4, <1>5 DEF Init, pageOnce
<1> QED
  BY <1>3, <1>6 DEF Once

\* A browser with one tab presents each refresh token once, unless a reload left it
\* behind: late and joint answers 401, lost answers and signing in and out never
\* have it presented again (api.js:97-112, auth.js:83).
THEOREM OneTabUsesTokensOnce == ASSUME OneTab PROVE Spec => []OneUsePerToken
<1>1. Init => Once
  BY OnceAtFirst
<1>2. SessionsTypeOK /\ SessionsOK /\ BrowserOK /\ Once /\ [Next]_vars => Once'
  BY StepKeepsOnce
<1>3. SessionsTypeOK /\ SessionsOK /\ Once => OneUsePerToken
  BY RefreshedToken DEF Once, CallsOnce, OneUsePerToken, renews
<1> QED
  BY <1>1, <1>2, <1>3, BrowserAlwaysOK, BrowserCallsSessions, SessionsTyped, PTL DEF Spec
=============================================================================
