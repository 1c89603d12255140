-------------------------- MODULE DashboardProofs --------------------------
(***************************************************************************)
(* Proofs about the browser side.                                          *)
(*                                                                         *)
(* WebSession, for any number of requests in flight and any limit of       *)
(* failures: the gate never bounces, a logout holds, and nobody with a     *)
(* valid session is sent away by an answer of that session.                *)
(*                                                                         *)
(* LivePages, for any slots, login states and changes of the service: old  *)
(* answers never replace newer ones on the screen.                         *)
(*                                                                         *)
(* ChatPage, for any page size, table and set of sessions: the thread on   *)
(* the screen has no hole.                                                 *)
(***************************************************************************)
EXTENDS WebSession, LivePages, ChatPage, TLAPS, FiniteSetTheorems, WellFoundedInduction

AuthStates == [required : BOOLEAN, authenticated : BOOLEAN, loaded : BOOLEAN, probeFailed : BOOLEAN]
CallStates == [st : {"none", "sent", "ok", "401"}, same : BOOLEAN, ok : BOOLEAN]
Cookies == [has : BOOLEAN, ok : BOOLEAN]
Probes == [st : {"sent", "answered", "over"}, required : BOOLEAN, authenticated : BOOLEAN]

Types ==
    /\ up \in BOOLEAN /\ enabled \in BOOLEAN
    /\ cookie \in Cookies
    /\ auth \in AuthStates /\ path \in Paths
    /\ probe \in Probes
    /\ call \in [Calls -> CallStates]

\* The route on the screen is one the gate renders for the snapshot.
OnScreen == Gate(auth, path) = path

\* Until the status of a page load has arrived nothing else has happened on it.
StatusFirst ==
    probe.st # "over" => /\ ~auth.loaded /\ login = "none" /\ logout = "none"
                         /\ \A c \in Calls : call[c].st = "none"

\* What an answer under way says of the cookie that the browser still has.
AnswersKnowCookie ==
    /\ probe.st = "answered" /\ cookie.ok => probe.authenticated
    /\ \A c \in Calls : /\ call[c].same => (call[c].ok <=> cookie.ok)
                        /\ call[c].st = "401" => ~call[c].ok

-----------------------------------------------------------------------------
(* The gate.                                                               *)

LEMMA GateIsFinal ==
    ASSUME NEW a \in AuthStates, NEW p \in Paths
    PROVE  Gate(a, p) \in Paths /\ Gate(a, Gate(a, p)) = Gate(a, p)
BY DEF Gate, AuthStates, Paths, Console

LEMMA SnapshotsTyped ==
    /\ InitialState \in AuthStates
    /\ \A r, a, failed \in BOOLEAN : SetState(r, a, failed) \in AuthStates
BY DEF InitialState, SetState, AuthStates

LEMMA RecordsTyped ==
    /\ \A r \in CallStates : /\ [r EXCEPT !.ok = FALSE] \in CallStates
                             /\ [r EXCEPT !.same = FALSE] \in CallStates
                             /\ \A s \in {"ok", "401"} : [r EXCEPT !.st = s] \in CallStates
    /\ \A r \in Cookies : r.ok \in BOOLEAN /\ [r EXCEPT !.ok = FALSE] \in Cookies
    /\ \A r \in Probes : [r EXCEPT !.st = "over"] \in Probes
    /\ \A b \in BOOLEAN : [st |-> "sent", same |-> TRUE, ok |-> b] \in CallStates
    /\ {NoCookie, [has |-> TRUE, ok |-> TRUE], [has |-> TRUE, ok |-> FALSE]} \subseteq Cookies
    /\ NoCall \in CallStates
<1>1. \A r \in CallStates : /\ [r EXCEPT !.ok = FALSE] \in CallStates
                             /\ [r EXCEPT !.same = FALSE] \in CallStates
                             /\ \A s \in {"ok", "401"} : [r EXCEPT !.st = s] \in CallStates
  BY DEF CallStates
<1>2. /\ \A b \in BOOLEAN : [st |-> "sent", same |-> TRUE, ok |-> b] \in CallStates
      /\ NoCall \in CallStates
  BY DEF CallStates, NoCall
<1>3. \A r \in Cookies : r.ok \in BOOLEAN /\ [r EXCEPT !.ok = FALSE] \in Cookies
  BY DEF Cookies
<1>4. \A r \in Probes : [r EXCEPT !.st = "over"] \in Probes
  BY DEF Probes
<1>5. {NoCookie, [has |-> TRUE, ok |-> TRUE], [has |-> TRUE, ok |-> FALSE]} \subseteq Cookies
  BY DEF Cookies, NoCookie
<1> QED BY <1>1, <1>2, <1>3, <1>4, <1>5

\* The fields of an overwritten record.
LEMMA RecordsUpdated ==
    /\ \A r \in CallStates : LET q == [r EXCEPT !.ok = FALSE] IN q.st = r.st /\ q.same = r.same /\ q.ok = FALSE
    /\ \A r \in CallStates : LET q == [r EXCEPT !.same = FALSE] IN q.st = r.st /\ q.same = FALSE /\ q.ok = r.ok
    /\ \A r \in CallStates, s \in {"ok", "401"} :
          LET q == [r EXCEPT !.st = s] IN q.st = s /\ q.same = r.same /\ q.ok = r.ok
    /\ \A r \in Cookies : [r EXCEPT !.ok = FALSE].ok = FALSE
    /\ \A r \in Probes : [r EXCEPT !.st = "over"].st = "over"
BY DEF CallStates, Cookies, Probes

\* A request of an older process or an expired cookie keeps its state.
LEMMA CookieDies ==
    ASSUME Types, Start \/ Expire
    PROVE  /\ ~cookie'.ok /\ probe' = probe
           /\ \A c \in Calls : /\ call'[c].st = call[c].st /\ (call'[c].ok => call[c].ok)
                               /\ call'[c].same => ~call'[c].ok
<1> USE DEF Types
<1>1. CASE Start
  <2>1. ~cookie'.ok /\ probe' = probe
    BY <1>1, RecordsUpdated DEF Start
  <2>2. ASSUME NEW c \in Calls PROVE call'[c].st = call[c].st /\ call'[c].ok = FALSE
    BY <1>1, RecordsUpdated DEF Start
  <2> QED BY <2>1, <2>2
<1>2. CASE Expire
  <2>1. ~cookie'.ok /\ probe' = probe
    BY <1>2, RecordsUpdated DEF Expire
  <2>2. ASSUME NEW c \in Calls, call[c].same PROVE call'[c].st = call[c].st /\ call'[c].ok = FALSE
    BY <1>2, <2>2, RecordsUpdated DEF Expire
  <2>3. ASSUME NEW c \in Calls, ~call[c].same PROVE call'[c] = call[c]
    BY <1>2, <2>3 DEF Expire
  <2> QED BY <2>1, <2>2, <2>3
<1> QED BY <1>1, <1>2

-----------------------------------------------------------------------------
(* Types and the route.                                                    *)

\* What every step does to the snapshot and the route: both stay, or the gate
\* renders a snapshot at a route, or the page is loaded.
LEMMA StepsRender ==
    ASSUME Types, OnScreen, [Next]_vars
    PROVE  \/ UNCHANGED <<auth, path>>
           \/ \E a \in AuthStates, p \in Paths : auth' = a /\ path' = Gate(a, p)
           \/ auth' = InitialState /\ path' \in Paths
<1> DEFINE Goal == \/ UNCHANGED <<auth, path>>
                   \/ \E a \in AuthStates, p \in Paths : auth' = a /\ path' = Gate(a, p)
                   \/ auth' = InitialState /\ path' \in Paths
<1> USE DEF Types
<1>0. /\ auth.required \in BOOLEAN /\ auth.probeFailed \in BOOLEAN
      /\ probe.required \in BOOLEAN /\ probe.authenticated \in BOOLEAN
  BY DEF AuthStates, Probes
<1>1. /\ \A p \in {"/login", "/dashboard"} : p \in Paths
      /\ path \in Paths
  BY DEF Paths, Console
<1>2. CASE Probing
  <2>1. CASE StatusServed
    BY <2>1 DEF StatusServed
  <2>2. CASE StatusLoaded
    <3>1. SetState(probe.required, probe.authenticated, FALSE) \in AuthStates
      BY <1>0, SnapshotsTyped
    <3> QED BY <2>2, <3>1, <1>1 DEF StatusLoaded, Render
  <2>3. CASE StatusFails
    <3>1. SetState(FALSE, TRUE, TRUE) \in AuthStates
      BY SnapshotsTyped
    <3> QED BY <2>3, <3>1, <1>1 DEF StatusFails, Render
  <2> QED BY <1>2, <2>1, <2>2, <2>3 DEF Probing
<1>3. CASE Reload
  BY <1>3 DEF Reload
<1>4. CASE Navigate
  BY <1>4 DEF Navigate
<1>5. CASE LoggingIn
  <2>1. CASE LoginServed \/ LoginFails
    BY <2>1 DEF LoginServed, LoginFails
  <2>2. CASE LoginSucceeds
    <3>1. SetState(auth.required, TRUE, FALSE) \in AuthStates
      BY <1>0, SnapshotsTyped
    <3> QED BY <2>2, <3>1, <1>1 DEF LoginSucceeds, Render
  <2> QED BY <1>5, <2>1, <2>2 DEF LoggingIn
<1>6. CASE LogoutReturns
  <2>1. SetState(auth.required, FALSE, auth.probeFailed) \in AuthStates
    BY <1>0, SnapshotsTyped
  <2> QED BY <1>6, <2>1, <1>1 DEF LogoutReturns, Render
<1>7. ASSUME NEW c \in Calls, Ask(c) \/ Calling(c) PROVE Goal
  <2>1. CASE Ask(c) \/ Poll(c) \/ CallServed(c) \/ CallEnds(c)
    BY <2>1 DEF Ask, Poll, Request, CallServed, CallEnds
  <2>2. CASE Unauthorized(c)
    <3>1. SetState(TRUE, FALSE, FALSE) \in AuthStates
      BY SnapshotsTyped
    <3> QED BY <2>2, <3>1, <1>1 DEF Unauthorized, Render
  <2> QED BY <1>7, <2>1, <2>2 DEF Calling
<1>8. CASE Stop \/ Start \/ Expire \/ WindowElapses \/ SubmitRight \/ SubmitWrong \/ Logout \/ UNCHANGED vars
  BY <1>8 DEF Stop, Start, Expire, WindowElapses, SubmitRight, SubmitWrong, Submit, Logout, vars
<1> QED BY <1>2, <1>3, <1>4, <1>5, <1>6, <1>7, <1>8 DEF Next

LEMMA RoutePreserved ==
    ASSUME Types, OnScreen, [Next]_vars
    PROVE  auth' \in AuthStates /\ path' \in Paths /\ OnScreen'
<1>1. CASE UNCHANGED <<auth, path>>
  BY <1>1 DEF Types, OnScreen
<1>2. CASE \E a \in AuthStates, p \in Paths : auth' = a /\ path' = Gate(a, p)
  <2>1. PICK a \in AuthStates, p \in Paths : auth' = a /\ path' = Gate(a, p)
    BY <1>2
  <2> QED BY <2>1, GateIsFinal DEF OnScreen
<1>3. CASE auth' = InitialState /\ path' \in Paths
  BY <1>3, SnapshotsTyped DEF OnScreen, Gate, InitialState
<1> QED BY <1>1, <1>2, <1>3, StepsRender

LEMMA TypesPreserved == Types /\ OnScreen /\ [Next]_vars => Types' /\ OnScreen'
<1> SUFFICES ASSUME Types, OnScreen, [Next]_vars PROVE Types' /\ OnScreen'
  OBVIOUS
<1> DEFINE Others == /\ up' \in BOOLEAN /\ enabled' \in BOOLEAN
                     /\ cookie' \in Cookies /\ probe' \in Probes
                     /\ call' \in [Calls -> CallStates]
<1>1. Others
  <2> USE DEF Types, server
  <2>1. CASE Stop \/ Start \/ Expire \/ WindowElapses
    BY <2>1, RecordsTyped DEF Stop, Start, Expire, WindowElapses
  <2>2. CASE Probing
    <3>1. CASE StatusServed
      BY <3>1, RecordsTyped DEF StatusServed, Probes
    <3>2. CASE StatusLoaded \/ StatusFails
      BY <3>2, RecordsTyped DEF StatusLoaded, StatusFails
    <3> QED BY <2>2, <3>1, <3>2 DEF Probing
  <2>3. CASE Reload \/ Navigate
    <3>1. [st |-> "sent", required |-> FALSE, authenticated |-> FALSE] \in Probes
      BY DEF Probes
    <3> QED BY <2>3, <3>1, RecordsTyped DEF Reload, Navigate
  <2>4. CASE SubmitRight \/ SubmitWrong \/ Logout
    BY <2>4 DEF SubmitRight, SubmitWrong, Submit, Logout
  <2>5. CASE LoggingIn
    <3>1. CASE LoginSucceeds
      <4>1. cookie' \in Cookies
        BY <3>1, RecordsTyped DEF LoginSucceeds
      <4>2. call' \in [Calls -> CallStates]
        BY <3>1, RecordsTyped DEF LoginSucceeds
      <4> QED BY <3>1, <4>1, <4>2 DEF LoginSucceeds
    <3>2. CASE LoginServed \/ LoginFails
      BY <3>2 DEF LoginServed, LoginFails
    <3> QED BY <2>5, <3>1, <3>2 DEF LoggingIn
  <2>6. CASE LogoutReturns
    BY <2>6, RecordsTyped DEF LogoutReturns
  <2>7. ASSUME NEW c \in Calls, Ask(c) \/ Calling(c) PROVE Others
    <3>1. CASE Ask(c) \/ Poll(c) \/ Unauthorized(c) \/ CallEnds(c)
      BY <3>1, RecordsTyped DEF Ask, Poll, Request, Unauthorized, CallEnds
    <3>2. CASE CallServed(c)
      BY <3>2, RecordsTyped DEF CallServed
    <3> QED BY <2>7, <3>1, <3>2 DEF Calling
  <2>8. CASE UNCHANGED vars
    BY <2>8 DEF vars
  <2> QED BY <2>1, <2>2, <2>3, <2>4, <2>5, <2>6, <2>7, <2>8 DEF Next
<1> QED BY <1>1, RoutePreserved DEF Types

LEMMA RouteInvariant == Spec => [](Types /\ OnScreen)
<1>1. Init => Types /\ OnScreen
  <2> SUFFICES ASSUME Init PROVE Types /\ OnScreen
    OBVIOUS
  <2>1. Types
    <3>1. cookie \in Cookies
      <4>1. cookie \in {NoCookie, [has |-> TRUE, ok |-> TRUE], [has |-> TRUE, ok |-> FALSE]}
        BY DEF Init
      <4> QED BY <4>1, RecordsTyped
    <3>2. probe \in Probes
      <4>1. probe = [st |-> "sent", required |-> FALSE, authenticated |-> FALSE]
        BY DEF Init
      <4> QED BY <4>1 DEF Probes
    <3>3. call \in [Calls -> CallStates]
      BY RecordsTyped DEF Init
    <3> QED BY <3>1, <3>2, <3>3, SnapshotsTyped DEF Init, Types
  <2>2. OnScreen
    BY DEF Init, OnScreen, Gate, InitialState
  <2> QED BY <2>1, <2>2
<1> QED BY <1>1, TypesPreserved, PTL DEF Spec

(* The gate of AuthGate.tsx never bounces: whatever answers, redirects,    *)
(* restarts and page loads cross, the route on the screen is one that the  *)
(* gate renders, and a redirect is always the last.                        *)
THEOREM GateNeverBounces == Spec => []GateSettles
<1>1. Types /\ OnScreen => GateSettles
  <2> SUFFICES ASSUME Types, OnScreen PROVE GateSettles
    OBVIOUS
  <2>1. ~auth.required => \A p \in Console : Gate(auth, p) = p
    BY DEF Gate, Console
  <2>2. \A p \in Paths : Gate(auth, Gate(auth, p)) = Gate(auth, p)
    BY GateIsFinal DEF Types
  <2> QED BY <2>1, <2>2 DEF GateSettles, OnScreen
<1> QED BY <1>1, RouteInvariant, PTL

-----------------------------------------------------------------------------
(* What is under way.                                                      *)

LEMMA StatusFirstPreserved == Types /\ StatusFirst /\ [Next]_vars => StatusFirst'
<1> SUFFICES ASSUME Types, StatusFirst, [Next]_vars, probe'.st # "over"
             PROVE  /\ ~auth'.loaded /\ login' = "none" /\ logout' = "none"
                    /\ \A c \in Calls : call'[c].st = "none"
  BY DEF StatusFirst
<1> DEFINE Goal == /\ ~auth'.loaded /\ login' = "none" /\ logout' = "none"
                   /\ \A c \in Calls : call'[c].st = "none"
<1> USE DEF Types
<1>1. CASE Stop \/ WindowElapses \/ UNCHANGED vars
  BY <1>1 DEF StatusFirst, Stop, WindowElapses, vars
<1>2. CASE Start \/ Expire
  BY <1>2, CookieDies DEF StatusFirst, Start, Expire
<1>3. CASE Probing
  <2>1. CASE StatusServed
    BY <2>1 DEF StatusFirst, StatusServed
  <2>2. CASE StatusLoaded \/ StatusFails
    BY <2>2, RecordsUpdated DEF StatusLoaded, StatusFails
  <2> QED BY <1>3, <2>1, <2>2 DEF Probing
<1>4. CASE Reload
  BY <1>4 DEF Reload, InitialState, NoCall
<1>5. CASE Navigate \/ SubmitRight \/ SubmitWrong \/ Logout
  BY <1>5 DEF StatusFirst, Navigate, SubmitRight, SubmitWrong, Submit, Form, Logout
<1>6. CASE LoggingIn \/ LogoutReturns
  BY <1>6 DEF StatusFirst, LoggingIn, LoginServed, LoginSucceeds, LoginFails, LogoutReturns
<1>7. ASSUME NEW c \in Calls, Ask(c) \/ Calling(c) PROVE Goal
  BY <1>7 DEF StatusFirst, Ask, Calling, Poll, Request, CallServed, Unauthorized, CallEnds
<1> QED BY <1>1, <1>2, <1>3, <1>4, <1>5, <1>6, <1>7 DEF Next

\* A logout is asked for by a console that knows of a password.
LogoutAsked == logout = "sent" => auth.required

LEMMA LogoutAskedPreserved == StatusFirst /\ LogoutAsked /\ [Next]_vars => LogoutAsked'
<1> SUFFICES ASSUME StatusFirst, LogoutAsked, [Next]_vars, logout' = "sent" PROVE auth'.required
  BY DEF LogoutAsked
<1> USE DEF StatusFirst, LogoutAsked, Render, SetState
<1>1. CASE Stop \/ Start \/ Expire \/ WindowElapses \/ Navigate \/ UNCHANGED vars
  BY <1>1 DEF Stop, Start, Expire, WindowElapses, Navigate, vars
<1>2. CASE Probing \/ Reload
  BY <1>2 DEF Probing, StatusServed, StatusLoaded, StatusFails, Reload
<1>3. CASE SubmitRight \/ SubmitWrong \/ Logout \/ LogoutReturns
  BY <1>3 DEF SubmitRight, SubmitWrong, Submit, Logout, LogoutReturns
<1>4. CASE LoggingIn
  BY <1>4 DEF LoggingIn, LoginServed, LoginSucceeds, LoginFails
<1>5. ASSUME NEW c \in Calls, Ask(c) \/ Calling(c) PROVE auth'.required
  BY <1>5 DEF Ask, Calling, Poll, Request, CallServed, Unauthorized, CallEnds
<1> QED BY <1>1, <1>2, <1>3, <1>4, <1>5 DEF Next

LEMMA CookiePreserved == Types /\ StatusFirst /\ AnswersKnowCookie /\ [Next]_vars => AnswersKnowCookie'
<1> SUFFICES ASSUME Types, StatusFirst, AnswersKnowCookie, [Next]_vars PROVE AnswersKnowCookie'
  OBVIOUS
<1> USE DEF Types, AnswersKnowCookie
<1>1. CASE Stop \/ WindowElapses \/ Navigate \/ SubmitRight \/ SubmitWrong \/ Logout \/ UNCHANGED vars
  BY <1>1 DEF Stop, WindowElapses, Navigate, SubmitRight, SubmitWrong, Submit, Logout, vars
<1>2. CASE Start \/ Expire
  BY <1>2, CookieDies
<1>3. CASE Probing
  <2>1. CASE StatusServed
    BY <2>1 DEF StatusServed
  <2>2. CASE StatusLoaded \/ StatusFails
    <3>1. probe' = [probe EXCEPT !.st = "over"] /\ cookie' = cookie /\ call' = call
      BY <2>2 DEF StatusLoaded, StatusFails
    <3>2. probe'.st = "over"
      BY <3>1, RecordsUpdated
    <3> QED BY <3>1, <3>2
  <2> QED BY <1>3, <2>1, <2>2 DEF Probing
<1>4. CASE Reload
  BY <1>4 DEF Reload, NoCall
<1>5. CASE LoginServed \/ LoginFails
  BY <1>5 DEF LoginServed, LoginFails
<1>6. CASE LoginSucceeds \/ LogoutReturns
  <2>1. probe.st = "over" /\ probe' = probe
    BY <1>6 DEF StatusFirst, LoginSucceeds, LogoutReturns
  <2>2. \/ cookie' = cookie /\ call' = call
        \/ call' = [c \in Calls |-> [call[c] EXCEPT !.same = FALSE]]
    BY <1>6 DEF LoginSucceeds, LogoutReturns
  <2>3. CASE call' = [c \in Calls |-> [call[c] EXCEPT !.same = FALSE]]
    <3>1. ASSUME NEW c \in Calls
          PROVE  call'[c].st = call[c].st /\ call'[c].ok = call[c].ok /\ ~call'[c].same
      BY <2>3, RecordsUpdated
    <3> QED BY <2>1, <3>1
  <2> QED BY <2>1, <2>2, <2>3
<1>7. ASSUME NEW c \in Calls, Ask(c) \/ Calling(c) PROVE AnswersKnowCookie'
  <2>1. CASE CallServed(c)
    BY <2>1, RecordsUpdated DEF CallServed
  <2>2. CASE Ask(c) \/ Poll(c)
    <3>1. cookie' = cookie /\ probe' = probe
      BY <2>2 DEF Ask, Poll, Request
    <3>2. /\ call'[c].st = "sent" /\ (call'[c].ok <=> cookie.ok)
          /\ \A d \in Calls \ {c} : call'[d] = call[d]
      BY <2>2 DEF Ask, Poll, Request
    <3> QED BY <3>1, <3>2
  <2>3. CASE Unauthorized(c) \/ CallEnds(c)
    <3>1. cookie' = cookie /\ probe' = probe
      BY <2>3 DEF Unauthorized, CallEnds
    <3>2. call'[c] = NoCall /\ \A d \in Calls \ {c} : call'[d] = call[d]
      BY <2>3 DEF Unauthorized, CallEnds
    <3>3. NoCall.same = FALSE /\ NoCall.st = "none"
      BY DEF NoCall
    <3> QED BY <3>1, <3>2, <3>3
  <2> QED BY <1>7, <2>1, <2>2, <2>3 DEF Calling
<1> QED BY <1>1, <1>2, <1>3, <1>4, <1>5, <1>6, <1>7 DEF Next, LoggingIn

UnderWay == Types /\ OnScreen /\ StatusFirst /\ LogoutAsked /\ AnswersKnowCookie

LEMMA UnderWayInvariant == Spec => []UnderWay
<1>1. Init => StatusFirst /\ LogoutAsked /\ AnswersKnowCookie
  BY DEF Init, StatusFirst, LogoutAsked, AnswersKnowCookie, InitialState, NoCall
<1> QED BY <1>1, RouteInvariant, StatusFirstPreserved, LogoutAskedPreserved, CookiePreserved, PTL
        DEF Spec, UnderWay

-----------------------------------------------------------------------------
(* The two promises about steps.                                           *)

(* A logout ends at the form whatever its request does, and no late answer *)
(* opens the console again: only a login or a page load does (logout and   *)
(* markUnauthenticated of useAuth.ts with AuthGate.tsx).                   *)
THEOREM LogoutHolds == Spec => LogoutStays
<1> DEFINE Step == /\ LogoutReturns => path' = "/login"
                   /\ auth.loaded /\ auth.required /\ ~auth.authenticated /\ path' \in Console
                         => LoginSucceeds \/ Reload
<1>1. ASSUME UnderWay, [Next]_vars PROVE [Step]_vars
  <2> USE <1>1 DEF UnderWay
  <2>1. LogoutReturns => path' = "/login"
    BY DEF LogoutAsked, LogoutReturns, Render, Gate, SetState
  <2>2. ASSUME auth.loaded, auth.required, ~auth.authenticated, path' \in Console, ~(LoginSucceeds \/ Reload)
        PROVE  FALSE
    <3>1. path \notin Console
      BY <2>2 DEF OnScreen, Gate, Console
    <3>2. ~Probing
      BY <2>2, <3>1 DEF StatusFirst, Probing, StatusServed, StatusLoaded, StatusFails
    <3>3. ~Navigate
      BY <2>2 DEF Navigate, Gate, Console
    <3>4. ~LogoutReturns
      BY <2>1, <2>2 DEF Console
    <3>5. ~(\E c \in Calls : Ask(c) \/ Calling(c))
      BY <2>2, <3>1 DEF Ask, Calling, Poll, Request, CallServed, CallEnds, Unauthorized, Render, Gate,
                        SetState, Console
    <3>6. ~(LoggingIn \/ SubmitRight \/ SubmitWrong \/ Logout)
      BY <2>2, <3>1 DEF LoggingIn, LoginServed, LoginFails, SubmitRight, SubmitWrong, Submit, Logout
    <3>7. ~(Stop \/ Start \/ Expire \/ WindowElapses \/ UNCHANGED vars)
      BY <2>2, <3>1 DEF Stop, Start, Expire, WindowElapses, vars
    <3> QED BY <1>1, <2>2, <3>2, <3>3, <3>4, <3>5, <3>6, <3>7 DEF Next
  <2> QED BY <2>1, <2>2
<1> QED BY <1>1, UnderWayInvariant, PTL DEF Spec, LogoutStays

(* Nobody with a valid session is sent from the console to the form, but   *)
(* by the own logout or by the late 401 of an older cookie: neither a late *)
(* status answer nor a login under way does it (useAuth.ts, http.ts).      *)
THEOREM SessionStaysIn == Spec => StaysIn
<1> DEFINE Step == path \in Console /\ path' = "/login" /\ cookie.ok /\ enabled =>
                      Navigate \/ Reload \/ LogoutReturns \/ \E c \in Calls : Unauthorized(c) /\ ~call[c].same
<1>1. ASSUME UnderWay, [Next]_vars PROVE Step
  <2> SUFFICES ASSUME path \in Console, path' = "/login", cookie.ok, ~Navigate, ~Reload, ~LogoutReturns
               PROVE  \E c \in Calls : Unauthorized(c) /\ ~call[c].same
    OBVIOUS
  <2> USE <1>1 DEF UnderWay
  <2>1. ~Probing
    BY DEF AnswersKnowCookie, Probing, StatusServed, StatusLoaded, StatusFails, Render, Gate, SetState, Console
  <2>2. ~LoggingIn
    BY DEF LoggingIn, LoginServed, LoginSucceeds, LoginFails, Render, Gate, SetState, Console
  <2>3. ~(Stop \/ Start \/ Expire \/ WindowElapses \/ SubmitRight \/ SubmitWrong \/ Logout \/ UNCHANGED vars)
    BY DEF Stop, Start, Expire, WindowElapses, SubmitRight, SubmitWrong, Submit, Logout, vars, Console
  <2>4. PICK c \in Calls : Ask(c) \/ Calling(c)
    BY <2>1, <2>2, <2>3 DEF Next
  <2>5. Unauthorized(c)
    BY <2>4 DEF Ask, Calling, Poll, Request, CallServed, CallEnds, Console
  <2>6. ~call[c].same
    BY <2>5 DEF AnswersKnowCookie, Unauthorized
  <2> QED BY <2>5, <2>6
<1>2. Spec => [][Step]_vars
  BY <1>1, UnderWayInvariant, PTL DEF Spec
<1> QED BY <1>2 DEF StaysIn

-----------------------------------------------------------------------------
(* The pages that follow the login.                                        *)

States == LoginStates \cup {"idle"}
Parts == {"status", "logs", "total"}
StatusAnswers == [st : {"none", "sent", "ok", "failed"}, ver : Nat, state : States]
Polls == [initial : BOOLEAN, status : StatusAnswers, logs : StatusAnswers, total : StatusAnswers]
Snapshots == [mode : {"connecting", "live", "demo"}, state : States, ver : Nat, logs : Nat, total : Nat]

LiveTypes ==
    /\ ver \in Nat \ {0} /\ wechat \in LoginStates /\ page \in Pages
    /\ snap \in Snapshots /\ seen \in Nat
    /\ timer \in BOOLEAN /\ polls \in [Slots -> Polls]

\* An answer is of a version the service had, no older than what is on the screen.
AnswersInv == \A s \in Slots :
    /\ \A part \in Parts : /\ polls[s][part].ver <= ver
                           /\ polls[s][part].st # "ok" => polls[s][part].ver = 0
    /\ polls[s].status.st = "ok" => seen <= polls[s].status.ver /\ polls[s].status.ver > 0
                                    /\ polls[s].status.state \in LoginStates

\* One poll at a time, and none while the timer runs.
OnePoll ==
    /\ \A s, t \in Slots : InFlight(s) /\ InFlight(t) => s = t
    /\ timer => \A s \in Slots : ~InFlight(s)

\* The screen is live with the newest answer, or shows no version at all.
ScreenInv ==
    /\ seen <= ver /\ snap.logs <= ver /\ snap.total <= ver
    /\ snap.mode = "live" => snap.ver = seen /\ seen > 0
    /\ snap.mode # "live" => snap.ver = 0 /\ snap.state \in {"idle", "waiting_scan"}
    /\ page = "dashboard" /\ seen > 0 => snap.mode = "live"
    /\ snap.mode = "connecting" => seen = 0

\* Polls and snapshots, a part at a time.
LEMMA PartUpdated ==
    ASSUME NEW r \in Polls, NEW part \in Parts, NEW a \in StatusAnswers
    PROVE  /\ [r EXCEPT ![part] = a] \in Polls
           /\ [r EXCEPT ![part] = a][part] = a
           /\ \A other \in Parts \ {part} : [r EXCEPT ![part] = a][other] = r[other]
BY DEF Polls, Parts

LEMMA PartsAre ==
    ASSUME NEW r \in Polls
    PROVE  /\ r["status"] = r.status /\ r["logs"] = r.logs /\ r["total"] = r.total
           /\ \A part \in Parts : r[part] \in StatusAnswers
BY DEF Polls, Parts

LEMMA NewPolls ==
    /\ \A p \in Pages, b \in BOOLEAN :
         /\ NewPoll(p, b) \in Polls /\ NewPoll(p, b).status.st = "sent"
         /\ \A part \in Parts : NewPoll(p, b)[part].ver = 0 /\ NewPoll(p, b)[part].st \in {"none", "sent"}
    /\ NoPoll \in Polls /\ NoPoll.status.st = "none"
    /\ \A part \in Parts : NoPoll[part].ver = 0 /\ NoPoll[part].st = "none"
<1>1. /\ Asked \in StatusAnswers /\ Asked.st = "sent" /\ Asked.ver = 0
      /\ NotAsked \in StatusAnswers /\ NotAsked.st = "none" /\ NotAsked.ver = 0
  BY DEF Asked, NotAsked, StatusAnswers, States
<1> HIDE DEF Asked, NotAsked
<1>2. \A p \in Pages, b \in BOOLEAN :
         /\ NewPoll(p, b) \in Polls /\ NewPoll(p, b).status = Asked
         /\ \A part \in Parts : NewPoll(p, b)[part] \in {Asked, NotAsked}
  BY <1>1 DEF NewPoll, Polls, Parts
<1>3. /\ NoPoll \in Polls /\ NoPoll.status = NotAsked
      /\ \A part \in Parts : NoPoll[part] = NotAsked
  BY <1>1 DEF NoPoll, Polls, Parts
<1> QED BY <1>1, <1>2, <1>3

Updated(old, m, st, new) == [old EXCEPT !.mode = m, !.state = st, !.ver = new]

LEMMA SnapshotUpdated ==
    ASSUME NEW old \in Snapshots, NEW m \in {"connecting", "live", "demo"}, NEW st \in States, NEW new \in Nat
    PROVE  /\ Updated(old, m, st, new) \in Snapshots
           /\ Updated(old, m, st, new).mode = m /\ Updated(old, m, st, new).state = st
           /\ Updated(old, m, st, new).ver = new
           /\ Updated(old, m, st, new).logs = old.logs /\ Updated(old, m, st, new).total = old.total
BY DEF Snapshots, Updated

\* What the screen says follows from where its snapshot came from.
LEMMA ScreenIsHonest ==
    ASSUME LiveAssumption, LiveTypes, ScreenInv
    PROVE  HonestScreen
<1>1. /\ snap.mode \in {"connecting", "live", "demo"} /\ seen \in Nat
      /\ snap.ver \in Nat /\ snap.logs \in Nat /\ snap.total \in Nat
  BY DEF LiveTypes, Snapshots
<1>2. ASSUME page = "dashboard", seen > 0
      PROVE  /\ snap.mode = "live" /\ snap.ver = seen
             /\ \A part \in DOMAIN Shown : Shown[part] # Demo /\ Shown[part] <= ver
  <2>1. snap.mode = "live" /\ snap.ver = seen /\ seen <= ver /\ snap.logs <= ver /\ snap.total <= ver
    BY <1>2 DEF ScreenInv
  <2>2. Shown = [sessions |-> snap.ver, total |-> snap.total, logs |-> snap.logs,
                 uptime |-> snap.ver, provider |-> snap.ver]
    BY <2>1 DEF Shown
  <2>3. \A v \in {snap.ver, snap.total, snap.logs} : v # Demo /\ v <= ver
    BY <1>1, <2>1 DEF Demo
  <2>4. \A part \in DOMAIN Shown : Shown[part] \in {snap.ver, snap.total, snap.logs}
    BY <2>2
  <2> QED BY <2>1, <2>3, <2>4
<1>3. snap.ver \in {0, seen} /\ (snap.ver = 0 => Button = "disabled" /\ Copy \notin LoginStates)
  <2>1. CASE snap.mode = "live"
    BY <1>1, <2>1 DEF ScreenInv
  <2>2. CASE snap.mode # "live"
    <3>1. snap.ver = 0 /\ snap.state \in {"idle", "waiting_scan"} /\ Copy \in {"connecting", "demo"}
      BY <1>1, <2>2 DEF ScreenInv, Copy
    <3>2. Button = "disabled"
      BY <3>1 DEF Button
    <3> QED BY <3>1, <3>2 DEF LiveAssumption
  <2> QED BY <2>1, <2>2
<1>4. Button = "enter" \/ (snap.mode # "connecting" /\ ~OfflineNote) => snap.ver > 0
  <2>1. snap.mode = "live" => snap.ver > 0
    BY DEF ScreenInv
  <2>2. snap.mode # "live" => Button # "enter" /\ Wechat # "brand"
    BY DEF ScreenInv, Button, Wechat
  <2> QED BY <2>1, <2>2 DEF OfflineNote
<1> QED BY <1>2, <1>3, <1>4 DEF HonestScreen

-----------------------------------------------------------------------------
LiveIInv == LiveTypes /\ AnswersInv /\ OnePoll /\ ScreenInv

(* The service moves on; a page's requests are untouched.                  *)
LEMMA ServiceMoves ==
    ASSUME LiveAssumption, LiveIInv, UNCHANGED <<screen, timer, polls>>,
           wechat' \in LoginStates, ver' \in {ver, ver + 1}
    PROVE  LiveIInv'
<1> USE DEF LiveIInv
<1>1. ver \in Nat \ {0} /\ ver' \in Nat \ {0} /\ ver <= ver'
  BY DEF LiveTypes
<1>2. UNCHANGED <<page, snap, seen, timer, polls>>
  BY DEF screen
<1>3. LiveTypes'
  BY <1>1, <1>2 DEF LiveTypes
<1>4. ScreenInv'
  <2>1. seen \in Nat /\ snap.logs \in Nat /\ snap.total \in Nat
    BY DEF LiveTypes, Snapshots
  <2> QED BY <1>1, <1>2, <2>1 DEF ScreenInv
<1>5. AnswersInv'
  <2>1. \A s \in Slots, part \in Parts : polls[s][part].ver \in Nat
    BY PartsAre DEF LiveTypes, StatusAnswers
  <2> QED BY <1>1, <1>2, <2>1 DEF AnswersInv
<1>6. OnePoll'
  BY <1>2 DEF OnePoll, InFlight
<1> QED BY <1>3, <1>4, <1>5, <1>6

(* A part of a poll is answered or fails.                                  *)
LEMMA PartAnswered ==
    ASSUME LiveAssumption, LiveIInv, NEW s \in Slots, PartServed(s) \/ PartFails(s)
    PROVE  LiveIInv'
<1> USE DEF LiveIInv
<1>1. PICK part \in Parts, a \in StatusAnswers :
        /\ Answer(s, part, a)
        /\ \/ a.st = "ok" /\ a.ver = ver /\ a.state = wechat
           \/ a.st = "failed" /\ a.ver = 0
  <2>1. /\ [st |-> "ok", ver |-> ver, state |-> wechat] \in StatusAnswers
        /\ [Asked EXCEPT !.st = "failed"] \in StatusAnswers
        /\ [Asked EXCEPT !.st = "failed"].st = "failed" /\ [Asked EXCEPT !.st = "failed"].ver = 0
    BY DEF LiveTypes, StatusAnswers, States, Asked
  <2> QED BY <2>1 DEF PartServed, PartFails, Parts
<1>2. /\ UNCHANGED <<ver, wechat, page, snap, seen, timer>> /\ polls[s][part].st = "sent"
      /\ polls' = [polls EXCEPT ![s] = [polls[s] EXCEPT ![part] = a]]
  BY <1>1 DEF Answer, service, screen
<1>3. /\ polls' \in [Slots -> Polls] /\ polls[s] \in Polls
      /\ polls'[s] = [polls[s] EXCEPT ![part] = a] /\ \A t \in Slots \ {s} : polls'[t] = polls[t]
  <2>1. polls \in [Slots -> Polls] /\ [polls[s] EXCEPT ![part] = a] \in Polls
    BY PartUpdated DEF LiveTypes
  <2> QED BY <1>2, <2>1
<1>4. polls'[s][part] = a /\ \A other \in Parts \ {part} : polls'[s][other] = polls[s][other]
  BY <1>3, PartUpdated
<1>5. /\ \A t \in Slots : /\ polls[t] \in Polls /\ polls'[t] \in Polls
                          /\ polls[t]["status"] = polls[t].status /\ polls'[t]["status"] = polls'[t].status
  BY <1>3, PartsAre DEF LiveTypes
<1>6. LiveTypes' /\ ScreenInv'
  BY <1>2, <1>3 DEF LiveTypes, ScreenInv
<1>7. OnePoll'
  <2>1. \A t \in Slots : InFlight(t)' <=> InFlight(t)
    BY <1>1, <1>2, <1>3, <1>4, <1>5 DEF InFlight, Parts
  <2> QED BY <1>2, <2>1 DEF OnePoll
<1>8. AnswersInv'
  <2>1. ver \in Nat \ {0} /\ wechat \in LoginStates /\ seen \in Nat /\ seen <= ver
    BY DEF LiveTypes, ScreenInv
  <2>2. /\ \A other \in Parts : /\ polls'[s][other].ver <= ver
                                /\ polls'[s][other].st # "ok" => polls'[s][other].ver = 0
    BY <1>1, <1>4, <2>1 DEF AnswersInv
  <2>3. polls'[s].status.st = "ok" => /\ seen <= polls'[s].status.ver /\ polls'[s].status.ver > 0
                                      /\ polls'[s].status.state \in LoginStates
    <3>1. CASE part = "status"
      BY <1>1, <1>4, <1>5, <2>1, <3>1
    <3>2. CASE part # "status"
      <4>1. polls'[s].status = polls[s].status
        BY <1>4, <1>5, <3>2 DEF Parts
      <4> QED BY <4>1 DEF AnswersInv
    <3> QED BY <3>1, <3>2
  <2> QED BY <1>2, <1>3, <2>2, <2>3 DEF AnswersInv
<1> QED BY <1>6, <1>7, <1>8

(* A poll starts when no other is in flight.                               *)
LEMMA PollStarted ==
    ASSUME LiveAssumption, LiveIInv, NEW s \in Slots, PollStarts(s)
    PROVE  LiveIInv'
<1> USE DEF LiveIInv
<1> DEFINE r == NewPoll(page, FALSE)
<1>1. /\ UNCHANGED <<ver, wechat, page, snap, seen>> /\ timer /\ timer' = FALSE
      /\ polls' = [polls EXCEPT ![s] = r]
  BY DEF PollStarts, service, screen
<1>2. /\ r \in Polls /\ r.status.st = "sent"
      /\ \A part \in Parts : r[part].ver = 0 /\ r[part].st \in {"none", "sent"}
  BY NewPolls DEF LiveTypes
<1> HIDE DEF r
<1>3. polls' \in [Slots -> Polls] /\ polls'[s] = r /\ \A t \in Slots \ {s} : polls'[t] = polls[t]
  BY <1>1, <1>2 DEF LiveTypes
<1>4. LiveTypes' /\ ScreenInv'
  BY <1>1, <1>3 DEF LiveTypes, ScreenInv
<1>5. AnswersInv'
  <2>1. ver \in Nat
    BY DEF LiveTypes
  <2> QED BY <1>1, <1>2, <1>3, <2>1 DEF AnswersInv
<1>6. OnePoll'
  BY <1>1, <1>3 DEF OnePoll, InFlight
<1> QED BY <1>4, <1>5, <1>6

(* A poll is delivered: the only one, and no older than the screen.        *)
LEMMA PollDelivered ==
    ASSUME LiveAssumption, LiveIInv, NEW s \in Slots, WelcomePolled(s) \/ DashboardPolled(s)
    PROVE  LiveIInv'
<1> USE DEF LiveIInv
<1> DEFINE r == polls[s]
<1>1. /\ UNCHANGED <<ver, wechat, page>> /\ Settled(s)
      /\ timer' = TRUE /\ polls' = [polls EXCEPT ![s] = NoPoll]
      /\ seen' = IF r.status.ver > seen THEN r.status.ver ELSE seen
  BY DEF WelcomePolled, DashboardPolled, PollOver, SetTimer, service
<1>2. /\ r \in Polls /\ r.status \in StatusAnswers /\ r.logs \in StatusAnswers /\ r.total \in StatusAnswers
      /\ r.status.ver \in Nat /\ r.logs.ver \in Nat /\ r.total.ver \in Nat /\ r.status.state \in States
      /\ r.status.ver <= ver /\ r.logs.ver <= ver /\ r.total.ver <= ver
      /\ r.status.st # "ok" => r.status.ver = 0
      /\ r.status.st = "ok" => seen <= r.status.ver /\ r.status.ver > 0
  <2>1. r \in Polls /\ r.status \in StatusAnswers /\ r.logs \in StatusAnswers /\ r.total \in StatusAnswers
    BY DEF LiveTypes, Polls
  <2>2. r["status"] = r.status /\ r["logs"] = r.logs /\ r["total"] = r.total
    BY <2>1, PartsAre
  <2>3. \A part \in Parts : r[part].ver <= ver /\ (r[part].st # "ok" => r[part].ver = 0)
    BY DEF AnswersInv
  <2>4. r.status.st = "ok" => seen <= r.status.ver /\ r.status.ver > 0
    BY DEF AnswersInv
  <2>5. r.status.ver \in Nat /\ r.logs.ver \in Nat /\ r.total.ver \in Nat /\ r.status.state \in States
    BY <2>1 DEF StatusAnswers
  <2> QED BY <2>1, <2>2, <2>3, <2>4, <2>5 DEF Parts
<1>3. /\ polls' \in [Slots -> Polls] /\ polls'[s] = NoPoll /\ \A t \in Slots \ {s} : polls'[t] = polls[t]
  BY <1>1, NewPolls DEF LiveTypes
<1>4. OnePoll'
  <2>1. InFlight(s) /\ \A t \in Slots : InFlight(t) => t = s
    BY <1>1 DEF Settled, OnePoll
  <2>2. \A t \in Slots : ~InFlight(t)'
    BY <1>3, <2>1, NewPolls DEF InFlight
  <2> QED BY <2>2 DEF OnePoll
<1>5. AnswersInv'
  <2>1. ver \in Nat /\ \A part \in Parts : NoPoll[part].ver = 0
    BY NewPolls DEF LiveTypes
  <2>2. \A t \in Slots \ {s} : polls[t].status.st = "none"
    BY <1>1 DEF Settled, OnePoll, InFlight
  <2> QED BY <1>1, <1>3, <2>1, <2>2, NewPolls DEF AnswersInv
<1>6. /\ snap \in Snapshots /\ snap.ver \in Nat /\ snap.logs \in Nat /\ snap.total \in Nat
      /\ seen \in Nat /\ ver \in Nat
      /\ snap.mode \in {"connecting", "live", "demo"} /\ snap.logs <= ver /\ snap.total <= ver /\ seen <= ver
  BY DEF LiveTypes, Snapshots, ScreenInv
<1> HIDE DEF r
<1>7. /\ seen' \in Nat /\ seen' <= ver
      /\ r.status.st = "ok" => seen' = r.status.ver
      /\ r.status.st # "ok" => seen' = seen
  BY <1>1, <1>2, <1>6
<1>8. ASSUME WelcomePolled(s) PROVE snap' \in Snapshots /\ ScreenInv'
  <2>0. page = "welcome" /\ page' = page
    BY <1>1, <1>8 DEF WelcomePolled
  <2>1. CASE r.status.st = "ok"
    <3>1. snap' = Updated(snap, "live", r.status.state, r.status.ver)
      BY <1>8, <2>1 DEF WelcomePolled, Updated, r
    <3>2. /\ snap' \in Snapshots /\ snap'.mode = "live" /\ snap'.ver = r.status.ver
          /\ snap'.logs = snap.logs /\ snap'.total = snap.total
      <4> HIDE DEF LiveIInv
      <4>1. snap \in Snapshots /\ "live" \in {"connecting", "live", "demo"}
        BY <1>6
      <4>2. PICK w \in States, v \in Nat : w = r.status.state /\ v = r.status.ver
        BY <1>2
      <4> DEFINE u == Updated(snap, "live", w, v)
      <4>3. u \in Snapshots /\ u.mode = "live" /\ u.ver = v /\ u.logs = snap.logs /\ u.total = snap.total
        BY <4>1, SnapshotUpdated
      <4> QED BY <3>1, <4>2, <4>3
    <3> QED BY <1>1, <1>2, <1>6, <1>7, <2>0, <2>1, <3>2 DEF ScreenInv
  <2>2. CASE r.status.st # "ok"
    <3>1. snap' = Updated(snap, "demo", "waiting_scan", 0)
      BY <1>8, <2>2 DEF WelcomePolled, Updated, r
    <3>2. "waiting_scan" \in States
      BY DEF States, LiveAssumption
    <3>3. /\ snap' \in Snapshots /\ snap'.mode = "demo" /\ snap'.ver = 0 /\ snap'.state = "waiting_scan"
          /\ snap'.logs = snap.logs /\ snap'.total = snap.total
      <4> HIDE DEF LiveIInv
      <4>1. snap \in Snapshots /\ 0 \in Nat /\ "demo" \in {"connecting", "live", "demo"}
        BY <1>6
      <4> DEFINE u == Updated(snap, "demo", "waiting_scan", 0)
      <4>2. /\ u \in Snapshots /\ u.mode = "demo" /\ u.ver = 0 /\ u.state = "waiting_scan"
            /\ u.logs = snap.logs /\ u.total = snap.total
        BY <3>2, <4>1, SnapshotUpdated
      <4> QED BY <3>1, <4>2
    <3> QED BY <1>1, <1>2, <1>6, <1>7, <2>0, <2>2, <3>3 DEF ScreenInv
  <2> QED BY <2>1, <2>2
<1>9. ASSUME DashboardPolled(s) PROVE snap' \in Snapshots /\ ScreenInv'
  <2>0. page = "dashboard" /\ page' = page
    BY <1>1, <1>9 DEF DashboardPolled
  <2>1. CASE r.status.st = "ok"
    <3> DEFINE logs == IF r.logs.st = "ok" THEN r.logs.ver ELSE IF r.initial THEN 0 ELSE snap.logs
               count == IF r.total.st = "ok" THEN r.total.ver ELSE snap.total
    <3>1. snap' = [mode |-> "live", state |-> r.status.state, ver |-> r.status.ver, logs |-> logs, total |-> count]
      BY <1>9, <2>1 DEF DashboardPolled, r
    <3>2. logs \in Nat /\ count \in Nat /\ logs <= ver /\ count <= ver
      BY <1>2, <1>6
    <3> HIDE DEF logs, count
    <3>3. /\ snap' \in Snapshots /\ snap'.mode = "live" /\ snap'.ver = r.status.ver
          /\ snap'.logs = logs /\ snap'.total = count
      BY <1>2, <3>1, <3>2 DEF Snapshots
    <3> QED BY <1>1, <1>2, <1>7, <2>0, <2>1, <3>2, <3>3 DEF ScreenInv
  <2>2. CASE r.status.st # "ok"
    <3>1. snap' = IF snap.mode = "connecting" THEN [InitialSnapshot EXCEPT !.mode = "demo"] ELSE snap
      BY <1>9, <2>2 DEF DashboardPolled, r
    <3>2. CASE snap.mode = "connecting"
      <4>1. /\ snap' \in Snapshots /\ snap'.mode = "demo" /\ snap'.ver = 0 /\ snap'.state = "idle"
            /\ snap'.logs = 0 /\ snap'.total = 0
        BY <3>1, <3>2 DEF InitialSnapshot, Snapshots, States
      <4>2. seen = 0
        BY <3>2 DEF ScreenInv
      <4> QED BY <1>1, <1>6, <1>7, <2>0, <2>2, <4>1, <4>2 DEF ScreenInv
    <3>3. CASE snap.mode # "connecting"
      BY <1>1, <1>6, <1>7, <2>0, <2>2, <3>1, <3>3 DEF ScreenInv
    <3> QED BY <3>2, <3>3
  <2> QED BY <2>1, <2>2
<1>10. LiveTypes'
  BY <1>1, <1>3, <1>7, <1>8, <1>9 DEF LiveTypes
<1> QED BY <1>4, <1>5, <1>8, <1>9, <1>10

(* Another page, or the same one anew.                                     *)
JustMounted ==
    /\ ver \in Nat \ {0} /\ wechat \in LoginStates /\ page \in Pages
    /\ snap = InitialSnapshot /\ seen = 0 /\ timer = FALSE
    /\ polls = [s \in Slots |-> IF s = 1 THEN NewPoll(page, TRUE) ELSE NoPoll]

LEMMA Mounted ==
    JustMounted => LiveIInv
<1> SUFFICES ASSUME JustMounted PROVE LiveIInv
  OBVIOUS
<1>0. /\ ver \in Nat \ {0} /\ wechat \in LoginStates /\ page \in Pages
      /\ snap = InitialSnapshot /\ seen = 0 /\ timer = FALSE
  BY DEF JustMounted
<1>1. /\ polls \in [Slots -> Polls]
      /\ \A s \in Slots : /\ polls[s].status.st = IF s = 1 THEN "sent" ELSE "none"
                          /\ \A part \in Parts : polls[s][part].ver = 0
  <2>1. /\ NewPoll(page, TRUE) \in Polls /\ NewPoll(page, TRUE).status.st = "sent"
        /\ NoPoll \in Polls /\ NoPoll.status.st = "none"
        /\ \A part \in Parts : NewPoll(page, TRUE)[part].ver = 0 /\ NoPoll[part].ver = 0
    BY <1>0, NewPolls
  <2> QED BY <2>1 DEF JustMounted
<1>2. /\ snap \in Snapshots /\ snap.mode = "connecting" /\ snap.state = "idle" /\ snap.ver = 0
      /\ snap.logs = 0 /\ snap.total = 0
  BY <1>0 DEF InitialSnapshot, Snapshots, States
<1>3. LiveTypes
  BY <1>0, <1>1, <1>2 DEF LiveTypes
<1>4. AnswersInv
  BY <1>0, <1>1 DEF AnswersInv
<1>5. OnePoll
  BY <1>0, <1>1 DEF OnePoll, InFlight
<1>6. ScreenInv
  BY <1>0, <1>2 DEF ScreenInv
<1> QED BY <1>3, <1>4, <1>5, <1>6 DEF LiveIInv

LEMMA LiveStep ==
    ASSUME LiveAssumption, LiveIInv, [LiveNext]_liveVars
    PROVE  LiveIInv'
<1>1. ver \in Nat \ {0} /\ wechat \in LoginStates
  BY DEF LiveIInv, LiveTypes
<1>2. ASSUME LoginMoves \/ RetryTaken \/ AttemptFails PROVE LiveIInv'
  <2>1. /\ UNCHANGED <<screen, timer, polls>> /\ wechat' \in LoginStates /\ ver' \in {ver, ver + 1}
    BY <1>2 DEF LoginMoves, RetryTaken, AttemptFails, LiveAssumption
  <2> QED BY <2>1, ServiceMoves
<1>3. ASSUME RefreshQr \/ UNCHANGED liveVars \/ \E p \in Pages : Posting(p) PROVE LiveIInv'
  <2>1. /\ UNCHANGED <<screen, timer, polls, ver, wechat>>
    BY <1>3 DEF RefreshQr, liveVars, service, Posting,
                PostServed, PostReturns, PostFails
  <2> QED BY <1>1, <2>1, ServiceMoves
<1>4. ASSUME Leaving PROVE LiveIInv'
  <2>1. PICK p \in Pages : Mount(p) /\ UNCHANGED <<ver, wechat>>
    <3>1. {"welcome", "dashboard"} \subseteq Pages
      BY DEF Pages
    <3> QED BY <1>4, <3>1 DEF Leaving, Goes, EnterWorkspace, RetryLogin, service
  <2>2. JustMounted'
    BY <1>1, <2>1 DEF Mount, JustMounted
  <2>3. JustMounted' => LiveIInv'
    BY Mounted, PTL
  <2> QED BY <2>2, <2>3
<1> QED BY <1>2, <1>3, <1>4, PartAnswered, PollStarted, PollDelivered DEF LiveNext, Polling

(* For any slots, login states and changes of the service: once a status   *)
(* has arrived the dashboard shows nothing made up and the newest answer,  *)
(* and both pages call the login done only if that answer said so.         *)
THEOREM ScreensStayHonest == LiveSpec => []HonestScreen
<1>1. LiveInit => LiveIInv
  <2>1. LiveInit => ver \in Nat \ {0} /\ wechat \in LoginStates
    BY DEF LiveInit
  <2> QED BY <2>1, Mounted, LiveAssumption DEF LiveInit, JustMounted
<1>2. LiveIInv /\ [LiveNext]_liveVars => LiveIInv'
  BY LiveStep, LiveAssumption
<1>3. LiveIInv => HonestScreen
  BY ScreenIsHonest, LiveAssumption DEF LiveIInv
<1> QED BY <1>1, <1>2, <1>3, PTL DEF LiveSpec

-----------------------------------------------------------------------------
(* The chat page.                                                          *)

Answered == [st : {"none", "sent", "counted", "ok", "empty", "failed"}, listed : SUBSET Sessions,
             offset : Nat, ids : SUBSET Nat, total : Nat, top : Nat]
Chains == [kind : {"snapshot", "poll", "timer"}, status : Answered, history : Answered]

PageTypes ==
    /\ n \in Nat /\ total \in Nat /\ asof \in Nat /\ listed \in SUBSET Sessions
    /\ mode \in {"connecting", "demo", "live"} /\ loadedOnce \in BOOLEAN /\ burst \in BOOLEAN
    /\ chain \in Chains /\ more \in Answered

\* What the mode says of the rows.
Held == DOMAIN rows
HeldInv ==
    /\ selected # None => selected \in sessions
    /\ loadedOnce <=> mode # "connecting"
    /\ mode = "connecting" => /\ chain.kind = "snapshot" /\ sessions = {} /\ more.st = "none"
                              /\ Held = {} /\ total = 0 /\ asof = 0
    /\ mode = "demo" => rows = DemoRows /\ total = Cardinality(Held) /\ more.st = "none"
    /\ mode = "live" => total <= n /\ asof <= n /\ \A id \in Held : rows[id] = "server" /\ id \in 1..n

\* Answers are of the table: a page below some head, the newest page for the cycle.
IsPage(a, head) ==
    /\ head <= a.top
    /\ a.ids = {id \in 1..a.top : head - Page < id /\ id <= head} \ Blank
OfTable(a) == /\ a.total <= n /\ a.top <= n /\ a.offset <= n /\ a.ids \subseteq 1..n
              /\ a.st = "empty" => a.ids = {}
TableAnswers ==
    /\ \A a \in {chain.history, more} : OfTable(a)
    /\ chain.history.offset = 0
    /\ chain.history.st = "ok" => IsPage(chain.history, chain.history.top)

\* No hole, and no answer under way that would tear one when it is merged.
NoHole(R) == \A id \in Nat \ Blank : (\E a \in R : a < id) /\ (\E b \in R : id < b) => id \in R
HasAbove(R, head) == \A id \in Nat \ Blank : head < id /\ (\E b \in R : id < b) => id \in R
Joins(a, head) == HasAbove(Held, head) \/ a.top + Page < asof
HistoryJoins == chain.history.st = "ok" => Joins(chain.history, chain.history.top)
MoreJoins ==
    /\ more.st \in Pending => HasAbove(Held, n - more.offset) /\ (Held = {} => more.offset = 0)
    /\ more.st = "ok" => \E head \in Nat : /\ IsPage(more, head) /\ Joins(more, head)
                                           /\ Held = {} => head = more.top
\* Of two answers under way, one is as new as what is shown.
NewerOne == more.st = "ok" /\ chain.history.st = "ok" => more.top >= asof \/ chain.history.top >= asof
HoleInv == mode = "live" /\ ~burst => NoHole(Held) /\ HistoryJoins /\ MoreJoins /\ NewerOne

ThreadInv == PageTypes /\ HeldInv /\ TableAnswers /\ HoleInv

-----------------------------------------------------------------------------
LEMMA Largest ==
    ASSUME NEW R, NEW m \in Nat, R \subseteq 1..m, R # {}
    PROVE  \E top \in R : \A other \in R : other <= top
<1> DEFINE S == {x \in 0..m : \E id \in R : m - id = x}
           Less == OpToRel(<, Nat)
<1>1. \A id \in R : m - id \in S
  OBVIOUS
<1>2. S \subseteq Nat /\ S # {}
  <2>1. PICK id \in R : TRUE
    OBVIOUS
  <2>2. m - id \in S
    BY <1>1
  <2>3. S \subseteq Nat
    OBVIOUS
  <2> QED BY <2>2, <2>3
<1>3. PICK x \in S : \A y \in S : ~(<<y, x>> \in Less)
  <2>1. IsWellFoundedOn(Less, Nat)
    BY NatLessThanWellFounded
  <2> HIDE DEF S, Less
  <2> QED BY <1>2, <2>1, WFMin
<1>4. \A y \in S : ~(y < x)
  BY <1>2, <1>3 DEF OpToRel
<1> QED BY <1>1, <1>4

LEMMA TopIsLargest ==
    ASSUME n \in Nat, Held \subseteq 1..n, Held # {}
    PROVE  Top \in Held /\ Top \in 1..n /\ \A id \in Held : id <= Top
<1>1. \E top \in Held : \A other \in Held : other <= top
  BY Largest
<1> QED BY <1>1 DEF Top, Held

\* Requests and answers that carry nothing.
Empties == {AskedPage, NotAskedPage, FailedPage, EmptyPage}

LEMMA AnswersTyped ==
    /\ Empties \subseteq Answered /\ Timer \in Chains
    /\ \A kind \in {"snapshot", "poll"}, h \in {AskedPage, NotAskedPage} : Cycle(kind, h) \in Chains
    /\ \A a \in Empties : a.offset = 0 /\ a.total = 0 /\ a.top = 0 /\ a.ids = {}
    /\ AskedPage.st = "sent" /\ NotAskedPage.st = "none" /\ FailedPage.st = "failed" /\ EmptyPage.st = "empty"
    /\ Timer.history = NotAskedPage
    /\ \A kind \in {"snapshot", "poll"}, h \in {AskedPage, NotAskedPage} :
         Cycle(kind, h).history = h /\ Cycle(kind, h).kind = kind
<1>1. /\ Empties \subseteq Answered
      /\ \A a \in Empties : a.offset = 0 /\ a.total = 0 /\ a.top = 0 /\ a.ids = {}
      /\ AskedPage.st = "sent" /\ NotAskedPage.st = "none" /\ FailedPage.st = "failed" /\ EmptyPage.st = "empty"
  BY DEF Empties, AskedPage, NotAskedPage, FailedPage, EmptyPage, Answered
<1>2. AskedPage \in Answered /\ NotAskedPage \in Answered
  BY <1>1 DEF Empties
<1> QED BY <1>1, <1>2 DEF Timer, Chains, Cycle

LEMMA PageServed ==
    ASSUME NEW r \in Answered, n \in Nat, r.offset <= n
    PROVE  LET a == HistoryPage(r) IN
           /\ a \in Answered /\ a.st = "ok" /\ (r.total <= n => a.total <= n)
           /\ a.top = n /\ a.offset = r.offset
           /\ IsPage(a, n - r.offset) /\ a.ids \subseteq 1..n
<1> DEFINE ids == {id \in 1..n : n - r.offset - Page < id /\ id <= n - r.offset} \ Blank
           count == IF r.total < Cardinality(ids) THEN Cardinality(ids) ELSE r.total
           a == [r EXCEPT !.st = "ok", !.top = n, !.ids = ids, !.total = count]
<1>1. ids \in SUBSET Nat /\ ids \subseteq 1..n /\ r.offset \in Nat
  BY DEF Answered
<1>0. Cardinality(ids) \in Nat /\ Cardinality(ids) <= n
  <2>1. IsFiniteSet(1..n) /\ Cardinality(1..n) = n
    <3>1. 1 \in Int /\ n \in Int
      OBVIOUS
    <3> QED BY <3>1, FS_Interval
  <2> QED BY <1>1, <2>1, FS_Subset, FS_CardinalityType
<1>2. HistoryPage(r) = a
  BY DEF HistoryPage, Answered
<1>3. /\ a \in Answered /\ a.st = "ok" /\ (r.total <= n => a.total <= n)
      /\ a.top = n /\ a.offset = r.offset /\ a.ids = ids
  <2>1. count \in Nat /\ (r.total <= n => count <= n)
    BY <1>0 DEF Answered
  <2> HIDE DEF ids, count
  <2> QED BY <1>1, <2>1 DEF Answered
<1> HIDE DEF a
<1>4. IsPage(a, n - r.offset)
  BY <1>1, <1>3 DEF IsPage
<1> QED BY <1>1, <1>2, <1>3, <1>4

\* The two queries, and their errors.
LEMMA Queried ==
    ASSUME NEW r \in Answered, n \in Nat, OfTable(r), r.st \in Pending, NEW a, a \in {Query(r), QueryError(r)}
    PROVE  /\ a \in Answered /\ OfTable(a)
           /\ \/ a = HistoryPage(r)
              \/ a.st = "counted" /\ a.offset = r.offset
              \/ a = EmptyPage
<1>1. CASE a = HistoryPage(r)
  <2>1. r.offset <= n /\ r.total <= n
    BY DEF OfTable
  <2> QED BY <1>1, <2>1, PageServed DEF OfTable
<1>2. CASE a = EmptyPage
  BY <1>2, AnswersTyped DEF Empties, OfTable
<1>3. CASE a = [r EXCEPT !.st = "counted", !.total = n] \/ a = [r EXCEPT !.st = "counted"]
  <2>1. /\ a \in Answered /\ a.st = "counted" /\ a.offset = r.offset /\ a.top = r.top /\ a.ids = r.ids
        /\ a.total \in {r.total, n}
    BY <1>3 DEF Answered
  <2> QED BY <2>1 DEF OfTable
<1> QED BY <1>1, <1>2, <1>3 DEF Query, QueryError

(* One page more: the rows a page apart stay without a hole.               *)
LEMMA MergeIsSeamless ==
    ASSUME ThreadAssumption, PageTypes, HeldInv, mode = "live", NEW a \in Answered, NEW head \in Nat,
           IsPage(a, head), NoHole(Held), HasAbove(Held, head), Held # {}, a.top - Top <= Page
    PROVE  /\ NoHole(Held \cup a.ids)
           /\ \A k \in Nat : HasAbove(Held, k) => HasAbove(Held \cup a.ids, k)
<1> DEFINE low == head - Page
<1>1. /\ Page \in Nat \ {0} /\ a.top \in Nat /\ head <= a.top /\ low \in Int
      /\ a.ids = {id \in 1..a.top : low < id /\ id <= head} \ Blank
  BY DEF ThreadAssumption, Answered, IsPage
<1>2. /\ Top \in Held /\ Top \in Nat \ {0} /\ \A id \in Held : id <= Top
      /\ Held \subseteq Nat \ {0}
  BY TopIsLargest DEF PageTypes, HeldInv
<1>3. low <= Top
  BY <1>1, <1>2
<1>4. \A id \in Nat \ Blank : id > 0 /\ low < id /\ id <= head => id \in a.ids
  BY <1>1
<1>5. \A id \in a.ids : low < id /\ id <= head /\ id \in Nat \ {0}
  BY <1>1
<1> HIDE DEF low
<1>6. NoHole(Held \cup a.ids)
  <2> SUFFICES ASSUME NEW id \in Nat \ Blank, NEW x \in Held \cup a.ids, NEW b \in Held \cup a.ids, x < id, id < b
               PROVE  id \in Held \cup a.ids
    BY DEF NoHole
  <2>0. x \in Nat \ {0} /\ b \in Nat \ {0}
    BY <1>2, <1>5
  <2>1. CASE low < id /\ id <= head
    BY <1>4, <2>0, <2>1
  <2>2. CASE id > head
    <3>1. b \in Held
      BY <1>5, <2>0, <2>2
    <3> QED BY <2>2, <3>1 DEF HasAbove
  <2>3. CASE id <= low
    <3>1. x \in Held
      BY <1>1, <1>5, <2>0, <2>3
    <3>2. id <= Top
      BY <1>1, <1>2, <1>3, <2>3
    <3>3. CASE id = Top
      BY <1>2, <3>3
    <3>4. CASE id < Top
      BY <1>2, <3>1, <3>4 DEF NoHole
    <3> QED BY <1>2, <3>2, <3>3, <3>4
  <2> QED BY <1>1, <2>1, <2>2, <2>3
<1>7. ASSUME NEW k \in Nat, HasAbove(Held, k), NEW id \in Nat \ Blank, k < id, NEW b \in Held \cup a.ids, id < b
      PROVE  id \in Held \cup a.ids
  <2>1. CASE \E c \in Held : id < c
    BY <1>7, <2>1 DEF HasAbove
  <2>2. CASE ~ \E c \in Held : id < c
    <3>1. id >= Top /\ id > 0
      BY <1>2, <2>2
    <3>2. b \in a.ids /\ b <= head /\ b \in Nat
      BY <1>5, <1>7, <2>2
    <3>3. id <= head /\ low <= id
      BY <1>1, <1>2, <1>3, <1>7, <3>1, <3>2
    <3>4. CASE low = id
      <4>1. id = Top
        BY <1>1, <1>2, <1>3, <3>1, <3>4
      <4> QED BY <1>2, <4>1
    <3>5. CASE low # id
      BY <1>1, <1>4, <3>1, <3>3, <3>5
    <3> QED BY <3>4, <3>5
  <2> QED BY <2>1, <2>2
<1> QED BY <1>6, <1>7 DEF HasAbove

(* The first rows: the newest page, and what an older answer adds to it.   *)
LEMMA FirstPage ==
    ASSUME ThreadAssumption, NEW a \in Answered, IsPage(a, a.top)
    PROVE  /\ NoHole(a.ids)
           /\ \A k \in Nat : a.top <= k + Page => HasAbove(a.ids, k)
<1>1. /\ Page \in Nat \ {0} /\ a.top \in Nat
      /\ a.ids = {id \in 1..a.top : a.top - Page < id /\ id <= a.top} \ Blank
  BY DEF ThreadAssumption, Answered, IsPage
<1>2. \A id \in Nat \ Blank : id > 0 /\ a.top - Page < id /\ id <= a.top => id \in a.ids
  BY <1>1
<1>3. \A id \in a.ids : a.top - Page < id /\ id <= a.top /\ id \in Nat \ {0}
  BY <1>1
<1>4. NoHole(a.ids)
  <2> SUFFICES ASSUME NEW id \in Nat \ Blank, NEW x \in a.ids, NEW b \in a.ids, x < id, id < b
               PROVE  id \in a.ids
    BY DEF NoHole
  <2> QED BY <1>1, <1>2, <1>3
<1>5. ASSUME NEW k \in Nat, a.top <= k + Page, NEW id \in Nat \ Blank, k < id, NEW b \in a.ids, id < b
      PROVE  id \in a.ids
  <2>1. a.top - Page < id /\ id <= a.top /\ id > 0
    BY <1>1, <1>3, <1>5
  <2> QED BY <1>1, <1>2, <2>1
<1> QED BY <1>4, <1>5 DEF HasAbove

LEMMA RowsMerged ==
    ASSUME ThreadAssumption, PageTypes, HeldInv, mode = "live",
           NEW a \in Answered, a.st = "ok", a.top <= n, a.ids \subseteq 1..n, Merge(a)
    PROVE  /\ Held' = Held \cup a.ids /\ asof' = a.top /\ total' = a.total /\ burst' \in BOOLEAN
           /\ \A id \in Held' : rows'[id] = "server" /\ id \in 1..n
           /\ ~burst' => ~burst
           /\ ~burst' /\ Held # {} => a.top - Top <= Page /\ asof <= a.top + Page
<1>1. /\ rows' = [id \in a.ids \cup DOMAIN rows |-> IF id \in a.ids THEN "server" ELSE rows[id]]
      /\ asof' = a.top /\ total' = a.total
  BY DEF Merge, MergeRows
<1>2. Held' = Held \cup a.ids
  BY <1>1 DEF Held
<1>3. \A id \in Held' : rows'[id] = "server" /\ id \in 1..n
  BY <1>1, <1>2 DEF Held, HeldInv
<1>4. burst' = (burst \/ (Top > 0 /\ (a.top - Top > Page \/ asof - a.top > Page)))
  BY DEF Merge
<1>5. Held # {} => Top \in Nat \ {0}
  BY TopIsLargest DEF PageTypes, HeldInv
<1>6. a.top \in Nat /\ asof \in Nat /\ Page \in Nat /\ burst \in BOOLEAN
  BY DEF PageTypes, Answered, ThreadAssumption
<1>7. burst' \in BOOLEAN /\ (~burst' => ~burst)
  BY <1>4, <1>6
<1>8. ASSUME ~burst', Held # {} PROVE a.top - Top <= Page /\ asof <= a.top + Page
  <2> DEFINE Gap == a.top - Top > Page \/ asof - a.top > Page
  <2>1. ~(Top > 0 /\ Gap)
    <3> HIDE DEF Gap
    <3> QED BY <1>4, <1>8, Zenon DEF Gap
  <2>2. Top \in Nat \ {0}
    BY <1>5, <1>8
  <2> HIDE DEF Top
  <2> QED BY <1>6, <2>1, <2>2
<1> QED BY <1>1, <1>2, <1>3, <1>7, <1>8

\* Merging a leaves no hole, and what was to join what is shown still does.
LEMMA MergeJoins ==
    ASSUME ThreadAssumption, PageTypes, HeldInv, mode = "live", NoHole(Held),
           NEW a \in Answered, a.st = "ok", a.top <= n, a.ids \subseteq 1..n, Merge(a), ~burst',
           NEW head \in Nat, IsPage(a, head), Joins(a, head), Held = {} => head = a.top
    PROVE  /\ NoHole(Held')
           /\ \A k \in Nat : Held # {} /\ HasAbove(Held, k) => HasAbove(Held', k)
           /\ \A o \in Answered, k \in Nat :
                /\ Joins(o, k) /\ (Held = {} => k = o.top)
                /\ a.top >= asof \/ o.top >= asof
                => HasAbove(Held', k) \/ o.top + Page < asof'
<1>1. /\ Held' = Held \cup a.ids /\ asof' = a.top
      /\ Held # {} => a.top - Top <= Page /\ asof <= a.top + Page
  BY RowsMerged
<1>2. a.top \in Nat /\ asof \in Nat /\ Page \in Nat \ {0} /\ \A o \in Answered : o.top \in Nat
  BY DEF PageTypes, Answered, ThreadAssumption
<1>3. CASE Held # {}
  <2>1. HasAbove(Held, head)
    BY <1>1, <1>2, <1>3 DEF Joins
  <2>2. NoHole(Held') /\ \A k \in Nat : HasAbove(Held, k) => HasAbove(Held', k)
    BY <1>1, <1>3, <2>1, MergeIsSeamless
  <2>3. \A o \in Answered, k \in Nat :
          Joins(o, k) /\ (a.top >= asof \/ o.top >= asof) => HasAbove(Held', k) \/ o.top + Page < asof'
    <3> SUFFICES ASSUME NEW o \in Answered, NEW k \in Nat, Joins(o, k), a.top >= asof \/ o.top >= asof
                 PROVE  HasAbove(Held', k) \/ o.top + Page < asof'
      OBVIOUS
    <3>1. o.top \in Nat
      BY <1>2
    <3>2. CASE HasAbove(Held, k)
      BY <2>2, <3>2
    <3>3. CASE o.top + Page < asof
      BY <1>1, <1>2, <3>1, <3>3
    <3> QED BY <3>2, <3>3 DEF Joins
  <2> QED BY <1>3, <2>2, <2>3
<1>4. CASE Held = {}
  <2>1. Held' = a.ids /\ IsPage(a, a.top)
    BY <1>1, <1>4
  <2>2. NoHole(Held') /\ \A k \in Nat : a.top <= k + Page => HasAbove(Held', k)
    BY <2>1, FirstPage
  <2>3. \A o \in Answered, k \in Nat : k = o.top => HasAbove(Held', k) \/ o.top + Page < asof'
    <3> SUFFICES ASSUME NEW o \in Answered, a.top > o.top + Page \/ a.top <= o.top + Page
                 PROVE  HasAbove(Held', o.top) \/ o.top + Page < asof'
      BY <1>2
    <3> QED BY <1>1, <1>2, <2>2
  <2> QED BY <1>4, <2>2, <2>3
<1> QED BY <1>3, <1>4

\* An answer that brings nothing changes nothing but the count.
LEMMA NothingMerged ==
    ASSUME NEW a, a.st = "empty", a.ids = {}, Merge(a)
    PROVE  /\ Held' = Held /\ (\A id \in Held : rows'[id] = rows[id])
           /\ total' = a.total /\ UNCHANGED <<asof, burst>>
<1>1. rows' = [id \in DOMAIN rows |-> rows[id]] /\ total' = a.total /\ UNCHANGED <<asof, burst>>
  BY DEF Merge, MergeRows
<1> QED BY <1>1 DEF Held

(* The offset of the rows held is below all of them: none is missed there. *)
LEMMA OffsetIsBelow ==
    ASSUME ThreadAssumption, n \in Nat, Held \subseteq 1..n, NoHole(Held)
    PROVE  HasAbove(Held, n - Cardinality(Held))
<1> SUFFICES ASSUME NEW id \in Nat \ Blank, n - Cardinality(Held) < id, NEW b \in Held, id < b, id \notin Held
             PROVE  FALSE
  BY DEF HasAbove
<1>1. \A a \in Held : ~(a < id)
  BY DEF NoHole
<1>2. Held \subseteq (id + 1)..n
  BY <1>1
<1>3. IsFiniteSet((id + 1)..n) /\ Cardinality((id + 1)..n) = n - id
  <2>1. id + 1 \in Int /\ n \in Int /\ id < n
    OBVIOUS
  <2> QED BY <2>1, FS_Interval
<1>4. Cardinality(Held) <= n - id /\ Cardinality(Held) \in Nat
  BY <1>2, <1>3, FS_Subset, FS_CardinalityType
<1> QED BY <1>4

-----------------------------------------------------------------------------
(* The service: the table only grows.                                      *)
LEMMA TableMoves ==
    ASSUME ThreadAssumption, ThreadInv, UNCHANGED <<hook, chain, more, asof, burst>>,
           n' \in {n, n + 1}, listed' \in SUBSET Sessions
    PROVE  ThreadInv'
<1> USE DEF ThreadInv
<1>1. n \in Nat /\ n' \in Nat /\ n <= n' /\ asof \in Nat /\ total \in Nat /\ more \in Answered /\ chain \in Chains
  BY DEF PageTypes
<1>2. UNCHANGED <<mode, rows, total, sessions, selected, loadedOnce, chain, more, asof, burst>> /\ Held' = Held
  BY DEF hook, Held
<1>3. PageTypes'
  BY <1>1, <1>2 DEF PageTypes
<1>4. HeldInv'
  BY <1>1, <1>2 DEF HeldInv
<1>5. TableAnswers'
  <2>1. ASSUME NEW a \in Answered, OfTable(a) PROVE OfTable(a)'
    <3>1. a.top \in Nat /\ a.total \in Nat /\ a.offset \in Nat
      BY DEF Answered
    <3>2. 1..n \subseteq 1..n'
      BY <1>1
    <3> QED BY <1>1, <2>1, <3>1, <3>2 DEF OfTable
  <2>2. chain.history \in Answered
    BY <1>1 DEF Chains
  <2> QED BY <1>1, <1>2, <2>1, <2>2 DEF TableAnswers, IsPage
<1>6. HoleInv'
  <2>1. HasAbove(Held, n - more.offset) => HasAbove(Held, n' - more.offset)
    <3>1. more.offset \in Nat
      BY <1>1 DEF Answered
    <3> QED BY <1>1, <3>1 DEF HasAbove
  <2> QED BY <1>2, <2>1 DEF HoleInv, HistoryJoins, MoreJoins, NewerOne, Joins, IsPage
<1> QED BY <1>3, <1>4, <1>5, <1>6

(* The effect asks, or the service answers it.                             *)
LEMMA ChainMoves ==
    ASSUME ThreadAssumption, ThreadInv, chain' \in Chains,
           UNCHANGED <<table, mode, rows, total, sessions, selected, loadedOnce, more, asof, burst>>,
           mode = "connecting" => chain'.kind = "snapshot",
           \/ chain'.history = chain.history
           \/ chain'.history.st # "ok" /\ OfTable(chain'.history) /\ chain'.history.offset = 0
           \/ chain'.history = HistoryPage(chain.history)
    PROVE  ThreadInv'
<1> USE DEF ThreadInv
<1>1. n \in Nat /\ asof \in Nat /\ more \in Answered /\ chain.history \in Answered /\ chain'.history \in Answered
  BY DEF PageTypes, Chains
<1>2. UNCHANGED <<n, listed>> /\ Held' = Held
  BY DEF table, Held
<1>3. PageTypes'
  BY <1>2 DEF PageTypes
<1>4. HeldInv'
  BY <1>2 DEF HeldInv
<1>5. PICK r \in Answered : r = chain.history /\ OfTable(r) /\ r.offset = 0
  BY <1>1 DEF TableAnswers
<1>6. chain'.history = HistoryPage(chain.history)
        => /\ chain'.history.st = "ok" /\ chain'.history.top = n /\ IsPage(chain'.history, n)
           /\ OfTable(chain'.history) /\ chain'.history.offset = 0
  <2>1. r.offset <= n /\ n - r.offset = n /\ r.total <= n
    BY <1>1, <1>5 DEF OfTable
  <2>2. LET a == HistoryPage(r) IN
        /\ a.st = "ok" /\ a.top = n /\ IsPage(a, n) /\ OfTable(a) /\ a.offset = 0
    <3>1. LET a == HistoryPage(r) IN
          /\ a.st = "ok" /\ a.total <= n /\ a.top = n /\ a.offset = 0
          /\ IsPage(a, n) /\ a.ids \subseteq 1..n
      BY <1>1, <1>5, <2>1, PageServed
    <3> QED BY <1>1, <2>1, <3>1 DEF OfTable
  <2> QED BY <1>5, <2>2
<1>7. TableAnswers'
  <2>1. OfTable(chain'.history) /\ chain'.history.offset = 0
    BY <1>6 DEF TableAnswers
  <2>2. chain'.history.st = "ok" => IsPage(chain'.history, chain'.history.top)
    <3>1. CASE chain'.history = chain.history
      BY <3>1 DEF TableAnswers
    <3>2. CASE chain'.history # chain.history
      BY <1>6, <3>2
    <3> QED BY <3>1, <3>2
  <2> QED BY <1>2, <2>1, <2>2 DEF TableAnswers, OfTable, IsPage
<1>8. HoleInv'
  <2> SUFFICES ASSUME mode = "live", ~burst
               PROVE  HistoryJoins' /\ NewerOne' /\ MoreJoins' /\ NoHole(Held)
    BY <1>2 DEF HoleInv
  <2>1. NoHole(Held) /\ MoreJoins /\ HistoryJoins /\ NewerOne /\ asof <= n
    BY DEF HoleInv, HeldInv
  <2>2. HasAbove(Held, n)
    BY <1>1 DEF HasAbove, HeldInv
  <2>3. HistoryJoins'
    BY <1>2, <1>6, <2>1, <2>2 DEF HistoryJoins, Joins
  <2>4. NewerOne'
    <3> SUFFICES ASSUME more.st = "ok", chain'.history.st = "ok"
                 PROVE  more.top >= asof \/ chain'.history.top >= asof
      BY DEF NewerOne
    <3>1. CASE chain'.history = chain.history
      BY <2>1, <3>1 DEF NewerOne
    <3>2. CASE chain'.history # chain.history
      BY <1>1, <1>6, <2>1, <3>2
    <3> QED BY <3>1, <3>2
  <2>5. MoreJoins'
    BY <1>2, <2>1 DEF MoreJoins, Joins, IsPage
  <2> QED BY <2>1, <2>3, <2>4, <2>5
<1> QED BY <1>3, <1>4, <1>7, <1>8

(* Older rows: asked for, served, failed.                                  *)
LEMMA MoreMoves ==
    ASSUME ThreadAssumption, ThreadInv, LoadMore \/ MoreServed \/ MoreBreaks \/ MoreFails
    PROVE  ThreadInv'
<1> USE DEF ThreadInv
<1>1. /\ n \in Nat /\ total \in Nat /\ asof \in Nat /\ more \in Answered /\ chain \in Chains
      /\ Page \in Nat \ {0} /\ more.top \in Nat /\ more.offset \in Nat
  BY DEF PageTypes, Answered, ThreadAssumption
<1>2. /\ UNCHANGED <<n, listed, mode, rows, total, sessions, selected, loadedOnce, chain, asof, burst>>
      /\ Held' = Held
  BY DEF LoadMore, MoreServed, MoreBreaks, MoreFails, table, hook, Held
<1>3. mode = "live" /\ total <= n /\ asof <= n /\ Held \subseteq 1..n
  <2>1. mode # "connecting"
    BY DEF LoadMore, MoreServed, MoreBreaks, MoreFails, Pending, HeldInv
  <2>2. mode # "demo"
    <3>1. LoadMore => Cardinality(Held) < total
      BY DEF LoadMore, Held
    <3> HIDE DEF Held
    <3>2. CASE LoadMore
      BY <1>1, <3>1, <3>2 DEF HeldInv
    <3>3. CASE MoreServed \/ MoreBreaks \/ MoreFails
      BY <3>3 DEF HeldInv, MoreServed, MoreBreaks, MoreFails, Pending
    <3> QED BY <3>2, <3>3
  <2> QED BY <2>1, <2>2 DEF HeldInv, PageTypes
<1>4. Cardinality(Held) \in Nat
  <2>1. IsFiniteSet(1..n)
    BY <1>1, FS_Interval
  <2> QED BY <1>3, <2>1, FS_Subset, FS_CardinalityType
<1>5. OfTable(more)
  BY DEF TableAnswers
<1>6. ASSUME LoadMore
      PROVE  /\ more' \in Answered /\ OfTable(more') /\ more'.st = "sent" /\ more'.offset = Cardinality(Held)
  <2>1. more' = [AskedPage EXCEPT !.offset = Cardinality(Held)] /\ Cardinality(Held) < total
    BY <1>6 DEF LoadMore, Offset, Held
  <2>2. /\ more' \in Answered /\ more'.st = "sent" /\ more'.offset = Cardinality(Held)
        /\ more'.ids = {} /\ more'.total = 0 /\ more'.top = 0
    BY <1>4, <2>1 DEF AskedPage, Answered
  <2> QED BY <1>1, <1>3, <1>4, <2>1, <2>2 DEF OfTable
<1>7. ASSUME MoreServed \/ MoreBreaks
      PROVE  /\ more.st \in Pending /\ more' \in Answered /\ OfTable(more')
             /\ \/ more' = HistoryPage(more)
                \/ more'.st = "counted" /\ more'.offset = more.offset
                \/ more' = EmptyPage
  <2>1. more.st \in Pending /\ more' \in {Query(more), QueryError(more)}
    BY <1>7 DEF MoreServed, MoreBreaks
  <2>2. PICK r \in Answered : r = more
    BY <1>1
  <2> QED BY <1>1, <1>5, <2>1, <2>2, Queried
<1>8. MoreFails => more' = NotAskedPage
  BY DEF MoreFails
<1>9. more' \in Answered /\ OfTable(more')
  BY <1>1, <1>6, <1>7, <1>8, AnswersTyped DEF Empties, OfTable
<1>10. PageTypes' /\ HeldInv' /\ TableAnswers'
  BY <1>2, <1>3, <1>9 DEF PageTypes, HeldInv, TableAnswers, OfTable, IsPage
<1>11. HoleInv'
  <2> SUFFICES ASSUME ~burst
               PROVE  HistoryJoins' /\ NewerOne' /\ MoreJoins' /\ NoHole(Held)
    BY <1>2 DEF HoleInv
  <2>1. NoHole(Held) /\ MoreJoins /\ HistoryJoins
    BY <1>3 DEF HoleInv
  <2>2. HistoryJoins'
    BY <1>2, <2>1 DEF HistoryJoins, Joins
  <2>3. CASE LoadMore
    <3>1. HasAbove(Held, n - Cardinality(Held))
      BY <1>1, <1>3, <2>1, OffsetIsBelow
    <3>2. Held = {} => Cardinality(Held) = 0
      BY FS_EmptySet
    <3> QED BY <1>2, <1>6, <2>1, <2>2, <2>3, <3>1, <3>2 DEF MoreJoins, NewerOne
  <2>4. CASE (MoreServed \/ MoreBreaks) /\ more' = HistoryPage(more)
    <3>1. /\ more.offset <= n /\ HasAbove(Held, n - more.offset) /\ (Held = {} => more.offset = 0)
      BY <1>5, <1>7, <2>1, <2>4 DEF OfTable, MoreJoins
    <3>2. PICK r \in Answered : r = more
      BY <1>1
    <3>3. LET a == HistoryPage(r) IN a.st = "ok" /\ a.top = n /\ IsPage(a, n - r.offset)
      BY <1>1, <3>1, <3>2, PageServed
    <3>4. /\ n - more.offset \in Nat /\ more'.st = "ok" /\ more'.top = n
          /\ IsPage(more', n - more.offset)
      BY <1>1, <2>4, <3>1, <3>2, <3>3
    <3>5. MoreJoins'
      <4>1. Held = {} => n - more.offset = more'.top
        BY <1>1, <3>1, <3>4
      <4>2. Joins(more', n - more.offset)
        BY <3>1 DEF Joins
      <4> QED BY <1>2, <3>4, <4>1, <4>2 DEF MoreJoins, Joins, IsPage, Pending
    <3>6. NewerOne'
      BY <1>1, <1>2, <1>3, <3>4 DEF NewerOne
    <3> QED BY <2>1, <2>2, <3>5, <3>6
  <2>5. CASE MoreFails \/ more' = EmptyPage
    BY <1>8, <2>1, <2>2, <2>5, AnswersTyped DEF MoreJoins, NewerOne, Pending
  <2>6. CASE (MoreServed \/ MoreBreaks) /\ more'.st = "counted" /\ more'.offset = more.offset
    BY <1>2, <1>7, <2>1, <2>2, <2>6 DEF MoreJoins, NewerOne, Pending
  <2> QED BY <1>7, <2>3, <2>4, <2>5, <2>6
<1> QED BY <1>10, <1>11

-----------------------------------------------------------------------------
(* The cycle ends and the timer is set: the demo snapshot, the table's      *)
(* newest page instead of what was there, one page more, or nothing new.    *)
Untouched == mode' = mode /\ UNCHANGED <<rows, total, asof, burst>>
TurnsDemo ==
    /\ mode' = "demo" /\ more.st = "none"
    /\ rows' = DemoRows /\ total' = Cardinality(DOMAIN DemoRows) /\ asof' = 0
TurnsLive ==
    /\ mode' = "live" /\ more.st = "none" /\ NoHole(Held')
    /\ total' \in Nat /\ total' <= n /\ asof' \in Nat /\ asof' <= n
    /\ \A id \in Held' : rows'[id] = "server" /\ id \in 1..n
OnePageMore == mode = "live" /\ mode' = "live" /\ chain.history.st = "ok" /\ Merge(chain.history)
OnlyCounted ==
    /\ mode = "live" /\ mode' = "live" /\ Held' = Held /\ UNCHANGED <<asof, burst>>
    /\ total' \in Nat /\ total' <= n /\ \A id \in Held : rows'[id] = rows[id]

LEMMA CycleOver ==
    ASSUME ThreadAssumption, ThreadInv, UNCHANGED <<n, listed, more>>, chain' = Timer,
           selected' # None => selected' \in sessions',
           mode' # "connecting", loadedOnce' = TRUE, burst' \in BOOLEAN,
           Untouched \/ TurnsDemo \/ TurnsLive \/ OnePageMore \/ OnlyCounted
    PROVE  ThreadInv'
<1> USE DEF ThreadInv
<1>1. /\ n \in Nat /\ total \in Nat /\ asof \in Nat /\ more \in Answered /\ chain.history \in Answered
      /\ chain' \in Chains /\ chain'.history = NotAskedPage /\ chain'.history.st = "none"
  BY AnswersTyped DEF PageTypes, Chains
<1>2. TableAnswers'
  <2>1. OfTable(chain'.history) /\ chain'.history.offset = 0
    BY <1>1, AnswersTyped DEF OfTable, Empties
  <2> QED BY <1>1, <2>1 DEF TableAnswers, OfTable, IsPage
<1>3. CASE Untouched
  <2>1. Held' = Held
    BY <1>3 DEF Untouched, Held
  <2>2. PageTypes' /\ HeldInv'
    BY <1>1, <1>3, <2>1 DEF Untouched, PageTypes, HeldInv
  <2>3. HoleInv'
    BY <1>1, <1>3, <2>1 DEF Untouched, HoleInv, HistoryJoins, MoreJoins, NewerOne, Joins, IsPage
  <2> QED BY <1>2, <2>2, <2>3
<1>4. CASE TurnsDemo
  <2>1. Cardinality(DOMAIN DemoRows) \in Nat /\ total' = Cardinality(Held')
    <3>1. DOMAIN DemoRows = 1..2
      BY DEF DemoRows
    <3>2. Cardinality(1..2) \in Nat
      <4>1. PICK last \in Int : last = 2
        OBVIOUS
      <4>2. Cardinality(1..last) \in Nat
        BY FS_Interval, FS_CardinalityType
      <4> QED BY <4>1, <4>2
    <3> QED BY <1>4, <3>1, <3>2 DEF TurnsDemo, Held
  <2> QED BY <1>1, <1>2, <1>4, <2>1 DEF TurnsDemo, PageTypes, HeldInv, HoleInv
<1>5. CASE TurnsLive
  <2>1. HoleInv'
    <3>1. HistoryJoins' /\ MoreJoins' /\ NewerOne'
      BY <1>1, <1>5 DEF TurnsLive, HistoryJoins, MoreJoins, NewerOne, Pending
    <3> QED BY <1>5, <3>1 DEF TurnsLive, HoleInv
  <2> QED BY <1>1, <1>2, <1>5, <2>1 DEF TurnsLive, PageTypes, HeldInv
<1>6. CASE OnePageMore
  <2>1. PICK a \in Answered : a = chain.history
    BY <1>1
  <2>2. /\ Merge(a) /\ a.st = "ok" /\ mode = "live" /\ a.top <= n /\ a.total <= n /\ a.ids \subseteq 1..n
        /\ a.top \in Nat /\ a.total \in Nat /\ IsPage(a, a.top)
    BY <1>6, <2>1 DEF OnePageMore, TableAnswers, OfTable, Answered
  <2>3. /\ Held' = Held \cup a.ids /\ asof' = a.top /\ total' = a.total
        /\ \A id \in Held' : rows'[id] = "server" /\ id \in 1..n
        /\ ~burst' => ~burst
    BY <2>2, RowsMerged
  <2>4. PageTypes' /\ HeldInv'
    BY <1>1, <1>6, <2>2, <2>3 DEF OnePageMore, PageTypes, HeldInv
  <2>5. HoleInv'
    <3> SUFFICES ASSUME ~burst'
                 PROVE  NoHole(Held)' /\ HistoryJoins' /\ MoreJoins' /\ NewerOne'
      BY DEF HoleInv
    <3>1. NoHole(Held) /\ Joins(a, a.top) /\ MoreJoins /\ NewerOne
      BY <1>6, <2>1, <2>2, <2>3 DEF HoleInv, HistoryJoins, OnePageMore
    <3>2. /\ NoHole(Held')
          /\ \A k \in Nat : Held # {} /\ HasAbove(Held, k) => HasAbove(Held', k)
          /\ \A o \in Answered, k \in Nat :
               /\ Joins(o, k) /\ (Held = {} => k = o.top)
               /\ a.top >= asof \/ o.top >= asof
               => HasAbove(Held', k) \/ o.top + Page < asof'
      BY <2>2, <3>1, MergeJoins
    <3>3. HistoryJoins' /\ NewerOne'
      BY <1>1 DEF HistoryJoins, NewerOne
    <3>4. ASSUME more.st \in Pending
          PROVE  HasAbove(Held', n - more.offset) /\ (Held' = {} => more.offset = 0)
      <4>1. /\ HasAbove(Held, n - more.offset) /\ (Held = {} => more.offset = 0)
            /\ more.offset \in Nat /\ n - more.offset \in Nat
        BY <1>1, <3>1, <3>4 DEF MoreJoins, TableAnswers, OfTable, Answered
      <4>2. CASE Held = {}
        BY <1>1, <2>3, <4>1, <4>2 DEF HasAbove
      <4>3. CASE Held # {}
        BY <2>3, <3>2, <4>1, <4>3
      <4> QED BY <4>2, <4>3
    <3>5. ASSUME more.st = "ok"
          PROVE  \E head \in Nat : /\ IsPage(more, head)
                                   /\ HasAbove(Held', head) \/ more.top + Page < asof'
                                   /\ Held' = {} => head = more.top
      <4>1. PICK head \in Nat : IsPage(more, head) /\ Joins(more, head) /\ (Held = {} => head = more.top)
        BY <3>1, <3>5 DEF MoreJoins
      <4>2. a.top >= asof \/ more.top >= asof
        BY <1>6, <2>1, <3>1, <3>5 DEF NewerOne, OnePageMore
      <4>3. PICK o \in Answered : o = more
        BY <1>1
      <4>4. HasAbove(Held', head) \/ more.top + Page < asof'
        BY <3>2, <4>1, <4>2, <4>3
      <4> QED BY <2>3, <4>1, <4>4
    <3>6. MoreJoins'
      BY <3>4, <3>5 DEF MoreJoins, Joins, IsPage
    <3> QED BY <3>2, <3>3, <3>6
  <2> QED BY <1>2, <2>4, <2>5
<1>7. CASE OnlyCounted
  <2>1. PageTypes' /\ HeldInv'
    BY <1>1, <1>7 DEF OnlyCounted, PageTypes, HeldInv
  <2>2. HoleInv'
    BY <1>1, <1>7 DEF OnlyCounted, HoleInv, HistoryJoins, MoreJoins, NewerOne, Joins, IsPage
  <2> QED BY <1>2, <2>1, <2>2
<1> QED BY <1>3, <1>4, <1>5, <1>6, <1>7

(* An older page is delivered.                                             *)
LEMMA MoreDelivered ==
    ASSUME ThreadAssumption, ThreadInv, MoreEnds
    PROVE  ThreadInv'
<1> USE DEF ThreadInv
<1>1. /\ n \in Nat /\ total \in Nat /\ asof \in Nat /\ more \in Answered
      /\ chain \in Chains /\ chain.history \in Answered
  BY DEF PageTypes, Chains
<1>2. PICK a \in Answered : a = more
  BY <1>1
<1>3. /\ a.st \in {"ok", "empty"} /\ Merge(a) /\ more' = NotAskedPage
      /\ UNCHANGED <<n, listed, mode, sessions, selected, loadedOnce, chain>>
  BY <1>2 DEF MoreEnds, Arrived, table
<1>4. mode = "live" /\ OfTable(a) /\ a.top \in Nat /\ a.total \in Nat
  BY <1>2, <1>3 DEF TableAnswers, HeldInv, PageTypes, Answered
<1>5. more' \in Answered /\ more'.st = "none" /\ OfTable(more')
  BY <1>1, <1>3, AnswersTyped DEF Empties, OfTable
<1>6. ASSUME a.st = "ok"
      PROVE  /\ Held' = Held \cup a.ids /\ asof' = a.top /\ total' = a.total /\ burst' \in BOOLEAN
             /\ \A id \in Held' : rows'[id] = "server" /\ id \in 1..n
             /\ ~burst' => ~burst
  BY <1>3, <1>4, <1>6, RowsMerged DEF OfTable
<1>7. ASSUME a.st = "empty"
      PROVE  /\ Held' = Held /\ (\A id \in Held : rows'[id] = rows[id])
             /\ total' = a.total /\ UNCHANGED <<asof, burst>>
  BY <1>3, <1>4, <1>7, NothingMerged DEF OfTable
<1>8. PageTypes' /\ HeldInv' /\ TableAnswers'
  <2>1. CASE a.st = "ok"
    <3>1. PageTypes'
      BY <1>1, <1>3, <1>4, <1>5, <1>6, <2>1 DEF PageTypes
    <3>2. HeldInv'
      BY <1>1, <1>3, <1>4, <1>5, <1>6, <2>1 DEF HeldInv, OfTable
    <3> QED BY <1>1, <1>3, <1>5, <3>1, <3>2 DEF TableAnswers, OfTable, IsPage
  <2>2. CASE a.st = "empty"
    <3>1. PageTypes'
      BY <1>1, <1>3, <1>4, <1>5, <1>7, <2>2 DEF PageTypes
    <3>2. HeldInv'
      BY <1>1, <1>3, <1>4, <1>5, <1>7, <2>2 DEF HeldInv, OfTable
    <3> QED BY <1>1, <1>3, <1>5, <3>1, <3>2 DEF TableAnswers, OfTable, IsPage
  <2> QED BY <1>3, <2>1, <2>2
<1>9. CASE a.st = "empty"
  <2>1. HoleInv'
    BY <1>3, <1>4, <1>5, <1>7, <1>9 DEF HoleInv, HistoryJoins, MoreJoins, NewerOne, Joins, Pending
  <2> QED BY <1>8, <2>1
<1>10. CASE a.st = "ok"
  <2> SUFFICES ASSUME ~burst'
               PROVE  NoHole(Held)' /\ HistoryJoins' /\ MoreJoins' /\ NewerOne'
    BY <1>8 DEF HoleInv
  <2>1. NoHole(Held) /\ HistoryJoins /\ MoreJoins /\ NewerOne
    BY <1>4, <1>6, <1>10 DEF HoleInv
  <2>2. PICK head \in Nat : IsPage(a, head) /\ Joins(a, head) /\ (Held = {} => head = a.top)
    BY <1>2, <1>10, <2>1 DEF MoreJoins
  <2>3. /\ NoHole(Held')
        /\ \A o \in Answered, k \in Nat :
             /\ Joins(o, k) /\ (Held = {} => k = o.top)
             /\ a.top >= asof \/ o.top >= asof
             => HasAbove(Held', k) \/ o.top + Page < asof'
    BY <1>3, <1>4, <1>10, <2>1, <2>2, MergeJoins DEF OfTable
  <2>4. MoreJoins' /\ NewerOne'
    BY <1>5 DEF MoreJoins, NewerOne, Pending
  <2>5. HistoryJoins'
    <3> SUFFICES ASSUME chain.history.st = "ok"
                 PROVE  HasAbove(Held', chain.history.top) \/ chain.history.top + Page < asof'
      BY <1>3 DEF HistoryJoins, Joins
    <3>1. PICK o \in Answered : o = chain.history
      BY <1>1
    <3>2. Joins(o, o.top) /\ o.top \in Nat /\ (a.top >= asof \/ o.top >= asof)
      BY <1>2, <1>10, <2>1, <3>1 DEF HistoryJoins, NewerOne, Answered
    <3> QED BY <2>3, <3>1, <3>2
  <2> QED BY <2>3, <2>4, <2>5
<1> QED BY <1>3, <1>9, <1>10

LEMMA RowsReplaced ==
    ASSUME ThreadAssumption, ThreadInv, mode # "live", n' = n, mode' = "live",
           NEW a \in Answered, Replace(a), OfTable(a), a.ids = {} \/ IsPage(a, a.top)
    PROVE  TurnsLive /\ burst' = FALSE
<1>1. Held' = a.ids /\ asof' = a.top /\ total' = a.total /\ burst' = FALSE /\ \A id \in Held' : rows'[id] = "server"
  BY DEF Replace, MergeRows, NoRows, Held
<1>2. NoHole(a.ids)
  <2>1. CASE a.ids = {}
    BY <2>1 DEF NoHole
  <2>2. CASE IsPage(a, a.top)
    BY <2>2, FirstPage
  <2> QED BY <2>1, <2>2
<1>3. more.st = "none"
  BY DEF ThreadInv, HeldInv, PageTypes
<1> QED BY <1>1, <1>2, <1>3 DEF TurnsLive, Answered, OfTable

LEMMA SessionsShown ==
    ASSUME NEW list, ShowSessions(list)
    PROVE  selected' # None => selected' \in sessions'
BY DEF ShowSessions

LEMMA CycleStep ==
    ASSUME ThreadAssumption, ThreadInv, SnapshotEnds \/ PollEnds
    PROVE  ThreadInv'
<1> USE DEF ThreadInv
<1>1. /\ UNCHANGED <<n, listed, more>> /\ chain' = Timer /\ chain.history \in Answered
      /\ mode \in {"connecting", "demo", "live"} /\ n \in Nat /\ burst \in BOOLEAN
  BY DEF SnapshotEnds, PollEnds, table, PageTypes, Chains
<1>2. loadedOnce' = TRUE
  <2>1. CASE SnapshotEnds
    BY <2>1 DEF SnapshotEnds
  <2>2. CASE PollEnds
    BY <2>2 DEF PollEnds, HeldInv
  <2> QED BY <2>1, <2>2
<1>3. selected' # None => selected' \in sessions'
  <2>1. CASE UNCHANGED <<sessions, selected>>
    BY <2>1 DEF HeldInv
  <2>2. CASE \E list : ShowSessions(list)
    BY <2>2, SessionsShown
  <2> QED BY <2>1, <2>2 DEF SnapshotEnds, PollEnds
<1>4. PICK a \in Answered : a = chain.history
  BY <1>1
<1>5. OfTable(a) /\ (a.st = "ok" => IsPage(a, a.top)) /\ (a.st = "empty" => a.ids = {})
  BY <1>4 DEF TableAnswers, OfTable
<1>6. ASSUME mode # "live", mode' = "live", Replace(a), Arrived(a)
      PROVE  TurnsLive /\ burst' = FALSE
  BY <1>1, <1>5, <1>6, RowsReplaced DEF Arrived
<1>7. ASSUME mode # "live", mode' = "live", Replace(NotAskedPage)
      PROVE  TurnsLive /\ burst' = FALSE
  <2>1. NotAskedPage \in Answered /\ NotAskedPage.ids = {} /\ OfTable(NotAskedPage)
    BY <1>1, AnswersTyped DEF Empties, OfTable
  <2> QED BY <1>1, <1>7, <2>1, RowsReplaced
<1>15. ASSUME mode = "live", mode' = "live", Merge(a), Arrived(a)
       PROVE  burst' \in BOOLEAN /\ (OnePageMore \/ OnlyCounted)
  <2>1. CASE a.st = "ok"
    <3>1. burst' \in BOOLEAN
      BY <1>5, <1>15, <2>1, RowsMerged DEF OfTable
    <3> QED BY <1>4, <1>15, <2>1, <3>1 DEF OnePageMore
  <2>2. CASE a.st = "empty"
    <3>1. /\ Held' = Held /\ (\A id \in Held : rows'[id] = rows[id])
          /\ total' = a.total /\ UNCHANGED <<asof, burst>>
      BY <1>5, <1>15, <2>2, NothingMerged
    <3>2. a.total \in Nat /\ a.total <= n
      BY <1>5 DEF Answered, OfTable
    <3> QED BY <1>1, <1>15, <3>1, <3>2 DEF OnlyCounted
  <2> QED BY <1>15, <2>1, <2>2 DEF Arrived
<1>8. loadedOnce <=> mode # "connecting"
  BY DEF HeldInv
<1>9. ASSUME SnapshotEnds
      PROVE  /\ mode' # "connecting" /\ burst' \in BOOLEAN
             /\ Untouched \/ TurnsDemo \/ TurnsLive \/ OnePageMore \/ OnlyCounted
  <2>1. CASE chain.status.st = "failed"
    <3>1. CASE mode # "live"
      <4>1. /\ mode' = "demo" /\ rows' = DemoRows
            /\ total' = Cardinality(DOMAIN DemoRows) /\ asof' = 0 /\ burst' = FALSE
        BY <1>1, <1>8, <1>9, <2>1, <3>1 DEF SnapshotEnds
      <4>2. more.st = "none"
        BY <1>1, <3>1 DEF HeldInv
      <4> QED BY <4>1, <4>2 DEF TurnsDemo
    <3>2. CASE mode = "live"
      BY <1>1, <1>8, <1>9, <2>1, <3>2 DEF SnapshotEnds, Untouched
    <3> QED BY <3>1, <3>2
  <2>2. CASE chain.status.st # "failed"
    <3>0. /\ mode' = "live"
          /\ CASE Arrived(a) /\ Replaces  -> Replace(a)
               [] Arrived(a) /\ ~Replaces -> Merge(a)
               [] ~Arrived(a) -> IF mode = "demo" THEN Replace(NotAskedPage)
                                 ELSE UNCHANGED <<rows, total, asof, burst>>
      BY <1>4, <1>9, <2>2 DEF SnapshotEnds
    <3>1. Replaces <=> mode # "live"
      BY <1>1, <1>8 DEF Replaces
    <3>2. CASE Arrived(a) /\ mode # "live"
      <4>1. Replace(a)
        BY <3>0, <3>1, <3>2
      <4> QED BY <1>6, <3>0, <3>2, <4>1
    <3>3. CASE Arrived(a) /\ mode = "live"
      <4>1. Merge(a)
        BY <3>0, <3>1, <3>3
      <4> QED BY <1>15, <3>0, <3>3, <4>1
    <3>4. CASE ~Arrived(a) /\ mode = "demo"
      <4>1. Replace(NotAskedPage)
        BY <3>0, <3>4
      <4> QED BY <1>7, <3>0, <3>4, <4>1
    <3>5. CASE ~Arrived(a) /\ mode # "demo"
      <4>1. UNCHANGED <<rows, total, asof, burst>>
        BY <3>0, <3>5
      <4>2. CASE mode = "live"
        BY <1>1, <3>0, <4>1, <4>2 DEF Untouched
      <4>3. CASE mode = "connecting"
        <5>1. Held' = {} /\ total' = 0 /\ asof' = 0 /\ more.st = "none"
          BY <4>1, <4>3 DEF HeldInv, Held
        <5> QED BY <1>1, <3>0, <4>1, <5>1 DEF TurnsLive, NoHole
      <4> QED BY <1>1, <3>5, <4>2, <4>3
    <3> QED BY <3>2, <3>3, <3>4, <3>5
  <2> QED BY <2>1, <2>2
<1>10. ASSUME PollEnds
       PROVE  /\ mode' # "connecting" /\ burst' \in BOOLEAN
              /\ Untouched \/ TurnsDemo \/ TurnsLive \/ OnePageMore \/ OnlyCounted
  <2>0. mode \in {"demo", "live"}
    BY <1>1, <1>10 DEF HeldInv, PollEnds
  <2>1. CASE chain.status.st = "failed"
    BY <1>1, <1>10, <2>0, <2>1 DEF PollEnds, Untouched
  <2>2. CASE chain.status.st # "failed"
    <3>0. /\ mode' = "live"
          /\ CASE Replaces  -> Replace(IF Arrived(a) THEN a ELSE NotAskedPage)
               [] ~Replaces -> IF Arrived(a) THEN Merge(a) ELSE UNCHANGED <<rows, total, asof, burst>>
      BY <1>4, <1>10, <2>0, <2>2 DEF PollEnds
    <3>1. Replaces <=> mode # "live"
      BY <1>8, <2>0 DEF Replaces
    <3>2. CASE mode # "live"
      <4>1. Replace(IF Arrived(a) THEN a ELSE NotAskedPage)
        BY <3>0, <3>1, <3>2
      <4>2. (Arrived(a) /\ Replace(a)) \/ Replace(NotAskedPage)
        BY <4>1
      <4> QED BY <1>6, <1>7, <3>0, <3>2, <4>2
    <3>3. CASE mode = "live"
      <4>1. IF Arrived(a) THEN Merge(a) ELSE UNCHANGED <<rows, total, asof, burst>>
        BY <3>0, <3>1, <3>3
      <4> QED BY <1>1, <1>15, <3>0, <3>3, <4>1 DEF Untouched
    <3> QED BY <3>2, <3>3
  <2> QED BY <2>1, <2>2
<1> QED BY <1>1, <1>2, <1>3, <1>9, <1>10, CycleOver

(* The page is opened, for the first time or again.                        *)
JustOpened ==
    /\ n \in Nat /\ listed \in SUBSET Sessions
    /\ mode = "connecting" /\ Held = {} /\ total = 0 /\ asof = 0 /\ sessions = {} /\ selected = None
    /\ loadedOnce = FALSE /\ burst = FALSE /\ chain = Cycle("snapshot", AskedPage) /\ more = NotAskedPage

LEMMA Opened ==
    JustOpened => ThreadInv
<1> SUFFICES ASSUME JustOpened PROVE ThreadInv
  OBVIOUS
<1>1. PageTypes
  BY AnswersTyped DEF JustOpened, PageTypes, Empties
<1>2. HeldInv
  BY AnswersTyped DEF JustOpened, HeldInv
<1>3. chain.history = AskedPage /\ more = NotAskedPage /\ n \in Nat
  BY AnswersTyped DEF JustOpened
<1>4. TableAnswers
  BY <1>3, AnswersTyped DEF TableAnswers, OfTable, Empties
<1>5. HoleInv
  BY DEF JustOpened, HoleInv
<1> QED BY <1>1, <1>2, <1>4, <1>5 DEF ThreadInv

LEMMA AskingMoves ==
    ASSUME ThreadAssumption, ThreadInv,
           \/ ListServed \/ ListFails \/ HistoryServed \/ HistoryBreaks
           \/ HistoryFails \/ CycleStarts \/ Refresh
    PROVE  ThreadInv'
<1>1. /\ UNCHANGED <<table, mode, rows, total, sessions, selected, loadedOnce, more, asof, burst>>
      /\ chain \in Chains /\ listed \in SUBSET Sessions /\ n \in Nat
  BY DEF ListServed, ListFails, HistoryServed, HistoryBreaks, HistoryFails,
         CycleStarts, Refresh, hook, ThreadInv, PageTypes
<1>2. ASSUME ListServed \/ ListFails
      PROVE  chain' \in Chains /\ chain'.kind = chain.kind /\ chain'.history = chain.history
  <2>1. CASE ListServed
    BY <1>1, <2>1 DEF ListServed, Chains, Answered
  <2>2. CASE ListFails
    BY <1>1, <2>2 DEF ListFails, Chains, Answered
  <2> QED BY <1>2, <2>1, <2>2
<1>3. ASSUME HistoryServed \/ HistoryBreaks
      PROVE  /\ chain' \in Chains /\ chain'.kind = chain.kind
             /\ \/ chain'.history = HistoryPage(chain.history)
                \/ chain'.history.st # "ok" /\ OfTable(chain'.history) /\ chain'.history.offset = 0
  <2>1. PICK r \in Answered : r = chain.history /\ OfTable(r) /\ r.offset = 0
    BY <1>1 DEF Chains, ThreadInv, TableAnswers
  <2>2. PICK a : a \in {Query(r), QueryError(r)} /\ r.st \in Pending /\ chain' = [chain EXCEPT !.history = a]
    BY <1>3, <2>1 DEF HistoryServed, HistoryBreaks
  <2>3. /\ a \in Answered /\ OfTable(a)
        /\ a = HistoryPage(r) \/ (a.st = "counted" /\ a.offset = r.offset) \/ a = EmptyPage
    BY <1>1, <2>1, <2>2, Queried
  <2>4. chain' \in Chains /\ chain'.kind = chain.kind /\ chain'.history = a
    BY <1>1, <2>2, <2>3 DEF Chains
  <2> QED BY <2>1, <2>3, <2>4, AnswersTyped DEF Empties
<1>4. ASSUME HistoryFails
      PROVE  /\ chain' \in Chains /\ chain'.kind = chain.kind /\ chain'.history.st = "failed"
             /\ OfTable(chain'.history) /\ chain'.history.offset = 0
  <2>1. FailedPage \in Answered
    BY AnswersTyped DEF Empties
  <2>2. /\ chain' \in Chains /\ chain'.kind = chain.kind /\ chain'.history = FailedPage
    BY <1>1, <1>4, <2>1 DEF HistoryFails, Chains
  <2> QED BY <1>1, <2>2, AnswersTyped DEF OfTable, Empties
<1>5. ASSUME CycleStarts \/ Refresh
      PROVE  /\ chain' \in Chains /\ mode # "connecting" /\ chain'.history.st # "ok"
             /\ OfTable(chain'.history) /\ chain'.history.offset = 0
  <2>1. mode # "connecting"
    BY <1>5 DEF CycleStarts, Refresh, ThreadInv, HeldInv
  <2>2. PICK kind \in {"snapshot", "poll"}, h \in {AskedPage, NotAskedPage} : chain' = Cycle(kind, h)
    BY <1>5 DEF CycleStarts, Refresh
  <2> QED BY <1>1, <2>1, <2>2, AnswersTyped DEF OfTable, Empties
<1>6. mode = "connecting" => chain.kind = "snapshot"
  BY DEF ThreadInv, HeldInv
<1>7. CASE ListServed \/ ListFails
  BY <1>1, <1>2, <1>6, <1>7, ChainMoves
<1>8. CASE HistoryServed \/ HistoryBreaks
  BY <1>1, <1>3, <1>6, <1>8, ChainMoves
<1>9. CASE HistoryFails
  BY <1>1, <1>4, <1>6, <1>9, ChainMoves
<1>10. CASE CycleStarts \/ Refresh
  BY <1>1, <1>5, <1>10, ChainMoves
<1> QED BY <1>7, <1>8, <1>9, <1>10

LEMMA ThreadStep ==
    ASSUME ThreadAssumption, ThreadInv, [ThreadNext]_threadVars
    PROVE  ThreadInv'
<1>1. n \in Nat /\ listed \in SUBSET Sessions
  BY DEF ThreadInv, PageTypes
<1>2. ASSUME RowSaved \/ SessionsChange \/ UNCHANGED threadVars
      PROVE  ThreadInv'
  <2>1. UNCHANGED <<hook, chain, more, asof, burst>> /\ n' \in {n, n + 1} /\ listed' \in SUBSET Sessions
    BY <1>1, <1>2 DEF RowSaved, SessionsChange, threadVars, table
  <2> QED BY <2>1, TableMoves
<1>3. ASSUME SelectSession
      PROVE  ThreadInv'
  <2>1. /\ UNCHANGED <<n, listed, mode, rows, total, sessions, loadedOnce, chain, more, asof, burst>>
        /\ selected' \in sessions /\ Held' = Held
    BY <1>3 DEF SelectSession, table, Held
  <2>2. PageTypes' /\ TableAnswers'
    BY <2>1 DEF ThreadInv, PageTypes, TableAnswers, OfTable, IsPage
  <2>3. HeldInv'
    BY <2>1 DEF ThreadInv, HeldInv
  <2>4. HoleInv'
    BY <2>1 DEF ThreadInv, HoleInv, HistoryJoins, MoreJoins, NewerOne, Joins, IsPage
  <2> QED BY <2>2, <2>3, <2>4 DEF ThreadInv
<1>4. ASSUME Reopen
      PROVE  ThreadInv'
  <2>1. /\ rows' = MergeRows(NoRows, {}) /\ total' = 0 /\ asof' = 0 /\ burst' = FALSE
        /\ sessions' = {} /\ selected' = None
        /\ UNCHANGED <<n, listed>>
    BY <1>4, AnswersTyped DEF Reopen, Replace, ShowSessions, table, Empties
  <2>2. Held' = {}
    BY <2>1 DEF Held, MergeRows, NoRows
  <2>3. JustOpened'
    BY <1>1, <1>4, <2>1, <2>2 DEF Reopen, JustOpened
  <2>4. JustOpened' => ThreadInv'
    BY Opened, PTL
  <2> QED BY <2>3, <2>4
<1> QED BY <1>2, <1>3, <1>4, AskingMoves, CycleStep, MoreMoves, MoreDelivered
        DEF ThreadNext, Requests, Loading

(* What the page shows follows.                                            *)
LEMMA ThreadIsTrue ==
    ASSUME ThreadAssumption, ThreadInv
    PROVE  PageIsTrue
<1> USE DEF ThreadInv
<1>1. NeverMixed
  BY DEF NeverMixed, HeldInv, Held
<1>2. ThreadHasNoHole
  <2> SUFFICES ASSUME mode = "live", ~burst, Held # {}, NEW id \in 1..Top \ Blank,
                      SessionMatchesRow(selected, Row[id]), NEW older \in Held, older < id
               PROVE  id \in ThreadRows
    BY DEF ThreadHasNoHole, Held
  <2>1. Top \in Held /\ Top \in 1..n /\ Held \subseteq 1..n
    BY TopIsLargest DEF HeldInv, PageTypes
  <2>2. id \in Nat /\ id <= Top /\ NoHole(Held)
    BY <2>1 DEF HoleInv
  <2>3. id \in Held
    <3>1. CASE id = Top
      BY <2>1, <3>1
    <3>2. CASE id < Top
      BY <2>1, <2>2, <3>2 DEF NoHole
    <3> QED BY <2>1, <2>2, <3>1, <3>2
  <2> QED BY <2>3 DEF ThreadRows, Held
<1> QED BY <1>1, <1>2 DEF PageIsTrue

(* For any table, page size, rows without text and sessions, whatever      *)
(* answers are late, lost or overtaken: demo and real rows are never mixed *)
(* and a thread has no hole between its oldest and its newest row, as long *)
(* as no more than a page of rows came between two merged answers.         *)
THEOREM PageStaysTrue == ThreadSpec => []PageIsTrue
<1>1. ThreadInit => ThreadInv
  <2>1. ThreadInit => JustOpened
    BY ThreadAssumption DEF ThreadInit, JustOpened, NoRows, Held, ThreadAssumption
  <2> QED BY <2>1, Opened, ThreadAssumption
<1>2. ThreadInv /\ [ThreadNext]_threadVars => ThreadInv'
  BY ThreadStep, ThreadAssumption
<1>3. ThreadInv => PageIsTrue
  BY ThreadIsTrue, ThreadAssumption
<1> QED BY <1>1, <1>2, <1>3, PTL DEF ThreadSpec
=============================================================================
