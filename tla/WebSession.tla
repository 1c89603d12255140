---------------------------- MODULE WebSession ----------------------------
(***************************************************************************)
(* The console's session: useAuth.ts, the 401 hook of http.ts, AuthGate,   *)
(* the login form, the logout button, against the cookie and the throttle  *)
(* of auth.go.  Every fetch is a request in flight: sent with the cookie   *)
(* of that moment, judged by the server later, delivered later still, and  *)
(* until then the user, the other requests and a restart of the service    *)
(* go on.  A redirect of the gate belongs to the render of the step that   *)
(* causes it.  A running local service answers before the client times     *)
(* out; one that is down makes every request fail.                         *)
(***************************************************************************)
EXTENDS Naturals

CONSTANTS Calls,       \* slots for requests of a console page in flight (a bound)
          MaxFailures  \* maxLoginFailures

ASSUME ConstantsAssumption == Calls # {} /\ MaxFailures \in Nat \ {0}

VARIABLES
    up, enabled,  \* the service runs, admin.password_hash is set
    failures,     \* wrong passwords counted for this address
    cookie,       \* the browser's cookie: it has one; the server accepts it
    auth,         \* the snapshot of useAuth.ts
    path,         \* the route: the public welcome page, the form, a console page
    probe,        \* the one request of loadAuthStatus
    login,        \* the request of the login form
    logout,       \* the request of handleLogout
    call          \* requestJson calls of the console pages

server == <<up, enabled, failures>>
vars == <<server, cookie, auth, path, probe, login, logout, call>>

\* The dashboard stands for the pages that poll (chat and logs too), the settings
\* page for those that ask the service only when they are opened or used (prompt too).
Console == {"/dashboard", "/settings"}
Paths == {"/", "/login"} \cup Console
NoCookie == [has |-> FALSE, ok |-> FALSE]
NoCall == [st |-> "none", same |-> FALSE, ok |-> FALSE]
InitialState == [required |-> FALSE, authenticated |-> TRUE, loaded |-> FALSE, probeFailed |-> FALSE]
SetState(r, a, failed) == [required |-> r, authenticated |-> a, loaded |-> TRUE, probeFailed |-> failed]

\* What AuthGate renders for a path: the path itself or the target of a Navigate.
\* Variant: an open console redirects before the failed probe is looked at.
GateShowsLogin(a, p) ==
    IF p = "/" \/ ~a.loaded THEN p
    ELSE IF p = "/login" THEN IF a.authenticated THEN "/dashboard" ELSE p
    ELSE IF a.required \/ a.probeFailed THEN "/login" ELSE p
Gate(a, p) ==
    IF p = "/" \/ ~a.loaded THEN p
    ELSE IF p = "/login" THEN IF ~a.probeFailed /\ (~a.required \/ a.authenticated) THEN "/dashboard" ELSE p
    ELSE IF a.required /\ ~a.authenticated THEN "/login" ELSE p

\* A render with the new snapshot at route p.
Render(a, p) == auth' = a /\ path' = Gate(a, p)

Init == /\ up \in BOOLEAN /\ enabled \in BOOLEAN /\ failures = 0
        /\ cookie \in {NoCookie, [has |-> TRUE, ok |-> TRUE], [has |-> TRUE, ok |-> FALSE]}
        /\ auth = InitialState /\ path \in Paths
        /\ probe = [st |-> "sent", required |-> FALSE, authenticated |-> FALSE]
        /\ login = "none" /\ logout = "none"
        /\ call = [c \in Calls |-> NoCall]

----------------------------------------------------------------------------
(* The service: sessions are signed with a key made at the start. *)

Stop == /\ up /\ up' = FALSE
        /\ UNCHANGED <<enabled, failures, cookie, auth, path, probe, login, logout, call>>

\* A password may have been set or removed in between; no old cookie is valid.
Start == /\ ~up /\ up' = TRUE
         /\ enabled' \in BOOLEAN /\ failures' = 0
         /\ cookie' = [cookie EXCEPT !.ok = FALSE]
         /\ call' = [c \in Calls |-> [call[c] EXCEPT !.ok = FALSE]]
         /\ UNCHANGED <<auth, path, probe, login, logout>>

Expire == /\ cookie.ok /\ cookie' = [cookie EXCEPT !.ok = FALSE]
          /\ call' = [c \in Calls |-> IF call[c].same THEN [call[c] EXCEPT !.ok = FALSE] ELSE call[c]]
          /\ UNCHANGED <<server, auth, path, probe, login, logout>>

WindowElapses == /\ failures > 0 /\ failures' = 0
                 /\ UNCHANGED <<up, enabled, cookie, auth, path, probe, login, logout, call>>

----------------------------------------------------------------------------
(* loadAuthStatus: once per page load. *)

StatusServed ==
    /\ up /\ probe.st = "sent"
    /\ probe' = [st |-> "answered", required |-> enabled, authenticated |-> ~enabled \/ cookie.ok]
    /\ UNCHANGED <<server, cookie, auth, path, login, logout, call>>

StatusLoaded ==
    /\ probe.st = "answered"
    /\ probe' = [probe EXCEPT !.st = "over"]
    /\ Render(SetState(probe.required, probe.authenticated, FALSE), path)
    /\ UNCHANGED <<server, cookie, login, logout, call>>

StatusFails ==
    /\ ~up /\ probe.st = "sent"
    /\ probe' = [probe EXCEPT !.st = "over"]
    /\ Render(SetState(FALSE, TRUE, TRUE), path)
    /\ UNCHANGED <<server, cookie, login, logout, call>>

\* A page load starts from scratch: nothing in flight reaches the new page.
Reload == /\ auth' = InitialState /\ path' \in Paths
          /\ probe' = [st |-> "sent", required |-> FALSE, authenticated |-> FALSE]
          /\ login' = "none" /\ logout' = "none" /\ call' = [c \in Calls |-> NoCall]
          /\ UNCHANGED <<server, cookie>>

\* Links, the back button; the gate has the last word.
Navigate == /\ auth.loaded
            /\ \E p \in Paths \ {path} : path' = Gate(auth, p)
            /\ UNCHANGED <<server, cookie, auth, probe, login, logout, call>>

----------------------------------------------------------------------------
(* The form.  One login in flight (a bound for a form left and reopened).   *)

Form == path = "/login" /\ auth.loaded
Submit(right) == /\ Form /\ login = "none"
                 /\ login' = IF right THEN "right" ELSE "wrong"
                 /\ UNCHANGED <<server, cookie, auth, path, probe, logout, call>>
SubmitRight == Submit(TRUE)
SubmitWrong == Submit(FALSE)

Throttled == failures >= MaxFailures
LoginServed ==
    /\ up /\ login \in {"right", "wrong"}
    /\ IF ~enabled \/ (~Throttled /\ login = "right")
       THEN login' = "ok" /\ failures' = (IF enabled THEN 0 ELSE failures)
       ELSE login' = "refused" /\ failures' = (IF Throttled THEN failures ELSE failures + 1)
    /\ UNCHANGED <<up, enabled, cookie, auth, path, probe, logout, call>>

\* Variant: the snapshot keeps its old value.
LoginForgotten ==
    /\ login = "ok" /\ login' = "none"
    /\ cookie' = IF enabled THEN [has |-> TRUE, ok |-> TRUE] ELSE cookie
    /\ call' = IF enabled THEN [c \in Calls |-> [call[c] EXCEPT !.same = FALSE]] ELSE call
    /\ Render(auth, "/dashboard")
    /\ UNCHANGED <<server, probe, logout>>
\* The answer brings the cookie (none without a password), opens the console
\* and goes to it; requests sent before carry the cookie they had.
LoginSucceeds ==
    /\ login = "ok" /\ login' = "none"
    /\ cookie' = IF enabled THEN [has |-> TRUE, ok |-> TRUE] ELSE cookie
    /\ call' = IF enabled THEN [c \in Calls |-> [call[c] EXCEPT !.same = FALSE]] ELSE call
    /\ Render(SetState(auth.required, TRUE, FALSE), "/dashboard")
    /\ UNCHANGED <<server, probe, logout>>

LoginFails ==
    /\ login = "refused" \/ (~up /\ login \in {"right", "wrong"})
    /\ login' = "none"
    /\ UNCHANGED <<server, cookie, auth, path, probe, logout, call>>

----------------------------------------------------------------------------
(* handleLogout: whatever the request does, the page is logged out. *)

Logout == /\ path \in Console /\ auth.loaded /\ auth.required /\ logout = "none"
          /\ logout' = "sent"
          /\ UNCHANGED <<server, cookie, auth, path, probe, login, call>>

\* Variant: a failed request leaves the snapshot alone.
LogoutReturnsIfServed ==
    /\ logout = "sent" /\ logout' = "none"
    /\ IF up THEN /\ cookie' = NoCookie
                  /\ Render(SetState(auth.required, FALSE, auth.probeFailed), "/login")
       ELSE path' = Gate(auth, "/login") /\ UNCHANGED <<cookie, auth>>
    /\ call' = [c \in Calls |-> [call[c] EXCEPT !.same = FALSE]]
    /\ UNCHANGED <<server, probe, login>>
LogoutReturns ==
    /\ logout = "sent" /\ logout' = "none"
    /\ cookie' = IF up THEN NoCookie ELSE cookie
    /\ call' = IF up THEN [c \in Calls |-> [call[c] EXCEPT !.same = FALSE]] ELSE call
    /\ Render(SetState(auth.required, FALSE, auth.probeFailed), "/login")
    /\ UNCHANGED <<server, probe, login>>

----------------------------------------------------------------------------
(* requestJson of a console page. *)

Request(c) == /\ auth.loaded /\ call[c].st = "none"
              /\ call' = [call EXCEPT ![c] = [st |-> "sent", same |-> TRUE, ok |-> cookie.ok]]
              /\ UNCHANGED <<server, cookie, auth, path, probe, login, logout>>

\* The timer of a page that polls while it is shown.
Poll(c) == path = "/dashboard" /\ Request(c)

\* The one read of a settings page that is opened, or a save of its user.
Ask(c) == path = "/settings" /\ Request(c)

\* The middleware.
CallServed(c) ==
    /\ up /\ call[c].st = "sent"
    /\ call' = [call EXCEPT ![c].st = IF ~enabled \/ call[c].ok THEN "ok" ELSE "401"]
    /\ UNCHANGED <<server, cookie, auth, path, probe, login, logout>>

\* notifyUnauthorized: the handler is there while AuthGate is mounted.
\* Variant: the handler forgets to clear the snapshot, the gate sends the user back.
UnauthorizedNavigates(c) ==
    /\ call[c].st = "401" /\ call' = [call EXCEPT ![c] = NoCall]
    /\ path' = IF path = "/" THEN path ELSE Gate(auth, "/login")
    /\ UNCHANGED <<server, cookie, auth, probe, login, logout>>
Unauthorized(c) ==
    /\ call[c].st = "401" /\ call' = [call EXCEPT ![c] = NoCall]
    /\ IF path = "/" THEN UNCHANGED <<auth, path>> ELSE Render(SetState(TRUE, FALSE, FALSE), "/login")
    /\ UNCHANGED <<server, cookie, probe, login, logout>>

\* Variant: any failure counts as an expired session.
CallEndsAsUnauthorized(c) ==
    /\ call[c].st = "ok" \/ (~up /\ call[c].st = "sent")
    /\ call' = [call EXCEPT ![c] = NoCall]
    /\ IF call[c].st = "ok" \/ path = "/" THEN UNCHANGED <<auth, path>>
       ELSE Render(SetState(TRUE, FALSE, FALSE), "/login")
    /\ UNCHANGED <<server, cookie, probe, login, logout>>
CallEnds(c) ==
    /\ call[c].st = "ok" \/ (~up /\ call[c].st = "sent")
    /\ call' = [call EXCEPT ![c] = NoCall]
    /\ UNCHANGED <<server, cookie, auth, path, probe, login, logout>>

Probing == StatusServed \/ StatusLoaded \/ StatusFails
LoggingIn == LoginServed \/ LoginSucceeds \/ LoginFails
Calling(c) == Poll(c) \/ CallServed(c) \/ Unauthorized(c) \/ CallEnds(c)

Next == \/ Stop \/ Start \/ Expire \/ WindowElapses \/ Probing \/ Reload \/ Navigate
        \/ SubmitRight \/ SubmitWrong \/ LoggingIn \/ Logout \/ LogoutReturns
        \/ \E c \in Calls : Ask(c) \/ Calling(c)

Spec == Init /\ [][Next]_vars

\* Requests are answered or fail, the timers of the pages that poll fire, the
\* throttle's window ends; nobody has to use a settings page.
FairSpec == /\ Spec /\ WF_vars(Probing) /\ WF_vars(LoggingIn) /\ WF_vars(LogoutReturns)
            /\ WF_vars(WindowElapses)
            /\ \A c \in Calls : WF_vars(Calling(c))

----------------------------------------------------------------------------
\* The gate never bounces: the route on the screen is one the gate renders for
\* the snapshot of that moment, so one redirect is always the last
\* ("the loop the spec warns about", AuthGate.tsx), and the console is never
\* closed to an installation of which nobody said that it has a password.
GateSettles ==
    /\ ~auth.required => \A p \in Console : Gate(auth, p) = p
    /\ Gate(auth, path) = path
    /\ \A p \in Paths : Gate(auth, Gate(auth, p)) = Gate(auth, p)

\* Nobody with a valid session is sent from the console to the form, except by
\* the own logout or by the late answer to a request that carried an older
\* cookie: neither a late status answer nor a login in flight does it.
StaysIn ==
    [][(path \in Console /\ path' = "/login" /\ cookie.ok /\ enabled =>
           Navigate \/ Reload \/ LogoutReturns \/ \E c \in Calls : Unauthorized(c) /\ ~call[c].same)]_vars

\* A logout ends at the form, also when its request failed and the cookie is
\* still there, and the console stays closed until the next login or page load,
\* although answers to older requests still arrive.
LogoutStays ==
    [][/\ LogoutReturns => path' = "/login"
       /\ auth.loaded /\ auth.required /\ ~auth.authenticated /\ path' \in Console
             => LoginSucceeds \/ Reload]_vars

\* An expired session is noticed: a page that polls and stays open, with the
\* service up, ends at the form (or the user logs in again, leaves or reloads).
\* A settings page that stays open has no timer and notices nothing until it is used.
ExpiryNoticed ==
    (path = "/dashboard" /\ auth.loaded /\ enabled /\ ~cookie.ok)
        ~> (path # "/dashboard" \/ ~auth.loaded \/ cookie.ok \/ ~enabled \/ ~up)

\* Who knows the password gets in: with a service that stays up and a user who
\* keeps submitting the right one (no more wrong ones, no more reloads), the form is left,
\* also after it was throttled, reached by a late 401, or opened although the
\* probe had failed.
OperatorGetsIn ==
    SF_vars(SubmitRight) /\ <>[][~SubmitWrong /\ ~Reload]_vars /\ <>[]up
        => (Form ~> path # "/login")
=============================================================================
