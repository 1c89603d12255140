------------------------------ MODULE LivePages ------------------------------
(***************************************************************************)
(* The two pages that follow the login from outside: the welcome page with *)
(* the QR code (useLoginStatus.ts, WelcomePage.tsx) and the dashboard      *)
(* (useDashboard.ts, dashboard.ts, DashboardPage.tsx).  One of them is     *)
(* mounted.  It polls; a poll is a request per endpoint, each answered     *)
(* with the service's data of that moment or failed, delivered together    *)
(* later.  Versions stand for the data: 0 is none, Demo the made-up data.  *)
(* The service's login moves as Login reaches it, late callbacks included: *)
(* from any state to any other but back to idle, and failed only while the *)
(* loop that serves retries is alive (LoopEndsForAReason).  A retry may    *)
(* fail again, any number of times, and faster than any page polls.        *)
(***************************************************************************)
EXTENDS Integers

CONSTANTS LoginStates,  \* states of /api/login that the service goes through
          MaxVer,       \* changes of the service's data; retries and what comes of them aside (a bound)
          Slots         \* room for polls in flight

ASSUME LiveAssumption ==
    /\ {"waiting_scan", "logged_in", "failed"} \subseteq LoginStates
    /\ {"connecting", "demo"} \cap LoginStates = {}
    /\ MaxVer \in Nat /\ 1 \in Slots

VARIABLES
    ver, wechat, req,     \* the service: version of its other data, login state, a retry it accepted
    page, snap, seen,     \* the mounted page, its snapshot; history: its newest status answer
    timer, polls,         \* the page's poll timer and polls
    post                  \* POST /api/login/retry of each page

service == <<ver, wechat, req>>
screen == <<page, snap, seen>>
liveVars == <<service, screen, timer, polls, post>>

Pages == {"welcome", "dashboard"}
Demo == -1
Asked == [st |-> "sent", ver |-> 0, state |-> "idle"]
NotAsked == [Asked EXCEPT !.st = "none"]
NoPoll == [initial |-> FALSE, status |-> NotAsked, logs |-> NotAsked, total |-> NotAsked]
InitialSnapshot == [mode |-> "connecting", state |-> "idle", ver |-> 0, logs |-> 0, total |-> 0]

\* The welcome page asks for the login; the dashboard for status and logs, the
\* first time for the size of the history too.
NewPoll(p, initial) ==
    [initial |-> initial, status |-> Asked,
     logs  |-> IF p = "dashboard" THEN Asked ELSE NotAsked,
     total |-> IF p = "dashboard" /\ initial THEN Asked ELSE NotAsked]

InFlight(s) == polls[s].status.st # "none"
Settled(s) == InFlight(s) /\ \A part \in {"status", "logs", "total"} : polls[s][part].st # "sent"

LiveInit == /\ ver = 1 /\ wechat \in LoginStates /\ req = FALSE
            /\ page \in Pages /\ snap = InitialSnapshot /\ seen = 0
            /\ timer = FALSE /\ polls = [s \in Slots |-> IF s = 1 THEN NewPoll(page, TRUE) ELSE NoPoll]
            /\ post = [p \in Pages |-> "none"]

----------------------------------------------------------------------------
(* The service.                                                            *)

LoginMoves == /\ ver <= MaxVer /\ ver' = ver + 1
              /\ \E state \in LoginStates \ {wechat, "idle"} : wechat' = state
              /\ UNCHANGED <<req, screen, timer, polls, post>>

\* loginLoop serves an accepted retry once it has given up.
RetryTaken == /\ req /\ wechat = "failed"
              /\ req' = FALSE /\ wechat' = "waiting_scan"
              /\ UNCHANGED <<ver, screen, timer, polls, post>>

\* The attempt fails: no code, no answer of WeChat, the scan's timeout.
AttemptFails == /\ wechat = "waiting_scan" /\ wechat' = "failed"
                /\ UNCHANGED <<ver, req, screen, timer, polls, post>>

Answer(s, part, answer) ==
    /\ polls[s][part].st = "sent" /\ polls' = [polls EXCEPT ![s][part] = answer]
    /\ UNCHANGED <<service, screen, timer, post>>
PartServed(s) ==
    \E part \in {"status", "logs", "total"} : Answer(s, part, [st |-> "ok", ver |-> ver, state |-> wechat])
\* No answer, a malformed one, an error, the abort after four seconds.
PartFails(s) == \E part \in {"status", "logs", "total"} : Answer(s, part, [Asked EXCEPT !.st = "failed"])

----------------------------------------------------------------------------
(* The poll cycle.                                                         *)

\* Variant: an interval that does not wait for the poll before.
PollStartsAnyway(s) ==
    /\ ~InFlight(s) /\ snap.mode # "connecting"
    /\ polls' = [polls EXCEPT ![s] = NewPoll(page, FALSE)] /\ timer' = FALSE
    /\ UNCHANGED <<service, screen, post>>
PollStarts(s) ==
    /\ timer /\ ~InFlight(s)
    /\ polls' = [polls EXCEPT ![s] = NewPoll(page, FALSE)] /\ timer' = FALSE
    /\ UNCHANGED <<service, screen, post>>

\* Variant: the timer is set again after good polls only.
TimerIfServed(s) == timer' = (polls[s].status.st = "ok")
\* scheduleNextPoll
SetTimer(s) == timer' = TRUE
PollOver(s) == /\ polls' = [polls EXCEPT ![s] = NoPoll] /\ SetTimer(s)
               /\ seen' = (IF polls[s].status.ver > seen THEN polls[s].status.ver ELSE seen)

\* useLoginStatus: a failure shows the waiting page without a code.
WelcomePolled(s) ==
    /\ page = "welcome" /\ Settled(s) /\ PollOver(s)
    /\ LET answer == polls[s].status IN
       snap' = IF answer.st = "ok"
               THEN [snap EXCEPT !.mode = "live", !.state = answer.state, !.ver = answer.ver]
               ELSE [snap EXCEPT !.mode = "demo", !.state = "waiting_scan", !.ver = 0]
    /\ UNCHANGED <<service, page, post>>

\* useDashboard: what failed keeps its last value; the demo is for the first failure.
DashboardPolled(s) ==
    /\ page = "dashboard" /\ Settled(s) /\ PollOver(s)
    /\ LET answer == polls[s] IN
       snap' = IF answer.status.st = "ok"
               THEN [mode |-> "live", state |-> answer.status.state, ver |-> answer.status.ver,
                     logs  |-> IF answer.logs.st = "ok" THEN answer.logs.ver
                               ELSE IF answer.initial THEN 0 ELSE snap.logs,
                     total |-> IF answer.total.st = "ok" THEN answer.total.ver ELSE snap.total]
               ELSE IF snap.mode = "connecting" THEN [InitialSnapshot EXCEPT !.mode = "demo"] ELSE snap
    /\ UNCHANGED <<service, page, post>>

----------------------------------------------------------------------------
(* What the pages show, and the user.                                      *)

\* describeWechat and the note above the dashboard.
Wechat == CASE snap.mode # "live" -> "muted"
            [] snap.mode = "live" /\ snap.state = "logged_in" -> "brand"
            [] snap.mode = "live" /\ snap.state = "failed" -> "error"
            [] OTHER -> "warn"
OfflineNote == snap.mode # "connecting" /\ Wechat # "brand"

\* Sessions, history, uptime, provider and log of the dashboard; a skeleton while connecting.
Shown == LET value(real, demo) == IF snap.mode = "demo" THEN demo ELSE real IN
         [sessions |-> value(snap.ver, Demo), total |-> value(snap.total, Demo), logs |-> value(snap.logs, Demo),
          uptime   |-> value(snap.ver, Demo), provider |-> value(snap.ver, 0)]

\* describeStatus and the button of the welcome page.
Copy == IF snap.mode = "live" THEN snap.state ELSE snap.mode
Button == CASE snap.state = "failed" -> "refresh" [] snap.state = "logged_in" -> "enter" [] OTHER -> "disabled"

Mount(p) == /\ page' = p /\ snap' = InitialSnapshot /\ seen' = 0
            /\ timer' = FALSE /\ polls' = [s \in Slots |-> IF s = 1 THEN NewPoll(p, TRUE) ELSE NoPoll]

\* A link, a back button; a cleared timer and aborted polls stay behind.
Goes == \E p \in Pages : Mount(p) /\ UNCHANGED <<service, post>>
EnterWorkspace == page = "welcome" /\ Button = "enter" /\ Mount("dashboard") /\ UNCHANGED <<service, post>>

\* One retry per page at a time (for the welcome page left and reopened, a bound).
RefreshQr == /\ page = "welcome" /\ Button = "refresh" /\ post["welcome"] = "none"
             /\ post' = [post EXCEPT !["welcome"] = "sent"]
             /\ UNCHANGED <<service, screen, timer, polls>>

\* The dashboard's button: to the welcome page, and the retry, whose answer nobody reads.
RetryLogin == /\ page = "dashboard" /\ snap.mode # "connecting" /\ post["dashboard"] = "none"
              /\ post' = [post EXCEPT !["dashboard"] = "sent"] /\ Mount("welcome") /\ UNCHANGED service

\* RetryScan takes one request at a time; a refused one is answered all the same.
PostServed(p) == /\ post[p] = "sent" /\ post' = [post EXCEPT ![p] = IF req THEN "refused" ELSE "accepted"]
                 /\ req' = TRUE
                 /\ UNCHANGED <<ver, wechat, screen, timer, polls>>
\* Variant: a refusal leaves the button busy.
PostReturnsAccepted(p) == /\ post[p] = "accepted" /\ post' = [post EXCEPT ![p] = "none"]
                          /\ UNCHANGED <<service, screen, timer, polls>>
PostReturns(p) == /\ post[p] \in {"accepted", "refused"} /\ post' = [post EXCEPT ![p] = "none"]
                  /\ UNCHANGED <<service, screen, timer, polls>>
PostFails(p) == /\ post[p] = "sent" /\ post' = [post EXCEPT ![p] = "none"]
                /\ UNCHANGED <<service, screen, timer, polls>>

Failure == (\E s \in Slots : PartFails(s)) \/ (\E p \in Pages : PostFails(p))
Polling == \E s \in Slots : PartServed(s) \/ PartFails(s) \/ PollStarts(s) \/ WelcomePolled(s) \/ DashboardPolled(s)
Posting(p) == PostServed(p) \/ PostReturns(p) \/ PostFails(p)
Leaving == Goes \/ EnterWorkspace \/ RetryLogin
LiveNext == LoginMoves \/ RetryTaken \/ AttemptFails \/ Polling \/ Leaving \/ RefreshQr \/ \E p \in Pages : Posting(p)

LiveSpec == LiveInit /\ [][LiveNext]_liveVars
\* Requests end, timers fire, the login loop serves what it accepted (AcceptedRetryServed of Login).
FairLiveSpec == /\ LiveSpec /\ WF_liveVars(Polling) /\ WF_liveVars(RetryTaken)
                /\ \A p \in Pages : WF_liveVars(Posting(p))

Healthy == <>[][~Failure]_liveVars
Stays == <>[][~Leaving]_liveVars
\* The service comes to rest; WeChat can be reached: no attempt fails any more.
Rests == <>[][UNCHANGED <<ver, wechat>>]_liveVars
Reachable == <>[][wechat # "failed" => wechat' # "failed"]_liveVars

----------------------------------------------------------------------------
\* "A transient hiccup can never replace live numbers with mock numbers"
\* (useDashboard.ts), and old answers never replace newer ones: once a status
\* has arrived nothing on the dashboard is made up and the newest answer is on
\* the screen; both pages call the login done only if that answer said so.
HonestScreen ==
    /\ page = "dashboard" /\ seen > 0 =>
         /\ snap.mode = "live" /\ snap.ver = seen
         /\ \A part \in DOMAIN Shown : Shown[part] # Demo /\ Shown[part] <= ver
    /\ page = "welcome" => snap.ver \in {0, seen} /\ (snap.ver = 0 => Button = "disabled" /\ Copy \notin LoginStates)
    /\ Button = "enter" \/ (snap.mode # "connecting" /\ ~OfflineNote) => snap.ver > 0

\* A page that stays open catches up: when answers come again, also after any
\* number of failed polls, and the service's data is at rest, it shows the newest
\* for good.
CatchesUp == Healthy /\ Stays /\ Rests => <>[](snap.mode = "live" /\ snap.ver = ver /\ snap.state = wechat)

\* A new code comes: when answers come and WeChat can be reached in the end, a user
\* who keeps asking on the welcome page does not look at "failed" for ever, whoever
\* else asked (the dashboard's button, another window) and whenever the failure
\* became known.  While WeChat cannot be reached, every accepted retry may fail
\* between two polls and the page shows "failed" all the time.
NewCodeComes ==
    Healthy /\ Stays /\ Reachable /\ SF_liveVars(RefreshQr)
        => (Button = "refresh" ~> Button # "refresh" \/ page # "welcome")
=============================================================================
