------------------------------- MODULE Login --------------------------------
(***************************************************************************)
(* The WeChat login state machine (adapters/openwechat/adapter.go,         *)
(* loginLoop), the login procedures of the bots it creates                 *)
(* (internal/openwechat), and main's shutdown.  The loop tries the saved   *)
(* token a few times, then asks for one QR scan, then serves retries until *)
(* a login succeeds.  A token login runs inside the loop; a scan login     *)
(* runs in a goroutine of its own, which outlives the loop's three minutes *)
(* of patience and still holds the callbacks that write the status.        *)
(* Variants are faulty forms of the step they precede, used by no step of  *)
(* Next.                                                                   *)
(***************************************************************************)
EXTENDS Integers, FiniteSets

CONSTANTS MaxHot,    \* maxHotLoginAttempts
          MaxAsked   \* bound: accepted retry requests

ASSUME LoginAssumption == MaxHot \in Nat \ {0} /\ MaxAsked \in Nat

(* Bot 0 is the one NewAdapter makes, which never logs in; the loop makes  *)
(* one per token attempt, one for its scan, and one per retry.             *)
Bot == 0 .. MaxHot + 1 + MaxAsked

VARIABLES
  state, attempts, qr,  \* a.login: State, Attempts, and the bot QRURL belongs to (0: none)
  req,        \* a.loginReq, a channel with room for one
  lpc,        \* where loginLoop is
  manual,     \* it has entered its retry loop
  nbot,       \* the newest bot
  kind,       \* the login each bot was made for
  bpc,        \* where that login is
  self, up,   \* bot.self # nil; bot.context not cancelled
  syncing,    \* the bot's message loop runs
  active,     \* a.bot
  token,      \* whose session the token file holds: "none", "earlier" runs', or this run's
  cancelled, loginStop,  \* the application context; a.loginStop closed
  mpc,        \* main's shutdown
  blockOn,    \* the bot main blocks on
  asked       \* history: accepted retries of each kind

statusVars == <<state, attempts, qr>>
loopVars   == <<lpc, manual, nbot, kind>>
botVars    == <<self, up, syncing>>
mainVars   == <<cancelled, loginStop, mpc, blockOn>>
reqVars    == <<req, asked>>
vars == <<statusVars, loopVars, bpc, botVars, active, token, mainVars, reqVars>>

TypeOK ==
  /\ state \in {"idle", "hot_logging_in", "waiting_scan", "scanned", "logged_in", "failed"}
  /\ attempts \in 0 .. MaxHot /\ qr \in Bot
  /\ req \in {"none", "hot", "scan"}
  /\ lpc \in {"start", "attempt", "backoff", "tryhot", "hotlogin", "autoscan", "tryscan",
              "scanwait", "publish", "mark", "failed", "parked", "exited"}
  /\ manual \in BOOLEAN
  /\ nbot \in Bot
  /\ kind \in [Bot -> {"none", "hot", "scan"}]
  /\ bpc \in [Bot -> {"none", "hot", "uuid", "gotuuid", "polling", "scanned", "confirmed",
                      "gotinit", "inited", "logincb", "ok", "err"}]
  /\ self \in [Bot -> BOOLEAN] /\ up \in [Bot -> BOOLEAN] /\ syncing \in [Bot -> BOOLEAN]
  /\ active \in Bot /\ blockOn \in Bot
  /\ token \in {"none", "earlier", "current"}
  /\ cancelled \in BOOLEAN /\ loginStop \in BOOLEAN
  /\ mpc \in {"up", "cancelled", "exited", "stopping", "draining", "blocked", "done"}
  /\ asked \in [{"hot", "scan"} -> Nat]

Init ==
  /\ state = "idle" /\ attempts = 0 /\ qr = 0
  /\ req = "none" /\ asked = [k \in {"hot", "scan"} |-> 0]
  /\ lpc = "start" /\ manual = FALSE /\ nbot = 0
  /\ kind = [b \in Bot |-> "none"]
  /\ bpc = [b \in Bot |-> "none"]
  /\ self = [b \in Bot |-> FALSE]
  /\ up = [b \in Bot |-> TRUE]
  /\ syncing = [b \in Bot |-> FALSE]
  /\ active = 0 /\ blockOn = 0
  /\ token \in {"none", "earlier"}
  /\ cancelled = FALSE /\ loginStop = FALSE
  /\ mpc = "up"

-----------------------------------------------------------------------------
Running == mpc # "done"

(* loginLoop.                                                              *)
Go(from, to) == Running /\ lpc = from /\ lpc' = to
NewBot(k, pc) ==
  /\ nbot' = nbot + 1
  /\ kind' = [kind EXCEPT ![nbot + 1] = k]
  /\ bpc' = [bpc EXCEPT ![nbot + 1] = pc]

(* bot.Exit: the context is cancelled, so every HTTP call of b fails.      *)
Exit(b) ==
  /\ self' = [self EXCEPT ![b] = FALSE]
  /\ up' = [up EXCEPT ![b] = FALSE]
  /\ UNCHANGED syncing

(* The token path is taken with auto_login on and a token on disk.         *)
Decide(autoLogin) ==
  /\ Go("start", IF autoLogin /\ token # "none" THEN "attempt" ELSE "autoscan")
  /\ UNCHANGED <<statusVars, manual, nbot, kind, bpc, botVars, active, token, mainVars, reqVars>>

(* The next automatic token login: the first at once, the others after a   *)
(* backoff that a shutdown cuts short.                                     *)
NextAttempt ==
  /\ attempts < MaxHot
  /\ Go("attempt", IF attempts = 0 THEN "tryhot" ELSE "backoff")
  /\ state' = "hot_logging_in" /\ attempts' = attempts + 1 /\ qr' = 0
  /\ UNCHANGED <<manual, nbot, kind, bpc, botVars, active, token, mainVars, reqVars>>

AttemptsUsed ==
  /\ attempts = MaxHot
  /\ Go("attempt", "autoscan")
  /\ UNCHANGED <<statusVars, manual, nbot, kind, bpc, botVars, active, token, mainVars, reqVars>>

BackoffElapses ==
  /\ Go("backoff", "tryhot")
  /\ UNCHANGED <<statusVars, manual, nbot, kind, bpc, botVars, active, token, mainVars, reqVars>>

BackoffStops ==
  /\ cancelled \/ loginStop
  /\ Go("backoff", "exited")
  /\ UNCHANGED <<statusVars, manual, nbot, kind, bpc, botVars, active, token, mainVars, reqVars>>

(* tryHotLogin: botReload reads the token, webInit asks WeChat for the     *)
(* account, saves the session as the new token, notifies the phone and     *)
(* starts the message loop.  Nothing but its HTTP timeout stops it.        *)
TryHot ==
  /\ Go("tryhot", "hotlogin")
  /\ NewBot("hot", "hot")
  /\ UNCHANGED <<statusVars, manual, botVars, active, token, mainVars, reqVars>>

HotSucceeds ==
  /\ token # "none"
  /\ Go("hotlogin", "publish")
  /\ bpc' = [bpc EXCEPT ![nbot] = "ok"]
  /\ self' = [self EXCEPT ![nbot] = TRUE]
  /\ syncing' = [syncing EXCEPT ![nbot] = TRUE]
  /\ token' = "current"
  /\ UNCHANGED <<statusVars, manual, nbot, kind, up, active, mainVars, reqVars>>

HotFails ==
  /\ Go("hotlogin", IF manual THEN "failed" ELSE "attempt")
  /\ bpc' = [bpc EXCEPT ![nbot] = "err"]
  /\ \/ UNCHANGED <<self, token>>
     \/ /\ token # "none"       \* past WebInit: the account is known,
        /\ self' = [self EXCEPT ![nbot] = TRUE]
        /\ token' \in {token, "current", "none"}    \* its session saved, or not, or
                                                    \* the file only truncated
  /\ UNCHANGED <<statusVars, manual, nbot, kind, up, syncing, active, mainVars, reqVars>>

(* setBot, then markLoggedIn, after which the loop is over.                *)
Publish ==
  /\ Go("publish", "mark")
  /\ active' = nbot
  /\ UNCHANGED <<statusVars, manual, nbot, kind, bpc, botVars, token, mainVars, reqVars>>

MarkLoggedIn ==
  /\ Go("mark", "exited")
  /\ state' = "logged_in"
  /\ UNCHANGED <<attempts, qr, manual, nbot, kind, bpc, botVars, active, token, mainVars, reqVars>>

AutoScan ==
  /\ Go("autoscan", "tryscan")
  /\ state' = "waiting_scan"
  /\ UNCHANGED <<attempts, qr, manual, nbot, kind, bpc, botVars, active, token, mainVars, reqVars>>

(* tryScanLogin: a goroutine logs in, and the loop waits for its result,   *)
(* three minutes, or the end of the program; Go picks any case that is     *)
(* ready.                                                                  *)
TryScanTooLate ==
  /\ cancelled
  /\ Go("tryscan", "failed")
  /\ UNCHANGED <<statusVars, manual, nbot, kind, bpc, botVars, active, token, mainVars, reqVars>>

TryScan ==
  /\ ~cancelled
  /\ Go("tryscan", "scanwait")
  /\ NewBot("scan", "uuid")
  /\ UNCHANGED <<statusVars, manual, botVars, active, token, mainVars, reqVars>>

ScanReturns ==
  /\ bpc[nbot] \in {"ok", "err"}
  /\ Go("scanwait", IF bpc[nbot] = "ok" THEN "publish" ELSE "failed")
  /\ UNCHANGED <<statusVars, manual, nbot, kind, bpc, botVars, active, token, mainVars, reqVars>>

(* Variants: the bot is left running; there is no timer.                   *)
ScanGivesUpQuietly ==
  /\ Go("scanwait", "failed")
  /\ UNCHANGED <<statusVars, manual, nbot, kind, bpc, botVars, active, token, mainVars, reqVars>>
ScanWithoutTimer == FALSE

ScanGivesUp ==
  /\ Go("scanwait", "failed")
  /\ Exit(nbot)
  /\ UNCHANGED <<statusVars, manual, nbot, kind, bpc, active, token, mainVars, reqVars>>
ScanTimesOut == ScanGivesUp           \* scanQRTimeout has passed
ScanCancelled == cancelled /\ ScanGivesUp

GiveUp ==
  /\ Go("failed", "parked")
  /\ state' = "failed"
  /\ manual' = TRUE
  /\ UNCHANGED <<attempts, qr, nbot, kind, bpc, botVars, active, token, mainVars, reqVars>>

(* An explicit retry: every accepted request starts a fresh cycle.         *)
ServeRetry ==
  /\ req # "none"
  /\ Go("parked", IF req = "scan" THEN "tryscan" ELSE "tryhot")
  /\ state' = IF req = "scan" THEN "waiting_scan" ELSE "hot_logging_in"
  /\ attempts' = 0 /\ qr' = 0
  /\ req' = "none"
  /\ UNCHANGED <<manual, nbot, kind, bpc, botVars, active, token, mainVars, asked>>

ParkedStops ==
  /\ cancelled \/ loginStop
  /\ Go("parked", "exited")
  /\ UNCHANGED <<statusVars, manual, nbot, kind, bpc, botVars, active, token, mainVars, reqVars>>

(* RetryLogin and RetryScan, from the dashboard: refused when one waits.   *)
Retry(k) ==
  /\ Running /\ req = "none"
  /\ asked["hot"] + asked["scan"] < MaxAsked
  /\ req' = k
  /\ asked' = [asked EXCEPT ![k] = @ + 1]
  /\ UNCHANGED <<statusVars, loopVars, bpc, botVars, active, token, mainVars>>

-----------------------------------------------------------------------------
(* bot.Login in its goroutine (CheckLogin, loginFromURL, webInit).  A call *)
(* needs the bot's context; what follows its answer does not look at it.   *)
Step(b, from, to) == Running /\ bpc[b] = from /\ bpc' = [bpc EXCEPT ![b] = to]

Answered(b) ==
  /\ up[b]
  /\ \/ Step(b, "uuid", "gotuuid")
     \/ Step(b, "polling", "scanned")
     \/ Step(b, "polling", "confirmed")
     \/ Step(b, "confirmed", "gotinit")
  /\ UNCHANGED <<statusVars, loopVars, botVars, active, token, mainVars, reqVars>>

UUIDCallback(b) ==
  /\ Step(b, "gotuuid", "polling")
  /\ state' = "waiting_scan" /\ qr' = b
  /\ UNCHANGED <<attempts, loopVars, botVars, active, token, mainVars, reqVars>>

ScanCallBack(b) ==
  /\ Step(b, "scanned", "polling")
  /\ state' = "scanned"
  /\ UNCHANGED <<attempts, qr, loopVars, botVars, active, token, mainVars, reqVars>>

InitUserInfo(b) ==
  /\ Step(b, "gotinit", "inited")
  /\ self' = [self EXCEPT ![b] = TRUE]
  /\ UNCHANGED <<statusVars, loopVars, up, syncing, active, token, mainVars, reqVars>>

(* The bot has no storage, so no token is saved; then the phone is told.   *)
NotifyAndSync(b) ==
  /\ up[b]
  /\ Step(b, "inited", "logincb")
  /\ syncing' = [syncing EXCEPT ![b] = TRUE]
  /\ UNCHANGED <<statusVars, loopVars, self, up, active, token, mainVars, reqVars>>

LoginCallBack(b) ==
  /\ Step(b, "logincb", "ok")
  /\ state' = "logged_in"
  /\ UNCHANGED <<attempts, qr, loopVars, botVars, active, token, mainVars, reqVars>>

LoginFails(b) ==
  /\ \E pc \in {"uuid", "polling", "confirmed", "inited"} : Step(b, pc, "err")
  /\ UNCHANGED <<statusVars, loopVars, botVars, active, token, mainVars, reqVars>>

(* runMessageLoop: it ends when the bot is exited, and exits the bot when  *)
(* the session is over (logged out on the phone, kicked, network lost).    *)
SyncStops(b) ==
  /\ Running /\ syncing[b] /\ (~up[b] \/ ~self[b])
  /\ syncing' = [syncing EXCEPT ![b] = FALSE]
  /\ UNCHANGED <<statusVars, loopVars, bpc, self, up, active, token, mainVars, reqVars>>

SessionEnds(b) ==
  /\ Running /\ syncing[b] /\ up[b]
  /\ self' = [self EXCEPT ![b] = FALSE]
  /\ up' = [up EXCEPT ![b] = FALSE]
  /\ syncing' = [syncing EXCEPT ![b] = FALSE]
  /\ UNCHANGED <<statusVars, loopVars, bpc, active, token, mainVars, reqVars>>

-----------------------------------------------------------------------------
(* main, on a signal: cancel(), Bot().Exit(), StopLoginLoop, then the      *)
(* delivery shutdown (Delivery), and Bot().Block().                        *)
MainGo(from, to) == mpc = from /\ mpc' = to

Signal ==
  /\ MainGo("up", "cancelled")
  /\ cancelled' = TRUE
  /\ UNCHANGED <<statusVars, loopVars, bpc, botVars, active, token, loginStop, blockOn, reqVars>>

ExitActive ==
  /\ MainGo("cancelled", "exited")
  /\ Exit(active)
  /\ UNCHANGED <<statusVars, loopVars, bpc, active, token, cancelled, loginStop, blockOn, reqVars>>

StopLoginLoop ==
  /\ MainGo("exited", "stopping")
  /\ loginStop' = TRUE
  /\ UNCHANGED <<statusVars, loopVars, bpc, botVars, active, token, cancelled, blockOn, reqVars>>

LoopStopped ==
  /\ MainGo("stopping", "draining")     \* loginDone, or five seconds
  /\ UNCHANGED <<statusVars, loopVars, bpc, botVars, active, token, cancelled, loginStop, blockOn, reqVars>>
LoginDone == lpc = "exited" /\ LoopStopped
LoginDoneTimesOut == LoopStopped

Block ==
  /\ MainGo("draining", IF self[active] THEN "blocked" ELSE "done")
  /\ blockOn' = active
  /\ UNCHANGED <<statusVars, loopVars, bpc, botVars, active, token, cancelled, loginStop, reqVars>>

Unblock ==
  /\ ~up[blockOn]
  /\ MainGo("blocked", "done")
  /\ UNCHANGED <<statusVars, loopVars, bpc, botVars, active, token, cancelled, loginStop, blockOn, reqVars>>

LoginLoop ==
  \/ \E auto \in BOOLEAN : Decide(auto)
  \/ NextAttempt \/ AttemptsUsed \/ BackoffElapses \/ BackoffStops \/ TryHot
  \/ Publish \/ MarkLoggedIn \/ AutoScan \/ TryScanTooLate \/ TryScan
  \/ ScanReturns \/ ScanTimesOut \/ ScanCancelled \/ GiveUp \/ ServeRetry \/ ParkedStops
  \/ HotSucceeds \/ HotFails
BotLogin(b) == \/ Answered(b) \/ UUIDCallback(b) \/ ScanCallBack(b) \/ InitUserInfo(b)
               \/ NotifyAndSync(b) \/ LoginCallBack(b) \/ LoginFails(b)
Main == \/ ExitActive \/ StopLoginLoop \/ LoginDone \/ LoginDoneTimesOut \/ Block \/ Unblock

(* The process has ended.                                                  *)
Ended == mpc = "done" /\ UNCHANGED vars

Next ==
  \/ LoginLoop \/ Signal \/ Main \/ Ended
  \/ \E b \in Bot : BotLogin(b) \/ SyncStops(b) \/ SessionEnds(b)
  \/ \E k \in {"hot", "scan"} : Retry(k)

Spec == Init /\ [][Next]_vars

(* The loop and main run while the process lives: their timers fire and    *)
(* HTTP calls end (the client gives each 30 seconds).  Nobody has to scan, *)
(* press retry, end a session or stop the program.                         *)
FairSpec ==
  /\ Spec
  /\ WF_vars(LoginLoop)
  /\ WF_vars(Main)
-----------------------------------------------------------------------------
Syncing == {b \in Bot : syncing[b] /\ up[b]}
Made(k) == Cardinality({b \in Bot : kind[b] = k})

(* At most one bot receives messages, and once the loop has moved on from  *)
(* one it is either published or dead: a QR code scanned after its three   *)
(* minutes cannot bring up a second session that answers everything twice. *)
OneLiveBot ==
  /\ Cardinality(Syncing) <= 1
  /\ \A b \in 1 .. nbot :
       b < nbot \/ lpc \in {"failed", "parked"} => ~up[b] \/ bpc[b] = "err"

(* "A half-initialised bot is never visible to other code paths": a.bot is *)
(* the first bot, or one whose login has run to its end and whose session  *)
(* is either on or over.                                                   *)
PublishedBotIsReady ==
  active # 0 => bpc[active] = "ok" /\ (self[active] <=> up[active]) 

(* No QR code but one is ever asked for unasked, whatever fails, and token *)
(* attempts are bounded: together they keep a revoked token from           *)
(* hammering WeChat or popping up codes all night.                         *)
LoginsAreAskedFor ==
  /\ Made("scan") <= 1 + asked["scan"]
  /\ Made("hot") <= MaxHot + asked["hot"]

(* The loop ends only by a login, and then nothing says "failed" any more, *)
(* or by a shutdown: a failure, whatever its order with the timers, leaves *)
(* it serving retries.                                                     *)
LoopEndsForAReason ==
  lpc = "exited" => (active # 0 /\ state # "failed") \/ cancelled

(* The state machine keeps its promises to WeChat and to its callers, with *)
(* the types.                                                              *)
LoginIsSound ==
  /\ TypeOK /\ OneLiveBot /\ PublishedBotIsReady
  /\ LoginsAreAskedFor /\ LoopEndsForAReason

(* A retry that is pending while the loop runs is served, or else the loop *)
(* ends: by the login it was in, which drops the retry, or by a shutdown.  *)
(* No failing login, timeout or backoff loses it.  A retry accepted after  *)
(* the loop has returned is not meant: nobody serves it.                   *)
AcceptedRetryServed ==
  req # "none" /\ lpc # "exited" ~> req = "none" \/ lpc = "exited" \/ cancelled
=============================================================================
