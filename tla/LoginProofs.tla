----------------------------- MODULE LoginProofs -----------------------------
(***************************************************************************)
(* Proofs about Login, for any number of automatic attempts and of retry   *)
(* requests: one bot at most receives messages, a.bot is never half        *)
(* initialised, no login happens unasked, and the loop ends for a reason.  *)
(***************************************************************************)
EXTENDS Login, FiniteSetTheorems, TLAPS

One(p) == IF p THEN 1 ELSE 0

(* The bots not made yet, and bot 0, which never logs in.                  *)
FreshInv == \A b \in Bot : b = 0 \/ b > nbot =>
  kind[b] = "none" /\ bpc[b] = "none" /\ ~self[b] /\ ~syncing[b] /\ (b # 0 => up[b])

(* What the place of the loop says of the newest bot and of a.bot.         *)
LoopInv ==
  /\ \A b \in Bot : bpc[b] = "hot" <=> lpc = "hotlogin" /\ b = nbot
  /\ lpc \in {"publish", "mark"} => nbot # 0 /\ bpc[nbot] = "ok"
  /\ lpc = "mark" => active = nbot
  /\ lpc \in {"hotlogin", "scanwait"} => nbot # 0
  /\ manual => lpc \notin {"start", "attempt", "backoff", "autoscan"}
  /\ lpc = "parked" => manual

(* A login whose bot has been exited goes on until its next call, so its   *)
(* procedure may still set self; it gets no further than that.             *)
Between == {"start", "attempt", "backoff", "tryhot", "autoscan", "tryscan", "failed", "parked"}
Dead(b) == ~up[b] \/ bpc[b] = "err"
BotsInv == \A b \in Bot :
  /\ bpc[b] = "hot" => up[b]
  /\ syncing[b] => bpc[b] \in {"logincb", "ok"}
  /\ bpc[b] = "inited" /\ up[b] => self[b]
  /\ bpc[b] \in {"logincb", "ok"} => (self[b] <=> up[b])
  /\ b \in 1 .. nbot /\ (b < nbot \/ lpc \in Between) => Dead(b)

StopInv == (mpc # "up" => cancelled) /\ (loginStop => cancelled)

(* Logins made, and those already decided on, against what was asked for.  *)
Unscanned == ~manual /\ lpc \in {"start", "attempt", "backoff", "tryhot", "hotlogin", "autoscan"}
BudgetInv ==
  /\ nbot = Made("hot") + Made("scan")
  /\ asked["hot"] + asked["scan"] <= MaxAsked
  /\ Made("hot") + One(req = "hot") + One(lpc \in {"backoff", "tryhot"})
       <= asked["hot"] + (IF manual THEN MaxHot ELSE attempts)
  /\ Made("scan") + One(req = "scan") + One(lpc = "tryscan") <= asked["scan"] + One(~Unscanned)

Inv == /\ TypeOK /\ FreshInv /\ LoopInv /\ BotsInv /\ StopInv /\ BudgetInv
       /\ PublishedBotIsReady /\ LoopEndsForAReason

(* The steps of the loop that touch no bot.                                *)
LoopMoves ==
  \/ \E auto \in BOOLEAN : Decide(auto)
  \/ NextAttempt \/ AttemptsUsed \/ BackoffElapses \/ BackoffStops
  \/ Publish \/ MarkLoggedIn \/ AutoScan \/ TryScanTooLate
  \/ ScanReturns \/ GiveUp \/ ServeRetry \/ ParkedStops
BotSteps(b) == BotLogin(b) \/ SyncStops(b) \/ SessionEnds(b)
Outside == Signal \/ StopLoginLoop \/ LoginDone \/ LoginDoneTimesOut \/ Block \/ Unblock \/ Ended
           \/ (\E k \in {"hot", "scan"} : Retry(k)) \/ UNCHANGED vars

-----------------------------------------------------------------------------
(* Counting bots.                                                          *)

LEMMA Bots == Bot = 0 .. MaxHot + 1 + MaxAsked /\ MaxHot \in Nat /\ MaxAsked \in Nat /\ IsFiniteSet(Bot)
BY LoginAssumption, FS_Interval DEF Bot

LEMMA MadeType == \A k : Made(k) \in Nat /\ IsFiniteSet({b \in Bot : kind[b] = k})
BY Bots, FS_Subset, FS_CardinalityType DEF Made

LEMMA SameMade == ASSUME kind' = kind PROVE \A k : Made(k)' = Made(k)
BY DEF Made

LEMMA RoomForBot ==
  ASSUME TypeOK, BudgetInv, lpc \in {"tryhot", "tryscan"}
  PROVE  nbot + 1 \in Bot /\ nbot \in Nat
<1> DEFINE h == Made("hot")
           s == Made("scan")
<1>1. h \in Nat /\ s \in Nat /\ asked["hot"] \in Nat /\ asked["scan"] \in Nat /\ attempts \in Nat
      /\ attempts <= MaxHot /\ MaxHot \in Nat /\ MaxAsked \in Nat
  <2>1. h \in Nat /\ s \in Nat
    BY MadeType
  <2> HIDE DEF h, s
  <2> QED BY <2>1, Bots DEF TypeOK
<1>2. /\ One(lpc \in {"backoff", "tryhot"}) + One(lpc = "tryscan") = 1
      /\ One(lpc \in {"backoff", "tryhot"}) \in Nat /\ One(lpc = "tryscan") \in Nat
      /\ One(req = "hot") \in Nat /\ One(req = "scan") \in Nat /\ One(~Unscanned) \in 0 .. 1
  BY DEF One
<1>3. nbot = h + s /\ asked["hot"] + asked["scan"] <= MaxAsked
      /\ h + One(req = "hot") + One(lpc \in {"backoff", "tryhot"}) <= asked["hot"] + MaxHot
      /\ s + One(req = "scan") + One(lpc = "tryscan") <= asked["scan"] + 1
  <2>1. (IF manual THEN MaxHot ELSE attempts) \in Nat /\ (IF manual THEN MaxHot ELSE attempts) <= MaxHot
    BY <1>1
  <2> HIDE DEF h, s
  <2> QED BY <1>1, <1>2, <2>1 DEF BudgetInv, h, s
<1> HIDE DEF h, s
<1>4. nbot \in Nat /\ nbot + 1 <= MaxHot + 1 + MaxAsked
  BY <1>1, <1>2, <1>3
<1> QED BY <1>1, <1>4, Bots

LEMMA NewBotCounts ==
  ASSUME TypeOK, FreshInv, nbot + 1 \in Bot, nbot \in Nat,
         NEW k \in {"hot", "scan"}, NEW pc \in {"hot", "uuid"}, NewBot(k, pc)
  PROVE  /\ Made(k)' = Made(k) + 1
         /\ \A j \in {"hot", "scan"} \ {k} : Made(j)' = Made(j)
<1>1. kind[nbot + 1] = "none" /\ kind' \in [Bot -> {"none", "hot", "scan"}]
      /\ kind'[nbot + 1] = k /\ \A b \in Bot \ {nbot + 1} : kind'[b] = kind[b]
  BY DEF FreshInv, NewBot, TypeOK
<1>2. {b \in Bot : kind'[b] = k} = {b \in Bot : kind[b] = k} \cup {nbot + 1}
      /\ nbot + 1 \notin {b \in Bot : kind[b] = k}
  BY <1>1
<1>3. \A j \in {"hot", "scan"} \ {k} : {b \in Bot : kind'[b] = j} = {b \in Bot : kind[b] = j}
  BY <1>1
<1>4. Cardinality({b \in Bot : kind'[b] = k}) = Cardinality({b \in Bot : kind[b] = k}) + 1
  <2> DEFINE S == {b \in Bot : kind[b] = k}
             T == {b \in Bot : kind'[b] = k}
  <2>1. IsFiniteSet(S) /\ T = S \cup {nbot + 1} /\ nbot + 1 \notin S
    BY <1>2, MadeType
  <2> HIDE DEF S, T
  <2>2. Cardinality(T) = Cardinality(S) + 1
    BY <2>1, FS_AddElement
  <2> QED BY <2>2 DEF S, T
<1> QED BY <1>3, <1>4 DEF Made

-----------------------------------------------------------------------------
(* What the steps leave alone.                                             *)

LEMMA LoopMovesFrame ==
  ASSUME LoopMoves
  PROVE  UNCHANGED <<nbot, kind, bpc, botVars, token, mainVars, asked>>
BY DEF LoopMoves, Decide, NextAttempt, AttemptsUsed, BackoffElapses, BackoffStops, Publish, MarkLoggedIn,
       AutoScan, TryScanTooLate, ScanReturns, GiveUp, ServeRetry, ParkedStops, reqVars

LEMMA BotStepsFrame ==
  ASSUME NEW b \in Bot, BotSteps(b)
  PROVE  UNCHANGED <<attempts, loopVars, active, token, mainVars, reqVars>>
BY DEF BotSteps, BotLogin, Answered, UUIDCallback, ScanCallBack, InitUserInfo, NotifyAndSync, LoginCallBack,
       LoginFails, SyncStops, SessionEnds, statusVars, botVars

LEMMA OutsideFrame ==
  ASSUME Outside
  PROVE  UNCHANGED <<statusVars, loopVars, bpc, botVars, active, token>>
BY DEF Outside, Signal, StopLoginLoop, LoginDone, LoginDoneTimesOut, LoopStopped, Block, Unblock, Ended,
       Retry, vars

LEMMA Steps ==
  ASSUME [Next]_vars
  PROVE  \/ LoopMoves \/ TryHot \/ TryScan \/ HotSucceeds \/ HotFails \/ ScanGivesUp \/ ExitActive
         \/ Outside \/ \E b \in Bot : BotSteps(b)
BY DEF Next, LoginLoop, Main, LoopMoves, Outside, BotSteps, ScanTimesOut, ScanCancelled

-----------------------------------------------------------------------------
(* Each part of the invariant.                                             *)

LEMMA TypesPreserved == ASSUME TypeOK, BudgetInv, [Next]_vars PROVE TypeOK'
<1>1. nbot \in Bot /\ 0 \in Bot /\ MaxHot \in Nat
  BY Bots DEF TypeOK
<1>2. CASE LoopMoves
  <2>1. attempts' \in 0 .. MaxHot
    BY <1>1, <1>2, Bots DEF LoopMoves, Decide, NextAttempt, AttemptsUsed, BackoffElapses, BackoffStops, Publish,
       MarkLoggedIn, AutoScan, TryScanTooLate, ScanReturns, GiveUp, ServeRetry, ParkedStops, statusVars, TypeOK
  <2>2. /\ state' \in {"idle", "hot_logging_in", "waiting_scan", "scanned", "logged_in", "failed"}
        /\ qr' \in Bot /\ req' \in {"none", "hot", "scan"} /\ manual' \in BOOLEAN /\ active' \in Bot
        /\ lpc' \in {"start", "attempt", "backoff", "tryhot", "hotlogin", "autoscan", "tryscan",
                     "scanwait", "publish", "mark", "failed", "parked", "exited"}
    BY <1>1, <1>2 DEF LoopMoves, Decide, NextAttempt, AttemptsUsed, BackoffElapses, BackoffStops, Publish,
       MarkLoggedIn, AutoScan, TryScanTooLate, ScanReturns, GiveUp, ServeRetry, ParkedStops, Go, statusVars,
       reqVars, TypeOK
  <2> QED BY <1>2, <2>1, <2>2, LoopMovesFrame DEF TypeOK, botVars, mainVars
<1>3. CASE TryHot \/ TryScan
  <2>1. nbot + 1 \in Bot
    BY <1>3, RoomForBot DEF TryHot, TryScan, Go
  <2>2. UNCHANGED <<statusVars, manual, botVars, active, token, mainVars, reqVars>>
    BY <1>3 DEF TryHot, TryScan
  <2>3. /\ nbot' \in Bot /\ lpc' \in {"hotlogin", "scanwait"}
        /\ kind' \in [Bot -> {"none", "hot", "scan"}]
        /\ bpc' \in [Bot -> {"none", "hot", "uuid", "gotuuid", "polling", "scanned", "confirmed",
                             "gotinit", "inited", "logincb", "ok", "err"}]
    BY <1>3, <2>1 DEF TryHot, TryScan, Go, NewBot, TypeOK
  <2> QED BY <2>2, <2>3 DEF TypeOK, statusVars, botVars, mainVars, reqVars
<1>4. CASE HotSucceeds
  BY <1>1, <1>4 DEF HotSucceeds, Go, TypeOK, statusVars, mainVars, reqVars
<1>5. CASE HotFails
  <2>1. /\ UNCHANGED <<statusVars, manual, nbot, kind, up, syncing, active, mainVars, reqVars>>
        /\ lpc' \in {"failed", "attempt"} /\ token' \in {"none", "earlier", "current"}
        /\ self' \in [Bot -> BOOLEAN]
        /\ bpc' \in [Bot -> {"none", "hot", "uuid", "gotuuid", "polling", "scanned", "confirmed",
                             "gotinit", "inited", "logincb", "ok", "err"}]
    BY <1>1, <1>5 DEF HotFails, Go, TypeOK
  <2> QED BY <2>1 DEF TypeOK, statusVars, mainVars, reqVars
<1>6. CASE ScanGivesUp \/ ExitActive
  <2>1. self' \in [Bot -> BOOLEAN] /\ up' \in [Bot -> BOOLEAN] /\ syncing' = syncing
    BY <1>6 DEF ScanGivesUp, ExitActive, Exit, TypeOK
  <2>2. UNCHANGED <<statusVars, manual, nbot, kind, bpc, active, token, cancelled, loginStop, blockOn, reqVars>>
        /\ lpc' \in {lpc, "failed"} /\ mpc' \in {mpc, "exited"}
    BY <1>6 DEF ScanGivesUp, ExitActive, Go, MainGo, loopVars, mainVars
  <2> QED BY <2>1, <2>2 DEF TypeOK, statusVars, reqVars
<1>7. CASE Outside
  <2>1. UNCHANGED <<statusVars, loopVars, bpc, botVars, active, token>>
    BY <1>7, OutsideFrame
  <2>2. /\ cancelled' \in BOOLEAN /\ loginStop' \in BOOLEAN /\ blockOn' \in Bot
        /\ mpc' \in {"up", "cancelled", "exited", "stopping", "draining", "blocked", "done"}
    BY <1>7 DEF Outside, Signal, StopLoginLoop, LoginDone, LoginDoneTimesOut, LoopStopped, Block, Unblock, Ended,
       Retry, vars, MainGo, mainVars, TypeOK
  <2>3. req' \in {"none", "hot", "scan"} /\ asked' \in [{"hot", "scan"} -> Nat]
    BY <1>7 DEF Outside, Signal, StopLoginLoop, LoginDone, LoginDoneTimesOut, LoopStopped, Block, Unblock, Ended,
       Retry, vars, reqVars, TypeOK
  <2> QED BY <2>1, <2>2, <2>3 DEF TypeOK, statusVars, loopVars, botVars
<1>8. ASSUME NEW b \in Bot, BotSteps(b) PROVE TypeOK'
  <2>1. UNCHANGED <<attempts, loopVars, active, token, mainVars, reqVars>>
    BY <1>8, BotStepsFrame
  <2>2. /\ state' \in {state, "waiting_scan", "scanned", "logged_in"} /\ qr' \in {qr, b}
        /\ self' \in [Bot -> BOOLEAN] /\ up' \in [Bot -> BOOLEAN] /\ syncing' \in [Bot -> BOOLEAN]
    BY <1>8 DEF BotSteps, BotLogin, Answered, UUIDCallback, ScanCallBack, InitUserInfo, NotifyAndSync,
       LoginCallBack, LoginFails, SyncStops, SessionEnds, statusVars, botVars, TypeOK
  <2>3. bpc' \in [Bot -> {"none", "hot", "uuid", "gotuuid", "polling", "scanned", "confirmed",
                          "gotinit", "inited", "logincb", "ok", "err"}]
    BY <1>8 DEF BotSteps, BotLogin, Answered, UUIDCallback, ScanCallBack, InitUserInfo, NotifyAndSync,
       LoginCallBack, LoginFails, SyncStops, SessionEnds, Step, TypeOK
  <2> QED BY <2>1, <2>2, <2>3 DEF TypeOK, loopVars, mainVars, reqVars
<1> QED BY <1>2, <1>3, <1>4, <1>5, <1>6, <1>7, <1>8, Steps

LEMMA StopPreserved == ASSUME StopInv, [Next]_vars PROVE StopInv'
<1>1. CASE LoopMoves \/ \E b \in Bot : BotSteps(b)
  BY <1>1, LoopMovesFrame, BotStepsFrame DEF StopInv, mainVars
<1>2. CASE TryHot \/ TryScan \/ HotSucceeds \/ HotFails \/ ScanGivesUp
  BY <1>2 DEF TryHot, TryScan, HotSucceeds, HotFails, ScanGivesUp, StopInv, mainVars
<1>3. CASE ExitActive
  BY <1>3 DEF ExitActive, StopInv, MainGo
<1>4. CASE Outside
  BY <1>4 DEF Outside, Signal, StopLoginLoop, LoginDone, LoginDoneTimesOut, LoopStopped, Block, Unblock, Ended,
     Retry, vars, mainVars, MainGo, StopInv
<1> QED BY <1>1, <1>2, <1>3, <1>4, Steps

LEMMA BudgetPreserved == ASSUME TypeOK, FreshInv, LoopInv, BudgetInv, [Next]_vars PROVE BudgetInv'
<1> DEFINE h == Made("hot")
           s == Made("scan")
           Hot == h + One(req = "hot") + One(lpc \in {"backoff", "tryhot"})
                    <= asked["hot"] + (IF manual THEN MaxHot ELSE attempts)
           Scan == s + One(req = "scan") + One(lpc = "tryscan") <= asked["scan"] + One(~Unscanned)
           Sum == nbot = h + s /\ asked["hot"] + asked["scan"] <= MaxAsked
<1>1. h \in Nat /\ s \in Nat
  BY MadeType
<1>2. attempts \in Nat /\ attempts <= MaxHot /\ MaxHot \in Nat /\ MaxAsked \in Nat
      /\ asked["hot"] \in Nat /\ asked["scan"] \in Nat
  BY Bots DEF TypeOK
<1>3. Hot /\ Scan /\ Sum /\ (BudgetInv' <=> Hot' /\ Scan' /\ Sum')
  BY DEF BudgetInv
<1>4. kind' = kind => h' = h /\ s' = s
  BY SameMade
<1>5. ASSUME NEW k \in {"hot", "scan"}, NEW pc \in {"hot", "uuid"}, NewBot(k, pc), lpc \in {"tryhot", "tryscan"}
      PROVE  /\ h' = IF k = "hot" THEN h + 1 ELSE h
             /\ s' = IF k = "hot" THEN s ELSE s + 1
             /\ nbot' = nbot + 1
  BY <1>5, RoomForBot, NewBotCounts DEF NewBot
<1> HIDE DEF h, s
<1>6. ASSUME LoopMoves PROVE BudgetInv'
  <2>1. h' = h /\ s' = s /\ nbot' = nbot /\ asked' = asked
    BY <1>4, <1>6, LoopMovesFrame
  <2>2. Hot'
    <3>1. CASE NextAttempt
      <4>1. /\ ~manual /\ manual' = manual /\ attempts' = attempts + 1 /\ req' = req
            /\ lpc = "attempt" /\ lpc' \in {"backoff", "tryhot"}
        BY <3>1 DEF LoopInv, NextAttempt, Go, reqVars
      <4> QED BY <1>1, <1>2, <1>3, <2>1, <4>1 DEF One
    <3>3. CASE ServeRetry
      <4>1. /\ manual /\ manual' = manual /\ req \in {"hot", "scan"} /\ req' = "none" /\ lpc = "parked"
            /\ lpc' = IF req = "scan" THEN "tryscan" ELSE "tryhot"
        BY <3>3 DEF LoopInv, ServeRetry, Go, TypeOK
      <4> QED BY <1>1, <1>2, <1>3, <2>1, <4>1 DEF One
    <3>2. CASE ~ServeRetry /\ ~NextAttempt
      <4>1. req' = req /\ attempts' = attempts /\ lpc' \notin {"backoff"} /\ (lpc' = "tryhot" => lpc = "backoff")
            /\ (manual' = manual \/ manual')
        BY <1>6, <3>2 DEF LoopMoves, Decide, AttemptsUsed, BackoffElapses, BackoffStops, Publish, MarkLoggedIn,
           AutoScan, TryScanTooLate, ScanReturns, GiveUp, ParkedStops, Go, statusVars, reqVars
      <4> QED BY <1>1, <1>2, <1>3, <2>1, <4>1 DEF One
    <3> QED BY <3>1, <3>2, <3>3
  <2>3. Scan'
    BY <1>1, <1>2, <1>3, <1>6, <2>1 DEF LoopInv, One, LoopMoves, Decide, NextAttempt, AttemptsUsed,
       BackoffElapses, BackoffStops, Publish, MarkLoggedIn, AutoScan, TryScanTooLate, ScanReturns, GiveUp,
       ServeRetry, ParkedStops, Go, statusVars, reqVars, Unscanned
  <2> QED BY <1>3, <2>1, <2>2, <2>3
<1>7. ASSUME TryHot PROVE BudgetInv'
  <2>1. h' = h + 1 /\ s' = s /\ nbot' = nbot + 1 /\ lpc = "tryhot" /\ lpc' = "hotlogin"
        /\ UNCHANGED <<statusVars, manual, mainVars, reqVars>>
    BY <1>5, <1>7 DEF TryHot, Go
  <2> QED BY <1>1, <1>2, <1>3, <2>1 DEF One, Unscanned, statusVars, reqVars
<1>8. ASSUME TryScan PROVE BudgetInv'
  <2>1. h' = h /\ s' = s + 1 /\ nbot' = nbot + 1 /\ lpc = "tryscan" /\ lpc' = "scanwait"
        /\ UNCHANGED <<statusVars, manual, mainVars, reqVars>>
    BY <1>5, <1>8 DEF TryScan, Go
  <2> QED BY <1>1, <1>2, <1>3, <2>1 DEF One, Unscanned, statusVars, reqVars
<1>9. ASSUME HotSucceeds \/ HotFails \/ ScanGivesUp PROVE BudgetInv'
  <2>1. h' = h /\ s' = s /\ nbot' = nbot /\ UNCHANGED <<statusVars, manual, reqVars>>
    BY <1>4, <1>9 DEF HotSucceeds, HotFails, ScanGivesUp
  <2>2. lpc' \in {"publish", "failed", "attempt"} /\ (~manual /\ lpc' = "attempt" => lpc = "hotlogin")
        /\ (manual => lpc' # "attempt")
    BY <1>9 DEF HotSucceeds, HotFails, ScanGivesUp, Go
  <2> QED BY <1>1, <1>2, <1>3, <2>1, <2>2 DEF One, Unscanned, statusVars, reqVars
<1>10. ASSUME ExitActive \/ (\E b \in Bot : BotSteps(b)) PROVE BudgetInv'
  <2>1. h' = h /\ s' = s /\ UNCHANGED <<attempts, nbot, manual, lpc, reqVars>>
    BY <1>4, <1>10, BotStepsFrame DEF ExitActive, statusVars, loopVars
  <2> QED BY <1>3, <2>1 DEF One, Unscanned, reqVars
<1>11. ASSUME Outside PROVE BudgetInv'
  <2>1. h' = h /\ s' = s /\ UNCHANGED <<attempts, nbot, manual, lpc>>
    BY <1>4, <1>11, OutsideFrame DEF statusVars, loopVars
  <2>2. CASE UNCHANGED reqVars
    BY <1>3, <2>1, <2>2 DEF One, Unscanned, reqVars
  <2>3. CASE \E k \in {"hot", "scan"} : Retry(k)
    <3>1. PICK k \in {"hot", "scan"} : Retry(k)
      BY <2>3
    <3>2. req = "none" /\ req' = k /\ asked["hot"] + asked["scan"] < MaxAsked
          /\ asked'[k] = asked[k] + 1 /\ \A j \in {"hot", "scan"} \ {k} : asked'[j] = asked[j]
      BY <3>1 DEF Retry, TypeOK
    <3> QED BY <1>1, <1>2, <1>3, <2>1, <3>2 DEF One, Unscanned
  <2> QED BY <1>11, <2>2, <2>3 DEF Outside, Signal, StopLoginLoop, LoginDone, LoginDoneTimesOut, LoopStopped,
             Block, Unblock, Ended, vars
<1> QED BY <1>6, <1>7, <1>8, <1>9, <1>10, <1>11, Steps

LEMMA FreshPreserved == ASSUME TypeOK, FreshInv, LoopInv, PublishedBotIsReady, BudgetInv, [Next]_vars PROVE FreshInv'
<1>1. nbot \in Nat /\ nbot \in Bot /\ \A b \in Bot : b \in Nat
  BY Bots DEF TypeOK
<1>2. CASE LoopMoves \/ Outside
  BY <1>2, LoopMovesFrame, OutsideFrame DEF FreshInv, loopVars, botVars
<1>3. CASE TryHot \/ TryScan
  <2>1. nbot' = nbot + 1 /\ UNCHANGED botVars
        /\ \A b \in Bot \ {nbot + 1} : kind'[b] = kind[b] /\ bpc'[b] = bpc[b]
    BY <1>3 DEF TryHot, TryScan, NewBot, TypeOK
  <2>2. ASSUME NEW b \in Bot, b = 0 \/ b > nbot'
        PROVE  /\ kind'[b] = "none" /\ bpc'[b] = "none" /\ ~self'[b] /\ ~syncing'[b]
               /\ b # 0 => up'[b]
    <3>1. b # nbot + 1 /\ (b = 0 \/ b > nbot)
      <4>1. nbot \in Nat /\ b \in Nat /\ nbot' = nbot + 1
        BY <1>1, <2>1
      <4> QED BY <2>2, <4>1
    <3>2. kind[b] = "none" /\ bpc[b] = "none" /\ ~self[b] /\ ~syncing[b] /\ (b # 0 => up[b])
      BY <3>1 DEF FreshInv
    <3> QED BY <2>1, <3>1, <3>2 DEF botVars
  <2> QED BY <2>2 DEF FreshInv
<1>4. CASE HotSucceeds \/ HotFails
  <2>1. nbot # 0 /\ nbot' = nbot /\ kind' = kind /\ up' = up
        /\ \A b \in Bot \ {nbot} : bpc'[b] = bpc[b] /\ self'[b] = self[b] /\ syncing'[b] = syncing[b]
    BY <1>4 DEF HotSucceeds, HotFails, Go, LoopInv, TypeOK
  <2>2. ASSUME NEW b \in Bot, b = 0 \/ b > nbot'
        PROVE  /\ kind'[b] = "none" /\ bpc'[b] = "none" /\ ~self'[b] /\ ~syncing'[b]
               /\ b # 0 => up'[b]
    <3>1. b # nbot /\ (b = 0 \/ b > nbot)
      <4>1. nbot \in Nat /\ b \in Nat /\ nbot' = nbot /\ nbot # 0
        BY <1>1, <2>1
      <4> QED BY <2>2, <4>1
    <3>2. kind[b] = "none" /\ bpc[b] = "none" /\ ~self[b] /\ ~syncing[b] /\ (b # 0 => up[b])
      BY <3>1 DEF FreshInv
    <3> QED BY <2>1, <3>1, <3>2
  <2> QED BY <2>2 DEF FreshInv
<1>5. CASE ScanGivesUp \/ ExitActive
  <2>1. nbot' = nbot /\ kind' = kind /\ bpc' = bpc /\ syncing' = syncing
    BY <1>5 DEF ScanGivesUp, ExitActive, Exit, loopVars
  <2>2. PICK e \in Bot : Exit(e) /\ (e = 0 \/ e <= nbot)
    <3>1. active = 0 \/ active <= nbot
      BY <1>1 DEF PublishedBotIsReady, FreshInv, TypeOK
    <3> QED BY <1>1, <1>5, <3>1 DEF ScanGivesUp, ExitActive, TypeOK
  <2>3. \A b \in Bot : self'[b] = (IF b = e THEN FALSE ELSE self[b]) /\ (b # e => up'[b] = up[b])
    BY <2>2 DEF Exit, TypeOK
  <2>4. ASSUME NEW b \in Bot, b = 0 \/ b > nbot
        PROVE  ~self'[b] /\ (b # 0 => up'[b])
    <3>1. b = 0 \/ b # e
      BY <1>1, <2>2, <2>4
    <3>2. ~self[b] /\ (b # 0 => up[b])
      BY <2>4 DEF FreshInv
    <3> QED BY <2>3, <3>1, <3>2
  <2> QED BY <2>1, <2>4 DEF FreshInv
<1>6. ASSUME NEW b \in Bot, BotSteps(b) PROVE FreshInv'
  <2>1. nbot' = nbot /\ kind' = kind
    BY <1>6, BotStepsFrame DEF loopVars
  <2>2. bpc[b] # "none" \/ syncing[b]
    BY <1>6 DEF BotSteps, BotLogin, Answered, UUIDCallback, ScanCallBack, InitUserInfo, NotifyAndSync,
       LoginCallBack, LoginFails, SyncStops, SessionEnds, Step
  <2>3. \A a \in Bot \ {b} : bpc'[a] = bpc[a] /\ self'[a] = self[a] /\ up'[a] = up[a] /\ syncing'[a] = syncing[a]
    BY <1>6 DEF BotSteps, BotLogin, Answered, UUIDCallback, ScanCallBack, InitUserInfo, NotifyAndSync,
       LoginCallBack, LoginFails, SyncStops, SessionEnds, Step, botVars, TypeOK
  <2>4. ASSUME NEW a \in Bot, a = 0 \/ a > nbot PROVE a # b
    BY <2>2, <2>4 DEF FreshInv
  <2> QED BY <2>1, <2>3, <2>4 DEF FreshInv
<1> QED BY <1>2, <1>3, <1>4, <1>5, <1>6, Steps

LEMMA LoopPreserved == ASSUME TypeOK, FreshInv, LoopInv, BudgetInv, [Next]_vars PROVE LoopInv'
<1>1. nbot \in Nat /\ nbot \in Bot /\ \A b \in Bot : b \in Nat
  BY Bots DEF TypeOK
<1>2. CASE LoopMoves
  <2>1. nbot' = nbot /\ bpc' = bpc
    BY <1>2, LoopMovesFrame
  <2>2. lpc # "hotlogin" /\ lpc' \notin {"hotlogin", "scanwait"}
    BY <1>2 DEF LoopMoves, Decide, NextAttempt, AttemptsUsed,
       BackoffElapses, BackoffStops, Publish, MarkLoggedIn, AutoScan, TryScanTooLate, ScanReturns, GiveUp,
       ServeRetry, ParkedStops, Go
  <2>3. /\ lpc' = "publish" => nbot # 0 /\ bpc[nbot] = "ok"
        /\ lpc' = "mark" => nbot # 0 /\ bpc[nbot] = "ok" /\ active' = nbot
        /\ manual' => lpc' \notin {"start", "attempt", "backoff", "autoscan"}
        /\ lpc' = "parked" => manual'
    BY <1>2 DEF LoopInv, LoopMoves, Decide, NextAttempt, AttemptsUsed,
       BackoffElapses, BackoffStops, Publish, MarkLoggedIn, AutoScan, TryScanTooLate, ScanReturns, GiveUp,
       ServeRetry, ParkedStops, Go
  <2> QED BY <2>1, <2>2, <2>3 DEF LoopInv
<1>3. CASE TryHot \/ TryScan
  <2>1. nbot + 1 \in Bot /\ nbot' = nbot + 1
    BY <1>3, RoomForBot DEF TryHot, TryScan, Go, NewBot
  <2>2. /\ lpc' = IF TryHot THEN "hotlogin" ELSE "scanwait"
        /\ lpc # "hotlogin" /\ manual' = manual
        /\ bpc'[nbot + 1] = IF TryHot THEN "hot" ELSE "uuid"
        /\ \A b \in Bot \ {nbot + 1} : bpc'[b] = bpc[b]
    BY <1>3, <2>1 DEF TryHot, TryScan, Go, NewBot, TypeOK
  <2> QED BY <1>1, <2>1, <2>2 DEF LoopInv
<1>4. CASE HotSucceeds \/ HotFails
  <2>1. /\ nbot' = nbot /\ manual' = manual /\ lpc = "hotlogin"
        /\ lpc' \in {"publish", "failed", "attempt"} /\ (manual => lpc' # "attempt")
        /\ bpc'[nbot] \in {"ok", "err"} /\ (lpc' = "publish" => bpc'[nbot] = "ok")
        /\ \A b \in Bot \ {nbot} : bpc'[b] = bpc[b]
    BY <1>1, <1>4 DEF HotSucceeds, HotFails, Go, LoopInv, TypeOK
  <2> QED BY <1>1, <2>1 DEF LoopInv
<1>5. CASE ScanGivesUp \/ ExitActive
  BY <1>5 DEF ScanGivesUp, ExitActive, Go, LoopInv, loopVars
<1>6. CASE Outside
  BY <1>6, OutsideFrame DEF LoopInv, loopVars
<1>7. ASSUME NEW b \in Bot, BotSteps(b) PROVE LoopInv'
  <2>1. UNCHANGED <<nbot, lpc, manual, active>>
    BY <1>7, BotStepsFrame DEF loopVars
  <2>2. /\ (bpc[b] \notin {"hot", "ok"} /\ bpc'[b] # "hot") \/ bpc' = bpc
        /\ \A a \in Bot \ {b} : bpc'[a] = bpc[a]
    BY <1>7 DEF BotSteps, BotLogin, Answered, UUIDCallback, ScanCallBack, InitUserInfo, NotifyAndSync,
       LoginCallBack, LoginFails, SyncStops, SessionEnds, Step, TypeOK
  <2> QED BY <1>1, <2>1, <2>2 DEF LoopInv
<1> QED BY <1>2, <1>3, <1>4, <1>5, <1>6, <1>7, Steps

LEMMA BotsPreserved ==
  ASSUME TypeOK, FreshInv, LoopInv, BotsInv, PublishedBotIsReady, BudgetInv, [Next]_vars
  PROVE  BotsInv'
<1> DEFINE Alone(b) ==
             /\ bpc[b] = "hot" => up[b]
             /\ syncing[b] => bpc[b] \in {"logincb", "ok"}
             /\ bpc[b] = "inited" /\ up[b] => self[b]
             /\ bpc[b] \in {"logincb", "ok"} => (self[b] <=> up[b])
           Left(b) == b \in 1 .. nbot /\ (b < nbot \/ lpc \in Between) => Dead(b)
<1>1. /\ nbot \in Nat /\ nbot \in Bot /\ \A b \in Bot : b \in Nat
      /\ \A b \in Bot : Alone(b) /\ Left(b)
      /\ BotsInv' <=> \A b \in Bot : Alone(b)' /\ Left(b)'
  BY Bots DEF TypeOK, BotsInv
<1>2. CASE LoopMoves \/ Outside
  <2>1. UNCHANGED <<nbot, bpc, botVars>>
    BY <1>2, LoopMovesFrame, OutsideFrame DEF loopVars
  <2>2. lpc' \in Between => lpc \in Between \/ (lpc = "scanwait" /\ bpc[nbot] = "err")
    BY <1>2, OutsideFrame DEF LoopMoves, Decide, NextAttempt, AttemptsUsed,
       BackoffElapses, BackoffStops, Publish, MarkLoggedIn, AutoScan, TryScanTooLate, ScanReturns, GiveUp,
       ServeRetry, ParkedStops, Go, Between, loopVars
  <2> QED BY <1>1, <2>1, <2>2 DEF Dead, botVars
<1>3. CASE TryHot \/ TryScan
  <2>1. nbot + 1 \in Bot /\ nbot' = nbot + 1 /\ lpc \in Between /\ lpc' \notin Between
    BY <1>3, RoomForBot DEF TryHot, TryScan, Go, NewBot, Between
  <2>2. UNCHANGED botVars /\ bpc'[nbot + 1] \in {"hot", "uuid"} /\ \A b \in Bot \ {nbot + 1} : bpc'[b] = bpc[b]
    BY <1>3, <2>1 DEF TryHot, TryScan, NewBot, TypeOK
  <2>3. ASSUME NEW b \in Bot, b = nbot + 1 PROVE Alone(b)'
    <3>1. b # 0 /\ b > nbot
      BY <1>1, <2>3
    <3>2. up[b] /\ ~syncing[b]
      BY <3>1 DEF FreshInv
    <3>3. up'[b] /\ ~syncing'[b] /\ bpc'[b] \in {"hot", "uuid"}
      BY <2>2, <2>3, <3>2 DEF botVars
    <3> QED BY <3>3
  <2>4. ASSUME NEW b \in Bot \ {nbot + 1} PROVE Alone(b)'
    BY <1>1, <2>2 DEF botVars
  <2>5. ASSUME NEW b \in Bot PROVE Left(b)'
    <3>1. b \in 1 .. nbot => Dead(b) /\ b # nbot + 1
      BY <1>1, <2>1
    <3> QED BY <1>1, <2>1, <2>2, <3>1 DEF Dead, botVars
  <2> HIDE DEF Alone, Left
  <2> QED BY <1>1, <2>3, <2>4, <2>5
<1>4. CASE HotSucceeds \/ HotFails
  <2>1. /\ nbot # 0 /\ nbot' = nbot /\ up' = up /\ up[nbot]
        /\ \A b \in Bot \ {nbot} : bpc'[b] = bpc[b] /\ self'[b] = self[b] /\ syncing'[b] = syncing[b]
        /\ lpc' \in Between => bpc'[nbot] = "err"
    BY <1>1, <1>4 DEF HotSucceeds, HotFails, Go, LoopInv, TypeOK, Between
  <2>2. \/ bpc'[nbot] = "ok" /\ self'[nbot]
        \/ bpc'[nbot] = "err" /\ ~syncing'[nbot]
    <3>1. ~syncing[nbot]
      BY <1>1, <1>4 DEF HotSucceeds, HotFails, Go, LoopInv
    <3> QED BY <1>1, <1>4, <3>1 DEF HotSucceeds, HotFails, TypeOK
  <2> QED BY <1>1, <2>1, <2>2 DEF Dead
<1>5. CASE ScanGivesUp \/ ExitActive
  <2>1. UNCHANGED <<nbot, bpc, syncing>>
    BY <1>5 DEF ScanGivesUp, ExitActive, Exit, loopVars
  <2>2. PICK e \in Bot : Exit(e) /\ (lpc' \in Between => lpc \in Between \/ e = nbot) /\ bpc[e] # "hot"
    <3>1. CASE ScanGivesUp
      BY <1>1, <3>1 DEF ScanGivesUp, Go, LoopInv
    <3>2. CASE ExitActive
      BY <1>1, <3>2 DEF ExitActive, PublishedBotIsReady, FreshInv, TypeOK, loopVars
    <3> QED BY <1>5, <3>1, <3>2
  <2>3. ~self'[e] /\ ~up'[e] /\ \A b \in Bot \ {e} : self'[b] = self[b] /\ up'[b] = up[b]
    BY <2>2 DEF Exit, TypeOK
  <2> QED BY <1>1, <2>1, <2>2, <2>3 DEF Dead
<1>6. ASSUME NEW b \in Bot, BotSteps(b) PROVE BotsInv'
  <2>1. nbot' = nbot /\ lpc' = lpc
    BY <1>6, BotStepsFrame DEF loopVars
  <2>2. \A a \in Bot \ {b} : bpc'[a] = bpc[a] /\ self'[a] = self[a] /\ up'[a] = up[a] /\ syncing'[a] = syncing[a]
    BY <1>6 DEF BotSteps, BotLogin, Answered, UUIDCallback, ScanCallBack, InitUserInfo, NotifyAndSync,
       LoginCallBack, LoginFails, SyncStops, SessionEnds, Step, botVars, TypeOK
  <2>3. Alone(b)' /\ (Dead(b) => Dead(b)')
    <3>1. Alone(b)
      BY <1>1
    <3>2. /\ bpc[b] \in {"none", "hot", "uuid", "gotuuid", "polling", "scanned", "confirmed",
                          "gotinit", "inited", "logincb", "ok", "err"}
          /\ self[b] \in BOOLEAN /\ up[b] \in BOOLEAN /\ syncing[b] \in BOOLEAN
      BY DEF TypeOK
    <3> QED BY <1>6, <3>1, <3>2 DEF BotSteps, BotLogin, Answered, UUIDCallback, ScanCallBack, InitUserInfo,
       NotifyAndSync, LoginCallBack, LoginFails, SyncStops, SessionEnds, Step, botVars, TypeOK, Dead
  <2> QED BY <1>1, <2>1, <2>2, <2>3 DEF Dead
<1> QED BY <1>2, <1>3, <1>4, <1>5, <1>6, Steps

LEMMA PublishedPreserved ==
  ASSUME TypeOK, FreshInv, LoopInv, BotsInv, PublishedBotIsReady, BudgetInv, [Next]_vars
  PROVE  PublishedBotIsReady'
<1>1. BotsInv' /\ nbot \in Bot /\ active \in Bot
  BY BotsPreserved DEF TypeOK
<1>2. active' \in Bot /\ (active' # 0 => bpc'[active'] = "ok")
  <2>1. CASE LoopMoves
    <3>1. bpc' = bpc
      BY <2>1, LoopMovesFrame
    <3>2. active' = active \/ (active' = nbot /\ lpc = "publish")
      BY <2>1 DEF LoopMoves, Decide, NextAttempt, AttemptsUsed,
         BackoffElapses, BackoffStops, Publish, MarkLoggedIn, AutoScan, TryScanTooLate, ScanReturns, GiveUp,
         ServeRetry, ParkedStops, Go
    <3> QED BY <1>1, <3>1, <3>2 DEF LoopInv, PublishedBotIsReady
  <2>2. CASE TryHot \/ TryScan
    <3>1. nbot + 1 \in Bot /\ active' = active /\ bpc[nbot + 1] = "none"
      BY <2>2, RoomForBot DEF TryHot, TryScan, Go, FreshInv
    <3>2. \A b \in Bot \ {nbot + 1} : bpc'[b] = bpc[b]
      BY <2>2 DEF TryHot, TryScan, NewBot, TypeOK
    <3> QED BY <1>1, <3>1, <3>2 DEF PublishedBotIsReady
  <2>3. CASE HotSucceeds \/ HotFails
    <3>1. bpc[nbot] = "hot" /\ active' = active /\ \A b \in Bot \ {nbot} : bpc'[b] = bpc[b]
      BY <1>1, <2>3 DEF HotSucceeds, HotFails, Go, LoopInv, TypeOK
    <3> QED BY <1>1, <3>1 DEF PublishedBotIsReady
  <2>4. CASE ScanGivesUp \/ ExitActive \/ Outside
    BY <1>1, <2>4, OutsideFrame DEF ScanGivesUp, ExitActive, PublishedBotIsReady
  <2>5. ASSUME NEW b \in Bot, BotSteps(b) PROVE active' \in Bot /\ (active' # 0 => bpc'[active'] = "ok")
    <3>1. active' = active
      BY <2>5, BotStepsFrame
    <3>2. bpc' = bpc \/ (bpc[b] # "ok" /\ \A a \in Bot \ {b} : bpc'[a] = bpc[a])
      BY <2>5 DEF BotSteps, BotLogin, Answered, UUIDCallback, ScanCallBack, InitUserInfo, NotifyAndSync,
         LoginCallBack, LoginFails, SyncStops, SessionEnds, Step, TypeOK
    <3> QED BY <1>1, <3>1, <3>2 DEF PublishedBotIsReady
  <2> QED BY <2>1, <2>2, <2>3, <2>4, <2>5, Steps
<1> QED BY <1>1, <1>2 DEF BotsInv, PublishedBotIsReady

LEMMA ReasonPreserved ==
  ASSUME TypeOK, LoopInv, StopInv, LoopEndsForAReason, [Next]_vars
  PROVE  LoopEndsForAReason'
<1>1. CASE LoopMoves
  <2>1. cancelled' = cancelled
    BY <1>1, LoopMovesFrame DEF mainVars
  <2>2. lpc' = "exited" => (lpc = "mark" /\ active' = active /\ state' = "logged_in") \/ cancelled
    BY <1>1 DEF StopInv, LoopMoves, Decide, NextAttempt, AttemptsUsed,
       BackoffElapses, BackoffStops, Publish, MarkLoggedIn, AutoScan, TryScanTooLate, ScanReturns, GiveUp,
       ServeRetry, ParkedStops, Go
  <2> QED BY <2>1, <2>2 DEF LoopInv, LoopEndsForAReason
<1>2. CASE TryHot \/ TryScan \/ HotSucceeds \/ HotFails \/ ScanGivesUp
  BY <1>2 DEF TryHot, TryScan, HotSucceeds, HotFails, ScanGivesUp, Go, LoopEndsForAReason
<1>3. CASE ExitActive
  BY <1>3 DEF ExitActive, LoopEndsForAReason, statusVars, loopVars
<1>4. CASE Outside
  <2>1. UNCHANGED <<state, lpc, active>>
    BY <1>4, OutsideFrame DEF statusVars, loopVars
  <2>2. cancelled => cancelled'
    BY <1>4 DEF Outside, Signal, StopLoginLoop, LoginDone, LoginDoneTimesOut, LoopStopped, Block, Unblock, Ended,
       Retry, vars, mainVars
  <2> QED BY <2>1, <2>2 DEF LoopEndsForAReason
<1>5. ASSUME NEW b \in Bot, BotSteps(b) PROVE LoopEndsForAReason'
  <2>1. UNCHANGED <<lpc, active, cancelled>>
    BY <1>5, BotStepsFrame DEF loopVars, mainVars
  <2>2. state' = state \/ state' # "failed"
    BY <1>5 DEF BotSteps, BotLogin, Answered, UUIDCallback, ScanCallBack, InitUserInfo, NotifyAndSync,
       LoginCallBack, LoginFails, SyncStops, SessionEnds, statusVars
  <2> QED BY <2>1, <2>2 DEF LoopEndsForAReason
<1> QED BY <1>1, <1>2, <1>3, <1>4, <1>5, Steps

-----------------------------------------------------------------------------
LEMMA InvInitially == Init => Inv
<1> SUFFICES ASSUME Init PROVE Inv
  OBVIOUS
<1>1. 0 \in Bot /\ MaxHot \in Nat /\ MaxAsked \in Nat /\ \A b \in Bot : ~(b \in 1 .. 0)
  BY Bots
<1>2. TypeOK
  <2>1. 0 \in 0 .. MaxHot
    BY <1>1
  <2>2. /\ kind \in [Bot -> {"none", "hot", "scan"}]
        /\ bpc \in [Bot -> {"none", "hot", "uuid", "gotuuid", "polling", "scanned", "confirmed",
                            "gotinit", "inited", "logincb", "ok", "err"}]
    BY DEF Init
  <2>3. self \in [Bot -> BOOLEAN] /\ up \in [Bot -> BOOLEAN] /\ syncing \in [Bot -> BOOLEAN]
    BY DEF Init
  <2>4. asked \in [{"hot", "scan"} -> Nat]
    BY DEF Init
  <2>5. /\ attempts \in 0 .. MaxHot /\ qr \in Bot /\ nbot \in Bot /\ active \in Bot /\ blockOn \in Bot
        /\ manual \in BOOLEAN /\ cancelled \in BOOLEAN /\ loginStop \in BOOLEAN
        /\ token \in {"none", "earlier", "current"}
    BY <1>1, <2>1 DEF Init
  <2> QED BY <2>2, <2>3, <2>4, <2>5 DEF Init, TypeOK
<1>3. FreshInv /\ LoopInv /\ StopInv /\ PublishedBotIsReady /\ LoopEndsForAReason
  BY <1>1 DEF Init, FreshInv, LoopInv, StopInv, PublishedBotIsReady, LoopEndsForAReason
<1>4. BotsInv
  BY <1>1 DEF Init, BotsInv
<1>5. BudgetInv
  <2>1. ASSUME NEW k \in {"hot", "scan"} PROVE Made(k) = 0
    <3>1. {b \in Bot : kind[b] = k} = {}
      BY DEF Init
    <3> QED BY <3>1, FS_EmptySet DEF Made
  <2> QED BY <1>1, <2>1 DEF Init, BudgetInv, One, Unscanned
<1> QED BY <1>2, <1>3, <1>4, <1>5 DEF Inv

LEMMA InvInvariant == Spec => []Inv
<1>1. Inv /\ [Next]_vars => Inv'
  BY TypesPreserved, FreshPreserved, LoopPreserved, BotsPreserved, StopPreserved, BudgetPreserved,
     PublishedPreserved, ReasonPreserved DEF Inv
<1> QED BY <1>1, InvInitially, PTL DEF Spec

(* Whatever the order of timers, callbacks, retries and the shutdown, and  *)
(* however often somebody asks for a retry: one bot at most is receiving   *)
(* messages, the published one has logged in, no code and no token attempt *)
(* is made unasked, and the loop ends only by a login or a shutdown.       *)
THEOREM LoginStaysSound == Spec => []LoginIsSound
<1>1. ASSUME Inv PROVE LoginIsSound
  <2>1. TypeOK /\ PublishedBotIsReady /\ LoopEndsForAReason /\ nbot \in Nat /\ nbot \in Bot
    BY <1>1, Bots DEF Inv, TypeOK
  <2>2. \A b \in Bot : (b \in 1 .. nbot /\ (b < nbot \/ lpc \in Between) => Dead(b))
                       /\ (syncing[b] => bpc[b] \in {"logincb", "ok"} /\ b \in 1 .. nbot)
    BY <1>1, <2>1, Bots DEF Inv, BotsInv, FreshInv
  <2>3. OneLiveBot
    <3>1. Syncing \subseteq {nbot}
      BY <2>1, <2>2, Bots DEF Syncing, Dead
    <3>2. Cardinality(Syncing) <= Cardinality({nbot}) /\ Cardinality({nbot}) = 1
      BY <3>1, FS_Subset, FS_Singleton
    <3>3. IsFiniteSet(Syncing)
      BY <3>1, FS_Subset, FS_Singleton
    <3>4. Cardinality(Syncing) <= 1
      BY <3>2, <3>3, FS_CardinalityType
    <3>5. 1 .. nbot \subseteq Bot
      BY <2>1, Bots
    <3> QED BY <2>2, <3>4, <3>5 DEF OneLiveBot, Between, Dead
  <2>4. LoginsAreAskedFor
    <3>1. Made("hot") \in Nat /\ Made("scan") \in Nat
      BY MadeType
    <3>2. /\ asked["hot"] \in Nat /\ asked["scan"] \in Nat /\ attempts \in Nat /\ attempts <= MaxHot /\ MaxHot \in Nat
      BY <2>1, Bots DEF TypeOK
    <3> DEFINE h == Made("hot")
               s == Made("scan")
    <3>3. /\ h + One(req = "hot") + One(lpc \in {"backoff", "tryhot"}) <= asked["hot"] + (IF manual THEN MaxHot ELSE attempts)
          /\ s + One(req = "scan") + One(lpc = "tryscan") <= asked["scan"] + One(~Unscanned)
          /\ h \in Nat /\ s \in Nat /\ (LoginsAreAskedFor <=> s <= 1 + asked["scan"] /\ h <= MaxHot + asked["hot"])
      BY <1>1, <3>1 DEF Inv, BudgetInv, LoginsAreAskedFor
    <3> HIDE DEF h, s
    <3> QED BY <3>2, <3>3 DEF One
  <2> QED BY <2>1, <2>3, <2>4 DEF LoginIsSound
<1> QED BY <1>1, InvInvariant, PTL
=============================================================================
