------------------------------ MODULE Delivery ------------------------------
(***************************************************************************)
(* How the WeChat adapter delivers messages (adapters/openwechat/          *)
(* adapter.go): the asynchronous dispatcher starts a goroutine per message *)
(* (guard, onText), which drops repeats, counts the task in deliverwg and  *)
(* hands it to its conversation's serial worker (runOnWorker, workerFor);  *)
(* the worker runs the task, which replies and may start a voice goroutine;*)
(* main shuts all of it down (StopAccepting, WaitInflight).  Each worker   *)
(* behaves as SerialExecutor, which SessionWorker implements.  Variants    *)
(* are faulty forms of the step they precede, used by no step of Next.     *)
(***************************************************************************)
EXTENDS Integers, Sequences, Functions, FiniteSets

CONSTANTS Msg,          \* deliveries, numbered as the WeChat sync loop makes them
          Key,          \* conversations (SessionKey)
          Id,           \* dedup keys: message ids, or sender and content
          KeyOf, IdOf,  \* the conversation and the dedup key of each delivery
          MaxSessions,  \* maxSessions
          Cap,          \* SerialQueueCap
          NoMsg, NoKey

ASSUME DeliveryAssumption ==
  /\ Msg \in SUBSET Nat /\ IsFiniteSet(Msg) /\ IsFiniteSet(Key)
  /\ KeyOf \in [Msg -> Key] /\ IdOf \in [Msg -> Id]
  /\ MaxSessions \in Nat \ {0} /\ Cap \in Nat \ {0}
  /\ NoMsg \notin Msg /\ NoKey \notin Key

VARIABLES
  accepting,  \* a.accepting
  workers,    \* keys of a.workers
  wg,         \* a.deliverwg
  replied,    \* dedup keys in the replied map
  hpc,        \* where each message's handler goroutine is
  voice,      \* the voice goroutine of each message
  phase, pending, worker, cur, ran,   \* per conversation, as in SerialExecutor
  verdict,    \* what RunSerial told each task
  cancelled,  \* the application context
  mpc,        \* main's shutdown sequence
  toStop,     \* sessions StopAccepting has still to stop
  stopping,   \* the one it is waiting for
  expired     \* history: dedup keys the cleaner has dropped

handlerVars == <<hpc, replied, expired>>
workerVars  == <<phase, pending, worker, cur, ran, verdict>>
mainVars    == <<accepting, cancelled, mpc, toStop, stopping>>
vars == <<handlerVars, workerVars, voice, mainVars, workers, wg>>

TypeOK ==
  /\ accepting \in BOOLEAN
  /\ workers \in SUBSET Key
  /\ wg \in Nat
  /\ replied \in SUBSET Id
  /\ hpc \in [Msg -> {"none", "guard", "dedup", "decide", "runOnWorker", "workerFor",
                      "RunSerial", "undo", "done"}]
  /\ voice \in [Msg -> {"none", "running", "done"}]
  /\ phase \in [Key -> {"new", "open", "closed"}]
  /\ pending \in [Key -> Seq(Msg)]
  /\ worker \in [Key -> {"none", "idle", "taken", "admitted", "running", "retired"}]
  /\ cur \in [Key -> Msg \cup {NoMsg}]
  /\ ran \in [Key -> Seq(Msg)]
  /\ verdict \in [Msg -> {"none", "accepted", "rejected"}]
  /\ cancelled \in BOOLEAN
  /\ mpc \in {"up", "cancelled", "closing", "stopping", "waiting", "drained", "timedout"}
  /\ toStop \in SUBSET Key
  /\ stopping \in Key \cup {NoKey}
  /\ expired \in SUBSET Id

(* The conversations without a message in Msg may have had theirs before:  *)
(* their workers are there, idle, and take their share of maxSessions.     *)
Others == Key \ Range(KeyOf)
ASSUME OthersAssumption == Cardinality(Others) <= MaxSessions

Init ==
  /\ accepting = TRUE
  /\ workers \in {{}, Others} /\ toStop = {} /\ stopping = NoKey
  /\ wg = Cardinality(workers)
  /\ replied = {} /\ expired = {}
  /\ hpc = [m \in Msg |-> "none"]
  /\ voice = [m \in Msg |-> "none"]
  /\ verdict = [m \in Msg |-> "none"]
  /\ phase = [k \in Key |-> IF k \in workers THEN "open" ELSE "new"]
  /\ worker = [k \in Key |-> IF k \in workers THEN "idle" ELSE "none"]
  /\ cur = [k \in Key |-> NoMsg]
  /\ pending = [k \in Key |-> <<>>]
  /\ ran = [k \in Key |-> <<>>]
  /\ cancelled = FALSE
  /\ mpc = "up"

-----------------------------------------------------------------------------
(* The handler goroutine of message m.                                     *)
Go(m, from, to) == hpc[m] = from /\ hpc' = [hpc EXCEPT ![m] = to]

(* The sync loop is sequential: it starts the goroutines in message order. *)
Arrive(m) ==
  /\ Go(m, "none", "guard")
  /\ \A n \in Msg : n < m => hpc[n] # "none"
  /\ UNCHANGED <<replied, expired, workerVars, voice, mainVars, workers, wg>>

Guard(m) ==
  /\ Go(m, "guard", IF accepting THEN "dedup" ELSE "done")
  /\ UNCHANGED <<replied, expired, workerVars, voice, mainVars, workers, wg>>

(* Variant: the key is stored without looking whether it was there.        *)
DedupStoresOnly(m) ==
  /\ Go(m, "dedup", "decide")
  /\ replied' = replied \cup {IdOf[m]}
  /\ UNCHANGED <<expired, workerVars, voice, mainVars, workers, wg>>

(* onText: LoadOrStore of the dedup key.                                   *)
Dedup(m) ==
  /\ Go(m, "dedup", IF IdOf[m] \in replied THEN "done" ELSE "decide")
  /\ replied' = replied \cup {IdOf[m]}
  /\ UNCHANGED <<expired, workerVars, voice, mainVars, workers, wg>>

(* Sent by the bot itself, someone joining a room, no id and no sender; or *)
(* after the dedup: no sender, or checkNeedReply says no.                  *)
NotForUs(m) ==
  /\ Go(m, "dedup", "done") \/ Go(m, "decide", "done")
  /\ UNCHANGED <<replied, expired, workerVars, voice, mainVars, workers, wg>>

CountTask(m) ==
  /\ Go(m, "decide", "runOnWorker")
  /\ wg' = wg + 1
  /\ UNCHANGED <<replied, expired, workerVars, voice, mainVars, workers>>

(* Variant: the early return forgets to give the count back.               *)
RunOnWorkerForgets(m) ==
  /\ Go(m, "runOnWorker", IF accepting THEN "workerFor" ELSE "done")
  /\ UNCHANGED <<replied, expired, workerVars, voice, mainVars, workers, wg>>

RunOnWorker(m) ==
  /\ Go(m, "runOnWorker", IF accepting THEN "workerFor" ELSE "undo")
  /\ UNCHANGED <<replied, expired, workerVars, voice, mainVars, workers, wg>>

(* workerFor, one critical section of workmu.                              *)
FindWorker(m) ==
  /\ accepting /\ KeyOf[m] \in workers
  /\ Go(m, "workerFor", "RunSerial")
  /\ UNCHANGED <<replied, expired, workerVars, voice, mainVars, workers, wg>>

StartsWorker(m) ==
  LET k == KeyOf[m] IN
  /\ k \notin workers
  /\ Go(m, "workerFor", "RunSerial")
  /\ workers' = workers \cup {k}
  /\ phase' = [phase EXCEPT ![k] = "open"]
  /\ worker' = [worker EXCEPT ![k] = "idle"]
  /\ wg' = wg + 1
  /\ UNCHANGED <<replied, expired, pending, cur, ran, verdict, voice, mainVars>>

(* Variant: accepting is not looked at again.                              *)
StartWorkerTooLate(m) == Cardinality(workers) < MaxSessions /\ StartsWorker(m)

StartWorker(m) == accepting /\ Cardinality(workers) < MaxSessions /\ StartsWorker(m)

NoWorker(m) ==
  /\ ~accepting \/ (KeyOf[m] \notin workers /\ Cardinality(workers) >= MaxSessions)
  /\ Go(m, "workerFor", "undo")
  /\ UNCHANGED <<replied, expired, workerVars, voice, mainVars, workers, wg>>

(* Variant: the send keeps waiting for room.                               *)
SubmitWaits(m) ==
  \/ /\ Len(pending[KeyOf[m]]) < Cap
     /\ Go(m, "RunSerial", "done")
     /\ verdict' = [verdict EXCEPT ![m] = "accepted"]
     /\ pending' = [pending EXCEPT ![KeyOf[m]] = Append(@, m)]
     /\ UNCHANGED <<replied, expired, phase, worker, cur, ran, voice, mainVars, workers, wg>>
  \/ /\ hpc[m] = "RunSerial" /\ Len(pending[KeyOf[m]]) = Cap
     /\ UNCHANGED vars

(* RunSerial, whose steps SessionWorker details.                           *)
Submit(m) ==
  LET k == KeyOf[m]
      room == phase[k] = "open" /\ Len(pending[k]) < Cap
  IN
  /\ Go(m, "RunSerial", IF room THEN "done" ELSE "undo")
  /\ verdict' = [verdict EXCEPT ![m] = IF room THEN "accepted" ELSE "rejected"]
  /\ pending' = IF room THEN [pending EXCEPT ![k] = Append(@, m)] ELSE pending
  /\ UNCHANGED <<replied, expired, phase, worker, cur, ran, voice, mainVars,
                 workers, wg>>

Uncount(m) ==
  /\ Go(m, "undo", "done")
  /\ wg' = wg - 1
  /\ UNCHANGED <<replied, expired, workerVars, voice, mainVars, workers>>

(* The ticker that drops dedup keys older than two minutes.                *)
CleanReplied(i) ==
  /\ ~cancelled
  /\ i \in replied
  /\ replied' = replied \ {i}
  /\ expired' = expired \cup {i}
  /\ UNCHANGED <<hpc, workerVars, voice, mainVars, workers, wg>>

-----------------------------------------------------------------------------
(* The worker of conversation k, and the task it runs.                     *)
Move(k, from, to) == worker[k] = from /\ worker' = [worker EXCEPT ![k] = to]

Take(k) ==
  /\ pending[k] # <<>>
  /\ Move(k, "idle", "taken")
  /\ cur' = [cur EXCEPT ![k] = Head(pending[k])]
  /\ pending' = [pending EXCEPT ![k] = Tail(@)]
  /\ UNCHANGED <<handlerVars, phase, ran, verdict, voice, mainVars, workers, wg>>

Admit(k) ==
  /\ ~cancelled
  /\ Move(k, "taken", "admitted")
  /\ UNCHANGED <<handlerVars, phase, pending, cur, ran, verdict, voice, mainVars, workers, wg>>

Start(k) ==
  /\ Move(k, "admitted", "running")
  /\ ran' = [ran EXCEPT ![k] = Append(@, cur[k])]
  /\ UNCHANGED <<handlerVars, phase, pending, cur, verdict, voice, mainVars, workers, wg>>

(* handleTextTask replies and may leave the voice answer to a goroutine of *)
(* its own, counted before it is started.                                  *)
StartVoice(k) ==
  /\ worker[k] = "running" /\ voice[cur[k]] = "none"
  /\ voice' = [voice EXCEPT ![cur[k]] = "running"]
  /\ wg' = wg + 1
  /\ UNCHANGED <<handlerVars, workerVars, mainVars, workers>>

(* The task returns or panics, with or without a reply: its deferred Done  *)
(* runs either way.                                                        *)
TaskEnds(k) ==
  /\ Move(k, "running", "idle")
  /\ cur' = [cur EXCEPT ![k] = NoMsg]
  /\ wg' = wg - 1
  /\ UNCHANGED <<handlerVars, phase, pending, ran, verdict, voice, mainVars, workers>>

VoiceEnds(m) ==
  /\ voice[m] = "running"
  /\ voice' = [voice EXCEPT ![m] = "done"]
  /\ wg' = wg - 1
  /\ UNCHANGED <<handlerVars, workerVars, mainVars, workers>>

Retire(k) ==
  /\ \/ worker[k] = "idle" /\ pending[k] = <<>> /\ phase[k] = "closed"
     \/ worker[k] = "taken" /\ cancelled
  /\ worker' = [worker EXCEPT ![k] = "retired"]
  /\ wg' = wg - 1
  /\ UNCHANGED <<handlerVars, phase, pending, cur, ran, verdict, voice, mainVars, workers>>

-----------------------------------------------------------------------------
(* main, on a signal: cancel(), then StopAccepting, then WaitInflight.     *)
Shutdown ==
  /\ mpc = "up"
  /\ mpc' = "cancelled" /\ cancelled' = TRUE
  /\ UNCHANGED <<handlerVars, workerVars, voice, accepting, toStop, stopping, workers, wg>>

CloseDoor ==
  /\ mpc = "cancelled"
  /\ mpc' = "closing" /\ accepting' = FALSE
  /\ UNCHANGED <<handlerVars, workerVars, voice, cancelled, toStop, stopping, workers, wg>>

CollectWorkers ==
  /\ mpc = "closing"
  /\ mpc' = "stopping" /\ toStop' = workers /\ workers' = {}
  /\ UNCHANGED <<handlerVars, workerVars, voice, accepting, cancelled, stopping, wg>>

StopNext(k) ==
  /\ mpc = "stopping" /\ stopping = NoKey
  /\ k \in toStop
  /\ stopping' = k
  /\ phase' = [phase EXCEPT ![k] = "closed"]
  /\ UNCHANGED <<handlerVars, pending, worker, cur, ran, verdict, voice, accepting, cancelled,
                 mpc, toStop, workers, wg>>

StopReturns ==
  /\ stopping # NoKey       \* the worker is done, or SerialDrainTimeout passed
  /\ toStop' = toStop \ {stopping}
  /\ stopping' = NoKey
  /\ UNCHANGED <<handlerVars, workerVars, voice, accepting, cancelled, mpc, workers, wg>>

WaitInflight ==
  /\ mpc = "stopping" /\ stopping = NoKey /\ toStop = {}
  /\ mpc' = "waiting"
  /\ UNCHANGED <<handlerVars, workerVars, voice, accepting, cancelled, toStop, stopping,
                 workers, wg>>

(* Variant: without the timer, main keeps waiting.                         *)
WaitReturnsDrained ==
  /\ mpc = "waiting"
  /\ mpc' = IF wg = 0 THEN "drained" ELSE mpc
  /\ UNCHANGED <<handlerVars, workerVars, voice, accepting, cancelled, toStop, stopping,
                 workers, wg>>

WaitReturns ==
  /\ mpc = "waiting"
  /\ \/ wg = 0 /\ mpc' = "drained"
     \/ mpc' = "timedout"      \* inflightWait has passed
  /\ UNCHANGED <<handlerVars, workerVars, voice, accepting, cancelled, toStop, stopping,
                 workers, wg>>

Handler(m) ==
  \/ Guard(m) \/ Dedup(m) \/ NotForUs(m) \/ CountTask(m) \/ RunOnWorker(m)
  \/ FindWorker(m) \/ StartWorker(m) \/ NoWorker(m) \/ Submit(m) \/ Uncount(m)
WorkerLoop(k) == Take(k) \/ Admit(k) \/ Start(k) \/ Retire(k)
Main == \/ CloseDoor \/ CollectWorkers \/ StopReturns \/ WaitInflight \/ WaitReturns
        \/ \E k \in Key : StopNext(k)

(* main has left WaitInflight and nothing else can move.                   *)
Terminated ==
  /\ mpc \in {"drained", "timedout"}
  /\ \A m \in Msg : hpc[m] = "done" /\ voice[m] # "running"
  /\ \A k \in Key : worker[k] \in {"none", "retired"}
  /\ UNCHANGED vars

Next ==
  \/ \E m \in Msg : Arrive(m) \/ Handler(m) \/ VoiceEnds(m)
  \/ \E k \in Key : WorkerLoop(k) \/ StartVoice(k) \/ TaskEnds(k)
  \/ \E i \in Id : CleanReplied(i)
  \/ Shutdown \/ Main \/ Terminated

Spec == Init /\ [][Next]_vars

(* Main and the workers go on when they can, and the timers of Stop and    *)
(* WaitInflight fire.  Handlers, tasks and voice answers may hang.         *)
Fairness == WF_vars(Main) /\ \A k \in Key : WF_vars(WorkerLoop(k))

FairSpec == Spec /\ Fairness
-----------------------------------------------------------------------------
Live(k) == worker[k] \notin {"none", "retired"}
BeingSubmitted(m) == hpc[m] \in {"runOnWorker", "workerFor", "RunSerial", "undo"}
Ended(m) == m \in Range(ran[KeyOf[m]]) /\ cur[KeyOf[m]] # m
Unfinished(m) == verdict[m] = "accepted" /\ ~Ended(m)

(* deliverwg counts exactly the live workers, the tasks counted by onText  *)
(* and not yet refused or ended, and the running voice answers: no path    *)
(* through runOnWorker, a panic or a refusal counts one twice or loses one.*)
(* (A task abandoned in a backlog stays counted until the process ends.)   *)
WgExact ==
  wg = Cardinality({k \in Key : Live(k)})
     + Cardinality({m \in Msg : BeingSubmitted(m) \/ Unfinished(m)})
     + Cardinality({m \in Msg : voice[m] = "running"})

(* Once WaitInflight has seen deliverwg drained, nothing runs and nothing  *)
(* ever will: a handler that slipped past guard before the door closed can *)
(* neither start a worker nor hand a task to one.                          *)
DrainedIsQuiet ==
  mpc = "drained" =>
    /\ \A k \in Key : ~Live(k)
    /\ \A m \in Msg : voice[m] # "running" /\ ~Unfinished(m)

(* StopAccepting misses no worker: when it returns no session is left open,*)
(* whichever handlers were inside workerFor meanwhile.                     *)
NoWorkerLeftOpen ==
  mpc \in {"waiting", "drained", "timedout"} => \A k \in Key : phase[k] # "open"

(* A conversation that may accept tasks is registered or on its way to be  *)
(* stopped, and there are never more than maxSessions of them.             *)
WorkersRegistered ==
  /\ \A k \in Key : phase[k] = "open" => k \in workers \cup toStop
  /\ Cardinality({k \in Key : Live(k)}) <= MaxSessions

(* A message delivered again under the same id is answered at most once,   *)
(* even when its deliveries are handled at the same time, as long as the   *)
(* cleaner has not forgotten the id in between.                            *)
AnsweredOncePerId ==
  \A i \in Id \ expired :
    Cardinality({m \in Msg : IdOf[m] = i /\ verdict[m] = "accepted"}) <= 1

(* The shutdown's bookkeeping: the count it waits for is exact, so drained *)
(* means quiet, and no worker is past its reach or the session limit.      *)
CountIsTrue == TypeOK /\ WgExact /\ DrainedIsQuiet
NoWorkerMissed == NoWorkerLeftOpen /\ WorkersRegistered

(* Every conversation's worker is used as SerialExecutor allows.           *)
TasksOf(k) == {m \in Msg : KeyOf[m] = k}
Executor(k) == INSTANCE SerialExecutor WITH
  Task <- TasksOf(k), NoTask <- NoMsg,
  phase <- phase[k], pending <- pending[k], worker <- worker[k], cur <- cur[k],
  ran <- ran[k], verdict <- [m \in TasksOf(k) |-> verdict[m]]
WorkersAreExecutors ==
  /\ \A k \in Range(KeyOf) : Executor(k)!ExecInit
  /\ [][\A k \in Key : Executor(k)!ExecNext \/ UNCHANGED Executor(k)!execVars]_vars

(* A shutdown ends, and leaves no goroutine behind but those whose task    *)
(* hangs: main gets past StopAccepting and WaitInflight whatever hangs, and*)
(* every worker, also one started while the door closed, retires once its  *)
(* task returns.                                                           *)
ShutdownEnds ==
  mpc = "cancelled" ~>
    [](/\ mpc \in {"drained", "timedout"}
       /\ \A k \in Key : Live(k) => worker[k] = "running")
=============================================================================
