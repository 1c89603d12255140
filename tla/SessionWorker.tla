---------------------------- MODULE SessionWorker ---------------------------
(***************************************************************************)
(* The serial worker of one Session (src/core/session/session.go): the     *)
(* goroutine StartWorker launches, RunSerial called by one goroutine per   *)
(* task, and Stop called by any number of goroutines.  The grain is that   *)
(* of the Go memory operations that can interleave: the RWMutex schedmu,   *)
(* the published queue handle, the buffered channel, the done channel, the *)
(* sync.Once and the adapter's WaitGroup.                                  *)
(*                                                                         *)
(* A definition introduced as a Variant is a faulty form of the one that   *)
(* follows it.  Next uses none of them: each is a bug some property below  *)
(* must notice when it takes the place of the step it varies.              *)
(***************************************************************************)
EXTENDS Integers, Sequences, Functions

CONSTANTS Task,      \* tasks, each submitted once, by a goroutine of its own
          Stopper,   \* goroutines that call Stop
          NoTask,    \* the worker's local t before and between receives
          Cap        \* SerialQueueCap

ASSUME WorkerAssumption == NoTask \notin Task /\ Cap \in Nat \ {0}

VARIABLES
  handle,     \* s.queue: "unset", "set", or "cleared" by Stop
  buf,        \* the channel's buffer
  closed,     \* the channel has been closed
  wpc,        \* the worker goroutine
  cur,        \* its local t
  doneCh,     \* s.done has been closed
  wg,         \* the adapter's deliverwg, this worker's share of it
  cancelled,  \* ctx.Err() # nil
  sender,     \* where the goroutine submitting each task is
  stopper,    \* where each caller of Stop is
  once,       \* s.once: "fresh", "busy" or "done"
  reported,   \* panicking tasks handed to OnTaskPanic
  accepted,   \* history: tasks sent on the channel, in order
  ran,        \* history: tasks the worker has called, in order
  ranAtCancel \* history: how many of them when the context was cancelled

workerVars == <<wpc, cur, doneCh, wg, reported, ran>>
senderVars == <<sender, accepted>>
stopVars   == <<stopper, once, handle, closed>>
ctxVars    == <<cancelled, ranAtCancel>>
vars == <<workerVars, senderVars, stopVars, ctxVars, buf>>

TypeOK ==
  /\ handle \in {"unset", "set", "cleared"}
  /\ buf \in Seq(Task)
  /\ closed \in BOOLEAN
  /\ wpc \in {"none", "recv", "got", "ready", "running", "closing", "leaving", "exited"}
  /\ cur \in Task \cup {NoTask}
  /\ doneCh \in BOOLEAN
  /\ wg \in Int
  /\ cancelled \in BOOLEAN
  /\ sender \in [Task -> {"idle", "calling", "rlocked", "loaded", "accepted", "rejected", "panicked"}]
  /\ stopper \in [Stopper -> {"idle", "follow", "wantlock", "locked", "waiting", "returned"}]
  /\ once \in {"fresh", "busy", "done"}
  /\ reported \in SUBSET Task
  /\ accepted \in Seq(Task)
  /\ ran \in Seq(Task)
  /\ ranAtCancel \in Nat

Init ==
  /\ handle = "unset"
  /\ buf = <<>>
  /\ closed = FALSE
  /\ wpc = "none"
  /\ cur = NoTask
  /\ doneCh = FALSE
  /\ wg = 0
  /\ cancelled = FALSE
  /\ sender = [t \in Task |-> "idle"]
  /\ stopper = [c \in Stopper |-> "idle"]
  /\ once = "fresh"
  /\ reported = {}
  /\ accepted = <<>>
  /\ ran = <<>>
  /\ ranAtCancel = 0

-----------------------------------------------------------------------------
(* schedmu, a sync.RWMutex: a waiting writer keeps new readers out.        *)
Readers == {t \in Task : sender[t] \in {"rlocked", "loaded"}}
WriterWaits == \E c \in Stopper : stopper[c] = "wantlock"
WriterHolds == \E c \in Stopper : stopper[c] = "locked"

(* StartWorker: the CAS on started lets one call through, which publishes  *)
(* the queue before it launches the goroutine.                             *)
StartWorker ==
  /\ wpc = "none"
  /\ handle' = "set"
  /\ wg' = wg + 1
  /\ wpc' = "recv"
  /\ UNCHANGED <<buf, closed, cur, doneCh, ctxVars, senderVars, stopper, once,
                 reported, ran>>

(* RunSerial, in the goroutine that submits t.                             *)
RunSerialCall(t) ==
  /\ sender[t] = "idle"
  /\ sender' = [sender EXCEPT ![t] = "calling"]
  /\ UNCHANGED <<workerVars, stopVars, buf, ctxVars, accepted>>

RunSerialLock(t) ==
  /\ sender[t] = "calling"
  /\ ~WriterWaits /\ ~WriterHolds
  /\ sender' = [sender EXCEPT ![t] = "rlocked"]
  /\ UNCHANGED <<workerVars, stopVars, buf, ctxVars, accepted>>

(* Variant: a RunSerial that finds no queue says true.                     *)
RunSerialLoadOptimistic(t) ==
  /\ sender[t] = "rlocked"
  /\ sender' = [sender EXCEPT ![t] = IF handle = "set" THEN "loaded" ELSE "accepted"]
  /\ UNCHANGED <<workerVars, stopVars, buf, ctxVars, accepted>>

RunSerialLoad(t) ==
  /\ sender[t] = "rlocked"
  /\ sender' = [sender EXCEPT ![t] = IF handle = "set" THEN "loaded" ELSE "rejected"]
  /\ UNCHANGED <<workerVars, stopVars, buf, ctxVars, accepted>>

(* A send on a closed channel panics, even when the select has a default.  *)
RunSerialSend(t) ==
  /\ sender[t] = "loaded"
  /\ \/ /\ closed
        /\ sender' = [sender EXCEPT ![t] = "panicked"]
        /\ UNCHANGED <<buf, accepted>>
     \/ /\ ~closed /\ Len(buf) < Cap
        /\ sender' = [sender EXCEPT ![t] = "accepted"]
        /\ buf' = Append(buf, t)
        /\ accepted' = Append(accepted, t)
     \/ /\ ~closed /\ Len(buf) >= Cap
        /\ sender' = [sender EXCEPT ![t] = "rejected"]
        /\ UNCHANGED <<buf, accepted>>
  /\ UNCHANGED <<workerVars, stopVars, ctxVars>>

(* The worker: for t := range q { if ctx.Err() ... runTaskSafely(t) }.     *)
Receive ==
  /\ wpc = "recv"
  /\ buf # <<>>
  /\ cur' = Head(buf)
  /\ buf' = Tail(buf)
  /\ wpc' = "got"
  /\ UNCHANGED <<doneCh, wg, reported, ran, senderVars, stopVars, ctxVars>>

RangeEnds ==
  /\ wpc = "recv"
  /\ closed /\ buf = <<>>
  /\ wpc' = "closing"
  /\ UNCHANGED <<cur, doneCh, wg, reported, ran, senderVars, stopVars, buf, ctxVars>>

(* Variant: without the look at ctx.Err().                                 *)
CheckCtxSkipped ==
  /\ wpc = "got"
  /\ wpc' = "ready"
  /\ UNCHANGED <<cur, doneCh, wg, reported, ran, senderVars, stopVars, buf, ctxVars>>

CheckCtx ==
  /\ wpc = "got"
  /\ wpc' = IF cancelled THEN "closing" ELSE "ready"
  /\ UNCHANGED <<cur, doneCh, wg, reported, ran, senderVars, stopVars, buf, ctxVars>>

StartTask ==
  /\ wpc = "ready"
  /\ wpc' = "running"
  /\ ran' = Append(ran, cur)
  /\ UNCHANGED <<cur, doneCh, wg, reported, senderVars, stopVars, buf, ctxVars>>

TaskReturns ==
  /\ wpc = "running"
  /\ wpc' = "recv"
  /\ cur' = NoTask
  /\ UNCHANGED <<doneCh, wg, reported, ran, senderVars, stopVars, buf, ctxVars>>

(* Variant: the task is tried again.                                       *)
TaskPanicsRetried ==
  /\ wpc = "running"
  /\ wpc' = "ready"
  /\ reported' = reported \cup {cur}
  /\ UNCHANGED <<cur, doneCh, wg, ran, senderVars, stopVars, buf, ctxVars>>

(* runTaskSafely recovers the panic, reports it, and the loop goes on.     *)
TaskPanics ==
  /\ wpc = "running"
  /\ wpc' = "recv"
  /\ cur' = NoTask
  /\ reported' = reported \cup {cur}
  /\ UNCHANGED <<doneCh, wg, ran, senderVars, stopVars, buf, ctxVars>>

(* The deferred calls, last first: close(s.done), then wg.Done().          *)
CloseDone ==
  /\ wpc = "closing"
  /\ doneCh' = TRUE
  /\ wpc' = "leaving"
  /\ UNCHANGED <<cur, wg, reported, ran, senderVars, stopVars, buf, ctxVars>>

WorkerExits ==
  /\ wpc = "leaving"
  /\ wg' = wg - 1
  /\ wpc' = "exited"
  /\ UNCHANGED <<cur, doneCh, reported, ran, senderVars, stopVars, buf, ctxVars>>

(* Stop.  The adapter calls it only on a session whose StartWorker has     *)
(* returned (both under workmu).  The first caller runs the once body; the *)
(* others wait for it, as sync.Once makes them.                            *)
StopEnter(c) ==
  /\ stopper[c] = "idle"
  /\ wpc # "none"
  /\ IF once = "fresh"
       THEN once' = "busy" /\ stopper' = [stopper EXCEPT ![c] = "wantlock"]
       ELSE once' = once /\ stopper' = [stopper EXCEPT ![c] = "follow"]
  /\ UNCHANGED <<workerVars, senderVars, handle, closed, buf, ctxVars>>

StopFollow(c) ==
  /\ stopper[c] = "follow"
  /\ once = "done"
  /\ stopper' = [stopper EXCEPT ![c] = "returned"]
  /\ UNCHANGED <<workerVars, senderVars, once, handle, closed, buf, ctxVars>>

(* Variant: without waiting for the readers.                               *)
StopLockAtOnce(c) ==
  /\ stopper[c] = "wantlock"
  /\ stopper' = [stopper EXCEPT ![c] = "locked"]
  /\ UNCHANGED <<workerVars, senderVars, once, handle, closed, buf, ctxVars>>

StopLock(c) ==
  /\ stopper[c] = "wantlock"
  /\ Readers = {}
  /\ stopper' = [stopper EXCEPT ![c] = "locked"]
  /\ UNCHANGED <<workerVars, senderVars, once, handle, closed, buf, ctxVars>>

StopClose(c) ==
  /\ stopper[c] = "locked"
  /\ handle' = "cleared"
  /\ closed' = (closed \/ handle = "set")
  /\ stopper' = [stopper EXCEPT ![c] = "waiting"]
  /\ UNCHANGED <<workerVars, senderVars, once, buf, ctxVars>>

StopLeaves(c) ==
  /\ stopper[c] = "waiting"
  /\ stopper' = [stopper EXCEPT ![c] = "returned"]
  /\ once' = "done"
  /\ UNCHANGED <<workerVars, senderVars, handle, closed, buf, ctxVars>>

StopSeesDone(c) == doneCh /\ StopLeaves(c)

(* SerialDrainTimeout has passed.  Variant: no timer.                      *)
StopWithoutTimer(c) == FALSE
StopTimesOut(c) == StopLeaves(c)

(* main cancels the context every worker was started with.                 *)
Cancel ==
  /\ ~cancelled
  /\ cancelled' = TRUE
  /\ ranAtCancel' = Len(ran)
  /\ UNCHANGED <<workerVars, senderVars, stopVars, buf>>

Worker == Receive \/ RangeEnds \/ CheckCtx \/ StartTask \/ CloseDone \/ WorkerExits
TaskEnds == TaskReturns \/ TaskPanics
RunSerial(t) == RunSerialLock(t) \/ RunSerialLoad(t) \/ RunSerialSend(t)
Stop(c) == \/ StopFollow(c) \/ StopLock(c) \/ StopClose(c)
           \/ StopSeesDone(c) \/ StopTimesOut(c)

(* Nothing is left to do: every goroutine has ended.                       *)
Terminated ==
  /\ wpc = "exited" /\ cancelled
  /\ \A t \in Task : sender[t] \in {"accepted", "rejected"}
  /\ \A c \in Stopper : stopper[c] = "returned"
  /\ UNCHANGED vars

Next ==
  \/ StartWorker \/ Worker \/ TaskEnds \/ Cancel \/ Terminated
  \/ \E t \in Task : RunSerialCall(t) \/ RunSerial(t)
  \/ \E c \in Stopper : StopEnter(c) \/ Stop(c)

Spec == Init /\ [][Next]_vars

(* The scheduler runs every goroutine that can move, and the drain timer   *)
(* of Stop fires.  Whether a task ever ends is not the worker's to decide: *)
(* FairSpec leaves it open, and a property that needs it assumes FairTasks *)
(* (Handle bounds every chat by a timeout).  Calls of RunSerial and Stop, and Cancel, may never come.*)
Fairness ==
  /\ WF_vars(Worker)
  /\ \A t \in Task : WF_vars(RunSerial(t))
  /\ \A c \in Stopper : WF_vars(Stop(c))

FairTasks == WF_vars(TaskEnds)

FairSpec == Spec /\ Fairness
-----------------------------------------------------------------------------
InHand == IF cur # NoTask /\ wpc # "running" THEN <<cur>> ELSE <<>>

(* No RunSerial ever sends on the channel Stop has closed, so a message    *)
(* arriving during shutdown cannot crash the bot: the handle a sender has  *)
(* loaded stays good until its send, however Stop interleaves with it.     *)
NoSendOnClosed ==
  /\ \A t \in Task : sender[t] # "panicked"
  /\ (\E t \in Task : sender[t] = "loaded") => ~closed

(* The worker calls tasks in the order RunSerial accepted them, skipping   *)
(* none and repeating none: what it has called, the task it holds and the  *)
(* backlog are together exactly the accepted tasks, in order.              *)
SerialOrder == accepted = ran \o InHand \o buf

(* "A false return guarantees the task will NOT run": the accepted tasks   *)
(* are exactly those whose RunSerial said true, each exactly once, and     *)
(* nothing else is ever called.                                            *)
VerdictIsTrue ==
  /\ \A t \in Task : sender[t] = "accepted" <=> t \in Range(accepted)
  /\ IsInjective(accepted)
  /\ Range(ran) \subseteq Range(accepted)

(* A flooding sender cannot grow memory: accepted tasks that have not been *)
(* called never exceed SerialQueueCap and the one in the worker's hand.    *)
BoundedBacklog == Len(accepted) - Len(ran) <= Cap + 1

(* The adapter's WaitGroup counts this worker exactly while its goroutine  *)
(* lives, and s.done never opens while a task may still be running: a Stop *)
(* that saw it, and a drained WaitInflight, leave no task behind.          *)
AccountedFor ==
  /\ wg = IF wpc \in {"none", "exited"} THEN 0 ELSE 1
  /\ doneCh <=> wpc \in {"leaving", "exited"}

(* The promises to the sender and to the adapter together, with the types. *)
SubmissionsAreSafe ==
  TypeOK /\ NoSendOnClosed /\ VerdictIsTrue /\ BoundedBacklog /\ AccountedFor

(* Once Stop has taken the lock nothing is accepted any more: the accepted *)
(* sequence is final and every later RunSerial is refused.                 *)
NothingAcceptedAfterStop ==
  [][handle = "cleared" => accepted' = accepted]_vars

(* Shutdown is not held for the backlog: after the context is cancelled    *)
(* the worker calls at most one more task, the one already past the check. *)
CancelStopsBacklog == cancelled => Len(ran) <= ranAtCancel + 1

(* Nobody who calls Stop or RunSerial is kept for good, even when the      *)
(* running task hangs, whoever else is calling.                            *)
CallersReturn ==
  /\ \A c \in Stopper : stopper[c] # "idle" ~> stopper[c] = "returned"
  /\ \A t \in Task : sender[t] = "calling" ~> sender[t] \in {"accepted", "rejected"}

(* When tasks end, closing the queue retires the worker, and a panicking   *)
(* task does not take the worker with it: every accepted task is called    *)
(* unless the context is cancelled first.                                  *)
WorkerFinishes == FairTasks =>
  /\ closed ~> wpc = "exited"
  /\ \A t \in Task : sender[t] = "accepted" ~> t \in Range(ran) \/ cancelled

(* Nothing in a session is kept waiting: neither its callers nor its tasks.*)
NobodyWaitsForEver == CallersReturn /\ WorkerFinishes

(* The worker implements the executor its callers rely on.                 *)
AbstractWorker ==
  CASE wpc \in {"none", "running"} -> wpc
    [] wpc = "recv" -> "idle"
    [] wpc = "got" -> "taken"
    [] wpc = "ready" -> "admitted"
    [] OTHER -> "retired"

Executor == INSTANCE SerialExecutor WITH
  phase   <- CASE handle = "unset" -> "new" [] handle = "set" -> "open" [] OTHER -> "closed",
  pending <- buf,
  worker  <- AbstractWorker,
  verdict <- [t \in Task |-> IF sender[t] \in {"accepted", "rejected"} THEN sender[t] ELSE "none"]

ImplementsExecutor == Executor!ExecSpec
=============================================================================
