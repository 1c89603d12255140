--------------------------- MODULE SerialExecutor ---------------------------
(***************************************************************************)
(* What one conversation's serial worker promises its callers (package     *)
(* core/session, StartWorker, RunSerial and Stop), with the locks,         *)
(* channels and timers left out.  A submission gets exactly one verdict;   *)
(* accepted tasks are started one at a time, in acceptance order, until    *)
(* the backlog of a closed executor is empty or the lifetime context is    *)
(* cancelled.  SessionWorker implements this module, and Delivery uses one *)
(* copy of it per conversation.                                            *)
(***************************************************************************)
EXTENDS Integers, Sequences

CONSTANTS Task,    \* the submissions, each made once
          NoTask,  \* "the worker holds no task"
          Cap      \* SerialQueueCap

VARIABLES phase,      \* "new" before StartWorker, then "open", "closed" by Stop
          pending,    \* accepted and not yet taken, oldest first
          worker,     \* "none", "idle", "taken", "admitted", "running", "retired"
          cur,        \* the task taken last and not finished
          verdict,    \* what each submission was told
          ran,        \* the tasks started, in order
          cancelled   \* the lifetime context

execVars == <<phase, pending, worker, cur, verdict, ran, cancelled>>

ExecInit ==
  /\ phase = "new"
  /\ pending = <<>>
  /\ worker = "none"
  /\ cur = NoTask
  /\ verdict = [t \in Task |-> "none"]
  /\ ran = <<>>
  /\ cancelled = FALSE

Open ==
  /\ phase = "new"
  /\ phase' = "open"
  /\ worker' = "idle"
  /\ UNCHANGED <<pending, cur, verdict, ran, cancelled>>

Accept(t) ==
  /\ phase = "open"
  /\ verdict[t] = "none"
  /\ Len(pending) < Cap
  /\ pending' = Append(pending, t)
  /\ verdict' = [verdict EXCEPT ![t] = "accepted"]
  /\ UNCHANGED <<phase, worker, cur, ran, cancelled>>

Reject(t) ==
  /\ phase # "open" \/ Len(pending) = Cap
  /\ verdict[t] = "none"
  /\ verdict' = [verdict EXCEPT ![t] = "rejected"]
  /\ UNCHANGED <<phase, pending, worker, cur, ran, cancelled>>

Take ==
  /\ worker = "idle"
  /\ pending # <<>>
  /\ worker' = "taken"
  /\ cur' = Head(pending)
  /\ pending' = Tail(pending)
  /\ UNCHANGED <<phase, verdict, ran, cancelled>>

(* A task taken before the cancel is admitted, and then it will start.     *)
Admit ==
  /\ worker = "taken"
  /\ ~cancelled
  /\ worker' = "admitted"
  /\ UNCHANGED <<phase, pending, cur, verdict, ran, cancelled>>

Start ==
  /\ worker = "admitted"
  /\ worker' = "running"
  /\ ran' = Append(ran, cur)
  /\ UNCHANGED <<phase, pending, cur, verdict, cancelled>>

Finish ==
  /\ worker = "running"
  /\ worker' = "idle"
  /\ cur' = NoTask
  /\ UNCHANGED <<phase, pending, verdict, ran, cancelled>>

(* The worker retires with its backlog served, or abandons it on cancel.   *)
Retire ==
  /\ \/ worker = "idle" /\ pending = <<>> /\ phase = "closed"
     \/ worker = "taken" /\ cancelled
  /\ worker' = "retired"
  /\ UNCHANGED <<phase, pending, cur, verdict, ran, cancelled>>

CloseExecutor ==
  /\ phase = "open"
  /\ phase' = "closed"
  /\ UNCHANGED <<pending, worker, cur, verdict, ran, cancelled>>

CancelExecutor ==
  /\ ~cancelled
  /\ cancelled' = TRUE
  /\ UNCHANGED <<phase, pending, worker, cur, verdict, ran>>

ExecNext ==
  \/ Open \/ Take \/ Admit \/ Start \/ Finish \/ Retire \/ CloseExecutor \/ CancelExecutor
  \/ \E t \in Task : Accept(t) \/ Reject(t)

ExecSpec == ExecInit /\ [][ExecNext]_execVars
=============================================================================
