------------------------- MODULE SessionWorkerProofs ------------------------
(***************************************************************************)
(* TLAPS proofs about SessionWorker, for any set of tasks and of callers   *)
(* of Stop and any capacity: type correctness, the lock discipline that    *)
(* keeps a send and the close of the queue apart, acceptance order,        *)
(* verdicts, accounting, and that the worker implements SerialExecutor.    *)
(***************************************************************************)
EXTENDS SessionWorker, SequenceTheorems, TLAPS

-----------------------------------------------------------------------------
(* Sequences: what the order and verdict invariants need of \o, Append,    *)
(* Head and Tail.                                                          *)

(* Appending keeps the type and is concatenation with a singleton.          *)
LEMMA AppendAsConcat ==
  ASSUME NEW S, NEW s \in Seq(S), NEW e \in S
  PROVE  /\ Append(s, e) \in Seq(S) /\ <<e>> \in Seq(S)
         /\ Append(s, e) = s \o <<e>>
BY AppendIsConcat, AppendProperties

(* A nonempty backlog is its first task followed by the rest.              *)
LEMMA HeadThenTail ==
  ASSUME NEW S, NEW b \in Seq(S), b # <<>>
  PROVE  /\ Head(b) \in S /\ Tail(b) \in Seq(S)
         /\ <<Head(b)>> \o Tail(b) = b
<1>1. /\ Head(b) \in S /\ Tail(b) \in Seq(S) /\ Len(Tail(b)) = Len(b) - 1
      /\ \A i \in 1 .. Len(Tail(b)) : Tail(b)[i] = b[i+1]
  BY HeadTailProperties
<1>2. Len(b) \in Nat \ {0}
  BY EmptySeq
<1>3. <<Head(b)>> \in Seq(S) /\ Len(<<Head(b)>>) = 1
  BY <1>1
<1> DEFINE c == <<Head(b)>> \o Tail(b)
<1>4. /\ c \in Seq(S) /\ Len(c) = Len(b)
      /\ \A i \in 1 .. Len(b) : c[i] = IF i <= 1 THEN <<Head(b)>>[i] ELSE Tail(b)[i - 1]
  BY <1>1, <1>2, <1>3, ConcatProperties
<1>5. \A i \in 1 .. Len(c) : c[i] = b[i]
  BY <1>1, <1>2, <1>4
<1> QED BY <1>1, <1>4, <1>5, SeqEqual

(* Appending adds one element to the range, and keeps an injective         *)
(* sequence injective when the element is new.                             *)
LEMMA RangeOfAppend ==
  ASSUME NEW S, NEW s \in Seq(S), NEW e \in S
  PROVE  /\ Range(Append(s, e)) = Range(s) \cup {e}
         /\ IsInjective(s) /\ e \notin Range(s) => IsInjective(Append(s, e))
<1> DEFINE a == Append(s, e)
<1>1. /\ a \in Seq(S) /\ Len(s) \in Nat /\ Len(a) = Len(s) + 1
      /\ DOMAIN a = 1 .. Len(s) + 1 /\ DOMAIN s = 1 .. Len(s)
      /\ \A i \in 1 .. Len(s) : a[i] = s[i]
      /\ a[Len(s) + 1] = e
  OBVIOUS
<1> HIDE DEF a
<1>2. Range(a) = Range(s) \cup {e}
  BY <1>1 DEF Range
<1>3. IsInjective(s) /\ e \notin Range(s) => IsInjective(a)
  BY <1>1 DEF Range, IsInjective
<1> QED BY <1>2, <1>3 DEF a

(* The tasks of a prefix are among the tasks of the whole.                 *)
LEMMA RangeOfPrefix ==
  ASSUME NEW S, NEW s \in Seq(S), NEW t \in Seq(S)
  PROVE  Range(s) \subseteq Range(s \o t)
<1> DEFINE c == s \o t
<1>1. /\ c \in Seq(S) /\ Len(s) \in Nat /\ Len(t) \in Nat
      /\ Len(c) = Len(s) + Len(t)
      /\ \A i \in 1 .. Len(s) + Len(t) : c[i] = IF i <= Len(s) THEN s[i] ELSE t[i - Len(s)]
  BY ConcatProperties
<1>2. DOMAIN s = 1 .. Len(s) /\ DOMAIN c = 1 .. Len(s) + Len(t)
  BY <1>1
<1> HIDE DEF c
<1>3. Range(s) \subseteq Range(c)
  BY <1>1, <1>2 DEF Range
<1> QED BY <1>3 DEF c
-----------------------------------------------------------------------------
(* What the worker holds: a task between its receive and its end, nothing  *)
(* while it waits.  TypeOK is inductive only together with this.           *)
Holding ==
  /\ wpc \in {"got", "ready", "running"} => cur \in Task
  /\ wpc \in {"none", "recv"} => cur = NoTask

(* Type correctness: every variable keeps its type, and the worker holds a *)
(* task exactly where the code uses one.                                   *)
TypeInv == TypeOK /\ Holding

(* Types are right, and the worker holds a task exactly from its receive   *)
(* to the end of the task.                                                 *)
LEMMA TypeInvariant == Spec => []TypeInv
<1>1. Init => TypeInv
  <2>1. <<>> \in Seq(Task)
    BY EmptySeq
  <2>2. ASSUME Init
        PROVE  /\ sender \in [Task -> {"idle", "calling", "rlocked", "loaded", "accepted",
                                      "rejected", "panicked"}]
               /\ stopper \in [Stopper -> {"idle", "follow", "wantlock", "locked",
                                          "waiting", "returned"}]
    BY <2>2 DEF Init
  <2>3. ASSUME Init
        PROVE  ranAtCancel \in Nat /\ wg \in Int /\ buf \in Seq(Task)
               /\ accepted \in Seq(Task) /\ ran \in Seq(Task)
    BY <2>1, <2>3 DEF Init
  <2> QED BY <2>2, <2>3, Zenon DEF Init, TypeInv, TypeOK, Holding
<1>2. TypeInv /\ [Next]_vars => TypeInv'
  <2> SUFFICES ASSUME TypeInv, [Next]_vars PROVE TypeInv'
    OBVIOUS
  <2> USE DEF TypeInv, Holding, TypeOK, workerVars, senderVars, stopVars, ctxVars
  <2>1. CASE StartWorker
    BY <2>1 DEF StartWorker
  <2>2. CASE Worker
    <3>1. CASE Receive
      <4>1. Head(buf) \in Task /\ Tail(buf) \in Seq(Task)
        BY <3>1, HeadTailProperties DEF Receive
      <4> QED BY <3>1, <4>1 DEF Receive
    <3>2. CASE RangeEnds
      BY <3>2 DEF RangeEnds
    <3>3. CASE CheckCtx
      BY <3>3 DEF CheckCtx
    <3>4. CASE StartTask
      <4>1. cur \in Task => Append(ran, cur) \in Seq(Task)
        OBVIOUS
      <4> QED BY <3>4, <4>1 DEF StartTask
    <3>5. CASE CloseDone
      BY <3>5 DEF CloseDone
    <3>6. CASE WorkerExits
      BY <3>6 DEF WorkerExits
    <3> QED BY <2>2, <3>1, <3>2, <3>3, <3>4, <3>5, <3>6 DEF Worker
  <2>3. CASE TaskEnds
    BY <2>3 DEF TaskEnds, TaskReturns, TaskPanics
  <2>4. CASE Cancel
    <3>1. Len(ran) \in Nat
      OBVIOUS
    <3> QED BY <2>4, <3>1 DEF Cancel
  <2>5. ASSUME NEW t \in Task, RunSerialCall(t) \/ RunSerial(t) PROVE TypeInv'
    <3>1. CASE RunSerialCall(t)
      BY <3>1 DEF RunSerialCall
    <3>2. CASE RunSerialLock(t)
      BY <3>2 DEF RunSerialLock
    <3>3. CASE RunSerialLoad(t)
      BY <3>3 DEF RunSerialLoad
    <3>4. CASE RunSerialSend(t)
      <4>1. Append(buf, t) \in Seq(Task) /\ Append(accepted, t) \in Seq(Task)
        OBVIOUS
      <4>2. buf' \in Seq(Task) /\ accepted' \in Seq(Task)
        BY <3>4, <4>1 DEF RunSerialSend
      <4>3. sender' \in [Task -> {"idle", "calling", "rlocked", "loaded", "accepted",
                                  "rejected", "panicked"}]
        BY <3>4 DEF RunSerialSend
      <4>4. UNCHANGED <<workerVars, stopVars, ctxVars>>
        BY <3>4 DEF RunSerialSend
      <4> QED BY <4>2, <4>3, <4>4
    <3> QED BY <2>5, <3>1, <3>2, <3>3, <3>4 DEF RunSerial
  <2>6. ASSUME NEW c \in Stopper, StopEnter(c) \/ Stop(c) PROVE TypeInv'
    <3>1. CASE StopEnter(c)
      BY <3>1 DEF StopEnter
    <3>2. CASE Stop(c)
      <4>1. CASE StopFollow(c)
        BY <4>1 DEF StopFollow
      <4>2. CASE StopLock(c)
        BY <4>2 DEF StopLock
      <4>3. CASE StopClose(c)
        BY <4>3 DEF StopClose
      <4>4. CASE StopLeaves(c)
        BY <4>4 DEF StopLeaves
      <4> QED BY <3>2, <4>1, <4>2, <4>3, <4>4 DEF Stop, StopSeesDone, StopTimesOut
    <3> QED BY <2>6, <3>1, <3>2
  <2>7. CASE UNCHANGED vars
    BY <2>7 DEF vars
  <2> QED BY <2>1, <2>2, <2>3, <2>4, <2>5, <2>6, <2>7 DEF Next, Terminated
<1> QED BY <1>1, <1>2, PTL DEF Spec

(* Every variable keeps its type.                                          *)
THEOREM TypeCorrect == Spec => []TypeOK
<1> QED BY TypeInvariant, PTL DEF TypeInv

-----------------------------------------------------------------------------
(* The lock discipline.  NoSendOnClosed is not inductive: that a loaded    *)
(* handle stays good rests on the writer excluding the readers, on the     *)
(* close happening only under the lock, and on Stop coming after           *)
(* StartWorker.                                                            *)
LockInv ==
  /\ WriterHolds => Readers = {}
  /\ closed => handle = "cleared"
  /\ wpc = "none" => handle = "unset" /\ \A c \in Stopper : stopper[c] = "idle"
  /\ wpc # "none" => handle # "unset"
  /\ \A t \in Task : sender[t] = "loaded" => handle = "set"
  /\ \A t \in Task : sender[t] # "panicked"

(* Readers and the writer of schedmu exclude each other, and the channel   *)
(* is closed only with the handle cleared.                                 *)
LEMMA LockInvariant == Spec => []LockInv
<1>1. Init => LockInv
  BY DEF Init, LockInv, WriterHolds, Readers
<1>2. TypeInv /\ LockInv /\ [Next]_vars => LockInv'
  <2> SUFFICES ASSUME TypeInv, LockInv, [Next]_vars PROVE LockInv'
    OBVIOUS
  <2> USE DEF LockInv, TypeInv, TypeOK, workerVars, senderVars, stopVars, ctxVars
  <2>1. CASE StartWorker
    BY <2>1 DEF StartWorker, WriterHolds, Readers
  <2>2. CASE Worker \/ TaskEnds
    BY <2>2 DEF Worker, Receive, RangeEnds, CheckCtx, StartTask, CloseDone, WorkerExits,
                TaskEnds, TaskReturns, TaskPanics, WriterHolds, Readers
  <2>3. CASE Cancel
    BY <2>3 DEF Cancel, WriterHolds, Readers
  <2>4. ASSUME NEW t \in Task, RunSerialCall(t) \/ RunSerial(t) PROVE LockInv'
    <3>1. CASE RunSerialCall(t)
      BY <3>1 DEF RunSerialCall, WriterHolds, Readers
    <3>2. CASE RunSerialLock(t)
      BY <3>2 DEF RunSerialLock, WriterHolds, Readers
    <3>3. CASE RunSerialLoad(t)
      BY <3>3 DEF RunSerialLoad, WriterHolds, Readers
    <3>4. CASE RunSerialSend(t)
      BY <3>4 DEF RunSerialSend, WriterHolds, Readers
    <3> QED BY <2>4, <3>1, <3>2, <3>3, <3>4 DEF RunSerial
  <2>5. ASSUME NEW c \in Stopper, StopEnter(c) \/ Stop(c) PROVE LockInv'
    <3>1. CASE StopEnter(c)
      BY <3>1 DEF StopEnter, WriterHolds, Readers
    <3>2. CASE StopFollow(c)
      BY <3>2 DEF StopFollow, WriterHolds, Readers
    <3>3. CASE StopLock(c)
      BY <3>3 DEF StopLock, WriterHolds, Readers
    <3>4. CASE StopClose(c)
      BY <3>4 DEF StopClose, WriterHolds, Readers
    <3>5. CASE StopLeaves(c)
      BY <3>5 DEF StopLeaves, WriterHolds, Readers
    <3> QED BY <2>5, <3>1, <3>2, <3>3, <3>4, <3>5 DEF Stop, StopSeesDone, StopTimesOut
  <2>6. CASE UNCHANGED vars
    BY <2>6 DEF vars, WriterHolds, Readers
  <2> QED BY <2>1, <2>2, <2>3, <2>4, <2>5, <2>6 DEF Next, Terminated
<1> QED BY <1>1, <1>2, TypeInvariant, PTL DEF Spec

(* No RunSerial ever sends on a closed channel, whatever the interleaving  *)
(* with Stop, for any number of senders and of callers of Stop.            *)
THEOREM SendsAreSafe == Spec => []NoSendOnClosed
<1>1. LockInv => NoSendOnClosed
  BY DEF LockInv, NoSendOnClosed
<1> QED BY <1>1, LockInvariant, PTL

-----------------------------------------------------------------------------
(* Acceptance order.  Every step either appends one task to both ends of   *)
(* the equation, moves a task from one part to the next, or leaves all     *)
(* parts alone.                                                            *)
OrderInv == SerialOrder /\ Len(buf) <= Cap

(* Every step keeps the accepted tasks equal to the called ones, the one   *)
(* in hand and the backlog, and the backlog within Cap.                    *)
LEMMA OrderPreserved == TypeInv /\ OrderInv /\ [Next]_vars => OrderInv'
<1> SUFFICES ASSUME TypeInv, OrderInv, [Next]_vars PROVE OrderInv'
  OBVIOUS
<1> USE WorkerAssumption
    DEF TypeInv, TypeOK, Holding, workerVars, senderVars, stopVars, ctxVars
<1>1. InHand \in Seq(Task) /\ ran \in Seq(Task) /\ buf \in Seq(Task) /\ ran \o InHand \in Seq(Task)
  <2>1. InHand \in Seq(Task)
    BY EmptySeq DEF InHand
  <2> QED BY <2>1, ConcatProperties
<1>2. SUFFICES SerialOrder' /\ (Len(buf) <= Cap)'
  BY DEF OrderInv
<1>3. ASSUME UNCHANGED <<accepted, ran, buf>>, InHand' = InHand
      PROVE  SerialOrder' /\ (Len(buf) <= Cap)'
  BY <1>3 DEF OrderInv, SerialOrder
<1>4. CASE Receive
  <2>1. InHand = <<>> /\ InHand' = <<Head(buf)>>
    <3>1. Head(buf) \in Task
      BY <1>4, HeadTailProperties DEF Receive
    <3> QED BY <1>4, <3>1 DEF Receive, InHand
  <2>2. buf # <<>> /\ buf' = Tail(buf) /\ ran' = ran /\ accepted' = accepted
    BY <1>4 DEF Receive
  <2>3. /\ Head(buf) \in Task /\ Tail(buf) \in Seq(Task)
        /\ <<Head(buf)>> \o Tail(buf) = buf
    BY <2>2, HeadThenTail
  <2>4. accepted = ran \o buf
    BY <2>1, ConcatEmptySeq DEF OrderInv, SerialOrder
  <2>5. ran \o <<Head(buf)>> \o Tail(buf) = ran \o (<<Head(buf)>> \o Tail(buf))
    <3>1. <<Head(buf)>> \in Seq(Task)
      BY <2>3
    <3> QED BY <2>3, <3>1, ConcatAssociative
  <2>6. Len(Tail(buf)) <= Cap
    BY <2>2, HeadTailProperties DEF OrderInv
  <2> QED BY <2>1, <2>2, <2>3, <2>4, <2>5, <2>6 DEF SerialOrder
<1>5. CASE StartTask
  <2>1. cur \in Task /\ InHand = <<cur>> /\ InHand' = <<>>
    BY <1>5 DEF StartTask, InHand
  <2>2. ran' = Append(ran, cur) /\ buf' = buf /\ accepted' = accepted
    BY <1>5 DEF StartTask
  <2>3. Append(ran, cur) \in Seq(Task) /\ Append(ran, cur) = ran \o <<cur>>
    BY <2>1, AppendAsConcat
  <2>4. Append(ran, cur) \o <<>> = Append(ran, cur)
    BY <2>3, ConcatEmptySeq
  <2> QED BY <2>1, <2>2, <2>3, <2>4 DEF OrderInv, SerialOrder
<1>6. CASE Cancel \/ StartWorker \/ RangeEnds \/ CheckCtx \/ CloseDone \/ WorkerExits \/ TaskEnds
  <2>1. UNCHANGED <<accepted, ran, buf>>
    BY <1>6 DEF Cancel, StartWorker, RangeEnds, CheckCtx, CloseDone, WorkerExits,
                TaskEnds, TaskReturns, TaskPanics
  <2>2. InHand' = InHand
    BY <1>6 DEF Cancel, StartWorker, RangeEnds, CheckCtx, CloseDone, WorkerExits,
                TaskEnds, TaskReturns, TaskPanics, InHand
  <2> QED BY <1>3, <2>1, <2>2
<1>7. ASSUME NEW t \in Task, RunSerialSend(t), ~closed, Len(buf) < Cap
      PROVE  SerialOrder' /\ (Len(buf) <= Cap)'
  <2>1. /\ buf' = Append(buf, t) /\ accepted' = Append(accepted, t)
        /\ ran' = ran /\ InHand' = InHand
    BY <1>7 DEF RunSerialSend, InHand
  <2>2. Append(accepted, t) = (ran \o InHand) \o Append(buf, t)
    <3> DEFINE rh == ran \o InHand
    <3>1. /\ Append(accepted, t) = accepted \o <<t>>
          /\ Append(buf, t) = buf \o <<t>> /\ <<t>> \in Seq(Task)
      BY <1>1, AppendAsConcat
    <3>2. accepted = rh \o buf /\ rh \in Seq(Task)
      BY <1>1 DEF OrderInv, SerialOrder
    <3>3. (rh \o buf) \o <<t>> = rh \o (buf \o <<t>>)
      <4>1. buf \in Seq(Task)
        BY <1>1
      <4> HIDE DEF rh
      <4> QED BY <4>1, <3>1, <3>2, ConcatAssociative
    <3> QED BY <3>1, <3>2, <3>3
  <2>3. Len(Append(buf, t)) <= Cap
    <3>1. Len(Append(buf, t)) = Len(buf) + 1 /\ Len(buf) \in Nat
      BY <1>1, <1>7
    <3>2. Len(buf) < Cap
      BY <1>7
    <3> QED BY <3>1, <3>2
  <2> QED BY <2>1, <2>2, <2>3 DEF OrderInv, SerialOrder
<1>8. ASSUME NEW t \in Task, RunSerialCall(t) \/ RunSerial(t)
      PROVE  SerialOrder' /\ (Len(buf) <= Cap)'
  <2>1. \/ ~closed /\ Len(buf) < Cap /\ RunSerialSend(t)
        \/ UNCHANGED <<accepted, ran, buf, cur, wpc>>
    BY <1>8 DEF RunSerialCall, RunSerial, RunSerialLock, RunSerialLoad, RunSerialSend
  <2> QED BY <1>3, <1>7, <2>1 DEF InHand
<1>9. ASSUME NEW c \in Stopper, StopEnter(c) \/ Stop(c)
      PROVE  SerialOrder' /\ (Len(buf) <= Cap)'
  <2>1. UNCHANGED <<accepted, ran, buf, cur, wpc>>
    BY <1>9 DEF StopEnter, Stop, StopFollow, StopLock, StopClose, StopSeesDone, StopTimesOut,
                StopLeaves
  <2> QED BY <1>3, <2>1 DEF InHand
<1>10. CASE UNCHANGED vars
  BY <1>3, <1>10 DEF vars, InHand
<1> QED BY <1>4, <1>5, <1>6, <1>8, <1>9, <1>10 DEF Next, Worker, Terminated

(* The order invariant holds in every reachable state.                     *)
LEMMA OrderInvariant == Spec => []OrderInv
<1>1. Init => OrderInv
  <2>1. Init => accepted = <<>> /\ ran = <<>> /\ buf = <<>> /\ InHand = <<>>
    BY DEF Init, InHand
  <2>2. <<>> \o <<>> = <<>>
    OBVIOUS
  <2>3. Len(<<>>) <= Cap
    BY WorkerAssumption
  <2> QED BY <2>1, <2>2, <2>3 DEF OrderInv, SerialOrder
<1> QED BY <1>1, OrderPreserved, TypeInvariant, PTL DEF Spec

(* The worker calls the accepted tasks in acceptance order, skipping and   *)
(* repeating none.                                                         *)
THEOREM AcceptanceOrder == Spec => []SerialOrder
<1> QED BY OrderInvariant, PTL DEF OrderInv

(* The backlog is bounded by SerialQueueCap, and with it the tasks         *)
(* accepted but not called.                                                *)
THEOREM BacklogBounded == Spec => []BoundedBacklog
<1>1. TypeInv /\ OrderInv => BoundedBacklog
  <2> SUFFICES ASSUME TypeInv, OrderInv PROVE BoundedBacklog
    OBVIOUS
  <2> USE WorkerAssumption DEF TypeInv, TypeOK
  <2>1. InHand \in Seq(Task) /\ Len(InHand) <= 1
    <3>1. CASE InHand = <<>>
      BY <3>1, EmptySeq
    <3>2. CASE cur \in Task /\ InHand = <<cur>>
      BY <3>2
    <3> QED BY <3>1, <3>2 DEF InHand
  <2>2. ran \o InHand \in Seq(Task) /\ Len(ran \o InHand) = Len(ran) + Len(InHand)
    BY <2>1, ConcatProperties
  <2>3. Len(accepted) = Len(ran \o InHand) + Len(buf)
    BY <2>2, ConcatProperties DEF OrderInv, SerialOrder
  <2>4. Len(ran) \in Nat /\ Len(buf) \in Nat /\ Len(InHand) \in Nat
    BY <2>1
  <2> QED BY <2>1, <2>2, <2>3, <2>4 DEF OrderInv, BoundedBacklog
<1> QED BY <1>1, TypeInvariant, OrderInvariant, PTL

-----------------------------------------------------------------------------
(* Verdicts.  A task is appended to accepted exactly when its sender turns *)
(* to "accepted", which it does at most once.                              *)
VerdictInv ==
  /\ \A t \in Task : sender[t] = "accepted" <=> t \in Range(accepted)
  /\ IsInjective(accepted)

(* Every step keeps the verdicts and the accepted sequence in agreement.   *)
LEMMA VerdictPreserved == TypeInv /\ VerdictInv /\ [Next]_vars => VerdictInv'
<1> SUFFICES ASSUME TypeInv, VerdictInv, [Next]_vars PROVE VerdictInv'
  OBVIOUS
<1> USE DEF TypeInv, TypeOK, workerVars, senderVars, stopVars, ctxVars
<1>1. ASSUME accepted' = accepted,
             \A t \in Task : sender'[t] = "accepted" <=> sender[t] = "accepted"
      PROVE  VerdictInv'
  BY <1>1 DEF VerdictInv
<1>2. ASSUME NEW t \in Task, RunSerialSend(t), ~closed, Len(buf) < Cap
      PROVE  VerdictInv'
  <2>1. /\ accepted' = Append(accepted, t)
        /\ sender[t] = "loaded" /\ sender' = [sender EXCEPT ![t] = "accepted"]
    BY <1>2, WorkerAssumption DEF RunSerialSend
  <2>2. t \notin Range(accepted)
    BY <2>1 DEF VerdictInv
  <2>3. Range(accepted') = Range(accepted) \cup {t} /\ IsInjective(accepted')
    <3>1. IsInjective(accepted) /\ accepted \in Seq(Task)
      BY DEF VerdictInv
    <3>2. /\ Range(Append(accepted, t)) = Range(accepted) \cup {t}
          /\ IsInjective(Append(accepted, t))
      BY <2>2, <3>1, RangeOfAppend
    <3> QED BY <2>1, <3>2
  <2>4. \A u \in Task : sender'[u] = "accepted" <=> sender[u] = "accepted" \/ u = t
    BY <2>1
  <2> QED BY <2>3, <2>4 DEF VerdictInv
<1>3. ASSUME NEW t \in Task, RunSerialCall(t) \/ RunSerial(t)
      PROVE  VerdictInv'
  <2>1. CASE ~closed /\ Len(buf) < Cap /\ RunSerialSend(t)
    BY <1>2, <2>1
  <2>2. CASE ~(~closed /\ Len(buf) < Cap /\ RunSerialSend(t))
    <3>1. /\ accepted' = accepted /\ sender[t] \notin {"accepted"}
          /\ \E v \in {"calling", "rlocked", "loaded", "rejected", "panicked"} :
               sender' = [sender EXCEPT ![t] = v]
      BY <1>3, <2>2
         DEF RunSerialCall, RunSerial, RunSerialLock, RunSerialLoad, RunSerialSend
    <3> QED BY <1>1, <3>1
  <2> QED BY <2>1, <2>2
<1>4. CASE StartWorker \/ Worker \/ TaskEnds \/ Cancel
  <2>1. UNCHANGED <<accepted, sender>>
    BY <1>4 DEF StartWorker, Worker, Receive, RangeEnds, CheckCtx, StartTask, CloseDone,
                WorkerExits, TaskEnds, TaskReturns, TaskPanics, Cancel
  <2> QED BY <1>1, <2>1
<1>5. ASSUME NEW c \in Stopper, StopEnter(c) \/ Stop(c) PROVE VerdictInv'
  <2>1. UNCHANGED <<accepted, sender>>
    BY <1>5 DEF StopEnter, Stop, StopFollow, StopLock, StopClose, StopSeesDone, StopTimesOut,
                StopLeaves
  <2> QED BY <1>1, <2>1
<1>6. CASE UNCHANGED vars
  BY <1>1, <1>6 DEF vars
<1> QED BY <1>3, <1>4, <1>5, <1>6 DEF Next, Terminated

(* What RunSerial returned is true: accepted tasks are those it said true  *)
(* for, once each, and only they are ever called.                          *)
THEOREM VerdictsHold == Spec => []VerdictIsTrue
<1>1. Init => VerdictInv
  <2>1. Range(<<>>) = {} /\ IsInjective(<<>>)
    BY DEF Range, IsInjective
  <2> QED BY <2>1 DEF Init, VerdictInv
<1>2. TypeInv /\ OrderInv /\ VerdictInv => VerdictIsTrue
  <2> SUFFICES ASSUME TypeInv, OrderInv, VerdictInv PROVE VerdictIsTrue
    OBVIOUS
  <2> USE WorkerAssumption DEF TypeInv, TypeOK
  <2>1. InHand \in Seq(Task)
    BY EmptySeq DEF InHand
  <2>2. ran \o InHand \in Seq(Task) /\ Range(ran) \subseteq Range(ran \o InHand)
    BY <2>1, ConcatProperties, RangeOfPrefix
  <2>3. Range(ran \o InHand) \subseteq Range(accepted)
    BY <2>2, RangeOfPrefix DEF OrderInv, SerialOrder
  <2> QED BY <2>2, <2>3 DEF VerdictInv, VerdictIsTrue
<1> QED BY <1>1, <1>2, VerdictPreserved, TypeInvariant, OrderInvariant, PTL DEF Spec

-----------------------------------------------------------------------------
(* Accounting and cancellation.  The one task that may still start after a *)
(* cancel is the one the worker holds past its check.                      *)
AccountInv ==
  /\ AccountedFor
  /\ cancelled => Len(ran) <= ranAtCancel + IF wpc = "ready" THEN 0 ELSE 1

(* The counter and s.done agree with where the worker is, and the tasks    *)
(* called since the cancel with what it has still to call.                 *)
LEMMA AccountInvariant == Spec => []AccountInv
<1>1. Init => AccountInv
  BY DEF Init, AccountInv, AccountedFor
<1>2. TypeInv /\ AccountInv /\ [Next]_vars => AccountInv'
  <2> SUFFICES ASSUME TypeInv, AccountInv, [Next]_vars PROVE AccountInv'
    OBVIOUS
  <2> USE DEF TypeInv, TypeOK, AccountInv, AccountedFor,
              workerVars, senderVars, stopVars, ctxVars
  <2>0. Len(ran) \in Nat
    OBVIOUS
  <2>1. CASE StartWorker
    BY <2>0, <2>1 DEF StartWorker
  <2>2. CASE StartTask
    <3>1. cur \in Task /\ Len(ran') = Len(ran) + 1
      BY <2>2 DEF StartTask, Holding
    <3> QED BY <2>0, <2>2, <3>1 DEF StartTask
  <2>3. CASE Receive \/ RangeEnds \/ CheckCtx
    BY <2>0, <2>3 DEF Receive, RangeEnds, CheckCtx
  <2>4. CASE CloseDone \/ WorkerExits
    BY <2>0, <2>4 DEF CloseDone, WorkerExits
  <2>5. CASE TaskEnds
    BY <2>0, <2>5 DEF TaskEnds, TaskReturns, TaskPanics
  <2>6. CASE Cancel
    BY <2>0, <2>6 DEF Cancel
  <2>7. ASSUME NEW t \in Task, RunSerialCall(t) \/ RunSerial(t) PROVE AccountInv'
    BY <2>7 DEF RunSerialCall, RunSerial, RunSerialLock, RunSerialLoad, RunSerialSend
  <2>8. ASSUME NEW c \in Stopper, StopEnter(c) \/ Stop(c) PROVE AccountInv'
    BY <2>8 DEF StopEnter, Stop, StopFollow, StopLock, StopClose, StopSeesDone, StopTimesOut,
                StopLeaves
  <2>9. CASE UNCHANGED vars
    BY <2>9 DEF vars
  <2> QED BY <2>1, <2>2, <2>3, <2>4, <2>5, <2>6, <2>7, <2>8, <2>9 DEF Next, Worker, Terminated
<1> QED BY <1>1, <1>2, TypeInvariant, PTL DEF Spec

(* The WaitGroup and s.done tell the truth about the worker.               *)
THEOREM WorkerAccounted == Spec => []AccountedFor
<1> QED BY AccountInvariant, PTL DEF AccountInv

(* All of these at once: what the adapter and the sender are promised.     *)
THEOREM WorkerKeepsPromises == Spec => []SubmissionsAreSafe
<1>1. TypeOK /\ NoSendOnClosed /\ VerdictIsTrue /\ BoundedBacklog /\ AccountedFor
        => SubmissionsAreSafe
  BY DEF SubmissionsAreSafe
<1> QED BY <1>1, TypeCorrect, SendsAreSafe, VerdictsHold, BacklogBounded, WorkerAccounted, PTL

(* At most one task starts after the context is cancelled.                 *)
THEOREM CancelBoundsWork == Spec => []CancelStopsBacklog
<1>1. TypeInv /\ AccountInv => CancelStopsBacklog
  <2> SUFFICES ASSUME TypeInv, AccountInv PROVE CancelStopsBacklog
    OBVIOUS
  <2>1. Len(ran) \in Nat /\ ranAtCancel \in Nat
    BY DEF TypeInv, TypeOK
  <2> QED BY <2>1 DEF AccountInv, CancelStopsBacklog
<1> QED BY <1>1, TypeInvariant, AccountInvariant, PTL

(* Once the handle is cleared nothing more is accepted.                    *)
THEOREM AcceptedIsFinal == Spec => NothingAcceptedAfterStop
<1>1. TypeInv /\ LockInv /\ [Next]_vars => [handle = "cleared" => accepted' = accepted]_vars
  <2> SUFFICES ASSUME TypeInv, LockInv, [Next]_vars, handle = "cleared"
               PROVE  accepted' = accepted
    OBVIOUS
  <2> USE DEF workerVars, senderVars, stopVars, ctxVars
  <2>1. ASSUME NEW t \in Task, RunSerialCall(t) \/ RunSerial(t) PROVE accepted' = accepted
    BY <2>1 DEF LockInv, RunSerialCall, RunSerial, RunSerialLock, RunSerialLoad, RunSerialSend
  <2>2. ASSUME NEW c \in Stopper, StopEnter(c) \/ Stop(c) PROVE accepted' = accepted
    BY <2>2 DEF StopEnter, Stop, StopFollow, StopLock, StopClose, StopSeesDone, StopTimesOut,
                StopLeaves
  <2>3. CASE StartWorker \/ Worker \/ TaskEnds \/ Cancel
    BY <2>3 DEF StartWorker, Worker, Receive, RangeEnds, CheckCtx, StartTask, CloseDone,
                WorkerExits, TaskEnds, TaskReturns, TaskPanics, Cancel
  <2>4. CASE UNCHANGED vars
    BY <2>4 DEF vars
  <2> QED BY <2>1, <2>2, <2>3, <2>4 DEF Next, Terminated
<1> QED BY <1>1, TypeInvariant, LockInvariant, PTL DEF Spec, NothingAcceptedAfterStop

-----------------------------------------------------------------------------
(* Refinement: every step of the worker, of a sender or of Stop is one     *)
(* step of SerialExecutor or leaves the executor's state alone.            *)
LEMMA ExecutorStep ==
  TypeInv /\ LockInv /\ OrderInv /\ [Next]_vars => [Executor!ExecNext]_(Executor!execVars)
<1> SUFFICES ASSUME TypeInv, LockInv, OrderInv, [Next]_vars
             PROVE  Executor!ExecNext \/ UNCHANGED Executor!execVars
  OBVIOUS
<1> USE WorkerAssumption
    DEF TypeInv, TypeOK, Holding, LockInv, workerVars, senderVars, stopVars, ctxVars
<1>1. CASE StartWorker
  <2>1. Executor!Open
    BY <1>1 DEF StartWorker, Executor!Open, AbstractWorker
  <2> QED BY <2>1 DEF Executor!ExecNext
<1>2. CASE Receive
  <2>1. Executor!Take
    BY <1>2 DEF Receive, Executor!Take, AbstractWorker
  <2> QED BY <2>1 DEF Executor!ExecNext
<1>3. CASE StartTask
  <2>1. Executor!Start
    BY <1>3 DEF StartTask, Executor!Start, AbstractWorker
  <2> QED BY <2>1 DEF Executor!ExecNext
<1>4. CASE TaskEnds
  <2>1. Executor!Finish
    BY <1>4 DEF TaskEnds, TaskReturns, TaskPanics, Executor!Finish, AbstractWorker
  <2> QED BY <2>1 DEF Executor!ExecNext
<1>5. CASE RangeEnds \/ (CheckCtx /\ cancelled)
  <2>1. Executor!Retire
    BY <1>5 DEF RangeEnds, CheckCtx, Executor!Retire, AbstractWorker
  <2> QED BY <2>1 DEF Executor!ExecNext
<1>6. CASE CheckCtx /\ ~cancelled
  <2>1. Executor!Admit
    BY <1>6 DEF CheckCtx, Executor!Admit, AbstractWorker
  <2> QED BY <2>1 DEF Executor!ExecNext
<1>7. CASE Cancel
  <2>1. Executor!CancelExecutor
    BY <1>7 DEF Cancel, Executor!CancelExecutor, AbstractWorker
  <2> QED BY <2>1 DEF Executor!ExecNext
<1>8. ASSUME NEW t \in Task, RunSerialCall(t) \/ RunSerial(t)
      PROVE  Executor!ExecNext \/ UNCHANGED Executor!execVars
  <2> DEFINE same == UNCHANGED <<handle, wpc, cur, ran, cancelled>>
  <2>1. ASSUME NEW v \in {"calling", "rlocked", "loaded"}, sender[t] \notin {"accepted", "rejected"},
               sender' = [sender EXCEPT ![t] = v], buf' = buf, same
        PROVE  UNCHANGED Executor!execVars
    BY <2>1 DEF Executor!execVars, AbstractWorker
  <2>2. ASSUME sender[t] \notin {"accepted", "rejected"}, same, buf' = buf,
               sender' = [sender EXCEPT ![t] = "rejected"], handle # "set" \/ Len(buf) = Cap
        PROVE  Executor!Reject(t)
    BY <2>2 DEF Executor!Reject, AbstractWorker
  <2>3. ASSUME sender[t] = "loaded", same, Len(buf) < Cap, buf' = Append(buf, t),
               sender' = [sender EXCEPT ![t] = "accepted"]
        PROVE  Executor!Accept(t)
    BY <2>3 DEF Executor!Accept, AbstractWorker
  <2>4. CASE RunSerialCall(t)
    BY <2>1, <2>4 DEF RunSerialCall
  <2>5. CASE RunSerialLock(t)
    BY <2>1, <2>5 DEF RunSerialLock
  <2>6. CASE RunSerialLoad(t)
    BY <2>1, <2>2, <2>6 DEF RunSerialLoad, Executor!ExecNext
  <2>7. CASE RunSerialSend(t)
    <3>1. ~closed
      BY <2>7 DEF RunSerialSend
    <3>2. Len(buf) \in Nat /\ Len(buf) <= Cap
      BY DEF OrderInv
    <3> QED BY <2>2, <2>3, <2>7, <3>1, <3>2 DEF RunSerialSend, Executor!ExecNext
  <2> QED BY <1>8, <2>4, <2>5, <2>6, <2>7 DEF RunSerial
<1>9. ASSUME NEW c \in Stopper, StopEnter(c) \/ Stop(c)
      PROVE  Executor!ExecNext \/ UNCHANGED Executor!execVars
  <2>1. CASE StopClose(c) /\ handle = "set"
    <3>1. Executor!CloseExecutor
      BY <2>1 DEF StopClose, Executor!CloseExecutor, AbstractWorker
    <3> QED BY <3>1 DEF Executor!ExecNext
  <2>2. CASE ~(StopClose(c) /\ handle = "set")
    <3>1. CASE StopClose(c)
      <4>1. handle = "cleared"
        BY <2>2, <3>1 DEF StopClose
      <4> QED BY <3>1, <4>1 DEF StopClose, Executor!execVars, AbstractWorker
    <3>2. CASE ~StopClose(c)
      <4>1. UNCHANGED <<handle, wpc, cur, ran, cancelled, buf, sender>>
        BY <1>9, <3>2 DEF StopEnter, Stop, StopFollow, StopLock, StopSeesDone, StopTimesOut,
                          StopLeaves
      <4> QED BY <4>1 DEF Executor!execVars, AbstractWorker
    <3> QED BY <3>1, <3>2 DEF Executor!execVars, AbstractWorker
  <2> QED BY <2>1, <2>2
<1>10. CASE CloseDone \/ WorkerExits \/ UNCHANGED vars
  BY <1>10 DEF CloseDone, WorkerExits, vars, Executor!execVars, AbstractWorker
<1> QED BY <1>1, <1>2, <1>3, <1>4, <1>5, <1>6, <1>7, <1>8, <1>9, <1>10
        DEF Next, Worker, Terminated

(* The worker implements the executor the adapter relies on.               *)
THEOREM WorkerImplementsExecutor == Spec => ImplementsExecutor
<1>1. Init => Executor!ExecInit
  BY DEF Init, Executor!ExecInit, AbstractWorker
<1> QED BY <1>1, ExecutorStep, TypeInvariant, LockInvariant, OrderInvariant, PTL
        DEF Spec, ImplementsExecutor, Executor!ExecSpec
=============================================================================
