--------------------------- MODULE DeliveryProofs ---------------------------
(***************************************************************************)
(* Proofs about Delivery, for any finite sets of messages and              *)
(* conversations, any limit of sessions and any capacity: the shutdown     *)
(* misses no worker, a repeated message is answered once, deliverwg counts *)
(* exactly what is under way, and every conversation's worker is used as   *)
(* SerialExecutor allows, the promise that SessionWorker is proved to keep.*)
(***************************************************************************)
EXTENDS Delivery, SequenceTheorems, FiniteSetTheorems, TLAPS

Places == {"none", "guard", "dedup", "decide", "runOnWorker", "workerFor", "RunSerial", "undo", "done"}
Types ==
  /\ accepting \in BOOLEAN /\ cancelled \in BOOLEAN
  /\ workers \in SUBSET Key /\ toStop \in SUBSET Key /\ stopping \in Key \cup {NoKey}
  /\ wg \in Int
  /\ replied \in SUBSET Id /\ expired \in SUBSET Id
  /\ hpc \in [Msg -> Places]
  /\ voice \in [Msg -> {"none", "running", "done"}]
  /\ verdict \in [Msg -> {"none", "accepted", "rejected"}]
  /\ phase \in [Key -> {"new", "open", "closed"}]
  /\ worker \in [Key -> {"none", "idle", "taken", "admitted", "running", "retired"}]
  /\ cur \in [Key -> Msg \cup {NoMsg}]
  /\ \A k \in Key : worker[k] \in {"taken", "admitted", "running"} => cur[k] \in Msg
  /\ pending \in [Key -> Seq(Msg)] /\ ran \in [Key -> Seq(Msg)]
  /\ mpc \in {"up", "cancelled", "closing", "stopping", "waiting", "drained", "timedout"}

(* The shutdown.  Until StopAccepting has collected the workers the open   *)
(* sessions are the registered ones, then those it has still to stop.      *)
Early == mpc \in {"up", "cancelled", "closing"}
DoorInv ==
  /\ accepting => mpc \in {"up", "cancelled"}
  /\ cancelled <=> mpc # "up"
  /\ ~Early => workers = {}
  /\ mpc # "stopping" => toStop = {} /\ stopping = NoKey
  /\ stopping # NoKey => stopping \in toStop
  /\ \A k \in Key : phase[k] = "open" <=> k \in workers \cup (toStop \ {stopping})
  /\ \A k \in Key : phase[k] = "new" <=> worker[k] = "none"
  /\ Early => \A k \in Key : phase[k] # "closed"

Workers == {k \in Key : Live(k)}
SessionInv ==
  /\ Cardinality(workers) <= MaxSessions
  /\ Cardinality(Workers) <= MaxSessions

(* The tasks of a conversation: where an accepted one is.                  *)
Untold == {"none", "guard", "dedup", "decide", "runOnWorker", "workerFor", "RunSerial"}
VerdictInv == \A m \in Msg : /\ verdict[m] = "accepted" => hpc[m] = "done"
                             /\ hpc[m] \in Untold => verdict[m] = "none"
(* A dedup key still remembered was given to one message at most.          *)
Past(m) == hpc[m] \in {"decide", "runOnWorker", "workerFor", "RunSerial", "undo"} \/ verdict[m] = "accepted"
DedupInv == \A m \in Msg : Past(m) /\ IdOf[m] \notin expired =>
  /\ IdOf[m] \in replied
  /\ \A n \in Msg : Past(n) /\ IdOf[n] = IdOf[m] => n = m

-----------------------------------------------------------------------------
(* Sequences of tasks.                                                     *)

LEMMA AppendTask ==
  ASSUME NEW s \in Seq(Msg), NEW m \in Msg
  PROVE  /\ Append(s, m) \in Seq(Msg) /\ Len(Append(s, m)) = Len(s) + 1
         /\ Range(Append(s, m)) = Range(s) \cup {m}
         /\ IsInjective(s) /\ m \notin Range(s) => IsInjective(Append(s, m))
<1> DEFINE a == Append(s, m)
<1>1. /\ a \in Seq(Msg) /\ Len(s) \in Nat /\ Len(a) = Len(s) + 1
      /\ DOMAIN a = 1 .. Len(s) + 1 /\ DOMAIN s = 1 .. Len(s)
      /\ \A i \in 1 .. Len(s) : a[i] = s[i]
      /\ a[Len(s) + 1] = m
  BY AppendProperties, LenProperties
<1> HIDE DEF a
<1>2. Range(a) = Range(s) \cup {m}
  BY <1>1 DEF Range
<1>3. ASSUME IsInjective(s), m \notin Range(s) PROVE IsInjective(a)
  BY <1>1, <1>3 DEF IsInjective, Range
<1> QED BY <1>1, <1>2, <1>3 DEF a

LEMMA TakeTask ==
  ASSUME NEW s \in Seq(Msg), s # <<>>
  PROVE  /\ Head(s) \in Msg /\ Tail(s) \in Seq(Msg) /\ Len(Tail(s)) = Len(s) - 1
         /\ Head(s) \in Range(s) /\ Range(Tail(s)) \subseteq Range(s)
         /\ IsInjective(s) => IsInjective(Tail(s)) /\ Head(s) \notin Range(Tail(s))
<1> DEFINE t == Tail(s)
<1>1. /\ Head(s) \in Msg /\ t \in Seq(Msg) /\ Len(t) = Len(s) - 1
      /\ \A i \in 1 .. Len(t) : t[i] = s[i+1]
  BY HeadTailProperties
<1>2. Len(s) \in Nat \ {0} /\ DOMAIN s = 1 .. Len(s) /\ DOMAIN t = 1 .. Len(s) - 1 /\ Head(s) = s[1]
  BY <1>1, EmptySeq, LenProperties
<1> HIDE DEF t
<1>3. Head(s) \in Range(s)
  BY <1>2 DEF Range
<1>4. Range(t) \subseteq Range(s)
  BY <1>1, <1>2 DEF Range
<1>5. \A i \in DOMAIN t : i + 1 \in DOMAIN s /\ i + 1 # 1 /\ t[i] = s[i+1]
  BY <1>1, <1>2
<1>6. ASSUME IsInjective(s) PROVE IsInjective(t)
  <2> SUFFICES ASSUME NEW i \in DOMAIN t, NEW j \in DOMAIN t, t[i] = t[j] PROVE i = j
    BY DEF IsInjective
  <2>1. i + 1 = j + 1
    BY <1>5, <1>6 DEF IsInjective
  <2> QED BY <1>2, <2>1
<1>7. ASSUME IsInjective(s) PROVE Head(s) \notin Range(t)
  BY <1>2, <1>5, <1>7 DEF IsInjective, Range
<1> QED BY <1>1, <1>3, <1>4, <1>6, <1>7 DEF t

-----------------------------------------------------------------------------
(* Types.                                                                  *)

LEMMA TypesPreserved == Types /\ [Next]_vars => Types'
<1> SUFFICES ASSUME Types, [Next]_vars PROVE Types'
  OBVIOUS
<1> USE DeliveryAssumption DEF Types, handlerVars, workerVars, mainVars
<1>1. ASSUME NEW m \in Msg, Arrive(m) \/ Handler(m) \/ VoiceEnds(m) PROVE Types'
  <2>0. ASSUME NEW from, NEW to \in Places, Go(m, from, to) PROVE hpc' \in [Msg -> Places]
    BY <2>0 DEF Go
  <2>1. CASE Arrive(m)
    BY <2>0, <2>1 DEF Arrive, Places
  <2>2. CASE Guard(m)
    BY <2>0, <2>2 DEF Guard, Places
  <2>3. CASE Dedup(m)
    <3>1. hpc' \in [Msg -> Places]
      BY <2>0, <2>3 DEF Dedup, Places
    <3> QED BY <2>3, <3>1 DEF Dedup
  <2>4. CASE NotForUs(m)
    BY <2>0, <2>4 DEF NotForUs, Places
  <2>5. CASE CountTask(m) \/ Uncount(m)
    BY <2>0, <2>5 DEF CountTask, Uncount, Places
  <2>6. CASE RunOnWorker(m) \/ FindWorker(m) \/ NoWorker(m)
    BY <2>0, <2>6 DEF RunOnWorker, FindWorker, NoWorker, Places
  <2>7. CASE StartWorker(m)
    <3>1. hpc' \in [Msg -> Places]
      BY <2>0, <2>7 DEF StartWorker, StartsWorker, Places
    <3>2. phase' \in [Key -> {"new", "open", "closed"}] /\ workers' \in SUBSET Key
      BY <2>7 DEF StartWorker, StartsWorker
    <3>3. /\ worker' \in [Key -> {"none", "idle", "taken", "admitted", "running", "retired"}]
          /\ \A k \in Key : worker'[k] # worker[k] => worker'[k] = "idle"
      BY <2>7 DEF StartWorker, StartsWorker
    <3> QED BY <2>7, <3>1, <3>2, <3>3 DEF StartWorker, StartsWorker
  <2>8. CASE Submit(m)
    <3>1. hpc' \in [Msg -> Places]
      BY <2>0, <2>8 DEF Submit, Places
    <3>2. pending' \in [Key -> Seq(Msg)]
      BY <2>8, AppendTask DEF Submit
    <3>3. verdict' \in [Msg -> {"none", "accepted", "rejected"}]
      BY <2>8 DEF Submit
    <3> QED BY <2>8, <3>1, <3>2, <3>3 DEF Submit
  <2>9. CASE VoiceEnds(m)
    BY <2>9 DEF VoiceEnds
  <2> QED BY <1>1, <2>1, <2>2, <2>3, <2>4, <2>5, <2>6, <2>7, <2>8, <2>9 DEF Handler
<1>2. ASSUME NEW k \in Key, WorkerLoop(k) \/ StartVoice(k) \/ TaskEnds(k) PROVE Types'
  <2>0. ASSUME NEW from, NEW to \in {"idle", "taken", "admitted", "running", "retired"}, Move(k, from, to)
        PROVE  /\ worker' \in [Key -> {"none", "idle", "taken", "admitted", "running", "retired"}]
               /\ worker[k] = from /\ worker'[k] = to
               /\ \A j \in Key \ {k} : worker'[j] = worker[j]
    BY <2>0 DEF Move
  <2>1. CASE Take(k)
    <3>1. Head(pending[k]) \in Msg /\ Tail(pending[k]) \in Seq(Msg)
      BY <2>1, TakeTask DEF Take
    <3>2. /\ pending' \in [Key -> Seq(Msg)] /\ cur' \in [Key -> Msg \cup {NoMsg}]
          /\ cur'[k] \in Msg /\ \A j \in Key \ {k} : cur'[j] = cur[j]
      BY <2>1, <3>1 DEF Take
    <3> QED BY <2>0, <2>1, <3>2 DEF Take
  <2>2. CASE Admit(k)
    BY <2>0, <2>2 DEF Admit
  <2>3. CASE Start(k)
    <3>1. worker[k] = "admitted" /\ cur[k] \in Msg
      BY <2>3 DEF Start, Move
    <3>2. ran' \in [Key -> Seq(Msg)]
      BY <2>3, <3>1, AppendTask DEF Start
    <3> QED BY <2>0, <2>3, <3>1, <3>2 DEF Start
  <2>4. CASE TaskEnds(k)
    <3>1. /\ cur' \in [Key -> Msg \cup {NoMsg}]
          /\ \A j \in Key \ {k} : cur'[j] = cur[j]
      BY <2>4 DEF TaskEnds
    <3> QED BY <2>0, <2>4, <3>1 DEF TaskEnds
  <2>5. CASE StartVoice(k)
    BY <2>5 DEF StartVoice
  <2>6. CASE Retire(k)
    BY <2>6 DEF Retire
  <2> QED BY <1>2, <2>1, <2>2, <2>3, <2>4, <2>5, <2>6 DEF WorkerLoop
<1>3. ASSUME NEW i \in Id, CleanReplied(i) PROVE Types'
  BY <1>3 DEF CleanReplied
<1>4. CASE Shutdown \/ Main
  BY <1>4 DEF Shutdown, Main, CloseDoor, CollectWorkers, StopNext, StopReturns, WaitInflight, WaitReturns
<1>5. CASE UNCHANGED vars
  BY <1>5 DEF vars
<1> QED BY <1>1, <1>2, <1>3, <1>4, <1>5 DEF Next, Terminated

-----------------------------------------------------------------------------
(* The shutdown and the registered sessions.                               *)

doorVars == <<accepting, cancelled, workers, toStop, stopping, mpc, phase>>

(* What everybody but main leaves alone.                                   *)
LEMMA HandlersKeepDoor ==
  ASSUME Types, NEW m \in Msg, Arrive(m) \/ Handler(m) \/ VoiceEnds(m), ~StartWorker(m)
  PROVE  UNCHANGED <<doorVars, worker>>
BY DEF Handler, Arrive, Guard, Dedup, NotForUs, CountTask, RunOnWorker, FindWorker, NoWorker, Submit,
       Uncount, VoiceEnds, mainVars, workerVars, doorVars

LEMMA WorkersKeepDoor ==
  ASSUME Types, NEW k \in Key, WorkerLoop(k) \/ StartVoice(k) \/ TaskEnds(k)
  PROVE  /\ UNCHANGED doorVars
         /\ worker[k] # "none" /\ worker'[k] # "none" /\ (worker[k] = "retired" => worker'[k] = "retired")
         /\ \A j \in Key \ {k} : worker'[j] = worker[j]
BY DEF Types, WorkerLoop, Take, Admit, Start, Retire, StartVoice, TaskEnds, Move, mainVars, workerVars, doorVars

LEMMA StartedWorker ==
  ASSUME Types, DoorInv, NEW m \in Msg, StartWorker(m)
  PROVE  /\ KeyOf[m] \in Key \ workers /\ workers' = workers \cup {KeyOf[m]} /\ Early
         /\ phase[KeyOf[m]] = "new" /\ worker[KeyOf[m]] = "none"
         /\ phase' = [phase EXCEPT ![KeyOf[m]] = "open"] /\ worker' = [worker EXCEPT ![KeyOf[m]] = "idle"]
         /\ UNCHANGED <<accepting, cancelled, toStop, stopping, mpc>>
<1>1. /\ accepting /\ KeyOf[m] \in Key \ workers /\ workers' = workers \cup {KeyOf[m]}
      /\ phase' = [phase EXCEPT ![KeyOf[m]] = "open"] /\ worker' = [worker EXCEPT ![KeyOf[m]] = "idle"]
      /\ UNCHANGED <<accepting, cancelled, toStop, stopping, mpc>>
  BY DeliveryAssumption DEF StartWorker, StartsWorker, mainVars
<1>2. Early /\ toStop = {}
  BY <1>1 DEF DoorInv, Early
<1>3. phase[KeyOf[m]] = "new" /\ worker[KeyOf[m]] = "none"
  BY <1>1, <1>2 DEF DoorInv, Types
<1> QED BY <1>1, <1>2, <1>3

LEMMA DoorPreserved == Types /\ DoorInv /\ [Next]_vars => DoorInv'
<1> SUFFICES ASSUME Types, DoorInv, [Next]_vars PROVE DoorInv'
  OBVIOUS
<1> USE DeliveryAssumption DEF Types, DoorInv, Early
<1>1. CASE UNCHANGED <<doorVars, worker>>
  BY <1>1 DEF doorVars
<1>2. ASSUME NEW m \in Msg, StartWorker(m) PROVE DoorInv'
  <2>1. PICK k \in Key \ workers :
           /\ workers' = workers \cup {k} /\ Early /\ phase[k] = "new" /\ worker[k] = "none"
           /\ phase' = [phase EXCEPT ![k] = "open"] /\ worker' = [worker EXCEPT ![k] = "idle"]
           /\ UNCHANGED <<accepting, cancelled, toStop, stopping, mpc>>
    BY <1>2, StartedWorker
  <2>2. /\ \A j \in Key : phase'[j] = "open" <=> j \in workers' \cup (toStop' \ {stopping'})
        /\ \A j \in Key : phase'[j] = "new" <=> worker'[j] = "none"
    BY <2>1
  <2>3. \A j \in Key : phase'[j] # "closed"
    BY <2>1
  <2> QED BY <2>1, <2>2, <2>3
<1>3. ASSUME NEW k \in Key, WorkerLoop(k) \/ StartVoice(k) \/ TaskEnds(k) PROVE DoorInv'
  BY <1>3, WorkersKeepDoor DEF doorVars
<1>4. CASE Shutdown \/ CloseDoor
  BY <1>4 DEF Shutdown, CloseDoor, workerVars
<1>5. CASE CollectWorkers
  <2>1. mpc = "closing" /\ toStop = {} /\ stopping = NoKey /\ \A k \in Key : phase[k] = "open" <=> k \in workers
    BY <1>5 DEF CollectWorkers
  <2>2. /\ mpc' = "stopping" /\ toStop' = workers /\ workers' = {} /\ stopping' = NoKey
        /\ UNCHANGED <<accepting, cancelled, phase, worker>>
    BY <1>5, <2>1 DEF CollectWorkers, workerVars
  <2>3. \A k \in Key : phase'[k] = "open" <=> k \in workers' \cup (toStop' \ {stopping'})
    BY <2>1, <2>2
  <2> QED BY <2>1, <2>2, <2>3
<1>6. ASSUME NEW k \in Key, StopNext(k) PROVE DoorInv'
  <2>1. k \in toStop /\ stopping = NoKey /\ stopping' = k /\ mpc = "stopping" /\ phase[k] = "open"
    BY <1>6 DEF StopNext
  <2>2. /\ phase' = [phase EXCEPT ![k] = "closed"]
        /\ UNCHANGED <<worker, workers, accepting, cancelled, mpc, toStop>>
    BY <1>6 DEF StopNext
  <2> QED BY <2>1, <2>2
<1>7. CASE StopReturns
  BY <1>7 DEF StopReturns, workerVars
<1>8. CASE WaitInflight \/ WaitReturns
  BY <1>8 DEF WaitInflight, WaitReturns, workerVars
<1>9. CASE (\E i \in Id : CleanReplied(i)) \/ UNCHANGED vars
  BY <1>1, <1>9 DEF CleanReplied, vars, doorVars, mainVars, workerVars
<1> QED BY <1>1, <1>2, <1>3, <1>4, <1>5, <1>6, <1>7, <1>8, <1>9, HandlersKeepDoor DEF Next, Main, Terminated

LEMMA SessionsPreserved == Types /\ DoorInv /\ SessionInv /\ [Next]_vars => SessionInv'
<1> SUFFICES ASSUME Types, DoorInv, SessionInv, [Next]_vars PROVE SessionInv'
  OBVIOUS
<1>1. IsFiniteSet(workers) /\ IsFiniteSet(Workers) /\ Cardinality(workers) \in Nat /\ Cardinality(Workers) \in Nat
  BY DeliveryAssumption, FS_Subset, FS_CardinalityType DEF Types, Workers
<1>2. CASE workers' \subseteq workers /\ Workers' \subseteq Workers
  <2>1. /\ Cardinality(workers') \in Nat /\ Cardinality(workers') <= Cardinality(workers)
        /\ Cardinality(Workers') \in Nat /\ Cardinality(Workers') <= Cardinality(Workers)
    BY <1>1, <1>2, FS_Subset, FS_CardinalityType
  <2> QED BY <1>1, <2>1, DeliveryAssumption DEF SessionInv
<1>3. ASSUME NEW m \in Msg, StartWorker(m) PROVE SessionInv'
  <2>1. Cardinality(workers) < MaxSessions
    BY <1>3 DEF StartWorker
  <2>2. workers' = workers \cup {KeyOf[m]} /\ KeyOf[m] \notin workers
    BY <1>3, StartedWorker
  <2>3. IsFiniteSet(workers') /\ Cardinality(workers') = Cardinality(workers) + 1
    BY <1>1, <2>2, FS_AddElement
  <2>4. Workers' \subseteq workers'
    <3>1. \A k \in Key : Live(k) => k \in workers
      BY <1>3, StartedWorker DEF Types, DoorInv, Live, Early
    <3>2. \A k \in Key : worker'[k] = worker[k] \/ k = KeyOf[m]
      BY <1>3, StartedWorker DEF Types
    <3> QED BY <2>2, <3>1, <3>2 DEF Workers, Live
  <2>5. Cardinality(Workers') \in Nat /\ Cardinality(Workers') <= Cardinality(workers')
    BY <2>3, <2>4, FS_Subset, FS_CardinalityType
  <2> QED BY <1>1, <2>1, <2>3, <2>5, DeliveryAssumption DEF SessionInv
<1>4. CASE UNCHANGED <<doorVars, worker>>
  BY <1>2, <1>4 DEF doorVars, Workers, Live
<1>5. ASSUME NEW k \in Key, WorkerLoop(k) \/ StartVoice(k) \/ TaskEnds(k) PROVE SessionInv'
  BY <1>2, <1>5, WorkersKeepDoor DEF doorVars, Workers, Live
<1>6. CASE Shutdown \/ Main
  BY <1>2, <1>6 DEF Shutdown, Main, CloseDoor, CollectWorkers, StopNext, StopReturns, WaitInflight,
                    WaitReturns, workerVars, Workers, Live
<1>7. CASE (\E i \in Id : CleanReplied(i)) \/ UNCHANGED vars
  BY <1>4, <1>7 DEF CleanReplied, vars, doorVars, mainVars, workerVars
<1> QED BY <1>3, <1>4, <1>5, <1>6, <1>7, HandlersKeepDoor DEF Next, Terminated

LEMMA SessionsInvariant == Spec => [](Types /\ DoorInv /\ SessionInv)
<1>1. Init => Types /\ DoorInv /\ SessionInv
  <2> SUFFICES ASSUME Init PROVE Types /\ DoorInv /\ SessionInv
    OBVIOUS
  <2>1. workers \in SUBSET Others /\ workers \in SUBSET Key /\ IsFiniteSet(Others)
    BY DeliveryAssumption, FS_Subset DEF Init, Others
  <2>2. Cardinality(workers) \in Nat /\ Cardinality(workers) <= MaxSessions
    BY <2>1, DeliveryAssumption, OthersAssumption, FS_Subset, FS_CardinalityType
  <2>3. Types
    <3>1. <<>> \in Seq(Msg)
      BY EmptySeq
    <3>2. /\ phase \in [Key -> {"new", "open", "closed"}]
          /\ worker \in [Key -> {"none", "idle", "taken", "admitted", "running", "retired"}]
          /\ \A k \in Key : worker[k] \notin {"taken", "admitted", "running"}
      BY DEF Init
    <3>3. /\ hpc \in [Msg -> Places] /\ voice \in [Msg -> {"none", "running", "done"}]
          /\ verdict \in [Msg -> {"none", "accepted", "rejected"}]
      BY DEF Init, Places
    <3>4. cur \in [Key -> Msg \cup {NoMsg}] /\ pending \in [Key -> Seq(Msg)] /\ ran \in [Key -> Seq(Msg)]
      BY <3>1 DEF Init
    <3>5. /\ toStop \in SUBSET Key /\ stopping \in Key \cup {NoKey} /\ wg \in Int
          /\ replied \in SUBSET Id /\ expired \in SUBSET Id
      BY <2>2 DEF Init
    <3> QED BY <2>1, <3>2, <3>3, <3>4, <3>5 DEF Init, Types
  <2>4. DoorInv
    BY <2>1 DEF Init, DoorInv, Early
  <2>5. Workers = workers
    BY <2>1 DEF Init, Workers, Live
  <2> QED BY <2>2, <2>3, <2>4, <2>5 DEF SessionInv
<1>2. Types /\ DoorInv /\ SessionInv /\ [Next]_vars => Types' /\ DoorInv' /\ SessionInv'
  BY TypesPreserved, DoorPreserved, SessionsPreserved
<1> QED BY <1>1, <1>2, PTL DEF Spec

(* StopAccepting misses no worker and the session limit holds, whatever    *)
(* handlers are inside workerFor meanwhile (adapter.go).                   *)
THEOREM NoWorkerEscapes == Spec => []NoWorkerMissed
<1>1. Types /\ DoorInv /\ SessionInv => NoWorkerMissed
  <2> SUFFICES ASSUME Types, DoorInv, SessionInv PROVE NoWorkerMissed
    OBVIOUS
  <2>1. NoWorkerLeftOpen
    BY DEF DoorInv, Early, NoWorkerLeftOpen
  <2>2. \A k \in Key : phase[k] = "open" => k \in workers \cup toStop
    BY DEF DoorInv
  <2> QED BY <2>1, <2>2 DEF SessionInv, Workers, NoWorkerMissed, WorkersRegistered
<1> QED BY <1>1, SessionsInvariant, PTL

-----------------------------------------------------------------------------
(* Verdicts and repeated messages.                                         *)

LEMMA Goes ==
  ASSUME Types, NEW m \in Msg, NEW from, NEW to, Go(m, from, to)
  PROVE  hpc[m] = from /\ hpc'[m] = to /\ \A n \in Msg \ {m} : hpc'[n] = hpc[n]
BY DEF Types, Go

\* What a step of message m's handler does to the verdicts and the dedup keys.
LEMMA HandlerSteps ==
  ASSUME Types, NEW m \in Msg, Arrive(m) \/ Handler(m)
  PROVE  /\ \A n \in Msg \ {m} : hpc'[n] = hpc[n] /\ verdict'[n] = verdict[n]
         /\ expired' = expired /\ replied \subseteq replied' /\ hpc[m] # "done"
         /\ \/ Submit(m)
            \/ Dedup(m)
            \/ verdict' = verdict /\ (hpc'[m] \in Untold => hpc[m] \in Untold)
               /\ (Past(m)' => Past(m))
<1> USE DEF Types, handlerVars, workerVars, Untold, Past
<1>1. CASE Arrive(m) \/ Guard(m)
  BY <1>1, Goes DEF Arrive, Guard
<1>2. CASE Dedup(m)
  BY <1>2, Goes DEF Dedup
<1>3. CASE NotForUs(m)
  BY <1>3, Goes DEF NotForUs
<1>4. CASE CountTask(m) \/ RunOnWorker(m)
  BY <1>4, Goes DEF CountTask, RunOnWorker
<1>5. CASE FindWorker(m) \/ NoWorker(m) \/ Uncount(m)
  BY <1>5, Goes DEF FindWorker, NoWorker, Uncount
<1>6. CASE StartWorker(m)
  BY <1>6, Goes DEF StartWorker, StartsWorker
<1>7. CASE Submit(m)
  BY <1>7, Goes DEF Submit
<1> QED BY <1>1, <1>2, <1>3, <1>4, <1>5, <1>6, <1>7 DEF Handler

\* What nobody but a handler touches.
LEMMA OthersKeepHandlers ==
  ASSUME Types, [Next]_vars, \A m \in Msg : ~(Arrive(m) \/ Handler(m))
  PROVE  /\ hpc' = hpc /\ verdict' = verdict
         /\ \/ replied' = replied /\ expired' = expired
            \/ \E i \in Id : CleanReplied(i)
<1> USE DEF handlerVars, workerVars
<1>1. CASE \E m \in Msg : VoiceEnds(m)
  BY <1>1 DEF VoiceEnds
<1>2. CASE \E k \in Key : WorkerLoop(k) \/ StartVoice(k) \/ TaskEnds(k)
  BY <1>2 DEF WorkerLoop, Take, Admit, Start, Retire, StartVoice, TaskEnds
<1>3. CASE Shutdown \/ Main
  BY <1>3 DEF Shutdown, Main, CloseDoor, CollectWorkers, StopNext, StopReturns, WaitInflight, WaitReturns
<1>4. CASE (\E i \in Id : CleanReplied(i)) \/ UNCHANGED vars
  BY <1>4 DEF CleanReplied, vars
<1> QED BY <1>1, <1>2, <1>3, <1>4 DEF Next, Terminated

LEMMA VerdictPreserved == Types /\ VerdictInv /\ [Next]_vars => VerdictInv'
<1> SUFFICES ASSUME Types, VerdictInv, [Next]_vars PROVE VerdictInv'
  OBVIOUS
<1>1. ASSUME NEW m \in Msg, Arrive(m) \/ Handler(m) PROVE VerdictInv'
  <2>1. CASE Submit(m)
    BY <1>1, <2>1, Goes, HandlerSteps DEF Types, VerdictInv, Submit, Untold
  <2>2. CASE Dedup(m)
    BY <1>1, <2>2, Goes, HandlerSteps DEF Types, VerdictInv, Dedup, Untold, workerVars
  <2> QED BY <1>1, <2>1, <2>2, HandlerSteps DEF VerdictInv
<1> QED BY <1>1, OthersKeepHandlers DEF VerdictInv

LEMMA DedupPreserved == Types /\ VerdictInv /\ DedupInv /\ [Next]_vars => DedupInv'
<1> SUFFICES ASSUME Types, VerdictInv, DedupInv, [Next]_vars PROVE DedupInv'
  OBVIOUS
<1>1. ASSUME NEW m \in Msg, Arrive(m) \/ Handler(m) PROVE DedupInv'
  <2>1. \A n \in Msg \ {m} : Past(n)' <=> Past(n)
    BY <1>1, HandlerSteps DEF Past
  <2>2. CASE Past(m)' => Past(m)
    BY <1>1, <2>1, <2>2, HandlerSteps DEF DedupInv
  <2>3. CASE Submit(m)
    BY <2>2, <2>3, Goes DEF Submit, Past
  <2>4. CASE Dedup(m)
    <3>1. CASE IdOf[m] \in replied
      BY <2>2, <2>4, <3>1, Goes DEF Dedup, Past, workerVars
    <3>2. CASE IdOf[m] \notin replied
      <4>1. \A n \in Msg : Past(n) /\ IdOf[n] \notin expired => IdOf[n] # IdOf[m]
        BY <3>2 DEF DedupInv
      <4>2. replied' = replied \cup {IdOf[m]} /\ expired' = expired
        BY <2>4 DEF Dedup
      <4> QED BY <2>1, <4>1, <4>2 DEF DedupInv
    <3> QED BY <3>1, <3>2
  <2> QED BY <1>1, <2>2, <2>3, <2>4, HandlerSteps
<1>2. ASSUME NEW i \in Id, CleanReplied(i) PROVE DedupInv'
  <2>1. /\ hpc' = hpc /\ verdict' = verdict
        /\ replied' = replied \ {i} /\ expired' = expired \cup {i}
    BY <1>2 DEF CleanReplied, workerVars
  <2> QED BY <2>1 DEF DedupInv, Past
<1>3. CASE UNCHANGED <<hpc, verdict, replied, expired>>
  BY <1>3 DEF DedupInv, Past
<1> QED BY <1>1, <1>2, <1>3, OthersKeepHandlers

LEMMA DedupInvariant == Spec => [](Types /\ VerdictInv /\ DedupInv)
<1>1. Init => VerdictInv /\ DedupInv
  BY DEF Init, VerdictInv, DedupInv, Past
<1>2. Types /\ VerdictInv /\ DedupInv /\ [Next]_vars => Types' /\ VerdictInv' /\ DedupInv'
  BY TypesPreserved, VerdictPreserved, DedupPreserved
<1> QED BY <1>1, <1>2, SessionsInvariant, PTL DEF Spec

(* Deliveries of one message, handled at the same time, lead to one answer *)
(* at most, until the cleaner forgets the key (onText of adapter.go).      *)
THEOREM RepeatsAnsweredOnce == Spec => []AnsweredOncePerId
<1>1. Types /\ DedupInv => AnsweredOncePerId
  <2> SUFFICES ASSUME DedupInv, NEW i \in Id \ expired
               PROVE  Cardinality({m \in Msg : IdOf[m] = i /\ verdict[m] = "accepted"}) <= 1
    BY DEF AnsweredOncePerId
  <2> DEFINE A == {m \in Msg : IdOf[m] = i /\ verdict[m] = "accepted"}
  <2>1. \A m, n \in A : m = n
    BY DEF DedupInv, Past
  <2>2. A = {} \/ \E m : A = {m}
    BY <2>1
  <2> HIDE DEF A
  <2>3. A = {} => Cardinality(A) = 0
    BY FS_EmptySet
  <2>4. (\E m : A = {m}) => Cardinality(A) = 1
    BY FS_Singleton
  <2> QED BY <2>2, <2>3, <2>4 DEF A
<1> QED BY <1>1, DedupInvariant, PTL

-----------------------------------------------------------------------------
(* The count.  Every step changes deliverwg by one exactly when a worker, a*)
(* task or a voice answer comes or goes, so a drained program is quiet.    *)

(* The tasks of a conversation: waiting in the backlog, in the worker's    *)
(* hands, or run.  A task is in one of these places once it is accepted.   *)
Accepted(m, k) == verdict[m] = "accepted" /\ KeyOf[m] = k
BacklogInv == \A k \in Key :
  /\ IsInjective(pending[k])
  /\ \A m \in Range(pending[k]) : Accepted(m, k) /\ m \notin Range(ran[k]) /\ m # cur[k]
RanInv == \A k \in Key : \A m \in Range(ran[k]) : Accepted(m, k)
InHandInv == \A k \in Key :
  /\ cur[k] # NoMsg => Accepted(cur[k], k)
  /\ worker[k] \in {"none", "idle"} => cur[k] = NoMsg
  /\ worker[k] \in {"taken", "admitted"} => cur[k] \notin Range(ran[k])
  /\ worker[k] = "running" => cur[k] \in Range(ran[k])
TaskInv == BacklogInv /\ RanInv /\ InHandInv

\* What deliverwg counts.
Counted == {m \in Msg : BeingSubmitted(m) \/ Unfinished(m)}
Speaking == {m \in Msg : voice[m] = "running"}
Grows(old, new) == \E x : x \notin old /\ new = old \cup {x}
Shrinks(old, new) == \E x \in old : new = old \ {x}

taskVars == <<verdict, pending, ran, cur>>
-----------------------------------------------------------------------------
(* Where the tasks are.                                                    *)

\* What every step but a few leaves alone.
LEMMA HandlersKeepTasks ==
  ASSUME Types, NEW m \in Msg, Arrive(m) \/ Handler(m) \/ VoiceEnds(m), ~Submit(m), ~StartWorker(m)
  PROVE  UNCHANGED <<taskVars, worker>>
BY DEF Handler, Arrive, Guard, Dedup, NotForUs, CountTask, RunOnWorker, FindWorker, NoWorker,
       Uncount, VoiceEnds, workerVars, taskVars

LEMMA MainKeepsTasks ==
  ASSUME Shutdown \/ Main \/ (\E i \in Id : CleanReplied(i)) \/ UNCHANGED vars
  PROVE  UNCHANGED <<taskVars, worker, hpc, voice, wg>>
BY DEF Shutdown, Main, CloseDoor, CollectWorkers, StopNext, StopReturns, WaitInflight, WaitReturns,
       CleanReplied, vars, workerVars, handlerVars, taskVars

\* A new task has never been seen, and its backlog gets it at the end.
LEMMA SubmittedTask ==
  ASSUME Types, VerdictInv, NEW m \in Msg, Submit(m)
  PROVE  /\ verdict[m] = "none"
         /\ \A n \in Msg \ {m} : verdict'[n] = verdict[n] /\ hpc'[n] = hpc[n]
         /\ UNCHANGED <<ran, cur, worker, phase, voice, wg>>
         /\ hpc[m] = "RunSerial"
         /\ \/ verdict'[m] = "rejected" /\ pending' = pending /\ hpc'[m] = "undo"
            \/ /\ verdict'[m] = "accepted" /\ hpc'[m] = "done" /\ phase[KeyOf[m]] = "open"
               /\ pending' = [pending EXCEPT ![KeyOf[m]] = Append(@, m)]
<1>1. hpc[m] = "RunSerial" /\ \A n \in Msg \ {m} : hpc'[n] = hpc[n]
  BY Goes DEF Submit
<1>2. verdict[m] = "none"
  BY <1>1 DEF VerdictInv, Untold
<1>3. /\ \A n \in Msg \ {m} : verdict'[n] = verdict[n]
      /\ UNCHANGED <<ran, cur, worker, phase, voice, wg>>
  BY DEF Types, Submit
<1>4. CASE phase[KeyOf[m]] = "open" /\ Len(pending[KeyOf[m]]) < Cap
  <2>1. verdict'[m] = "accepted" /\ pending' = [pending EXCEPT ![KeyOf[m]] = Append(@, m)]
    BY <1>4 DEF Types, Submit
  <2>2. hpc'[m] = "done"
    BY <1>4 DEF Types, Submit, Go
  <2> QED BY <1>1, <1>2, <1>3, <1>4, <2>1, <2>2
<1>5. CASE ~(phase[KeyOf[m]] = "open" /\ Len(pending[KeyOf[m]]) < Cap)
  <2>1. verdict'[m] = "rejected" /\ pending' = pending
    BY <1>5 DEF Types, Submit
  <2>2. hpc'[m] = "undo"
    BY <1>5 DEF Types, Submit, Go
  <2> QED BY <1>1, <1>2, <1>3, <2>1, <2>2
<1> QED BY <1>4, <1>5

LEMMA TasksPreserved == Types /\ DoorInv /\ VerdictInv /\ TaskInv /\ [Next]_vars => TaskInv'
<1> SUFFICES ASSUME Types, DoorInv, VerdictInv, TaskInv, [Next]_vars PROVE TaskInv'
  OBVIOUS
<1> USE DeliveryAssumption DEF TaskInv, Accepted
<1>1. ASSUME UNCHANGED taskVars,
             \A k \in Key : worker'[k] = worker[k] \/ (worker[k] = "none" /\ worker'[k] = "idle")
                            \/ (worker[k] = "taken" /\ worker'[k] = "admitted") \/ worker'[k] = "retired"
      PROVE  TaskInv'
  <2>1. BacklogInv' /\ RanInv'
    BY <1>1 DEF taskVars, BacklogInv, RanInv
  <2>2. InHandInv'
    BY <1>1 DEF taskVars, InHandInv
  <2> QED BY <2>1, <2>2
<1>2. ASSUME NEW m \in Msg, StartWorker(m) PROVE TaskInv'
  <2>1. worker[KeyOf[m]] = "none" /\ worker' = [worker EXCEPT ![KeyOf[m]] = "idle"]
    BY <1>2, StartedWorker
  <2>2. UNCHANGED taskVars
    BY <1>2 DEF StartWorker, StartsWorker, taskVars
  <2> QED BY <1>1, <2>1, <2>2 DEF Types
<1>3. ASSUME NEW m \in Msg, Submit(m) PROVE TaskInv'
  <2>0. DEFINE k == KeyOf[m]
  <2>1. k \in Key
    OBVIOUS
  <2>2. \A n \in Msg \cup {NoMsg} : n \in Msg /\ verdict[n] = "accepted" => n # m /\ verdict'[n] = "accepted"
    BY <1>3, SubmittedTask
  <2>3. /\ ran' = ran /\ cur' = cur /\ worker' = worker
        /\ \A j \in Key : Range(ran[j]) \subseteq Msg /\ Range(pending[j]) \subseteq Msg
        /\ \A j \in Key : cur[j] \in Msg \cup {NoMsg}
    BY <1>3, SubmittedTask, LenProperties DEF Types, Range
  <2>4. RanInv' /\ InHandInv'
    BY <2>2, <2>3 DEF RanInv, InHandInv
  <2>5. CASE pending' = pending
    BY <2>2, <2>3, <2>4, <2>5 DEF BacklogInv
  <2>6. CASE verdict'[m] = "accepted" /\ pending' = [pending EXCEPT ![k] = Append(@, m)]
    <3>1. verdict[m] = "none" /\ m \notin Range(ran[k]) /\ m # cur[k] /\ m \notin Range(pending[k])
      BY <1>3, <2>1, <2>2, <2>3, SubmittedTask DEF BacklogInv, RanInv, InHandInv
    <3>2. /\ pending[k] \in Seq(Msg) /\ pending'[k] = Append(pending[k], m)
          /\ \A j \in Key \ {k} : pending'[j] = pending[j]
      BY <2>1, <2>6 DEF Types
    <3>3. Range(pending'[k]) = Range(pending[k]) \cup {m} /\ IsInjective(pending'[k])
      <4>1. IsInjective(pending[k])
        BY <2>1 DEF BacklogInv
      <4> QED BY <3>1, <3>2, <4>1, AppendTask
    <3>4. \A n \in Range(pending[k]) : Accepted(n, k)' /\ n \notin Range(ran[k]) /\ n # cur[k]
      BY <2>1, <2>2, <2>3 DEF BacklogInv
    <3>5. Accepted(m, k)' /\ m \notin Range(ran[k]) /\ m # cur[k]
      BY <2>6, <3>1
    <3>6. \A n \in Range(pending'[k]) : Accepted(n, k)' /\ n \notin Range(ran[k]) /\ n # cur[k]
      BY <3>3, <3>4, <3>5
    <3> QED BY <2>2, <2>3, <2>4, <3>2, <3>3, <3>6 DEF BacklogInv
  <2> QED BY <1>3, <2>5, <2>6, SubmittedTask
<1>4. ASSUME NEW k \in Key, Take(k) PROVE TaskInv'
  <2>1. /\ pending[k] # <<>> /\ cur[k] = NoMsg /\ cur' = [cur EXCEPT ![k] = Head(pending[k])]
        /\ pending' = [pending EXCEPT ![k] = Tail(@)] /\ worker' = [worker EXCEPT ![k] = "taken"]
        /\ UNCHANGED <<ran, verdict>>
    BY <1>4 DEF Take, Move, InHandInv
  <2>2. /\ Head(pending[k]) \in Range(pending[k]) /\ Range(Tail(pending[k])) \subseteq Range(pending[k])
        /\ IsInjective(Tail(pending[k])) /\ Head(pending[k]) \notin Range(Tail(pending[k]))
    BY <2>1, TakeTask DEF BacklogInv, Types
  <2>3. /\ cur'[k] = Head(pending[k]) /\ pending'[k] = Tail(pending[k]) /\ worker'[k] = "taken"
        /\ \A j \in Key \ {k} : cur'[j] = cur[j] /\ pending'[j] = pending[j] /\ worker'[j] = worker[j]
    BY <2>1 DEF Types
  <2>4. BacklogInv'
    <3>1. \A m \in Range(pending'[k]) :
             m \in Range(pending[k]) /\ m # cur'[k] /\ ran'[k] = ran[k] /\ verdict' = verdict
      BY <2>1, <2>2, <2>3
    <3>2. \A j \in Key \ {k} : pending'[j] = pending[j] /\ cur'[j] = cur[j] /\ ran'[j] = ran[j]
      BY <2>1, <2>3
    <3>3. IsInjective(pending'[k])
      BY <2>2, <2>3
    <3>4. \A m \in Range(pending'[k]) : Accepted(m, k)' /\ m \notin Range(ran'[k]) /\ m # cur'[k]
      BY <3>1 DEF BacklogInv
    <3>5. ASSUME NEW j \in Key \ {k}
          PROVE  /\ IsInjective(pending'[j])
                 /\ \A m \in Range(pending'[j]) : Accepted(m, j)' /\ m \notin Range(ran'[j]) /\ m # cur'[j]
      BY <2>1, <3>2 DEF BacklogInv
    <3> QED BY <3>3, <3>4, <3>5 DEF BacklogInv
  <2>5. RanInv'
    BY <2>1 DEF RanInv
  <2>6. InHandInv'
    <3>1. cur'[k] \in Range(pending[k]) /\ ran' = ran /\ verdict' = verdict
      BY <2>1, <2>2, <2>3
    <3>2. Accepted(cur[k], k)' /\ cur'[k] \notin Range(ran'[k]) /\ worker'[k] = "taken"
      BY <2>3, <3>1 DEF BacklogInv
    <3>3. \A j \in Key \ {k} : cur'[j] = cur[j] /\ worker'[j] = worker[j]
      BY <2>3
    <3> QED BY <3>1, <3>2, <3>3 DEF InHandInv
  <2> QED BY <2>4, <2>5, <2>6
<1>5. ASSUME NEW k \in Key, Admit(k) \/ Retire(k) PROVE TaskInv'
  BY <1>1, <1>5 DEF Admit, Retire, Move, Types, taskVars
<1>6. ASSUME NEW k \in Key, Start(k) PROVE TaskInv'
  <2>1. /\ worker[k] = "admitted" /\ worker' = [worker EXCEPT ![k] = "running"]
        /\ ran' = [ran EXCEPT ![k] = Append(@, cur[k])] /\ cur[k] \in Msg
        /\ UNCHANGED <<pending, cur, verdict>>
    BY <1>6 DEF Start, Move, Types
  <2>2. /\ Range(ran'[k]) = Range(ran[k]) \cup {cur[k]} /\ worker'[k] = "running"
        /\ \A j \in Key \ {k} : ran'[j] = ran[j] /\ worker'[j] = worker[j]
    BY <2>1, AppendTask DEF Types
  <2>3. cur[k] # NoMsg /\ Accepted(cur[k], k)
    BY <2>1 DEF InHandInv
  <2>4. BacklogInv' /\ RanInv'
    BY <2>1, <2>2, <2>3 DEF BacklogInv, RanInv
  <2>5. InHandInv'
    BY <2>1, <2>2 DEF InHandInv
  <2> QED BY <2>4, <2>5
<1>7. ASSUME NEW k \in Key, TaskEnds(k) PROVE TaskInv'
  <2>1. /\ cur' = [cur EXCEPT ![k] = NoMsg] /\ worker' = [worker EXCEPT ![k] = "idle"]
        /\ UNCHANGED <<pending, ran, verdict>>
    BY <1>7 DEF TaskEnds, Move
  <2>2. \A j \in Key : Range(pending[j]) \subseteq Msg
    BY LenProperties DEF Types, Range
  <2>3. /\ cur'[k] = NoMsg /\ worker'[k] = "idle"
        /\ \A j \in Key \ {k} : cur'[j] = cur[j] /\ worker'[j] = worker[j]
    BY <2>1 DEF Types
  <2>4. BacklogInv' /\ RanInv'
    BY <2>1, <2>2, <2>3 DEF BacklogInv, RanInv
  <2>5. InHandInv'
    BY <2>1, <2>3 DEF InHandInv
  <2> QED BY <2>4, <2>5
<1>8. ASSUME NEW k \in Key, StartVoice(k) PROVE TaskInv'
  BY <1>1, <1>8 DEF StartVoice, workerVars, taskVars
<1>9. CASE UNCHANGED <<taskVars, worker>>
  BY <1>1, <1>9
<1> QED BY <1>2, <1>3, <1>4, <1>5, <1>6, <1>7, <1>8, <1>9, HandlersKeepTasks, MainKeepsTasks
        DEF Next, WorkerLoop, Terminated

-----------------------------------------------------------------------------
(* What deliverwg counts.                                                  *)

LEMMA CountedSetsAreFinite ==
  ASSUME Types
  PROVE  /\ IsFiniteSet(Workers) /\ IsFiniteSet(Counted) /\ IsFiniteSet(Speaking)
         /\ Cardinality(Workers) \in Nat /\ Cardinality(Counted) \in Nat /\ Cardinality(Speaking) \in Nat
BY DeliveryAssumption, FS_Subset, FS_CardinalityType DEF Workers, Counted, Speaking

\* While the tasks stay where they are, only the handler's place matters.
LEMMA SameUnfinished ==
  ASSUME UNCHANGED taskVars, NEW m \in Msg
  PROVE  Unfinished(m)' <=> Unfinished(m)
BY DEF taskVars, Unfinished, Ended

\* A message whose handler has not called RunSerial has no task yet.
LEMMA NoTaskYet ==
  ASSUME VerdictInv, NEW m \in Msg, hpc[m] # "done"
  PROVE  ~Unfinished(m)
BY DEF VerdictInv, Unfinished

LEMMA HandlerCounts ==
  ASSUME Types, DoorInv, VerdictInv, TaskInv, NEW m \in Msg, Arrive(m) \/ Handler(m)
  PROVE  /\ Speaking' = Speaking
         /\ \/ wg' = wg /\ Workers' = Workers /\ Counted' = Counted
            \/ wg' = wg + 1 /\ Grows(Workers, Workers') /\ Counted' = Counted
            \/ wg' = wg + 1 /\ Workers' = Workers /\ Grows(Counted, Counted')
            \/ wg' = wg - 1 /\ Workers' = Workers /\ Shrinks(Counted, Counted')
<1> USE DeliveryAssumption DEF handlerVars
<1>0. ASSUME UNCHANGED worker PROVE Workers' = Workers
  BY <1>0 DEF Workers, Live
<1>1. CASE Arrive(m) \/ Guard(m) \/ Dedup(m) \/ NotForUs(m) \/ RunOnWorker(m) \/ FindWorker(m) \/ NoWorker(m)
  <2>1. UNCHANGED <<taskVars, worker, voice, wg>>
    BY <1>1 DEF Arrive, Guard, Dedup, NotForUs, RunOnWorker, FindWorker, NoWorker, workerVars, taskVars
  <2>2. \A n \in Msg : BeingSubmitted(n)' <=> BeingSubmitted(n)
    BY <1>1, Goes DEF Arrive, Guard, Dedup, NotForUs, RunOnWorker, FindWorker, NoWorker, BeingSubmitted
  <2>3. Counted' = Counted
    BY <2>1, <2>2, SameUnfinished DEF Counted
  <2> QED BY <1>0, <2>1, <2>3 DEF Speaking
<1>2. CASE CountTask(m)
  <2>1. UNCHANGED <<taskVars, worker, voice>> /\ wg' = wg + 1
    BY <1>2 DEF CountTask, workerVars, taskVars
  <2>2. /\ ~BeingSubmitted(m) /\ BeingSubmitted(m)' /\ hpc[m] # "done"
        /\ \A n \in Msg \ {m} : BeingSubmitted(n)' <=> BeingSubmitted(n)
    BY <1>2, Goes DEF CountTask, BeingSubmitted
  <2>3. m \notin Counted /\ Counted' = Counted \cup {m}
    BY <2>1, <2>2, SameUnfinished, NoTaskYet DEF Counted
  <2> QED BY <1>0, <2>1, <2>3 DEF Speaking, Grows
<1>3. CASE StartWorker(m)
  <2>1. UNCHANGED <<taskVars, voice>> /\ wg' = wg + 1
    BY <1>3 DEF StartWorker, StartsWorker, taskVars
  <2>2. \A n \in Msg : BeingSubmitted(n)' <=> BeingSubmitted(n)
    BY <1>3, Goes DEF StartWorker, StartsWorker, BeingSubmitted
  <2>3. Counted' = Counted
    BY <2>1, <2>2, SameUnfinished DEF Counted
  <2>4. /\ KeyOf[m] \in Key /\ worker[KeyOf[m]] = "none" /\ worker'[KeyOf[m]] = "idle"
        /\ \A k \in Key \ {KeyOf[m]} : worker'[k] = worker[k]
    BY <1>3, StartedWorker DEF Types
  <2>5. KeyOf[m] \notin Workers /\ Workers' = Workers \cup {KeyOf[m]}
    BY <2>4 DEF Workers, Live
  <2> QED BY <2>1, <2>3, <2>5 DEF Speaking, Grows
<1>4. CASE Submit(m)
  <2>1. UNCHANGED <<ran, cur, worker, voice, wg>> /\ verdict[m] = "none" /\ hpc[m] = "RunSerial"
    BY <1>4, SubmittedTask
  <2>2. \A n \in Msg \ {m} : n \in Counted' <=> n \in Counted
    BY <1>4, <2>1, SubmittedTask DEF Counted, BeingSubmitted, Unfinished, Ended
  <2>3. m \in Counted
    BY <2>1 DEF Counted, BeingSubmitted
  <2>4. m \notin Range(ran[KeyOf[m]])
    BY <2>1 DEF TaskInv, RanInv, Accepted
  <2>5. m \in Counted'
    <3>1. CASE hpc'[m] = "undo"
      BY <3>1 DEF Counted, BeingSubmitted
    <3>2. CASE verdict'[m] = "accepted"
      BY <2>1, <2>4, <3>2 DEF Counted, Unfinished, Ended
    <3> QED BY <1>4, <3>1, <3>2, SubmittedTask
  <2>6. Counted' = Counted
    BY <2>2, <2>3, <2>5 DEF Counted
  <2> QED BY <1>0, <2>1, <2>6 DEF Speaking
<1>5. CASE Uncount(m)
  <2>1. UNCHANGED <<taskVars, worker, voice>> /\ wg' = wg - 1
    BY <1>5 DEF Uncount, workerVars, taskVars
  <2>2. /\ BeingSubmitted(m) /\ ~BeingSubmitted(m)' /\ hpc[m] # "done"
        /\ \A n \in Msg \ {m} : BeingSubmitted(n)' <=> BeingSubmitted(n)
    BY <1>5, Goes DEF Uncount, BeingSubmitted
  <2>3. m \in Counted /\ Counted' = Counted \ {m}
    BY <2>1, <2>2, SameUnfinished, NoTaskYet DEF Counted
  <2> QED BY <1>0, <2>1, <2>3 DEF Speaking, Shrinks
<1> QED BY <1>1, <1>2, <1>3, <1>4, <1>5 DEF Handler

LEMMA WorkerCounts ==
  ASSUME Types, DoorInv, VerdictInv, TaskInv, NEW k \in Key, WorkerLoop(k) \/ StartVoice(k) \/ TaskEnds(k)
  PROVE  \/ wg' = wg /\ Workers' = Workers /\ Counted' = Counted /\ Speaking' = Speaking
         \/ wg' = wg + 1 /\ Workers' = Workers /\ Counted' = Counted /\ Grows(Speaking, Speaking')
         \/ wg' = wg - 1 /\ Workers' = Workers /\ Shrinks(Counted, Counted') /\ Speaking' = Speaking
         \/ wg' = wg - 1 /\ Shrinks(Workers, Workers') /\ Counted' = Counted /\ Speaking' = Speaking
<1> USE DeliveryAssumption
<1>0. ASSUME \A n \in Msg : Unfinished(n)' <=> Unfinished(n), hpc' = hpc PROVE Counted' = Counted
  BY <1>0 DEF Counted, BeingSubmitted
<1>1. ASSUME NEW from, NEW to, Move(k, from, to), from \notin {"none", "retired"}, to \notin {"none", "retired"}
      PROVE  Workers' = Workers
  BY <1>1 DEF Types, Move, Workers, Live
<1>2. CASE Take(k)
  <2>1. /\ worker[k] = "idle" /\ cur[k] = NoMsg /\ cur' = [cur EXCEPT ![k] = Head(pending[k])]
        /\ pending[k] # <<>> /\ UNCHANGED <<hpc, ran, verdict, voice, wg>>
    BY <1>2 DEF Take, Move, TaskInv, InHandInv, handlerVars
  <2>2. cur'[k] \in Range(pending[k])
    BY <2>1, TakeTask DEF Types
  <2>3. cur'[k] \notin Range(ran[k])
    BY <2>2 DEF TaskInv, BacklogInv
  <2>4. \A j \in Key \ {k} : cur'[j] = cur[j]
    BY <2>1 DEF Types
  <2>5. \A n \in Msg : n \in Range(ran[KeyOf[n]]) => (cur'[KeyOf[n]] = n <=> cur[KeyOf[n]] = n)
    BY <2>1, <2>3, <2>4
  <2>6. \A n \in Msg : Unfinished(n)' <=> Unfinished(n)
    BY <2>1, <2>5 DEF Unfinished, Ended
  <2> QED BY <1>0, <1>1, <1>2, <2>1, <2>6 DEF Take, Speaking
<1>3. CASE Admit(k)
  <2>1. UNCHANGED <<taskVars, hpc, voice, wg>>
    BY <1>3 DEF Admit, handlerVars, taskVars
  <2> QED BY <1>0, <1>1, <1>3, <2>1, SameUnfinished DEF Admit, Speaking
<1>4. CASE Start(k)
  <2>1. /\ cur[k] \in Msg /\ ran' = [ran EXCEPT ![k] = Append(@, cur[k])]
        /\ UNCHANGED <<hpc, cur, verdict, voice, wg>>
    BY <1>4 DEF Start, Move, Types, handlerVars
  <2>2. Range(ran'[k]) = Range(ran[k]) \cup {cur[k]} /\ \A j \in Key \ {k} : ran'[j] = ran[j]
    BY <2>1, AppendTask DEF Types
  <2>3. \A n \in Msg : Ended(n)' <=> Ended(n)
    BY <2>1, <2>2 DEF Ended
  <2>4. \A n \in Msg : Unfinished(n)' <=> Unfinished(n)
    BY <2>1, <2>3 DEF Unfinished
  <2> QED BY <1>0, <1>1, <1>4, <2>1, <2>4 DEF Start, Speaking
<1>5. CASE Retire(k)
  <2>1. UNCHANGED <<taskVars, hpc, voice>> /\ wg' = wg - 1 /\ worker' = [worker EXCEPT ![k] = "retired"]
    BY <1>5 DEF Retire, handlerVars, taskVars
  <2>2. k \in Workers /\ Workers' = Workers \ {k}
    BY <1>5, <2>1 DEF Retire, Types, Workers, Live
  <2> QED BY <1>0, <2>1, <2>2, SameUnfinished DEF Speaking, Shrinks
<1>6. CASE StartVoice(k)
  <2>1. /\ worker[k] = "running" /\ voice[cur[k]] = "none" /\ voice' = [voice EXCEPT ![cur[k]] = "running"]
        /\ UNCHANGED <<taskVars, hpc, worker>> /\ wg' = wg + 1
    BY <1>6 DEF StartVoice, handlerVars, workerVars, taskVars
  <2>2. cur[k] \in Msg
    BY <2>1 DEF Types
  <2>3. cur[k] \notin Speaking /\ Speaking' = Speaking \cup {cur[k]}
    BY <2>1, <2>2 DEF Types, Speaking
  <2>4. Workers' = Workers
    BY <2>1 DEF Workers, Live
  <2> QED BY <1>0, <2>1, <2>3, <2>4, SameUnfinished DEF Grows
<1>7. CASE TaskEnds(k)
  <2>1. /\ worker[k] = "running" /\ cur' = [cur EXCEPT ![k] = NoMsg]
        /\ UNCHANGED <<hpc, ran, verdict, voice>> /\ wg' = wg - 1
    BY <1>7 DEF TaskEnds, Move, handlerVars
  <2>2. PICK m \in Msg : m = cur[k]
    BY <2>1 DEF Types
  <2>3. m \in Range(ran[k]) /\ Accepted(m, k) /\ m # NoMsg
    BY <2>1, <2>2 DEF TaskInv, InHandInv
  <2>4. m \in Counted /\ hpc[m] = "done"
    BY <2>2, <2>3 DEF Counted, Unfinished, Ended, Accepted, VerdictInv
  <2>5. cur'[k] = NoMsg /\ \A j \in Key \ {k} : cur'[j] = cur[j]
    BY <2>1 DEF Types
  <2>6. ~Unfinished(m)' /\ \A n \in Msg \ {m} : Unfinished(n)' <=> Unfinished(n)
    BY <2>1, <2>2, <2>3, <2>5 DEF Unfinished, Ended, Accepted
  <2>7. Counted' = Counted \ {m}
    BY <2>1, <2>4, <2>6 DEF Counted, BeingSubmitted
  <2> QED BY <1>1, <1>7, <2>1, <2>4, <2>7 DEF TaskEnds, Speaking, Shrinks
<1> QED BY <1>2, <1>3, <1>4, <1>5, <1>6, <1>7 DEF WorkerLoop

(* The count as a sum, and nothing under way once main has seen it at zero.*)
CountInv == WgExact /\ DrainedIsQuiet

LEMMA GrownCardinality ==
  ASSUME NEW old, NEW new, IsFiniteSet(old), Cardinality(old) \in Nat
  PROVE  /\ Grows(old, new) => Cardinality(new) = Cardinality(old) + 1
         /\ Shrinks(old, new) => Cardinality(new) = Cardinality(old) - 1
BY FS_AddElement, FS_RemoveElement DEF Grows, Shrinks

LEMMA CountMoves ==
  ASSUME Types, DoorInv, VerdictInv, TaskInv, [Next]_vars
  PROVE  \/ wg' = wg /\ Workers' = Workers /\ Counted' = Counted /\ Speaking' = Speaking
         \/ /\ wg' = wg + 1
            /\ \/ Grows(Workers, Workers') /\ Counted' = Counted /\ Speaking' = Speaking
               \/ Workers' = Workers /\ Grows(Counted, Counted') /\ Speaking' = Speaking
               \/ Workers' = Workers /\ Counted' = Counted /\ Grows(Speaking, Speaking')
         \/ /\ wg' = wg - 1
            /\ \/ Shrinks(Workers, Workers') /\ Counted' = Counted /\ Speaking' = Speaking
               \/ Workers' = Workers /\ Shrinks(Counted, Counted') /\ Speaking' = Speaking
               \/ Workers' = Workers /\ Counted' = Counted /\ Shrinks(Speaking, Speaking')
<1>1. ASSUME NEW m \in Msg, VoiceEnds(m)
      PROVE  wg' = wg - 1 /\ Workers' = Workers /\ Counted' = Counted /\ Shrinks(Speaking, Speaking')
  <2>1. /\ UNCHANGED <<taskVars, hpc, worker>> /\ wg' = wg - 1
        /\ voice[m] = "running" /\ voice' = [voice EXCEPT ![m] = "done"]
    BY <1>1 DEF VoiceEnds, workerVars, handlerVars, taskVars
  <2>2. m \in Speaking /\ Speaking' = Speaking \ {m}
    BY <2>1 DEF Types, Speaking
  <2>3. Workers' = Workers /\ Counted' = Counted
    BY <2>1, SameUnfinished DEF Workers, Live, Counted, BeingSubmitted
  <2> QED BY <2>1, <2>2, <2>3 DEF Shrinks
<1>2. ASSUME Shutdown \/ Main \/ (\E i \in Id : CleanReplied(i)) \/ UNCHANGED vars
      PROVE  wg' = wg /\ Workers' = Workers /\ Counted' = Counted /\ Speaking' = Speaking
  <2>1. UNCHANGED <<taskVars, worker, hpc, voice, wg>>
    BY <1>2, MainKeepsTasks
  <2> QED BY <2>1, SameUnfinished DEF Workers, Live, Counted, BeingSubmitted, Speaking
<1>3. CASE \E m \in Msg : Arrive(m) \/ Handler(m)
  BY <1>3, HandlerCounts
<1>4. CASE \E k \in Key : WorkerLoop(k) \/ StartVoice(k) \/ TaskEnds(k)
  BY <1>4, WorkerCounts
<1> QED BY <1>1, <1>2, <1>3, <1>4 DEF Next, Terminated

LEMMA WgPreserved ==
  ASSUME Types, DoorInv, VerdictInv, TaskInv, WgExact, [Next]_vars
  PROVE  WgExact'
<1>1. /\ wg = Cardinality(Workers) + Cardinality(Counted) + Cardinality(Speaking)
      /\ WgExact' <=> wg' = Cardinality(Workers') + Cardinality(Counted') + Cardinality(Speaking')
  BY DEF WgExact, Workers, Counted, Speaking
<1>2. /\ Cardinality(Workers) \in Nat /\ Cardinality(Counted) \in Nat /\ Cardinality(Speaking) \in Nat
      /\ Grows(Workers, Workers') => Cardinality(Workers') = Cardinality(Workers) + 1
      /\ Grows(Counted, Counted') => Cardinality(Counted') = Cardinality(Counted) + 1
      /\ Grows(Speaking, Speaking') => Cardinality(Speaking') = Cardinality(Speaking) + 1
      /\ Shrinks(Workers, Workers') => Cardinality(Workers') = Cardinality(Workers) - 1
      /\ Shrinks(Counted, Counted') => Cardinality(Counted') = Cardinality(Counted) - 1
      /\ Shrinks(Speaking, Speaking') => Cardinality(Speaking') = Cardinality(Speaking) - 1
  BY CountedSetsAreFinite, GrownCardinality
<1> QED BY <1>1, <1>2, CountMoves

\* What drained means, as sets.
LEMMA QuietSets ==
  ASSUME Types
  PROVE  /\ WgExact /\ wg = 0 => Workers = {} /\ Counted = {} /\ Speaking = {}
         /\ Workers = {} /\ Counted = {} /\ Speaking = {} =>
              /\ \A k \in Key : ~Live(k)
              /\ \A m \in Msg : voice[m] # "running" /\ ~Unfinished(m)
<1>1. ASSUME WgExact, wg = 0 PROVE Workers = {} /\ Counted = {} /\ Speaking = {}
  <2>1. Cardinality(Workers) = 0 /\ Cardinality(Counted) = 0 /\ Cardinality(Speaking) = 0
    BY <1>1, CountedSetsAreFinite DEF WgExact, Workers, Counted, Speaking
  <2> QED BY <2>1, CountedSetsAreFinite, FS_EmptySet
<1>2. ASSUME Workers = {}, Counted = {}, Speaking = {}
      PROVE  /\ \A k \in Key : ~Live(k)
             /\ \A m \in Msg : voice[m] # "running" /\ ~Unfinished(m)
  BY <1>2 DEF Workers, Counted, Speaking
<1> QED BY <1>1, <1>2

LEMMA QuietPreserved ==
  ASSUME Types, DoorInv, VerdictInv, WgExact, DrainedIsQuiet, [Next]_vars
  PROVE  DrainedIsQuiet'
<1> DEFINE Quiet == /\ \A k \in Key : ~Live(k)
                    /\ \A m \in Msg : voice[m] # "running" /\ ~Unfinished(m)
<1>0. ASSUME Quiet, UNCHANGED <<taskVars, worker, voice>> PROVE Quiet'
  BY <1>0, SameUnfinished DEF Live
<1>1. ASSUME mpc = "drained" PROVE Quiet /\ ~accepting /\ \A k \in Key : phase[k] # "open"
  BY <1>1 DEF DrainedIsQuiet, DoorInv, Early
<1>2. ASSUME NEW m \in Msg, Arrive(m) \/ Handler(m) \/ VoiceEnds(m), mpc' = "drained" PROVE Quiet'
  <2>1. mpc = "drained"
    BY <1>2, StartedWorker, HandlersKeepDoor DEF doorVars
  <2>2. ~StartWorker(m) /\ ~VoiceEnds(m)
    BY <1>1, <2>1 DEF StartWorker, VoiceEnds
  <2>3. CASE Submit(m)
    <3>1. /\ verdict'[m] = "rejected" /\ UNCHANGED <<ran, cur, worker, voice>>
          /\ \A n \in Msg \ {m} : verdict'[n] = verdict[n]
      BY <1>1, <2>1, <2>3, SubmittedTask, DeliveryAssumption
    <3>2. \A n \in Msg : ~Unfinished(n)'
      BY <1>1, <2>1, <3>1 DEF Unfinished, Ended
    <3> QED BY <1>1, <2>1, <3>1, <3>2 DEF Live
  <2>4. CASE ~Submit(m)
    <3>1. UNCHANGED <<taskVars, worker>>
      BY <1>2, <2>2, <2>4, HandlersKeepTasks
    <3>2. voice' = voice
      BY <1>2, <2>2 DEF Handler, Arrive, Guard, Dedup, NotForUs, CountTask, RunOnWorker, FindWorker,
                        NoWorker, StartWorker, StartsWorker, Submit, Uncount
    <3> QED BY <1>0, <1>1, <2>1, <3>1, <3>2
  <2> QED BY <2>3, <2>4
<1>3. ASSUME NEW k \in Key, WorkerLoop(k) \/ StartVoice(k) \/ TaskEnds(k) PROVE mpc' # "drained"
  <2>1. Live(k) /\ mpc' = mpc
    BY <1>3 DEF WorkerLoop, Take, Admit, Start, Retire, StartVoice, TaskEnds, Move, Live, mainVars
  <2> QED BY <1>1, <2>1
<1>4. ASSUME Shutdown \/ Main \/ (\E i \in Id : CleanReplied(i)) \/ UNCHANGED vars, mpc' = "drained"
      PROVE  Quiet'
  <2>1. UNCHANGED <<taskVars, worker, voice>>
    BY <1>4, MainKeepsTasks
  <2>2. CASE mpc = "drained"
    BY <1>0, <1>1, <2>1, <2>2
  <2>3. CASE mpc # "drained"
    <3>1. wg = 0
      BY <1>4, <2>3 DEF Shutdown, Main, CloseDoor, CollectWorkers, StopNext, StopReturns, WaitInflight,
                        WaitReturns, CleanReplied, mainVars, vars
    <3>2. Quiet
      BY <3>1, QuietSets
    <3> QED BY <1>0, <2>1, <3>2
  <2> QED BY <2>2, <2>3
<1>5. mpc' = "drained" => Quiet'
  BY <1>2, <1>3, <1>4 DEF Next, Terminated
<1> QED BY <1>5 DEF DrainedIsQuiet

(* deliverwg is exact at every step, and once WaitInflight has seen it     *)
(* drained nothing runs and nothing ever will (adapter.go).                *)
THEOREM CountIsExact == Spec => []CountIsTrue
<1>1. Init => TaskInv
  <2> SUFFICES ASSUME Init PROVE TaskInv
    OBVIOUS
  <2>1. /\ \A k \in Key : pending[k] = <<>> /\ ran[k] = <<>> /\ cur[k] = NoMsg
        /\ \A k \in Key : worker[k] \in {"none", "idle"}
    BY DEF Init
  <2>2. Range(<<>>) = {} /\ IsInjective(<<>>)
    BY DEF Range, IsInjective
  <2> QED BY <2>1, <2>2 DEF TaskInv, BacklogInv, RanInv, InHandInv
<1>2. Init /\ Types => CountInv
  <2> SUFFICES ASSUME Init, Types PROVE CountInv
    OBVIOUS
  <2>1. Counted = {} /\ Speaking = {} /\ Workers = workers
    BY DEF Init, Types, Counted, Speaking, Workers, Live, BeingSubmitted, Unfinished
  <2>2. Cardinality(workers) \in Nat /\ wg = Cardinality(workers) /\ Cardinality({}) = 0
    BY <2>1, CountedSetsAreFinite, FS_EmptySet DEF Init
  <2>3. wg = Cardinality(Workers) + Cardinality(Counted) + Cardinality(Speaking)
    BY <2>1, <2>2
  <2> QED BY <2>3 DEF CountInv, WgExact, Workers, Counted, Speaking, Init, DrainedIsQuiet
<1>3. Types /\ DoorInv /\ VerdictInv /\ TaskInv /\ CountInv /\ [Next]_vars => TaskInv' /\ CountInv'
  BY TasksPreserved, WgPreserved, QuietPreserved DEF CountInv
<1>4. Types /\ CountInv => CountIsTrue
  <2> SUFFICES ASSUME Types, CountInv PROVE CountIsTrue
    OBVIOUS
  <2>1. wg = Cardinality(Workers) + Cardinality(Counted) + Cardinality(Speaking)
    BY DEF CountInv, WgExact, Workers, Counted, Speaking
  <2>2. wg \in Nat
    BY <2>1, CountedSetsAreFinite
  <2>3. TypeOK
    BY <2>2 DEF Types, TypeOK, Places
  <2> QED BY <2>3 DEF CountInv, CountIsTrue
<1> QED BY <1>1, <1>2, <1>3, <1>4, SessionsInvariant, DedupInvariant, PTL DEF Spec

-----------------------------------------------------------------------------
(* The refinement: every step maps, for every conversation, to a step of   *)
(* its executor or a stutter.                                              *)

Fits == \A k \in Key : Len(pending[k]) \in Nat /\ Len(pending[k]) <= Cap

LEMMA FitsPreserved ==
  ASSUME Types, VerdictInv, Fits, [Next]_vars
  PROVE  Fits'
<1> USE DeliveryAssumption DEF Fits
<1>1. ASSUME NEW m \in Msg, Submit(m) PROVE Fits'
  <2> DEFINE k == KeyOf[m]
  <2>1. CASE pending' = pending
    BY <2>1
  <2>2. CASE pending' = [pending EXCEPT ![k] = Append(@, m)] /\ Len(pending[k]) < Cap
    <3>1. Len(pending'[k]) = Len(pending[k]) + 1 /\ \A j \in Key \ {k} : pending'[j] = pending[j]
      BY <2>2, AppendTask DEF Types
    <3> QED BY <2>2, <3>1
  <2> QED BY <1>1, <2>1, <2>2 DEF Submit
<1>2. ASSUME NEW k \in Key, Take(k) PROVE Fits'
  <2>1. pending[k] # <<>> /\ pending' = [pending EXCEPT ![k] = Tail(@)]
    BY <1>2 DEF Take
  <2>2. Len(pending'[k]) = Len(pending[k]) - 1 /\ \A j \in Key \ {k} : pending'[j] = pending[j]
    BY <2>1, TakeTask DEF Types
  <2>3. Len(pending'[k]) \in Nat
    BY <2>1, <2>2, LenProperties, TakeTask DEF Types
  <2> QED BY <2>2, <2>3
<1>3. CASE pending' = pending
  BY <1>3
<1>4. ASSUME NEW m \in Msg, StartWorker(m) PROVE pending' = pending
  BY <1>4 DEF StartWorker, StartsWorker
<1>5. ASSUME NEW k \in Key, WorkerLoop(k) \/ StartVoice(k) \/ TaskEnds(k), ~Take(k) PROVE pending' = pending
  BY <1>5 DEF WorkerLoop, Admit, Start, Retire, StartVoice, TaskEnds, workerVars
<1> QED BY <1>1, <1>2, <1>3, <1>4, <1>5, HandlersKeepTasks, MainKeepsTasks DEF Next, Terminated, taskVars

-----------------------------------------------------------------------------
(* What one conversation's executor sees of a step.                        *)
Seen(k) == <<phase[k], pending[k], worker[k], cur[k], ran[k], cancelled>>
ExecStep(k) == Executor(k)!ExecNext \/ UNCHANGED Executor(k)!execVars

LEMMA UnseenStep ==
  ASSUME Types, NEW k \in Key, UNCHANGED Seen(k), \A m \in TasksOf(k) : verdict'[m] = verdict[m]
  PROVE  ExecStep(k)
<1>1. [m \in TasksOf(k) |-> verdict'[m]] = [m \in TasksOf(k) |-> verdict[m]]
  OBVIOUS
<1> QED BY <1>1 DEF Seen, ExecStep, Executor!execVars

LEMMA WorkerRefines ==
  ASSUME Types, NEW j \in Key, WorkerLoop(j) \/ StartVoice(j) \/ TaskEnds(j), NEW k \in Key
  PROVE  ExecStep(k)
<1> USE DEF workerVars, mainVars, Move
<1>1. verdict' = verdict /\ cancelled' = cancelled
  BY DEF WorkerLoop, Take, Admit, Start, Retire, StartVoice, TaskEnds
<1>2. CASE j # k
  <2>1. UNCHANGED Seen(k)
    BY <1>1, <1>2 DEF WorkerLoop, Take, Admit, Start, Retire, StartVoice, TaskEnds, Types, Seen
  <2> QED BY <1>1, <2>1, UnseenStep
<1>3. CASE Take(k)
  <2>1. Executor(k)!Take
    BY <1>3 DEF Take, Types, Executor!Take
  <2> QED BY <2>1 DEF ExecStep, Executor!ExecNext
<1>4. CASE Admit(k)
  <2>1. Executor(k)!Admit
    BY <1>4 DEF Admit, Types, Executor!Admit
  <2> QED BY <2>1 DEF ExecStep, Executor!ExecNext
<1>5. CASE Start(k)
  <2>1. Executor(k)!Start
    BY <1>5 DEF Start, Types, Executor!Start
  <2> QED BY <2>1 DEF ExecStep, Executor!ExecNext
<1>6. CASE Retire(k)
  <2>1. Executor(k)!Retire
    BY <1>6 DEF Retire, Types, Executor!Retire
  <2> QED BY <2>1 DEF ExecStep, Executor!ExecNext
<1>7. CASE TaskEnds(k)
  <2>1. Executor(k)!Finish
    BY <1>7 DEF TaskEnds, Types, Executor!Finish
  <2> QED BY <2>1 DEF ExecStep, Executor!ExecNext
<1>8. CASE StartVoice(k)
  BY <1>1, <1>8, UnseenStep DEF StartVoice, Seen
<1> QED BY <1>2, <1>3, <1>4, <1>5, <1>6, <1>7, <1>8 DEF WorkerLoop

LEMMA HandlerRefines ==
  ASSUME Types, DoorInv, VerdictInv, Fits, NEW m \in Msg, Arrive(m) \/ Handler(m) \/ VoiceEnds(m), NEW k \in Key
  PROVE  ExecStep(k)
<1> USE DeliveryAssumption
<1>1. CASE StartWorker(m)
  <2>1. UNCHANGED <<taskVars, cancelled>>
    <3>1. UNCHANGED taskVars
      BY <1>1 DEF StartWorker, StartsWorker, taskVars
    <3> QED BY <1>1, <3>1, StartedWorker
  <2>2. CASE k = KeyOf[m]
    <3>1. phase[k] = "new" /\ phase'[k] = "open" /\ worker'[k] = "idle"
      BY <1>1, <2>2, StartedWorker DEF Types
    <3>2. Executor(k)!Open
      BY <2>1, <3>1 DEF Executor!Open, taskVars
    <3> QED BY <3>2 DEF ExecStep, Executor!ExecNext
  <2>3. CASE k # KeyOf[m]
    <3>1. UNCHANGED <<phase[k], worker[k]>>
      BY <1>1, <2>3, StartedWorker DEF Types
    <3> QED BY <2>1, <3>1, UnseenStep DEF Seen, taskVars
  <2> QED BY <2>2, <2>3
<1>2. CASE Submit(m)
  <2>1. /\ verdict[m] = "none" /\ \A n \in Msg \ {m} : verdict'[n] = verdict[n]
        /\ UNCHANGED <<phase, ran, cur, worker>> /\ cancelled' = cancelled
    <3>1. cancelled' = cancelled
      BY <1>2 DEF Submit, mainVars
    <3> QED BY <1>2, <3>1, SubmittedTask
  <2>2. CASE k # KeyOf[m]
    <3>1. \A n \in TasksOf(k) : verdict'[n] = verdict[n]
      BY <2>1, <2>2 DEF TasksOf
    <3>2. pending'[k] = pending[k]
      BY <1>2, <2>2 DEF Submit, Types
    <3> QED BY <2>1, <3>1, <3>2, UnseenStep DEF Seen
  <2>3. CASE k = KeyOf[m]
    <3> DEFINE v == [n \in TasksOf(k) |-> verdict[n]]
    <3>1. m \in TasksOf(k) /\ v[m] = "none"
      BY <2>1, <2>3 DEF TasksOf
    <3>2. ASSUME NEW to, verdict'[m] = to
          PROVE  [n \in TasksOf(k) |-> verdict'[n]] = [v EXCEPT ![m] = to]
      BY <2>1, <3>1, <3>2 DEF TasksOf
    <3>3. CASE phase[k] = "open" /\ Len(pending[k]) < Cap
      <4>1. verdict'[m] = "accepted" /\ pending'[k] = Append(pending[k], m)
        BY <1>2, <2>3, <3>3 DEF Submit, Types
      <4>2. Executor(k)!Accept(m)
        BY <2>1, <3>1, <3>2, <3>3, <4>1 DEF Executor!Accept
      <4> QED BY <3>1, <4>2 DEF ExecStep, Executor!ExecNext
    <3>4. CASE ~(phase[k] = "open" /\ Len(pending[k]) < Cap)
      <4>1. verdict'[m] = "rejected" /\ pending'[k] = pending[k]
        BY <1>2, <2>3, <3>4 DEF Submit, Types
      <4>2. phase[k] # "open" \/ Len(pending[k]) = Cap
        BY <3>4 DEF Fits
      <4>3. Executor(k)!Reject(m)
        BY <2>1, <3>1, <3>2, <4>1, <4>2 DEF Executor!Reject
      <4> QED BY <3>1, <4>3 DEF ExecStep, Executor!ExecNext
    <3> QED BY <3>3, <3>4
  <2> QED BY <2>2, <2>3
<1>3. CASE ~StartWorker(m) /\ ~Submit(m)
  <2>1. UNCHANGED <<taskVars, worker>>
    BY <1>3, HandlersKeepTasks
  <2>2. UNCHANGED <<phase, cancelled>>
    BY <1>3, HandlersKeepDoor DEF doorVars
  <2> QED BY <2>1, <2>2, UnseenStep DEF Seen, taskVars
<1> QED BY <1>1, <1>2, <1>3

LEMMA MainRefines ==
  ASSUME Types, DoorInv, Shutdown \/ Main \/ (\E i \in Id : CleanReplied(i)) \/ UNCHANGED vars, NEW k \in Key
  PROVE  ExecStep(k)
<1>1. UNCHANGED <<taskVars, worker>>
  BY MainKeepsTasks
<1>2. CASE Shutdown
  <2>1. Executor(k)!CancelExecutor
    BY <1>1, <1>2 DEF Shutdown, DoorInv, Executor!CancelExecutor, taskVars, workerVars
  <2> QED BY <2>1 DEF ExecStep, Executor!ExecNext
<1>3. CASE StopNext(k)
  <2>1. phase[k] = "open" /\ phase'[k] = "closed" /\ cancelled' = cancelled
    <3>1. stopping # k /\ k \in toStop /\ phase' = [phase EXCEPT ![k] = "closed"] /\ cancelled' = cancelled
      BY <1>3, DeliveryAssumption DEF StopNext
    <3> QED BY <3>1 DEF DoorInv, Types
  <2>2. Executor(k)!CloseExecutor
    BY <1>1, <2>1 DEF Executor!CloseExecutor, taskVars
  <2> QED BY <2>2 DEF ExecStep, Executor!ExecNext
<1>4. CASE phase'[k] = phase[k] /\ cancelled' = cancelled
  BY <1>1, <1>4, UnseenStep DEF Seen, taskVars
<1>5. ASSUME NEW j \in Key, StopNext(j), j # k PROVE phase'[k] = phase[k] /\ cancelled' = cancelled
  BY <1>5 DEF StopNext, Types
<1>6. ASSUME CloseDoor \/ CollectWorkers \/ StopReturns \/ WaitInflight \/ WaitReturns
      PROVE  phase'[k] = phase[k] /\ cancelled' = cancelled
  BY <1>6 DEF CloseDoor, CollectWorkers, StopReturns, WaitInflight, WaitReturns, workerVars
<1>7. ASSUME (\E i \in Id : CleanReplied(i)) \/ UNCHANGED vars PROVE phase'[k] = phase[k] /\ cancelled' = cancelled
  BY <1>7 DEF CleanReplied, vars, workerVars, mainVars
<1> QED BY <1>2, <1>3, <1>4, <1>5, <1>6, <1>7 DEF Main

(* However messages, workers and the shutdown interleave, every            *)
(* conversation's worker is used as SerialExecutor allows: one verdict per *)
(* task, one task at a time, in the order accepted (runOnWorker and        *)
(* workerFor of adapter.go, package core/session).                         *)
THEOREM WorkersRefineExecutors == Spec => WorkersAreExecutors
<1>1. Init => Fits /\ \A k \in Range(KeyOf) : Executor(k)!ExecInit
  <2> SUFFICES ASSUME Init PROVE Fits /\ \A k \in Range(KeyOf) : Executor(k)!ExecInit
    OBVIOUS
  <2>1. Fits
    BY DeliveryAssumption DEF Init, Fits
  <2>2. ASSUME NEW k \in Range(KeyOf) PROVE Executor(k)!ExecInit
    <3>1. k \in Key \ workers
      BY DeliveryAssumption DEF Init, Others, Range
    <3>2. [m \in TasksOf(k) |-> verdict[m]] = [m \in TasksOf(k) |-> "none"]
      BY DEF Init, TasksOf
    <3> QED BY <3>1, <3>2 DEF Init, Executor!ExecInit
  <2> QED BY <2>1, <2>2
<1>2. Types /\ VerdictInv /\ Fits /\ [Next]_vars => Fits'
  BY FitsPreserved
<1>3. Types /\ DoorInv /\ VerdictInv /\ Fits /\ [Next]_vars
        => [\A k \in Key : Executor(k)!ExecNext \/ UNCHANGED Executor(k)!execVars]_vars
  <2> SUFFICES ASSUME Types, DoorInv, VerdictInv, Fits, [Next]_vars, NEW k \in Key PROVE ExecStep(k)
    BY DEF ExecStep
  <2> QED BY WorkerRefines, HandlerRefines, MainRefines DEF Next, Terminated
<1> QED BY <1>1, <1>2, <1>3, SessionsInvariant, DedupInvariant, PTL DEF Spec, WorkersAreExecutors
=============================================================================
