------------------------- MODULE DesktopShellProofs -------------------------
(***************************************************************************)
(* Proofs about DesktopShell, for any number of shells, ports and programs *)
(* that come and go: a shell that ends takes its backend along, and its    *)
(* window shows its own backend unless somebody took the port.             *)
(***************************************************************************)
EXTENDS DesktopShell, TLAPS

\* What keeps a backend on its leash: while its process lives the handle is not
\* null, and the shell is in a state that still has its end before it.
Leash == \A s \in Shells : backend[s] \in Alive => goProcess[s] /\ pc[s] \in {"wait", "up", "crashed"}

\* What keeps a port for its shell: a probe holds a free one, and a shell that
\* waits finds nobody but its own backend there, or knows better (taken).
Kept == \A s \in Shells :
    /\ pc[s] = "probing" => holder[port[s]] = "free"
    /\ pc[s] = "wait" /\ ~taken[s] => holder[port[s]] \in {"free", s}

-----------------------------------------------------------------------------
(* What the two ways of ending a process do.                               *)

LEMMA EndsTypes ==
    ASSUME TypeOK, NEW s \in Shells, Ends(s) \/ StopGoBackend(s)
    PROVE  /\ holder' \in [Ports -> {"free"} \cup Strangers \cup Shells]
           /\ backend' \in [Shells -> {"none", "dead"} \cup Alive]
           /\ goProcess' \in [Shells -> BOOLEAN]
<1>1. CASE Ends(s)
  <2>1. holder' \in [Ports -> {"free"} \cup Strangers \cup Shells]
    BY <1>1 DEF TypeOK, Ends
  <2>2. backend' \in [Shells -> {"none", "dead"} \cup Alive]
    BY <1>1 DEF TypeOK, Ends
  <2>3. goProcess' \in [Shells -> BOOLEAN]
    BY <1>1 DEF TypeOK, Ends
  <2> QED BY <2>1, <2>2, <2>3
<1>2. CASE UNCHANGED <<backend, goProcess, holder>>
  BY <1>2 DEF TypeOK
<1> QED BY <1>1, <1>2 DEF StopGoBackend

LEMMA EndsFrees ==
    ASSUME TypeOK, NEW s \in Shells, Ends(s) \/ StopGoBackend(s), NEW p \in Ports
    PROVE  holder'[p] \in {holder[p], "free"}
BY DEF TypeOK, Ends, StopGoBackend

LEMMA EndsKills ==
    ASSUME TypeOK, Leash, NEW s \in Shells, Ends(s) \/ StopGoBackend(s)
    PROVE  /\ backend'[s] \notin Alive
           /\ \A t \in Shells \ {s} : backend'[t] = backend[t] /\ goProcess'[t] = goProcess[t]
<1>1. CASE Ends(s)
  BY <1>1 DEF TypeOK, Ends, Alive
<1>2. CASE ~goProcess[s] /\ UNCHANGED <<backend, goProcess>>
  BY <1>2 DEF TypeOK, Leash
<1> QED BY <1>1, <1>2 DEF StopGoBackend

-----------------------------------------------------------------------------
(* TypeOK.                                                                  *)

LEMMA TypesPreserved == TypeOK /\ [Next]_vars => TypeOK'
<1> SUFFICES ASSUME TypeOK, [Next]_vars PROVE TypeOK'
  OBVIOUS
<1> USE PortAssumption DEF TypeOK, Goto, Settled, child, wait
<1>1. ASSUME NEW s \in Shells, Starting(s) PROVE TypeOK'
  <2>1. CASE Launch(s)
    BY <2>1 DEF Launch
  <2>2. CASE ProbeOpens(s)
    BY <2>2 DEF ProbeOpens
  <2>3. CASE ProbeFails(s)
    BY <2>3 DEF ProbeFails
  <2>4. CASE ProbeCloses(s)
    <3>1. CASE Goto(s, "error") /\ UNCHANGED <<backend, goProcess>>
      BY <2>4, <3>1 DEF ProbeCloses
    <3>2. CASE Goto(s, "wait") /\ goProcess' = [goProcess EXCEPT ![s] = TRUE]
      <4>1. backend' \in [Shells -> {"none", "dead"} \cup Alive]
        BY <2>4, <3>2 DEF ProbeCloses, Alive
      <4> QED BY <2>4, <3>2, <4>1 DEF ProbeCloses
    <3> QED BY <2>4, <3>1, <3>2 DEF ProbeCloses
  <2> QED BY <1>1, <2>1, <2>2, <2>3, <2>4 DEF Starting
<1>2. ASSUME NEW s \in Shells, Answered(s) PROVE TypeOK'
  <2>1. CASE holder[port[s]] \in Shells /\ CreateWindow(s, holder[port[s]])
              /\ UNCHANGED <<backend, goProcess, holder, port, listen, taken>>
    BY <2>1 DEF CreateWindow
  <2>2. CASE StopGoBackend(s) /\ Goto(s, "error") /\ Settled(s) /\ UNCHANGED <<port, listen, shows, taken>>
    BY <2>2, EndsTypes
  <2>3. CASE check' = [check EXCEPT ![s] = "asleep"] /\ UNCHANGED <<late, pc, backend, goProcess, holder, port, listen, shows, taken>>
    BY <2>3
  <2>4. UNCHANGED <<port, listen, taken>>
    BY <1>2 DEF Answered
  <2>5. CASE Retry(s) /\ UNCHANGED shows
    BY <2>2, <2>3, <2>4, <2>5 DEF Retry
  <2>6. CASE /\ holder[port[s]] \in Shells /\ CreateWindow(s, holder[port[s]])
             /\ UNCHANGED <<backend, goProcess, holder>>
    BY <2>1, <2>4, <2>6
  <2> QED BY <1>2, <2>5, <2>6 DEF Answered
<1>3. ASSUME NEW s \in Shells, Check(s) \/ Timeout(s) PROVE TypeOK'
  BY <1>3 DEF Check, Timeout
<1>4. ASSUME NEW s \in Shells, FreeListen(s) PROVE TypeOK'
  <2>1. listen' \in [Shells -> Ports]
    <3>1. port[s] \in Ports
      BY DEF Ports
    <3>2. \E p \in Ports : listen' = [listen EXCEPT ![s] = p]
      BY <1>4, <3>1 DEF FreeListen
    <3> QED BY <3>2
  <2>2. backend' \in [Shells -> {"none", "dead"} \cup Alive]
    BY <1>4 DEF FreeListen, Alive
  <2> QED BY <1>4, <2>1, <2>2 DEF FreeListen
<1>5. ASSUME NEW s \in Shells, StartWeb(s) PROVE TypeOK'
  <2>1. CASE Ends(s) /\ UNCHANGED <<taken, listen, pc, port, wait, shows>>
    BY <2>1, EndsTypes
  <2>2. CASE \E p \in Ports : /\ Opens(p, s) /\ backend' = [backend EXCEPT ![s] = "listening"]
                               /\ listen' = [listen EXCEPT ![s] = p] /\ UNCHANGED <<goProcess, pc, port, wait, shows>>
    BY <2>2 DEF Opens, Alive
  <2> QED BY <1>5, <2>1, <2>2 DEF StartWeb
<1>6. ASSUME NEW s \in Shells, BackendCrashes(s) PROVE TypeOK'
  BY <1>6, EndsTypes DEF BackendCrashes
<1>7. ASSUME NEW s \in Shells, Ending(s) PROVE TypeOK'
  <2>1. CASE ShellCrashes(s)
    BY <2>1 DEF ShellCrashes
  <2>2. CASE Gone(s) /\ StopGoBackend(s) /\ UNCHANGED <<port, listen>>
    BY <2>2, EndsTypes DEF Gone
  <2>3. CASE StopGoBackend(s) /\ UNCHANGED <<pc, port, listen, wait, shows, taken>>
    BY <2>3, EndsTypes
  <2> QED BY <1>7, <2>1, <2>2, <2>3 DEF Ending, ErrorRead, CloseWindow, Quit
<1>8. CASE StrangerComes
  BY <1>8 DEF StrangerComes, Opens
<1>9. CASE StrangerGoes
  BY <1>9 DEF StrangerGoes
<1>10. CASE UNCHANGED vars
  BY <1>10 DEF vars
<1> QED BY <1>1, <1>2, <1>3, <1>4, <1>5, <1>6, <1>7, <1>8, <1>9, <1>10
        DEF Next, Shell, Waiting, Child

(* Every variable keeps to its values.                                     *)
THEOREM TypesInvariant == Spec => []TypeOK
<1>1. Init => TypeOK
  BY PortAssumption DEF Init, TypeOK, Ports
<1> QED BY <1>1, TypesPreserved, PTL DEF Spec

-----------------------------------------------------------------------------
(* The leash.                                                              *)

LEMMA LeashPreserved == TypeOK /\ Leash /\ [Next]_vars => Leash'
<1> SUFFICES ASSUME TypeOK, Leash, [Next]_vars, NEW s \in Shells, backend'[s] \in Alive
             PROVE  goProcess'[s] /\ pc'[s] \in {"wait", "up", "crashed"}
  BY DEF Leash
<1> USE DEF Goto, Settled, child, wait
<1>1. ASSUME NEW t \in Shells, Starting(t) PROVE goProcess'[s] /\ pc'[s] \in {"wait", "up", "crashed"}
  BY <1>1 DEF TypeOK, Leash, Alive, Starting, Launch, ProbeOpens, ProbeFails, ProbeCloses
<1>2. ASSUME NEW t \in Shells, Answered(t) PROVE goProcess'[s] /\ pc'[s] \in {"wait", "up", "crashed"}
  <2>1. CASE CreateWindow(t, holder[port[t]]) /\ UNCHANGED <<backend, goProcess, holder>>
    BY <2>1 DEF TypeOK, Leash, CreateWindow
  <2>2. CASE StopGoBackend(t) /\ Goto(t, "error")
    BY <2>2, EndsKills DEF TypeOK, Leash
  <2>3. CASE UNCHANGED <<pc, backend, goProcess, holder>>
    BY <2>3 DEF Leash
  <2> QED BY <1>2, <2>1, <2>2, <2>3 DEF Answered, Retry
<1>3. ASSUME NEW t \in Shells, Check(t) \/ Timeout(t) PROVE goProcess'[s] /\ pc'[s] \in {"wait", "up", "crashed"}
  BY <1>3 DEF Check, Timeout, Leash
<1>4. ASSUME NEW t \in Shells, FreeListen(t) PROVE goProcess'[s] /\ pc'[s] \in {"wait", "up", "crashed"}
  BY <1>4 DEF FreeListen, TypeOK, Leash, Alive
<1>5. ASSUME NEW t \in Shells, StartWeb(t) PROVE goProcess'[s] /\ pc'[s] \in {"wait", "up", "crashed"}
  <2>1. CASE Ends(t) /\ UNCHANGED pc
    BY <2>1, EndsKills DEF Leash
  <2>2. CASE backend' = [backend EXCEPT ![t] = "listening"] /\ UNCHANGED <<goProcess, pc>>
    BY <1>5, <2>2 DEF StartWeb, TypeOK, Leash, Alive
  <2> QED BY <1>5, <2>1, <2>2 DEF StartWeb
<1>6. ASSUME NEW t \in Shells, BackendCrashes(t) PROVE goProcess'[s] /\ pc'[s] \in {"wait", "up", "crashed"}
  BY <1>6, EndsKills DEF BackendCrashes, Leash
<1>7. ASSUME NEW t \in Shells, Ending(t) PROVE goProcess'[s] /\ pc'[s] \in {"wait", "up", "crashed"}
  <2>1. CASE ShellCrashes(t)
    BY <2>1 DEF ShellCrashes, TypeOK, Leash
  <2>2. CASE Gone(t) /\ StopGoBackend(t)
    BY <2>2, EndsKills DEF Gone, TypeOK, Leash
  <2>3. CASE StopGoBackend(t) /\ UNCHANGED pc
    BY <2>3, EndsKills DEF Leash
  <2> QED BY <1>7, <2>1, <2>2, <2>3 DEF Ending, ErrorRead, CloseWindow, Quit
<1>8. CASE StrangerComes \/ StrangerGoes \/ UNCHANGED vars
  BY <1>8 DEF StrangerComes, StrangerGoes, vars, Leash
<1> QED BY <1>1, <1>2, <1>3, <1>4, <1>5, <1>6, <1>7, <1>8 DEF Next, Shell, Waiting, Child

LEMMA LeashInvariant == Spec => []Leash
<1>1. Init => Leash
  BY DEF Init, Leash, Alive
<1> QED BY <1>1, TypesInvariant, LeashPreserved, PTL DEF Spec

(* No backend outlives its shell, however the shell ends, except by a      *)
(* crash: stopGoBackend on every way out, and a handle that is really the  *)
(* backend's (main.js).                                                    *)
THEOREM NoBackendOrphaned == Spec => []NoOrphan
<1>1. Leash => NoOrphan
  BY DEF Leash, NoOrphan
<1> QED BY <1>1, LeashInvariant, PTL

-----------------------------------------------------------------------------
(* The port.                                                               *)

LEMMA KeptPreserved == TypeOK /\ Kept /\ [Next]_vars => Kept'
<1> SUFFICES ASSUME TypeOK, Kept, [Next]_vars, NEW s \in Shells
             PROVE  /\ pc'[s] = "probing" => holder'[port'[s]] = "free"
                    /\ pc'[s] = "wait" /\ ~taken'[s] => holder'[port'[s]] \in {"free", s}
  BY DEF Kept
<1> DEFINE Goal == /\ pc'[s] = "probing" => holder'[port'[s]] = "free"
                   /\ pc'[s] = "wait" /\ ~taken'[s] => holder'[port'[s]] \in {"free", s}
<1> USE DEF Goto, Settled, child, wait
<1>p. port[s] \in Ports
  BY PortAssumption DEF TypeOK, Ports
\* A process that ends, or nothing about ports: no port gets a new holder.
<1>e. ASSUME NEW t \in Shells, Ends(t) \/ StopGoBackend(t) \/ UNCHANGED holder,
             UNCHANGED <<port, taken>>, pc'[s] \in {pc[s], "up", "gone", "error", "crashed"}
      PROVE  Goal
  <2>1. holder'[port[s]] \in {holder[port[s]], "free"}
    BY <1>e, <1>p, EndsFrees
  <2> QED BY <1>e, <2>1 DEF Kept
<1>1. ASSUME NEW t \in Shells, Starting(t) PROVE Goal
  <2>1. CASE Launch(t)
    BY <2>1 DEF Launch, TypeOK, Kept
  <2>2. CASE ProbeOpens(t)
    BY <2>2 DEF ProbeOpens, ProbeSucceeds, Free, TypeOK, Kept
  <2>3. CASE ProbeFails(t)
    BY <2>3 DEF ProbeFails, TypeOK, Kept
  <2>4. CASE ProbeCloses(t)
    BY <2>4 DEF ProbeCloses, TypeOK, Kept
  <2> QED BY <1>1, <2>1, <2>2, <2>3, <2>4 DEF Starting
<1>2. ASSUME NEW t \in Shells, Answered(t) PROVE Goal
  <2>1. CASE CreateWindow(t, holder[port[t]]) /\ UNCHANGED holder
    BY <1>2, <1>e, <2>1 DEF Answered, CreateWindow, TypeOK
  <2>2. CASE StopGoBackend(t) /\ Goto(t, "error")
    BY <1>2, <1>e, <2>2 DEF Answered, TypeOK
  <2>3. CASE UNCHANGED <<pc, holder>>
    BY <1>2, <1>e, <2>3 DEF Answered
  <2> QED BY <1>2, <2>1, <2>2, <2>3 DEF Answered, Retry
<1>3. ASSUME NEW t \in Shells, Check(t) \/ Timeout(t) \/ FreeListen(t) \/ BackendCrashes(t) PROVE Goal
  BY <1>3, <1>e DEF Check, Timeout, FreeListen, BackendCrashes
\* A port that was free gets a holder: whoever had found it knows.
<1>o. ASSUME NEW q \in Ports, NEW w, Free(q), Opens(q, w), UNCHANGED <<pc, port>> PROVE Goal
  <2>1. CASE port[s] # q
    BY <1>o, <1>p, <2>1 DEF Opens, TypeOK, Kept
  <2>2. CASE port[s] = q
    BY <1>o, <1>p, <2>2 DEF Opens, Free, TypeOK, Kept
  <2> QED BY <2>1, <2>2
<1>4. ASSUME NEW t \in Shells, StartWeb(t) PROVE Goal
  <2>1. CASE Ends(t) /\ UNCHANGED taken
    BY <1>4, <1>e, <2>1 DEF StartWeb
  <2>2. CASE \E q \in Ports : Free(q) /\ Opens(q, t)
    BY <1>4, <1>o, <2>2 DEF StartWeb
  <2> QED BY <1>4, <2>1, <2>2 DEF StartWeb
<1>5. ASSUME NEW t \in Shells, Ending(t) PROVE Goal
  <2>1. CASE ShellCrashes(t)
    BY <1>e, <2>1 DEF ShellCrashes, TypeOK
  <2>2. CASE Gone(t) /\ StopGoBackend(t) /\ UNCHANGED port
    <3>1. holder'[port[s]] \in {holder[port[s]], "free"}
      BY <1>p, <2>2, EndsFrees
    <3> QED BY <2>2, <3>1 DEF Gone, TypeOK, Kept
  <2>3. CASE StopGoBackend(t) /\ UNCHANGED <<pc, port, taken>>
    BY <1>e, <2>3
  <2> QED BY <1>5, <2>1, <2>2, <2>3 DEF Ending, ErrorRead, CloseWindow, Quit
<1>6. CASE StrangerComes
  BY <1>6, <1>o DEF StrangerComes
<1>7. CASE StrangerGoes
  BY <1>7, <1>p DEF StrangerGoes, TypeOK, Kept
<1>8. CASE UNCHANGED vars
  BY <1>8 DEF vars, Kept
<1> QED BY <1>1, <1>2, <1>3, <1>4, <1>5, <1>6, <1>7, <1>8 DEF Next, Shell, Waiting, Child

LEMMA WindowPreserved == TypeOK /\ Kept /\ WindowShowsOurs /\ [Next]_vars => WindowShowsOurs'
<1> SUFFICES ASSUME TypeOK, Kept, WindowShowsOurs, [Next]_vars, NEW s \in Shells
             PROVE  shows'[s] \in {"none", s} \/ taken'[s]
  BY DEF WindowShowsOurs
<1>0. shows[s] \in {"none", s} \/ taken[s]
  BY DEF WindowShowsOurs
<1> USE DEF Goto, Settled, child, wait
<1>1. ASSUME NEW t \in Shells, Answered(t) PROVE shows'[s] \in {"none", s} \/ taken'[s]
  <2>1. CASE /\ pc[t] = "wait" /\ holder[port[t]] \in Shells
             /\ CreateWindow(t, holder[port[t]]) /\ UNCHANGED taken
    <3>1. holder[port[t]] = t \/ taken[t]
      BY <2>1, ShellsAssumption DEF Kept
    <3> QED BY <1>0, <2>1, <3>1 DEF CreateWindow, TypeOK
  <2>2. CASE UNCHANGED <<shows, taken>>
    BY <1>0, <2>2
  <2> QED BY <1>1, <2>1, <2>2 DEF Answered
<1>2. ASSUME NEW t \in Shells, Ending(t) PROVE shows'[s] \in {"none", s} \/ taken'[s]
  BY <1>0, <1>2 DEF Ending, ErrorRead, CloseWindow, Quit, ShellCrashes, Gone, TypeOK
\* No other step shows anything, and none makes a shell forget.
<1>3. ASSUME UNCHANGED shows, taken[s] => taken'[s] PROVE shows'[s] \in {"none", s} \/ taken'[s]
  BY <1>0, <1>3
<1>4. ASSUME NEW q, NEW w, Opens(q, w) PROVE taken[s] => taken'[s]
  BY <1>4 DEF Opens
<1>5. ASSUME NEW t \in Shells, Starting(t) PROVE UNCHANGED shows /\ (taken[s] => taken'[s])
  BY <1>5 DEF Starting, Launch, ProbeOpens, ProbeFails, ProbeCloses
<1>6. ASSUME NEW t \in Shells, Check(t) \/ Timeout(t) \/ FreeListen(t) \/ BackendCrashes(t)
      PROVE  UNCHANGED <<shows, taken>>
  BY <1>6 DEF Check, Timeout, FreeListen, BackendCrashes
<1>7. ASSUME NEW t \in Shells, StartWeb(t) PROVE UNCHANGED shows /\ (taken[s] => taken'[s])
  BY <1>4, <1>7 DEF StartWeb
<1>8. CASE StrangerComes \/ StrangerGoes \/ UNCHANGED vars
  BY <1>0, <1>4, <1>8 DEF StrangerComes, StrangerGoes, vars
<1> QED BY <1>1, <1>2, <1>3, <1>5, <1>6, <1>7, <1>8 DEF Next, Shell, Waiting, Child

(* The window shows the backend of its own shell, unless somebody opened   *)
(* the port between the probe and the backend's listen: choosing a free    *)
(* port and passing it on with -listen is enough (main.js).                *)
THEOREM WindowIsOurs == Spec => []WindowShowsOurs
<1>1. Init => Kept /\ WindowShowsOurs
  BY DEF Init, Kept, WindowShowsOurs
<1> QED BY <1>1, TypesInvariant, KeptPreserved, WindowPreserved, PTL DEF Spec
=============================================================================
