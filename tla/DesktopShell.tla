---------------------------- MODULE DesktopShell ----------------------------
(***************************************************************************)
(* The Electron shell (electron/main.js) and the process it starts: it     *)
(* looks for a free port, starts the backend with -listen on it, waits     *)
(* until a SorarinBot answers there, and opens the window.  The program    *)
(* takes no single-instance lock, so several shells may start at once;     *)
(* other programs come and go on the ports.  The backend chooses and opens *)
(* its port by itself (freeListen and startWeb of main.go).                *)
(***************************************************************************)
EXTENDS Naturals

CONSTANTS Shells,    \* instances of the desktop program
          LastPort,  \* PORT_RANGE_END; the range starts at 1
          Strangers  \* "web" answers something else, "mute" accepts and never answers

ASSUME ShellsAssumption == Shells \cap (Strangers \cup {"free", "none"}) = {} /\ "free" \notin Strangers
ASSUME PortAssumption == LastPort \in Nat \ {0}
ASSUME StrangersAssumption == Strangers \subseteq {"web", "mute"}

VARIABLES
    holder,     \* of each port: "free", a stranger, or the shell whose backend listens
    pc,         \* where the shell is
    port,       \* backendPort, while "find": the candidate
    backend,    \* the child process
    listen,     \* webListen of the child
    goProcess,  \* the handle is not null
    check,      \* waitForServer: a request is out, or the next one is due
    late,       \* waitForServer: 30 s have passed
    shows,      \* the shell whose backend answered for the window
    taken       \* history: somebody else opened the port the shell had found

vars == <<holder, pc, port, backend, listen, goProcess, check, late, shows, taken>>
child == <<backend, listen, goProcess>>
wait == <<check, late>>

Ports == 1..(LastPort + 1)  \* the backend may go one further
Alive == {"started", "chosen", "listening"}

Init == /\ holder = [p \in Ports |-> "free"]
        /\ pc = [s \in Shells |-> "off"] /\ port = [s \in Shells |-> 1]
        /\ backend = [s \in Shells |-> "none"] /\ listen = [s \in Shells |-> 1]
        /\ goProcess = [s \in Shells |-> FALSE]
        /\ check = [s \in Shells |-> "none"] /\ late = [s \in Shells |-> FALSE]
        /\ shows = [s \in Shells |-> "none"] /\ taken = [s \in Shells |-> FALSE]

\* A probe holds its port, too.
Free(p) == holder[p] = "free" /\ \A s \in Shells : ~(pc[s] = "probing" /\ port[s] = p)
Goto(s, l) == pc' = [pc EXCEPT ![s] = l]

\* who opens p: a shell that has found p and whose backend is not there yet loses it.
Opens(p, who) ==
    /\ holder' = [holder EXCEPT ![p] = who]
    /\ taken' = [s \in Shells |-> taken[s] \/ (s # who /\ pc[s] \in {"wait", "up"} /\ port[s] = p)]

\* One other program at a time (a bound).
StrangerComes == /\ \E p \in Ports, w \in Strangers :
                       Free(p) /\ (\A q \in Ports : holder[q] \notin Strangers) /\ Opens(p, w)
                 /\ UNCHANGED <<pc, port, child, wait, shows>>
StrangerGoes == /\ \E p \in Ports : holder[p] \in Strangers /\ holder' = [holder EXCEPT ![p] = "free"]
                /\ UNCHANGED <<pc, port, child, wait, shows, taken>>

----------------------------------------------------------------------------
(* The child process.                                                      *)

\* The process ends: its port is free; the exit event drops the handle.
Ends(s) == /\ backend' = [backend EXCEPT ![s] = "dead"]
           /\ goProcess' = [goProcess EXCEPT ![s] = FALSE]
           /\ holder' = [p \in Ports |-> IF holder[p] = s THEN "free" ELSE holder[p]]

\* freeListen: the first free port from the one given, else the given one.
FreeListen(s) ==
    /\ backend[s] = "started" /\ backend' = [backend EXCEPT ![s] = "chosen"]
    /\ LET from == {p \in Ports : port[s] <= p /\ Free(p)} IN
       \/ from = {} /\ listen' = [listen EXCEPT ![s] = port[s]]
       \/ \E p \in from : (\A q \in from : p <= q) /\ listen' = [listen EXCEPT ![s] = p]
    /\ UNCHANGED <<holder, pc, port, goProcess, wait, shows, taken>>

\* startWeb: the port chosen or the next one, else log.Fatal.
StartWeb(s) ==
    /\ backend[s] = "chosen"
    /\ LET open == {p \in {listen[s], listen[s] + 1} \cap Ports : Free(p)} IN
       \/ /\ open = {} /\ Ends(s) /\ UNCHANGED <<listen, taken>>
       \/ \E p \in open : /\ \A q \in open : p <= q
                          /\ Opens(p, s) /\ backend' = [backend EXCEPT ![s] = "listening"]
                          /\ listen' = [listen EXCEPT ![s] = p] /\ UNCHANGED goProcess
    /\ UNCHANGED <<pc, port, wait, shows>>

BackendCrashes(s) == /\ backend[s] \in Alive /\ Ends(s)
                     /\ UNCHANGED <<pc, port, listen, wait, shows, taken>>

\* Variant: the handle is the one of a `cmd /c start`, which has ended.
StopsStarter(s) == UNCHANGED <<backend, holder>> /\ goProcess' = [goProcess EXCEPT ![s] = FALSE]
\* stopGoBackend: nothing without a handle.
StopGoBackend(s) == IF goProcess[s] THEN Ends(s) ELSE UNCHANGED <<backend, goProcess, holder>>

----------------------------------------------------------------------------
(* app.whenReady.                                                          *)

Launch(s) == /\ pc[s] = "off" /\ Goto(s, "find")
             /\ UNCHANGED <<holder, port, child, wait, shows, taken>>

\* Variant: the first port is taken without a probe.
NoProbe(p) == TRUE
ProbeSucceeds(p) == Free(p)

ProbeOpens(s) == /\ pc[s] = "find" /\ ProbeSucceeds(port[s]) /\ Goto(s, "probing")
                 /\ taken' = [t \in Shells |-> taken[t] \/ (t # s /\ pc[t] \in {"wait", "up"} /\ port[t] = port[s])]
                 /\ UNCHANGED <<holder, port, child, wait, shows>>
\* The next port; after the last one the error box and quit.
ProbeFails(s) == /\ pc[s] = "find" /\ ~ProbeSucceeds(port[s])
                 /\ \/ /\ port[s] < LastPort /\ port' = [port EXCEPT ![s] = @ + 1] /\ UNCHANGED pc
                    \/ port[s] = LastPort /\ Goto(s, "error") /\ UNCHANGED port
                 /\ UNCHANGED <<holder, child, wait, shows, taken>>

\* The probe is closed and the backend started on the port; without the
\* executable the error box and quit.  A failing spawn is a child dead at once.
ProbeCloses(s) ==
    /\ pc[s] = "probing"
    /\ \/ Goto(s, "error") /\ UNCHANGED <<backend, goProcess, check>>
       \/ /\ Goto(s, "wait") /\ check' = [check EXCEPT ![s] = "asked"]
          /\ \E b \in {"started", "dead"} : backend' = [backend EXCEPT ![s] = b]
          /\ goProcess' = [goProcess EXCEPT ![s] = TRUE]
    /\ UNCHANGED <<holder, port, listen, late, shows, taken>>

\* The promise of waitForServer is settled, or nobody waits for it any more.
Settled(s) == check' = [check EXCEPT ![s] = "none"] /\ late' = [late EXCEPT ![s] = FALSE]

CreateWindow(s, t) == Goto(s, "up") /\ Settled(s) /\ shows' = [shows EXCEPT ![s] = t]

\* Variant: the loop goes on without a look at the clock.
RetryForEver(s) == /\ check' = [check EXCEPT ![s] = "asleep"]
                   /\ UNCHANGED <<late, pc, backend, goProcess, holder>>
\* The time is compared here only; reject stops the backend before the error box.
Retry(s) == IF late[s] THEN StopGoBackend(s) /\ Goto(s, "error") /\ Settled(s)
            ELSE check' = [check EXCEPT ![s] = "asleep"] /\ UNCHANGED <<late, pc, backend, goProcess, holder>>

\* The request for /api/auth/status ends: only a SorarinBot has the payload.
Answered(s) ==
    /\ pc[s] = "wait" /\ check[s] = "asked" /\ holder[port[s]] # "mute"
    /\ \/ holder[port[s]] \in Shells /\ CreateWindow(s, holder[port[s]]) /\ UNCHANGED <<backend, goProcess, holder>>
       \/ holder[port[s]] \notin Shells /\ Retry(s) /\ UNCHANGED shows
    /\ UNCHANGED <<port, listen, taken>>
Check(s) == /\ pc[s] = "wait" /\ check[s] = "asleep" /\ check' = [check EXCEPT ![s] = "asked"]
            /\ UNCHANGED <<holder, pc, port, child, late, shows, taken>>
Timeout(s) == /\ pc[s] = "wait" /\ ~late[s] /\ late' = [late EXCEPT ![s] = TRUE]
              /\ UNCHANGED <<holder, pc, port, child, check, shows, taken>>

----------------------------------------------------------------------------
(* The end.                                                                *)

\* mainWindow is null, and what was noted of its port is history.
Gone(s) == /\ Goto(s, "gone") /\ Settled(s)
           /\ shows' = [shows EXCEPT ![s] = "none"] /\ taken' = [taken EXCEPT ![s] = FALSE]

\* The dialog is dismissed: app.quit, with nothing left to stop.
ErrorRead(s) == /\ pc[s] = "error" /\ Gone(s) /\ StopGoBackend(s)
                /\ UNCHANGED <<port, listen>>
\* The window is closed: window-all-closed.
CloseWindow(s) == /\ pc[s] = "up" /\ Gone(s) /\ StopGoBackend(s)
                  /\ UNCHANGED <<port, listen>>
\* A signal, or the Exit of the menu: before-quit stops the backend first.  A page
\* with unsaved changes (beforeunload) then keeps its window open, and the program.
Quit(s) == /\ pc[s] \in {"find", "probing", "wait", "up"} /\ StopGoBackend(s)
           /\ Gone(s) \/ (pc[s] = "up" /\ UNCHANGED <<pc, wait, shows, taken>>)
           /\ UNCHANGED <<port, listen>>
\* The shell dies and leaves its child behind.
ShellCrashes(s) == /\ pc[s] \in {"find", "probing", "wait", "up", "error"} /\ Goto(s, "crashed")
                   /\ UNCHANGED <<holder, port, child, wait, shows, taken>>

----------------------------------------------------------------------------
Starting(s) == Launch(s) \/ ProbeOpens(s) \/ ProbeFails(s) \/ ProbeCloses(s)
Waiting(s) == Answered(s) \/ Check(s)
Child(s) == FreeListen(s) \/ StartWeb(s)
Ending(s) == ErrorRead(s) \/ CloseWindow(s) \/ Quit(s) \/ ShellCrashes(s)
Shell(s) == Starting(s) \/ Waiting(s) \/ Timeout(s) \/ Child(s) \/ BackendCrashes(s) \/ Ending(s)
Next == (\E s \in Shells : Shell(s)) \/ StrangerComes \/ StrangerGoes

Spec == Init /\ [][Next]_vars
\* The event loop runs, timers fire, what answers does answer.
FairSpec == Spec /\ \A s \in Shells : /\ WF_vars(Starting(s)) /\ WF_vars(Waiting(s))
                                      /\ WF_vars(Timeout(s)) /\ WF_vars(Child(s))

----------------------------------------------------------------------------
TypeOK ==
    /\ holder \in [Ports -> {"free"} \cup Strangers \cup Shells]
    /\ pc \in [Shells -> {"off", "find", "probing", "wait", "up", "error", "gone", "crashed"}]
    /\ port \in [Shells -> 1..LastPort] /\ listen \in [Shells -> Ports]
    /\ backend \in [Shells -> {"none", "dead"} \cup Alive] /\ goProcess \in [Shells -> BOOLEAN]
    /\ check \in [Shells -> {"none", "asked", "asleep"}] /\ late \in [Shells -> BOOLEAN]
    /\ shows \in [Shells -> Shells \cup {"none"}] /\ taken \in [Shells -> BOOLEAN]

\* No backend outlives its shell ("survived as an orphan that outlived the
\* window"), whichever way the shell ended: closed, quit, signalled, timed out.
\* Only a crash of the shell leaves one.
NoOrphan == \A s \in Shells : pc[s] \in {"error", "gone"} => backend[s] \notin Alive

\* "The window could load a stranger's server": it shows the backend of this
\* shell, wherever other backends and programs listen, unless somebody opened
\* the port between the probe and the backend's listen.  Two shells that start
\* together can do that to each other.
WindowShowsOurs == \A s \in Shells : shows[s] \in {"none", s} \/ taken[s]

\* The start ends with a window or an error, not with a program that waits
\* unseen, unless the port was lost to a program that accepts and never answers:
\* http.get has no timeout, and the 30 s are looked at after an answer only.
StartEnds == \A s \in Shells :
    pc[s] \in {"find", "probing", "wait"} ~>
        pc[s] \in {"up", "error", "gone", "crashed"} \/ holder[port[s]] = "mute"
=============================================================================
