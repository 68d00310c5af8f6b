----------------------- MODULE SidecarSupervisorProofs -----------------------
(***************************************************************************)
(* Proofs about SidecarSupervisor, for any restart budget and any number   *)
(* of monitors.                                                            *)
(***************************************************************************)
EXTENDS SidecarSupervisor, TLAPS

\* The pcs at which the monitor holds no process.
Empty == {"begin", "spawn", "ended", "none"}

\* The monitor holds a process from its first spawn to its end, and has spawned
\* one for its start and one for each restart, the current one included.
\* Nothing is reported active before the first process has been healthy.
MonitorOK ==
  /\ monitor.pc \in Empty => monitor.child = None
  /\ monitor.pc \notin Empty => monitor.child \in Process
  /\ monitor.pc \in {"begin", "spawn"} => monitor.spawns = 0 /\ monitor.restarts = 0
  /\ monitor.pc \in {"health", "check"} => monitor.spawns = 1 /\ monitor.restarts = 0
  /\ monitor.pc = "loop" => monitor.spawns = monitor.restarts + 1
  /\ monitor.pc = "rehealth" => /\ monitor.restarts < MaxCrashRestarts
                                /\ monitor.spawns = monitor.restarts + 2
  /\ monitor.pc \in {"begin", "spawn", "health"} => ~diag.active

\* A supervisor that is shut down has withdrawn its connection, at once or when
\* its process has been stopped.
Withdrawn ==
  monitor.pc \in {"stop", "wait"} /\ monitor.conn = "keep" => conn.state # "ready"

\* The main thread gives its handle up only for a monitor that is over, and it
\* restarts only while the bound allows another monitor.
MainOK ==
  /\ ~main.handle => Over(monitor.pc)
  /\ main.pc = "exited" => Over(monitor.pc)
  /\ main.pc = "join" /\ main.why = "restart" => monitor.gen < MaxGens

IInv == TypeOK /\ MonitorOK /\ Withdrawn /\ MainOK /\ OnlyOwnSidecar /\ ReportsAreLive

-----------------------------------------------------------------------------
\* The published values and a new monitor have their types.
LEMMA ValuesTyped ==
  /\ Unavailable \in Conn /\ FailedClosed \in Conn /\ NoDiag \in Diag
  /\ \A g \in Gens : Ready(g) \in Conn /\ NewMonitor(g) \in Monitor /\ NoMonitor(g) \in Monitor
  /\ \A b \in BOOLEAN : Idle(b) \in Main
<1>1. Unavailable \in Conn /\ FailedClosed \in Conn /\ NoDiag \in Diag
  BY LimitsAreNaturals DEF Unavailable, FailedClosed, NoDiag, Conn, Diag
<1>2. ASSUME NEW g \in Gens
      PROVE  Ready(g) \in Conn /\ NewMonitor(g) \in Monitor /\ NoMonitor(g) \in Monitor
  <2>1. Ready(g) \in Conn
    BY LimitsAreNaturals DEF Ready, Conn, Gens
  <2>2. NewMonitor(g) \in Monitor
    BY LimitsAreNaturals DEF NewMonitor, Monitor
  <2>3. NoMonitor(g) \in Monitor
    BY <2>2 DEF NoMonitor, NewMonitor, Monitor
  <2> QED BY <2>1, <2>2, <2>3
<1>3. \A b \in BOOLEAN : Idle(b) \in Main
  BY DEF Idle, Main
<1> QED BY <1>1, <1>2, <1>3

\* The invariant holds of the app that has just started.
LEMMA InitOK == Init => IInv
<1> SUFFICES ASSUME Init PROVE IInv
  OBVIOUS
<1>1. 1 \in Gens
  BY LimitsAreNaturals DEF Gens
<1>2. TypeOK
  BY <1>1, ValuesTyped DEF Init, TypeOK
<1>3. MonitorOK /\ Withdrawn /\ MainOK /\ OnlyOwnSidecar /\ ReportsAreLive
  BY DEF Init, MonitorOK, Withdrawn, MainOK, OnlyOwnSidecar, ReportsAreLive, NewMonitor, NoMonitor,
         Idle, Over, Empty, NoDiag, Unavailable, FailedClosed
<1> QED BY <1>2, <1>3 DEF IInv

\* The end of the thread: no process left under control, nothing reported live.
LEMMA EndKeeps ==
  ASSUME IInv, NEW result \in {"ok", "error"}, End(monitor, result),
         conn' \in Conn, conn'.state # "ready", diag' \in Diag, ~diag'.active,
         alive' \in SUBSET Process, lost' \in SUBSET Process, alive' \subseteq lost',
         UNCHANGED mainAndUi
  PROVE  IInv'
<1>1. monitor' \in Monitor /\ monitor'.pc = "ended" /\ monitor'.child = None
  BY DEF IInv, TypeOK, End, Monitor
<1>2. TypeOK'
  BY <1>1 DEF IInv, TypeOK, mainAndUi
<1>3. MonitorOK' /\ Withdrawn'
  BY <1>1 DEF MonitorOK, Withdrawn, Empty
<1>4. MainOK' /\ OnlyOwnSidecar' /\ ReportsAreLive'
  <2>1. MainOK'
    BY <1>1 DEF IInv, TypeOK, MainOK, Over, End, Monitor, mainAndUi
  <2>2. OnlyOwnSidecar' /\ ReportsAreLive'
    BY <1>1 DEF OnlyOwnSidecar, ReportsAreLive
  <2> QED BY <2>1, <2>2
<1> QED BY <1>2, <1>3, <1>4 DEF IInv

\* With no process held, all that run are out of control already.
LEMMA EmptyHandsFree ==
  ASSUME IInv, monitor.child = None
  PROVE  alive \subseteq lost
BY NoneIsNoNumber DEF IInv, TypeOK, OnlyOwnSidecar, Process

\* A step of the monitor that goes on, with the processes and the connection it
\* leaves behind.
LEMMA GoesOn ==
  ASSUME IInv, ~Over(monitor.pc), monitor' \in Monitor, monitor'.gen = monitor.gen,
         ~Over(monitor'.pc), MonitorOK', Withdrawn', conn' \in Conn, diag' \in Diag,
         conn'.state = "ready" => /\ conn'.gen = monitor.gen
                                  /\ monitor'.pc \in {"loop", "rehealth", "stop", "wait"},
         alive' \in SUBSET Process, alive' \subseteq lost \cup {monitor'.child},
         UNCHANGED <<lost, mainAndUi>>
  PROVE  IInv'
<1>1. TypeOK'
  BY DEF IInv, TypeOK, mainAndUi
<1>2. MainOK' /\ OnlyOwnSidecar' /\ ReportsAreLive'
  BY DEF IInv, MainOK, OnlyOwnSidecar, ReportsAreLive, Serving, mainAndUi
<1> QED BY <1>1, <1>2 DEF IInv

-----------------------------------------------------------------------------
\* A thread that was shut down before it ran ends; any other goes on with nothing spawned.
LEMMA MonitorBeginStep == ASSUME IInv, MonitorBegin PROVE IInv'
<1>1. /\ monitor.child = None /\ alive \subseteq lost /\ monitor \in Monitor
      /\ conn.state # "ready" /\ ~diag.active /\ ~Over(monitor.pc)
  BY EmptyHandsFree DEF MonitorBegin, IInv, MonitorOK, Empty, TypeOK, ReportsAreLive, Serving, Over
<1>2. CASE monitor.msg
  <2>1. conn' \in Conn /\ conn'.state # "ready"
    BY <1>2, ValuesTyped DEF MonitorBegin, Unavailable
  <2> QED BY <1>1, <1>2, <2>1, EndKeeps DEF MonitorBegin, IInv, TypeOK
<1>3. CASE ~monitor.msg
  <2>1. /\ monitor' \in Monitor /\ monitor'.pc = "spawn" /\ monitor'.gen = monitor.gen
        /\ monitor'.child = None /\ monitor'.spawns = 0 /\ monitor'.restarts = 0
    BY <1>1, <1>3 DEF MonitorBegin, Monitor, IInv, MonitorOK
  <2>2. MonitorOK' /\ Withdrawn'
    BY <1>1, <1>3, <2>1 DEF MonitorBegin, MonitorOK, Withdrawn, Empty
  <2> QED BY <1>1, <1>3, <2>1, <2>2, GoesOn DEF MonitorBegin, Over, IInv, TypeOK
<1> QED BY <1>2, <1>3

\* A start that fails has spawned nothing.
LEMMA StartFailsStep == ASSUME IInv, StartFails PROVE IInv'
<1>1. alive \subseteq lost /\ ~diag.active
  BY EmptyHandsFree DEF StartFails, IInv, MonitorOK, Empty
<1>2. conn' \in Conn /\ conn'.state # "ready"
  BY ValuesTyped DEF StartFails, FailedClosed
<1> QED BY <1>1, <1>2, EndKeeps DEF StartFails, IInv, TypeOK

\* A spawn puts the new process under control of the monitor.
LEMMA SpawnedProcess ==
  ASSUME IInv, NEW pc \in {"health", "rehealth"}, Spawned(monitor, pc),
         monitor.child \in Process \cup {None}, monitor.child \notin alive,
         monitor.spawns \leq MaxCrashRestarts
  PROVE  /\ monitor' \in Monitor /\ monitor'.gen = monitor.gen /\ monitor'.pc = pc
         /\ monitor'.child \in Process /\ monitor'.spawns = monitor.spawns + 1
         /\ monitor'.restarts = monitor.restarts
         /\ alive' \in SUBSET Process /\ alive' \subseteq lost \cup {monitor'.child}
<1> DEFINE p == [gen |-> monitor.gen, n |-> monitor.spawns + 1]
<1>1. monitor \in Monitor /\ p \in Process
  BY LimitsAreNaturals DEF IInv, TypeOK, Monitor, Process, Gens
<1>2. monitor.spawns + 1 \in 0..(MaxCrashRestarts + 1)
  BY <1>1, LimitsAreNaturals DEF Monitor
<1> HIDE DEF p
<1>3. monitor' = [monitor EXCEPT !.pc = pc, !.child = p, !.spawns = @ + 1] /\ alive' = alive \cup {p}
  BY DEF Spawned, p
<1> QED BY <1>1, <1>2, <1>3 DEF Monitor, IInv, TypeOK, OnlyOwnSidecar

\* The first process is the only one under control.
LEMMA StartSpawnStep == ASSUME IInv, StartSpawn PROVE IInv'
<1>1. /\ monitor.child = None /\ alive \subseteq lost /\ ~diag.active /\ conn.state # "ready"
      /\ monitor.spawns = 0 /\ monitor.restarts = 0 /\ None \notin alive /\ ~Over(monitor.pc)
  BY EmptyHandsFree, NoneIsNoNumber
     DEF StartSpawn, IInv, MonitorOK, Empty, ReportsAreLive, Serving, TypeOK, Process, Over
<1>2. /\ monitor' \in Monitor /\ monitor'.gen = monitor.gen /\ monitor'.pc = "health"
      /\ monitor'.child \in Process /\ monitor'.spawns = 1 /\ monitor'.restarts = 0
      /\ alive' \in SUBSET Process /\ alive' \subseteq lost \cup {monitor'.child}
  BY <1>1, SpawnedProcess, LimitsAreNaturals DEF StartSpawn
<1>3. MonitorOK' /\ Withdrawn'
  BY <1>1, <1>2 DEF StartSpawn, MonitorOK, Withdrawn, Empty
<1> QED BY <1>1, <1>2, <1>3, GoesOn DEF StartSpawn, Over, IInv, TypeOK

\* The first process becomes active; its connection is not published yet.
LEMMA StartHealthyStep == ASSUME IInv, StartHealthy PROVE IInv'
<1>1. /\ monitor \in Monitor /\ monitor.child \in Process /\ conn.state # "ready"
      /\ monitor.spawns = 1 /\ monitor.restarts = 0 /\ ~Over(monitor.pc)
  BY DEF StartHealthy, IInv, TypeOK, MonitorOK, Empty, ReportsAreLive, Serving, Over
<1>2. /\ monitor' \in Monitor /\ monitor'.gen = monitor.gen /\ monitor'.pc = "check"
      /\ monitor'.child = monitor.child /\ monitor'.spawns = 1 /\ monitor'.restarts = 0
  BY <1>1 DEF StartHealthy, Monitor
<1>3. MonitorOK' /\ Withdrawn' /\ diag' \in Diag
  BY <1>1, <1>2 DEF StartHealthy, MonitorOK, Withdrawn, Empty, Diag, Monitor
<1> QED BY <1>1, <1>2, <1>3, GoesOn DEF StartHealthy, Over, IInv, TypeOK, OnlyOwnSidecar

\* A process that does not become healthy is stopped before anything is published.
LEMMA HealthFailsStep == ASSUME IInv, HealthFails PROVE IInv'
<1>1. monitor \in Monitor /\ monitor.child \in Process /\ ~Over(monitor.pc)
  BY DEF HealthFails, IInv, TypeOK, MonitorOK, Empty, Over
<1>2. /\ monitor' \in Monitor /\ monitor'.gen = monitor.gen /\ monitor'.pc = "stop"
      /\ monitor'.child = monitor.child /\ monitor'.conn \in {"clear", "fail"}
  BY <1>1 DEF HealthFails, Monitor
<1>3. MonitorOK' /\ Withdrawn'
  BY <1>1, <1>2 DEF HealthFails, MonitorOK, Withdrawn, Empty
<1>4. conn.state = "ready" => conn.gen = monitor.gen
  BY DEF IInv, ReportsAreLive
<1> QED BY <1>1, <1>2, <1>3, <1>4, GoesOn DEF HealthFails, Over, IInv, TypeOK, OnlyOwnSidecar

\* A supervisor that is shut down has its connection withdrawn before its process
\* is stopped.
LEMMA ShutDownStep ==
  ASSUME IInv, monitor.pc \in {"check", "loop"}, NEW c \in {Unavailable, FailedClosed},
         NEW result \in {"stop", "error"}, ShutDown(c, result)
  PROVE  IInv'
<1>1. /\ monitor \in Monitor /\ monitor.child \in Process /\ ~Over(monitor.pc) /\ diag \in Diag
  BY DEF IInv, TypeOK, MonitorOK, Empty, Over
<1>2. /\ monitor' \in Monitor /\ monitor'.gen = monitor.gen /\ monitor'.pc = "stop"
      /\ monitor'.child = monitor.child
  BY <1>1 DEF ShutDown, Monitor
<1>3. conn' \in Conn /\ conn'.state # "ready" /\ diag' \in Diag
  <2>1. conn' \in Conn
    BY ValuesTyped DEF ShutDown
  <2>2. conn'.state # "ready"
    BY DEF ShutDown, Unavailable, FailedClosed
  <2>3. diag' \in Diag
    BY <1>1 DEF ShutDown, Diag
  <2> QED BY <2>1, <2>2, <2>3
<1>4. MonitorOK' /\ Withdrawn'
  BY <1>1, <1>2, <1>3 DEF MonitorOK, Withdrawn, Empty
<1> QED BY <1>1, <1>2, <1>3, <1>4, GoesOn DEF ShutDown, Over, IInv, TypeOK, OnlyOwnSidecar

\* The connection is published by the monitor started last, or withdrawn on shutdown.
LEMMA PublishStep == ASSUME IInv, Publish PROVE IInv'
<1>1. CASE monitor.signal
  BY <1>1, ShutDownStep DEF Publish
<1>2. CASE ~monitor.signal
  <2>1. /\ monitor \in Monitor /\ monitor.child \in Process /\ ~Over(monitor.pc)
        /\ monitor.spawns = 1 /\ monitor.restarts = 0 /\ monitor.gen \in Gens
    BY DEF Publish, IInv, TypeOK, MonitorOK, Empty, Over, Monitor
  <2>2. /\ monitor' \in Monitor /\ monitor'.gen = monitor.gen /\ monitor'.pc = "loop"
        /\ monitor'.child = monitor.child /\ monitor'.spawns = 1 /\ monitor'.restarts = 0
    BY <1>2, <2>1 DEF Publish, Monitor
  <2>3. conn' \in Conn /\ conn'.gen = monitor.gen
    BY <1>2, <2>1, ValuesTyped DEF Publish, Ready
  <2>4. MonitorOK' /\ Withdrawn'
    BY <2>1, <2>2 DEF MonitorOK, Withdrawn, Empty
  <2> QED BY <1>2, <2>1, <2>2, <2>3, <2>4, GoesOn DEF Publish, Over, IInv, TypeOK, OnlyOwnSidecar
<1> QED BY <1>1, <1>2

\* A process that has exited is replaced within the budget, or the monitor ends.
LEMMA ChildExitedStep == ASSUME IInv, ChildExited PROVE IInv'
<1>1. /\ monitor \in Monitor /\ monitor.child \in Process /\ monitor.child \notin alive
      /\ monitor.spawns = monitor.restarts + 1 /\ ~Over(monitor.pc) /\ monitor.restarts \in Nat
      /\ conn.state = "ready" => conn.gen = monitor.gen
  BY DEF ChildExited, IInv, TypeOK, MonitorOK, Empty, Over, Monitor, ReportsAreLive
<1>2. alive \subseteq lost
  BY <1>1 DEF IInv, OnlyOwnSidecar
<1>3. CASE FailClosed
  <2>1. conn' \in Conn /\ conn'.state # "ready"
    BY <1>3, ValuesTyped DEF FailClosed, FailedClosed
  <2>2. diag' \in Diag /\ ~diag'.active
    BY <1>1, <1>3 DEF FailClosed, Diag, Monitor
  <2> QED BY <1>2, <1>3, <2>1, <2>2, EndKeeps DEF ChildExited, FailClosed, IInv, TypeOK
<1>4. CASE monitor.restarts < MaxCrashRestarts /\ Respawn
  <2>1. /\ monitor' \in Monitor /\ monitor'.gen = monitor.gen /\ monitor'.pc = "rehealth"
        /\ monitor'.child \in Process /\ monitor'.spawns = monitor.restarts + 2
        /\ monitor'.restarts = monitor.restarts
        /\ alive' \in SUBSET Process /\ alive' \subseteq lost \cup {monitor'.child}
    BY <1>1, <1>4, SpawnedProcess, LimitsAreNaturals DEF Respawn
  <2>2. MonitorOK' /\ Withdrawn'
    BY <1>4, <2>1 DEF MonitorOK, Withdrawn, Empty
  <2>3. diag' \in Diag
    BY <1>1, <1>4 DEF Respawn, Diag, Monitor
  <2> QED BY <1>1, <1>4, <2>1, <2>2, <2>3, GoesOn DEF ChildExited, Respawn, Over, IInv, TypeOK
<1> QED BY <1>3, <1>4 DEF ChildExited

\* A restart that succeeds is counted.
LEMMA RestartHealthyStep == ASSUME IInv, RestartHealthy PROVE IInv'
<1>1. /\ monitor \in Monitor /\ monitor.child \in Process /\ ~Over(monitor.pc)
      /\ monitor.restarts \in Nat /\ monitor.restarts < MaxCrashRestarts
      /\ monitor.spawns = monitor.restarts + 2
      /\ conn.state = "ready" => conn.gen = monitor.gen
  BY DEF RestartHealthy, IInv, TypeOK, MonitorOK, Empty, Over, Monitor, ReportsAreLive
<1>2. monitor.restarts + 1 \in 0..MaxCrashRestarts
  BY <1>1, LimitsAreNaturals
<1>3. /\ monitor' \in Monitor /\ monitor'.gen = monitor.gen /\ monitor'.pc = "loop"
      /\ monitor'.child = monitor.child /\ monitor'.spawns = monitor.spawns
      /\ monitor'.restarts = monitor.restarts + 1
  BY <1>1, <1>2 DEF RestartHealthy, Monitor
<1>4. MonitorOK' /\ Withdrawn' /\ diag' \in Diag
  BY <1>1, <1>2, <1>3 DEF RestartHealthy, MonitorOK, Withdrawn, Empty, Diag
<1> QED BY <1>1, <1>3, <1>4, GoesOn DEF RestartHealthy, Over, IInv, TypeOK, OnlyOwnSidecar

\* The process is gone, or lost: whatever is left is out of control.
LEMMA StoppedStep ==
  ASSUME IInv, monitor.pc \in {"stop", "wait"}, NEW ok \in BOOLEAN, Stopped(ok),
         alive' \in SUBSET Process, lost' \in SUBSET Process, alive' \subseteq lost'
  PROVE  IInv'
<1>1. monitor \in Monitor /\ diag \in Diag /\ conn \in Conn
  BY DEF IInv, TypeOK
<1>2. PICK result \in {"ok", "error"} : End(monitor, result)
  BY <1>1 DEF Stopped, Monitor
<1>3. conn' \in Conn /\ conn'.state # "ready"
  <2>1. CASE monitor.conn = "clear"
    BY <2>1, ValuesTyped DEF Stopped, Unavailable
  <2>2. CASE monitor.conn = "fail"
    BY <2>2, ValuesTyped DEF Stopped, FailedClosed
  <2>3. CASE monitor.conn = "keep"
    BY <1>1, <2>3 DEF Stopped, IInv, Withdrawn
  <2> QED BY <1>1, <2>1, <2>2, <2>3 DEF Monitor
<1>4. diag' \in Diag /\ ~diag'.active
  BY <1>1 DEF Stopped, Diag
<1> QED BY <1>2, <1>3, <1>4, EndKeeps DEF Stopped

\* A process that cannot be killed is out of control, any other is gone.
LEMMA KillStep ==
  ASSUME IInv, monitor.pc \in {"stop", "wait"}, NEW ok \in BOOLEAN, Kill(ok)
  PROVE  IInv'
<1>1. monitor.child \in Process /\ alive \subseteq lost \cup {monitor.child}
  BY DEF IInv, MonitorOK, Empty, OnlyOwnSidecar
<1>2. alive' \in SUBSET Process /\ lost' \in SUBSET Process /\ alive' \subseteq lost'
  BY <1>1 DEF Kill, IInv, TypeOK
<1>3. Stopped(ok) \/ Stopped(FALSE)
  BY DEF Kill
<1> QED BY <1>2, <1>3, StoppedStep

\* After SIGTERM the monitor still holds its process.
LEMMA TerminateStep == ASSUME IInv, Terminate PROVE IInv'
<1>1. CASE Kill(FALSE)
  BY <1>1, KillStep DEF Terminate
<1>2. CASE /\ monitor' = [monitor EXCEPT !.pc = "wait"]
           /\ UNCHANGED <<alive, lost, conn, diag, mainAndUi>>
  <2>1. monitor \in Monitor /\ monitor.child \in Process /\ ~Over(monitor.pc)
    BY DEF Terminate, IInv, TypeOK, MonitorOK, Empty, Over
  <2>2. /\ monitor' \in Monitor /\ monitor'.gen = monitor.gen /\ monitor'.pc = "wait"
        /\ monitor'.child = monitor.child /\ monitor'.conn = monitor.conn
    BY <1>2, <2>1 DEF Monitor
  <2>3. MonitorOK' /\ Withdrawn'
    BY <1>2, <2>1, <2>2 DEF Terminate, IInv, MonitorOK, Withdrawn, Empty
  <2>4. conn.state = "ready" => conn.gen = monitor.gen
    BY DEF IInv, ReportsAreLive
  <2> QED BY <1>2, <2>1, <2>2, <2>3, <2>4, GoesOn DEF Over, IInv, TypeOK, OnlyOwnSidecar
<1> QED BY <1>1, <1>2 DEF Terminate

\* The wait ends with the process gone, killed or lost.
LEMMA WaitEndsStep == ASSUME IInv, WaitEnds PROVE IInv'
<1>1. CASE monitor.child \notin alive /\ Stopped(TRUE) /\ UNCHANGED <<alive, lost>>
  BY <1>1, StoppedStep DEF WaitEnds, IInv, TypeOK, OnlyOwnSidecar
<1>2. CASE \E waited \in BOOLEAN : Kill(waited)
  BY <1>2, KillStep DEF WaitEnds
<1> QED BY <1>1, <1>2 DEF WaitEnds

\* A status that cannot be read, and the shutdown the loop hears of, withdraw the
\* connection.
LEMMA LoopStep == ASSUME IInv, LoopShutdown \/ StatusFails PROVE IInv'
BY ShutDownStep DEF LoopShutdown, StatusFails

\* Every step of the monitor thread preserves the invariant.
LEMMA MonitorKeeps == ASSUME IInv, MonitorStep \/ StatusFails PROVE IInv'
BY MonitorBeginStep, StartFailsStep, StartSpawnStep, StartHealthyStep, HealthFailsStep, PublishStep,
   LoopStep, ChildExitedStep, RestartHealthyStep, TerminateStep, WaitEndsStep DEF MonitorStep

-----------------------------------------------------------------------------
\* A request for a shutdown changes nothing that the monitor does not read.
LEMMA RequestShutdownStep ==
  ASSUME IInv, NEW why \in {"restart", "exit"}, RequestShutdown(why)
  PROVE  IInv'
<1>1. main \in Main /\ monitor \in Monitor
  BY DEF IInv, TypeOK
<1>2. main' \in Main /\ main'.handle = main.handle /\ main'.pc = "join"
  BY <1>1 DEF RequestShutdown, Main
<1>3. /\ monitor' \in Monitor /\ monitor'.pc = monitor.pc /\ monitor'.gen = monitor.gen
      /\ monitor'.child = monitor.child /\ monitor'.spawns = monitor.spawns
      /\ monitor'.restarts = monitor.restarts /\ monitor'.conn = monitor.conn
  BY <1>1 DEF RequestShutdown, Monitor
<1>4. main'.why = why /\ (why = "restart" => monitor.gen < MaxGens)
  BY <1>1 DEF RequestShutdown, Main
<1>5. UNCHANGED <<alive, lost, conn, diag, ui>>
  BY DEF RequestShutdown
<1>6. TypeOK'
  BY <1>2, <1>3, <1>5 DEF IInv, TypeOK, ui
<1>7. MonitorOK' /\ Withdrawn'
  BY <1>3, <1>5 DEF IInv, MonitorOK, Withdrawn
<1>8. MainOK'
  BY <1>2, <1>3, <1>4 DEF IInv, MainOK, Over
<1>9. OnlyOwnSidecar' /\ ReportsAreLive'
  BY <1>3, <1>5 DEF IInv, OnlyOwnSidecar, ReportsAreLive, Serving, Over
<1> QED BY <1>6, <1>7, <1>8, <1>9 DEF IInv

\* A new monitor, where the old one is over.
LEMMA SpawnMonitorStep ==
  ASSUME IInv, Over(monitor.pc), main.pc = "join", main.why = "restart",
         monitor.gen + 1 \in Gens, SpawnMonitor, UNCHANGED <<alive, lost, diag, ui>>
  PROVE  IInv'
<1>1. alive \subseteq lost /\ ~diag.active /\ conn.state # "ready"
  BY EmptyHandsFree DEF IInv, MonitorOK, Empty, Over, ReportsAreLive, Serving
<1>2. main' \in Main /\ main'.pc = "idle"
  <2>1. Idle(TRUE) \in Main /\ Idle(FALSE) \in Main
    BY DEF Idle, Main
  <2>2. Idle(TRUE).pc = "idle" /\ Idle(FALSE).pc = "idle"
    BY DEF Idle
  <2>3. main' = Idle(TRUE) \/ main' = Idle(FALSE)
    BY DEF SpawnMonitor
  <2> QED BY <2>1, <2>2, <2>3
<1>3. conn' \in Conn /\ conn'.state # "ready"
  <2>1. CASE conn' = conn
    BY <1>1, <2>1 DEF IInv, TypeOK
  <2>2. CASE conn' = FailedClosed
    BY <2>2, ValuesTyped DEF FailedClosed
  <2> QED BY <2>1, <2>2 DEF SpawnMonitor
<1>4. /\ monitor' \in Monitor /\ monitor'.pc \in {"begin", "none"} /\ monitor'.child = None
      /\ monitor'.spawns = 0 /\ monitor'.restarts = 0
      /\ ~main'.handle => monitor'.pc = "none"
  <2>1. monitor' \in Monitor
    BY ValuesTyped DEF SpawnMonitor
  <2> QED BY <2>1 DEF SpawnMonitor, NewMonitor, NoMonitor, Idle
<1>5. TypeOK'
  BY <1>2, <1>3, <1>4 DEF IInv, TypeOK, ui
<1>6. MonitorOK' /\ Withdrawn' /\ MainOK'
  BY <1>1, <1>2, <1>4 DEF MonitorOK, Withdrawn, MainOK, Empty, Over
<1>7. OnlyOwnSidecar' /\ ReportsAreLive'
  BY <1>1, <1>3 DEF OnlyOwnSidecar, ReportsAreLive
<1> QED BY <1>5, <1>6, <1>7 DEF IInv

\* The join ends for the exit, for an error of the monitor, or in a new monitor.
LEMMA JoinStep == ASSUME IInv, Join PROVE IInv'
<1>1. /\ main.pc = "join" /\ Over(monitor.pc) /\ main \in Main /\ monitor.gen \in Gens
  BY DEF Join, IInv, TypeOK, MainOK, Monitor
<1>2. CASE /\ \/ main.why = "exit" /\ main' = [main EXCEPT !.pc = "exited", !.handle = FALSE]
              \/ main' = Idle(FALSE)
           /\ UNCHANGED <<monitor, conn, alive, lost, diag, ui>>
  <2>1. main' \in Main /\ main'.pc # "join"
    BY <1>1, <1>2, ValuesTyped DEF Main, Idle
  <2>2. TypeOK' /\ MonitorOK' /\ Withdrawn'
    BY <1>2, <2>1 DEF IInv, TypeOK, MonitorOK, Withdrawn, ui
  <2>3. MainOK' /\ OnlyOwnSidecar' /\ ReportsAreLive'
    BY <1>1, <1>2, <2>1 DEF IInv, MainOK, OnlyOwnSidecar, ReportsAreLive, Serving, Over
  <2> QED BY <2>2, <2>3 DEF IInv
<1>3. CASE main.why = "restart" /\ SpawnMonitor /\ UNCHANGED <<alive, lost, diag, ui>>
  <2>1. monitor.gen + 1 \in Gens
    BY <1>1, <1>3, LimitsAreNaturals DEF IInv, MainOK, Gens
  <2> QED BY <1>1, <1>3, <2>1, SpawnMonitorStep
<1> QED BY <1>2, <1>3 DEF Join

\* The API client only copies the number of a monitor.
LEMMA ApiStep == ASSUME IInv, ApiInvoke \/ ApiStore PROVE IInv'
<1>1. TypeOK'
  <2>1. CASE ApiInvoke
    <3>1. conn.gen \in Gens
      BY <2>1 DEF ApiInvoke, IInv, ReportsAreLive, TypeOK, Monitor
    <3> QED BY <2>1, <3>1 DEF ApiInvoke, IInv, TypeOK
  <2>2. CASE ApiStore
    BY <2>2 DEF ApiStore, IInv, TypeOK
  <2> QED BY <2>1, <2>2
<1>2. UNCHANGED <<main, monitor, alive, lost, conn, diag>>
  BY DEF ApiInvoke, ApiStore
<1>3. MonitorOK' /\ Withdrawn' /\ MainOK' /\ OnlyOwnSidecar' /\ ReportsAreLive'
  BY <1>2
     DEF IInv, MonitorOK, Withdrawn, MainOK, OnlyOwnSidecar, ReportsAreLive, Serving
<1> QED BY <1>1, <1>3 DEF IInv

\* A process that dies is one fewer.
LEMMA ChildDiesStep == ASSUME IInv, NEW p \in alive, ChildDies(p) PROVE IInv'
<1>1. TypeOK' /\ OnlyOwnSidecar'
  BY DEF ChildDies, IInv, TypeOK, OnlyOwnSidecar, ui
<1>2. MonitorOK' /\ Withdrawn' /\ MainOK' /\ ReportsAreLive'
  BY DEF ChildDies, IInv, MonitorOK, Withdrawn, MainOK, ReportsAreLive, Serving
<1> QED BY <1>1, <1>2 DEF IInv

\* A new app has no process yet: all that run are out of control.
LEMMA AppDiesStep == ASSUME IInv, AppDies PROVE IInv'
<1>1. monitor.gen + 1 \in Gens
  BY LimitsAreNaturals DEF AppDies, IInv, TypeOK, Monitor, Gens
<1>2. TypeOK'
  BY <1>1, ValuesTyped DEF AppDies, IInv, TypeOK
<1>3. MonitorOK' /\ Withdrawn'
  BY DEF AppDies, NewMonitor, NoDiag, MonitorOK, Withdrawn, Empty
<1>4. MainOK' /\ OnlyOwnSidecar' /\ ReportsAreLive'
  BY DEF AppDies, NewMonitor, NoDiag, Idle, Unavailable, MainOK, OnlyOwnSidecar, ReportsAreLive, Over
<1> QED BY <1>2, <1>3, <1>4 DEF IInv

\* Every step preserves the invariant.
LEMMA NextKeeps == IInv /\ [Next]_vars => IInv'
<1> SUFFICES ASSUME IInv, [Next]_vars PROVE IInv'
  OBVIOUS
<1>1. CASE UNCHANGED vars
  BY <1>1 DEF vars, IInv, TypeOK, MonitorOK, Withdrawn, MainOK, OnlyOwnSidecar, ReportsAreLive,
              Serving
<1>2. CASE Next
  BY <1>2, MonitorKeeps, RequestShutdownStep, JoinStep, ApiStep, ChildDiesStep, AppDiesStep
     DEF Next
<1> QED BY <1>1, <1>2

-----------------------------------------------------------------------------
\* The inductive invariant holds of every behaviour.
THEOREM Invariance == Spec => []IInv
BY InitOK, NextKeeps, PTL DEF Spec

\* Every variable keeps its type; above all, a monitor spawns at most one process
\* more than MAX_CRASH_RESTARTS, for every value of it.
THEOREM TypeCorrect == Spec => []TypeOK
<1>1. IInv => TypeOK
  BY DEF IInv
<1> QED BY <1>1, Invariance, PTL

\* The monitor controls every sidecar that runs, but those that an OS failure or
\* the death of the app set loose.
THEOREM OneSidecar == Spec => []OnlyOwnSidecar
<1>1. IInv => OnlyOwnSidecar
  BY DEF IInv
<1> QED BY <1>1, Invariance, PTL

\* The exit of the app leaves no sidecar behind that it could have stopped.
THEOREM NoneAfterExit == Spec => []NoSidecarAfterExit
<1>1. IInv => NoSidecarAfterExit
  <2> SUFFICES ASSUME IInv, main.pc = "exited" PROVE alive \subseteq lost
    BY DEF NoSidecarAfterExit
  <2>1. monitor.child = None
    BY DEF IInv, MainOK, MonitorOK, Over, Empty
  <2> QED BY <2>1, EmptyHandsFree
<1> QED BY <1>1, Invariance, PTL

\* Both together: no sidecar runs unsupervised.
THEOREM NoneIsStray == Spec => []NoStraySidecar
<1>1. OnlyOwnSidecar /\ NoSidecarAfterExit => NoStraySidecar
  BY DEF NoStraySidecar
<1> QED BY <1>1, OneSidecar, NoneAfterExit, PTL

\* What is reported ready or active belongs to the monitor started last.
THEOREM ReportsLive == Spec => []ReportsAreLive
<1>1. IInv => ReportsAreLive
  BY DEF IInv
<1> QED BY <1>1, Invariance, PTL
=============================================================================
