-------------------------- MODULE SidecarSupervisor --------------------------
(***************************************************************************)
(* The desktop shell's supervision of the Python sidecar: ManagedSidecar   *)
(* on the main thread (start, restart, exit), the monitor thread that owns *)
(* a SidecarSupervisor, the sidecar processes, the connection and the      *)
(* diagnostics both threads publish, and the API client of the frontend,   *)
(* which caches the connection it was given.                               *)
(*                                                                         *)
(* A generation is one monitor thread with its own port and token.  One    *)
(* action is what a thread does between two waits; the commands of the     *)
(* frontend run on the main thread, so none is answered while it joins.    *)
(***************************************************************************)
EXTENDS Naturals

CONSTANTS
  MaxCrashRestarts,  \* MAX_CRASH_RESTARTS
  MaxGens,           \* bound: how many monitors are ever spawned
  None               \* no process, no cached connection

ASSUME LimitsAreNaturals == MaxCrashRestarts \in Nat /\ MaxGens \in Nat \ {0}
ASSUME NoneIsNoNumber == None \notin Nat /\ None \notin [gen : Nat, n : Nat]

VARIABLES
  main,     \* the main thread: its pc, why it joins, and whether it holds a JoinHandle
  monitor,  \* the monitor thread spawned last, its supervisor and its shutdown channel
  alive,    \* the sidecar processes that run
  lost,     \* those that an OS failure or the death of the app took out of control
  conn,     \* SidecarConnectionState
  diag,     \* SidecarDiagnosticsState
  reply,    \* an answer to get_sidecar_connection on its way to the API client
  cache     \* cachedConnection of the API client

vars == <<main, monitor, alive, lost, conn, diag, reply, cache>>
ui == <<reply, cache>>

-----------------------------------------------------------------------------
Gens == 1..MaxGens
Process == [gen : Nat, n : Nat]

Unavailable == [state |-> "unavailable", gen |-> 0]
FailedClosed == [state |-> "failed_closed", gen |-> 0]
Ready(g) == [state |-> "ready", gen |-> g]

\* A new monitor thread: nothing spawned, no shutdown requested.
NewMonitor(g) ==
  [pc |-> "begin", gen |-> g, child |-> None, spawns |-> 0, restarts |-> 0,
   signal |-> FALSE, msg |-> FALSE, conn |-> "keep", result |-> "ok"]

\* The OS has refused the thread.
NoMonitor(g) == [NewMonitor(g) EXCEPT !.pc = "none"]

Idle(handle) == [pc |-> "idle", why |-> "none", handle |-> handle]
NoDiag == [active |-> FALSE, crashed |-> FALSE, restarts |-> 0]

Over(pc) == pc \in {"none", "ended"}
Serving == monitor.pc \in {"loop", "rehealth"}

-----------------------------------------------------------------------------
\* Steps of the monitor thread.
mainAndUi == <<main, reply, cache>>

\* The thread returns.
End(m, result) == monitor' = [m EXCEPT !.pc = "ended", !.child = None, !.result = result]

\* A shutdown requested before the thread ran.
MonitorBegin ==
  /\ monitor.pc = "begin"
  /\ IF monitor.msg THEN End(monitor, "ok") /\ conn' = Unavailable
     ELSE monitor' = [monitor EXCEPT !.pc = "spawn"] /\ UNCHANGED conn
  /\ UNCHANGED <<alive, lost, diag, mainAndUi>>

\* start(): no data directory, token, port or process.
StartFails ==
  /\ monitor.pc = "spawn"
  /\ End(monitor, "error")
  /\ conn' = FailedClosed
  /\ UNCHANGED <<alive, lost, diag, mainAndUi>>

Spawned(m, pc) ==
  LET p == [gen |-> m.gen, n |-> m.spawns + 1]
  IN /\ alive' = alive \cup {p}
     /\ monitor' = [m EXCEPT !.pc = pc, !.child = p, !.spawns = @ + 1]

StartSpawn ==
  /\ monitor.pc = "spawn"
  /\ Spawned(monitor, "health")
  /\ UNCHANGED <<lost, conn, diag, mainAndUi>>

\* wait_until_healthy succeeds: a process that lives answers the probe.
StartHealthy ==
  /\ monitor.pc = "health" /\ monitor.child \in alive
  /\ monitor' = [monitor EXCEPT !.pc = "check"]
  /\ diag' = [active |-> TRUE, crashed |-> FALSE, restarts |-> monitor.restarts]
  /\ UNCHANGED <<alive, lost, conn, mainAndUi>>

\* It does not: a shutdown was requested, or the deadline passed.  The process is
\* stopped first, then the connection says so.
HealthFails ==
  /\ monitor.pc \in {"health", "rehealth"}
  /\ \/ /\ monitor.signal
        /\ monitor' = [monitor EXCEPT !.pc = "stop", !.conn = "clear", !.result = "ok"]
     \/ monitor' = [monitor EXCEPT !.pc = "stop", !.conn = "fail", !.result = "error"]
  /\ UNCHANGED <<alive, lost, conn, diag, mainAndUi>>

\* The supervisor is shut down: the process is stopped after the connection and
\* the diagnostics have been withdrawn.
ShutDown(c, result) ==
  /\ conn' = c
  /\ diag' = [diag EXCEPT !.active = FALSE]
  /\ monitor' = [monitor EXCEPT !.pc = "stop", !.conn = "keep", !.result = result]
  /\ UNCHANGED <<alive, lost, mainAndUi>>

\* A shutdown requested while starting; otherwise the connection is published.
Publish ==
  /\ monitor.pc = "check"
  /\ IF monitor.signal THEN ShutDown(Unavailable, "stop")
     ELSE /\ conn' = Ready(monitor.gen)
          /\ monitor' = [monitor EXCEPT !.pc = "loop"]
          /\ UNCHANGED <<alive, lost, diag, mainAndUi>>

\* Mutant: the connection is not withdrawn.
LoopShutdownKeepsConnection ==
  monitor.pc = "loop" /\ monitor.msg /\ ShutDown(conn, "stop")

LoopShutdown == monitor.pc = "loop" /\ monitor.msg /\ ShutDown(Unavailable, "stop")

\* ensure_running: the status of the process cannot be read.
StatusFails == monitor.pc = "loop" /\ ShutDown(FailedClosed, "error")

\* The supervisor failed closed with no process left.
FailClosed ==
  /\ End(monitor, "error")
  /\ conn' = FailedClosed
  /\ diag' = [active |-> FALSE, crashed |-> TRUE, restarts |-> monitor.restarts]
  /\ UNCHANGED alive

Respawn ==
  /\ Spawned(monitor, "rehealth")
  /\ diag' = [active |-> TRUE, crashed |-> TRUE, restarts |-> monitor.restarts]
  /\ UNCHANGED conn

\* Mutant: a process beyond the budget is not noticed.
ChildExitedUnnoticed ==
  /\ monitor.pc = "loop" /\ monitor.child \notin alive
  /\ monitor.restarts < MaxCrashRestarts /\ (FailClosed \/ Respawn)
  /\ UNCHANGED <<lost, mainAndUi>>

\* ensure_running: the process has exited.  It is spawned again, which may fail,
\* unless the budget is spent.
ChildExited ==
  /\ monitor.pc = "loop" /\ monitor.child \notin alive
  /\ \/ FailClosed
     \/ monitor.restarts < MaxCrashRestarts /\ Respawn
  /\ UNCHANGED <<lost, mainAndUi>>

RestartHealthy ==
  /\ monitor.pc = "rehealth" /\ monitor.child \in alive
  /\ monitor' = [monitor EXCEPT !.pc = "loop", !.restarts = @ + 1]
  /\ diag' = [active |-> TRUE, crashed |-> FALSE, restarts |-> monitor.restarts + 1]
  /\ UNCHANGED <<alive, lost, conn, mainAndUi>>

\* The process is stopped, well or with an error.  A thread that fails to start or
\* to restart publishes its end only now.
Stopped(ok) ==
  /\ End(monitor, IF monitor.result = "stop" THEN IF ok THEN "ok" ELSE "error"
                  ELSE monitor.result)
  /\ conn' = CASE monitor.conn = "clear" -> Unavailable
               [] monitor.conn = "fail" -> FailedClosed
               [] OTHER -> conn
  /\ diag' = [diag EXCEPT !.active = FALSE]
  /\ UNCHANGED mainAndUi

\* kill(), which may fail and leave the process.
Kill(ok) ==
  \/ alive' = alive \ {monitor.child} /\ UNCHANGED lost /\ Stopped(ok)
  \/ lost' = lost \cup {monitor.child} /\ UNCHANGED alive /\ Stopped(FALSE)

\* stop_child: SIGTERM, or kill at once when that fails.
Terminate ==
  /\ monitor.pc = "stop"
  /\ \/ monitor' = [monitor EXCEPT !.pc = "wait"]
        /\ UNCHANGED <<alive, lost, conn, diag, mainAndUi>>
     \/ Kill(FALSE)

\* Then a bounded wait for its exit, then kill.
WaitEnds ==
  /\ monitor.pc = "wait"
  /\ \/ monitor.child \notin alive /\ Stopped(TRUE) /\ UNCHANGED <<alive, lost>>
     \/ \E waited \in BOOLEAN : Kill(waited)

\* All that the thread does by itself; a status that cannot be read is bad luck.
MonitorStep ==
  \/ MonitorBegin \/ StartFails \/ StartSpawn \/ StartHealthy \/ HealthFails \/ Publish
  \/ LoopShutdown \/ ChildExited \/ RestartHealthy \/ Terminate \/ WaitEnds

-----------------------------------------------------------------------------
\* Steps of the main thread.

\* shutdown(), called by restart_sidecar and by the exit event: signal, message, join.
RequestShutdown(why) ==
  /\ main.pc = "idle"
  /\ why = "restart" => monitor.gen < MaxGens
  /\ main' = [main EXCEPT !.pc = "join", !.why = why]
  /\ monitor' = [monitor EXCEPT !.signal = TRUE, !.msg = TRUE]
  /\ UNCHANGED <<alive, lost, conn, diag, ui>>

\* spawn_monitor; the OS may refuse the thread.
SpawnMonitor ==
  \/ /\ monitor' = NewMonitor(monitor.gen + 1)
     /\ main' = Idle(TRUE)
     /\ UNCHANGED conn
  \/ /\ monitor' = NoMonitor(monitor.gen + 1)
     /\ main' = Idle(FALSE)
     /\ conn' = FailedClosed

\* Mutant: the restart does not wait for the monitor it replaces.
JoinAtOnce ==
  /\ main.pc = "join"
  /\ \/ main.why = "exit" /\ main' = [main EXCEPT !.pc = "exited", !.handle = FALSE]
        /\ UNCHANGED <<monitor, conn>>
     \/ main.why = "restart" /\ SpawnMonitor
  /\ UNCHANGED <<alive, lost, diag, ui>>

\* The monitor has returned.  An error it returned is the restart's: the call ends
\* without a new monitor.
Join ==
  /\ main.pc = "join"
  /\ main.handle => Over(monitor.pc)
  /\ \/ /\ main.why = "exit"
        /\ main' = [main EXCEPT !.pc = "exited", !.handle = FALSE]
        /\ UNCHANGED <<monitor, conn>>
     \/ /\ main.why = "restart" /\ main.handle /\ monitor.result = "error"
        /\ main' = Idle(FALSE)
        /\ UNCHANGED <<monitor, conn>>
     \/ /\ main.why = "restart"
        /\ ~(main.handle /\ monitor.result = "error")
        /\ SpawnMonitor
  /\ UNCHANGED <<alive, lost, diag, ui>>

\* get_sidecar_connection, called by the API client that has no connection yet.
ApiInvoke ==
  /\ main.pc = "idle" /\ cache = None /\ reply = None
  /\ conn.state = "ready"
  /\ reply' = conn.gen
  /\ UNCHANGED <<main, monitor, alive, lost, conn, diag, cache>>

ApiStore ==
  /\ main.pc # "exited" /\ reply # None
  /\ cache' = reply /\ reply' = None
  /\ UNCHANGED <<main, monitor, alive, lost, conn, diag>>

-----------------------------------------------------------------------------
\* A sidecar exits, by itself or on SIGTERM.
ChildDies(p) ==
  /\ alive' = alive \ {p}
  /\ UNCHANGED <<main, monitor, lost, conn, diag, ui>>

\* The app dies and is started again.  The sidecar has its own session (setsid)
\* and does not watch its parent: it lives on.
AppDies ==
  /\ main.pc # "exited" /\ monitor.gen < MaxGens
  /\ main' = Idle(TRUE)
  /\ monitor' = NewMonitor(monitor.gen + 1)
  /\ lost' = lost \cup alive
  /\ conn' = Unavailable /\ diag' = NoDiag /\ reply' = None /\ cache' = None
  /\ UNCHANGED alive

Init ==
  /\ \/ main = Idle(TRUE) /\ monitor = NewMonitor(1) /\ conn = Unavailable
     \/ main = Idle(FALSE) /\ monitor = NoMonitor(1) /\ conn = FailedClosed
  /\ alive = {} /\ lost = {}
  /\ diag = NoDiag
  /\ reply = None /\ cache = None

Next ==
  \/ MonitorStep \/ StatusFails
  \/ \E why \in {"restart", "exit"} : RequestShutdown(why)
  \/ Join
  \/ ApiInvoke \/ ApiStore
  \/ \E p \in alive : ChildDies(p)
  \/ AppDies

Spec == Init /\ [][Next]_vars

\* Every wait of the monitor has a timeout, and a join ends when the thread has.
FairSpec == Spec /\ WF_vars(MonitorStep) /\ WF_vars(Join)

-----------------------------------------------------------------------------
Main == [pc : {"idle", "join", "exited"}, why : {"none", "restart", "exit"}, handle : BOOLEAN]
Monitor == [pc : {"begin", "spawn", "health", "check", "loop", "rehealth", "stop", "wait",
                  "ended", "none"},
            gen : Gens, child : Process \cup {None}, spawns : 0..(MaxCrashRestarts + 1),
            restarts : 0..MaxCrashRestarts, signal : BOOLEAN, msg : BOOLEAN,
            conn : {"keep", "clear", "fail"}, result : {"ok", "error", "stop"}]
Conn == [state : {"unavailable", "failed_closed", "ready"}, gen : 0..MaxGens]
Diag == [active : BOOLEAN, crashed : BOOLEAN, restarts : 0..MaxCrashRestarts]

\* Every variable has its type.  In particular a monitor never spawns more than
\* 1 + MAX_CRASH_RESTARTS processes: there is no crash loop, whichever of spawn,
\* health and the process itself fails.
TypeOK ==
  /\ main \in Main
  /\ monitor \in Monitor
  /\ alive \in SUBSET Process
  /\ lost \in SUBSET Process
  /\ conn \in Conn
  /\ diag \in Diag
  /\ reply \in Gens \cup {None}
  /\ cache \in Gens \cup {None}

\* The sidecar that runs is the one the monitor holds: never two with one
\* database, except for those an OS failure or the death of the app set loose.
OnlyOwnSidecar == alive \subseteq lost \cup {monitor.child}

\* Once the app has exited, no sidecar is left that it could have stopped.
NoSidecarAfterExit == main.pc = "exited" => alive \subseteq lost

\* No sidecar runs unsupervised, neither beside the supervised one nor after the app
\* (sidecar.rs:519-600, 1009-1060).
NoStraySidecar == OnlyOwnSidecar /\ NoSidecarAfterExit

\* What the app reports as ready is served by the monitor started last, and what
\* it reports as active has a monitor: a connection is withdrawn on every path on
\* which a monitor ends.
ReportsAreLive ==
  /\ conn.state = "ready" => Serving \/ monitor.pc = "stop" \/ monitor.pc = "wait"
  /\ conn.state = "ready" => conn.gen = monitor.gen
  /\ diag.active => ~Over(monitor.pc)

\* A sidecar that dies while its connection is published is replaced, or the
\* connection is withdrawn.
ReadyIsServed ==
  \A g \in Gens : conn = Ready(g) /\ monitor.child \notin alive
                  ~> (conn # Ready(g) \/ monitor.child \in alive)

\* restart_sidecar and the exit handler, which block the main thread on the
\* monitor, always return.
ShutdownReturns == main.pc = "join" ~> main.pc # "join"

\* The supervisor gets where it is going: to a live connection or to none, and to the end of a
\* shutdown (sidecar.rs:1009-1200).
SupervisorSettles == ReadyIsServed /\ ShutdownReturns

\* "Clears the cached sidecar connection, e.g. after a sidecar restart"
\* (client.ts:203): while the app serves a connection, the API client does not
\* hold that of an earlier monitor.
CacheIsCurrent == conn.state = "ready" => cache \in {None, conn.gen}
=============================================================================
