-------------------------- MODULE ReadinessLifecycle --------------------------
(***************************************************************************)
(* The sidecar's readiness: SidecarLifecycle (startup, start_or_resume,    *)
(* the preparation task, shutdown), ReadinessService.prepare and the run   *)
(* that ReadinessRepository keeps in SQLite.                               *)
(*                                                                         *)
(* One action is what a coroutine does between two awaits; a transaction   *)
(* is one step.  The lifecycle lock is held over the awaits of a request,  *)
(* the cleanup of a preparation needs it for a moment.  Every capability   *)
(* is required: REQUIRED_CAPABILITY_IDS holds them all.                    *)
(***************************************************************************)
EXTENDS Naturals

CONSTANTS
  NCaps,        \* how many capabilities there are, numbered by their position
  MaxAttempts,  \* bound: the attempts at a capability are counted up to this number
  Requests,     \* the requests the server handles at once
  Tasks,        \* the preparation tasks that can exist at once
  None          \* no run, no task, no holder of the lock, no answer

ASSUME SizesArePositive == NCaps \in Nat \ {0} /\ MaxAttempts \in Nat \ {0}
ASSUME NoneIsNone == None \notin Requests /\ None \notin Tasks

VARIABLES
  run,    \* the readiness run without completed_at, as persisted
  phase,  \* how far the process and its lifecycle are
  lock,   \* the request that holds the lifecycle lock
  prep,   \* _preparation_task
  task,   \* the preparation tasks
  req     \* the requests in flight and their answers

vars == <<run, phase, lock, prep, task, req>>

-----------------------------------------------------------------------------
Caps == 1..NCaps

\* CapabilityState; no check ends in "failed".
CapState == {"pending", "checking", "ready", "degraded", "action_required", "failed"}

\* AggregateState, as far as a run or a snapshot can have it.
RunState == {"not_started", "pending", "checking", "ready", "degraded", "action_required",
             "failed", "recovering"}
Run == [state : RunState, cap : [Caps -> CapState],
        attempts : [Caps -> 0..MaxAttempts]]

ASSUME NoneIsNoRun == None \notin Run

\* _CAPABILITY_STATE_PRECEDENCE.
Precedence == <<"failed", "action_required", "degraded", "checking", "pending", "ready">>

\* aggregate_state.
Aggregate(cap) ==
  IF \A c \in Caps : cap[c] = "pending" THEN "not_started"
  ELSE Precedence[CHOOSE i \in 1..6 :
         /\ \E c \in Caps : cap[c] = Precedence[i]
         /\ \A j \in 1..(i - 1), c \in Caps : cap[c] # Precedence[j]]

\* gate_open.
GateOpen(cap) == \A c \in Caps : cap[c] = "ready"

\* create_or_get_current_run where there is no run.
Fresh == [state |-> "pending", cap |-> [c \in Caps |-> "pending"], attempts |-> [c \in Caps |-> 0]]

\* Mutant: the run is not marked as recovering.
ResumedSilently(r) ==
  [r EXCEPT !.cap = [c \in Caps |-> IF @[c] = "checking" THEN "pending" ELSE @[c]]]
\* resume_latest_incomplete_run: interrupted checks become pending again.
Interrupted(cap) == [c \in Caps |-> IF cap[c] = "checking" THEN "pending" ELSE cap[c]]
Resumed(r) ==
  IF \E c \in Caps : r.cap[c] = "checking"
  THEN [state |-> "recovering", cap |-> Interrupted(r.cap), attempts |-> r.attempts]
  ELSE r

\* update_capabilities of one capability, with the aggregate of the run as the
\* caller last saw it.
Updated(r, seen, c, s, n) ==
  [state |-> Aggregate([seen EXCEPT ![c] = s]),
   cap |-> [r.cap EXCEPT ![c] = s], attempts |-> [r.attempts EXCEPT ![c] = n]]

\* The snapshot a client receives, and an error envelope.
Snapshot(r) ==
  IF r = None THEN [ok |-> TRUE, state |-> "not_started", gate |-> FALSE]
  ELSE [ok |-> TRUE, state |-> r.state, gate |-> GateOpen(r.cap)]
ErrorAnswer == [ok |-> FALSE, state |-> "not_started", gate |-> FALSE]

\* A task with nothing in hand.
TaskAt(pc) == [pc |-> pc, todo |-> {}, cap |-> None, seen |-> None, attempts |-> None]
NoTask == TaskAt("none")
NoRequest == [pc |-> "idle", answer |-> None]

Ended(pc) == pc \in {"none", "failed"}

\* _active_preparation_task.
Active == prep # None /\ ~Ended(task[prep].pc)

\* The process runs, and it accepts preparations.
Running == phase # "down"
Accepting == phase = "serving"

-----------------------------------------------------------------------------
\* start_or_resume, on behalf of request r.

\* POST /v1/readiness/runs waits for the lock, GET /readyz reads the run.
Arrive(r, pc) ==
  /\ req[r].pc = "idle"
  /\ req' = [req EXCEPT ![r] = [pc |-> pc, answer |-> None]]
  /\ UNCHANGED <<run, phase, lock, prep, task>>

Answer(r, a) == req' = [req EXCEPT ![r] = [pc |-> "answered", answer |-> a]]

\* Mutant: the active preparation is not looked at.
EnterAlways(r) ==
  /\ Running /\ req[r].pc = "lock" /\ lock = None
  /\ IF ~Accepting THEN Answer(r, ErrorAnswer) /\ UNCHANGED lock
     ELSE req' = [req EXCEPT ![r].pc = "start"] /\ lock' = r
  /\ UNCHANGED <<run, phase, prep, task>>

\* The lock is acquired: refused, answered with the run of the active preparation,
\* or started.
Enter(r) ==
  /\ Running /\ req[r].pc = "lock" /\ lock = None
  /\ IF ~Accepting THEN Answer(r, ErrorAnswer) /\ UNCHANGED lock
     ELSE /\ req' = [req EXCEPT ![r].pc = IF Active THEN "load" ELSE "start"]
          /\ lock' = r
  /\ UNCHANGED <<run, phase, prep, task>>

\* Mutant: the lock is not given back.
LoadCurrentLocked(r) ==
  /\ Running /\ req[r].pc = "load"
  /\ IF run # None THEN Answer(r, Snapshot(run)) /\ lock' = lock
     ELSE req' = [req EXCEPT ![r].pc = "start"] /\ UNCHANGED lock
  /\ UNCHANGED <<run, phase, prep, task>>

\* The run of the active preparation, which exists as long as that runs.
LoadCurrent(r) ==
  /\ Running /\ req[r].pc = "load"
  /\ IF run # None THEN Answer(r, Snapshot(run)) /\ lock' = None
     ELSE req' = [req EXCEPT ![r].pc = "start"] /\ UNCHANGED lock
  /\ UNCHANGED <<run, phase, prep, task>>

\* The run is resumed or created, and a task is spawned.
Start(r) ==
  /\ Running /\ req[r].pc = "start"
  /\ run' = IF run = None THEN Fresh ELSE Resumed(run)
  /\ \E t \in Tasks :
       /\ Ended(task[t].pc)
       /\ task' = [u \in Tasks |-> IF u = t THEN TaskAt("resume")
                                  ELSE IF Ended(task[u].pc) THEN NoTask ELSE task[u]]
       /\ prep' = t
  /\ Answer(r, Snapshot(run')) /\ lock' = None
  /\ UNCHANGED phase

\* The database raises: the request fails and gives the lock back.
StartFails(r) ==
  /\ Running /\ req[r].pc \in {"load", "start"}
  /\ Answer(r, ErrorAnswer) /\ lock' = None
  /\ UNCHANGED <<run, phase, prep, task>>

\* GET /readyz: one transaction, no lock.
Read(r) ==
  /\ Running /\ req[r].pc = "read"
  /\ Answer(r, Snapshot(run))
  /\ UNCHANGED <<run, phase, lock, prep, task>>

\* The client takes the answer, or has gone.
Leave(r) ==
  /\ req[r].pc = "answered"
  /\ req' = [req EXCEPT ![r] = NoRequest]
  /\ UNCHANGED <<run, phase, lock, prep, task>>

Handle(r) == Enter(r) \/ LoadCurrent(r) \/ Start(r) \/ Read(r)

-----------------------------------------------------------------------------
\* _run_preparation and prepare(), in task t.
shared == <<phase, lock, prep, req>>

\* Mutant: every capability is checked again.
TodoAll(cap) == Caps

\* The capabilities the loop does not skip.
Todo(cap) == {c \in Caps : cap[c] # "ready"}

\* The loop goes on with the next capability, or ends.
NextPc(todo) == IF todo = {} THEN "finally" ELSE "next"

PrepareResume(t) ==
  /\ Running /\ task[t].pc = "resume"
  /\ run' = IF run = None THEN Fresh ELSE Resumed(run)
  /\ LET todo == Todo(run'.cap)
     IN task' = [task EXCEPT ![t] = [pc |-> NextPc(todo), todo |-> todo, cap |-> None,
                                     seen |-> run'.cap, attempts |-> run'.attempts]]
  /\ UNCHANGED shared

CountedUp(n) == IF n < MaxAttempts THEN n + 1 ELSE n

\* "checking" is persisted before the check, in the order of the positions.
MarkChecking(t) ==
  /\ Running /\ task[t].pc = "next"
  /\ \E c \in task[t].todo :
       /\ \A d \in task[t].todo : c \leq d
       /\ run' = Updated(run, task[t].seen, c, "checking", CountedUp(task[t].attempts[c]))
       /\ task' = [task EXCEPT ![t] = [pc |-> "check", todo |-> task[t].todo, cap |-> c,
                                       seen |-> run'.cap, attempts |-> run'.attempts]]
  /\ UNCHANGED shared

\* The adapter answers, and its outcome is persisted.
Record(t, outcome) ==
  /\ Running /\ task[t].pc = "check"
  /\ LET c == task[t].cap
         todo == task[t].todo \ {c}
     IN /\ run' = Updated(run, task[t].seen, c, outcome, task[t].attempts[c])
        /\ task' = [task EXCEPT ![t] = [pc |-> NextPc(todo), todo |-> todo, cap |-> None,
                                        seen |-> run'.cap, attempts |-> run'.attempts]]
  /\ UNCHANGED shared

\* The adapter or the database raises.
PrepareFails(t) ==
  /\ Running /\ task[t].pc \in {"resume", "next", "check"}
  /\ task' = [task EXCEPT ![t] = TaskAt("recover")]
  /\ UNCHANGED <<run, shared>>

\* The except clause marks the interrupted check, which may fail in its turn.
Recover(t) ==
  /\ Running /\ task[t].pc = "recover"
  /\ \/ /\ run' = Resumed(run)
        /\ task' = [task EXCEPT ![t] = TaskAt("finally")]
     \/ task' = [task EXCEPT ![t] = TaskAt("finally_failed")] /\ UNCHANGED run
  /\ UNCHANGED shared

\* The finally clause takes the lock and forgets the task.
Finally(t) ==
  /\ Running /\ task[t].pc \in {"finally", "finally_failed"}
  /\ lock = None
  /\ prep' = IF prep = t THEN None ELSE prep
  /\ task' = [task EXCEPT ![t] = TaskAt(IF task[t].pc = "finally" THEN "none" ELSE "failed")]
  /\ UNCHANGED <<run, phase, lock, req>>

Outcomes == {"ready", "degraded", "action_required"}

Prepare(t) ==
  \/ PrepareResume(t) \/ MarkChecking(t) \/ \E o \in Outcomes : Record(t, o)
  \/ Recover(t) \/ Finally(t)

-----------------------------------------------------------------------------
\* The process.

\* startup(): interrupted checks of an earlier process are marked, then requests
\* are accepted.
Startup ==
  /\ phase = "down"
  /\ phase' = "serving"
  /\ run' = IF run = None THEN None ELSE Resumed(run)
  /\ UNCHANGED <<lock, prep, task, req>>

\* shutdown(): admission is closed under the lock.
ShutdownBegins ==
  /\ phase = "serving" /\ lock = None
  /\ phase' = IF Active THEN "drain" ELSE "resume"
  /\ UNCHANGED <<run, lock, prep, task, req>>

\* _bounded_drain: the task ends in time, or is cancelled and awaited.  One that waits
\* for the lock in its finally clause ends at once.
Drain ==
  /\ phase = "drain"
  /\ IF Active
     THEN /\ phase' = "cancel"
          /\ task' = [task EXCEPT ![prep] =
               TaskAt(IF task[prep].pc \in {"finally", "finally_failed"} THEN "none"
                      ELSE "finally")]
     ELSE phase' = "resume" /\ UNCHANGED task
  /\ UNCHANGED <<run, lock, prep, req>>

Cancelled ==
  /\ phase = "cancel" /\ ~Active
  /\ phase' = "resume"
  /\ UNCHANGED <<run, lock, prep, task, req>>

\* What was interrupted is marked; the database may refuse.
ShutdownResumes ==
  /\ phase = "resume"
  /\ \/ /\ run' = IF run = None THEN None ELSE Resumed(run)
        /\ phase' = "close"
     \/ phase' = "close_failed" /\ UNCHANGED run
  /\ UNCHANGED <<lock, prep, task, req>>

\* The database is closed and the lifecycle reset.
ShutdownEnds ==
  /\ phase \in {"close", "close_failed"} /\ lock = None
  /\ phase' = IF phase = "close" THEN "stopped" ELSE "stopped_failed"
  /\ prep' = None
  /\ UNCHANGED <<run, lock, task, req>>

Shutdown == Drain \/ Cancelled \/ ShutdownResumes \/ ShutdownEnds

\* The process exits, or is killed: only the run remains.
Dies ==
  /\ Running
  /\ phase' = "down" /\ lock' = None /\ prep' = None
  /\ task' = [t \in Tasks |-> NoTask]
  /\ req' = [r \in Requests |-> IF req[r].pc \in {"idle", "answered"} THEN req[r]
                                ELSE [pc |-> "answered", answer |-> ErrorAnswer]]
  /\ UNCHANGED run

\* What the process does by itself, and at its end.
Serve ==
  \/ \E r \in Requests : Handle(r) \/ StartFails(r)
  \/ \E t \in Tasks : Prepare(t) \/ PrepareFails(t)
  \/ Startup \/ Dies

Init ==
  /\ run = None
  /\ phase = "down" /\ lock = None /\ prep = None
  /\ task = [t \in Tasks |-> NoTask]
  /\ req = [r \in Requests |-> NoRequest]

Next ==
  \/ Serve \/ ShutdownBegins \/ Shutdown
  \/ \E r \in Requests : (\E pc \in {"lock", "read"} : Arrive(r, pc)) \/ Leave(r)

Spec == Init /\ [][Next]_vars

\* Coroutines are scheduled, every call an adapter makes has a timeout, and the
\* waiters of an asyncio.Lock are served in order.
SidecarFairness ==
  /\ \A r \in Requests : WF_vars(Handle(r))
  /\ \A t \in Tasks : WF_vars(Prepare(t)) /\ SF_vars(Finally(t))
  /\ WF_vars(Shutdown) /\ SF_vars(ShutdownEnds)

FairSpec == Spec /\ SidecarFairness

-----------------------------------------------------------------------------
Ans == [ok : BOOLEAN, state : RunState, gate : BOOLEAN]
Task == [pc : {"none", "failed", "resume", "next", "check", "recover", "finally",
               "finally_failed"},
         todo : SUBSET Caps, cap : Caps \cup {None}, seen : [Caps -> CapState] \cup {None},
         attempts : [Caps -> 0..MaxAttempts] \cup {None}]
Request == [pc : {"idle", "lock", "load", "start", "read", "answered"}, answer : Ans \cup {None}]

\* Every variable has its type.
TypeOK ==
  /\ run \in Run \cup {None}
  /\ phase \in {"down", "serving", "drain", "cancel", "resume", "close", "close_failed",
                "stopped", "stopped_failed"}
  /\ lock \in Requests \cup {None}
  /\ prep \in Tasks \cup {None}
  /\ task \in [Tasks -> Task]
  /\ req \in [Requests -> Request]

\* However requests, a failing preparation and the shutdown interleave, two
\* preparations never run at once.
OnePreparation == \A t, u \in Tasks : ~Ended(task[t].pc) /\ ~Ended(task[u].pc) => t = u

\* A capability is persisted as being checked only while it is: by the task, or
\* until a failed task has been recovered.
CheckingIsDriven ==
  phase = "serving" /\ run # None =>
    \A c \in Caps : run.cap[c] = "checking" =>
      \E t \in Tasks : \/ task[t].pc = "check" /\ task[t].cap = c
                       \/ task[t].pc \in {"recover", "finally_failed", "failed"}

\* "persists in-flight checks as resumable": a clean shutdown leaves no check behind,
\* and nothing runs that could write one.
StoppedIsResumable ==
  phase = "stopped" =>
    /\ run # None => \A c \in Caps : run.cap[c] # "checking"
    /\ \A t \in Tasks : Ended(task[t].pc)

\* Of the preparation there is one, it answers for each check, and a clean stop ends both
\* (lifecycle.py:99-215).
PreparationIsOwned == OnePreparation /\ CheckingIsDriven /\ StoppedIsResumable

\* The persisted aggregate, which clients poll on, never contradicts the capabilities:
\* it is their aggregate, or the run is new, or recovering with work left to do.
StateIsAggregate ==
  run # None =>
    \/ run.state = Aggregate(run.cap)
    \/ run.state = "pending" /\ \A c \in Caps : run.cap[c] = "pending"
    \/ /\ run.state = "recovering"
       /\ \A c \in Caps : run.cap[c] # "checking"
       /\ \E c \in Caps : run.cap[c] = "pending"

\* What a step of the run keeps: capabilities that are ready, and attempts.
KeepsProgress ==
  run # None => /\ run' # None
                /\ \A c \in Caps : /\ run.cap[c] = "ready" => run'.cap[c] = "ready"
                                    /\ run'.attempts[c] \geq run.attempts[c]

\* "completed checks remain ready" over restarts, failures and new preparations, and no
\* attempt is forgotten.
ProgressIsKept == [][KeepsProgress]_run

\* A preparation ends, and a shutdown is never blocked by it or by a request.
PreparationEnds == Active ~> ~Active
ShutdownCompletes ==
  phase \in {"drain", "resume"} ~> phase \in {"stopped", "stopped_failed", "down"}

\* Both, whatever requests, adapters and the database do meanwhile (lifecycle.py:99-215).
LifecycleSettles == PreparationEnds /\ ShutdownCompletes
=============================================================================
