-------------------------- MODULE ReadinessProofs ---------------------------
(***************************************************************************)
(* Proofs about the readiness of the sidecar and of the app: first of the  *)
(* lifecycle, for any capabilities, requests and tasks, and then of the    *)
(* hook composed with it, for any number of retries.                       *)
(***************************************************************************)
EXTENDS ReadinessGate, TLAPS

NoChecking(r) == \A c \in Caps : r.cap[c] # "checking"

\* StateIsAggregate of any run.
Matches(r) ==
  \/ r.state = Aggregate(r.cap)
  \/ r.state = "pending" /\ \A c \in Caps : r.cap[c] = "pending"
  \/ r.state = "recovering" /\ NoChecking(r) /\ \E c \in Caps : r.cap[c] = "pending"

\* What a task in the loop of prepare() knows of the run.
RowOK(row, r) ==
  /\ row.pc \in {"next", "check"} =>
       /\ row.seen = r.cap /\ row.attempts = r.attempts
       /\ \A c \in row.todo : r.cap[c] # "ready"
  /\ row.pc = "next" => NoChecking(r)
  /\ row.pc = "check" => /\ row.cap \in Caps /\ r.cap[row.cap] = "checking"
                         /\ \A d \in Caps \ {row.cap} : r.cap[d] # "checking"

\* A task that runs is the one the lifecycle knows, and the only writer of the run:
\* what it has seen of it is still true.
TaskOK ==
  \A t \in Tasks : ~Ended(task[t].pc) =>
    /\ prep = t /\ run # None /\ phase \in {"serving", "drain", "cancel"}
    /\ RowOK(task[t], run)

\* The lock belongs to the request that starts a preparation, while the process
\* serves; when it is about to spawn a task, none runs.
LockOK ==
  /\ \A r \in Requests : req[r].pc \in {"load", "start"} => lock = r
  /\ lock # None => phase = "serving"
  /\ \A r \in Requests : req[r].pc = "load" => run # None
  /\ \A r \in Requests : req[r].pc = "start" => \A t \in Tasks : Ended(task[t].pc)

RunOK == run # None => Matches(run)

\* A shutdown that has marked the interrupted checks stays clean.
Clean == phase \in {"close", "stopped"} /\ run # None => NoChecking(run)

IInv == TypeOK /\ TaskOK /\ LockOK /\ RunOK /\ CheckingIsDriven /\ Clean

-----------------------------------------------------------------------------
\* The aggregate of any capabilities is a state of a run: some state of the
\* precedence is the first that a capability has.
LEMMA AggregateTyped ==
  ASSUME NEW cap \in [Caps -> CapState]
  PROVE  Aggregate(cap) \in RunState
<1> DEFINE First(i) == /\ \E c \in Caps : cap[c] = Precedence[i]
                       /\ \A j \in 1..(i - 1), c \in Caps : cap[c] # Precedence[j]
           Has(s) == \E c \in Caps : cap[c] = s
<1>1. PICK c \in Caps : cap[c] \in CapState
  BY SizesArePositive DEF Caps
<1>2. \E i \in 1..6 : First(i)
  <2>1. CASE Has("failed")
    <3>1. First(1) BY <2>1 DEF Precedence
    <3> QED BY <3>1
  <2>2. CASE ~Has("failed") /\ Has("action_required")
    <3>1. First(2) BY <2>2 DEF Precedence
    <3> QED BY <3>1
  <2>3. CASE ~Has("failed") /\ ~Has("action_required") /\ Has("degraded")
    <3>1. First(3) BY <2>3 DEF Precedence
    <3> QED BY <3>1
  <2>4. CASE ~Has("failed") /\ ~Has("action_required") /\ ~Has("degraded") /\ Has("checking")
    <3>1. First(4) BY <2>4 DEF Precedence
    <3> QED BY <3>1
  <2>5. CASE /\ ~Has("failed") /\ ~Has("action_required") /\ ~Has("degraded")
             /\ ~Has("checking") /\ Has("pending")
    <3>1. First(5) BY <2>5 DEF Precedence
    <3> QED BY <3>1
  <2>6. CASE /\ ~Has("failed") /\ ~Has("action_required") /\ ~Has("degraded")
             /\ ~Has("checking") /\ ~Has("pending")
    <3>1. Has("ready") BY <1>1, <2>6 DEF CapState
    <3>2. First(6) BY <2>6, <3>1 DEF Precedence
    <3> QED BY <3>2
  <2> QED BY <2>1, <2>2, <2>3, <2>4, <2>5, <2>6
<1>3. (CHOOSE i \in 1..6 : First(i)) \in 1..6
  BY <1>2
<1>4. \A i \in 1..6 : Precedence[i] \in RunState
  BY DEF Precedence, RunState
<1> QED BY <1>3, <1>4 DEF Aggregate, RunState

\* A new run, with nothing checked.
LEMMA FreshFacts == Fresh \in Run /\ Matches(Fresh) /\ NoChecking(Fresh)
BY SizesArePositive DEF Fresh, Run, RunState, CapState, Matches, NoChecking

\* A resumed run has no check in flight, keeps what was ready and every attempt.
LEMMA ResumedFacts ==
  ASSUME NEW r \in Run, Matches(r)
  PROVE  /\ Resumed(r) \in Run /\ NoChecking(Resumed(r)) /\ Matches(Resumed(r))
         /\ \A c \in Caps : r.cap[c] = "ready" => Resumed(r).cap[c] = "ready"
         /\ Resumed(r).attempts = r.attempts
<1>1. CASE \E c \in Caps : r.cap[c] = "checking"
  <2>1. PICK k \in Caps : r.cap[k] = "checking" BY <1>1
  <2>2. r.cap \in [Caps -> CapState] /\ r.attempts \in [Caps -> 0..MaxAttempts]
    BY DEF Run
  <2>3. Interrupted(r.cap) \in [Caps -> CapState]
    BY <2>2 DEF Interrupted, CapState
  <2>4. /\ \A c \in Caps : Interrupted(r.cap)[c] # "checking"
        /\ \A c \in Caps : r.cap[c] = "ready" => Interrupted(r.cap)[c] = "ready"
        /\ Interrupted(r.cap)[k] = "pending"
    BY <2>1 DEF Interrupted
  <2>5. Resumed(r) = [state |-> "recovering", cap |-> Interrupted(r.cap), attempts |-> r.attempts]
    BY <1>1 DEF Resumed
  <2> HIDE DEF Interrupted
  <2>6. Resumed(r) \in Run BY <2>2, <2>3, <2>5 DEF Run, RunState
  <2>7. NoChecking(Resumed(r)) BY <2>4, <2>5 DEF NoChecking
  <2>8. Matches(Resumed(r)) BY <2>1, <2>4, <2>5, <2>7 DEF Matches
  <2> QED BY <2>4, <2>5, <2>6, <2>7, <2>8
<1>2. CASE \A c \in Caps : r.cap[c] # "checking"
  <2>1. Resumed(r) = r BY <1>2 DEF Resumed
  <2> QED BY <1>2, <2>1 DEF NoChecking
<1> QED BY <1>1, <1>2

\* What start_or_resume and prepare() begin with: a new run, or the resumed one.
LEMMA BegunFacts ==
  ASSUME NEW r \in Run \cup {None}, r # None => Matches(r),
         NEW q, q = IF r = None THEN Fresh ELSE Resumed(r)
  PROVE  q \in Run /\ NoChecking(q) /\ Matches(q)
<1>1. CASE r = None BY <1>1, FreshFacts
<1>2. CASE r # None
  <2>1. r \in Run BY <1>2
  <2>2. q = Resumed(r) BY <1>2
  <2> QED BY <1>2, <2>1, <2>2, ResumedFacts
<1> QED BY <1>1, <1>2

\* What one update of a capability leaves in the run.
LEMMA UpdatedFacts ==
  ASSUME NEW r \in Run, NEW c \in Caps, NEW s \in CapState, NEW n \in 0..MaxAttempts,
         NEW q, q = Updated(r, r.cap, c, s, n)
  PROVE  /\ q \in Run /\ Matches(q)
         /\ \A d \in Caps : /\ q.cap[d] = IF d = c THEN s ELSE r.cap[d]
                            /\ q.attempts[d] = IF d = c THEN n ELSE r.attempts[d]
<1> DEFINE cap == [r.cap EXCEPT ![c] = s]
           att == [r.attempts EXCEPT ![c] = n]
<1>1. r.cap \in [Caps -> CapState] /\ r.attempts \in [Caps -> 0..MaxAttempts]
  BY DEF Run
<1>2. cap \in [Caps -> CapState] /\ att \in [Caps -> 0..MaxAttempts]
  BY <1>1
<1>3. q = [state |-> Aggregate(cap), cap |-> cap, attempts |-> att]
  BY DEF Updated
<1>4. \A d \in Caps : /\ cap[d] = IF d = c THEN s ELSE r.cap[d]
                      /\ att[d] = IF d = c THEN n ELSE r.attempts[d]
  BY <1>1
<1> HIDE DEF cap, att
<1>5. Aggregate(cap) \in RunState BY <1>2, AggregateTyped
<1>6. q \in Run
  BY <1>2, <1>3, <1>5 DEF Run
<1>7. Matches(q)
  BY <1>3 DEF Matches
<1> QED BY <1>3, <1>4, <1>6, <1>7

\* Answers, requests and task rows have their types.
LEMMA AnswersTyped ==
  /\ ErrorAnswer \in Ans
  /\ \A r \in Run \cup {None} : Snapshot(r) \in Ans
<1>1. ErrorAnswer \in Ans BY DEF ErrorAnswer, Ans, RunState
<1>2. ASSUME NEW r \in Run PROVE Snapshot(r) \in Ans
  <2>1. r # None BY NoneIsNoRun
  <2>2. r.state \in RunState BY DEF Run
  <2>3. Snapshot(r) = [ok |-> TRUE, state |-> r.state, gate |-> GateOpen(r.cap)]
    BY <2>1 DEF Snapshot
  <2>4. GateOpen(r.cap) \in BOOLEAN BY DEF GateOpen
  <2> QED BY <2>2, <2>3, <2>4 DEF Ans
<1>3. Snapshot(None) \in Ans BY DEF Snapshot, Ans, RunState
<1> QED BY <1>1, <1>2, <1>3

\* Task rows have their type, and the pc they were made for.
LEMMA RowsTyped ==
  /\ \A pc \in {"none", "failed", "resume", "recover", "finally", "finally_failed"} :
       TaskAt(pc) \in Task /\ TaskAt(pc).pc = pc
  /\ NoTask \in Task /\ NoTask.pc = "none"
BY DEF TaskAt, NoTask, Task

-----------------------------------------------------------------------------

\* The invariant holds of a process that has not started.
LEMMA InitOK == Init => IInv
<1> SUFFICES ASSUME Init PROVE IInv OBVIOUS
<1>1. TypeOK
  BY RowsTyped DEF Init, TypeOK, NoRequest, Request
<1>2. TaskOK /\ RunOK /\ CheckingIsDriven /\ Clean
  BY RowsTyped DEF Init, TaskOK, Ended, RunOK, CheckingIsDriven, Clean
<1>3. LockOK
  BY DEF Init, LockOK, NoRequest
<1> QED BY <1>1, <1>2, <1>3 DEF IInv

\* A step of a request that leaves the run and the tasks alone.
LEMMA RequestStep ==
  ASSUME IInv, UNCHANGED <<run, phase, prep, task>>,
         req' \in [Requests -> Request], lock' \in Requests \cup {None}, LockOK'
  PROVE  IInv'
<1>1. TypeOK' BY DEF IInv, TypeOK
<1>2. TaskOK' BY DEF IInv, TaskOK
<1>3. RunOK' /\ CheckingIsDriven' /\ Clean'
  BY DEF IInv, RunOK, CheckingIsDriven, Clean
<1> QED BY <1>1, <1>2, <1>3 DEF IInv

\* A step of the running task t that leaves it running: it is the only one that
\* runs, and nothing but the run changes with it.
LEMMA TaskStep ==
  ASSUME IInv, NEW t \in Tasks, NEW row \in Task,
         ~Ended(task[t].pc), ~Ended(row.pc), task' = [task EXCEPT ![t] = row],
         UNCHANGED shared, run' \in Run, Matches(run'), RowOK(row, run'),
         \A c \in Caps : run'.cap[c] = "checking" =>
           (row.pc = "check" /\ row.cap = c) \/ row.pc \in {"recover", "finally_failed"}
  PROVE  IInv'
<1>1. run' # None BY NoneIsNoRun
<1>2. /\ task \in [Tasks -> Task] /\ task'[t] = row
      /\ \A u \in Tasks \ {t} : task'[u] = task[u]
  BY DEF IInv, TypeOK
<1>3. /\ prep = t /\ phase \in {"serving", "drain", "cancel"}
      /\ \A u \in Tasks : ~Ended(task[u].pc) => u = t
  BY DEF IInv, TaskOK
<1>4. TypeOK'
  BY <1>2 DEF IInv, TypeOK, shared
<1>5. TaskOK'
  BY <1>1, <1>2, <1>3 DEF TaskOK, shared
<1>6. LockOK'
  BY <1>1, <1>2, <1>3 DEF IInv, LockOK, shared
<1>7. CheckingIsDriven'
  BY <1>2 DEF CheckingIsDriven
<1>8. RunOK' /\ Clean'
  BY <1>1, <1>3 DEF RunOK, Clean, shared
<1> QED BY <1>4, <1>5, <1>6, <1>7, <1>8 DEF IInv

-----------------------------------------------------------------------------
\* Requests.

\* A request arrives.
LEMMA ArriveOK == ASSUME IInv, NEW r \in Requests, NEW pc \in {"lock", "read"}, Arrive(r, pc)
                  PROVE  IInv'
<1> DEFINE row == [pc |-> pc, answer |-> None]
<1>1. row \in Request BY DEF Request
<1>2. req' = [req EXCEPT ![r] = row] /\ req \in [Requests -> Request]
  BY DEF Arrive, IInv, TypeOK
<1>3. req' \in [Requests -> Request] BY <1>1, <1>2
<1>4. LockOK' BY <1>2 DEF Arrive, IInv, LockOK
<1> QED BY <1>3, <1>4, RequestStep DEF Arrive, IInv, TypeOK

\* A client takes its answer.
LEMMA LeaveOK == ASSUME IInv, NEW r \in Requests, Leave(r) PROVE IInv'
<1>1. NoRequest \in Request /\ NoRequest.pc = "idle" BY DEF NoRequest, Request
<1>2. req' = [req EXCEPT ![r] = NoRequest] /\ req \in [Requests -> Request]
  BY DEF Leave, IInv, TypeOK
<1>3. req' \in [Requests -> Request] BY <1>1, <1>2
<1>4. LockOK' BY <1>1, <1>2 DEF Leave, IInv, LockOK
<1> QED BY <1>3, <1>4, RequestStep DEF Leave, IInv, TypeOK

\* An answer ends the request: whoever held the lock for it may have given it back.
LEMMA AnswerStep ==
  ASSUME IInv, NEW r \in Requests, NEW a \in Ans, Answer(r, a),
         UNCHANGED <<run, phase, prep, task>>,
         lock' = lock \/ (lock' = None /\ lock = r)
  PROVE  IInv'
<1> DEFINE row == [pc |-> "answered", answer |-> a]
<1>1. row \in Request BY DEF Request
<1>2. req' = [req EXCEPT ![r] = row] /\ req \in [Requests -> Request]
  BY DEF Answer, IInv, TypeOK
<1>3. req' \in [Requests -> Request] BY <1>1, <1>2
<1>4. LockOK' BY <1>2 DEF IInv, LockOK
<1>5. lock' \in Requests \cup {None} BY DEF IInv, TypeOK
<1> QED BY <1>3, <1>4, <1>5, RequestStep

\* The lock is taken by one request, and tells apart whether a preparation is active.
LEMMA EnterOK == ASSUME IInv, NEW r \in Requests, Enter(r) PROVE IInv'
<1>1. CASE ~Accepting
  <2>1. /\ Answer(r, ErrorAnswer) /\ UNCHANGED <<run, phase, prep, task>>
        /\ lock' = lock \/ (lock' = None /\ lock = r)
    BY <1>1 DEF Enter
  <2> QED BY <2>1, AnswersTyped, AnswerStep
<1>2. CASE Accepting
  <2> DEFINE pc == IF Active THEN "load" ELSE "start"
             row == [pc |-> pc, answer |-> req[r].answer]
  <2>1. /\ req \in [Requests -> Request] /\ req' = [req EXCEPT ![r].pc = pc]
        /\ lock = None /\ lock' = r /\ UNCHANGED <<run, phase, prep, task>>
    BY <1>2 DEF Enter, IInv, TypeOK
  <2>2. /\ req' \in [Requests -> Request] /\ req'[r].pc = pc
        /\ \A q \in Requests \ {r} : req'[q] = req[q]
    <3>1. pc \in {"load", "start"} OBVIOUS
    <3> QED BY <2>1, <3>1 DEF Request
  <2>3. \A q \in Requests : req[q].pc \notin {"load", "start"}
    BY <2>1, NoneIsNone DEF IInv, LockOK
  <2>4. Active => run # None
    BY DEF IInv, TypeOK, TaskOK, Active
  <2>5. ~Active => \A t \in Tasks : Ended(task[t].pc)
    BY NoneIsNone DEF IInv, TaskOK, Active
  <2>6. LockOK'
    BY <1>2, <2>1, <2>2, <2>3, <2>4, <2>5 DEF LockOK, Accepting
  <2> QED BY <2>1, <2>2, <2>6, RequestStep
<1> QED BY <1>1, <1>2

\* The run of the active preparation is there to be answered with.
LEMMA LoadCurrentOK == ASSUME IInv, NEW r \in Requests, LoadCurrent(r) PROVE IInv'
<1>1. run # None /\ lock = r
  BY DEF LoadCurrent, IInv, LockOK
<1>2. Snapshot(run) \in Ans
  BY AnswersTyped DEF IInv, TypeOK
<1> QED BY <1>1, <1>2, AnswerStep DEF LoadCurrent

\* A failed request gives the lock back.
LEMMA StartFailsOK == ASSUME IInv, NEW r \in Requests, StartFails(r) PROVE IInv'
<1>1. lock = r BY DEF StartFails, IInv, LockOK
<1> QED BY <1>1, AnswersTyped, AnswerStep DEF StartFails

\* Reading changes nothing.
LEMMA ReadOK == ASSUME IInv, NEW r \in Requests, Read(r) PROVE IInv'
<1>1. Snapshot(run) \in Ans
  BY AnswersTyped DEF IInv, TypeOK
<1>2. /\ Answer(r, Snapshot(run)) /\ UNCHANGED <<run, phase, prep, task>>
      /\ lock' = lock \/ (lock' = None /\ lock = r)
  BY DEF Read
<1> QED BY <1>1, <1>2, AnswerStep

\* A preparation is spawned when none runs, with no check in flight.
LEMMA StartOK == ASSUME IInv, NEW r \in Requests, Start(r) PROVE IInv'
<1>1. /\ lock = r /\ phase = "serving" /\ \A u \in Tasks : Ended(task[u].pc)
  BY NoneIsNone DEF Start, IInv, LockOK
<1>2. run' \in Run /\ NoChecking(run') /\ Matches(run')
  BY BegunFacts DEF Start, IInv, TypeOK, RunOK
<1>3. run' # None BY <1>2, NoneIsNoRun
<1>4. PICK t \in Tasks :
        /\ prep' = t
        /\ task' = [u \in Tasks |-> IF u = t THEN TaskAt("resume")
                                   ELSE IF Ended(task[u].pc) THEN NoTask ELSE task[u]]
  BY DEF Start
<1>5. task' = [u \in Tasks |-> IF u = t THEN TaskAt("resume") ELSE NoTask]
  BY <1>1, <1>4
<1>6. /\ task' \in [Tasks -> Task] /\ task'[t] = TaskAt("resume")
      /\ \A u \in Tasks \ {t} : task'[u].pc = "none"
  BY <1>5, RowsTyped
<1>7. /\ req' \in [Requests -> Request] /\ req'[r].pc = "answered"
      /\ \A q \in Requests \ {r} : req'[q] = req[q]
  <2> DEFINE row == [pc |-> "answered", answer |-> Snapshot(run')]
  <2>1. row \in Request BY <1>2, AnswersTyped DEF Request
  <2>2. req' = [req EXCEPT ![r] = row] /\ req \in [Requests -> Request]
    BY DEF Start, Answer, IInv, TypeOK
  <2> QED BY <2>1, <2>2
<1>8. phase' = phase /\ lock' = None
  BY DEF Start
<1>9. TypeOK'
  BY <1>2, <1>4, <1>6, <1>7, <1>8 DEF IInv, TypeOK
<1>10. TaskOK'
  <2>1. RowOK(TaskAt("resume"), run') BY RowsTyped DEF RowOK
  <2> QED BY <1>1, <1>3, <1>4, <1>6, <1>8, <2>1 DEF TaskOK, Ended
<1>11. LockOK'
  BY <1>1, <1>7, <1>8 DEF IInv, LockOK
<1>12. RunOK' /\ CheckingIsDriven' /\ Clean'
  BY <1>1, <1>2, <1>8 DEF RunOK, CheckingIsDriven, Clean, NoChecking
<1> QED BY <1>9, <1>10, <1>11, <1>12 DEF IInv

-----------------------------------------------------------------------------
\* The preparation task.

\* What a running task may rely on.
LEMMA RunningTask ==
  ASSUME IInv, NEW t \in Tasks, ~Ended(task[t].pc)
  PROVE  /\ run \in Run /\ Matches(run) /\ RowOK(task[t], run) /\ task[t] \in Task
         /\ prep = t /\ phase \in {"serving", "drain", "cancel"}
         /\ \A u \in Tasks : ~Ended(task[u].pc) => u = t
BY DEF IInv, TypeOK, TaskOK, RunOK

\* Where the loop goes on is a place of the task.
LEMMA NextPcFacts ==
  ASSUME NEW todo
  PROVE  NextPc(todo) \in {"next", "finally"} /\ ~Ended(NextPc(todo))
BY DEF NextPc, Ended

\* prepare() begins with no check in flight, and skips what is ready.
LEMMA PrepareResumeOK == ASSUME IInv, NEW t \in Tasks, PrepareResume(t) PROVE IInv'
<1>1. ~Ended(task[t].pc) BY DEF PrepareResume, Ended
<1>2. run' \in Run /\ NoChecking(run') /\ Matches(run')
  BY BegunFacts DEF PrepareResume, IInv, TypeOK, RunOK
<1>3. /\ run'.cap \in [Caps -> CapState]
      /\ run'.attempts \in [Caps -> 0..MaxAttempts]
  BY <1>2 DEF Run
<1> DEFINE todo == Todo(run'.cap)
           row == [pc |-> NextPc(todo), todo |-> todo, cap |-> None,
                   seen |-> run'.cap, attempts |-> run'.attempts]
<1>4. todo \in SUBSET Caps /\ \A c \in todo : run'.cap[c] # "ready"
  BY DEF Todo
<1>5. task' = [task EXCEPT ![t] = row] /\ UNCHANGED shared
  BY DEF PrepareResume
<1> HIDE DEF todo
<1>6. row \in Task BY <1>3, <1>4, NextPcFacts DEF Task
<1>7. RowOK(row, run') BY <1>2, <1>4, NextPcFacts DEF RowOK
<1>8. ~Ended(row.pc) BY NextPcFacts
<1>9. \A c \in Caps : run'.cap[c] # "checking" BY <1>2 DEF NoChecking
<1> HIDE DEF row
<1> QED BY <1>1, <1>2, <1>5, <1>6, <1>7, <1>8, <1>9, TaskStep

\* The capability marked is the only one being checked, and the task knows it.
LEMMA MarkCheckingOK == ASSUME IInv, NEW t \in Tasks, MarkChecking(t) PROVE IInv'
<1>1. task[t].pc = "next" /\ ~Ended(task[t].pc) BY DEF MarkChecking, Ended
<1>2. /\ run \in Run /\ task[t] \in Task /\ RowOK(task[t], run)
  BY <1>1, RunningTask
<1>3. /\ task[t].seen = run.cap /\ task[t].attempts = run.attempts
      /\ NoChecking(run) /\ task[t].todo \in SUBSET Caps
      /\ \A c \in task[t].todo : run.cap[c] # "ready"
  BY <1>1, <1>2 DEF RowOK, Task
<1>4. PICK c \in task[t].todo :
        /\ run' = Updated(run, task[t].seen, c, "checking", CountedUp(task[t].attempts[c]))
        /\ task' = [task EXCEPT ![t] = [pc |-> "check", todo |-> task[t].todo, cap |-> c,
                                       seen |-> run'.cap, attempts |-> run'.attempts]]
  BY DEF MarkChecking
<1>5. c \in Caps BY <1>3
<1>6. run.cap \in [Caps -> CapState] /\ run.attempts \in [Caps -> 0..MaxAttempts]
  BY <1>2 DEF Run
<1> DEFINE n == CountedUp(run.attempts[c])
<1>7. n \in 0..MaxAttempts
  BY <1>5, <1>6, SizesArePositive DEF CountedUp
<1>8. run' = Updated(run, run.cap, c, "checking", n)
  BY <1>3, <1>4
<1> HIDE DEF n
<1>9. /\ run' \in Run /\ Matches(run')
      /\ \A d \in Caps : run'.cap[d] = IF d = c THEN "checking" ELSE run.cap[d]
  <2>1. "checking" \in CapState BY DEF CapState
  <2>2. run \in Run BY <1>2
  <2> QED BY <1>5, <1>7, <1>8, <2>1, <2>2, UpdatedFacts
<1>10. /\ run'.cap \in [Caps -> CapState] /\ run'.attempts \in [Caps -> 0..MaxAttempts]
  BY <1>9 DEF Run
<1>11. /\ run'.cap[c] = "checking"
       /\ \A d \in Caps \ {c} : run'.cap[d] = run.cap[d] /\ run'.cap[d] # "checking"
       /\ \A d \in task[t].todo : run'.cap[d] # "ready"
  BY <1>3, <1>5, <1>6, <1>9 DEF NoChecking
<1> DEFINE row == [pc |-> "check", todo |-> task[t].todo, cap |-> c,
                   seen |-> run'.cap, attempts |-> run'.attempts]
<1>12. row \in Task BY <1>3, <1>5, <1>10 DEF Task
<1>13. RowOK(row, run') BY <1>5, <1>11 DEF RowOK
<1>14. ~Ended(row.pc) BY DEF Ended
<1>15. task' = [task EXCEPT ![t] = row] /\ UNCHANGED shared
  BY <1>4 DEF MarkChecking
<1>16. \A d \in Caps : run'.cap[d] = "checking" => row.pc = "check" /\ row.cap = d
  BY <1>11
<1> HIDE DEF row
<1> QED BY <1>1, <1>9, <1>12, <1>13, <1>14, <1>15, <1>16, TaskStep

\* After an outcome nothing is being checked.
LEMMA RecordOK ==
  ASSUME IInv, NEW t \in Tasks, NEW o \in Outcomes, Record(t, o)
  PROVE  IInv'
<1>1. task[t].pc = "check" /\ ~Ended(task[t].pc) BY DEF Record, Ended
<1>2. /\ run \in Run /\ task[t] \in Task /\ RowOK(task[t], run)
  BY <1>1, RunningTask
<1> DEFINE c == task[t].cap
           todo == task[t].todo \ {c}
           n == run.attempts[c]
<1>3. /\ task[t].seen = run.cap /\ task[t].attempts = run.attempts
      /\ c \in Caps /\ todo \in SUBSET Caps
      /\ \A d \in todo : run.cap[d] # "ready" /\ d # c
      /\ \A d \in Caps \ {c} : run.cap[d] # "checking"
  BY <1>1, <1>2 DEF RowOK, Task
<1>4. run.cap \in [Caps -> CapState] /\ run.attempts \in [Caps -> 0..MaxAttempts]
  BY <1>2 DEF Run
<1>5. n \in 0..MaxAttempts /\ o \in CapState /\ o # "checking"
  BY <1>3, <1>4 DEF Outcomes, CapState
<1> DEFINE row == [pc |-> NextPc(todo), todo |-> todo, cap |-> None,
                   seen |-> run'.cap, attempts |-> run'.attempts]
<1>6. /\ run' = Updated(run, run.cap, c, o, n)
      /\ task' = [task EXCEPT ![t] = row] /\ UNCHANGED shared
  BY <1>3 DEF Record
<1> HIDE DEF n, c, todo
<1>7. /\ run' \in Run /\ Matches(run')
      /\ \A d \in Caps : run'.cap[d] = IF d = c THEN o ELSE run.cap[d]
  BY <1>2, <1>3, <1>5, <1>6, UpdatedFacts
<1>8. run'.cap \in [Caps -> CapState] /\ run'.attempts \in [Caps -> 0..MaxAttempts]
  BY <1>7 DEF Run
<1>9. /\ \A d \in Caps : run'.cap[d] # "checking"
      /\ \A d \in todo : run'.cap[d] # "ready"
  BY <1>3, <1>4, <1>5, <1>7
<1>10. row \in Task BY <1>3, <1>8, NextPcFacts DEF Task
<1>11. RowOK(row, run') BY <1>9, NextPcFacts DEF RowOK, NoChecking
<1>12. ~Ended(row.pc) BY NextPcFacts
<1> HIDE DEF row
<1> QED BY <1>1, <1>6, <1>7, <1>9, <1>10, <1>11, <1>12, TaskStep

\* A task that raises has yet to recover the check it leaves.
LEMMA PrepareFailsOK == ASSUME IInv, NEW t \in Tasks, PrepareFails(t) PROVE IInv'
<1>1. ~Ended(task[t].pc) BY DEF PrepareFails, Ended
<1>2. run \in Run /\ Matches(run) BY <1>1, RunningTask
<1> DEFINE row == TaskAt("recover")
<1>3. row \in Task /\ row.pc = "recover" BY RowsTyped
<1>4. RowOK(row, run) BY <1>3 DEF RowOK
<1>5. task' = [task EXCEPT ![t] = row] /\ run' = run /\ UNCHANGED shared
  BY DEF PrepareFails
<1> HIDE DEF row
<1> QED BY <1>1, <1>2, <1>3, <1>4, <1>5, TaskStep DEF Ended

\* The recovery marks that check, or the task fails.
LEMMA RecoverOK == ASSUME IInv, NEW t \in Tasks, Recover(t) PROVE IInv'
<1>1. ~Ended(task[t].pc) BY DEF Recover, Ended
<1>2. run \in Run /\ Matches(run) BY <1>1, RunningTask
<1>3. CASE run' = Resumed(run) /\ task' = [task EXCEPT ![t] = TaskAt("finally")]
  <2> DEFINE row == TaskAt("finally")
  <2>1. row \in Task /\ row.pc = "finally" BY RowsTyped
  <2>2. run' \in Run /\ NoChecking(run') /\ Matches(run')
    BY <1>2, <1>3, ResumedFacts
  <2>3. RowOK(row, run') BY <2>1 DEF RowOK
  <2>4. task' = [task EXCEPT ![t] = row] /\ UNCHANGED shared
    BY <1>3 DEF Recover
  <2>5. \A c \in Caps : run'.cap[c] # "checking" BY <2>2 DEF NoChecking
  <2> HIDE DEF row
  <2> QED BY <1>1, <2>1, <2>2, <2>3, <2>4, <2>5, TaskStep DEF Ended
<1>4. CASE run' = run /\ task' = [task EXCEPT ![t] = TaskAt("finally_failed")]
  <2> DEFINE row == TaskAt("finally_failed")
  <2>1. row \in Task /\ row.pc = "finally_failed" BY RowsTyped
  <2>2. RowOK(row, run) BY <2>1 DEF RowOK
  <2>3. task' = [task EXCEPT ![t] = row] /\ UNCHANGED shared
    BY <1>4 DEF Recover
  <2> HIDE DEF row
  <2> QED BY <1>1, <1>2, <1>4, <2>1, <2>2, <2>3, TaskStep DEF Ended
<1> QED BY <1>3, <1>4 DEF Recover

\* The task ends under the lock, so no request is about to spawn another.
LEMMA FinallyOK == ASSUME IInv, NEW t \in Tasks, Finally(t) PROVE IInv'
<1>1. ~Ended(task[t].pc) /\ task[t].pc \in {"finally", "finally_failed"}
  BY DEF Finally, Ended
<1>2. /\ prep = t /\ \A u \in Tasks : ~Ended(task[u].pc) => u = t
  BY <1>1, RunningTask
<1> DEFINE pc == IF task[t].pc = "finally" THEN "none" ELSE "failed"
<1>3. /\ lock = None /\ prep' = None /\ task' = [task EXCEPT ![t] = TaskAt(pc)]
      /\ UNCHANGED <<run, phase, lock, req>>
  BY <1>2 DEF Finally
<1>4. TaskAt(pc) \in Task /\ TaskAt(pc).pc = pc /\ Ended(pc)
  BY RowsTyped DEF Ended
<1>5. /\ task' \in [Tasks -> Task] /\ task'[t].pc = pc
      /\ \A u \in Tasks \ {t} : task'[u] = task[u]
  <2> HIDE DEF pc
  <2> QED BY <1>3, <1>4 DEF IInv, TypeOK
<1>6. \A u \in Tasks : Ended(task'[u].pc)
  BY <1>2, <1>4, <1>5
<1>7. TypeOK' BY <1>3, <1>5 DEF IInv, TypeOK
<1>8. TaskOK' BY <1>6 DEF TaskOK
<1>9. LockOK' BY <1>3, <1>6 DEF IInv, LockOK
<1>10. CheckingIsDriven'
  <2> SUFFICES ASSUME phase = "serving", run # None, NEW c \in Caps, run.cap[c] = "checking"
               PROVE  \E u \in Tasks : \/ task'[u].pc = "check" /\ task'[u].cap = c
                                       \/ task'[u].pc \in {"recover", "finally_failed", "failed"}
    BY <1>3 DEF CheckingIsDriven
  <2>1. PICK u \in Tasks : \/ task[u].pc = "check" /\ task[u].cap = c
                           \/ task[u].pc \in {"recover", "finally_failed", "failed"}
    BY DEF IInv, CheckingIsDriven
  <2>2. CASE u = t
    BY <1>1, <1>5, <2>1, <2>2
  <2>3. CASE u # t
    BY <1>5, <2>1, <2>3
  <2> QED BY <2>2, <2>3
<1>11. RunOK' /\ Clean' BY <1>3 DEF IInv, RunOK, Clean
<1> QED BY <1>7, <1>8, <1>9, <1>10, <1>11 DEF IInv

-----------------------------------------------------------------------------
\* The process.

\* The startup finds no task and marks what the last process left.
LEMMA StartupOK == ASSUME IInv, Startup PROVE IInv'
<1>1. /\ phase = "down" /\ phase' = "serving" /\ UNCHANGED <<lock, prep, task, req>>
  BY DEF Startup
<1>2. /\ run' \in Run \cup {None}
      /\ run' # None => NoChecking(run') /\ Matches(run')
  <2>1. CASE run = None BY <2>1 DEF Startup
  <2>2. CASE run # None
    <3>1. run \in Run /\ Matches(run) BY <2>2 DEF IInv, TypeOK, RunOK
    <3>2. run' = Resumed(run) BY <2>2 DEF Startup
    <3> QED BY <3>1, <3>2, ResumedFacts
  <2> QED BY <2>1, <2>2
<1>3. \A t \in Tasks : Ended(task[t].pc)
  BY <1>1 DEF IInv, TaskOK
<1>4. lock = None /\ \A r \in Requests : req[r].pc \notin {"load", "start"}
  BY <1>1, NoneIsNone DEF IInv, LockOK
<1>5. TypeOK' BY <1>1, <1>2 DEF IInv, TypeOK
<1>6. TaskOK' BY <1>1, <1>3 DEF TaskOK
<1>7. LockOK' BY <1>1, <1>4 DEF LockOK
<1>8. RunOK' /\ CheckingIsDriven' /\ Clean'
  BY <1>1, <1>2 DEF RunOK, CheckingIsDriven, Clean, NoChecking
<1> QED BY <1>5, <1>6, <1>7, <1>8 DEF IInv

\* A running preparation is the active one.
LEMMA RunningIsActive ==
  ASSUME IInv, ~Active
  PROVE  \A t \in Tasks : Ended(task[t].pc)
BY NoneIsNone DEF IInv, TaskOK, Active

\* The shutdown drains exactly when a preparation is active.
LEMMA ShutdownBeginsOK == ASSUME IInv, ShutdownBegins PROVE IInv'
<1>1. /\ lock = None /\ phase' \in {"drain", "resume"}
      /\ UNCHANGED <<run, lock, prep, task, req>>
  BY DEF ShutdownBegins
<1>2. TypeOK' BY <1>1 DEF IInv, TypeOK
<1>3. TaskOK'
  <2>1. CASE Active
    BY <1>1, <2>1 DEF ShutdownBegins, IInv, TaskOK
  <2>2. CASE ~Active
    BY <1>1, <2>2, RunningIsActive DEF TaskOK
  <2> QED BY <2>1, <2>2
<1>4. LockOK' BY <1>1 DEF IInv, LockOK
<1>5. RunOK' /\ CheckingIsDriven' /\ Clean'
  BY <1>1 DEF IInv, RunOK, CheckingIsDriven, Clean
<1> QED BY <1>2, <1>3, <1>4, <1>5 DEF IInv

\* A cancelled task writes no more; one without a task has nothing to drain.
LEMMA DrainOK == ASSUME IInv, Drain PROVE IInv'
<1>1. phase = "drain" /\ UNCHANGED <<run, lock, prep, req>>
  BY DEF Drain
<1>2. lock = None BY <1>1 DEF IInv, LockOK
<1>3. CASE Active
  <2> DEFINE t == prep
             pc == IF task[t].pc \in {"finally", "finally_failed"} THEN "none" ELSE "finally"
  <2>1. t \in Tasks /\ ~Ended(task[t].pc) BY <1>3 DEF IInv, TypeOK, Active
  <2>2. run # None /\ \A u \in Tasks : ~Ended(task[u].pc) => u = t
    BY <2>1 DEF IInv, TaskOK
  <2>3. phase' = "cancel" /\ task' = [task EXCEPT ![t] = TaskAt(pc)]
    BY <1>3 DEF Drain
  <2>4. TaskAt(pc) \in Task /\ TaskAt(pc).pc \in {"none", "finally"} BY RowsTyped
  <2> HIDE DEF pc
  <2>5. /\ task' \in [Tasks -> Task] /\ task'[t] = TaskAt(pc)
        /\ \A u \in Tasks \ {t} : task'[u] = task[u]
    BY <2>1, <2>3, <2>4 DEF IInv, TypeOK
  <2>6. TypeOK' BY <1>1, <2>3, <2>5 DEF IInv, TypeOK
  <2>7. TaskOK'
    <3>1. RowOK(TaskAt(pc), run) BY <2>4 DEF RowOK
    <3> QED BY <1>1, <2>2, <2>3, <2>5, <3>1 DEF TaskOK
  <2>8. LockOK' BY <1>1, <1>2, <2>2, NoneIsNone DEF IInv, LockOK
  <2>9. RunOK' /\ CheckingIsDriven' /\ Clean'
    BY <1>1, <2>3 DEF IInv, RunOK, CheckingIsDriven, Clean
  <2> QED BY <2>6, <2>7, <2>8, <2>9 DEF IInv
<1>4. CASE ~Active
  <2>1. phase' = "resume" /\ task' = task BY <1>4 DEF Drain
  <2>2. TypeOK' BY <1>1, <2>1 DEF IInv, TypeOK
  <2>3. TaskOK' BY <1>4, <2>1, RunningIsActive DEF TaskOK
  <2>4. LockOK' BY <1>1, <1>2, <2>1 DEF IInv, LockOK
  <2>5. RunOK' /\ CheckingIsDriven' /\ Clean'
    BY <1>1, <2>1 DEF IInv, RunOK, CheckingIsDriven, Clean
  <2> QED BY <2>2, <2>3, <2>4, <2>5 DEF IInv
<1> QED BY <1>3, <1>4

\* A step of the shutdown with no task running.
LEMMA ShutdownStep ==
  ASSUME IInv, \A t \in Tasks : Ended(task[t].pc), UNCHANGED <<lock, task, req>>,
         phase \in {"cancel", "resume", "close", "close_failed"},
         phase' \in {"resume", "close", "close_failed", "stopped", "stopped_failed"},
         prep' \in Tasks \cup {None}, run' \in Run \cup {None}, RunOK', Clean'
  PROVE  IInv'
<1>1. lock = None /\ \A r \in Requests : req[r].pc \notin {"load", "start"}
  BY NoneIsNone DEF IInv, LockOK
<1>2. TypeOK' BY DEF IInv, TypeOK
<1>3. TaskOK' BY DEF TaskOK
<1>4. LockOK' BY <1>1 DEF LockOK
<1>5. CheckingIsDriven' BY DEF CheckingIsDriven
<1> QED BY <1>2, <1>3, <1>4, <1>5 DEF IInv

\* The cancelled task has ended.
LEMMA CancelledOK == ASSUME IInv, Cancelled PROVE IInv'
<1>1. \A t \in Tasks : Ended(task[t].pc)
  BY RunningIsActive DEF Cancelled
<1>2. /\ phase = "cancel" /\ phase' = "resume"
      /\ UNCHANGED <<lock, task, req>> /\ run' = run /\ prep' = prep
  BY DEF Cancelled
<1>3. RunOK' /\ Clean' /\ run' \in Run \cup {None} /\ prep' \in Tasks \cup {None}
  BY <1>2 DEF IInv, RunOK, Clean, TypeOK
<1> QED BY <1>1, <1>2, <1>3, ShutdownStep

\* What was interrupted is marked, or the shutdown is not clean.
LEMMA ShutdownResumesOK == ASSUME IInv, ShutdownResumes PROVE IInv'
<1>1. /\ phase = "resume" /\ phase' \in {"close", "close_failed"}
      /\ UNCHANGED <<lock, task, req>> /\ prep' = prep /\ prep' \in Tasks \cup {None}
  BY DEF ShutdownResumes, IInv, TypeOK
<1>2. \A t \in Tasks : Ended(task[t].pc)
  BY <1>1 DEF IInv, TaskOK
<1>3. RunOK' /\ Clean' /\ run' \in Run \cup {None}
  <2>1. CASE run = None
    <3>1. run' = None BY <2>1 DEF ShutdownResumes
    <3> QED BY <3>1 DEF RunOK, Clean
  <2>2. CASE run # None /\ run' = Resumed(run)
    <3>1. run \in Run /\ Matches(run) BY <2>2 DEF IInv, TypeOK, RunOK
    <3>2. run' \in Run /\ NoChecking(run') /\ Matches(run')
      BY <2>2, <3>1, ResumedFacts
    <3> QED BY <3>2 DEF RunOK, Clean
  <2>3. CASE run' = run /\ phase' = "close_failed"
    BY <2>3 DEF IInv, TypeOK, RunOK, Clean
  <2> QED BY <2>1, <2>2, <2>3 DEF ShutdownResumes
<1> QED BY <1>1, <1>2, <1>3, ShutdownStep

\* The lifecycle is reset and the run left as it is.
LEMMA ShutdownEndsOK == ASSUME IInv, ShutdownEnds PROVE IInv'
<1>1. /\ phase \in {"close", "close_failed"}
      /\ phase' = IF phase = "close" THEN "stopped" ELSE "stopped_failed"
      /\ UNCHANGED <<lock, task, req>> /\ run' = run /\ prep' = None
  BY DEF ShutdownEnds
<1>2. \A t \in Tasks : Ended(task[t].pc)
  BY <1>1 DEF IInv, TaskOK
<1>3. RunOK' /\ Clean' /\ run' \in Run \cup {None}
  BY <1>1 DEF IInv, TypeOK, RunOK, Clean
<1> QED BY <1>1, <1>2, <1>3, ShutdownStep

\* Death leaves the run alone.
LEMMA DiesOK == ASSUME IInv, Dies PROVE IInv'
<1>1. /\ phase' = "down" /\ lock' = None /\ prep' = None /\ run' = run
      /\ task' = [t \in Tasks |-> NoTask]
  BY DEF Dies
<1> DEFINE row == [pc |-> "answered", answer |-> ErrorAnswer]
<1>2. row \in Request BY AnswersTyped DEF Request
<1>3. /\ req \in [Requests -> Request]
      /\ req' = [r \in Requests |-> IF req[r].pc \in {"idle", "answered"} THEN req[r] ELSE row]
  BY DEF Dies, IInv, TypeOK
<1>4. row.pc = "answered" OBVIOUS
<1> HIDE DEF row
<1>5. /\ req' \in [Requests -> Request]
      /\ \A r \in Requests : req'[r].pc \in {"idle", "answered"}
  BY <1>2, <1>3, <1>4
<1>6. TypeOK' BY <1>1, <1>5, RowsTyped DEF IInv, TypeOK
<1>7. TaskOK' BY <1>1, RowsTyped DEF TaskOK, Ended
<1>8. LockOK' BY <1>1, <1>5 DEF LockOK
<1>9. RunOK' /\ CheckingIsDriven' /\ Clean'
  BY <1>1 DEF IInv, RunOK, CheckingIsDriven, Clean
<1> QED BY <1>6, <1>7, <1>8, <1>9 DEF IInv

-----------------------------------------------------------------------------
\* No step breaks the invariant.
LEMMA StepOK == IInv /\ [Next]_vars => IInv'
<1> SUFFICES ASSUME IInv, [Next]_vars PROVE IInv' OBVIOUS
<1>1. CASE \E r \in Requests : Handle(r) \/ StartFails(r)
  BY <1>1, EnterOK, LoadCurrentOK, StartOK, ReadOK, StartFailsOK DEF Handle
<1>2. CASE \E t \in Tasks : Prepare(t) \/ PrepareFails(t)
  BY <1>2, PrepareResumeOK, MarkCheckingOK, RecordOK, RecoverOK, FinallyOK, PrepareFailsOK
     DEF Prepare
<1>3. CASE Startup \/ Dies
  BY <1>3, StartupOK, DiesOK
<1>4. CASE ShutdownBegins \/ Shutdown
  BY <1>4, ShutdownBeginsOK, DrainOK, CancelledOK, ShutdownResumesOK, ShutdownEndsOK
     DEF Shutdown
<1>5. CASE \E r \in Requests : (\E pc \in {"lock", "read"} : Arrive(r, pc)) \/ Leave(r)
  BY <1>5, ArriveOK, LeaveOK
<1>6. CASE UNCHANGED vars
  BY <1>6 DEF vars, IInv, TypeOK, TaskOK, LockOK, RunOK, CheckingIsDriven, Clean, Matches,
     NoChecking, RowOK
<1> QED BY <1>1, <1>2, <1>3, <1>4, <1>5, <1>6 DEF Next, Serve

\* Every behaviour satisfies the inductive invariant.
THEOREM Invariance == Spec => []IInv
BY InitOK, StepOK, PTL DEF Spec

\* Every variable always has its type.
THEOREM TypeCorrect == Spec => []TypeOK
<1>1. IInv => TypeOK BY DEF IInv
<1> QED BY <1>1, Invariance, PTL

\* Two preparations never run at once.
THEOREM PreparesOnce == Spec => []OnePreparation
<1>1. IInv => OnePreparation BY DEF IInv, TaskOK, OnePreparation
<1> QED BY <1>1, Invariance, PTL

\* A capability is persisted as being checked only while it is.
THEOREM ChecksAreDriven == Spec => []CheckingIsDriven
<1>1. IInv => CheckingIsDriven BY DEF IInv
<1> QED BY <1>1, Invariance, PTL

\* After a clean shutdown nothing is being checked, and nothing runs.
THEOREM StopsResumable == Spec => []StoppedIsResumable
<1>1. IInv => StoppedIsResumable
  BY DEF IInv, TaskOK, Clean, NoChecking, StoppedIsResumable
<1> QED BY <1>1, Invariance, PTL

\* The three together: there is one preparation, it drives each check, and a stop ends both.
THEOREM PreparationOwned == Spec => []PreparationIsOwned
<1>1. OnePreparation /\ CheckingIsDriven /\ StoppedIsResumable => PreparationIsOwned
  BY DEF PreparationIsOwned
<1> QED BY <1>1, PreparesOnce, ChecksAreDriven, StopsResumable, PTL

\* The persisted state of the run never contradicts its capabilities.
THEOREM Aggregates == Spec => []StateIsAggregate
<1>1. IInv => StateIsAggregate
  BY DEF IInv, RunOK, Matches, NoChecking, StateIsAggregate
<1> QED BY <1>1, Invariance, PTL

\* What the step of a run to itself, to its resumption or to an update keeps.
Kept(r, q) ==
  /\ q # None
  /\ \A c \in Caps : /\ r.cap[c] = "ready" => q.cap[c] = "ready"
                      /\ q.attempts[c] \geq r.attempts[c]

\* A resumption keeps the progress of the run, as doing nothing does.
LEMMA ResumedKept == ASSUME NEW r \in Run, Matches(r) PROVE Kept(r, Resumed(r)) /\ Kept(r, r)
<1>1. \A c \in Caps : r.attempts[c] \in Nat BY SizesArePositive DEF Run
<1> QED BY <1>1, ResumedFacts, NoneIsNoRun DEF Kept

\* An update of a capability that is not ready keeps it too, if it counts up.
LEMMA UpdatedKept ==
  ASSUME NEW r \in Run, NEW c \in Caps, NEW s \in CapState, NEW n \in 0..MaxAttempts,
         r.cap[c] # "ready", n \geq r.attempts[c]
  PROVE  Kept(r, Updated(r, r.cap, c, s, n))
<1> DEFINE q == Updated(r, r.cap, c, s, n)
<1>1. /\ q \in Run
      /\ \A d \in Caps : /\ q.cap[d] = IF d = c THEN s ELSE r.cap[d]
                         /\ q.attempts[d] = IF d = c THEN n ELSE r.attempts[d]
  BY UpdatedFacts
<1>2. r.cap \in [Caps -> CapState] /\ r.attempts \in [Caps -> 0..MaxAttempts]
  BY DEF Run
<1> HIDE DEF q
<1>3. \A d \in Caps : r.cap[d] = "ready" => q.cap[d] = "ready"
  BY <1>1, <1>2
<1>4. \A d \in Caps : q.attempts[d] \geq r.attempts[d]
  BY <1>1, <1>2, SizesArePositive
<1>5. q # None BY <1>1, NoneIsNoRun
<1>6. Kept(r, q) BY <1>3, <1>4, <1>5 DEF Kept
<1> QED BY <1>6 DEF q

\* A step of a run keeps what the run has prepared and counted.
LEMMA StepKept == ASSUME IInv, [Next]_vars, run # None PROVE Kept(run, run')
<1>1. run \in Run /\ Matches(run) BY DEF IInv, TypeOK, RunOK
<1>2. CASE run' = run \/ run' = Resumed(run)
  BY <1>1, <1>2, ResumedKept
<1>3. ASSUME NEW t \in Tasks, MarkChecking(t) PROVE Kept(run, run')
  <2>1. task[t].pc = "next" /\ ~Ended(task[t].pc) BY <1>3 DEF MarkChecking, Ended
  <2>2. RowOK(task[t], run) /\ task[t] \in Task BY <2>1, RunningTask
  <2>3. PICK c \in task[t].todo :
          run' = Updated(run, task[t].seen, c, "checking", CountedUp(task[t].attempts[c]))
    BY <1>3 DEF MarkChecking
  <2>4. /\ task[t].seen = run.cap /\ task[t].attempts = run.attempts
        /\ c \in Caps /\ run.cap[c] # "ready"
    BY <2>1, <2>2, <2>3 DEF RowOK, Task
  <2> DEFINE n == CountedUp(run.attempts[c])
  <2>5. run.attempts[c] \in 0..MaxAttempts BY <1>1, <2>4 DEF Run
  <2>6. n \in 0..MaxAttempts /\ n \geq run.attempts[c]
    BY <2>5, SizesArePositive DEF CountedUp
  <2>7. run' = Updated(run, run.cap, c, "checking", n) BY <2>3, <2>4
  <2> HIDE DEF n
  <2> QED BY <1>1, <2>4, <2>6, <2>7, UpdatedKept DEF CapState
<1>4. ASSUME NEW t \in Tasks, NEW o \in Outcomes, Record(t, o) PROVE Kept(run, run')
  <2>1. task[t].pc = "check" /\ ~Ended(task[t].pc) BY <1>4 DEF Record, Ended
  <2>2. RowOK(task[t], run) BY <2>1, RunningTask
  <2> DEFINE c == task[t].cap
  <2>3. /\ task[t].seen = run.cap /\ task[t].attempts = run.attempts
        /\ c \in Caps /\ run.cap[c] # "ready"
    BY <2>1, <2>2 DEF RowOK
  <2>4. run.attempts[c] \in 0..MaxAttempts BY <1>1, <2>3 DEF Run
  <2>5. run' = Updated(run, run.cap, c, o, run.attempts[c]) BY <1>4, <2>3 DEF Record
  <2>6. o \in CapState BY DEF Outcomes, CapState
  <2>7. run.attempts[c] \geq run.attempts[c] BY <2>4, SizesArePositive
  <2> HIDE DEF c
  <2> QED BY <1>1, <2>3, <2>4, <2>5, <2>6, <2>7, UpdatedKept
<1>5. \/ run' = run \/ run' = Resumed(run)
      \/ \E t \in Tasks : MarkChecking(t) \/ \E o \in Outcomes : Record(t, o)
  <2>1. CASE \E r \in Requests : Handle(r) \/ StartFails(r)
    BY <2>1 DEF Handle, Enter, LoadCurrent, Start, Read, StartFails
  <2>2. CASE \E t \in Tasks : Prepare(t) \/ PrepareFails(t)
    BY <2>2 DEF Prepare, PrepareResume, Recover, Finally, PrepareFails
  <2>3. CASE Startup \/ Dies \/ ShutdownBegins \/ Shutdown
    BY <2>3 DEF Startup, Dies, ShutdownBegins, Shutdown, Drain, Cancelled,
       ShutdownResumes, ShutdownEnds
  <2>4. CASE \E r \in Requests : (\E pc \in {"lock", "read"} : Arrive(r, pc)) \/ Leave(r)
    BY <2>4 DEF Arrive, Leave
  <2>5. CASE UNCHANGED vars
    BY <2>5 DEF vars
  <2> QED BY <2>1, <2>2, <2>3, <2>4, <2>5 DEF Next, Serve
<1> QED BY <1>2, <1>3, <1>4, <1>5

\* What was ready stays ready, and no attempt is forgotten.
THEOREM Progresses == Spec => ProgressIsKept
<1>1. IInv /\ [Next]_vars => [KeepsProgress]_run
  BY StepKept DEF Kept, KeepsProgress
<1> QED BY <1>1, Invariance, PTL DEF Spec, ProgressIsKept

-----------------------------------------------------------------------------
(***************************************************************************)
(* The hook composed with the lifecycle.                                   *)
(***************************************************************************)

\* What an answer says of the gate still holds.
Holds(a) == a # None => (a.gate => run # None /\ GateOpen(run.cap))

\* So it is with every answer on its way, and with the one that is being shown.
AnswersHold == (\A r \in Requests : Holds(req[r].answer)) /\ Holds(ui.received)

GInv == IInv /\ UiTypeOK /\ OneAtATime /\ HiddenIsLocked /\ CreateOnlyWhenReady /\ AnswersHold

\* The numbers of retries that have been made.
Counts == 0..AutoRetryMax

\* The states of the hook in a window that is one of vs.
UiStates(vs) ==
  [visible : vs, active : Requests \cup {None}, received : Ans \cup {None},
   timer : {"none", "refresh", "retry"}, retries : Counts,
   requested : BOOLEAN, queued : BOOLEAN, committed : BOOLEAN,
   state : RunState, canCreate : BOOLEAN, error : {"none", "retryable", "failed_closed"},
   loading : BOOLEAN]

Shown == UiStates({TRUE})

-----------------------------------------------------------------------------
\* The first count, and the next one.
LEMMA CountFacts ==
  /\ 0 \in Counts
  /\ \A n \in Counts : n < AutoRetryMax => n + 1 \in Counts
BY RetriesAreNatural DEF Counts

\* The type of the hook, with its window.
LEMMA UiTyped ==
  /\ UiTypeOK <=> ui \in UiStates(BOOLEAN)
  /\ UiTypeOK' <=> ui' \in UiStates(BOOLEAN)
BY DEF UiTypeOK, UiStates, Counts

\* The answers of the sidecar are true when they are given.
LEMMA SnapshotHolds ==
  /\ ErrorAnswer.gate = FALSE
  /\ \A q : Snapshot(q).gate => q # None /\ GateOpen(q.cap)
BY DEF ErrorAnswer, Snapshot

\* A gate that is open stays open, whatever the sidecar does.
LEMMA GateStaysOpen ==
  ASSUME IInv, [Next]_vars, run # None, GateOpen(run.cap)
  PROVE  run' # None /\ GateOpen(run'.cap)
BY StepKept DEF Kept, GateOpen

\* A step of the sidecar answers a request, or changes no answer.
LEMMA ServeAnswers ==
  ASSUME IInv, Serve, NEW r \in Requests
  PROVE  \/ req'[r].answer = req[r].answer
         \/ req'[r].answer = ErrorAnswer
         \/ req'[r].answer = Snapshot(run')
<1>1. req \in [Requests -> Request] BY DEF IInv, TypeOK
<1>2. ASSUME NEW q \in Requests, Handle(q) \/ StartFails(q)
      PROVE  \/ req'[r].answer = req[r].answer
             \/ req'[r].answer = ErrorAnswer
             \/ req'[r].answer = Snapshot(run')
  <2>1. CASE Enter(q)
    <3>1. \/ req' = [req EXCEPT ![q] = [pc |-> "answered", answer |-> ErrorAnswer]]
          \/ \E pc : req' = [req EXCEPT ![q] = [@ EXCEPT !.pc = pc]]
      BY <2>1 DEF Enter, Answer
    <3> QED BY <1>1, <3>1 DEF Request
  <2>2. CASE LoadCurrent(q)
    <3>1. \/ req' = [req EXCEPT ![q] = [pc |-> "answered", answer |-> Snapshot(run')]]
          \/ \E pc : req' = [req EXCEPT ![q] = [@ EXCEPT !.pc = pc]]
      BY <2>2 DEF LoadCurrent, Answer
    <3> QED BY <1>1, <3>1 DEF Request
  <2>3. CASE Start(q) BY <1>1, <2>3 DEF Start, Answer
  <2>4. CASE Read(q) BY <1>1, <2>4 DEF Read, Answer
  <2>5. CASE StartFails(q) BY <1>1, <2>5 DEF StartFails, Answer
  <2> QED BY <1>2, <2>1, <2>2, <2>3, <2>4, <2>5 DEF Handle
<1>3. ASSUME NEW t \in Tasks, Prepare(t) \/ PrepareFails(t) PROVE req' = req
  BY <1>3 DEF Prepare, PrepareResume, MarkChecking, Record, Recover, Finally, PrepareFails, shared
<1>4. CASE Startup BY <1>4 DEF Startup
<1>5. CASE Dies BY <1>5 DEF Dies
<1> QED BY <1>2, <1>3, <1>4, <1>5 DEF Serve

-----------------------------------------------------------------------------
\* The invariant holds when the app opens.
LEMMA UiInitOK == UiInit => GInv
<1> SUFFICES ASSUME UiInit PROVE GInv OBVIOUS
<1>1. IInv BY InitOK DEF UiInit
<1>2. PICK visible \in BOOLEAN : ui = NewUi(visible) BY DEF UiInit
<1>3. UiTypeOK BY <1>2, RetriesAreNatural DEF NewUi, UiTypeOK, RunState
<1>4. OneAtATime /\ HiddenIsLocked /\ CreateOnlyWhenReady
  BY <1>2 DEF NewUi, OneAtATime, HiddenIsLocked, CreateOnlyWhenReady
<1>5. AnswersHold
  BY <1>2 DEF UiInit, Init, NewUi, NoRequest, AnswersHold, Holds
<1> QED BY <1>1, <1>3, <1>4, <1>5 DEF GInv

\* A step of the sidecar leaves the hook alone, and every answer true.
LEMMA ServeOK == ASSUME GInv, Serve, UNCHANGED ui PROVE GInv'
<1>1. IInv /\ [Next]_vars BY DEF GInv, Next
<1>2. IInv' BY <1>1, StepOK
<1>3. UiTypeOK' /\ OneAtATime' /\ HiddenIsLocked'
  BY DEF GInv, UiTypeOK, OneAtATime, HiddenIsLocked
<1>4. CreateOnlyWhenReady' BY <1>1, GateStaysOpen DEF GInv, CreateOnlyWhenReady
<1>5. AnswersHold'
  <2>1. Holds(ui.received)' BY <1>1, GateStaysOpen DEF GInv, AnswersHold, Holds
  <2>2. ASSUME NEW r \in Requests PROVE Holds(req[r].answer)'
    <3>1. CASE req'[r].answer = req[r].answer
      BY <1>1, <3>1, GateStaysOpen DEF GInv, AnswersHold, Holds
    <3>2. CASE req'[r].answer = ErrorAnswer BY <3>2, SnapshotHolds DEF Holds
    <3>3. CASE req'[r].answer = Snapshot(run') BY <3>3, SnapshotHolds DEF Holds
    <3> QED BY <1>1, <3>1, <3>2, <3>3, ServeAnswers
  <2> QED BY <2>1, <2>2 DEF AnswersHold
<1> QED BY <1>2, <1>3, <1>4, <1>5 DEF GInv

-----------------------------------------------------------------------------
\* A request that leaves or enters the hook does not touch the sidecar.
LEMMA HookRequest ==
  ASSUME GInv, UNCHANGED sidecar, NEW r \in Requests, NEW row \in Request,
         req' = [req EXCEPT ![r] = row], row.pc \notin {"load", "start"},
         row.answer = None \/ row.answer = req[r].answer
  PROVE  IInv' /\ \A q \in Requests : Holds(req[q].answer)'
<1>1. req \in [Requests -> Request] BY DEF GInv, IInv, TypeOK
<1>2. /\ req' \in [Requests -> Request] /\ req'[r] = row
      /\ \A q \in Requests \ {r} : req'[q] = req[q]
  BY <1>1
<1>3. LockOK' BY <1>2 DEF GInv, IInv, LockOK, sidecar
<1>4. UNCHANGED <<run, phase, prep, task>> /\ lock' \in Requests \cup {None}
  BY DEF sidecar, GInv, IInv, TypeOK
<1>5. IInv' BY <1>2, <1>3, <1>4, RequestStep DEF GInv
<1>6. \A q \in Requests : Holds(req[q].answer)'
  BY <1>2, <1>4 DEF GInv, AnswersHold, Holds
<1> QED BY <1>5, <1>6

\* A request replaces whatever was pending, and locks the creation.
LEMMA AskOK ==
  ASSUME GInv, UNCHANGED sidecar, NEW u \in Shown,
         NEW mode \in {"start", "refresh"}, NEW auto \in BOOLEAN, Ask(u, mode, auto)
  PROVE  GInv'
<1> DEFINE pc == IF mode = "start" THEN "lock" ELSE "read"
<1>1. PICK r \in Requests :
        /\ ui' = [Invalidated(u) EXCEPT
                    !.active = r, !.retries = IF auto THEN @ ELSE 0,
                    !.requested = @ \/ mode = "start",
                    !.error = "none", !.loading = ~u.committed, !.canCreate = FALSE]
        /\ req' = [req EXCEPT ![r].pc = pc]
  BY DEF Ask
<1> DEFINE row == [req[r] EXCEPT !.pc = pc]
<1>2. IInv' /\ \A q \in Requests : Holds(req[q].answer)'
  <2>1. req[r] \in Request BY DEF GInv, IInv, TypeOK
  <2>2. pc \in {"lock", "read"} OBVIOUS
  <2> HIDE DEF pc
  <2>3. row \in Request /\ row.pc = pc /\ row.answer = req[r].answer
    BY <2>1, <2>2 DEF Request
  <2>4. req' = [req EXCEPT ![r] = row] BY <1>1
  <2> HIDE DEF row
  <2> QED BY <2>2, <2>3, <2>4, HookRequest
<1>3. /\ ui'.visible = TRUE /\ ui'.active = r /\ ui'.received = None /\ ui'.timer = "none"
      /\ ui'.canCreate = FALSE
  BY <1>1 DEF Invalidated, Shown, UiStates
<1>4. UiTypeOK'
  <2>1. (IF auto THEN u.retries ELSE 0) \in Counts BY CountFacts DEF Shown, UiStates
  <2>2. ASSUME NEW n \in Counts, NEW asked \in BOOLEAN, NEW loading \in BOOLEAN,
               ui' = [Invalidated(u) EXCEPT !.active = r, !.retries = n, !.requested = asked,
                                            !.error = "none", !.loading = loading,
                                            !.canCreate = FALSE]
        PROVE  ui' \in UiStates(BOOLEAN)
    BY <2>2 DEF Invalidated, Shown, UiStates
  <2>3. (u.requested \/ mode = "start") \in BOOLEAN /\ (~u.committed) \in BOOLEAN OBVIOUS
  <2>4. ui' = [Invalidated(u) EXCEPT !.active = r, !.retries = IF auto THEN u.retries ELSE 0,
                                     !.requested = u.requested \/ mode = "start",
                                     !.error = "none", !.loading = ~u.committed,
                                     !.canCreate = FALSE]
    BY <1>1 DEF Invalidated, Shown, UiStates
  <2> QED BY <2>1, <2>2, <2>3, <2>4, UiTyped
<1>5. OneAtATime' /\ HiddenIsLocked' /\ CreateOnlyWhenReady'
  BY <1>3 DEF OneAtATime, HiddenIsLocked, CreateOnlyWhenReady
<1>6. Holds(ui.received)' BY <1>3 DEF Holds
<1> QED BY <1>2, <1>4, <1>5, <1>6 DEF GInv, AnswersHold

\* A failure leaves nothing pending but a retry, which the bound allows.
LEMMA FailFacts ==
  ASSUME GInv, UNCHANGED run, NEW error \in {"retryable", "failed_closed"}, Fail(error)
  PROVE  /\ UiTypeOK' /\ OneAtATime' /\ HiddenIsLocked' /\ CreateOnlyWhenReady'
         /\ Holds(ui.received)'
<1>1. CASE /\ error = "retryable" /\ ~ui.committed /\ ui.visible /\ ui.retries < AutoRetryMax
           /\ ui' = [Invalidated(ui) EXCEPT !.retries = @ + 1, !.timer = "retry"]
  <2>1. UiTypeOK'
    <3>1. ui \in UiStates(BOOLEAN) BY UiTyped DEF GInv
    <3>2. ui.retries + 1 \in Counts BY <1>1, <3>1, CountFacts DEF UiStates
    <3> QED BY <1>1, <3>1, <3>2, UiTyped DEF UiStates, Invalidated
  <2>2. /\ ui'.active = None /\ ui'.received = None /\ ui'.visible = ui.visible
        /\ ui'.canCreate = ui.canCreate
    BY <1>1 DEF GInv, UiTypeOK, Invalidated
  <2> QED BY <1>1, <2>1, <2>2
          DEF GInv, OneAtATime, HiddenIsLocked, CreateOnlyWhenReady, Holds
<1>2. CASE ui' = [Invalidated(ui) EXCEPT !.retries = 0, !.canCreate = FALSE, !.error = error,
                                         !.loading = FALSE]
  <2>1. UiTypeOK'
    BY <1>2, CountFacts, UiTyped DEF GInv, UiStates, Invalidated
  <2>2. /\ ui'.active = None /\ ui'.received = None /\ ui'.timer = "none"
        /\ ui'.canCreate = FALSE
    BY <1>2 DEF GInv, UiTypeOK, Invalidated
  <2> QED BY <2>1, <2>2 DEF OneAtATime, HiddenIsLocked, CreateOnlyWhenReady, Holds
<1> QED BY <1>1, <1>2 DEF Fail

\* A hook in a visible window that replaces what is pending.
LEMMA HookAsks ==
  ASSUME GInv, Mount \/ Show \/ Resume \/ PollTimerFires \/ RetryTimerFires
  PROVE  GInv'
<1>1. UiTypeOK /\ (ui.visible => ui \in Shown)
  BY DEF GInv, UiTypeOK, Shown, UiStates, Counts
<1>2. CASE Mount BY <1>1, <1>2, AskOK DEF Mount
<1>3. CASE Show
  <2> DEFINE u == [ui EXCEPT !.visible = TRUE, !.queued = FALSE]
  <2>1. u \in Shown BY UiTyped DEF GInv, Shown, UiStates
  <2>2. PICK mode \in {"start", "refresh"} : Ask(u, mode, FALSE) BY <1>3 DEF Show
  <2> HIDE DEF u
  <2> QED BY <1>3, <2>1, <2>2, AskOK DEF Show
<1>4. CASE Resume /\ ui.visible
  <2> DEFINE u == [ui EXCEPT !.queued = FALSE]
  <2>1. u \in Shown BY <1>4, UiTyped DEF GInv, Shown, UiStates
  <2>2. Ask(u, "start", FALSE) /\ UNCHANGED sidecar BY <1>4 DEF Resume
  <2> HIDE DEF u
  <2> QED BY <2>1, <2>2, AskOK
<1>5. CASE Resume /\ ~ui.visible
  <2>1. ui' = [ui EXCEPT !.queued = TRUE] /\ UNCHANGED vars BY <1>5 DEF Resume
  <2>2. IInv' BY <2>1, StepOK DEF GInv
  <2>3. UiTypeOK' BY <1>1, <2>1 DEF UiTypeOK
  <2>4. OneAtATime' /\ HiddenIsLocked' /\ CreateOnlyWhenReady'
    BY <1>1, <2>1 DEF GInv, vars, UiTypeOK, OneAtATime, HiddenIsLocked, CreateOnlyWhenReady
  <2>5. AnswersHold' BY <1>1, <2>1 DEF GInv, vars, UiTypeOK, AnswersHold, Holds
  <2> QED BY <2>2, <2>3, <2>4, <2>5 DEF GInv
<1>6. CASE PollTimerFires \/ RetryTimerFires
  <2>1. ui \in Shown
    BY <1>1, <1>6 DEF GInv, HiddenIsLocked, PollTimerFires, RetryTimerFires
  <2> QED BY <1>6, <2>1, AskOK DEF PollTimerFires, RetryTimerFires
<1> QED BY <1>2, <1>3, <1>4, <1>5, <1>6

\* An answer taken from its request is true where it is kept.
LEMMA AnswerTaken ==
  ASSUME GInv, NEW r \in Requests, Receive(r) \/ Ignore(r)
  PROVE  GInv'
<1>1. NoRequest \in Request /\ NoRequest.pc = "idle" /\ NoRequest.answer = None
  BY DEF NoRequest, Request
<1>2. UNCHANGED sidecar /\ req' = [req EXCEPT ![r] = NoRequest] BY DEF Receive, Ignore
<1>3. IInv' /\ \A q \in Requests : Holds(req[q].answer)' BY <1>1, <1>2, HookRequest
<1>4. CASE Ignore(r)
  BY <1>2, <1>3, <1>4 DEF Ignore, GInv, AnswersHold, Holds, sidecar, UiTypeOK, OneAtATime,
     HiddenIsLocked, CreateOnlyWhenReady
<1>5. CASE Receive(r) /\ ~req[r].answer.ok
  BY <1>2, <1>3, <1>5, FailFacts DEF Receive, sidecar, GInv, AnswersHold
<1>6. CASE Receive(r) /\ req[r].answer.ok
  <2> DEFINE a == req[r].answer
  <2>1. /\ ui' = [ui EXCEPT !.active = None, !.received = a]
        /\ ui.active = r
    BY <1>6 DEF Receive
  <2>2. a \in Ans \cup {None} BY DEF GInv, IInv, TypeOK, Request
  <2>3. Holds(a) BY DEF GInv, AnswersHold
  <2> HIDE DEF a
  <2>4. UiTypeOK' BY <2>1, <2>2 DEF GInv, UiTypeOK
  <2>5. ui.timer = "none" /\ ui.visible
    BY <2>1, NoneIsNone DEF GInv, OneAtATime, HiddenIsLocked
  <2>6. /\ ui'.active = None /\ ui'.received = a /\ ui'.timer = "none"
        /\ ui'.visible = ui.visible /\ ui'.canCreate = ui.canCreate
    BY <2>1, <2>5 DEF GInv, UiTypeOK
  <2>7. OneAtATime' /\ HiddenIsLocked' /\ CreateOnlyWhenReady' /\ Holds(ui.received)'
    BY <1>2, <2>3, <2>5, <2>6
       DEF GInv, sidecar, OneAtATime, HiddenIsLocked, CreateOnlyWhenReady, Holds
  <2> QED BY <1>3, <2>4, <2>7 DEF GInv, AnswersHold
<1> QED BY <1>4, <1>5, <1>6

\* What the hook does by itself, and the hiding of its window.
LEMMA HookAlone ==
  ASSUME GInv, Hide \/ NoAnswer \/ Commit
  PROVE  GInv'
<1>1. UNCHANGED vars BY DEF Hide, NoAnswer, Commit
<1>2. IInv' BY <1>1, StepOK DEF GInv
<1>3. \A q \in Requests : Holds(req[q].answer)' BY <1>1 DEF vars, GInv, AnswersHold, Holds
<1>4. CASE Hide
  <2>1. /\ ui'.active = None /\ ui'.received = None /\ ui'.timer = "none"
        /\ ui'.canCreate = FALSE /\ UiTypeOK'
    BY <1>4 DEF Hide, Invalidated, GInv, UiTypeOK
  <2>2. OneAtATime' /\ HiddenIsLocked' /\ CreateOnlyWhenReady' /\ Holds(ui.received)'
    BY <2>1 DEF OneAtATime, HiddenIsLocked, CreateOnlyWhenReady, Holds
  <2> QED BY <1>2, <1>3, <2>1, <2>2 DEF GInv, AnswersHold
<1>5. CASE NoAnswer
  BY <1>1, <1>2, <1>3, <1>5, FailFacts DEF NoAnswer, vars, GInv, AnswersHold
<1>6. CASE Commit
  <2>1. /\ ui.received \in Ans /\ ui.visible /\ ui.active = None
        /\ ui.received.gate => run # None /\ GateOpen(run.cap)
    BY <1>6 DEF Commit, GInv, UiTypeOK, OneAtATime, HiddenIsLocked, AnswersHold, Holds
  <2>2. UiTypeOK' BY <1>6, <2>1, CountFacts, UiTyped DEF Commit, GInv, UiStates, Ans
  <2>3. /\ ui'.active = None /\ ui'.received = None /\ ui'.visible
        /\ ui'.canCreate = ui.received.gate
    BY <1>6, <2>1 DEF Commit, GInv, UiTypeOK
  <2>4. OneAtATime' /\ HiddenIsLocked' /\ CreateOnlyWhenReady' /\ Holds(ui.received)'
    BY <1>1, <2>1, <2>3
       DEF vars, OneAtATime, HiddenIsLocked, CreateOnlyWhenReady, Holds
  <2> QED BY <1>2, <1>3, <2>2, <2>4 DEF GInv, AnswersHold
<1> QED BY <1>4, <1>5, <1>6

-----------------------------------------------------------------------------
\* No step of the app or of the sidecar breaks the invariant.
LEMMA UiStepOK == GInv /\ [UiNext]_uiVars => GInv'
<1> SUFFICES ASSUME GInv, [UiNext]_uiVars PROVE GInv' OBVIOUS
<1>1. CASE Serve /\ UNCHANGED ui BY <1>1, ServeOK
<1>2. CASE Hook BY <1>2, HookAsks, HookAlone, AnswerTaken DEF Hook
<1>3. CASE User BY <1>3, HookAsks, HookAlone DEF User
<1>4. CASE UNCHANGED uiVars
  <2>1. UNCHANGED vars /\ UNCHANGED ui BY <1>4 DEF uiVars
  <2>2. IInv' BY <2>1, StepOK DEF GInv
  <2> QED
    BY <2>1, <2>2 DEF vars, GInv, UiTypeOK, OneAtATime, HiddenIsLocked, CreateOnlyWhenReady,
       AnswersHold, Holds
<1> QED BY <1>1, <1>2, <1>3, <1>4 DEF UiNext

\* Every behaviour of the app satisfies the inductive invariant.
THEOREM GateInvariance == UiSpec => []GInv
BY UiInitOK, UiStepOK, PTL DEF UiSpec

\* The gate applies one thing at a time, does nothing unseen, and is never open while a
\* capability is missing.
THEOREM GateSafe == UiSpec => []GateIsSafe
<1>1. GInv => GateIsSafe BY DEF GInv, GateIsSafe
<1> QED BY <1>1, GateInvariance, PTL
=============================================================================
