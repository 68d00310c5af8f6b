------------------------------ MODULE BuildJob ------------------------------
(***************************************************************************)
(* The digital-human build jobs of the Python sidecar: BuildJobService, its*)
(* driver task, the HTTP handlers that start, cancel, retry, clean up and  *)
(* delete, and the two SQLite tables they share.                           *)
(*                                                                         *)
(* Every repository call is one transaction serialised by Database._lock,  *)
(* and a coroutine runs without interruption from the end of one           *)
(* transaction to its next await.  So one action is one transaction (or    *)
(* one call to the remote provider) with the local code that follows it,   *)
(* and the driver of a job interleaves with the handlers between any two.  *)
(***************************************************************************)
EXTENDS Naturals, FiniteSets

CONSTANTS
  Jobs,         \* identifiers of build jobs; j also names the start call that creates j
  Humans,       \* identifiers of digital humans
  Requests,     \* HTTP calls other than start; each is made at most once
  Keys,         \* idempotency keys the client sends
  StartModes,   \* the modes start is called with
  None,         \* an absent key, human or remote id (Python None, SQL NULL)
  MaxRetries,   \* BuildJobService.max_retries
  MaxCrashes,   \* bound: how often the process dies
  MaxFaults     \* bound: failed calls of the driver of one job

Modes == {"new", "rebuild", "copy"}

ASSUME NoneIsNoValue == None \notin Jobs \cup Humans \cup Keys
ASSUME StartModesAreModes == StartModes \subseteq Modes
ASSUME BoundsAreNaturals == MaxRetries \in Nat /\ MaxCrashes \in Nat /\ MaxFaults \in Nat

VARIABLES
  job,       \* build_jobs: the row of each job
  human,     \* digital_humans: the row of each human
  newer,     \* <<i, j>> : row i has a later updated_at than row j
  driver,    \* the asyncio task of each job (_tasks) and its locals
  start,     \* the start call of each job id
  request,   \* the other HTTP calls in flight
  enrolled,  \* the provider: how many remote resources it made for each job
  up,        \* the process is running
  crashes,   \* how often it has died
  faults     \* how many calls of each job's driver failed: transactions rolled
             \* back, and enrolments whose answer never came

vars == <<job, human, newer, driver, start, request, enrolled, up, crashes, faults>>

-----------------------------------------------------------------------------
Stages == {"validate", "voice", "avatar", "save"}

\* The stages _drive runs before stage s.
Before == [s \in Stages |-> CASE s = "validate" -> {}
                              [] s = "voice"    -> {"validate"}
                              [] s = "avatar"   -> {"validate", "voice"}
                              [] s = "save"     -> {"validate", "voice", "avatar"}]

\* Mutant: the avatar is enrolled before anything else.
NextStageAvatarFirst(done) ==
  IF "avatar" \notin done THEN "avatar"
  ELSE CHOOSE s \in Stages \ done : Before[s] \subseteq done

\* The stage that a job with these stages done runs next.
NextStage(done) == CHOOSE s \in Stages \ done : Before[s] \subseteq done

Statuses == {"pending", "running", "succeeded", "failed", "cancelling",
             "cancelled", "cleanup_pending", "cleanup_failed"}
CleanupStates == {"none", "pending", "succeeded", "failed"}

\* list_unfinished: the rows resume() drives again and current() reports.
Unfinished == {"pending", "running", "cancelling"}

\* The n-th remote resource the provider enrolled for a job; the pair a human
\* already had belongs to no job.
Resource == [owner : Jobs \cup {None}, n : Nat]
Original == [owner |-> None, n |-> 0]

ASSUME NoneIsNoResource == None \notin Resource

OwnedBy(j) == {[owner |-> j, n |-> k] : k \in 1..enrolled[j]}

NoJob == [status |-> "absent", done |-> {}, retries |-> 0, cancelled |-> FALSE,
          human |-> None, mode |-> "new", key |-> None, voice |-> None,
          avatar |-> None, remote |-> {}, cleanup |-> "none"]
NoHuman   == [status |-> "absent", voice |-> None, avatar |-> None]
FreshHuman == [NoHuman EXCEPT !.status = "pending"]
LiveHuman  == [status |-> "ready", voice |-> Original, avatar |-> Original]
NoStart   == [pc |-> "none", key |-> None, human |-> None, mode |-> "new"]
NoDriver  == [pc |-> "idle", stage |-> "validate", human |-> None, hand |-> None]
NoRequest == [pc |-> "new", target |-> None, retries |-> 0]

Created(j) == job[j].status # "absent"
Present(h) == h # None /\ human[h].status \notin {"absent", "deleted"}
Alive(j)   == driver[j].pc \notin {"idle", "crashed"}
HasRemoteResources(h) == human[h].voice # None \/ human[h].avatar # None

-----------------------------------------------------------------------------
\* BuildJobRepository.update: row j changes and becomes the latest.
Touch(j) == newer' = {p \in newer : p[2] # j} \cup {<<j, k>> : k \in Jobs \ {j}}
UpdateJob(j, row) == job' = [job EXCEPT ![j] = row] /\ Touch(j)
SetStatus(j, s) == UpdateJob(j, [job[j] EXCEPT !.status = s])

\* DigitalHumanRepository.update_status: COALESCE keeps an id when None is given.
Coalesce(new, old) == IF new = None THEN old ELSE new
UpdateHuman(h, s, v, a) ==
  human' = [human EXCEPT ![h] = [status |-> s,
                                 voice  |-> Coalesce(v, human[h].voice),
                                 avatar |-> Coalesce(a, human[h].avatar)]]

\* latest_for_digital_human
IsLatest(j, h) ==
  /\ Created(j) /\ job[j].human = h
  /\ \A k \in Jobs \ {j} : Created(k) /\ job[k].human = h => <<j, k>> \in newer

\* _spawn: a job whose task is not done gets no second task.
Loading == [NoDriver EXCEPT !.pc = "load"]
Spawn(j) == driver' = [driver EXCEPT ![j] = IF Alive(j) THEN @ ELSE Loading]

-----------------------------------------------------------------------------
\* find_by_idempotency_key
KeyTaken(k) == k # None /\ \E i \in Jobs : Created(i) /\ job[i].key = k

\* start(): look the key up, then insert the row and spawn its driver.  The
\* insert fails when the key has been taken since, or names no human (foreign key).
StartFind(j, k, h, m) ==
  /\ up /\ start[j].pc = "none"
  /\ start' = [start EXCEPT ![j] =
       IF KeyTaken(k) THEN [@ EXCEPT !.pc = "over"]
       ELSE [pc |-> "create", key |-> k, human |-> h, mode |-> m]]
  /\ UNCHANGED <<job, human, newer, driver, request, enrolled, up, crashes, faults>>

\* Mutant: the insert does not check the key again.
StartCreateUnchecked(j) ==
  /\ up /\ start[j].pc = "create"
  /\ start' = [start EXCEPT ![j] = [NoStart EXCEPT !.pc = "over"]]
  /\ start[j].human = None \/ Present(start[j].human)
  /\ UpdateJob(j, [NoJob EXCEPT !.status = "pending", !.key = start[j].key,
                                !.human = start[j].human, !.mode = start[j].mode])
  /\ Spawn(j)
  /\ UNCHANGED <<human, request, enrolled, up, crashes, faults>>

StartCreate(j) ==
  /\ up /\ start[j].pc = "create"
  /\ start' = [start EXCEPT ![j] = [NoStart EXCEPT !.pc = "over"]]
  /\ IF KeyTaken(start[j].key) \/ (start[j].human # None /\ ~Present(start[j].human))
     THEN UNCHANGED <<job, newer, driver>>
     ELSE /\ UpdateJob(j, [NoJob EXCEPT !.status = "pending", !.key = start[j].key,
                                        !.human = start[j].human, !.mode = start[j].mode])
          /\ Spawn(j)
  /\ UNCHANGED <<human, request, enrolled, up, crashes, faults>>

-----------------------------------------------------------------------------
\* cancel(), retry(), cleanup(): one transaction reads and checks the status, a
\* second one writes.  The row may change in between.
Read(q, j, pc) ==
  /\ up /\ request[q].pc = "new"
  /\ request' = [request EXCEPT ![q] = [pc |-> pc, target |-> j, retries |-> job[j].retries]]
  /\ UNCHANGED <<job, human, newer, driver, start, enrolled, up, crashes, faults>>

CancelRead(q, j)  == job[j].status \in {"pending", "running"} /\ Read(q, j, "cancel")
RetryRead(q, j)   == /\ job[j].status \in {"failed", "cleanup_failed"}
                     /\ job[j].retries < MaxRetries
                     /\ Read(q, j, "retry")
CleanupRead(q, j) == /\ job[j].status \in {"cancelled", "failed", "cleanup_pending", "cleanup_failed"}
                     /\ Read(q, j, "cleanup")

Answer(q) == request' = [request EXCEPT ![q] = [NoRequest EXCEPT !.pc = "done"]]

CancelWrite(q) ==
  LET j == request[q].target
  IN /\ up /\ request[q].pc = "cancel"
     /\ UpdateJob(j, [job[j] EXCEPT !.status = "cancelling", !.cancelled = TRUE])
     /\ Answer(q)
     /\ UNCHANGED <<human, driver, start, enrolled, up, crashes, faults>>

RetryWrite(q) ==
  LET j == request[q].target
  IN /\ up /\ request[q].pc = "retry"
     /\ UpdateJob(j, [job[j] EXCEPT !.status = "pending", !.cancelled = FALSE,
                                    !.retries = request[q].retries + 1,
                                    !.cleanup = "none"])
     /\ Spawn(j) /\ Answer(q)
     /\ UNCHANGED <<human, start, enrolled, up, crashes, faults>>

CleanupWrite(q) ==
  LET j == request[q].target
  IN /\ up /\ request[q].pc = "cleanup"
     /\ SetStatus(j, "cleanup_pending")
     /\ Spawn(j) /\ Answer(q)
     /\ UNCHANGED <<human, start, enrolled, up, crashes, faults>>

\* DELETE /v1/avatar/humans/{id}: read the human; when it has remote resources,
\* read its latest job; then delete.  Three transactions.
DeleteStep(q, pc, h) ==
  /\ request' = [request EXCEPT ![q] = [pc |-> pc, target |-> h, retries |-> 0]]
  /\ UNCHANGED <<job, human, newer, driver, start, enrolled, up, crashes, faults>>

DeleteRead(q, h) ==
  /\ up /\ request[q].pc = "new" /\ Present(h)
  /\ DeleteStep(q, IF HasRemoteResources(h) THEN "delete_check" ELSE "delete", h)

\* No job, or a latest job whose cleanup succeeded, lets the call go on; any
\* other latest job answers 409.
DeleteCheck(q) ==
  LET h == request[q].target
  IN /\ up /\ request[q].pc = "delete_check"
     /\ IF \E j \in Jobs : IsLatest(j, h) /\ job[j].cleanup # "succeeded"
        THEN DeleteStep(q, "done", None)
        ELSE DeleteStep(q, "delete", h)

\* ON DELETE SET NULL empties the human of every job that named it.
DeleteHuman(q) ==
  LET h == request[q].target
  IN /\ up /\ request[q].pc = "delete"
     /\ IF Present(h)
        THEN /\ human' = [human EXCEPT ![h] = [NoHuman EXCEPT !.status = "deleted"]]
             /\ job' = [j \in Jobs |->
                          IF job[j].human = h THEN [job[j] EXCEPT !.human = None] ELSE job[j]]
        ELSE UNCHANGED <<human, job>>
     /\ Answer(q)
     /\ UNCHANGED <<newer, driver, start, enrolled, up, crashes, faults>>

-----------------------------------------------------------------------------
\* The driver task, _drive.  Its local copy of the row is refreshed by every
\* update it makes; it uses the row's human from that copy, never the current one.
others == <<start, request, up, crashes, faults>>

At(j, pc) == up /\ driver[j].pc = pc
Goto(j, pc) == driver' = [driver EXCEPT ![j].pc = pc]
End(j)   == driver' = [driver EXCEPT ![j] = NoDriver]
Raise(j) == driver' = [driver EXCEPT ![j] = [NoDriver EXCEPT !.pc = "crashed"]]

\* The driver of a job of this mode that goes on when these stages are done and
\* its copy of the row names human h: the next stage, or the commit.
Going(mode, done, h) ==
  [pc |-> CASE done # Stages /\ NextStage(done) = "validate" -> "begin"
            [] done # Stages /\ NextStage(done) # "validate" -> "check"
            [] done = Stages /\ h = None -> "finish"
            [] done = Stages /\ h # None /\ mode = "copy" -> "copy_read"
            [] OTHER -> "commit",
   stage |-> IF done = Stages THEN "validate" ELSE NextStage(done),
   human |-> h, hand |-> None]

\* Mutant: the enrolments are all that is waited for.
EnterAfterEnrolments(j, done, h) ==
  driver' = [driver EXCEPT ![j] =
    IF {"voice", "avatar"} \subseteq done THEN [NoDriver EXCEPT !.human = h, !.pc = "finish"]
    ELSE Going(job[j].mode, done, h)]

Enter(j, done, h) == driver' = [driver EXCEPT ![j] = Going(job[j].mode, done, h)]

Load(j) ==
  /\ At(j, "load")
  /\ driver' = [driver EXCEPT ![j] =
       IF job[j].status \in Unfinished \cup {"cleanup_pending"}
       THEN [@ EXCEPT !.human = job[j].human,
                      !.pc = CASE job[j].status = "cancelling" -> "mark_cancelled"
                               [] job[j].status = "cleanup_pending" -> "clean"
                               [] OTHER -> "claim"]
       ELSE NoDriver]
  /\ UNCHANGED <<job, human, newer, enrolled, others>>

Claim(j) ==
  /\ At(j, "claim")
  /\ SetStatus(j, "running")
  /\ Enter(j, job[j].done, job[j].human)
  /\ UNCHANGED <<human, enrolled, others>>

\* _run_stage, before its check
BeginValidate(j) ==
  /\ At(j, "begin")
  /\ SetStatus(j, "running")
  /\ Goto(j, "check")
  /\ UNCHANGED <<human, enrolled, others>>

TouchesHuman(j) == job[j].mode = "new" /\ driver[j].human # None

\* _check_cancelled, then _read_media, which may fail in every stage but the last.
CheckCancelled(j) ==
  /\ At(j, "check")
  /\ \/ job[j].cancelled /\ Goto(j, "mark_cancelled")
     \/ ~job[j].cancelled /\ driver[j].stage # "save" /\ Goto(j, "fail")
     \/ /\ ~job[j].cancelled
        /\ Goto(j, CASE driver[j].stage = "validate" -> "persist"
                     [] driver[j].stage = "save" /\ TouchesHuman(j) -> "save_human"
                     [] driver[j].stage = "save" /\ ~TouchesHuman(j) -> "persist"
                     [] OTHER -> "enroll")
  /\ UNCHANGED <<job, human, newer, enrolled, others>>

\* enroll_voice and enroll_avatar at the provider
Enroll(j) ==
  /\ At(j, "enroll")
  /\ enrolled' = [enrolled EXCEPT ![j] = @ + 1]
  /\ driver' = [driver EXCEPT ![j].hand = [owner |-> j, n |-> enrolled[j] + 1],
                              ![j].pc = IF TouchesHuman(j) THEN "persist_human" ELSE "persist"]
  /\ UNCHANGED <<job, human, newer, others>>

\* Mutant: the provider's error ends the task without marking the job failed.
EnrollFailsSilently(j) ==
  /\ At(j, "enroll") /\ End(j)
  /\ UNCHANGED <<job, human, newer, enrolled, others>>

\* The provider refuses, or cannot be reached: nothing was made.
EnrollFails(j) ==
  /\ At(j, "enroll")
  /\ Goto(j, "fail")
  /\ UNCHANGED <<job, human, newer, enrolled, others>>

\* The provider has made the resource, but its answer comes too late, is cut off
\* or names no id: for _drive the stage has failed.
EnrollTimesOut(j) ==
  /\ At(j, "enroll") /\ faults[j] < MaxFaults
  /\ enrolled' = [enrolled EXCEPT ![j] = @ + 1]
  /\ faults' = [faults EXCEPT ![j] = @ + 1]
  /\ Goto(j, "fail")
  /\ UNCHANGED <<job, human, newer, start, request, up, crashes>>

\* What the stage in hand puts in a slot.
Enrolled(j, slot) == IF driver[j].stage = slot THEN driver[j].hand ELSE None

\* _persist_success, mode new: the human gets the id first.
PersistHuman(j) ==
  LET h == driver[j].human
  IN /\ At(j, "persist_human")
     /\ IF Present(h)
        THEN /\ UpdateHuman(h, "building", Enrolled(j, "voice"), Enrolled(j, "avatar"))
             /\ Goto(j, "persist")
        ELSE /\ driver' = [driver EXCEPT ![j].pc = "fail", ![j].hand = None]
             /\ UNCHANGED human
     /\ UNCHANGED <<job, newer, enrolled, others>>

\* Mutant: the recorded remote ids are replaced, not merged.
PersistJobReplacing(j) ==
  LET d == driver[j]
  IN /\ At(j, "persist")
     /\ UpdateJob(j, [job[j] EXCEPT !.status = "running", !.done = @ \cup {d.stage},
                                    !.remote = {d.hand} \ {None}])
     /\ Enter(j, job[j].done \cup {d.stage}, job[j].human)
     /\ UNCHANGED <<human, enrolled, others>>

\* _persist_success, the row.  Its reads of the staged and recorded ids are part
\* of this step: no one but this driver writes those columns.
PersistJob(j) ==
  LET d == driver[j]
      staging == job[j].mode # "new"
  IN /\ At(j, "persist")
     /\ UpdateJob(j, [job[j] EXCEPT
          !.status = "running",
          !.done   = @ \cup {d.stage},
          !.voice  = IF staging THEN Coalesce(Enrolled(j, "voice"), @) ELSE @,
          !.avatar = IF staging THEN Coalesce(Enrolled(j, "avatar"), @) ELSE @,
          !.remote = @ \cup ({d.hand} \ {None})])
     /\ Enter(j, job[j].done \cup {d.stage}, job[j].human)
     /\ UNCHANGED <<human, enrolled, others>>

SaveHuman(j) ==
  LET h == driver[j].human
  IN /\ At(j, "save_human")
     /\ IF Present(h)
        THEN UpdateHuman(h, "building", None, None) /\ Goto(j, "persist")
        ELSE UNCHANGED human /\ Goto(j, "fail")
     /\ UNCHANGED <<job, newer, enrolled, others>>

\* Mutant: the commit leaves out one of the staged ids.
CommitVoiceOnly(j) ==
  /\ At(j, "commit") /\ Present(driver[j].human)
  /\ UpdateHuman(driver[j].human, "ready", job[j].voice, None)
  /\ Goto(j, "finish")
  /\ UNCHANGED <<job, newer, enrolled, others>>

\* _commit_result runs outside the try: what it raises ends the task.
Commit(j) ==
  LET h == driver[j].human
  IN /\ At(j, "commit")
     /\ IF Present(h)
        THEN /\ UpdateHuman(h, "ready", job[j].voice, job[j].avatar)
             /\ Goto(j, "finish")
        ELSE UNCHANGED human /\ Raise(j)
     /\ UNCHANGED <<job, newer, enrolled, others>>

CopyRead(j) ==
  /\ At(j, "copy_read")
  /\ IF Present(driver[j].human) THEN Goto(j, "copy_create") ELSE Raise(j)
  /\ UNCHANGED <<job, human, newer, enrolled, others>>

CopyCreate(j) ==
  /\ At(j, "copy_create")
  /\ \E h \in Humans :
       /\ human[h].status = "absent"
       /\ human' = [human EXCEPT ![h] = FreshHuman]
       /\ driver' = [driver EXCEPT ![j].human = h, ![j].pc = "copy_ready"]
  /\ UNCHANGED <<job, newer, enrolled, others>>

CopyReady(j) ==
  LET h == driver[j].human
  IN /\ At(j, "copy_ready")
     /\ IF Present(h)
        THEN /\ UpdateHuman(h, "ready", job[j].voice, job[j].avatar)
             /\ Goto(j, "finish")
        ELSE UNCHANGED human /\ Raise(j)
     /\ UNCHANGED <<job, newer, enrolled, others>>

Finish(j) ==
  /\ At(j, "finish")
  /\ SetStatus(j, "succeeded")
  /\ End(j)
  /\ UNCHANGED <<human, enrolled, others>>

\* _handle_failure and _mark_cancelled: the row, then (mode new) the human.
Settle(j, pc, status, next) ==
  /\ At(j, pc)
  /\ SetStatus(j, status)
  /\ IF TouchesHuman(j) THEN Goto(j, next) ELSE End(j)
  /\ UNCHANGED <<human, enrolled, others>>

SettleHuman(j, pc, status) ==
  LET h == driver[j].human
  IN /\ At(j, pc)
     /\ IF Present(h)
        THEN UpdateHuman(h, status, None, None) /\ End(j)
        ELSE UNCHANGED human /\ Raise(j)
     /\ UNCHANGED <<job, newer, enrolled, others>>

Fail(j)          == Settle(j, "fail", "failed", "fail_human")
FailHuman(j)     == SettleHuman(j, "fail_human", "failed")
MarkCancelled(j) == Settle(j, "mark_cancelled", "cancelled", "cancel_human")
CancelHuman(j)   == SettleHuman(j, "cancel_human", "cancelled")

\* _run_cleanup: the provider deletes nothing; the ids are read and logged.
Clean(j) ==
  /\ At(j, "clean")
  /\ UpdateJob(j, [job[j] EXCEPT !.status = "cleanup_pending", !.cleanup = "pending"])
  /\ Goto(j, "clean_job")
  /\ UNCHANGED <<human, enrolled, others>>

CleanReadJob(j) ==
  /\ At(j, "clean_job")
  /\ driver' = [driver EXCEPT ![j].human = job[j].human,
                  ![j].pc = IF job[j].human = None THEN "clean_done" ELSE "clean_human"]
  /\ UNCHANGED <<job, human, newer, enrolled, others>>

CleanReadHuman(j) ==
  /\ At(j, "clean_human")
  /\ Goto(j, IF Present(driver[j].human) THEN "clean_done" ELSE "clean_fail")
  /\ UNCHANGED <<job, human, newer, enrolled, others>>

CleanEnd(j, pc, status, cleanup) ==
  /\ At(j, pc)
  /\ UpdateJob(j, [job[j] EXCEPT !.status = status, !.cleanup = cleanup])
  /\ End(j)
  /\ UNCHANGED <<human, enrolled, others>>

CleanDone(j) == CleanEnd(j, "clean_done", "cancelled", "succeeded")
CleanFail(j) == CleanEnd(j, "clean_fail", "cleanup_failed", "failed")

-----------------------------------------------------------------------------
\* Any transaction of the driver may fail; Database.transaction rolls it back.
\* Inside the try of _drive that is a failure like any other, and what the driver
\* had in hand is forgotten with its locals; so it is, but for the locals, inside
\* the try of _run_cleanup; anywhere else the exception ends the task.
InTry     == {"begin", "check", "persist_human", "persist", "save_human"}
InCleanup == {"clean", "clean_job", "clean_human", "clean_done"}
Outside   == {"load", "claim", "commit", "copy_read", "copy_create", "copy_ready", "finish",
              "fail", "fail_human", "mark_cancelled", "cancel_human", "clean_fail"}

TransactionFails(j) ==
  /\ up /\ faults[j] < MaxFaults
  /\ faults' = [faults EXCEPT ![j] = @ + 1]
  /\ \/ /\ driver[j].pc \in InTry
        /\ driver' = [driver EXCEPT ![j].pc = "fail", ![j].hand = None]
     \/ driver[j].pc \in InCleanup /\ Goto(j, "clean_fail")
     \/ driver[j].pc \in Outside /\ Raise(j)
  /\ UNCHANGED <<job, human, newer, enrolled, start, request, up, crashes>>

-----------------------------------------------------------------------------
\* The process dies with every task and call in it; the database stays.
Crash ==
  /\ up /\ crashes < MaxCrashes
  /\ up' = FALSE /\ crashes' = crashes + 1
  /\ driver' = [j \in Jobs |-> NoDriver]
  /\ start' = [j \in Jobs |-> IF start[j].pc = "create"
                              THEN [NoStart EXCEPT !.pc = "over"] ELSE start[j]]
  /\ request' = [q \in Requests |-> IF request[q].pc = "new" THEN NoRequest
                                    ELSE [NoRequest EXCEPT !.pc = "done"]]
  /\ UNCHANGED <<job, human, newer, enrolled, faults>>

\* Mutant: only the jobs that had not begun are driven again.
RestartPendingOnly ==
  /\ ~up /\ up' = TRUE
  /\ driver' = [j \in Jobs |-> IF job[j].status = "pending" THEN Loading ELSE NoDriver]
  /\ UNCHANGED <<job, human, newer, start, request, enrolled, crashes, faults>>

\* A new process runs resume() before it serves: every unfinished job is driven.
Restart ==
  /\ ~up /\ up' = TRUE
  /\ driver' = [j \in Jobs |-> IF job[j].status \in Unfinished THEN Loading ELSE NoDriver]
  /\ UNCHANGED <<job, human, newer, start, request, enrolled, crashes, faults>>

-----------------------------------------------------------------------------
Init ==
  /\ job = [j \in Jobs |-> NoJob]
  /\ human \in [Humans -> {NoHuman, FreshHuman, LiveHuman}]
  /\ newer = {}
  /\ driver = [j \in Jobs |-> NoDriver]
  /\ start = [j \in Jobs |-> NoStart]
  /\ request = [q \in Requests |-> NoRequest]
  /\ enrolled = [j \in Jobs |-> 0]
  /\ up = TRUE
  /\ crashes = 0
  /\ faults = [j \in Jobs |-> 0]

DriverStep(j) ==
  \/ Load(j) \/ Claim(j) \/ BeginValidate(j) \/ CheckCancelled(j)
  \/ Enroll(j) \/ EnrollFails(j) \/ EnrollTimesOut(j) \/ TransactionFails(j)
  \/ PersistHuman(j) \/ PersistJob(j) \/ SaveHuman(j)
  \/ Commit(j) \/ CopyRead(j) \/ CopyCreate(j) \/ CopyReady(j) \/ Finish(j)
  \/ Fail(j) \/ FailHuman(j) \/ MarkCancelled(j) \/ CancelHuman(j)
  \/ Clean(j) \/ CleanReadJob(j) \/ CleanReadHuman(j) \/ CleanDone(j) \/ CleanFail(j)

StartStep(j) ==
  \/ \E k \in Keys \cup {None}, h \in Humans \cup {None}, m \in StartModes : StartFind(j, k, h, m)
  \/ StartCreate(j)

RequestStep(q) ==
  \/ \E j \in Jobs : CancelRead(q, j) \/ RetryRead(q, j) \/ CleanupRead(q, j)
  \/ CancelWrite(q) \/ RetryWrite(q) \/ CleanupWrite(q)
  \/ \E h \in Humans : DeleteRead(q, h)
  \/ DeleteCheck(q) \/ DeleteHuman(q)

Next ==
  \/ \E j \in Jobs : DriverStep(j) \/ StartStep(j)
  \/ \E q \in Requests : RequestStep(q)
  \/ Crash \/ Restart

Spec == Init /\ [][Next]_vars

\* The event loop runs every task that is not waiting, and the database and the
\* provider client (which has a timeout) answer every await.
FairSpec == Spec /\ \A j \in Jobs : WF_vars(DriverStep(j))

-----------------------------------------------------------------------------
PCs == {"idle", "crashed", "load", "claim", "begin", "check", "enroll", "persist_human",
        "persist", "save_human", "commit", "copy_read", "copy_create", "copy_ready",
        "finish", "fail", "fail_human", "mark_cancelled", "cancel_human",
        "clean", "clean_job", "clean_human", "clean_done", "clean_fail"}

JobRow == [status : Statuses \cup {"absent"}, done : SUBSET Stages, retries : 0..MaxRetries,
           cancelled : BOOLEAN, human : Humans \cup {None}, mode : Modes,
           key : Keys \cup {None}, voice : Resource \cup {None},
           avatar : Resource \cup {None}, remote : SUBSET Resource,
           cleanup : CleanupStates]
HumanRow == [status : {"absent", "deleted", "pending", "building", "ready", "failed", "cancelled"},
             voice : Resource \cup {None}, avatar : Resource \cup {None}]
Driver  == [pc : PCs, stage : Stages, human : Humans \cup {None}, hand : Resource \cup {None}]
Start   == [pc : {"none", "create", "over"}, key : Keys \cup {None},
            human : Humans \cup {None}, mode : Modes]
Request == [pc : {"new", "cancel", "retry", "cleanup", "delete_check", "delete", "done"},
            target : Jobs \cup Humans \cup {None}, retries : 0..MaxRetries]

\* Every variable has its type.  In particular retry_count never passes
\* max_retries, although retry() writes a count that it read earlier.
TypeOK ==
  /\ job \in [Jobs -> JobRow]
  /\ human \in [Humans -> HumanRow]
  /\ newer \in SUBSET (Jobs \X Jobs)
  /\ driver \in [Jobs -> Driver]
  /\ start \in [Jobs -> Start]
  /\ request \in [Requests -> Request]
  /\ enrolled \in [Jobs -> Nat]
  /\ up \in BOOLEAN
  /\ crashes \in 0..MaxCrashes
  /\ faults \in [Jobs -> Nat]

\* Two start calls with one idempotency key, however they interleave between the
\* lookup and the insert, leave at most one job with that key.
OneJobPerKey ==
  \A i, j \in Jobs : Created(i) /\ Created(j) /\ job[i].key # None /\ job[i].key = job[j].key
                     => i = j

\* A row that says RUNNING has a driver at work in the running process, unless
\* that driver died of an exception: cancel, retry and cleanup calls that lost a
\* race with the driver leave other states behind, but never an idle RUNNING.
RunningHasDriver ==
  \A j \in Jobs : up /\ job[j].status = "running" => driver[j].pc # "idle"

\* The driver dies of an exception only when the human it builds was deleted
\* under it (DigitalHumanNotFoundError outside the try of _drive) or one of its
\* own calls has failed (a database error there).
DriverDeathsAreKnown ==
  \A j \in Jobs : driver[j].pc = "crashed"
                  => faults[j] > 0 \/ \E h \in Humans : human[h].status = "deleted"

\* SUCCEEDED is only ever written with all four stages persisted, across
\* retries, resumes and cancels that came too late.
SucceededIsComplete ==
  \A j \in Jobs : job[j].status = "succeeded" => job[j].done = Stages

\* A READY human has both of its remote ids, whichever job and mode made it.
ReadyIsComplete ==
  \A h \in Humans : human[h].status = "ready" => human[h].voice # None /\ human[h].avatar # None

\* A rebuild keeps the original version until it is complete, then swaps both
\* ids at once: on a human that no "new" job works on, the two ids come from the
\* same job, which has every stage done, or are both the original ones.
RebuildSwapsBothIds ==
  \A h \in Humans :
    human[h].status = "ready"
    /\ (\A j \in Jobs : job[j].mode # "new" \/ h \notin {job[j].human, driver[j].human})
    /\ (\A j \in Jobs : job[j].mode = "new" =>
          {human[h].voice, human[h].avatar} \cap OwnedBy(j) = {})
    => \A j \in Jobs : /\ (human[h].voice \in OwnedBy(j)) = (human[h].avatar \in OwnedBy(j))
                       /\ human[h].voice \in OwnedBy(j) => job[j].done = Stages

\* What is shown as ready is whole: both ids, and both of the same making
\* (build_job_service.py:431-470).
ReadyIsWhole == ReadyIsComplete /\ RebuildSwapsBothIds

\* The remote resources of job j that nobody knows of any more.
Leaked(j) == OwnedBy(j) \ (job[j].remote \cup {driver[j].hand})

\* Retrying, resuming and cancelling never enrol a resource and lose track of
\* it: only a crash between the provider's answer and the row's update, a human
\* deleted at that moment, an enrolment whose answer was lost and a transaction
\* that failed lose one, and each at most one per job.
LeakBound ==
  \A j \in Jobs : Cardinality(Leaked(j))
                    <= crashes + faults[j] + Cardinality({h \in Humans : human[h].status = "deleted"})

\* A stage is never enrolled a second time, except for one that was lost: what
\* the row records holds at most one resource for each finished stage.
NoStageEnrolledTwice ==
  \A j \in Jobs : Cardinality(job[j].remote) = Cardinality(job[j].done \cap {"voice", "avatar"})

\* What is lost or done twice is known and bounded: resources at the provider, stages, and the
\* drivers themselves (build_job_service.py:212-330).
LossesAreKnown == LeakBound /\ NoStageEnrolledTwice /\ DriverDeathsAreKnown

\* The driver never stops in the middle: a RUNNING job leaves RUNNING, unless the
\* process dies or the driver dies of an exception (a human deleted under it, a
\* database error outside its try).
RunningSettles ==
  \A j \in Jobs : job[j].status = "running" /\ up
                  ~> (job[j].status # "running" \/ ~up \/ driver[j].pc = "crashed")

\* current(): "Completed jobs are never reported here so the UI cannot mistake a
\* finished job for a resumable one" (build_job_service.py:140-142).  A job that
\* has succeeded never becomes unfinished again.
CompletedNeverUnfinished ==
  [][\A j \in Jobs : job[j].status = "succeeded" => job'[j].status \notin Unfinished]_vars

\* "Honest delete: never delete local record while remote resources are still
\* pending cleanup" (avatar.py:354): no step deletes a human that has ids enrolled
\* by its latest job while that job is not cleaned up.
HonestDelete ==
  [][\A h \in Humans : human[h].status # "deleted" /\ human'[h].status = "deleted"
       => \A j \in Jobs : /\ IsLatest(j, h)
                          /\ {human[h].voice, human[h].avatar} \cap OwnedBy(j) # {}
                          => job[j].cleanup = "succeeded"]_vars

-----------------------------------------------------------------------------
\* The job as StagedWork sees it: the three unfinished statuses and the one
\* before a cleanup runs are open, the others but SUCCEEDED are stopped.
Outcome(status) ==
  CASE status = "absent" -> "absent"
    [] status = "succeeded" -> "succeeded"
    [] status \in Unfinished \cup {"cleanup_pending"} -> "open"
    [] OTHER -> "stopped"

Staged == INSTANCE StagedWork WITH
            done <- [j \in Jobs |-> job[j].done],
            outcome <- [j \in Jobs |-> Outcome(job[j].status)]

\* The service keeps the promise StagedWork states: stages complete in order and
\* are never lost by a retry, a cancel, a cleanup, a crash or a late write of a
\* handler, and only a job with all of them done reports success.
DoesStagedWork == Staged!Spec
=============================================================================
