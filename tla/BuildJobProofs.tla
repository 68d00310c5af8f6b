--------------------------- MODULE BuildJobProofs ---------------------------
(***************************************************************************)
(* Proofs about BuildJob, for any sets of jobs, humans and calls and any   *)
(* bounds.                                                                 *)
(***************************************************************************)
EXTENDS BuildJob, FiniteSetTheorems, TLAPS

\* The calls in flight point at what they have read.
CallsOK ==
  \A q \in Requests :
    /\ request[q].pc \in {"cancel", "retry", "cleanup"}
         => request[q].target \in Jobs /\ Created(request[q].target)
    /\ request[q].pc = "retry" => request[q].retries < MaxRetries
    /\ request[q].pc \in {"delete_check", "delete"} => request[q].target \in Humans

\* A job that has not been created has no driver and no finished stage.
UnbornOK ==
  \A j \in Jobs :
    /\ start[j].pc # "over" => ~Created(j)
    /\ ~Created(j) => driver[j].pc = "idle" /\ job[j].done = {}

Staging == {"begin", "check", "enroll", "persist_human", "persist", "save_human"}
Committing == {"commit", "copy_read", "copy_create", "copy_ready", "finish"}

\* What a driver in the middle of its work knows of the row.
DriverOK ==
  \A j \in Jobs :
    /\ driver[j].pc \in Staging => /\ job[j].done # Stages
                                   /\ driver[j].stage = NextStage(job[j].done)
    /\ driver[j].pc \in Committing => job[j].done = Stages
    /\ driver[j].pc \in {"fail_human", "cancel_human"} => job[j].status # "running"

IInv == /\ TypeOK /\ CallsOK /\ UnbornOK /\ DriverOK
        /\ RunningHasDriver /\ SucceededIsComplete

-----------------------------------------------------------------------------
\* Writing a well-typed row keeps the table and its order well typed.
LEMMA UpdateJobType ==
  ASSUME TypeOK, NEW j \in Jobs, NEW row \in JobRow, UpdateJob(j, row)
  PROVE  job' \in [Jobs -> JobRow] /\ newer' \in SUBSET (Jobs \X Jobs)
BY DEF TypeOK, UpdateJob, Touch

\* The initial and emptied values of the records have their types.
LEMMA NoValuesTyped ==
  NoJob \in JobRow /\ NoDriver \in Driver /\ Loading \in Driver /\ NoStart \in Start
  /\ NoRequest \in Request /\ NoHuman \in HumanRow /\ FreshHuman \in HumanRow
  /\ LiveHuman \in HumanRow
BY BoundsAreNaturals DEF NoJob, JobRow, Modes, CleanupStates, Statuses, NoDriver, Driver, PCs, Stages,
  Loading, NoStart, Start, NoRequest, Request, NoHuman, HumanRow, FreshHuman, LiveHuman,
  Original, Resource

\* The next stage exists, is not done, and comes after stages that are.
LEMMA NextStageIsStage ==
  ASSUME NEW done \in SUBSET Stages, done # Stages
  PROVE  NextStage(done) \in Stages \ done /\ Before[NextStage(done)] \subseteq done
<1>1. \E s \in Stages \ done : Before[s] \subseteq done
  BY DEF Stages, Before
<1> QED BY <1>1 DEF NextStage

\* Row and driver of one job after a step that keeps the invariant.
Fits(row, d, alive) ==
  /\ row.status # "absent"
  /\ row.status = "running" /\ alive => d.pc # "idle"
  /\ row.status = "succeeded" => row.done = Stages
  /\ d.pc \in Staging => row.done # Stages /\ d.stage = NextStage(row.done)
  /\ d.pc \in Committing => row.done = Stages
  /\ d.pc \in {"fail_human", "cancel_human"} => row.status # "running"

Answered == [NoRequest EXCEPT !.pc = "done"]

\* A step that changes the row and the driver of one existing job.
LEMMA JobStep ==
  ASSUME IInv, NEW j \in Jobs, Created(j), NEW row \in JobRow, NEW d \in Driver,
         job' = [job EXCEPT ![j] = row], driver' = [driver EXCEPT ![j] = d],
         newer' \in SUBSET (Jobs \X Jobs), human' \in [Humans -> HumanRow],
         enrolled' \in [Jobs -> Nat], UNCHANGED <<start, up, crashes>>,
         request' \in [Requests -> Request], faults' \in [Jobs -> Nat],
         \A q \in Requests : request'[q] = request[q] \/ request'[q] = Answered,
         Fits(row, d, up)
  PROVE  IInv'
<1> USE DEF IInv, Created
<1>1. TypeOK'
  BY DEF TypeOK
<1>2. \A i \in Jobs : /\ i # j => job'[i] = job[i] /\ driver'[i] = driver[i]
                      /\ i = j => job'[i] = row /\ driver'[i] = d
  BY DEF TypeOK
<1>3. CallsOK'
  <2> SUFFICES ASSUME NEW q \in Requests PROVE CallsOK!(q)'
    BY DEF CallsOK
  <2>1. CASE request'[q] = request[q]
    BY <2>1, <1>2 DEF CallsOK, Fits
  <2>2. CASE request'[q] = Answered
    BY <2>2 DEF CallsOK, Answered, NoRequest
  <2> QED BY <2>1, <2>2
<1>4. UnbornOK'
  BY <1>2 DEF UnbornOK, Fits
<1>5. DriverOK'
  BY <1>2 DEF DriverOK, Fits
<1>6. RunningHasDriver' /\ SucceededIsComplete'
  BY <1>2 DEF RunningHasDriver, SucceededIsComplete, Fits
<1> QED BY <1>1, <1>3, <1>4, <1>5, <1>6

\* update_status keeps the table of humans well typed.
LEMMA HumanUpdateType ==
  ASSUME TypeOK, NEW h \in Humans, NEW st \in {"building", "ready", "failed", "cancelled"},
         NEW v \in Resource \cup {None}, NEW a \in Resource \cup {None}, UpdateHuman(h, st, v, a)
  PROVE  human' \in [Humans -> HumanRow]
BY DEF TypeOK, UpdateHuman, HumanRow, Coalesce

\* A human that is present is a human, not None.
LEMMA PresentIsHuman ==
  ASSUME NEW h \in Humans \cup {None}, Present(h)
  PROVE  h \in Humans
BY DEF Present

\* The driver that goes on after its row was written RUNNING fits that row.
LEMMA GoingFits ==
  ASSUME NEW row \in JobRow, row.status = "running", NEW mode \in Modes,
         NEW h \in Humans \cup {None}
  PROVE  Going(mode, row.done, h) \in Driver /\ Fits(row, Going(mode, row.done, h), up)
<1>1. row.done \in SUBSET Stages
  BY DEF JobRow
<1>2. row.done # Stages => NextStage(row.done) \in Stages
  BY <1>1, NextStageIsStage
<1> DEFINE g == Going(mode, row.done, h)
<1>3. g \in Driver
  BY <1>1, <1>2 DEF Going, Driver, PCs, Stages
<1>4. /\ g.pc \in Staging => row.done # Stages /\ g.stage = NextStage(row.done)
      /\ g.pc \in Committing => row.done = Stages
      /\ g.pc \notin {"idle", "fail_human", "cancel_human"}
  BY DEF Going, Staging, Committing
<1> QED BY <1>3, <1>4 DEF Fits

\* What the invariant says of a job whose driver is not idle.
LEMMA DriverFacts ==
  ASSUME IInv, NEW j \in Jobs, driver[j].pc # "idle"
  PROVE  /\ Created(j) /\ job[j] \in JobRow /\ driver[j] \in Driver
         /\ driver[j].pc \in Staging => /\ job[j].done # Stages
                                        /\ driver[j].stage = NextStage(job[j].done)
         /\ driver[j].pc \in Committing => job[j].done = Stages
BY DEF IInv, TypeOK, UnbornOK, DriverOK

\* A step that leaves the row alone and moves the driver on.
LEMMA DriverOnlyStep ==
  ASSUME IInv, NEW j \in Jobs, driver[j].pc # "idle", NEW d \in Driver,
         driver' = [driver EXCEPT ![j] = d],
         UNCHANGED <<job, newer, start, request, up, crashes>>,
         human' \in [Humans -> HumanRow], enrolled' \in [Jobs -> Nat], faults' \in [Jobs -> Nat],
         d.pc = "idle" => job[j].status # "running",
         d.pc \in Staging => driver[j].pc \in Staging /\ d.stage = driver[j].stage,
         d.pc \in Committing => driver[j].pc \in Committing,
         d.pc \notin {"fail_human", "cancel_human"}
  PROVE  IInv'
<1>1. Created(j) /\ job[j] \in JobRow
  BY DriverFacts
<1>2. Fits(job[j], d, up)
  BY DriverFacts DEF Fits, Created, IInv, SucceededIsComplete
<1>3. job' = [job EXCEPT ![j] = job[j]]
  BY DEF IInv, TypeOK
<1>4. newer' \in SUBSET (Jobs \X Jobs) /\ request' \in [Requests -> Request]
  BY DEF IInv, TypeOK
<1> QED BY <1>1, <1>2, <1>3, <1>4, JobStep

\* A driver step that writes the row.
LEMMA RowStep ==
  ASSUME IInv, NEW j \in Jobs, driver[j].pc # "idle", NEW row \in JobRow, NEW d \in Driver,
         UpdateJob(j, row), driver' = [driver EXCEPT ![j] = d], Fits(row, d, up),
         UNCHANGED <<human, enrolled, others>>
  PROVE  IInv'
<1>1. Created(j)
  BY DriverFacts
<1>2. newer' \in SUBSET (Jobs \X Jobs) /\ job' = [job EXCEPT ![j] = row]
  BY UpdateJobType DEF IInv, UpdateJob
<1>3. /\ human' \in [Humans -> HumanRow] /\ enrolled' \in [Jobs -> Nat]
      /\ request' \in [Requests -> Request] /\ UNCHANGED <<start, up, crashes>>
      /\ faults' \in [Jobs -> Nat]
      /\ \A q \in Requests : request'[q] = request[q]
  BY DEF IInv, TypeOK, others
<1> QED BY <1>1, <1>2, <1>3, JobStep

-----------------------------------------------------------------------------
\* The steps of the driver that write the row.

\* The claim writes RUNNING and enters the first stage that is not done.
LEMMA ClaimStep == ASSUME IInv, NEW j \in Jobs, Claim(j) PROVE IInv'
<1> DEFINE row == [job[j] EXCEPT !.status = "running"]
           d == Going(job[j].mode, row.done, job[j].human)
<1>1. driver[j].pc # "idle" /\ job[j] \in JobRow
  BY DriverFacts DEF Claim, At
<1>2. /\ row \in JobRow /\ row.status = "running" /\ row.done = job[j].done
      /\ job[j].mode \in Modes /\ job[j].human \in Humans \cup {None}
  BY <1>1 DEF JobRow, Statuses
<1>3. d \in Driver /\ Fits(row, d, up)
  BY <1>2, GoingFits
<1>4. UpdateJob(j, row) /\ driver' = [driver EXCEPT ![j] = d]
  BY <1>2 DEF Claim, SetStatus, Enter
<1> QED BY <1>1, <1>2, <1>3, <1>4, RowStep DEF Claim

\* _run_stage marks the row RUNNING and goes on to the cancellation check.
LEMMA BeginValidateStep == ASSUME IInv, NEW j \in Jobs, BeginValidate(j) PROVE IInv'
<1> DEFINE row == [job[j] EXCEPT !.status = "running"]
           d == [driver[j] EXCEPT !.pc = "check"]
<1>1. driver[j].pc \in Staging /\ driver[j].pc # "idle"
  BY DEF BeginValidate, At, Staging
<1>2. /\ job[j] \in JobRow /\ driver[j] \in Driver
      /\ job[j].done # Stages /\ driver[j].stage = NextStage(job[j].done)
  BY <1>1, DriverFacts
<1>3. row \in JobRow /\ row.status = "running" /\ row.done = job[j].done
  BY <1>2 DEF JobRow, Statuses
<1>4. d \in Driver /\ d.pc = "check" /\ d.stage = driver[j].stage
  BY <1>2 DEF Driver, PCs
<1>5. Fits(row, d, up)
  BY <1>2, <1>3, <1>4 DEF Fits, Staging, Committing
<1>6. UpdateJob(j, row) /\ driver' = [driver EXCEPT ![j] = d]
  BY DEF BeginValidate, SetStatus, Goto
<1> QED BY <1>1, <1>3, <1>4, <1>5, <1>6, RowStep DEF BeginValidate

\* A recorded stage is followed by the next one, or by the commit when all are done.
LEMMA PersistJobStep == ASSUME IInv, NEW j \in Jobs, PersistJob(j) PROVE IInv'
<1> DEFINE dr == driver[j]
           staging == job[j].mode # "new"
           row == [job[j] EXCEPT
                     !.status = "running",
                     !.done   = @ \cup {dr.stage},
                     !.voice  = IF staging THEN Coalesce(Enrolled(j, "voice"), @) ELSE @,
                     !.avatar = IF staging THEN Coalesce(Enrolled(j, "avatar"), @) ELSE @,
                     !.remote = @ \cup ({dr.hand} \ {None})]
           d == Going(job[j].mode, row.done, job[j].human)
<1>1. dr.pc # "idle" /\ job[j] \in JobRow /\ dr \in Driver
  BY DriverFacts DEF PersistJob, At
<1>2. Enrolled(j, "voice") \in Resource \cup {None} /\ Enrolled(j, "avatar") \in Resource \cup {None}
  BY <1>1 DEF Enrolled, Driver
<1>3. /\ row \in JobRow /\ row.status = "running" /\ row.done = job[j].done \cup {dr.stage}
      /\ job[j].mode \in Modes /\ job[j].human \in Humans \cup {None}
  <2> DEFINE v == IF staging THEN Coalesce(Enrolled(j, "voice"), job[j].voice) ELSE job[j].voice
             a == IF staging THEN Coalesce(Enrolled(j, "avatar"), job[j].avatar) ELSE job[j].avatar
             m == job[j].remote \cup ({dr.hand} \ {None})
             n == job[j].done \cup {dr.stage}
  <2>1. job[j].voice \in Resource \cup {None} /\ job[j].avatar \in Resource \cup {None}
    BY <1>1 DEF JobRow
  <2>2. v \in Resource \cup {None} /\ a \in Resource \cup {None}
    BY <1>2, <2>1 DEF Coalesce
  <2>3. m \in SUBSET Resource /\ n \in SUBSET Stages
    BY <1>1 DEF JobRow, Driver
  <2>4. row = [job[j] EXCEPT !.status = "running", !.done = n, !.voice = v, !.avatar = a, !.remote = m]
    OBVIOUS
  <2> HIDE DEF v, a, m, n, row
  <2>5. row \in JobRow /\ row.status = "running" /\ row.done = n
    BY <1>1, <2>2, <2>3, <2>4 DEF JobRow, Statuses
  <2>6. job[j].mode \in Modes /\ job[j].human \in Humans \cup {None}
    BY <1>1 DEF JobRow
  <2> QED BY <2>5, <2>6 DEF n
<1>4. d \in Driver /\ Fits(row, d, up)
  BY <1>3, GoingFits
<1>5. UpdateJob(j, row) /\ driver' = [driver EXCEPT ![j] = d]
  BY <1>3 DEF PersistJob, Enter
<1> QED BY <1>1, <1>3, <1>4, <1>5, RowStep DEF PersistJob

\* SUCCEEDED is written by a driver that has all stages done.
LEMMA FinishStep == ASSUME IInv, NEW j \in Jobs, Finish(j) PROVE IInv'
<1> DEFINE row == [job[j] EXCEPT !.status = "succeeded"]
<1>1. driver[j].pc # "idle" /\ job[j] \in JobRow /\ job[j].done = Stages
  BY DriverFacts DEF Finish, At, Committing
<1>2. row \in JobRow /\ row.status = "succeeded" /\ row.done = Stages
  BY <1>1 DEF JobRow, Statuses
<1>3. NoDriver \in Driver /\ Fits(row, NoDriver, up)
  BY <1>2, NoValuesTyped DEF Fits, NoDriver, Staging, Committing
<1> QED BY <1>1, <1>2, <1>3, RowStep DEF Finish, SetStatus, End

\* FAILED and CANCELLED are written before the human is settled.
LEMMA SettleStep ==
  ASSUME IInv, NEW j \in Jobs, NEW pc, pc # "idle", NEW next \in {"fail_human", "cancel_human"},
         NEW st \in {"failed", "cancelled"}, Settle(j, pc, st, next)
  PROVE  IInv'
<1> DEFINE row == [job[j] EXCEPT !.status = st]
           d == IF TouchesHuman(j) THEN [driver[j] EXCEPT !.pc = next] ELSE NoDriver
<1>1. driver[j].pc # "idle" /\ job[j] \in JobRow /\ driver[j] \in Driver
  BY DriverFacts DEF Settle, At
<1>2. row \in JobRow /\ row.status = st /\ row.done = job[j].done
  BY <1>1 DEF JobRow, Statuses
<1>3. d \in Driver /\ d.pc \in {"fail_human", "cancel_human", "idle"}
  BY <1>1, NoValuesTyped DEF Driver, PCs, NoDriver
<1>4. Fits(row, d, up)
  BY <1>2, <1>3 DEF Fits, Staging, Committing
<1>5. driver' = [driver EXCEPT ![j] = d]
  BY DEF Settle, Goto, End
<1> QED BY <1>1, <1>2, <1>3, <1>4, <1>5, RowStep DEF Settle, SetStatus

\* A cleanup is marked pending before the remote ids are read.
LEMMA CleanStep == ASSUME IInv, NEW j \in Jobs, Clean(j) PROVE IInv'
<1> DEFINE row == [job[j] EXCEPT !.status = "cleanup_pending", !.cleanup = "pending"]
           d == [driver[j] EXCEPT !.pc = "clean_job"]
<1>1. driver[j].pc # "idle" /\ job[j] \in JobRow /\ driver[j] \in Driver
  BY DriverFacts DEF Clean, At
<1>2. row \in JobRow /\ row.status = "cleanup_pending"
  BY <1>1 DEF JobRow, Statuses, CleanupStates
<1>3. d \in Driver /\ d.pc = "clean_job"
  BY <1>1 DEF Driver, PCs
<1>4. Fits(row, d, up)
  BY <1>2, <1>3 DEF Fits, Staging, Committing
<1> QED BY <1>1, <1>2, <1>3, <1>4, RowStep DEF Clean, Goto

\* A cleanup ends with the row settled and the driver gone.
LEMMA CleanEndStep ==
  ASSUME IInv, NEW j \in Jobs, NEW pc, pc # "idle", NEW st \in {"cancelled", "cleanup_failed"},
         NEW c \in CleanupStates, CleanEnd(j, pc, st, c)
  PROVE  IInv'
<1> DEFINE row == [job[j] EXCEPT !.status = st, !.cleanup = c]
<1>1. driver[j].pc # "idle" /\ job[j] \in JobRow
  BY DriverFacts DEF CleanEnd, At
<1>2. row \in JobRow /\ row.status = st
  BY <1>1 DEF JobRow, Statuses
<1>3. NoDriver \in Driver /\ Fits(row, NoDriver, up)
  BY <1>2, NoValuesTyped DEF Fits, NoDriver, Staging, Committing
<1> QED BY <1>1, <1>2, <1>3, RowStep DEF CleanEnd, End

-----------------------------------------------------------------------------
\* The steps of the driver that leave the row alone.
Quiet == PCs \ (Staging \cup Committing \cup {"idle", "fail_human", "cancel_human"})

\* ... to a pc that says nothing of the row, or keeps what is known of it.
LEMMA MoveStep ==
  ASSUME IInv, NEW j \in Jobs, driver[j].pc # "idle", NEW d \in Driver,
         driver' = [driver EXCEPT ![j] = d], d.stage = driver[j].stage,
         UNCHANGED <<job, newer, others>>,
         human' \in [Humans -> HumanRow], enrolled' \in [Jobs -> Nat],
         \/ d.pc \in Quiet
         \/ d.pc \in Staging /\ driver[j].pc \in Staging
         \/ d.pc \in Committing /\ driver[j].pc \in Committing
  PROVE  IInv'
<1>1. /\ d.pc = "idle" => job[j].status # "running"
      /\ d.pc \in Staging => driver[j].pc \in Staging /\ d.stage = driver[j].stage
      /\ d.pc \in Committing => driver[j].pc \in Committing
      /\ d.pc \notin {"fail_human", "cancel_human"}
  BY DEF Quiet, Staging, Committing
<1>2. faults' \in [Jobs -> Nat]
  BY DEF others, IInv, TypeOK
<1> QED BY <1>1, <1>2, DriverOnlyStep DEF others

\* The driver ends, or dies of an exception, and leaves the row as it is.
LEMMA StopStep ==
  ASSUME IInv, NEW j \in Jobs, driver[j].pc # "idle",
         (End(j) /\ job[j].status # "running") \/ Raise(j),
         UNCHANGED <<job, newer, enrolled, others>>, human' \in [Humans -> HumanRow]
  PROVE  IInv'
<1>1. /\ enrolled' \in [Jobs -> Nat] /\ faults' \in [Jobs -> Nat]
      /\ NoDriver \in Driver /\ NoDriver.pc = "idle"
  BY NoValuesTyped DEF IInv, TypeOK, NoDriver, others
<1>2. CASE End(j) /\ job[j].status # "running"
  BY <1>1, <1>2, DriverOnlyStep DEF End, others, Staging, Committing
<1>3. CASE Raise(j)
  <2> DEFINE d == [NoDriver EXCEPT !.pc = "crashed"]
  <2>1. d \in Driver /\ d.pc = "crashed"
    BY NoValuesTyped DEF NoDriver, Driver, PCs, Stages
  <2> QED BY <1>1, <1>3, <2>1, DriverOnlyStep DEF Raise, others, Staging, Committing
<1> QED BY <1>2, <1>3

\* The driver moves on within its stage, within the commit, or out of both.
LEMMA GotoStep ==
  ASSUME IInv, NEW j \in Jobs, driver[j].pc # "idle", NEW pc \in PCs, Goto(j, pc),
         UNCHANGED <<job, newer, enrolled, others>>, human' \in [Humans -> HumanRow],
         \/ pc \in Quiet
         \/ pc \in Staging /\ driver[j].pc \in Staging
         \/ pc \in Committing /\ driver[j].pc \in Committing
  PROVE  IInv'
<1> DEFINE d == [driver[j] EXCEPT !.pc = pc]
<1>1. driver[j] \in Driver /\ enrolled' \in [Jobs -> Nat]
  BY DriverFacts DEF IInv, TypeOK
<1>2. d \in Driver /\ d.pc = pc /\ d.stage = driver[j].stage
  BY <1>1 DEF Driver
<1> QED BY <1>1, <1>2, MoveStep DEF Goto

\* A driver that finds a row which is over ends; that row is not RUNNING.
LEMMA LoadStep == ASSUME IInv, NEW j \in Jobs, Load(j) PROVE IInv'
<1>1. /\ driver[j].pc # "idle" /\ driver[j] \in Driver /\ job[j] \in JobRow
      /\ human' \in [Humans -> HumanRow] /\ enrolled' \in [Jobs -> Nat]
  BY DriverFacts DEF Load, At, IInv, TypeOK
<1>2. CASE job[j].status \in Unfinished \cup {"cleanup_pending"}
  <2> DEFINE pc == CASE job[j].status = "cancelling" -> "mark_cancelled"
                     [] job[j].status = "cleanup_pending" -> "clean"
                     [] OTHER -> "claim"
             d == [driver[j] EXCEPT !.human = job[j].human, !.pc = pc]
  <2>1. pc \in {"mark_cancelled", "clean", "claim"}
    OBVIOUS
  <2>2. pc \in PCs /\ pc \in Quiet
    BY <2>1 DEF PCs, Quiet, Staging, Committing
  <2> HIDE DEF pc
  <2>3. d \in Driver /\ d.pc = pc /\ d.stage = driver[j].stage
    BY <1>1, <2>2 DEF Driver, JobRow
  <2>4. driver' = [driver EXCEPT ![j] = d]
    BY <1>2 DEF Load, pc
  <2> QED BY <1>1, <2>2, <2>3, <2>4, MoveStep DEF Load
<1>3. CASE job[j].status \notin Unfinished \cup {"cleanup_pending"}
  BY <1>1, <1>3, StopStep DEF Load, End, Unfinished
<1> QED BY <1>2, <1>3

\* A stage that is cancelled or has no media leaves for the row's settlement.
LEMMA CheckCancelledStep == ASSUME IInv, NEW j \in Jobs, CheckCancelled(j) PROVE IInv'
<1>1. /\ driver[j].pc # "idle" /\ driver[j].pc \in Staging /\ human' \in [Humans -> HumanRow]
  BY DEF CheckCancelled, At, Staging, IInv, TypeOK
<1>2. \E pc \in {"mark_cancelled", "fail", "persist", "save_human", "enroll"} : Goto(j, pc)
  BY DEF CheckCancelled
<1>3. PICK pc \in {"mark_cancelled", "fail", "persist", "save_human", "enroll"} : Goto(j, pc)
  BY <1>2
<1>4. pc \in PCs /\ (pc \in Quiet \/ pc \in Staging)
  BY <1>3 DEF PCs, Quiet, Staging, Committing
<1> QED BY <1>1, <1>3, <1>4, GotoStep DEF CheckCancelled

\* An answer of the provider is kept in the driver until it is persisted.
LEMMA EnrollStep == ASSUME IInv, NEW j \in Jobs, Enroll(j) PROVE IInv'
<1> DEFINE pc == IF TouchesHuman(j) THEN "persist_human" ELSE "persist"
           hand == [owner |-> j, n |-> enrolled[j] + 1]
           d == [driver[j] EXCEPT !.hand = hand, !.pc = pc]
<1>1. /\ driver[j].pc # "idle" /\ driver[j].pc \in Staging /\ driver[j] \in Driver
      /\ enrolled[j] \in Nat /\ human' \in [Humans -> HumanRow] /\ enrolled' \in [Jobs -> Nat]
  BY DriverFacts DEF Enroll, At, Staging, IInv, TypeOK
<1>2. hand \in Resource /\ driver[j].human \in Humans \cup {None}
  BY <1>1 DEF Resource, Driver
<1>3. pc \in PCs /\ pc \in Staging
  BY DEF PCs, Staging
<1>4. d \in Driver /\ d.pc = pc /\ d.stage = driver[j].stage
  BY <1>1, <1>2, <1>3 DEF Driver
<1>5. driver' = [driver EXCEPT ![j] = d]
  BY <1>1 DEF Enroll, IInv, TypeOK
<1>6. UNCHANGED <<job, newer, others>>
  BY DEF Enroll
<1> HIDE DEF d
<1> QED BY <1>1, <1>3, <1>4, <1>5, <1>6, MoveStep

\* A provider that fails sends the driver to the failure handler.
LEMMA EnrollFailsStep == ASSUME IInv, NEW j \in Jobs, EnrollFails(j) PROVE IInv'
BY GotoStep DEF EnrollFails, At, IInv, TypeOK, PCs, Quiet, Staging, Committing

\* So does an answer that never comes, whatever the provider has made.
LEMMA EnrollTimesOutStep == ASSUME IInv, NEW j \in Jobs, EnrollTimesOut(j) PROVE IInv'
<1> DEFINE d == [driver[j] EXCEPT !.pc = "fail"]
<1>1. driver[j].pc # "idle" /\ driver[j] \in Driver
  BY DriverFacts DEF EnrollTimesOut, At
<1>2. /\ human' \in [Humans -> HumanRow] /\ enrolled' \in [Jobs -> Nat]
      /\ faults' \in [Jobs -> Nat]
  BY DEF EnrollTimesOut, IInv, TypeOK
<1>3. d \in Driver /\ d.pc = "fail"
  BY <1>1 DEF Driver, PCs
<1>4. driver' = [driver EXCEPT ![j] = d]
  BY <1>1 DEF EnrollTimesOut, Goto, IInv, TypeOK
<1> QED BY <1>1, <1>2, <1>3, <1>4, DriverOnlyStep DEF EnrollTimesOut, Staging, Committing

\* A transaction that fails leaves every row alone and sends the driver to a
\* failure handler, or ends it.
LEMMA TransactionFailsStep == ASSUME IInv, NEW j \in Jobs, TransactionFails(j) PROVE IInv'
<1>1. driver[j].pc # "idle" /\ driver[j] \in Driver
  BY DriverFacts DEF TransactionFails, InTry, InCleanup, Outside
<1>2. /\ human' \in [Humans -> HumanRow] /\ enrolled' \in [Jobs -> Nat]
      /\ faults' \in [Jobs -> Nat]
  BY DEF TransactionFails, IInv, TypeOK
<1>3. \E d \in Driver : /\ driver' = [driver EXCEPT ![j] = d]
                        /\ d.pc \in {"fail", "clean_fail", "crashed"}
  <2>1. CASE driver' = [driver EXCEPT ![j].pc = "fail", ![j].hand = None]
    <3> DEFINE d == [driver[j] EXCEPT !.pc = "fail", !.hand = None]
    <3>1. d \in Driver /\ d.pc = "fail"
      BY <1>1 DEF Driver, PCs
    <3>2. driver' = [driver EXCEPT ![j] = d]
      BY <1>1, <2>1 DEF IInv, TypeOK
    <3> QED BY <3>1, <3>2
  <2>2. CASE Goto(j, "clean_fail")
    <3> DEFINE d == [driver[j] EXCEPT !.pc = "clean_fail"]
    <3>1. d \in Driver /\ d.pc = "clean_fail"
      BY <1>1 DEF Driver, PCs
    <3>2. driver' = [driver EXCEPT ![j] = d]
      BY <1>1, <2>2 DEF Goto, IInv, TypeOK
    <3> QED BY <3>1, <3>2
  <2>3. CASE Raise(j)
    <3> DEFINE d == [NoDriver EXCEPT !.pc = "crashed"]
    <3>1. d \in Driver /\ d.pc = "crashed"
      BY NoValuesTyped DEF NoDriver, Driver, PCs, Stages
    <3> QED BY <2>3, <3>1 DEF Raise
  <2> QED BY <2>1, <2>2, <2>3 DEF TransactionFails
<1> QED BY <1>1, <1>2, <1>3, DriverOnlyStep DEF TransactionFails, Staging, Committing

\* A human deleted since fails the stage, inside the try.
LEMMA PersistHumanStep == ASSUME IInv, NEW j \in Jobs, PersistHuman(j) PROVE IInv'
<1> DEFINE h == driver[j].human
<1>1. /\ driver[j].pc # "idle" /\ driver[j].pc \in Staging /\ driver[j] \in Driver
      /\ h \in Humans \cup {None} /\ enrolled' \in [Jobs -> Nat]
  BY DriverFacts DEF PersistHuman, At, Staging, IInv, TypeOK, Driver
<1>2. CASE Present(h)
  <2>1. h \in Humans
    BY <1>1, <1>2, PresentIsHuman
  <2>2. Enrolled(j, "voice") \in Resource \cup {None} /\ Enrolled(j, "avatar") \in Resource \cup {None}
    BY <1>1 DEF Enrolled, Driver
  <2>3. human' \in [Humans -> HumanRow]
    BY <1>2, <2>1, <2>2, HumanUpdateType DEF PersistHuman, IInv
  <2> QED BY <1>1, <1>2, <2>3, GotoStep DEF PersistHuman, PCs, Staging
<1>3. CASE ~Present(h)
  <2>1. human' \in [Humans -> HumanRow]
    BY <1>3 DEF PersistHuman, IInv, TypeOK
  <2> DEFINE d == [driver[j] EXCEPT !.pc = "fail", !.hand = None]
  <2>2. d \in Driver /\ d.pc = "fail" /\ d.stage = driver[j].stage
    BY <1>1 DEF Driver, PCs
  <2>3. driver' = [driver EXCEPT ![j] = d]
    BY <1>1, <1>3 DEF PersistHuman, IInv, TypeOK
  <2>4. "fail" \in Quiet
    BY DEF PCs, Quiet, Staging, Committing
  <2> QED BY <1>1, <1>3, <2>1, <2>2, <2>3, <2>4, MoveStep DEF PersistHuman
<1> QED BY <1>2, <1>3

\* So it does in the last stage.
LEMMA SaveHumanStep == ASSUME IInv, NEW j \in Jobs, SaveHuman(j) PROVE IInv'
<1> DEFINE h == driver[j].human
<1>1. /\ driver[j].pc # "idle" /\ driver[j].pc \in Staging /\ driver[j] \in Driver
      /\ h \in Humans \cup {None}
  BY DriverFacts DEF SaveHuman, At, Staging, Driver
<1>2. human' \in [Humans -> HumanRow]
  BY <1>1, PresentIsHuman, HumanUpdateType DEF SaveHuman, IInv, TypeOK
<1>3. \E pc \in {"persist", "fail"} : Goto(j, pc)
  BY DEF SaveHuman
<1>4. PICK pc \in {"persist", "fail"} : Goto(j, pc)
  BY <1>3
<1>5. pc \in PCs /\ (pc \in Quiet \/ pc \in Staging)
  BY <1>4 DEF PCs, Quiet, Staging, Committing
<1> QED BY <1>1, <1>2, <1>4, <1>5, GotoStep DEF SaveHuman

\* A human deleted since kills the driver at the commit, outside the try.
LEMMA CommitStep == ASSUME IInv, NEW j \in Jobs, Commit(j) PROVE IInv'
<1> DEFINE h == driver[j].human
<1>1. /\ driver[j].pc # "idle" /\ driver[j].pc \in Committing /\ job[j] \in JobRow
      /\ h \in Humans \cup {None}
  BY DriverFacts DEF Commit, At, Committing, Driver
<1>2. job[j].voice \in Resource \cup {None} /\ job[j].avatar \in Resource \cup {None}
  BY <1>1 DEF JobRow
<1>3. CASE Present(h)
  <2>1. human' \in [Humans -> HumanRow]
    BY <1>1, <1>2, <1>3, PresentIsHuman, HumanUpdateType DEF Commit, IInv
  <2> QED BY <1>1, <1>3, <2>1, GotoStep DEF Commit, PCs, Committing
<1>4. CASE ~Present(h)
  BY <1>1, <1>4, StopStep DEF Commit, IInv, TypeOK
<1> QED BY <1>3, <1>4

\* A copy reads its source, which may have been deleted.
LEMMA CopyReadStep == ASSUME IInv, NEW j \in Jobs, CopyRead(j) PROVE IInv'
<1>1. /\ driver[j].pc # "idle" /\ driver[j].pc \in Committing /\ human' \in [Humans -> HumanRow]
  BY DEF CopyRead, At, Committing, IInv, TypeOK
<1>2. CASE Goto(j, "copy_create")
  BY <1>1, <1>2, GotoStep DEF CopyRead, PCs, Committing
<1>3. CASE Raise(j)
  BY <1>1, <1>3, StopStep DEF CopyRead
<1> QED BY <1>2, <1>3 DEF CopyRead

\* A copy makes a new human.
LEMMA CopyCreateStep == ASSUME IInv, NEW j \in Jobs, CopyCreate(j) PROVE IInv'
<1>1. /\ driver[j].pc # "idle" /\ driver[j].pc \in Committing /\ driver[j] \in Driver
      /\ enrolled' \in [Jobs -> Nat]
  BY DriverFacts DEF CopyCreate, At, Committing, IInv, TypeOK
<1>2. PICK h \in Humans : /\ human' = [human EXCEPT ![h] = FreshHuman]
                          /\ driver' = [driver EXCEPT ![j].human = h, ![j].pc = "copy_ready"]
  BY DEF CopyCreate
<1> DEFINE d == [driver[j] EXCEPT !.human = h, !.pc = "copy_ready"]
<1>3. human' \in [Humans -> HumanRow]
  BY <1>2, NoValuesTyped DEF IInv, TypeOK
<1>4. d \in Driver /\ d.pc = "copy_ready" /\ d.stage = driver[j].stage
  BY <1>1 DEF Driver, PCs
<1>5. driver' = [driver EXCEPT ![j] = d]
  BY <1>1, <1>2 DEF IInv, TypeOK
<1>6. UNCHANGED <<job, newer, others>> /\ d.pc \in Committing
  BY <1>4 DEF CopyCreate, Committing
<1> HIDE DEF d
<1> QED BY <1>1, <1>3, <1>4, <1>5, <1>6, MoveStep

\* The copy is made ready, unless it has been deleted.
LEMMA CopyReadyStep == ASSUME IInv, NEW j \in Jobs, CopyReady(j) PROVE IInv'
<1> DEFINE h == driver[j].human
<1>1. /\ driver[j].pc # "idle" /\ driver[j].pc \in Committing /\ job[j] \in JobRow
      /\ h \in Humans \cup {None}
  BY DriverFacts DEF CopyReady, At, Committing, Driver
<1>2. job[j].voice \in Resource \cup {None} /\ job[j].avatar \in Resource \cup {None}
  BY <1>1 DEF JobRow
<1>3. CASE Present(h)
  <2>1. human' \in [Humans -> HumanRow]
    BY <1>1, <1>2, <1>3, PresentIsHuman, HumanUpdateType DEF CopyReady, IInv
  <2> QED BY <1>1, <1>3, <2>1, GotoStep DEF CopyReady, PCs, Committing
<1>4. CASE ~Present(h)
  BY <1>1, <1>4, StopStep DEF CopyReady, IInv, TypeOK
<1> QED BY <1>3, <1>4

\* The row has been settled before its human is, so the driver leaves no RUNNING row.
LEMMA SettleHumanStep ==
  ASSUME IInv, NEW j \in Jobs, NEW pc \in {"fail_human", "cancel_human"},
         NEW st \in {"failed", "cancelled"}, SettleHuman(j, pc, st)
  PROVE  IInv'
<1> DEFINE h == driver[j].human
<1>1. /\ driver[j].pc # "idle" /\ job[j].status # "running" /\ h \in Humans \cup {None}
  BY DriverFacts DEF SettleHuman, At, Driver, IInv, DriverOK
<1>2. CASE Present(h)
  <2>1. UpdateHuman(h, st, None, None) /\ h \in Humans
    BY <1>1, <1>2, PresentIsHuman DEF SettleHuman
  <2>2. human' \in [Humans -> HumanRow]
    BY <2>1, HumanUpdateType DEF IInv
  <2> QED BY <1>1, <1>2, <2>2, StopStep DEF SettleHuman
<1>3. CASE ~Present(h)
  <2>1. human' \in [Humans -> HumanRow]
    BY <1>3 DEF SettleHuman, IInv, TypeOK
  <2> QED BY <1>1, <1>3, <2>1, StopStep DEF SettleHuman
<1> QED BY <1>2, <1>3

\* A cleanup reads the human of the row as it is now.
LEMMA CleanReadJobStep == ASSUME IInv, NEW j \in Jobs, CleanReadJob(j) PROVE IInv'
<1> DEFINE pc == IF job[j].human = None THEN "clean_done" ELSE "clean_human"
           d == [driver[j] EXCEPT !.human = job[j].human, !.pc = pc]
<1>1. /\ driver[j].pc # "idle" /\ driver[j] \in Driver /\ job[j] \in JobRow
      /\ human' \in [Humans -> HumanRow] /\ enrolled' \in [Jobs -> Nat]
  BY DriverFacts DEF CleanReadJob, At, IInv, TypeOK
<1>2. pc \in PCs /\ pc \in Quiet
  BY DEF PCs, Quiet, Staging, Committing
<1>3. d \in Driver /\ d.pc = pc /\ d.stage = driver[j].stage
  BY <1>1, <1>2 DEF Driver, JobRow
<1>4. driver' = [driver EXCEPT ![j] = d]
  BY <1>1 DEF CleanReadJob, IInv, TypeOK
<1>5. UNCHANGED <<job, newer, others>>
  BY DEF CleanReadJob
<1> HIDE DEF d
<1> QED BY <1>1, <1>2, <1>3, <1>4, <1>5, MoveStep

\* ... and fails when that human is gone.
LEMMA CleanReadHumanStep == ASSUME IInv, NEW j \in Jobs, CleanReadHuman(j) PROVE IInv'
<1>1. PICK pc \in {"clean_done", "clean_fail"} : Goto(j, pc)
  BY DEF CleanReadHuman
<1>2. pc \in PCs /\ pc \in Quiet
  BY <1>1 DEF PCs, Quiet, Staging, Committing
<1>3. driver[j].pc # "idle" /\ human' \in [Humans -> HumanRow]
  BY DEF CleanReadHuman, At, IInv, TypeOK
<1> QED BY <1>1, <1>2, <1>3, GotoStep DEF CleanReadHuman

\* Every step of a driver keeps the invariant.
LEMMA DriverStepKeeps == ASSUME IInv, NEW j \in Jobs, DriverStep(j) PROVE IInv'
<1>1. CASE Fail(j) \/ MarkCancelled(j)
  BY <1>1, SettleStep DEF Fail, MarkCancelled
<1>2. CASE FailHuman(j) \/ CancelHuman(j)
  BY <1>2, SettleHumanStep DEF FailHuman, CancelHuman
<1>3. CASE CleanDone(j) \/ CleanFail(j)
  BY <1>3, CleanEndStep DEF CleanDone, CleanFail, CleanupStates
<1> QED
  BY <1>1, <1>2, <1>3, LoadStep, ClaimStep, BeginValidateStep, CheckCancelledStep, EnrollStep,
     EnrollFailsStep, EnrollTimesOutStep, TransactionFailsStep, PersistHumanStep, PersistJobStep, SaveHumanStep, CommitStep, CopyReadStep,
     CopyCreateStep, CopyReadyStep, FinishStep, CleanStep, CleanReadJobStep, CleanReadHumanStep
  DEF DriverStep

-----------------------------------------------------------------------------
\* The steps of the start call.
LEMMA StartFindStep ==
  ASSUME IInv, NEW j \in Jobs, NEW k \in Keys \cup {None}, NEW h \in Humans \cup {None},
         NEW m \in StartModes, StartFind(j, k, h, m)
  PROVE  IInv'
<1> DEFINE s == IF KeyTaken(k) THEN [start[j] EXCEPT !.pc = "over"]
                ELSE [pc |-> "create", key |-> k, human |-> h, mode |-> m]
<1>1. start[j] \in Start /\ m \in Modes /\ start' = [start EXCEPT ![j] = s]
  BY StartModesAreModes DEF StartFind, IInv, TypeOK
<1>2. s \in Start
  BY <1>1 DEF Start
<1> HIDE DEF s
<1>3. TypeOK'
  BY <1>1, <1>2 DEF StartFind, IInv, TypeOK
<1>4. \A i \in Jobs : start'[i].pc # "over" => start[i].pc # "over"
  BY <1>1 DEF StartFind, IInv, TypeOK
<1>5. UnbornOK'
  BY <1>4 DEF StartFind, IInv, UnbornOK, Created
<1>6. CallsOK' /\ DriverOK' /\ RunningHasDriver' /\ SucceededIsComplete'
  BY DEF StartFind, IInv, CallsOK, DriverOK, RunningHasDriver, SucceededIsComplete, Created
<1> QED BY <1>3, <1>5, <1>6 DEF IInv

\* The new row is PENDING with nothing done, and its driver has yet to load it.
LEMMA StartCreateStep == ASSUME IInv, NEW j \in Jobs, StartCreate(j) PROVE IInv'
<1> DEFINE over == [NoStart EXCEPT !.pc = "over"]
           row == [NoJob EXCEPT !.status = "pending", !.key = start[j].key,
                                !.human = start[j].human, !.mode = start[j].mode]
<1>1. /\ start[j] \in Start /\ ~Created(j) /\ driver[j].pc = "idle"
      /\ start' = [start EXCEPT ![j] = over]
  BY DEF StartCreate, IInv, TypeOK, UnbornOK
<1>2. over \in Start /\ over.pc = "over"
  BY NoValuesTyped DEF NoStart, Start
<1>3. row \in JobRow /\ row.status = "pending" /\ row.done = {}
  BY <1>1, NoValuesTyped DEF JobRow, NoJob, Start, Statuses
<1> HIDE DEF over, row
<1>4. UNCHANGED <<human, request, enrolled, up, crashes, faults>>
  BY DEF StartCreate
<1>5. CASE UNCHANGED <<job, newer, driver>>
  <2>1. TypeOK'
    BY <1>1, <1>2, <1>4, <1>5 DEF IInv, TypeOK
  <2>2. \A i \in Jobs : start'[i].pc # "over" => start[i].pc # "over"
    BY <1>1, <1>2 DEF IInv, TypeOK
  <2>3. UnbornOK'
    BY <1>5, <2>2 DEF IInv, UnbornOK, Created
  <2>4. CallsOK' /\ DriverOK' /\ RunningHasDriver' /\ SucceededIsComplete'
    BY <1>4, <1>5 DEF IInv, CallsOK, DriverOK, RunningHasDriver, SucceededIsComplete, Created
  <2> QED BY <2>1, <2>3, <2>4 DEF IInv
<1>6. CASE UpdateJob(j, row) /\ Spawn(j)
  <2>1. driver' = [driver EXCEPT ![j] = Loading]
    BY <1>1, <1>6 DEF Spawn, Alive
  <2>2. job' \in [Jobs -> JobRow] /\ newer' \in SUBSET (Jobs \X Jobs)
    BY <1>3, <1>6, UpdateJobType DEF IInv
  <2>3. TypeOK'
    BY <1>1, <1>2, <1>4, <2>1, <2>2, NoValuesTyped DEF IInv, TypeOK
  <2>4. \A i \in Jobs : /\ i # j => job'[i] = job[i] /\ driver'[i] = driver[i] /\ start'[i] = start[i]
                        /\ i = j => /\ job'[i].status = "pending" /\ job'[i].done = {}
                                    /\ driver'[i] = Loading /\ start'[i].pc = "over"
    BY <1>1, <1>2, <1>3, <1>6, <2>1 DEF UpdateJob, IInv, TypeOK
  <2>5. UnbornOK'
    BY <2>4 DEF IInv, UnbornOK, Created
  <2>6. CallsOK'
    BY <1>4, <2>4 DEF IInv, CallsOK, Created
  <2>7. DriverOK'
    BY <2>4 DEF IInv, DriverOK, Loading, NoDriver, Staging, Committing
  <2>8. RunningHasDriver' /\ SucceededIsComplete'
    BY <1>4, <2>4 DEF IInv, RunningHasDriver, SucceededIsComplete
  <2> QED BY <2>3, <2>5, <2>6, <2>7, <2>8 DEF IInv
<1> QED BY <1>5, <1>6 DEF StartCreate, row

-----------------------------------------------------------------------------
\* The steps of the other calls.  Those that only read change the call alone.
LEMMA RequestOnlyStep ==
  ASSUME IInv, UNCHANGED <<job, human, newer, driver, start, enrolled, up, crashes, faults>>,
         NEW q \in Requests, NEW r \in Request, request' = [request EXCEPT ![q] = r],
         r.pc \in {"cancel", "retry", "cleanup"} => r.target \in Jobs /\ Created(r.target),
         r.pc = "retry" => r.retries < MaxRetries,
         r.pc \in {"delete_check", "delete"} => r.target \in Humans
  PROVE  IInv'
<1>1. TypeOK'
  BY DEF IInv, TypeOK
<1>2. \A p \in Requests : request'[p] = IF p = q THEN r ELSE request[p]
  BY DEF IInv, TypeOK
<1>3. CallsOK'
  BY <1>2 DEF IInv, CallsOK, Created
<1>4. UnbornOK' /\ DriverOK' /\ RunningHasDriver' /\ SucceededIsComplete'
  BY DEF IInv, UnbornOK, DriverOK, RunningHasDriver, SucceededIsComplete, Created
<1> QED BY <1>1, <1>3, <1>4 DEF IInv

\* cancel, retry and cleanup read a row that exists; a retry one below the limit.
LEMMA ReadStep ==
  ASSUME IInv, NEW q \in Requests, NEW j \in Jobs,
         CancelRead(q, j) \/ RetryRead(q, j) \/ CleanupRead(q, j)
  PROVE  IInv'
<1>1. Created(j) /\ job[j] \in JobRow
  BY DEF CancelRead, RetryRead, CleanupRead, Created, IInv, TypeOK
<1>2. PICK pc \in {"cancel", "retry", "cleanup"} :
        Read(q, j, pc) /\ (pc = "retry" => job[j].retries < MaxRetries)
  BY DEF CancelRead, RetryRead, CleanupRead
<1> DEFINE r == [pc |-> pc, target |-> j, retries |-> job[j].retries]
<1>3. r \in Request
  BY <1>1 DEF Request, JobRow
<1> QED BY <1>1, <1>2, <1>3, RequestOnlyStep DEF Read

\* The writing transaction finds the job, in whatever state it is by then, and
\* leaves it unfinished, not RUNNING, with the stages it has done.
LEMMA WriteStep ==
  ASSUME IInv, NEW q \in Requests, CancelWrite(q) \/ RetryWrite(q) \/ CleanupWrite(q)
  PROVE  IInv'
<1> DEFINE j == request[q].target
<1>1. j \in Jobs /\ Created(j)
  BY DEF CancelWrite, RetryWrite, CleanupWrite, IInv, CallsOK
<1>2. job[j] \in JobRow /\ driver[j] \in Driver /\ request[q] \in Request
  BY <1>1 DEF IInv, TypeOK
<1>3. PICK row \in JobRow :
        /\ UpdateJob(j, row) /\ row.status \in {"cancelling", "pending", "cleanup_pending"}
        /\ row.done = job[j].done
  <2>1. CASE CancelWrite(q)
    <3> DEFINE row == [job[j] EXCEPT !.status = "cancelling", !.cancelled = TRUE]
    <3>1. row \in JobRow /\ row.status = "cancelling" /\ row.done = job[j].done
      BY <1>2 DEF JobRow, Statuses
    <3> QED BY <2>1, <3>1 DEF CancelWrite
  <2>2. CASE RetryWrite(q)
    <3> DEFINE row == [job[j] EXCEPT !.status = "pending", !.cancelled = FALSE,
                                     !.retries = request[q].retries + 1, !.cleanup = "none"]
    <3>1. request[q].retries + 1 \in 0..MaxRetries
      BY <1>2, <2>2, BoundsAreNaturals DEF RetryWrite, IInv, CallsOK, Request
    <3>2. row \in JobRow /\ row.status = "pending" /\ row.done = job[j].done
      BY <1>2, <3>1 DEF JobRow, Statuses, CleanupStates
    <3> QED BY <2>2, <3>2 DEF RetryWrite
  <2>3. CASE CleanupWrite(q)
    <3> DEFINE row == [job[j] EXCEPT !.status = "cleanup_pending"]
    <3>1. row \in JobRow /\ row.status = "cleanup_pending" /\ row.done = job[j].done
      BY <1>2 DEF JobRow, Statuses
    <3> QED BY <2>3, <3>1 DEF CleanupWrite, SetStatus
  <2> QED BY <2>1, <2>2, <2>3
<1>4. PICK d \in {driver[j], Loading} : driver' = [driver EXCEPT ![j] = d]
  <2>1. CASE UNCHANGED driver
    BY <1>1, <2>1 DEF IInv, TypeOK
  <2>2. CASE Spawn(j)
    BY <1>1, <2>2 DEF Spawn, IInv, TypeOK
  <2> QED BY <2>1, <2>2 DEF CancelWrite, RetryWrite, CleanupWrite
<1>5. d \in Driver
  BY <1>2, NoValuesTyped
<1>6. Fits(row, d, up)
  <2>1. CASE d = Loading
    BY <1>3, <2>1 DEF Fits, Loading, NoDriver, Staging, Committing
  <2>2. CASE d = driver[j]
    BY <1>1, <1>3, <2>2 DEF Fits, IInv, DriverOK
  <2> QED BY <2>1, <2>2
<1>7. newer' \in SUBSET (Jobs \X Jobs) /\ job' = [job EXCEPT ![j] = row]
  BY <1>1, <1>3, UpdateJobType DEF IInv, UpdateJob
<1>8. UNCHANGED <<human, start, enrolled, up, crashes, faults>> /\ request' = [request EXCEPT ![q] = Answered]
  BY DEF CancelWrite, RetryWrite, CleanupWrite, Answer, Answered
<1>9. /\ human' \in [Humans -> HumanRow] /\ enrolled' \in [Jobs -> Nat]
      /\ faults' \in [Jobs -> Nat] /\ request' \in [Requests -> Request]
      /\ \A p \in Requests : request'[p] = request[p] \/ request'[p] = Answered
  BY <1>8, NoValuesTyped DEF IInv, TypeOK, Answered, Request, NoRequest
<1> HIDE DEF j
<1> QED BY <1>1, <1>3, <1>4, <1>5, <1>6, <1>7, <1>8, <1>9, JobStep

\* delete_human reads the human.
LEMMA DeleteCallStep ==
  ASSUME IInv, NEW q \in Requests, NEW h \in Humans, DeleteRead(q, h)
  PROVE  IInv'
<1> DEFINE r == [pc |-> IF HasRemoteResources(h) THEN "delete_check" ELSE "delete",
                 target |-> h, retries |-> 0]
<1>1. r \in Request /\ r.pc \in {"delete_check", "delete"} /\ r.target = h
  BY BoundsAreNaturals DEF Request
<1> QED BY <1>1, RequestOnlyStep DEF DeleteRead, DeleteStep

\* delete_human reads the latest job and goes on or answers 409.
LEMMA DeleteCheckStep ==
  ASSUME IInv, NEW q \in Requests, DeleteCheck(q)
  PROVE  IInv'
<1> DEFINE h == request[q].target
<1>1. h \in Humans
  BY DEF DeleteCheck, IInv, CallsOK
<1>2. CASE DeleteStep(q, "done", None)
  <2> DEFINE r == [pc |-> "done", target |-> None, retries |-> 0]
  <2>1. r \in Request
    BY BoundsAreNaturals DEF Request
  <2> QED BY <1>2, <2>1, RequestOnlyStep DEF DeleteStep
<1>3. CASE DeleteStep(q, "delete", h)
  <2> DEFINE r == [pc |-> "delete", target |-> h, retries |-> 0]
  <2>1. r \in Request
    BY <1>1, BoundsAreNaturals DEF Request
  <2> QED BY <1>1, <1>3, <2>1, RequestOnlyStep DEF DeleteStep
<1> QED BY <1>2, <1>3 DEF DeleteCheck

\* Deleting a human empties the human column of its jobs and nothing else of them.
LEMMA DeleteHumanStep ==
  ASSUME IInv, NEW q \in Requests, DeleteHuman(q)
  PROVE  IInv'
<1>1. request[q].target \in Humans
  BY DEF DeleteHuman, IInv, CallsOK
<1>2. /\ job' \in [Jobs -> JobRow]
      /\ \A i \in Jobs : job'[i].status = job[i].status /\ job'[i].done = job[i].done
  <2>1. \A i \in Jobs : job[i] \in JobRow
    BY DEF IInv, TypeOK
  <2>2. \A row \in JobRow : /\ [row EXCEPT !.human = None] \in JobRow
                            /\ [row EXCEPT !.human = None].status = row.status
                            /\ [row EXCEPT !.human = None].done = row.done
    BY DEF JobRow
  <2>3. CASE UNCHANGED job
    BY <2>3 DEF IInv, TypeOK
  <2>4. CASE job' = [i \in Jobs |-> IF job[i].human = request[q].target
                                   THEN [job[i] EXCEPT !.human = None] ELSE job[i]]
    BY <2>1, <2>2, <2>4
  <2> QED BY <2>3, <2>4 DEF DeleteHuman
<1>3. human' \in [Humans -> HumanRow]
  <2>1. [NoHuman EXCEPT !.status = "deleted"] \in HumanRow
    BY NoValuesTyped DEF NoHuman, HumanRow
  <2> QED BY <1>1, <2>1 DEF DeleteHuman, IInv, TypeOK
<1>4. /\ UNCHANGED <<newer, driver, start, enrolled, up, crashes, faults>>
      /\ request' = [request EXCEPT ![q] = Answered]
  BY DEF DeleteHuman, Answer, Answered
<1>5. Answered \in Request /\ Answered.pc = "done"
  BY NoValuesTyped DEF Answered, Request, NoRequest
<1>6. TypeOK'
  BY <1>2, <1>3, <1>4, <1>5 DEF IInv, TypeOK
<1>7. CallsOK'
  BY <1>2, <1>4, <1>5 DEF IInv, TypeOK, CallsOK, Created
<1>8. UnbornOK' /\ DriverOK' /\ RunningHasDriver' /\ SucceededIsComplete'
  BY <1>2, <1>4 DEF IInv, UnbornOK, DriverOK, RunningHasDriver, SucceededIsComplete, Created
<1> QED BY <1>6, <1>7, <1>8 DEF IInv

-----------------------------------------------------------------------------
\* A crash leaves no driver and no call; the rows stay as they are.
LEMMA CrashStep == ASSUME IInv, Crash PROVE IInv'
<1>1. \A j \in Jobs : start'[j] \in Start /\ (start'[j].pc # "over" => start[j].pc # "over")
  BY NoValuesTyped DEF Crash, IInv, TypeOK, NoStart, Start
<1>2. \A q \in Requests : request'[q] \in Request /\ request'[q].pc \in {"new", "done"}
  BY NoValuesTyped DEF Crash, NoRequest, Request
<1>3. crashes' \in 0..MaxCrashes
  BY BoundsAreNaturals DEF Crash, IInv, TypeOK
<1>4. start' \in [Jobs -> Start] /\ request' \in [Requests -> Request]
  BY <1>1, <1>2 DEF Crash
<1>5. TypeOK'
  BY <1>3, <1>4, NoValuesTyped DEF Crash, IInv, TypeOK
<1>6. CallsOK'
  BY <1>2 DEF CallsOK
<1>7. UnbornOK' /\ DriverOK' /\ RunningHasDriver' /\ SucceededIsComplete'
  BY <1>1 DEF Crash, IInv, UnbornOK, DriverOK, RunningHasDriver, SucceededIsComplete, Created,
              NoDriver, Staging, Committing
<1> QED BY <1>5, <1>6, <1>7 DEF IInv

\* resume() gives every RUNNING row a driver before anything else runs.
LEMMA RestartStep == ASSUME IInv, Restart PROVE IInv'
<1>1. TypeOK'
  BY NoValuesTyped DEF Restart, IInv, TypeOK
<1>2. CallsOK'
  BY DEF Restart, IInv, CallsOK, Created
<1>3. \A j \in Jobs : driver'[j] = IF job[j].status \in Unfinished THEN Loading ELSE NoDriver
  BY DEF Restart
<1>4. UnbornOK' /\ SucceededIsComplete'
  BY <1>3 DEF Restart, IInv, UnbornOK, SucceededIsComplete, Created, Unfinished, NoDriver, Loading
<1>5. DriverOK' /\ RunningHasDriver'
  BY <1>3 DEF Restart, IInv, DriverOK, RunningHasDriver, Unfinished, NoDriver, Loading,
              Staging, Committing
<1> QED BY <1>1, <1>2, <1>4, <1>5 DEF IInv

\* The invariant holds initially: no job exists.
LEMMA InitOK == Init => IInv
<1> SUFFICES ASSUME Init PROVE IInv
  OBVIOUS
<1>1. TypeOK
  BY NoValuesTyped, BoundsAreNaturals DEF Init, TypeOK
<1>2. CallsOK /\ UnbornOK /\ DriverOK /\ RunningHasDriver /\ SucceededIsComplete
  BY DEF Init, CallsOK, UnbornOK, DriverOK, RunningHasDriver, SucceededIsComplete, Created,
         NoJob, NoDriver, NoStart, NoRequest, Staging, Committing
<1> QED BY <1>1, <1>2 DEF IInv

\* Every step keeps the invariant.
LEMMA NextKeeps == IInv /\ [Next]_vars => IInv'
<1> SUFFICES ASSUME IInv, [Next]_vars PROVE IInv'
  OBVIOUS
<1>1. CASE \E j \in Jobs : DriverStep(j)
  BY <1>1, DriverStepKeeps
<1>2. CASE \E j \in Jobs : StartStep(j)
  BY <1>2, StartFindStep, StartCreateStep DEF StartStep
<1>3. CASE \E q \in Requests : RequestStep(q)
  BY <1>3, ReadStep, WriteStep, DeleteCallStep, DeleteCheckStep, DeleteHumanStep DEF RequestStep
<1>4. CASE UNCHANGED vars
  BY <1>4 DEF vars, IInv, TypeOK, CallsOK, UnbornOK, DriverOK, RunningHasDriver,
              SucceededIsComplete, Created
<1> QED BY <1>1, <1>2, <1>3, <1>4, CrashStep, RestartStep DEF Next

\* The invariant holds of every reachable state.
THEOREM Invariance == Spec => []IInv
<1> QED BY InitOK, NextKeeps, PTL DEF Spec

\* Every variable keeps its type; in particular a retry count read by one call
\* and written after another call's never exceeds max_retries.
THEOREM TypeCorrect == Spec => []TypeOK
<1>1. IInv => TypeOK
  BY DEF IInv
<1> QED BY <1>1, Invariance, PTL

\* No interleaving of calls, drivers, crashes and restarts leaves a RUNNING row
\* without a driver in the running process.
THEOREM RunningAlwaysHasDriver == Spec => []RunningHasDriver
<1>1. IInv => RunningHasDriver
  BY DEF IInv
<1> QED BY <1>1, Invariance, PTL

\* SUCCEEDED is only ever seen with all four stages recorded.
THEOREM SuccessIsComplete == Spec => []SucceededIsComplete
<1>1. IInv => SucceededIsComplete
  BY DEF IInv
<1> QED BY <1>1, Invariance, PTL

-----------------------------------------------------------------------------
\* What a step may not do to the keys of the rows.
KeysKept == \A i \in Jobs : Created(i)' => Created(i) /\ job'[i].key = job[i].key

\* Writing the row of an existing job keeps the keys when the row keeps its own.
LEMMA RowKeepsKeys ==
  ASSUME TypeOK, NEW j \in Jobs, Created(j), NEW row, UpdateJob(j, row), row.key = job[j].key
  PROVE  KeysKept
BY DEF KeysKept, TypeOK, UpdateJob, Created

\* The driver never writes the key of its row.
LEMMA DriverKeepsKeys == ASSUME IInv, NEW j \in Jobs, DriverStep(j) PROVE KeysKept
<1>1. CASE UNCHANGED job
  BY <1>1 DEF KeysKept, Created
<1>2. CASE driver[j].pc # "idle" /\ ~UNCHANGED job
  <2>1. Created(j) /\ job[j] \in JobRow /\ TypeOK
    BY <1>2, DriverFacts DEF IInv
  <2>2. CASE \E st : SetStatus(j, st)
    <3>1. PICK st : SetStatus(j, st)
      BY <2>2
    <3> DEFINE row == [job[j] EXCEPT !.status = st]
    <3>2. row.key = job[j].key
      BY <2>1 DEF JobRow
    <3> QED BY <2>1, <3>1, <3>2, RowKeepsKeys DEF SetStatus
  <2>3. CASE \E st, c : UpdateJob(j, [job[j] EXCEPT !.status = st, !.cleanup = c])
    <3>1. PICK st, c : UpdateJob(j, [job[j] EXCEPT !.status = st, !.cleanup = c])
      BY <2>3
    <3> DEFINE row == [job[j] EXCEPT !.status = st, !.cleanup = c]
    <3>2. row.key = job[j].key
      BY <2>1 DEF JobRow
    <3> QED BY <2>1, <3>1, <3>2, RowKeepsKeys
  <2>4. CASE PersistJob(j)
    <3> DEFINE dr == driver[j]
               staging == job[j].mode # "new"
               row == [job[j] EXCEPT
                         !.status = "running",
                         !.done   = @ \cup {dr.stage},
                         !.voice  = IF staging THEN Coalesce(Enrolled(j, "voice"), @) ELSE @,
                         !.avatar = IF staging THEN Coalesce(Enrolled(j, "avatar"), @) ELSE @,
                         !.remote = @ \cup ({dr.hand} \ {None})]
    <3>1. row.key = job[j].key
      BY <2>1 DEF JobRow
    <3>2. UpdateJob(j, row)
      BY <2>4 DEF PersistJob
    <3> QED BY <2>1, <3>1, <3>2, RowKeepsKeys
  <2>5. CASE Claim(j) \/ BeginValidate(j) \/ Finish(j) \/ Fail(j) \/ MarkCancelled(j)
    BY <2>2, <2>5 DEF Claim, BeginValidate, Finish, Fail, MarkCancelled, Settle
  <2>6. CASE Clean(j) \/ CleanDone(j) \/ CleanFail(j)
    BY <2>3, <2>6 DEF Clean, CleanDone, CleanFail, CleanEnd
  <2> QED BY <1>2, <2>4, <2>5, <2>6 DEF DriverStep, Load, CheckCancelled, Enroll, EnrollFails,
        EnrollTimesOut, TransactionFails, PersistHuman, SaveHuman, Commit, CopyRead, CopyCreate, CopyReady, FailHuman,
        CancelHuman, SettleHuman, CleanReadJob, CleanReadHuman
<1>3. driver[j].pc # "idle"
  BY DEF DriverStep, At, Load, Claim, BeginValidate, CheckCancelled, Enroll, EnrollFails,
         PersistHuman, PersistJob, SaveHuman, Commit, CopyRead, CopyCreate, CopyReady, Finish,
         Fail, FailHuman, MarkCancelled, CancelHuman, Settle, SettleHuman, Clean, CleanReadJob,
         CleanReadHuman, CleanDone, CleanFail, CleanEnd, EnrollTimesOut, TransactionFails,
         InTry, InCleanup, Outside
<1> QED BY <1>1, <1>2, <1>3

\* Nor do cancel, retry, cleanup and delete.
LEMMA RequestKeepsKeys == ASSUME IInv, NEW q \in Requests, RequestStep(q) PROVE KeysKept
<1> DEFINE j == request[q].target
<1>1. CASE UNCHANGED job
  BY <1>1 DEF KeysKept, Created
<1>2. CASE CancelWrite(q) \/ RetryWrite(q) \/ CleanupWrite(q)
  <2>1. j \in Jobs /\ Created(j) /\ TypeOK /\ job[j] \in JobRow
    BY <1>2 DEF CancelWrite, RetryWrite, CleanupWrite, IInv, CallsOK, TypeOK
  <2>2. CASE CancelWrite(q)
    <3> DEFINE row == [job[j] EXCEPT !.status = "cancelling", !.cancelled = TRUE]
    <3>1. row.key = job[j].key
      BY <2>1 DEF JobRow
    <3> QED BY <2>1, <2>2, <3>1, RowKeepsKeys DEF CancelWrite
  <2>3. CASE RetryWrite(q)
    <3> DEFINE row == [job[j] EXCEPT !.status = "pending", !.cancelled = FALSE,
                                     !.retries = request[q].retries + 1, !.cleanup = "none"]
    <3>1. row.key = job[j].key
      BY <2>1 DEF JobRow
    <3> QED BY <2>1, <2>3, <3>1, RowKeepsKeys DEF RetryWrite
  <2>4. CASE CleanupWrite(q)
    <3> DEFINE row == [job[j] EXCEPT !.status = "cleanup_pending"]
    <3>1. row.key = job[j].key
      BY <2>1 DEF JobRow
    <3> QED BY <2>1, <2>4, <3>1, RowKeepsKeys DEF CleanupWrite, SetStatus
  <2> QED BY <1>2, <2>2, <2>3, <2>4
<1>3. CASE DeleteHuman(q)
  <2>1. \A row \in JobRow : /\ [row EXCEPT !.human = None].status = row.status
                            /\ [row EXCEPT !.human = None].key = row.key
    BY DEF JobRow
  <2>2. \A i \in Jobs : job[i] \in JobRow
    BY DEF IInv, TypeOK
  <2> QED BY <1>3, <2>1, <2>2 DEF DeleteHuman, KeysKept, Created
<1> QED BY <1>1, <1>2, <1>3 DEF RequestStep, CancelRead, RetryRead, CleanupRead, Read,
           DeleteRead, DeleteCheck, DeleteStep

\* The insert looks the key up again in the transaction that makes the row.
LEMMA CreateKeepsKeysApart ==
  ASSUME IInv, OneJobPerKey, NEW j \in Jobs, StartCreate(j)
  PROVE  OneJobPerKey'
<1>1. CASE UNCHANGED job
  BY <1>1 DEF OneJobPerKey, Created
<1>2. CASE ~UNCHANGED job
  <2> DEFINE row == [NoJob EXCEPT !.status = "pending", !.key = start[j].key,
                                  !.human = start[j].human, !.mode = start[j].mode]
  <2>1. UpdateJob(j, row) /\ ~KeyTaken(start[j].key)
    BY <1>2 DEF StartCreate
  <2>2. row.key = start[j].key
    BY DEF NoJob
  <2>3. \A i \in Jobs : /\ i # j => job'[i] = job[i]
                        /\ i = j => job'[i].key = start[j].key
    BY <2>1, <2>2 DEF UpdateJob, IInv, TypeOK
  <2> QED BY <2>1, <2>3 DEF OneJobPerKey, KeyTaken, Created
<1> QED BY <1>1, <1>2

\* Two start calls with one idempotency key leave at most one job with it.
THEOREM KeysAreUnique == Spec => []OneJobPerKey
<1>1. Init => OneJobPerKey
  BY DEF Init, OneJobPerKey, Created, NoJob
<1>2. IInv /\ OneJobPerKey /\ [Next]_vars => OneJobPerKey'
  <2> SUFFICES ASSUME IInv, OneJobPerKey, [Next]_vars PROVE OneJobPerKey'
    OBVIOUS
  <2>1. KeysKept => OneJobPerKey'
    BY DEF KeysKept, OneJobPerKey, Created
  <2>2. CASE UNCHANGED job
    BY <2>2 DEF OneJobPerKey, Created
  <2> QED BY <2>1, <2>2, DriverKeepsKeys, RequestKeepsKeys, CreateKeepsKeysApart
      DEF Next, StartStep, StartFind, Crash, Restart, vars
<1> QED BY <1>1, <1>2, Invariance, PTL DEF Spec
-----------------------------------------------------------------------------
\* The service implements StagedWork.  Every step that writes a row completes the
\* next stage, reports success with all stages done, or keeps the stages and reports
\* the job open or stopped; every other step leaves what StagedWork sees unchanged.

\* The outcome of a job that has not been created, or has succeeded.
LEMMA EndOutcomes == Outcome("absent") = "absent" /\ Outcome("succeeded") = "succeeded"
BY DEF Outcome, Unfinished

\* A step that keeps the status and the stages of every row is a stutter.
LEMMA Stutter ==
  ASSUME \A i \in Jobs : job'[i].status = job[i].status /\ job'[i].done = job[i].done
  PROVE  UNCHANGED Staged!vars
BY DEF Staged!vars, Outcome, Unfinished

\* The view StagedWork has of the rows after one of them is written.
LEMMA RowView ==
  ASSUME TypeOK, NEW j \in Jobs, NEW row, UpdateJob(j, row)
  PROVE  \A i \in Jobs : /\ i # j => job'[i] = job[i]
                         /\ i = j => job'[i] = row
BY DEF TypeOK, UpdateJob

\* A write that keeps the stages and leaves the job open or stopped.
LEMMA ReportStep ==
  ASSUME TypeOK, NEW j \in Jobs, NEW row, UpdateJob(j, row),
         row.done = job[j].done, Outcome(row.status) \in {"open", "stopped"}
  PROVE  Staged!Next
<1> DEFINE o == Outcome(row.status)
<1>1. \A i \in Jobs : /\ i # j => job'[i] = job[i]
                      /\ i = j => job'[i] = row
  BY RowView
<1>2. [i \in Jobs |-> Outcome(job'[i].status)]
        = [[i \in Jobs |-> Outcome(job[i].status)] EXCEPT ![j] = o]
  BY <1>1
<1>3. [i \in Jobs |-> job'[i].done] = [i \in Jobs |-> job[i].done]
  BY <1>1
<1>4. Outcome(row.status)' = Outcome(row.status) /\ o \in {"open", "stopped"}
  BY DEF Outcome, Unfinished
<1>5. Staged!Report(j)
  BY <1>2, <1>3, <1>4 DEF Staged!Report, Outcome, Unfinished
<1> QED BY <1>5 DEF Staged!Next

-----------------------------------------------------------------------------
\* Recording a stage: the driver runs the next stage of the row, whatever the
\* handlers have written to the row since.
LEMMA PersistJobCompletes == ASSUME IInv, NEW j \in Jobs, PersistJob(j) PROVE Staged!Next
<1> DEFINE s == driver[j].stage
<1>1. /\ Created(j) /\ job[j] \in JobRow /\ job[j].done # Stages /\ s = NextStage(job[j].done)
  BY DriverFacts DEF PersistJob, At, Staging
<1>2. s \in Stages \ job[j].done /\ Before[s] \subseteq job[j].done
  BY <1>1, NextStageIsStage DEF JobRow
<1>3. PICK row : UpdateJob(j, row) /\ row.status = "running" /\ row.done = job[j].done \cup {s}
  <2> DEFINE staging == job[j].mode # "new"
             row == [job[j] EXCEPT
                       !.status = "running",
                       !.done   = @ \cup {s},
                       !.voice  = IF staging THEN Coalesce(Enrolled(j, "voice"), @) ELSE @,
                       !.avatar = IF staging THEN Coalesce(Enrolled(j, "avatar"), @) ELSE @,
                       !.remote = @ \cup ({driver[j].hand} \ {None})]
  <2>1. row.status = "running" /\ row.done = job[j].done \cup {s}
    BY <1>1 DEF JobRow
  <2>2. UpdateJob(j, row)
    BY DEF PersistJob
  <2> HIDE DEF row
  <2> QED BY <2>1, <2>2
<1>4. \A i \in Jobs : /\ i # j => job'[i] = job[i]
                      /\ i = j => job'[i] = row
  BY <1>3, RowView DEF IInv
<1>5. Outcome(row.status) = "open" /\ Outcome(job[j].status) # "absent"
  BY <1>1, <1>3 DEF Outcome, Unfinished, Created
<1>6. [i \in Jobs |-> job'[i].done]
        = [[i \in Jobs |-> job[i].done] EXCEPT ![j] = @ \cup {s}]
  BY <1>3, <1>4
<1>7. [i \in Jobs |-> Outcome(job'[i].status)]
        = [[i \in Jobs |-> Outcome(job[i].status)] EXCEPT ![j] = "open"]
  BY <1>3, <1>4, <1>5
<1>8. Staged!Complete(j)
  BY <1>2, <1>5, <1>6, <1>7 DEF Staged!Complete, Outcome
<1> QED BY <1>8 DEF Staged!Next

\* The commit is followed by success, and is only reached with all stages done.
LEMMA FinishSucceeds == ASSUME IInv, NEW j \in Jobs, Finish(j) PROVE Staged!Next
<1>1. job[j] \in JobRow /\ job[j].done = Stages
  BY DriverFacts DEF Finish, At, Committing
<1>2. PICK row : /\ UpdateJob(j, row) /\ row.done = job[j].done
                 /\ Outcome(row.status) = "succeeded"
  <2> DEFINE row == [job[j] EXCEPT !.status = "succeeded"]
  <2>1. row.status = "succeeded" /\ row.done = job[j].done
    BY <1>1 DEF JobRow
  <2> HIDE DEF row
  <2>2. Outcome(row.status) = "succeeded"
    BY <2>1, EndOutcomes
  <2> QED BY <2>1, <2>2 DEF Finish, SetStatus, row
<1>3. \A i \in Jobs : /\ i # j => job'[i] = job[i]
                      /\ i = j => job'[i] = row
  BY <1>2, RowView DEF IInv
<1>4. [i \in Jobs |-> job'[i].done] = [i \in Jobs |-> job[i].done]
  BY <1>2, <1>3
<1>5. [i \in Jobs |-> Outcome(job'[i].status)]
        = [[i \in Jobs |-> Outcome(job[i].status)] EXCEPT ![j] = "succeeded"]
  BY <1>2, <1>3
<1>6. Staged!Succeed(j)
  BY <1>1, <1>4, <1>5 DEF Staged!Succeed, Outcome
<1> QED BY <1>6 DEF Staged!Next

\* The other steps of the driver report the job open or stopped, or stutter.
LEMMA DriverImplements ==
  ASSUME IInv, NEW j \in Jobs, DriverStep(j)
  PROVE  [Staged!Next]_(Staged!vars)
<1>1. \A st \in Statuses : /\ job[j] \in JobRow => [job[j] EXCEPT !.status = st].status = st
                           /\ [job[j] EXCEPT !.status = st].done = job[j].done
  BY DEF IInv, TypeOK, JobRow
<1>2. job[j] \in JobRow /\ TypeOK
  BY DEF IInv, TypeOK
<1>3. ASSUME NEW st \in Statuses \ {"succeeded"}, SetStatus(j, st)
      PROVE  Staged!Next
  <2> DEFINE row == [job[j] EXCEPT !.status = st]
  <2>1. row.done = job[j].done /\ row.status = st
    BY <1>2 DEF JobRow
  <2>2. Outcome(row.status) \in {"open", "stopped"}
    BY <2>1 DEF Outcome, Statuses, Unfinished
  <2> QED BY <1>2, <1>3, <2>1, <2>2, ReportStep DEF SetStatus
<1>4. CASE Claim(j) \/ BeginValidate(j) \/ Fail(j) \/ MarkCancelled(j)
  BY <1>3, <1>4 DEF Claim, BeginValidate, Fail, MarkCancelled, Settle, Statuses
<1>5. ASSUME NEW st \in {"cleanup_pending", "cancelled", "cleanup_failed"}, NEW c,
             UpdateJob(j, [job[j] EXCEPT !.status = st, !.cleanup = c])
      PROVE  Staged!Next
  <2> DEFINE row == [job[j] EXCEPT !.status = st, !.cleanup = c]
  <2>1. row.done = job[j].done /\ row.status = st
    BY <1>2 DEF JobRow
  <2>2. Outcome(row.status) \in {"open", "stopped"}
    BY <2>1 DEF Outcome, Unfinished
  <2> QED BY <1>2, <1>5, <2>1, <2>2, ReportStep
<1>6. CASE Clean(j) \/ CleanDone(j) \/ CleanFail(j)
  BY <1>5, <1>6 DEF Clean, CleanDone, CleanFail, CleanEnd
<1>7. CASE UNCHANGED job
  BY <1>7, Stutter
<1>8. \/ UNCHANGED job \/ PersistJob(j) \/ Finish(j)
      \/ Claim(j) \/ BeginValidate(j) \/ Fail(j) \/ MarkCancelled(j)
      \/ Clean(j) \/ CleanDone(j) \/ CleanFail(j)
  BY DEF DriverStep, Load, CheckCancelled, Enroll, EnrollFails, EnrollTimesOut, TransactionFails,
         PersistHuman, SaveHuman, Commit, CopyRead, CopyCreate, CopyReady, FailHuman, CancelHuman, SettleHuman,
         CleanReadJob, CleanReadHuman
<1> QED BY <1>4, <1>6, <1>7, <1>8, PersistJobCompletes, FinishSucceeds

\* A job is created with no stage done.
LEMMA StartImplements ==
  ASSUME IInv, NEW j \in Jobs, StartStep(j)
  PROVE  [Staged!Next]_(Staged!vars)
<1>1. CASE UNCHANGED job
  BY <1>1, Stutter
<1>2. CASE StartCreate(j) /\ ~UNCHANGED job
  <2> DEFINE row == [NoJob EXCEPT !.status = "pending", !.key = start[j].key,
                                  !.human = start[j].human, !.mode = start[j].mode]
  <2>1. UpdateJob(j, row) /\ ~Created(j)
    BY <1>2 DEF StartCreate, IInv, UnbornOK
  <2>2. job[j].done = {} /\ row.done = {} /\ row.status = "pending"
    BY <2>1 DEF IInv, UnbornOK, NoJob
  <2>3. Outcome(row.status) = "open"
    BY <2>2 DEF Outcome, Unfinished
  <2> QED BY <2>1, <2>2, <2>3, ReportStep DEF IInv
<1> QED BY <1>1, <1>2 DEF StartStep, StartFind

\* A late write of cancel, retry or cleanup, whatever the driver has done since
\* the read, keeps the stages; a deleted human is forgotten by its jobs.
LEMMA RequestImplements ==
  ASSUME IInv, NEW q \in Requests, RequestStep(q)
  PROVE  [Staged!Next]_(Staged!vars)
<1> DEFINE j == request[q].target
<1>1. CASE CancelWrite(q) \/ RetryWrite(q) \/ CleanupWrite(q)
  <2>1. j \in Jobs /\ job[j] \in JobRow
    BY <1>1 DEF CancelWrite, RetryWrite, CleanupWrite, IInv, CallsOK, TypeOK
  <2>2. PICK row : /\ UpdateJob(j, row) /\ row.done = job[j].done
                   /\ row.status \in {"cancelling", "pending", "cleanup_pending"}
    <3>1. CASE CancelWrite(q)
      <4> DEFINE row == [job[j] EXCEPT !.status = "cancelling", !.cancelled = TRUE]
      <4>1. row.done = job[j].done /\ row.status = "cancelling"
        BY <2>1 DEF JobRow
      <4> QED BY <3>1, <4>1 DEF CancelWrite
    <3>2. CASE RetryWrite(q)
      <4> DEFINE row == [job[j] EXCEPT !.status = "pending", !.cancelled = FALSE,
                                       !.retries = request[q].retries + 1, !.cleanup = "none"]
      <4>1. row.done = job[j].done /\ row.status = "pending"
        BY <2>1 DEF JobRow
      <4> QED BY <3>2, <4>1 DEF RetryWrite
    <3>3. CASE CleanupWrite(q)
      <4> DEFINE row == [job[j] EXCEPT !.status = "cleanup_pending"]
      <4>1. row.done = job[j].done /\ row.status = "cleanup_pending"
        BY <2>1 DEF JobRow
      <4> QED BY <3>3, <4>1 DEF CleanupWrite, SetStatus
    <3> QED BY <1>1, <3>1, <3>2, <3>3
  <2>3. Outcome(row.status) = "open"
    BY <2>2 DEF Outcome, Unfinished
  <2> QED BY <2>1, <2>2, <2>3, ReportStep DEF IInv
<1>2. CASE DeleteHuman(q)
  <2>1. \A i \in Jobs : job[i] \in JobRow
    BY DEF IInv, TypeOK
  <2>2. \A row \in JobRow : /\ [row EXCEPT !.human = None].status = row.status
                            /\ [row EXCEPT !.human = None].done = row.done
    BY DEF JobRow
  <2>3. \A i \in Jobs : job'[i].status = job[i].status /\ job'[i].done = job[i].done
    BY <1>2, <2>1, <2>2 DEF DeleteHuman
  <2> QED BY <2>3, Stutter
<1>3. CASE UNCHANGED job
  BY <1>3, Stutter
<1> QED BY <1>1, <1>2, <1>3 DEF RequestStep, CancelRead, RetryRead, CleanupRead, Read,
             DeleteRead, DeleteCheck, DeleteStep

-----------------------------------------------------------------------------
\* The service implements StagedWork: stages complete in their order, are never
\* lost by a retry, a cancel, a cleanup, a crash or a late write of a handler,
\* and success is only reported with all of them done.
THEOREM Implements == Spec => DoesStagedWork
<1>1. Init => Staged!Init
  <2> SUFFICES ASSUME Init PROVE Staged!Init
    OBVIOUS
  <2>1. \A j \in Jobs : job[j].done = {} /\ job[j].status = "absent"
    BY DEF Init, NoJob
  <2>2. \A j \in Jobs : Outcome(job[j].status) = "absent"
    BY <2>1, EndOutcomes
  <2> QED BY <2>1, <2>2 DEF Staged!Init
<1>2. IInv /\ [Next]_vars => [Staged!Next]_(Staged!vars)
  <2> SUFFICES ASSUME IInv, [Next]_vars PROVE [Staged!Next]_(Staged!vars)
    OBVIOUS
  <2>1. CASE Crash \/ Restart \/ UNCHANGED vars
    BY <2>1, Stutter DEF Crash, Restart, vars
  <2> QED BY <2>1, DriverImplements, StartImplements, RequestImplements DEF Next
<1> QED BY <1>1, <1>2, Invariance, PTL DEF Spec, DoesStagedWork, Staged!Spec

-----------------------------------------------------------------------------
(***************************************************************************)
(* The resources: each one of a build job is accounted for, and each human *)
(* that is ready is whole, for any sets of jobs, humans and calls.         *)
(*                                                                         *)
(* The two properties are not inductive.  What they rest on is a ledger of *)
(* each job: which human its row and its driver name, what its driver has  *)
(* in hand, where the ids of a finished stage are, and how many resources  *)
(* are lost.  The operators below say so of a row, a driver, a table of    *)
(* humans and a number of enrolments, so that one lemma, LedgerStep, turns *)
(* what an action does to one job into the invariant of all of them.       *)
(***************************************************************************)

Enrolments == {"voice", "avatar"}
Slot(record, s) == IF s = "voice" THEN record.voice ELSE record.avatar
Owned(j, n) == {[owner |-> j, n |-> k] : k \in 1..n}
Deleted == {h \in Humans : human[h].status = "deleted"}
Gone == {"absent", "deleted"}

\* Where the driver has the human of the row as it last read it.
WithCopy == Staging \cup {"commit", "copy_read", "copy_create"}
WithHuman == {"persist_human", "save_human", "commit", "copy_read", "copy_create", "copy_ready",
              "fail_human", "cancel_human"}

\* A row names a human that is there; the driver's copy only differs from it
\* when that human was deleted since.
Names(row, d, H) ==
  /\ row.human # None => H[row.human].status \notin Gone
  /\ d.human # None => H[d.human].status # "absent"
  /\ d.pc \in WithCopy /\ d.human # row.human
       => row.human = None /\ H[d.human].status = "deleted"
  /\ d.pc \in WithHuman => d.human # None
  /\ d.pc \in {"persist_human", "save_human"} => row.mode = "new"
  /\ d.pc \in {"copy_read", "copy_create", "copy_ready"} => row.mode = "copy"
  /\ d.pc = "commit" => row.mode # "copy"

\* The driver has a resource in hand exactly between an enrolment and its record.
Hands(j, row, d, n) ==
  /\ row.remote \subseteq Owned(j, n)
  /\ d.hand # None => /\ d.pc \in {"persist_human", "persist"} /\ d.stage \in Enrolments
                      /\ d.hand \in Owned(j, n) \ row.remote
  /\ d.pc \in {"persist_human", "persist"} /\ d.stage \in Enrolments => d.hand # None
  /\ d.pc \in {"enroll", "persist_human"} => d.stage \in Enrolments
  /\ d.pc = "begin" => d.stage = "validate"
  /\ d.pc = "save_human" => d.stage = "save"

\* The id of a finished enrolment is in the row, or (mode new) at the human.
Ids(j, row, d, H, n) ==
  \A s \in Enrolments :
    /\ row.mode # "new" /\ s \in row.done => Slot(row, s) \in Owned(j, n)
    /\ row.mode = "new" /\ row.human # None
       /\ (s \in row.done \/ (d.pc = "persist" /\ d.stage = s))
         => Slot(H[row.human], s) # None

Tidy(j, row, d, H, n) == Names(row, d, H) /\ Hands(j, row, d, n) /\ Ids(j, row, d, H, n)

\* At a stage, with a human to build: the driver may still lose what it enrols.
Late(d) == d.pc \in Staging /\ d.human # None
Lost(j, row, d, n) == Owned(j, n) \ (row.remote \cup {d.hand})

\* Each crash loses at most one resource of a job, and so does each failed call of
\* its driver and the deletion of its human; what is recorded is one resource for each finished enrolment.
Counted(j, row, d, n) ==
  /\ \/ Cardinality(Lost(j, row, d, n)) <= crashes + faults[j]
     \/ /\ Cardinality(Lost(j, row, d, n)) <= crashes + faults[j] + 1
        /\ row.human = None /\ ~Late(d) /\ Deleted # {}
  /\ Cardinality(row.remote) = Cardinality(row.done \cap Enrolments)

\* What makes human h, whose row is r, whole: a job of mode new that has it, or a
\* finished job of another mode that made both ids.
Makes(j, row, n, h, r) ==
  \/ row.mode = "new" /\ row.human = h
  \/ row.mode # "new" /\ row.done = Stages /\ {r.voice, r.avatar} \subseteq Owned(j, n)

Whole(h) ==
  /\ human[h].voice # None /\ human[h].avatar # None
  /\ \/ human[h].voice = Original /\ human[h].avatar = Original
     \/ \E j \in Jobs : Makes(j, job[j], enrolled[j], h, human[h])

LedgerOK ==
  \A j \in Jobs : /\ Tidy(j, job[j], driver[j], human, enrolled[j])
                  /\ Counted(j, job[j], driver[j], enrolled[j])
                  /\ ~Created(j) => job[j] = NoJob /\ enrolled[j] = 0

WholeOK == \A h \in Humans : human[h].status = "ready" => Whole(h)

LInv == LedgerOK /\ WholeOK /\ DriverDeathsAreKnown /\ IsFiniteSet(Deleted)

-----------------------------------------------------------------------------
\* A step that deletes no human leaves what is there, and the ids it has.
HumansKept ==
  \A h \in Humans :
    /\ human[h].status = "deleted" <=> human'[h].status = "deleted"
    /\ human[h].status # "absent" => human'[h].status # "absent"
    /\ human[h].status \notin Gone => \A s \in Enrolments : Slot(human[h], s) # None
                                                          => Slot(human'[h], s) # None

\* The deleted humans stay the same ones.
LEMMA SameDeleted == ASSUME HumansKept PROVE Deleted' = Deleted
BY DEF HumansKept, Deleted, Gone

\* A job that a step does not touch stays tidy.
LEMMA TidyKept ==
  ASSUME HumansKept, NEW j, NEW row \in JobRow, NEW d \in Driver, NEW n,
         Tidy(j, row, d, human, n)
  PROVE  Tidy(j, row, d, human', n)
<1>1. row.human \in Humans \cup {None} /\ d.human \in Humans \cup {None}
  BY DEF JobRow, Driver
<1>2. Names(row, d, human')
  BY <1>1 DEF Tidy, Names, HumansKept, Gone
<1>3. Ids(j, row, d, human', n)
  BY <1>1 DEF Tidy, Names, Ids, HumansKept, Gone
<1> QED BY <1>2, <1>3 DEF Tidy

\* A step that changes one existing job, the humans and nothing else of the
\* ledger keeps all of it, when what it leaves of that job is in order.
LEMMA LedgerChange ==
  ASSUME IInv, LInv, HumansKept, NEW j \in Jobs, Created(j),
         NEW row \in JobRow, NEW d \in Driver, NEW n \in Nat, NEW f \in Nat,
         job' = [job EXCEPT ![j] = row], driver' = [driver EXCEPT ![j] = d],
         enrolled' = [enrolled EXCEPT ![j] = n], faults' = [faults EXCEPT ![j] = f],
         UNCHANGED crashes,
         row.status # "absent", row.mode = job[j].mode, row.human = job[j].human,
         job[j].done \subseteq row.done, enrolled[j] <= n,
         Tidy(j, row, d, human', n),
         \/ Cardinality(Lost(j, row, d, n)) <= crashes + f
         \/ /\ Cardinality(Lost(j, row, d, n)) <= crashes + f + 1
            /\ row.human = None /\ ~Late(d) /\ Deleted # {},
         Cardinality(row.remote) = Cardinality(row.done \cap Enrolments),
         \A h \in Humans : human'[h].status = "ready" /\ human'[h] # human[h]
           => human'[h].voice # None /\ human'[h].avatar # None /\ Makes(j, row, n, h, human'[h]),
         d.pc = "crashed" => Deleted # {} \/ f > 0
  PROVE  LInv'
<1>1. /\ \A i \in Jobs : i # j => /\ job'[i] = job[i] /\ driver'[i] = driver[i]
                                 /\ enrolled'[i] = enrolled[i] /\ faults'[i] = faults[i]
      /\ job'[j] = row /\ driver'[j] = d /\ enrolled'[j] = n /\ faults'[j] = f
      /\ \A i \in Jobs : job[i] \in JobRow /\ driver[i] \in Driver /\ enrolled[i] \in Nat
  BY DEF IInv, TypeOK
<1>2. Deleted' = Deleted
  BY SameDeleted
<1>3. LedgerOK'
  <2> SUFFICES ASSUME NEW i \in Jobs PROVE LedgerOK!(i)'
    BY DEF LedgerOK
  <2>1. CASE i = j
    BY <1>1, <1>2, <2>1 DEF Counted, Created
  <2>2. CASE i # j
    <3>1. Tidy(i, job[i], driver[i], human, enrolled[i]) /\ Counted(i, job[i], driver[i], enrolled[i])
      BY DEF LInv, LedgerOK
    <3>2. Tidy(i, job[i], driver[i], human', enrolled[i])
      BY <1>1, <3>1, TidyKept
    <3>3. Counted(i, job[i], driver[i], enrolled[i])'
      BY <1>1, <1>2, <2>2, <3>1 DEF Counted
    <3> QED BY <1>1, <2>2, <3>2, <3>3 DEF LInv, LedgerOK, Created
  <2> QED BY <2>1, <2>2
<1>4. WholeOK'
  <2> SUFFICES ASSUME NEW h \in Humans, human'[h].status = "ready" PROVE Whole(h)'
    BY DEF WholeOK
  <2>1. CASE human'[h] # human[h]
    BY <1>1, <2>1 DEF Whole
  <2>2. CASE human'[h] = human[h]
    <3>1. Whole(h)
      BY <2>2 DEF LInv, WholeOK
    <3>2. ASSUME NEW i \in Jobs, Makes(i, job[i], enrolled[i], h, human[h])
          PROVE  Makes(i, job'[i], enrolled'[i], h, human[h])
      <4>1. CASE i # j
        BY <1>1, <3>2, <4>1
      <4>2. CASE i = j
        <5>1. Owned(j, enrolled[j]) \subseteq Owned(j, n)
          BY <1>1 DEF Owned
        <5>2. job[j].done = Stages => row.done = Stages
          BY DEF JobRow
        <5> QED BY <1>1, <3>2, <4>2, <5>1, <5>2 DEF Makes
      <4> QED BY <4>1, <4>2
    <3> QED BY <2>2, <3>1, <3>2 DEF Whole
  <2> QED BY <2>1, <2>2
<1>5. DriverDeathsAreKnown'
  BY <1>1, <1>2 DEF LInv, DriverDeathsAreKnown, Deleted
<1>6. IsFiniteSet(Deleted)'
  BY <1>2 DEF LInv
<1> QED BY <1>3, <1>4, <1>5, <1>6 DEF LInv

\* ... and so it does when no call of that job's driver failed.
LEMMA LedgerStep ==
  ASSUME IInv, LInv, HumansKept, NEW j \in Jobs, Created(j),
         NEW row \in JobRow, NEW d \in Driver, NEW n \in Nat,
         job' = [job EXCEPT ![j] = row], driver' = [driver EXCEPT ![j] = d],
         enrolled' = [enrolled EXCEPT ![j] = n], UNCHANGED <<crashes, faults>>,
         row.status # "absent", row.mode = job[j].mode, row.human = job[j].human,
         job[j].done \subseteq row.done, enrolled[j] <= n,
         Tidy(j, row, d, human', n), Counted(j, row, d, n),
         \A h \in Humans : human'[h].status = "ready" /\ human'[h] # human[h]
           => human'[h].voice # None /\ human'[h].avatar # None /\ Makes(j, row, n, h, human'[h]),
         d.pc = "crashed" => Deleted # {} \/ faults[j] > 0
  PROVE  LInv'
<1>1. faults[j] \in Nat /\ faults' = [faults EXCEPT ![j] = faults[j]]
  BY DEF IInv, TypeOK
<1> QED BY <1>1, LedgerChange DEF Counted

\* Nothing happens to the humans.
LEMMA SameHumans == ASSUME UNCHANGED human PROVE HumansKept
BY DEF HumansKept

\* What the two invariants say of a job whose driver is at work.
LEMMA LedgerFacts ==
  ASSUME IInv, LInv, NEW j \in Jobs, driver[j].pc # "idle"
  PROVE  /\ Created(j) /\ job[j] \in JobRow /\ driver[j] \in Driver /\ enrolled[j] \in Nat
         /\ Tidy(j, job[j], driver[j], human, enrolled[j])
         /\ Counted(j, job[j], driver[j], enrolled[j])
BY DriverFacts DEF IInv, TypeOK, LInv, LedgerOK

\* Two rows that are the same in what the ledger holds.
SameAccount(row, old) ==
  /\ row.mode = old.mode /\ row.human = old.human /\ row.done = old.done
  /\ row.voice = old.voice /\ row.avatar = old.avatar /\ row.remote = old.remote

\* A step of the driver that enrols, records and loses nothing.
LEMMA QuietStep ==
  ASSUME IInv, LInv, HumansKept, NEW j \in Jobs, Created(j),
         NEW row \in JobRow, NEW d \in Driver,
         job' = [job EXCEPT ![j] = row], driver' = [driver EXCEPT ![j] = d],
         UNCHANGED <<enrolled, crashes, faults>>,
         row.status # "absent", SameAccount(row, job[j]), d.hand = driver[j].hand,
         Late(d) => Late(driver[j]) \/ row.human # None,
         Tidy(j, row, d, human', enrolled[j]),
         \A h \in Humans : human'[h].status = "ready" /\ human'[h] # human[h]
           => human'[h].voice # None /\ human'[h].avatar # None
              /\ Makes(j, row, enrolled[j], h, human'[h]),
         d.pc = "crashed" => Deleted # {} \/ faults[j] > 0
  PROVE  LInv'
<1>1. enrolled[j] \in Nat /\ enrolled' = [enrolled EXCEPT ![j] = enrolled[j]] /\ enrolled[j] <= enrolled[j]
  BY DEF IInv, TypeOK
<1>2. Counted(j, job[j], driver[j], enrolled[j])
  BY DEF LInv, LedgerOK
<1>3. Lost(j, row, d, enrolled[j]) = Lost(j, job[j], driver[j], enrolled[j])
  BY DEF Lost, SameAccount
<1>4. Counted(j, row, d, enrolled[j])
  BY <1>2, <1>3 DEF Counted, SameAccount
<1>5. row.mode = job[j].mode /\ row.human = job[j].human /\ job[j].done \subseteq row.done
  BY DEF SameAccount
<1> QED BY <1>1, <1>4, <1>5, LedgerStep

Parked == PCs \ (WithCopy \cup WithHuman)

\* ... after which the driver is between two stages, ends, or has died.
LEMMA ParkedStep ==
  ASSUME IInv, LInv, HumansKept, NEW j \in Jobs, Created(j), driver[j].hand = None,
         NEW row \in JobRow, NEW d \in Driver,
         job' = [job EXCEPT ![j] = row], driver' = [driver EXCEPT ![j] = d],
         UNCHANGED <<enrolled, crashes, faults>>,
         row.status # "absent", SameAccount(row, job[j]),
         d.hand = None, d.human \in {None, job[j].human, driver[j].human}, d.pc \in Parked,
         \A h \in Humans : human'[h].status = "ready" => human'[h] = human[h],
         d.pc = "crashed" => Deleted # {} \/ faults[j] > 0
  PROVE  LInv'
<1>1. /\ Tidy(j, job[j], driver[j], human, enrolled[j])
      /\ job[j] \in JobRow /\ driver[j] \in Driver
  BY DEF LInv, LedgerOK, IInv, TypeOK
<1>2. Tidy(j, job[j], driver[j], human', enrolled[j])
  BY <1>1, TidyKept
<1>3. Tidy(j, row, d, human', enrolled[j])
  <2>1. Names(row, d, human')
    BY <1>2 DEF Tidy, Names, SameAccount, Parked, WithCopy, WithHuman, Staging, Gone
  <2>2. Hands(j, row, d, enrolled[j])
    BY <1>2 DEF Tidy, Hands, SameAccount, Parked, WithCopy, WithHuman, Staging
  <2>3. Ids(j, row, d, human', enrolled[j])
    BY <1>2 DEF Tidy, Ids, SameAccount, Slot, Parked, WithCopy, WithHuman, Staging
  <2> QED BY <2>1, <2>2, <2>3 DEF Tidy
<1>4. ~Late(d)
  BY DEF Late, Parked, WithCopy
<1> QED BY <1>3, <1>4, QuietStep

\* A driver that is not recording an enrolment has nothing in hand.
LEMMA EmptyHand ==
  ASSUME LInv, NEW j \in Jobs, driver[j].pc \notin {"persist_human", "persist"}
  PROVE  driver[j].hand = None
BY DEF LInv, LedgerOK, Tidy, Hands

\* A call that changes no row, no driver and no human changes nothing of this.
LEMMA LedgerStutter ==
  ASSUME LInv, UNCHANGED <<job, human, driver, enrolled, crashes, faults>>
  PROVE  LInv'
<1>1. LedgerOK' /\ Deleted' = Deleted
  BY DEF LInv, LedgerOK, Counted, Created, Deleted
<1>2. WholeOK' /\ DriverDeathsAreKnown'
  BY DEF LInv, WholeOK, Whole, DriverDeathsAreKnown
<1> QED BY <1>1, <1>2 DEF LInv

-----------------------------------------------------------------------------
\* The driver that goes on from a row that is in order is in order.
LEMMA GoingTidy ==
  ASSUME NEW j, NEW row \in JobRow, NEW d, NEW n, Tidy(j, row, d, human, n)
  PROVE  Tidy(j, row, Going(row.mode, row.done, row.human), human, n)
<1> DEFINE g == Going(row.mode, row.done, row.human)
<1>1. /\ g.human = row.human /\ g.hand = None
      /\ g.pc \in {"begin", "check", "finish", "copy_read", "commit"}
      /\ g.pc = "begin" => g.stage = "validate"
      /\ g.pc = "copy_read" => row.mode = "copy" /\ row.human # None
      /\ g.pc = "commit" => row.mode # "copy" /\ row.human # None
  BY DEF Going, Stages
<1> HIDE DEF g
<1>2. Names(row, g, human)
  BY <1>1 DEF Tidy, Names, Gone, WithHuman
<1>3. Hands(j, row, g, n)
  BY <1>1 DEF Tidy, Hands
<1>4. Ids(j, row, g, human, n)
  BY <1>1 DEF Tidy, Ids
<1> QED BY <1>2, <1>3, <1>4 DEF Tidy, g

\* Load: the driver takes the human of the row, or ends.
LEMMA LoadLedger == ASSUME IInv, LInv, NEW j \in Jobs, Load(j) PROVE LInv'
<1>1. /\ driver[j].pc = "load" /\ driver[j].hand = None
      /\ Created(j) /\ job[j] \in JobRow /\ driver[j] \in Driver
  BY LedgerFacts, EmptyHand DEF Load, At
<1>2. PICK d \in Driver : /\ driver' = [driver EXCEPT ![j] = d] /\ d.hand = None
                          /\ d.human \in {None, job[j].human} /\ d.pc \in Parked
                          /\ d.pc # "crashed"
  <2>1. CASE job[j].status \notin Unfinished \cup {"cleanup_pending"}
    <3>1. NoDriver \in Driver /\ NoDriver.hand = None /\ NoDriver.human = None /\ NoDriver.pc = "idle"
      BY NoValuesTyped DEF NoDriver
    <3> QED BY <2>1, <3>1 DEF Load, Parked, PCs, WithCopy, WithHuman, Staging
  <2>2. CASE job[j].status \in Unfinished \cup {"cleanup_pending"}
    <3> DEFINE pc == CASE job[j].status = "cancelling" -> "mark_cancelled"
                       [] job[j].status = "cleanup_pending" -> "clean"
                       [] OTHER -> "claim"
               d == [driver[j] EXCEPT !.human = job[j].human, !.pc = pc]
    <3>1. pc \in {"mark_cancelled", "clean", "claim"}
      OBVIOUS
    <3> HIDE DEF pc
    <3>2. pc \in PCs /\ pc \in Parked
      BY <3>1 DEF PCs, Parked, WithCopy, WithHuman, Staging
    <3>3. d \in Driver /\ d.pc = pc /\ d.hand = None /\ d.human = job[j].human
      BY <1>1, <3>2 DEF Driver, JobRow
    <3>4. driver' = [driver EXCEPT ![j] = d]
      BY <2>2 DEF Load, pc
    <3> QED BY <3>1, <3>2, <3>3, <3>4
  <2> QED BY <2>1, <2>2
<1>3. job' = [job EXCEPT ![j] = job[j]] /\ SameAccount(job[j], job[j])
  BY DEF Load, IInv, TypeOK, SameAccount
<1>4. HumansKept /\ UNCHANGED <<human, enrolled, crashes, faults>> /\ job[j].status # "absent"
  BY <1>1, SameHumans DEF Load, others, Created
<1> QED BY <1>1, <1>2, <1>3, <1>4, ParkedStep

\* A write that changes the status and flags of a row keeps its account.
LEMMA StatusAccount ==
  ASSUME NEW row \in JobRow, NEW st \in Statuses
  PROVE  /\ [row EXCEPT !.status = st] \in JobRow
         /\ [row EXCEPT !.status = st].status = st
         /\ SameAccount([row EXCEPT !.status = st], row)
BY DEF JobRow, SameAccount

\* ... and one whose cleanup state changes with its status.
LEMMA CleanupAccount ==
  ASSUME NEW row \in JobRow, NEW st \in Statuses, NEW c \in CleanupStates
  PROVE  /\ [row EXCEPT !.status = st, !.cleanup = c] \in JobRow
         /\ [row EXCEPT !.status = st, !.cleanup = c].status = st
         /\ SameAccount([row EXCEPT !.status = st, !.cleanup = c], row)
BY DEF JobRow, SameAccount

\* A row with the same account is as tidy.
LEMMA AccountTidy ==
  ASSUME NEW j, NEW old, NEW row, NEW d, NEW H, NEW n, SameAccount(row, old), Tidy(j, old, d, H, n)
  PROVE  Tidy(j, row, d, H, n)
BY DEF SameAccount, Tidy, Names, Hands, Ids, Slot

\* The claim enters the stage that follows those of the row.
LEMMA ClaimLedger == ASSUME IInv, LInv, NEW j \in Jobs, Claim(j) PROVE LInv'
<1> DEFINE row == [job[j] EXCEPT !.status = "running"]
           d == Going(row.mode, row.done, row.human)
<1>1. /\ driver[j].pc = "claim" /\ driver[j].hand = None
      /\ Created(j) /\ job[j] \in JobRow /\ Tidy(j, job[j], driver[j], human, enrolled[j])
  BY LedgerFacts, EmptyHand DEF Claim, At
<1>2. row \in JobRow /\ row.status = "running" /\ SameAccount(row, job[j])
  BY <1>1, StatusAccount DEF Statuses
<1>3. Tidy(j, row, driver[j], human, enrolled[j])
  BY <1>1, <1>2, AccountTidy
<1>4. row.human \in Humans \cup {None} /\ row.mode \in Modes
  BY <1>2 DEF JobRow
<1>5. d \in Driver
  BY <1>2, <1>4, GoingFits
<1>6. d.hand = None /\ d.human = row.human /\ d.pc # "crashed"
  BY DEF Going
<1>7. job' = [job EXCEPT ![j] = row] /\ driver' = [driver EXCEPT ![j] = d]
  BY <1>2 DEF Claim, SetStatus, UpdateJob, Enter, SameAccount
<1>8. HumansKept /\ UNCHANGED <<human, enrolled, crashes, faults>>
  BY SameHumans DEF Claim, others
<1>9. Tidy(j, row, d, human, enrolled[j])
  BY <1>2, <1>3, GoingTidy
<1> HIDE DEF row, d
<1> QED BY <1>1, <1>2, <1>5, <1>6, <1>7, <1>8, <1>9, QuietStep DEF Late

\* A step of the driver to another place of its program, with the row left alone.
LEMMA MoveLedger ==
  ASSUME IInv, LInv, HumansKept, NEW j \in Jobs, driver[j].pc # "idle",
         NEW pc \in PCs, pc # "crashed", Goto(j, pc), UNCHANGED <<job, enrolled, crashes, faults>>,
         pc \in Staging => driver[j].pc \in Staging,
         Tidy(j, job[j], [driver[j] EXCEPT !.pc = pc], human', enrolled[j]),
         \A h \in Humans : human'[h].status = "ready" /\ human'[h] # human[h]
           => human'[h].voice # None /\ human'[h].avatar # None
              /\ Makes(j, job[j], enrolled[j], h, human'[h])
  PROVE  LInv'
<1> DEFINE d == [driver[j] EXCEPT !.pc = pc]
<1>1. Created(j) /\ job[j] \in JobRow /\ driver[j] \in Driver
  BY LedgerFacts
<1>2. /\ d \in Driver /\ d.pc = pc /\ d.hand = driver[j].hand
      /\ Late(d) => Late(driver[j])
  BY <1>1 DEF Driver, Late
<1>3. job' = [job EXCEPT ![j] = job[j]] /\ SameAccount(job[j], job[j])
  BY DEF IInv, TypeOK, SameAccount
<1>4. driver' = [driver EXCEPT ![j] = d]
  BY DEF Goto
<1>5. job[j].status # "absent"
  BY <1>1 DEF Created
<1> HIDE DEF d
<1>6. Tidy(j, job[j], d, human', enrolled[j])
  BY DEF d
<1> QED BY <1>1, <1>2, <1>3, <1>4, <1>5, <1>6, QuietStep

\* ... to one where it has neither a human nor a resource in hand.
LEMMA ParkLedger ==
  ASSUME IInv, LInv, HumansKept, NEW j \in Jobs, driver[j].pc \notin {"idle", "persist_human", "persist"},
         NEW pc \in Parked, pc # "crashed", Goto(j, pc), UNCHANGED <<job, enrolled, crashes, faults>>,
         \A h \in Humans : human'[h].status = "ready" => human'[h] = human[h]
  PROVE  LInv'
<1> DEFINE d == [driver[j] EXCEPT !.pc = pc]
<1>1. Created(j) /\ job[j] \in JobRow /\ driver[j] \in Driver /\ driver[j].hand = None
  BY LedgerFacts, EmptyHand
<1>2. d \in Driver /\ d.pc = pc /\ d.hand = None /\ d.human = driver[j].human
  BY <1>1 DEF Driver, Parked
<1>3. job' = [job EXCEPT ![j] = job[j]] /\ SameAccount(job[j], job[j])
  BY DEF IInv, TypeOK, SameAccount
<1>4. driver' = [driver EXCEPT ![j] = d]
  BY DEF Goto
<1>5. job[j].status # "absent"
  BY <1>1 DEF Created
<1> HIDE DEF d
<1> QED BY <1>1, <1>2, <1>3, <1>4, <1>5, ParkedStep

\* The driver ends or dies, and the row keeps its account.
LEMMA StopLedger ==
  ASSUME IInv, LInv, HumansKept, NEW j \in Jobs, driver[j].pc \notin {"idle", "persist_human", "persist"},
         NEW row \in JobRow, job' = [job EXCEPT ![j] = row], row.status # "absent",
         SameAccount(row, job[j]), UNCHANGED <<enrolled, crashes, faults>>,
         End(j) \/ (Raise(j) /\ Deleted # {}),
         \A h \in Humans : human'[h].status = "ready" => human'[h] = human[h]
  PROVE  LInv'
<1>1. Created(j) /\ driver[j].hand = None
  BY LedgerFacts, EmptyHand
<1>2. PICK d \in Driver : /\ driver' = [driver EXCEPT ![j] = d] /\ d.hand = None /\ d.human = None
                          /\ d.pc \in Parked /\ (d.pc = "crashed" => Deleted # {})
  <2>1. CASE End(j)
    BY <2>1, NoValuesTyped DEF End, NoDriver, Parked, PCs, WithCopy, WithHuman, Staging
  <2>2. CASE Raise(j) /\ Deleted # {}
    <3> DEFINE d == [NoDriver EXCEPT !.pc = "crashed"]
    <3>1. d \in Driver /\ d.pc = "crashed" /\ d.hand = None /\ d.human = None
      BY NoValuesTyped DEF NoDriver, Driver, PCs, Stages
    <3> QED BY <2>2, <3>1 DEF Raise, Parked, PCs, WithCopy, WithHuman, Staging
  <2> QED BY <2>1, <2>2
<1> QED BY <1>1, <1>2, ParkedStep

-----------------------------------------------------------------------------
\* The stages.

\* Each step of a stage keeps the ledger.  The first marks the job running.
LEMMA BeginValidateLedger == ASSUME IInv, LInv, NEW j \in Jobs, BeginValidate(j) PROVE LInv'
<1> DEFINE row == [job[j] EXCEPT !.status = "running"]
           d == [driver[j] EXCEPT !.pc = "check"]
<1>1. /\ driver[j].pc = "begin" /\ driver[j].hand = None /\ driver[j] \in Driver
      /\ Created(j) /\ job[j] \in JobRow /\ Tidy(j, job[j], driver[j], human, enrolled[j])
  BY LedgerFacts, EmptyHand DEF BeginValidate, At
<1>2. row \in JobRow /\ row.status = "running" /\ SameAccount(row, job[j])
  BY <1>1, StatusAccount DEF Statuses
<1>3. /\ d \in Driver /\ d.pc = "check" /\ d.hand = None /\ d.human = driver[j].human
      /\ d.stage = driver[j].stage
  BY <1>1 DEF Driver, PCs
<1>4. job' = [job EXCEPT ![j] = row] /\ driver' = [driver EXCEPT ![j] = d]
  BY DEF BeginValidate, SetStatus, UpdateJob, Goto
<1>5. HumansKept /\ UNCHANGED <<human, enrolled, crashes, faults>>
  BY SameHumans DEF BeginValidate, others
<1> HIDE DEF row, d
<1>6. Tidy(j, job[j], d, human, enrolled[j])
  <2>1. Names(job[j], d, human) /\ Hands(j, job[j], d, enrolled[j])
    BY <1>1, <1>3 DEF Tidy, Names, Hands, WithCopy, WithHuman, Staging
  <2>2. Ids(j, job[j], d, human, enrolled[j])
    BY <1>1, <1>3 DEF Tidy, Ids
  <2> QED BY <2>1, <2>2 DEF Tidy
<1>7. Tidy(j, row, d, human, enrolled[j])
  BY <1>2, <1>6, AccountTidy
<1>8. Late(d) => Late(driver[j])
  BY <1>1, <1>3 DEF Late, Staging
<1> QED BY <1>1, <1>2, <1>3, <1>4, <1>5, <1>7, <1>8, QuietStep

\* A stage that finds the job cancelled goes on to cancel it.
LEMMA CheckCancelledLedger == ASSUME IInv, LInv, NEW j \in Jobs, CheckCancelled(j) PROVE LInv'
<1>1. /\ driver[j].pc = "check" /\ driver[j].hand = None /\ driver[j] \in Driver
      /\ job[j] \in JobRow /\ Tidy(j, job[j], driver[j], human, enrolled[j])
  BY LedgerFacts, EmptyHand DEF CheckCancelled, At
<1>2. HumansKept /\ UNCHANGED <<job, human, enrolled, crashes, faults>>
  BY SameHumans DEF CheckCancelled, others
<1>3. CASE Goto(j, "mark_cancelled") \/ Goto(j, "fail")
  <2>1. {"mark_cancelled", "fail"} \subseteq Parked \ {"crashed"}
    BY DEF Parked, PCs, WithCopy, WithHuman, Staging
  <2> QED BY <1>1, <1>2, <1>3, <2>1, ParkLedger
<1>4. ASSUME NEW pc \in {"persist", "save_human", "enroll"}, Goto(j, pc),
             pc = "persist" => driver[j].stage \notin Enrolments,
             pc = "save_human" => driver[j].stage = "save" /\ TouchesHuman(j),
             pc = "enroll" => driver[j].stage \in Enrolments
      PROVE  LInv'
  <2> DEFINE d == [driver[j] EXCEPT !.pc = pc]
  <2>1. /\ d.pc = pc /\ d.hand = None /\ d.human = driver[j].human /\ d.stage = driver[j].stage
    BY <1>1 DEF Driver
  <2> HIDE DEF d
  <2>2. Names(job[j], d, human)
    BY <1>1, <1>4, <2>1 DEF Tidy, Names, WithCopy, WithHuman, Staging, TouchesHuman
  <2>3. Hands(j, job[j], d, enrolled[j])
    BY <1>1, <1>4, <2>1 DEF Tidy, Hands
  <2>4. Ids(j, job[j], d, human, enrolled[j])
    BY <1>1, <1>4, <2>1 DEF Tidy, Ids
  <2>5. Tidy(j, job[j], d, human', enrolled[j])
    BY <1>2, <2>2, <2>3, <2>4 DEF Tidy
  <2>6. pc \in PCs /\ pc # "crashed" /\ driver[j].pc \in Staging /\ driver[j].pc # "idle"
    BY <1>1 DEF PCs, Staging
  <2> QED BY <1>2, <1>4, <2>5, <2>6, MoveLedger DEF d
<1> QED BY <1>1, <1>3, <1>4 DEF CheckCancelled, Driver, Stages, Enrolments

\* An enrolment that fails leaves nothing behind.
LEMMA EnrollFailsLedger == ASSUME IInv, LInv, NEW j \in Jobs, EnrollFails(j) PROVE LInv'
<1>1. "fail" \in Parked
  BY DEF Parked, PCs, WithCopy, WithHuman, Staging
<1> QED BY <1>1, SameHumans, ParkLedger DEF EnrollFails, At, others

\* The resources of a job are its first so many, and the next one is new.
LEMMA OwnedGrows ==
  ASSUME NEW j \in Jobs, NEW n \in Nat
  PROVE  /\ Owned(j, n + 1) = Owned(j, n) \cup {[owner |-> j, n |-> n + 1]}
         /\ [owner |-> j, n |-> n + 1] \in Resource \ Owned(j, n)
         /\ None \notin Owned(j, n)
         /\ IsFiniteSet(Owned(j, n))
<1>1. 1..(n + 1) = 1..n \cup {n + 1} /\ n + 1 \notin 1..n /\ 1..n \subseteq Nat
  OBVIOUS
<1>2. Owned(j, n) \subseteq Resource /\ [owner |-> j, n |-> n + 1] \in Resource
  BY DEF Owned, Resource
<1>3. [owner |-> j, n |-> n + 1] \notin Owned(j, n)
  <2>1. ASSUME NEW k \in 1..n, [owner |-> j, n |-> n + 1] = [owner |-> j, n |-> k] PROVE FALSE
    BY <1>1, <2>1
  <2> QED BY <2>1 DEF Owned
<1>4. Owned(j, n + 1) = Owned(j, n) \cup {[owner |-> j, n |-> n + 1]}
  BY <1>1 DEF Owned
<1>5. IsFiniteSet(Owned(j, n))
  <2> DEFINE f == [r \in Owned(j, n) |-> r.n]
  <2>1. IsFiniteSet(1..n)
    BY FS_Interval
  <2>2. \A r \in Owned(j, n) : r.n \in 1..n /\ r = [owner |-> j, n |-> r.n]
    BY DEF Owned
  <2>3. f \in [Owned(j, n) -> 1..n] /\ \A x, y \in Owned(j, n) : f[x] = f[y] => x = y
    BY <2>2
  <2>4. f \in Injection(Owned(j, n), 1..n)
    BY <2>3 DEF Injection, IsInjective
  <2> QED BY <2>1, <2>4, FS_Injection
<1> QED BY <1>2, <1>3, <1>4, <1>5, NoneIsNoResource

\* An enrolment loses nothing: what the provider made is in the driver's hand.
LEMMA EnrollLedger == ASSUME IInv, LInv, NEW j \in Jobs, Enroll(j) PROVE LInv'
<1> DEFINE n == enrolled[j] + 1
           r == [owner |-> j, n |-> n]
           d == [driver[j] EXCEPT !.hand = r, !.pc = IF TouchesHuman(j) THEN "persist_human" ELSE "persist"]
<1>1. /\ driver[j].pc = "enroll" /\ driver[j].hand = None /\ driver[j] \in Driver
      /\ Created(j) /\ job[j] \in JobRow /\ enrolled[j] \in Nat
      /\ Tidy(j, job[j], driver[j], human, enrolled[j]) /\ Counted(j, job[j], driver[j], enrolled[j])
  BY LedgerFacts, EmptyHand DEF Enroll, At
<1>2. /\ Owned(j, n) = Owned(j, enrolled[j]) \cup {r}
      /\ r \in Resource \ Owned(j, enrolled[j]) /\ r # None /\ None \notin Owned(j, enrolled[j])
      /\ n \in Nat /\ enrolled[j] <= n
  BY <1>1, OwnedGrows, NoneIsNoResource
<1>3. /\ d \in Driver /\ d.hand = r /\ d.human = driver[j].human /\ d.stage = driver[j].stage
      /\ d.pc = IF TouchesHuman(j) THEN "persist_human" ELSE "persist"
  BY <1>1, <1>2 DEF Driver, PCs
<1>4. /\ job' = [job EXCEPT ![j] = job[j]] /\ driver' = [driver EXCEPT ![j] = d]
      /\ enrolled' = [enrolled EXCEPT ![j] = n]
      /\ HumansKept /\ UNCHANGED <<human, crashes, faults>> /\ job[j].status # "absent"
  BY <1>1, SameHumans DEF Enroll, others, IInv, TypeOK, Created
<1> HIDE DEF r, d, n
<1>5. Tidy(j, job[j], d, human, n)
  <2>1. Names(job[j], d, human)
    BY <1>1, <1>3 DEF Tidy, Names, WithCopy, WithHuman, Staging, TouchesHuman
  <2>2. Hands(j, job[j], d, n)
    BY <1>1, <1>2, <1>3 DEF Tidy, Hands
  <2>3. Ids(j, job[j], d, human, n)
    BY <1>1, <1>2, <1>3 DEF Tidy, Ids, Names, TouchesHuman, WithCopy, Staging
  <2> QED BY <2>1, <2>2, <2>3 DEF Tidy
<1>6. Counted(j, job[j], d, n)
  <2>1. Lost(j, job[j], d, n) = Lost(j, job[j], driver[j], enrolled[j])
    BY <1>1, <1>2, <1>3 DEF Lost
  <2>2. Late(d) => Late(driver[j])
    BY <1>1, <1>3 DEF Late, Staging
  <2> QED BY <1>1, <2>1, <2>2 DEF Counted
<1> QED BY <1>1, <1>2, <1>3, <1>4, <1>5, <1>6, LedgerStep

\* update_status of a human that is there deletes nobody and keeps the ids it has.
LEMMA HumanUpdateKeeps ==
  ASSUME TypeOK, NEW h \in Humans, Present(h), NEW st, st \notin Gone, NEW v, NEW a,
         UpdateHuman(h, st, v, a)
  PROVE  /\ HumansKept
         /\ \A k \in Humans : k # h => human'[k] = human[k]
         /\ human'[h].status = st
         /\ human'[h].voice = Coalesce(v, human[h].voice)
         /\ human'[h].avatar = Coalesce(a, human[h].avatar)
<1>1. /\ \A k \in Humans : k # h => human'[k] = human[k]
      /\ human'[h].status = st
      /\ human'[h].voice = Coalesce(v, human[h].voice)
      /\ human'[h].avatar = Coalesce(a, human[h].avatar)
  BY DEF TypeOK, UpdateHuman
<1>2. HumansKept
  BY <1>1 DEF HumansKept, Present, Gone, Coalesce, Slot
<1> QED BY <1>1, <1>2

\* The human gets the id first; when it has been deleted the id is lost.
LEMMA PersistHumanLedger == ASSUME IInv, LInv, NEW j \in Jobs, PersistHuman(j) PROVE LInv'
<1> DEFINE h == driver[j].human
<1>1. /\ driver[j].pc = "persist_human" /\ driver[j] \in Driver /\ enrolled[j] \in Nat
      /\ Created(j) /\ job[j] \in JobRow /\ job[j].status # "absent"
      /\ Tidy(j, job[j], driver[j], human, enrolled[j]) /\ Counted(j, job[j], driver[j], enrolled[j])
  BY LedgerFacts DEF PersistHuman, At, Created
<1>2. /\ h \in Humans /\ h # None /\ job[j].mode = "new"
      /\ h # job[j].human => job[j].human = None /\ human[h].status = "deleted"
      /\ driver[j].stage \in Enrolments /\ driver[j].hand # None
      /\ driver[j].hand \in Owned(j, enrolled[j]) \ job[j].remote
  BY <1>1 DEF Tidy, Names, Hands, Driver, WithHuman, WithCopy, Staging
<1>3. UNCHANGED <<job, enrolled, crashes, faults>>
  BY DEF PersistHuman, others
<1>4. CASE Present(h)
  <2> DEFINE v == Enrolled(j, "voice")  a == Enrolled(j, "avatar")
             d == [driver[j] EXCEPT !.pc = "persist"]
  <2>1. UpdateHuman(h, "building", v, a) /\ Goto(j, "persist")
    BY <1>4 DEF PersistHuman
  <2>2. /\ HumansKept /\ \A k \in Humans : k # h => human'[k] = human[k]
        /\ human'[h].status = "building"
        /\ human'[h].voice = Coalesce(v, human[h].voice)
        /\ human'[h].avatar = Coalesce(a, human[h].avatar)
    <3>1. TypeOK /\ "building" \notin Gone
      BY DEF IInv, Gone
    <3> QED BY <1>2, <1>4, <2>1, <3>1, HumanUpdateKeeps
  <2>3. job[j].human = h
    BY <1>2, <1>4 DEF Present
  <2>4. Slot(human'[h], driver[j].stage) # None
    BY <1>2, <2>2 DEF Slot, Coalesce, Enrolled, Enrolments
  <2>5. /\ d.pc = "persist" /\ d.hand = driver[j].hand /\ d.human = h /\ d.stage = driver[j].stage
    BY <1>1 DEF Driver
  <2>6. Tidy(j, job[j], driver[j], human', enrolled[j])
    BY <1>1, <2>2, TidyKept
  <2> HIDE DEF d, h
  <2>7. Names(job[j], d, human')
    BY <1>1, <2>5, <2>6 DEF Tidy, Names, WithCopy, WithHuman, Staging, h
  <2>8. Hands(j, job[j], d, enrolled[j])
    BY <1>1, <2>5, <2>6 DEF Tidy, Hands
  <2>9. Ids(j, job[j], d, human', enrolled[j])
    BY <1>1, <2>3, <2>4, <2>5, <2>6 DEF Tidy, Ids
  <2>10. Tidy(j, job[j], d, human', enrolled[j])
    BY <2>7, <2>8, <2>9 DEF Tidy
  <2>11. "persist" \in PCs /\ "persist" \in Staging /\ driver[j].pc \in Staging /\ driver[j].pc # "idle"
    BY <1>1 DEF PCs, Staging
  <2> QED BY <1>3, <2>1, <2>2, <2>10, <2>11, MoveLedger DEF d
<1>5. CASE ~Present(h)
  <2> DEFINE d == [driver[j] EXCEPT !.pc = "fail", !.hand = None]
  <2>1. /\ d \in Driver /\ d.pc = "fail" /\ d.hand = None /\ d.human = h
    BY <1>1 DEF Driver, PCs
  <2>2. /\ driver' = [driver EXCEPT ![j] = d] /\ job' = [job EXCEPT ![j] = job[j]]
        /\ enrolled' = [enrolled EXCEPT ![j] = enrolled[j]] /\ UNCHANGED human /\ HumansKept
    BY <1>3, <1>5, SameHumans DEF PersistHuman, IInv, TypeOK
  <2>3. job[j].human = None /\ human[h].status = "deleted"
    BY <1>1, <1>2, <1>5 DEF Tidy, Names, Present, Gone
  <2>4. Deleted # {}
    BY <1>2, <2>3 DEF Deleted
  <2> HIDE DEF d, h
  <2>5. Tidy(j, job[j], d, human', enrolled[j])
    <3>1. Names(job[j], d, human)
      BY <1>1, <1>2, <2>1, <2>3 DEF Tidy, Names, WithCopy, WithHuman, Staging
    <3>2. Hands(j, job[j], d, enrolled[j]) /\ Ids(j, job[j], d, human, enrolled[j])
      BY <1>1, <2>1 DEF Tidy, Hands, Ids
    <3> QED BY <2>2, <3>1, <3>2 DEF Tidy
  <2>6. Counted(j, job[j], d, enrolled[j])
    <3> DEFINE L == Lost(j, job[j], driver[j], enrolled[j])
    <3>1. Late(driver[j]) /\ ~Late(d)
      BY <1>1, <1>2, <2>1 DEF Late, Staging, h
    <3>2. Cardinality(L) <= crashes + faults[j]
      BY <1>1, <3>1 DEF Counted
    <3>3. Lost(j, job[j], d, enrolled[j]) = L \cup {driver[j].hand}
      BY <1>1, <1>2, <2>1, OwnedGrows DEF Lost
    <3>4. IsFiniteSet(L)
      BY <1>1, OwnedGrows, FS_Subset DEF Lost
    <3>5. Cardinality(L \cup {driver[j].hand}) <= crashes + faults[j] + 1
      <4> HIDE DEF L
      <4>1. Cardinality(L) \in Nat /\ crashes \in Nat /\ faults[j] \in Nat
        BY <3>4, FS_CardinalityType, BoundsAreNaturals DEF IInv, TypeOK
      <4>2. Cardinality(L \cup {driver[j].hand}) \in {Cardinality(L), Cardinality(L) + 1}
        BY <3>4, FS_AddElement
      <4> QED BY <3>2, <4>1, <4>2
    <3> QED BY <1>1, <2>3, <2>4, <3>1, <3>3, <3>5 DEF Counted
  <2>7. \A k \in Humans : human'[k] = human[k]
    BY <2>2
  <2>8. UNCHANGED <<crashes, faults>> /\ enrolled[j] <= enrolled[j] /\ job[j].done \subseteq job[j].done
    BY <1>1, <1>3
  <2> QED BY <1>1, <2>1, <2>2, <2>4, <2>5, <2>6, <2>7, <2>8, LedgerStep
<1> QED BY <1>4, <1>5

\* Recording a stage moves what is in the driver's hand to the row.
LEMMA PersistJobLedger == ASSUME IInv, LInv, NEW j \in Jobs, PersistJob(j) PROVE LInv'
<1> DEFINE dr == driver[j]
           n == enrolled[j]
           staging == job[j].mode # "new"
           v == IF staging THEN Coalesce(Enrolled(j, "voice"), job[j].voice) ELSE job[j].voice
           a == IF staging THEN Coalesce(Enrolled(j, "avatar"), job[j].avatar) ELSE job[j].avatar
           m == job[j].remote \cup ({dr.hand} \ {None})
           done == job[j].done \cup {dr.stage}
           row == [job[j] EXCEPT !.status = "running", !.done = done, !.voice = v, !.avatar = a,
                                 !.remote = m]
           d == Going(row.mode, row.done, row.human)
<1>1. /\ dr.pc = "persist" /\ dr \in Driver /\ n \in Nat
      /\ Created(j) /\ job[j] \in JobRow
      /\ Tidy(j, job[j], dr, human, n) /\ Counted(j, job[j], dr, n)
      /\ job[j].done # Stages /\ dr.stage = NextStage(job[j].done)
  BY LedgerFacts, DriverFacts DEF PersistJob, At, Staging
<1>2. dr.stage \in Stages \ job[j].done
  BY <1>1, NextStageIsStage DEF JobRow
<1>3. /\ dr.hand # None => dr.stage \in Enrolments /\ dr.hand \in Owned(j, n) \ job[j].remote
      /\ dr.stage \in Enrolments => dr.hand # None
      /\ job[j].remote \subseteq Owned(j, n)
  BY <1>1 DEF Tidy, Hands
<1>4. /\ row.status = "running" /\ row.done = done /\ row.voice = v /\ row.avatar = a /\ row.remote = m
      /\ row.mode = job[j].mode /\ row.human = job[j].human
  BY <1>1 DEF JobRow
<1>5. row \in JobRow
  <2>1. dr.hand \in Resource \cup {None} /\ dr.stage \in Stages
    BY <1>1 DEF Driver
  <2>2. v \in Resource \cup {None} /\ a \in Resource \cup {None}
    BY <1>1, <2>1 DEF Coalesce, Enrolled, JobRow
  <2>3. m \in SUBSET Resource /\ done \in SUBSET Stages
    BY <1>1, <2>1 DEF JobRow
  <2> HIDE DEF v, a, m, done
  <2> QED BY <1>1, <2>2, <2>3 DEF JobRow, Statuses
<1>6. job' = [job EXCEPT ![j] = row] /\ driver' = [driver EXCEPT ![j] = d] /\ UNCHANGED <<human, enrolled, crashes, faults>>
  <2>1. job' = [job EXCEPT ![j] = row]
    BY DEF PersistJob, UpdateJob
  <2>2. driver' = [driver EXCEPT ![j] = Going(job[j].mode, done, job[j].human)]
    BY DEF PersistJob, Enter
  <2> HIDE DEF row
  <2> QED BY <1>4, <2>1, <2>2 DEF PersistJob, others
<1>7. d.hand = None /\ d.human = row.human /\ d.pc # "crashed" /\ d \in Driver
  <2>1. row.mode \in Modes /\ row.human \in Humans \cup {None}
    BY <1>5 DEF JobRow
  <2> HIDE DEF row
  <2>2. d \in Driver
    BY <1>4, <1>5, <2>1, GoingFits
  <2> QED BY <2>2 DEF Going
<1>8. \A s \in Enrolments : job[j].mode # "new" /\ s \in done => Slot(row, s) \in Owned(j, n)
  <2> HIDE DEF row
  <2>1. ASSUME NEW s \in Enrolments, job[j].mode # "new", s \in job[j].done
        PROVE  Slot(row, s) = Slot(job[j], s) /\ Slot(job[j], s) \in Owned(j, n)
    BY <1>1, <1>2, <1>4, <2>1 DEF Tidy, Ids, Slot, Coalesce, Enrolled, Enrolments
  <2>2. ASSUME NEW s \in Enrolments, job[j].mode # "new", s = dr.stage
        PROVE  Slot(row, s) = dr.hand /\ dr.hand \in Owned(j, n)
    BY <1>3, <1>4, <2>2 DEF Slot, Coalesce, Enrolled, Enrolments
  <2> QED BY <2>1, <2>2
<1>9. Tidy(j, row, [dr EXCEPT !.pc = "claim", !.hand = None], human, n)
  <2> DEFINE e == [dr EXCEPT !.pc = "claim", !.hand = None]
  <2>1. e.pc = "claim" /\ e.hand = None /\ e.human = dr.human
    BY <1>1 DEF Driver
  <2> HIDE DEF e, row
  <2>2. Names(row, e, human)
    BY <1>1, <1>4, <2>1 DEF Tidy, Names, WithCopy, WithHuman, Staging
  <2>3. Hands(j, row, e, n)
    BY <1>3, <1>4, <2>1 DEF Hands
  <2>4. Ids(j, row, e, human, n)
    BY <1>1, <1>4, <1>8, <2>1 DEF Tidy, Ids
  <2>5. Tidy(j, row, e, human, n)
    BY <2>2, <2>3, <2>4 DEF Tidy
  <2> QED BY <2>5 DEF e
<1>10. Tidy(j, row, d, human', n)
  <2> HIDE DEF row
  <2> QED BY <1>5, <1>6, <1>9, GoingTidy
<1>11. Counted(j, row, d, n)
  <2> HIDE DEF row, d
  <2>1. Lost(j, row, d, n) = Lost(j, job[j], dr, n)
    BY <1>1, <1>3, <1>4, <1>7, OwnedGrows DEF Lost
  <2>2. job[j].human = None => ~Late(d)
    BY <1>4, <1>7 DEF Late
  <2>3. Cardinality(m) = Cardinality(done \cap Enrolments)
    <3>1. IsFiniteSet(job[j].remote) /\ IsFiniteSet(job[j].done \cap Enrolments)
      <4>1. IsFiniteSet(job[j].remote)
        BY <1>1, <1>3, OwnedGrows, FS_Subset
      <4>2. IsFiniteSet(Enrolments)
        <5>1. IsFiniteSet({"voice"}) /\ Enrolments = {"voice"} \cup {"avatar"}
          BY FS_Singleton DEF Enrolments
        <5> QED BY <5>1, FS_AddElement
      <4> QED BY <4>1, <4>2, FS_Intersection
    <3>2. Cardinality(job[j].remote) = Cardinality(job[j].done \cap Enrolments)
      BY <1>1 DEF Counted
    <3>3. CASE dr.stage \in Enrolments
      <4>1. m = job[j].remote \cup {dr.hand} /\ dr.hand \notin job[j].remote
        BY <1>3, <3>3
      <4>2. /\ done \cap Enrolments = (job[j].done \cap Enrolments) \cup {dr.stage}
            /\ dr.stage \notin job[j].done \cap Enrolments
        BY <1>2, <3>3
      <4>3. Cardinality(m) = Cardinality(job[j].remote) + 1
        BY <3>1, <4>1, FS_AddElement
      <4>4. Cardinality(done \cap Enrolments) = Cardinality(job[j].done \cap Enrolments) + 1
        BY <3>1, <4>2, FS_AddElement
      <4> QED BY <3>2, <4>3, <4>4
    <3>4. CASE dr.stage \notin Enrolments
      <4>1. m = job[j].remote /\ done \cap Enrolments = job[j].done \cap Enrolments
        BY <1>3, <3>4
      <4> QED BY <3>2, <4>1
    <3> QED BY <3>3, <3>4
  <2> QED BY <1>1, <1>4, <2>1, <2>2, <2>3 DEF Counted, Late, Staging
<1>12. /\ HumansKept /\ enrolled' = [enrolled EXCEPT ![j] = n] /\ enrolled[j] <= n /\ UNCHANGED <<crashes, faults>>
       /\ row.status # "absent" /\ job[j].done \subseteq row.done
       /\ \A h \in Humans : human'[h] = human[h]
  BY <1>1, <1>4, <1>6, SameHumans DEF IInv, TypeOK
<1> HIDE DEF row, d, n
<1> QED BY <1>1, <1>4, <1>5, <1>6, <1>7, <1>10, <1>11, <1>12, LedgerStep

\* The last stage marks the human; when that is gone the job fails.
LEMMA SaveHumanLedger == ASSUME IInv, LInv, NEW j \in Jobs, SaveHuman(j) PROVE LInv'
<1> DEFINE h == driver[j].human
<1>1. /\ driver[j].pc = "save_human" /\ driver[j].hand = None /\ driver[j] \in Driver
      /\ job[j] \in JobRow /\ Tidy(j, job[j], driver[j], human, enrolled[j])
  BY LedgerFacts, EmptyHand DEF SaveHuman, At
<1>2. UNCHANGED <<job, enrolled, crashes, faults>>
  BY DEF SaveHuman, others
<1>3. h # None /\ h \in Humans /\ driver[j].stage = "save"
  BY <1>1 DEF Tidy, Names, Hands, WithHuman, Driver
<1>4. CASE Present(h)
  <2> DEFINE d == [driver[j] EXCEPT !.pc = "persist"]
  <2>1. UpdateHuman(h, "building", None, None) /\ Goto(j, "persist")
    BY <1>4 DEF SaveHuman
  <2>2. /\ HumansKept /\ \A k \in Humans : k # h => human'[k] = human[k]
        /\ human'[h].status = "building"
    <3>1. TypeOK /\ "building" \notin Gone
      BY DEF IInv, Gone
    <3> QED BY <1>3, <1>4, <2>1, <3>1, HumanUpdateKeeps
  <2>3. d.pc = "persist" /\ d.hand = None /\ d.human = h /\ d.stage = "save"
    BY <1>1, <1>3 DEF Driver
  <2>4. Tidy(j, job[j], driver[j], human', enrolled[j])
    BY <1>1, <2>2, TidyKept
  <2> HIDE DEF d, h
  <2>5. Names(job[j], d, human') /\ Hands(j, job[j], d, enrolled[j])
    BY <1>1, <2>3, <2>4 DEF Tidy, Names, Hands, WithCopy, WithHuman, Staging, Enrolments, h
  <2>6. Ids(j, job[j], d, human', enrolled[j])
    BY <1>1, <2>3, <2>4 DEF Tidy, Ids, Enrolments
  <2>7. Tidy(j, job[j], d, human', enrolled[j])
    BY <2>5, <2>6 DEF Tidy
  <2>8. "persist" \in PCs /\ driver[j].pc \in Staging /\ driver[j].pc # "idle"
    BY <1>1 DEF PCs, Staging
  <2> QED BY <1>2, <2>1, <2>2, <2>7, <2>8, MoveLedger DEF d
<1>5. CASE ~Present(h)
  <2>1. "fail" \in Parked
    BY DEF Parked, PCs, WithCopy, WithHuman, Staging
  <2>2. HumansKept /\ Goto(j, "fail") /\ \A k \in Humans : human'[k] = human[k]
    BY <1>5, SameHumans DEF SaveHuman
  <2> QED BY <1>1, <1>2, <2>1, <2>2, ParkLedger
<1> QED BY <1>4, <1>5

-----------------------------------------------------------------------------
\* The commit.

\* A human that the driver names and does not find has been deleted.
LEMMA MissingIsDeleted ==
  ASSUME IInv, LInv, NEW j \in Jobs, driver[j].human # None, ~Present(driver[j].human)
  PROVE  Deleted # {}
<1>1. driver[j].human \in Humans /\ human[driver[j].human].status # "absent"
  BY DEF IInv, TypeOK, Driver, LInv, LedgerOK, Tidy, Names
<1>2. human[driver[j].human].status = "deleted"
  BY <1>1 DEF Present, Gone
<1> QED BY <1>1, <1>2 DEF Deleted

\* What a commit writes makes the human whole: the ids of the row, or (mode new)
\* those the human already has.
LEMMA CommitLedger ==
  ASSUME IInv, LInv, NEW j \in Jobs, driver[j].pc \in {"commit", "copy_ready"},
         Present(driver[j].human), Goto(j, "finish"), UNCHANGED <<job, enrolled, crashes, faults>>,
         UpdateHuman(driver[j].human, "ready", job[j].voice, job[j].avatar)
  PROVE  LInv'
<1> DEFINE h == driver[j].human
           d == [driver[j] EXCEPT !.pc = "finish"]
<1>1. /\ driver[j].hand = None /\ driver[j] \in Driver /\ driver[j].pc # "idle"
      /\ job[j] \in JobRow /\ Tidy(j, job[j], driver[j], human, enrolled[j])
      /\ job[j].done = Stages /\ enrolled[j] \in Nat
  BY LedgerFacts, EmptyHand, DriverFacts DEF Committing
<1>2. h # None /\ h \in Humans
  BY <1>1 DEF Present, Driver
<1>3. /\ HumansKept /\ \A k \in Humans : k # h => human'[k] = human[k]
      /\ human'[h].voice = Coalesce(job[j].voice, human[h].voice)
      /\ human'[h].avatar = Coalesce(job[j].avatar, human[h].avatar)
  <2>1. TypeOK /\ "ready" \notin Gone
    BY DEF IInv, Gone
  <2> QED BY <1>2, <2>1, HumanUpdateKeeps
<1>4. Tidy(j, job[j], driver[j], human', enrolled[j])
  BY <1>1, <1>3, TidyKept
<1>5. d.pc = "finish" /\ d.hand = None /\ d.human = h
  BY <1>1 DEF Driver
<1>6. Tidy(j, job[j], d, human', enrolled[j])
  <2> HIDE DEF d, h
  <2>1. Names(job[j], d, human') /\ Hands(j, job[j], d, enrolled[j])
    BY <1>1, <1>4, <1>5 DEF Tidy, Names, Hands, WithCopy, WithHuman, Staging, h
  <2>2. Ids(j, job[j], d, human', enrolled[j])
    BY <1>1, <1>4, <1>5 DEF Tidy, Ids
  <2> QED BY <2>1, <2>2 DEF Tidy
<1>7. human'[h].voice # None /\ human'[h].avatar # None /\ Makes(j, job[j], enrolled[j], h, human'[h])
  <2>1. "voice" \in job[j].done /\ "avatar" \in job[j].done
    BY <1>1 DEF Stages
  <2>2. CASE job[j].mode = "new"
    <3>1. driver[j].pc = "commit" /\ job[j].human = h
      BY <1>1, <1>2, <2>2 DEF Tidy, Names, WithCopy, Present
    <3>2. human[h].voice # None /\ human[h].avatar # None
      BY <1>1, <1>2, <2>1, <2>2, <3>1 DEF Tidy, Ids, Slot, Enrolments
    <3> QED BY <1>3, <2>2, <3>1, <3>2 DEF Makes, Coalesce
  <2>3. CASE job[j].mode # "new"
    <3>1. job[j].voice \in Owned(j, enrolled[j]) /\ job[j].avatar \in Owned(j, enrolled[j])
      BY <1>1, <2>1, <2>3 DEF Tidy, Ids, Slot, Enrolments
    <3>2. job[j].voice # None /\ job[j].avatar # None
      BY <1>1, <3>1, OwnedGrows
    <3> QED BY <1>1, <1>3, <2>3, <3>1, <3>2 DEF Makes, Coalesce
  <2> QED BY <2>2, <2>3
<1>8. "finish" \in PCs /\ "finish" \notin Staging
  BY DEF PCs, Staging
<1> HIDE DEF h
<1> QED BY <1>1, <1>3, <1>6, <1>7, <1>8, MoveLedger DEF d

\* The row does not change when a driver stops at the commit or after it.
LEMMA StopSameRow ==
  ASSUME IInv, LInv, HumansKept, NEW j \in Jobs, driver[j].pc \notin {"idle", "persist_human", "persist"},
         UNCHANGED <<job, enrolled, crashes, faults>>,
         End(j) \/ (Raise(j) /\ driver[j].human # None /\ ~Present(driver[j].human)),
         \A h \in Humans : human'[h].status = "ready" => human'[h] = human[h]
  PROVE  LInv'
<1>1. job[j] \in JobRow /\ job[j].status # "absent"
  BY LedgerFacts DEF Created
<1>2. job' = [job EXCEPT ![j] = job[j]] /\ SameAccount(job[j], job[j])
  BY DEF IInv, TypeOK, SameAccount
<1>3. End(j) \/ (Raise(j) /\ Deleted # {})
  BY MissingIsDeleted
<1> QED BY <1>1, <1>2, <1>3, StopLedger

\* _commit_result: the human that is built, or a copy that is made first.
LEMMA CommitStepsLedger ==
  ASSUME IInv, LInv, NEW j \in Jobs,
         Commit(j) \/ CopyRead(j) \/ CopyCreate(j) \/ CopyReady(j)
  PROVE  LInv'
<1> DEFINE h == driver[j].human
<1>1. /\ driver[j].pc \in {"commit", "copy_read", "copy_create", "copy_ready"}
      /\ driver[j].hand = None /\ driver[j] \in Driver
      /\ Created(j) /\ job[j] \in JobRow /\ job[j].status # "absent"
      /\ Tidy(j, job[j], driver[j], human, enrolled[j])
  BY LedgerFacts, EmptyHand DEF Commit, CopyRead, CopyCreate, CopyReady, At, Created
<1>2. UNCHANGED <<job, enrolled, crashes, faults>> /\ h # None
  BY <1>1 DEF Commit, CopyRead, CopyCreate, CopyReady, others, Tidy, Names, WithHuman
<1>3. CASE ~Present(h) /\ ~CopyCreate(j)
  <2>1. Raise(j) /\ HumansKept /\ \A k \in Humans : human'[k] = human[k]
    BY <1>3, SameHumans DEF Commit, CopyRead, CopyReady
  <2> QED BY <1>1, <1>2, <1>3, <2>1, StopSameRow
<1>4. CASE Present(h) /\ (Commit(j) \/ CopyReady(j))
  BY <1>1, <1>2, <1>4, CommitLedger DEF Commit, CopyReady, At
<1>5. CASE Present(h) /\ CopyRead(j)
  <2> DEFINE d == [driver[j] EXCEPT !.pc = "copy_create"]
  <2>1. d.pc = "copy_create" /\ d.hand = None /\ d.human = h /\ driver[j].pc = "copy_read"
    BY <1>1, <1>5 DEF Driver, CopyRead, At
  <2>2. Goto(j, "copy_create") /\ HumansKept /\ UNCHANGED human
    BY <1>5, SameHumans DEF CopyRead
  <2> HIDE DEF d, h
  <2>3. Names(job[j], d, human) /\ Hands(j, job[j], d, enrolled[j])
    BY <1>1, <2>1 DEF Tidy, Names, Hands, WithCopy, WithHuman, Staging, h
  <2>4. Ids(j, job[j], d, human, enrolled[j])
    BY <1>1, <2>1 DEF Tidy, Ids
  <2>5. Tidy(j, job[j], d, human', enrolled[j])
    BY <2>2, <2>3, <2>4 DEF Tidy
  <2>6. "copy_create" \in PCs /\ "copy_create" \notin Staging /\ driver[j].pc # "idle"
    BY <1>1 DEF PCs, Staging
  <2> QED BY <1>2, <2>2, <2>5, <2>6, MoveLedger DEF d
<1>6. CASE CopyCreate(j)
  <2>1. PICK k \in Humans : /\ human[k].status = "absent"
                            /\ human' = [human EXCEPT ![k] = FreshHuman]
                            /\ driver' = [driver EXCEPT ![j].human = k, ![j].pc = "copy_ready"]
    BY <1>6 DEF CopyCreate
  <2> DEFINE d == [driver[j] EXCEPT !.human = k, !.pc = "copy_ready"]
  <2>2. /\ d \in Driver /\ d.pc = "copy_ready" /\ d.hand = None /\ d.human = k
        /\ driver[j].pc = "copy_create"
    BY <1>1, <1>6 DEF Driver, PCs, CopyCreate, At
  <2>3. FreshHuman.status = "pending"
    BY DEF FreshHuman, NoHuman
  <2>4. /\ HumansKept /\ human'[k].status = "pending"
        /\ \A i \in Humans : i # k => human'[i] = human[i]
    BY <2>1, <2>3 DEF HumansKept, IInv, TypeOK, Gone
  <2>5. Tidy(j, job[j], driver[j], human', enrolled[j])
    BY <1>1, <2>4, TidyKept
  <2>6. driver' = [driver EXCEPT ![j] = d] /\ job' = [job EXCEPT ![j] = job[j]]
        /\ SameAccount(job[j], job[j]) /\ ~Late(d)
    BY <1>2, <2>1, <2>2 DEF IInv, TypeOK, SameAccount, Late, Staging
  <2> HIDE DEF d
  <2>7. Names(job[j], d, human') /\ Hands(j, job[j], d, enrolled[j])
    BY <1>1, <2>1, <2>2, <2>4, <2>5, NoneIsNoValue DEF Tidy, Names, Hands, WithCopy, WithHuman, Staging
  <2>8. Ids(j, job[j], d, human', enrolled[j])
    BY <1>1, <2>2, <2>5 DEF Tidy, Ids
  <2>9. Tidy(j, job[j], d, human', enrolled[j])
    BY <2>7, <2>8 DEF Tidy
  <2> QED BY <1>1, <1>2, <2>2, <2>4, <2>6, <2>9, QuietStep
<1> QED BY <1>3, <1>4, <1>5, <1>6

-----------------------------------------------------------------------------
\* The end of a job: success, failure, cancellation, cleanup.

\* An end writes the row of a job whose driver holds nothing.
LEMMA EndRowLedger ==
  ASSUME IInv, LInv, NEW j \in Jobs, driver[j].pc \notin {"idle", "persist_human", "persist"}, End(j),
         UNCHANGED <<human, enrolled, others>>,
         \/ SetStatus(j, "succeeded")
         \/ \E st \in {"cancelled", "cleanup_failed"}, c \in CleanupStates :
              UpdateJob(j, [job[j] EXCEPT !.status = st, !.cleanup = c])
  PROVE  LInv'
<1>1. job[j] \in JobRow
  BY LedgerFacts
<1>2. PICK row \in JobRow : /\ job' = [job EXCEPT ![j] = row] /\ SameAccount(row, job[j])
                            /\ row.status # "absent"
  <2>1. CASE SetStatus(j, "succeeded")
    <3> DEFINE row == [job[j] EXCEPT !.status = "succeeded"]
    <3>1. row \in JobRow /\ row.status = "succeeded" /\ SameAccount(row, job[j])
      BY <1>1, StatusAccount DEF Statuses
    <3>2. job' = [job EXCEPT ![j] = row]
      BY <2>1 DEF SetStatus, UpdateJob
    <3> HIDE DEF row
    <3> QED BY <3>1, <3>2
  <2>2. ASSUME NEW st \in {"cancelled", "cleanup_failed"}, NEW c \in CleanupStates,
               UpdateJob(j, [job[j] EXCEPT !.status = st, !.cleanup = c])
        PROVE  \E row \in JobRow : /\ job' = [job EXCEPT ![j] = row] /\ SameAccount(row, job[j])
                                   /\ row.status # "absent"
    <3> DEFINE row == [job[j] EXCEPT !.status = st, !.cleanup = c]
    <3>1. row \in JobRow /\ row.status = st /\ SameAccount(row, job[j])
      <4>1. st \in Statuses
        BY DEF Statuses
      <4> QED BY <1>1, <4>1 DEF JobRow, SameAccount
    <3>2. job' = [job EXCEPT ![j] = row]
      BY <2>2 DEF UpdateJob
    <3> HIDE DEF row
    <3> QED BY <3>1, <3>2
  <2> QED BY <2>1, <2>2
<1>3. HumansKept /\ UNCHANGED <<enrolled, crashes, faults>> /\ \A h \in Humans : human'[h] = human[h]
  BY SameHumans DEF others
<1> QED BY <1>2, <1>3, StopLedger

\* FAILED and CANCELLED are written to the row, then (mode new) to the human.
LEMMA SettleLedger ==
  ASSUME IInv, LInv, NEW j \in Jobs, NEW pc \in {"fail", "mark_cancelled"},
         NEW st \in {"failed", "cancelled"}, NEW next \in {"fail_human", "cancel_human"},
         Settle(j, pc, st, next)
  PROVE  LInv'
<1> DEFINE row == [job[j] EXCEPT !.status = st]
<1>1. /\ driver[j].pc = pc /\ driver[j].hand = None /\ driver[j] \in Driver
      /\ Created(j) /\ job[j] \in JobRow /\ Tidy(j, job[j], driver[j], human, enrolled[j])
  BY LedgerFacts, EmptyHand DEF Settle, At
<1>2. row \in JobRow /\ row.status = st /\ SameAccount(row, job[j])
  <2>1. st \in Statuses
    BY DEF Statuses
  <2> QED BY <1>1, <2>1, StatusAccount
<1>3. /\ job' = [job EXCEPT ![j] = row] /\ HumansKept /\ UNCHANGED <<human, enrolled, crashes, faults>>
      /\ \A h \in Humans : human'[h] = human[h]
  BY SameHumans DEF Settle, SetStatus, UpdateJob, others
<1> HIDE DEF row
<1>4. CASE TouchesHuman(j)
  <2> DEFINE d == [driver[j] EXCEPT !.pc = next]
  <2>1. /\ d \in Driver /\ d.pc = next /\ d.hand = None /\ d.human = driver[j].human
        /\ driver' = [driver EXCEPT ![j] = d]
    BY <1>1, <1>4 DEF Driver, PCs, Settle, Goto
  <2>2. ~Late(d)
    BY <2>1 DEF Late, Staging
  <2> HIDE DEF d
  <2>3. Names(job[j], d, human) /\ Hands(j, job[j], d, enrolled[j])
    BY <1>1, <1>4, <2>1 DEF Tidy, Names, Hands, WithCopy, WithHuman, Staging, TouchesHuman
  <2>4. Ids(j, job[j], d, human, enrolled[j])
    BY <1>1, <2>1 DEF Tidy, Ids
  <2>5. Tidy(j, row, d, human', enrolled[j])
    BY <1>2, <1>3, <2>3, <2>4, AccountTidy DEF Tidy
  <2> QED BY <1>1, <1>2, <1>3, <2>1, <2>2, <2>5, QuietStep
<1>5. CASE ~TouchesHuman(j)
  BY <1>1, <1>2, <1>3, <1>5, StopLedger DEF Settle
<1> QED BY <1>4, <1>5

\* A failure or a cancellation writes the human, then the row.
LEMMA SettleHumanLedger ==
  ASSUME IInv, LInv, NEW j \in Jobs, NEW pc \in {"fail_human", "cancel_human"},
         NEW st \in {"failed", "cancelled"}, SettleHuman(j, pc, st)
  PROVE  LInv'
<1> DEFINE h == driver[j].human
<1>1. /\ driver[j].pc = pc /\ driver[j] \in Driver
      /\ Tidy(j, job[j], driver[j], human, enrolled[j])
  BY LedgerFacts DEF SettleHuman, At
<1>2. UNCHANGED <<job, enrolled, crashes, faults>> /\ h \in Humans /\ h # None
  BY <1>1 DEF SettleHuman, others, Tidy, Names, WithHuman, Driver
<1>3. CASE Present(h)
  <2>1. TypeOK /\ st \notin Gone
    BY DEF IInv, Gone
  <2>2. End(j) /\ UpdateHuman(h, st, None, None)
    BY <1>3 DEF SettleHuman
  <2>3. /\ HumansKept /\ human'[h].status = st
        /\ \A k \in Humans : k # h => human'[k] = human[k]
    BY <1>2, <1>3, <2>1, <2>2, HumanUpdateKeeps
  <2> QED BY <1>1, <1>2, <2>2, <2>3, StopSameRow
<1>4. CASE ~Present(h)
  BY <1>1, <1>2, <1>4, SameHumans, StopSameRow DEF SettleHuman
<1> QED BY <1>3, <1>4

\* A cleanup reads the job and its human, and enrols and loses nothing.
LEMMA CleanLedger ==
  ASSUME IInv, LInv, NEW j \in Jobs, Clean(j) \/ CleanReadJob(j) \/ CleanReadHuman(j)
  PROVE  LInv'
<1>1. /\ driver[j].pc \in {"clean", "clean_job", "clean_human"}
      /\ driver[j].hand = None /\ driver[j] \in Driver
      /\ Created(j) /\ job[j] \in JobRow /\ job[j].status # "absent"
  BY LedgerFacts, EmptyHand DEF Clean, CleanReadJob, CleanReadHuman, At, Created
<1>2. /\ HumansKept /\ UNCHANGED <<enrolled, crashes, faults>> /\ \A h \in Humans : human'[h] = human[h]
  BY SameHumans DEF Clean, CleanReadJob, CleanReadHuman, others
<1>3. {"clean_job", "clean_done", "clean_human", "clean_fail"} \subseteq Parked
  BY DEF Parked, PCs, WithCopy, WithHuman, Staging
<1>4. CASE Clean(j)
  <2> DEFINE row == [job[j] EXCEPT !.status = "cleanup_pending", !.cleanup = "pending"]
             d == [driver[j] EXCEPT !.pc = "clean_job"]
  <2>1. row \in JobRow /\ row.status = "cleanup_pending" /\ SameAccount(row, job[j])
    BY <1>1, CleanupAccount DEF Statuses, CleanupStates
  <2>2. d \in Driver /\ d.pc = "clean_job" /\ d.hand = None /\ d.human = driver[j].human
    BY <1>1 DEF Driver, PCs
  <2>3. job' = [job EXCEPT ![j] = row] /\ driver' = [driver EXCEPT ![j] = d]
    BY <1>4 DEF Clean, UpdateJob, Goto
  <2> HIDE DEF row, d
  <2> QED BY <1>1, <1>2, <1>3, <2>1, <2>2, <2>3, ParkedStep
<1>5. CASE CleanReadJob(j)
  <2> DEFINE pc == IF job[j].human = None THEN "clean_done" ELSE "clean_human"
             d == [driver[j] EXCEPT !.human = job[j].human, !.pc = pc]
  <2>1. pc \in {"clean_done", "clean_human"}
    OBVIOUS
  <2> HIDE DEF pc
  <2>2. d \in Driver /\ d.pc = pc /\ d.hand = None /\ d.human = job[j].human
    BY <1>1, <2>1 DEF Driver, PCs, JobRow
  <2>3. driver' = [driver EXCEPT ![j] = d] /\ job' = [job EXCEPT ![j] = job[j]]
        /\ SameAccount(job[j], job[j])
    BY <1>5 DEF CleanReadJob, IInv, TypeOK, SameAccount, pc
  <2> HIDE DEF d
  <2> QED BY <1>1, <1>2, <1>3, <2>1, <2>2, <2>3, ParkedStep
<1>6. CASE CleanReadHuman(j)
  <2>1. \E pc \in {"clean_done", "clean_fail"} : Goto(j, pc)
    BY <1>6 DEF CleanReadHuman
  <2> QED BY <1>1, <1>2, <1>3, <1>6, <2>1, ParkLedger DEF CleanReadHuman
<1> QED BY <1>4, <1>5, <1>6

-----------------------------------------------------------------------------
\* The failures.

\* A call that fails leaves the rows as they are and the driver with nothing in hand;
\* at most one resource r is lost with it.
LEMMA FaultLedger ==
  ASSUME IInv, LInv, NEW j \in Jobs, driver[j].pc # "idle",
         NEW d \in Driver, NEW n \in Nat, NEW r, enrolled[j] <= n,
         UNCHANGED <<job, human, crashes>>, driver' = [driver EXCEPT ![j] = d],
         enrolled' = [enrolled EXCEPT ![j] = n],
         faults' = [faults EXCEPT ![j] = faults[j] + 1],
         d.pc \in Parked, d.hand = None, d.human \in {None, driver[j].human},
         Lost(j, job[j], d, n) \subseteq Lost(j, job[j], driver[j], enrolled[j]) \cup {r}
  PROVE  LInv'
<1> DEFINE f == faults[j] + 1
           L == Lost(j, job[j], driver[j], enrolled[j])
           K == Lost(j, job[j], d, n)
<1>1. /\ Created(j) /\ job[j] \in JobRow /\ job[j].status # "absent" /\ enrolled[j] \in Nat
      /\ Tidy(j, job[j], driver[j], human, enrolled[j])
      /\ Counted(j, job[j], driver[j], enrolled[j])
  BY LedgerFacts DEF Created
<1>2. /\ faults[j] \in Nat /\ crashes \in Nat /\ f \in Nat /\ f > 0
      /\ job' = [job EXCEPT ![j] = job[j]] /\ HumansKept
      /\ \A h \in Humans : human'[h] = human[h]
  BY SameHumans, BoundsAreNaturals DEF IInv, TypeOK
<1>3. Owned(j, enrolled[j]) \subseteq Owned(j, n)
  BY <1>1 DEF Owned
<1>4. Tidy(j, job[j], d, human', n)
  <2>1. Names(job[j], d, human)
    BY <1>1 DEF Tidy, Names, Parked, WithCopy, WithHuman, Staging
  <2>2. Hands(j, job[j], d, n)
    BY <1>1, <1>3 DEF Tidy, Hands, Parked, WithCopy, WithHuman, Staging
  <2>3. Ids(j, job[j], d, human, n)
    BY <1>1, <1>3 DEF Tidy, Ids, Parked, WithCopy, Staging
  <2> QED BY <2>1, <2>2, <2>3 DEF Tidy
<1>5. ~Late(d)
  BY DEF Late, Parked, WithCopy
<1>6. Cardinality(L) \in Nat /\ Cardinality(K) \in Nat /\ Cardinality(K) <= Cardinality(L) + 1
  <2>1. IsFiniteSet(L)
    BY <1>1, OwnedGrows, FS_Subset DEF Lost
  <2>2. /\ IsFiniteSet(L \cup {r})
        /\ Cardinality(L \cup {r}) \in {Cardinality(L), Cardinality(L) + 1}
    BY <2>1, FS_AddElement
  <2>3. IsFiniteSet(K) /\ Cardinality(K) <= Cardinality(L \cup {r})
    BY <2>2, FS_Subset
  <2>4. Cardinality(L) \in Nat /\ Cardinality(K) \in Nat
    BY <2>1, <2>3, FS_CardinalityType
  <2> HIDE DEF K, L
  <2> QED BY <2>2, <2>3, <2>4
<1>7. \/ Cardinality(K) <= crashes + f
      \/ Cardinality(K) <= crashes + f + 1 /\ job[j].human = None /\ Deleted # {}
  <2>1. \/ Cardinality(L) <= crashes + faults[j]
        \/ Cardinality(L) <= crashes + faults[j] + 1 /\ job[j].human = None /\ Deleted # {}
    BY <1>1 DEF Counted
  <2> HIDE DEF K, L
  <2> QED BY <1>2, <1>6, <2>1
<1>8. Cardinality(job[j].remote) = Cardinality(job[j].done \cap Enrolments)
  BY <1>1 DEF Counted
<1> HIDE DEF f
<1>9. faults' = [faults EXCEPT ![j] = f]
  BY DEF f
<1> QED BY <1>1, <1>2, <1>4, <1>5, <1>7, <1>8, <1>9, LedgerChange

\* An enrolment whose answer is lost makes one resource that nobody records.
LEMMA EnrollTimesOutLedger == ASSUME IInv, LInv, NEW j \in Jobs, EnrollTimesOut(j) PROVE LInv'
<1> DEFINE n == enrolled[j] + 1
           r == [owner |-> j, n |-> n]
           d == [driver[j] EXCEPT !.pc = "fail"]
<1>1. /\ driver[j].pc = "enroll" /\ driver[j].hand = None /\ driver[j] \in Driver
      /\ enrolled[j] \in Nat
  BY LedgerFacts, EmptyHand DEF EnrollTimesOut, At
<1>2. Owned(j, n) = Owned(j, enrolled[j]) \cup {r}
  BY <1>1, OwnedGrows
<1>3. n \in Nat /\ enrolled[j] <= n
  BY <1>1
<1>4. d \in Driver /\ d.pc = "fail" /\ d.hand = None /\ d.human = driver[j].human
  BY <1>1 DEF Driver, PCs
<1>5. /\ driver' = [driver EXCEPT ![j] = d] /\ enrolled' = [enrolled EXCEPT ![j] = n]
      /\ faults' = [faults EXCEPT ![j] = faults[j] + 1] /\ UNCHANGED <<job, human, crashes>>
  BY DEF EnrollTimesOut, Goto
<1>6. d.pc \in Parked
  BY <1>4 DEF Parked, PCs, WithCopy, WithHuman, Staging
<1> HIDE DEF r, d, n
<1>7. Lost(j, job[j], d, n) \subseteq Lost(j, job[j], driver[j], enrolled[j]) \cup {r}
  BY <1>1, <1>2, <1>4 DEF Lost
<1> QED BY <1>1, <1>3, <1>4, <1>5, <1>6, <1>7, FaultLedger

\* A transaction that fails loses at most what the driver has in hand.
LEMMA TransactionFailsLedger == ASSUME IInv, LInv, NEW j \in Jobs, TransactionFails(j) PROVE LInv'
<1>1. driver[j].pc # "idle"
  BY DEF TransactionFails, InTry, InCleanup, Outside
<1>2. driver[j] \in Driver /\ enrolled[j] \in Nat
  BY <1>1, LedgerFacts
<1>3. PICK d \in Driver : /\ driver' = [driver EXCEPT ![j] = d] /\ d.hand = None
                         /\ d.human \in {None, driver[j].human}
                         /\ d.pc \in {"fail", "clean_fail", "crashed"}
  <2>1. CASE driver' = [driver EXCEPT ![j].pc = "fail", ![j].hand = None]
    <3> DEFINE d == [driver[j] EXCEPT !.pc = "fail", !.hand = None]
    <3>1. d \in Driver /\ d.pc = "fail" /\ d.hand = None /\ d.human = driver[j].human
      BY <1>2 DEF Driver, PCs
    <3>2. driver' = [driver EXCEPT ![j] = d]
      BY <2>1 DEF IInv, TypeOK
    <3> QED BY <3>1, <3>2
  <2>2. CASE driver[j].pc \in InCleanup /\ Goto(j, "clean_fail")
    <3> DEFINE d == [driver[j] EXCEPT !.pc = "clean_fail"]
    <3>1. driver[j].hand = None
      BY <2>2, EmptyHand DEF InCleanup
    <3>2. d \in Driver /\ d.pc = "clean_fail" /\ d.hand = None /\ d.human = driver[j].human
      BY <1>2, <3>1 DEF Driver, PCs
    <3>3. driver' = [driver EXCEPT ![j] = d]
      BY <2>2 DEF Goto
    <3> QED BY <3>2, <3>3
  <2>3. CASE Raise(j)
    <3> DEFINE d == [NoDriver EXCEPT !.pc = "crashed"]
    <3>1. d \in Driver /\ d.pc = "crashed" /\ d.hand = None /\ d.human = None
      BY NoValuesTyped DEF NoDriver, Driver, PCs, Stages
    <3> QED BY <2>3, <3>1 DEF Raise
  <2> QED BY <2>1, <2>2, <2>3 DEF TransactionFails
<1>4. d.pc \in Parked
  BY <1>3 DEF Parked, PCs, WithCopy, WithHuman, Staging
<1>5. Lost(j, job[j], d, enrolled[j])
        \subseteq Lost(j, job[j], driver[j], enrolled[j]) \cup {driver[j].hand}
  BY <1>3 DEF Lost
<1>6. /\ enrolled' = [enrolled EXCEPT ![j] = enrolled[j]] /\ enrolled[j] <= enrolled[j]
      /\ faults' = [faults EXCEPT ![j] = faults[j] + 1] /\ UNCHANGED <<job, human, crashes>>
  BY <1>2 DEF TransactionFails, IInv, TypeOK
<1> QED BY <1>1, <1>2, <1>3, <1>4, <1>5, <1>6, FaultLedger

\* Every step of a driver keeps the ledger.
LEMMA DriverLedger == ASSUME IInv, LInv, NEW j \in Jobs, DriverStep(j) PROVE LInv'
<1>1. CASE Finish(j) \/ CleanDone(j) \/ CleanFail(j)
  <2>1. CASE Finish(j)
    BY <2>1, EndRowLedger DEF Finish, At
  <2>2. CASE CleanDone(j)
    BY <2>2, EndRowLedger DEF CleanDone, CleanEnd, At, CleanupStates
  <2>3. CASE CleanFail(j)
    BY <2>3, EndRowLedger DEF CleanFail, CleanEnd, At, CleanupStates
  <2> QED BY <1>1, <2>1, <2>2, <2>3
<1>2. CASE Fail(j) \/ MarkCancelled(j)
  BY <1>2, SettleLedger DEF Fail, MarkCancelled
<1>3. CASE FailHuman(j) \/ CancelHuman(j)
  BY <1>3, SettleHumanLedger DEF FailHuman, CancelHuman
<1> QED BY <1>1, <1>2, <1>3, LoadLedger, ClaimLedger, BeginValidateLedger, CheckCancelledLedger,
           EnrollLedger, EnrollFailsLedger, EnrollTimesOutLedger, TransactionFailsLedger,
           PersistHumanLedger, PersistJobLedger, SaveHumanLedger,
           CommitStepsLedger, CleanLedger DEF DriverStep

-----------------------------------------------------------------------------
\* The calls.

\* A late write of cancel, retry or cleanup rewrites the status and the flags,
\* and leaves the driver or gives the job a fresh one.
LEMMA WriteLedger ==
  ASSUME IInv, LInv, NEW q \in Requests, CancelWrite(q) \/ RetryWrite(q) \/ CleanupWrite(q)
  PROVE  LInv'
<1> DEFINE j == request[q].target
<1>1. /\ j \in Jobs /\ Created(j) /\ job[j] \in JobRow /\ driver[j] \in Driver
      /\ request[q].pc = "retry" => request[q].retries < MaxRetries /\ request[q].retries \in 0..MaxRetries
      /\ Tidy(j, job[j], driver[j], human, enrolled[j])
  BY DEF CancelWrite, RetryWrite, CleanupWrite, IInv, CallsOK, TypeOK, LInv, LedgerOK, Request
<1>2. PICK row \in JobRow : /\ job' = [job EXCEPT ![j] = row] /\ SameAccount(row, job[j])
                            /\ row.status # "absent"
  <2>1. CASE CancelWrite(q)
    <3> DEFINE row == [job[j] EXCEPT !.status = "cancelling", !.cancelled = TRUE]
    <3>1. row \in JobRow /\ row.status = "cancelling" /\ SameAccount(row, job[j])
      BY <1>1 DEF JobRow, Statuses, SameAccount
    <3> QED BY <2>1, <3>1 DEF CancelWrite, UpdateJob
  <2>2. CASE RetryWrite(q)
    <3> DEFINE r == request[q].retries + 1
               row == [job[j] EXCEPT !.status = "pending", !.cancelled = FALSE,
                                     !.retries = r, !.cleanup = "none"]
    <3>1. r \in 0..MaxRetries
      BY <1>1, <2>2, BoundsAreNaturals DEF RetryWrite
    <3>2. job' = [job EXCEPT ![j] = row]
      BY <2>2 DEF RetryWrite, UpdateJob
    <3> HIDE DEF r
    <3>3. row \in JobRow /\ row.status = "pending" /\ SameAccount(row, job[j])
      BY <1>1, <3>1 DEF JobRow, Statuses, CleanupStates, SameAccount
    <3> QED BY <3>2, <3>3
  <2>3. CASE CleanupWrite(q)
    <3> DEFINE row == [job[j] EXCEPT !.status = "cleanup_pending"]
    <3>1. row \in JobRow /\ row.status = "cleanup_pending" /\ SameAccount(row, job[j])
      BY <1>1 DEF JobRow, Statuses, SameAccount
    <3> QED BY <2>3, <3>1 DEF CleanupWrite, SetStatus, UpdateJob
  <2> QED BY <2>1, <2>2, <2>3
<1>3. /\ HumansKept /\ UNCHANGED <<enrolled, crashes, faults>> /\ UNCHANGED human
      /\ \A h \in Humans : human'[h] = human[h]
  BY SameHumans DEF CancelWrite, RetryWrite, CleanupWrite
<1>4. driver' = [driver EXCEPT ![j] = driver[j]] \/ (~Alive(j) /\ driver' = [driver EXCEPT ![j] = Loading])
  BY <1>1 DEF CancelWrite, RetryWrite, CleanupWrite, Spawn, IInv, TypeOK
<1> HIDE DEF j
<1>5. CASE driver' = [driver EXCEPT ![j] = driver[j]]
  <2>1. Tidy(j, row, driver[j], human', enrolled[j])
    BY <1>1, <1>2, <1>3, AccountTidy
  <2>2. driver[j].pc = "crashed" => Deleted # {} \/ faults[j] > 0
    BY <1>1 DEF LInv, DriverDeathsAreKnown, Deleted
  <2> QED BY <1>1, <1>2, <1>3, <1>5, <2>1, <2>2, QuietStep
<1>6. CASE ~Alive(j) /\ driver' = [driver EXCEPT ![j] = Loading]
  <2>1. driver[j].hand = None
    BY <1>1, <1>6, EmptyHand DEF Alive
  <2>2. Loading \in Driver /\ Loading.hand = None /\ Loading.human = None /\ Loading.pc = "load"
    BY NoValuesTyped DEF Loading, NoDriver
  <2>3. Loading.pc \in Parked
    BY <2>2 DEF Parked, PCs, WithCopy, WithHuman, Staging
  <2> QED BY <1>1, <1>2, <1>3, <1>6, <2>1, <2>2, <2>3, ParkedStep
<1> QED BY <1>4, <1>5, <1>6

\* A new job has an empty account; its human is there when the row is inserted.
LEMMA StartCreateLedger == ASSUME IInv, LInv, NEW j \in Jobs, StartCreate(j) PROVE LInv'
<1> DEFINE row == [NoJob EXCEPT !.status = "pending", !.key = start[j].key,
                                !.human = start[j].human, !.mode = start[j].mode]
<1>1. CASE UNCHANGED <<job, driver>>
  BY <1>1, LedgerStutter DEF StartCreate
<1>2. CASE UpdateJob(j, row) /\ Spawn(j) /\ (start[j].human = None \/ Present(start[j].human))
  <2>1. ~Created(j) /\ driver[j].pc = "idle" /\ job[j] = NoJob /\ enrolled[j] = 0
    BY DEF StartCreate, IInv, UnbornOK, LInv, LedgerOK
  <2>2. /\ row.human = start[j].human /\ row.mode = start[j].mode /\ row.status = "pending"
        /\ row.done = {} /\ row.remote = {}
    BY DEF NoJob
  <2>3. Loading.hand = None /\ Loading.human = None /\ Loading.pc = "load"
    BY DEF Loading, NoDriver
  <2>4. /\ \A i \in Jobs : i # j => job'[i] = job[i] /\ driver'[i] = driver[i]
        /\ job'[j] = row /\ driver'[j] = Loading
        /\ UNCHANGED <<human, enrolled, crashes, faults>>
    BY <1>2, <2>1 DEF UpdateJob, Spawn, Alive, StartCreate, IInv, TypeOK
  <2>5. NoJob.human = None /\ NoJob.done = {} /\ NoJob.mode = "new"
    BY DEF NoJob
  <2> HIDE DEF row
  <2>6. Tidy(j, row, Loading, human, 0)
    BY <1>2, <2>2, <2>3 DEF Tidy, Names, Hands, Ids, Present, Gone, WithCopy, WithHuman, Staging
  <2>7. Counted(j, row, Loading, 0)
    <3>1. Owned(j, 0) = {}
      BY DEF Owned
    <3>2. Lost(j, row, Loading, 0) = {} /\ row.done \cap Enrolments = {}
      BY <2>2, <3>1 DEF Lost
    <3>3. crashes \in Nat /\ faults[j] \in Nat
      BY BoundsAreNaturals DEF IInv, TypeOK
    <3> QED BY <2>2, <3>2, <3>3, FS_EmptySet DEF Counted
  <2>8. LedgerOK'
    <3> SUFFICES ASSUME NEW i \in Jobs PROVE LedgerOK!(i)'
      BY DEF LedgerOK
    <3>1. CASE i = j
      <4>1. Counted(j, job[j], driver[j], enrolled[j])'
        BY <2>1, <2>4, <2>7 DEF Counted, Deleted
      <4> QED BY <2>1, <2>2, <2>4, <2>6, <3>1, <4>1 DEF Created
    <3>2. CASE i # j
      <4>1. Tidy(i, job[i], driver[i], human, enrolled[i]) /\ Counted(i, job[i], driver[i], enrolled[i])
        BY DEF LInv, LedgerOK
      <4>2. Counted(i, job[i], driver[i], enrolled[i])'
        BY <2>4, <3>2, <4>1 DEF Counted, Deleted
      <4> QED BY <2>4, <3>2, <4>1, <4>2 DEF LInv, LedgerOK, Created
    <3> QED BY <3>1, <3>2
  <2>9. WholeOK'
    <3> SUFFICES ASSUME NEW h \in Humans, human[h].status = "ready" PROVE Whole(h)'
      BY <2>4 DEF WholeOK
    <3>1. Whole(h)
      BY DEF LInv, WholeOK
    <3>2. h # None /\ Stages # {}
      BY NoneIsNoValue DEF Stages
    <3>3. \A i \in Jobs : Makes(i, job[i], enrolled[i], h, human[h]) => i # j
      BY <2>1, <2>5, <3>2 DEF Makes
    <3> QED BY <2>4, <3>1, <3>3 DEF Whole
  <2>10. DriverDeathsAreKnown' /\ IsFiniteSet(Deleted)'
    BY <2>3, <2>4 DEF LInv, DriverDeathsAreKnown, Deleted
  <2> QED BY <2>8, <2>9, <2>10 DEF LInv
<1> QED BY <1>1, <1>2 DEF StartCreate

\* Deleting a human takes it from the rows that name it, so that what their
\* drivers enrol from now on is lost once.
LEMMA DeleteHumanLedger == ASSUME IInv, LInv, NEW q \in Requests, DeleteHuman(q) PROVE LInv'
<1> DEFINE h == request[q].target
           gone == [NoHuman EXCEPT !.status = "deleted"]
<1>1. h \in Humans /\ h # None /\ UNCHANGED <<driver, enrolled, crashes, faults>>
  BY NoneIsNoValue DEF DeleteHuman, IInv, CallsOK
<1>2. CASE UNCHANGED <<human, job>>
  BY <1>1, <1>2, LedgerStutter
<1>3. CASE /\ Present(h)
           /\ human' = [human EXCEPT ![h] = gone]
           /\ job' = [i \in Jobs |-> IF job[i].human = h THEN [job[i] EXCEPT !.human = None] ELSE job[i]]
  <2>1. gone.status = "deleted"
    BY DEF NoHuman
  <2>2. \A k \in Humans : /\ k # h => human'[k] = human[k]
                          /\ human'[h].status = "deleted"
    BY <1>1, <1>3, <2>1 DEF IInv, TypeOK
  <2>3. \A i \in Jobs : job[i] \in JobRow /\ driver[i] \in Driver /\ enrolled[i] \in Nat
    BY DEF IInv, TypeOK
  <2>4. \A i \in Jobs : /\ job[i].human # h => job'[i] = job[i]
                        /\ job[i].human = h =>
                             /\ job'[i].human = None /\ job'[i].status = job[i].status
                             /\ job'[i].mode = job[i].mode /\ job'[i].done = job[i].done
                             /\ job'[i].voice = job[i].voice /\ job'[i].avatar = job[i].avatar
                             /\ job'[i].remote = job[i].remote
    BY <1>3, <2>3 DEF JobRow
  <2>5. Deleted' = Deleted \cup {h}
    BY <1>1, <2>2 DEF Deleted
  <2> HIDE DEF h
  <2>6. LedgerOK'
    <3> SUFFICES ASSUME NEW i \in Jobs PROVE LedgerOK!(i)'
      BY DEF LedgerOK
    <3>1. /\ Tidy(i, job[i], driver[i], human, enrolled[i]) /\ Counted(i, job[i], driver[i], enrolled[i])
          /\ ~Created(i) => job[i] = NoJob /\ enrolled[i] = 0
      BY DEF LInv, LedgerOK
    <3>2. job[i].human \in Humans \cup {None} /\ driver[i].human \in Humans \cup {None}
      BY <2>3 DEF JobRow, Driver
    <3>3. Names(job[i], driver[i], human)'
      BY <1>1, <1>3, <2>2, <2>4, <3>1, <3>2 DEF Tidy, Names, Gone, Present
    <3>4. Hands(i, job[i], driver[i], enrolled[i])'
      BY <1>1, <2>4, <3>1 DEF Tidy, Hands
    <3>5. Ids(i, job[i], driver[i], human, enrolled[i])'
      <4>1. CASE job[i].human = h
        BY <1>1, <2>4, <3>1, <4>1 DEF Tidy, Ids, Slot
      <4>2. CASE job[i].human # h
        BY <1>1, <2>2, <2>4, <3>1, <3>2, <4>2 DEF Tidy, Ids
      <4> QED BY <4>1, <4>2
    <3>6. Counted(i, job[i], driver[i], enrolled[i])'
      <4>1. Lost(i, job'[i], driver[i], enrolled[i]) = Lost(i, job[i], driver[i], enrolled[i])
        BY <2>4 DEF Lost
      <4>2. /\ job'[i].human = None \/ job'[i].human = job[i].human
            /\ job[i].human = None => job'[i].human = None
            /\ job'[i].remote = job[i].remote /\ job'[i].done = job[i].done
        BY <1>1, <2>4
      <4>3. Deleted # {} => Deleted' # {}
        BY <2>5
      <4> QED BY <1>1, <3>1, <4>1, <4>2, <4>3 DEF Counted
    <3>7. ~Created(i)' => job'[i] = NoJob /\ enrolled'[i] = 0
      <4>1. Created(i)' = Created(i)
        BY <2>4 DEF Created
      <4>2. job[i] = NoJob => job[i].human = None
        BY DEF NoJob
      <4> QED BY <1>1, <2>4, <3>1, <4>1, <4>2
    <3> QED BY <3>3, <3>4, <3>5, <3>6, <3>7 DEF Tidy
  <2>7. WholeOK'
    <3> SUFFICES ASSUME NEW k \in Humans, human'[k].status = "ready" PROVE Whole(k)'
      BY DEF WholeOK
    <3>1. k # h /\ human'[k] = human[k]
      BY <2>2
    <3>2. Whole(k)
      BY <3>1 DEF LInv, WholeOK
    <3>3. \A i \in Jobs : Makes(i, job[i], enrolled[i], k, human[k])
                          => Makes(i, job'[i], enrolled[i], k, human[k])
      BY <2>4, <3>1 DEF Makes
    <3> QED BY <1>1, <3>1, <3>2, <3>3 DEF Whole
  <2>8. DriverDeathsAreKnown'
    BY <1>1, <2>2 DEF DriverDeathsAreKnown
  <2>9. IsFiniteSet(Deleted)'
    BY <2>5, FS_AddElement DEF LInv
  <2> QED BY <2>6, <2>7, <2>8, <2>9 DEF LInv
<1> QED BY <1>2, <1>3 DEF DeleteHuman

-----------------------------------------------------------------------------
\* While the process is down no driver runs.
DownOK == ~up => \A j \in Jobs : driver[j].pc = "idle"

\* Every step but a crash and a restart is taken by the running process.
LEMMA DownKept == ASSUME DownOK, [Next]_vars PROVE DownOK'
<1>1. CASE up /\ UNCHANGED up
  BY <1>1 DEF DownOK
<1>2. CASE Crash \/ Restart \/ UNCHANGED vars
  BY <1>2 DEF Crash, Restart, vars, DownOK, NoDriver
<1>3. ASSUME NEW j \in Jobs, DriverStep(j) PROVE up /\ UNCHANGED up
  BY <1>3 DEF DriverStep, At, others, Load, Claim, BeginValidate, CheckCancelled, Enroll, EnrollFails,
         PersistHuman, PersistJob, SaveHuman, Commit, CopyRead, CopyCreate, CopyReady, Finish,
         Fail, FailHuman, MarkCancelled, CancelHuman, Settle, SettleHuman, Clean, CleanReadJob,
         CleanReadHuman, CleanDone, CleanFail, CleanEnd, EnrollTimesOut, TransactionFails
<1>4. ASSUME NEW j \in Jobs, StartStep(j) PROVE up /\ UNCHANGED up
  BY <1>4 DEF StartStep, StartFind, StartCreate
<1>5. ASSUME NEW q \in Requests, RequestStep(q) PROVE up /\ UNCHANGED up
  BY <1>5 DEF RequestStep, CancelRead, RetryRead, CleanupRead, Read, CancelWrite, RetryWrite,
         CleanupWrite, DeleteRead, DeleteCheck, DeleteStep, DeleteHuman
<1> QED BY <1>1, <1>2, <1>3, <1>4, <1>5 DEF Next

\* The drivers are replaced by ones that know nothing; the rows and the humans stay.
LEMMA FreshDrivers ==
  ASSUME IInv, LInv, UNCHANGED <<job, human, enrolled>>,
         \A j \in Jobs : driver'[j] \in {NoDriver, Loading},
         \A j \in Jobs : Counted(j, job[j], driver[j], enrolled[j])'
  PROVE  LInv'
<1>1. \A j \in Jobs : /\ driver'[j].hand = None /\ driver'[j].human = None
                      /\ driver'[j].pc \in {"idle", "load"}
  BY DEF Loading, NoDriver
<1>2. LedgerOK'
  <2> SUFFICES ASSUME NEW i \in Jobs PROVE LedgerOK!(i)'
    BY DEF LedgerOK
  <2>1. /\ Tidy(i, job[i], driver[i], human, enrolled[i])
        /\ ~Created(i) => job[i] = NoJob /\ enrolled[i] = 0
    BY DEF LInv, LedgerOK
  <2>2. Names(job[i], driver[i], human)'
    BY <1>1, <2>1 DEF Tidy, Names, WithCopy, WithHuman, Staging
  <2>3. Hands(i, job[i], driver[i], enrolled[i])' /\ Ids(i, job[i], driver[i], human, enrolled[i])'
    BY <1>1, <2>1 DEF Tidy, Hands, Ids
  <2> QED BY <2>1, <2>2, <2>3 DEF Tidy, Created
<1>3. WholeOK' /\ Deleted' = Deleted
  BY DEF LInv, WholeOK, Whole, Deleted
<1>4. DriverDeathsAreKnown'
  BY <1>1 DEF DriverDeathsAreKnown
<1> QED BY <1>2, <1>3, <1>4 DEF LInv

\* A crash loses what the drivers have in hand, one resource of each job.
LEMMA CrashLedger == ASSUME IInv, LInv, Crash PROVE LInv'
<1>1. /\ UNCHANGED <<job, human, enrolled, faults>> /\ crashes' = crashes + 1 /\ crashes \in Nat
      /\ \A j \in Jobs : driver'[j] = NoDriver /\ faults[j] \in Nat
  BY BoundsAreNaturals DEF Crash, IInv, TypeOK
<1>2. ASSUME NEW j \in Jobs PROVE Counted(j, job[j], driver[j], enrolled[j])'
  <2> DEFINE L == Lost(j, job[j], driver[j], enrolled[j])
             K == Lost(j, job[j], NoDriver, enrolled[j])
  <2>1. Counted(j, job[j], driver[j], enrolled[j]) /\ enrolled[j] \in Nat
    BY DEF LInv, LedgerOK, IInv, TypeOK
  <2>2. IsFiniteSet(L)
    BY <2>1, OwnedGrows, FS_Subset DEF Lost
  <2>3. K \subseteq L \cup {driver[j].hand}
    BY <2>1, OwnedGrows DEF Lost, NoDriver
  <2>4. Cardinality(L) \in Nat /\ Cardinality(K) \in Nat /\ Cardinality(K) <= Cardinality(L) + 1
    <3>1. /\ IsFiniteSet(L \cup {driver[j].hand})
          /\ Cardinality(L \cup {driver[j].hand}) \in {Cardinality(L), Cardinality(L) + 1}
      BY <2>2, FS_AddElement
    <3>2. IsFiniteSet(K) /\ Cardinality(K) <= Cardinality(L \cup {driver[j].hand})
      BY <2>3, <3>1, FS_Subset
    <3>3. Cardinality(L) \in Nat /\ Cardinality(K) \in Nat
      BY <2>2, <3>2, FS_CardinalityType
    <3> HIDE DEF K, L
    <3> QED BY <3>1, <3>2, <3>3
  <2>5. ~Late(NoDriver)
    BY DEF Late, NoDriver
  <2>6. Deleted' = Deleted
    BY <1>1 DEF Deleted
  <2>7. \/ Cardinality(K) <= crashes + 1 + faults[j]
        \/ Cardinality(K) <= crashes + 1 + faults[j] + 1 /\ job[j].human = None /\ Deleted # {}
    <3>1. \/ Cardinality(L) <= crashes + faults[j]
          \/ Cardinality(L) <= crashes + faults[j] + 1 /\ job[j].human = None /\ Deleted # {}
      BY <2>1 DEF Counted
    <3> HIDE DEF K, L
    <3> QED BY <1>1, <2>4, <3>1
  <2> QED BY <1>1, <2>1, <2>5, <2>6, <2>7 DEF Counted
<1> QED BY <1>1, <1>2, FreshDrivers

\* A restart finds nothing in hand.
LEMMA RestartLedger == ASSUME IInv, LInv, DownOK, Restart PROVE LInv'
<1>1. /\ UNCHANGED <<job, human, enrolled, crashes, faults>>
      /\ \A j \in Jobs : driver'[j] \in {NoDriver, Loading}
      /\ \A j \in Jobs : driver[j].pc = "idle" /\ driver[j].hand = None
  BY EmptyHand DEF Restart, DownOK
<1>2. ASSUME NEW j \in Jobs PROVE Counted(j, job[j], driver[j], enrolled[j])'
  <2>1. Counted(j, job[j], driver[j], enrolled[j])
    BY DEF LInv, LedgerOK
  <2>2. driver'[j].hand = None /\ driver'[j].human = None
    BY <1>1 DEF NoDriver, Loading
  <2>3. Lost(j, job[j], driver[j], enrolled[j])' = Lost(j, job[j], driver[j], enrolled[j])
    BY <1>1, <2>2 DEF Lost
  <2> QED BY <1>1, <2>1, <2>2, <2>3 DEF Counted, Deleted, Late
<1> QED BY <1>1, <1>2, FreshDrivers

-----------------------------------------------------------------------------
\* No job exists at first, and the humans that are ready have both their ids.
LEMMA InitLedger == Init => LInv /\ DownOK
<1> SUFFICES ASSUME Init PROVE LInv /\ DownOK
  OBVIOUS
<1>1. /\ \A j \in Jobs : job[j] = NoJob /\ driver[j] = NoDriver /\ enrolled[j] = 0 /\ faults[j] = 0
      /\ \A h \in Humans : human[h] \in {NoHuman, FreshHuman, LiveHuman}
      /\ crashes = 0 /\ up = TRUE
  BY DEF Init
<1>2. /\ NoJob.human = None /\ NoJob.mode = "new" /\ NoJob.done = {} /\ NoJob.remote = {}
      /\ NoJob.status = "absent"
      /\ NoDriver.hand = None /\ NoDriver.human = None /\ NoDriver.pc = "idle"
  BY DEF NoJob, NoDriver
<1>3. Deleted = {}
  BY <1>1 DEF Deleted, NoHuman, FreshHuman, LiveHuman
<1>4. LedgerOK
  <2> SUFFICES ASSUME NEW j \in Jobs PROVE LedgerOK!(j)
    BY DEF LedgerOK
  <2>1. Tidy(j, NoJob, NoDriver, human, 0)
    BY <1>2 DEF Tidy, Names, Hands, Ids, WithCopy, WithHuman, Staging
  <2>2. Owned(j, 0) = {}
    BY DEF Owned
  <2>3. Lost(j, NoJob, NoDriver, 0) = {} /\ NoJob.done \cap Enrolments = {}
    BY <1>2, <2>2 DEF Lost
  <2>4. Counted(j, NoJob, NoDriver, 0)
    BY <1>1, <1>2, <2>3, FS_EmptySet DEF Counted
  <2> QED BY <1>1, <2>1, <2>4
<1>5. WholeOK
  <2> SUFFICES ASSUME NEW h \in Humans, human[h].status = "ready" PROVE Whole(h)
    BY DEF WholeOK
  <2>1. human[h] = LiveHuman
    BY <1>1 DEF NoHuman, FreshHuman
  <2>2. Original # None
    BY NoneIsNoResource DEF Original, Resource
  <2> QED BY <2>1, <2>2 DEF Whole, LiveHuman
<1>6. DriverDeathsAreKnown /\ DownOK /\ IsFiniteSet(Deleted)
  BY <1>1, <1>2, <1>3, FS_EmptySet DEF DriverDeathsAreKnown, DownOK
<1> QED BY <1>4, <1>5, <1>6 DEF LInv

\* Every step keeps the ledger.
LEMMA NextLedger == IInv /\ DownOK /\ LInv /\ [Next]_vars => LInv'
<1> SUFFICES ASSUME IInv, DownOK, LInv, [Next]_vars PROVE LInv'
  OBVIOUS
<1>1. CASE \E j \in Jobs : DriverStep(j)
  BY <1>1, DriverLedger
<1>2. CASE \E j \in Jobs : StartStep(j)
  BY <1>2, StartCreateLedger, LedgerStutter DEF StartStep, StartFind
<1>3. CASE \E q \in Requests : RequestStep(q)
  BY <1>3, WriteLedger, DeleteHumanLedger, LedgerStutter DEF RequestStep, CancelRead, RetryRead,
     CleanupRead, Read, DeleteRead, DeleteCheck, DeleteStep
<1>4. CASE UNCHANGED vars
  BY <1>4, LedgerStutter DEF vars
<1> QED BY <1>1, <1>2, <1>3, <1>4, CrashLedger, RestartLedger DEF Next

\* The ledger is kept in every reachable state.
THEOREM LedgerIsKept == Spec => []LInv
<1>1. Init => LInv /\ DownOK
  BY InitLedger
<1>2. DownOK /\ [Next]_vars => DownOK'
  BY DownKept
<1>3. IInv /\ DownOK /\ LInv /\ [Next]_vars => LInv'
  BY NextLedger
<1> QED BY <1>1, <1>2, <1>3, Invariance, PTL DEF Spec

\* A job loses no more resources than the process has died, calls of its driver have
\* failed and humans were deleted.
LEMMA LedgerBounds == ASSUME IInv, LInv PROVE LeakBound /\ NoStageEnrolledTwice
<1> SUFFICES ASSUME NEW j \in Jobs
             PROVE  /\ Cardinality(Leaked(j)) <= crashes + faults[j] + Cardinality(Deleted)
                    /\ Cardinality(job[j].remote) = Cardinality(job[j].done \cap Enrolments)
  BY DEF LeakBound, NoStageEnrolledTwice, Deleted, Enrolments
<1>1. Counted(j, job[j], driver[j], enrolled[j]) /\ enrolled[j] \in Nat /\ crashes \in Nat
      /\ faults[j] \in Nat
  BY BoundsAreNaturals DEF LInv, LedgerOK, IInv, TypeOK
<1>2. Leaked(j) = Lost(j, job[j], driver[j], enrolled[j])
  BY DEF Leaked, Lost, OwnedBy, Owned
<1>3. IsFiniteSet(Leaked(j))
  BY <1>1, <1>2, OwnedGrows, FS_Subset DEF Lost
<1>4. Cardinality(Leaked(j)) \in Nat /\ Cardinality(Deleted) \in Nat
      /\ (Deleted # {} => Cardinality(Deleted) # 0)
  BY <1>3, FS_CardinalityType, FS_EmptySet DEF LInv
<1>5. \/ Cardinality(Leaked(j)) <= crashes + faults[j]
      \/ Cardinality(Leaked(j)) <= crashes + faults[j] + 1 /\ Deleted # {}
  BY <1>1, <1>2 DEF Counted
<1> QED BY <1>1, <1>4, <1>5 DEF Counted

\* What retries, cancels, resumes, crashes, deletions and failed calls lose or do
\* twice is known: one resource of a job for each crash, each deleted human and each
\* failed call of its driver, no finished stage a second time, and no driver but for
\* a deleted human or a failed call of its own.
THEOREM LossesStayKnown == Spec => []LossesAreKnown
<1>1. IInv /\ LInv => LossesAreKnown
  BY LedgerBounds DEF LossesAreKnown, LInv
<1> QED BY <1>1, Invariance, LedgerIsKept, PTL

\* A resource belongs to one job, and the ids a human had at first to none.
LEMMA OwnersDiffer ==
  ASSUME NEW i \in Jobs, NEW r \in OwnedBy(i)
  PROVE  \A j \in Jobs : r \in OwnedBy(j) => i = j
<1>1. r.owner = i
  BY DEF OwnedBy
<1> QED BY <1>1 DEF OwnedBy

\* The resource of the human before the job belongs to no job.
LEMMA OriginalIsNobodys == ASSUME NEW j \in Jobs PROVE Original \notin OwnedBy(j)
<1>1. \A r \in OwnedBy(j) : r.owner = j
  BY DEF OwnedBy
<1>2. Original.owner = None /\ j # None
  BY NoneIsNoValue DEF Original
<1> QED BY <1>1, <1>2

\* A human shown as ready is whole: it has both ids, and on a human that no job
\* of mode new works on they are both the original ones or both of one finished job.
THEOREM ReadyStaysWhole == Spec => []ReadyIsWhole
<1>1. LInv => ReadyIsWhole
  <2> SUFFICES ASSUME LInv PROVE ReadyIsWhole
    OBVIOUS
  <2>1. ReadyIsComplete
    BY DEF LInv, WholeOK, Whole, ReadyIsComplete
  <2>2. ASSUME NEW h \in Humans, human[h].status = "ready",
               \A j \in Jobs : job[j].mode # "new" \/ h \notin {job[j].human, driver[j].human},
               NEW j \in Jobs
        PROVE  /\ (human[h].voice \in OwnedBy(j)) = (human[h].avatar \in OwnedBy(j))
               /\ human[h].voice \in OwnedBy(j) => job[j].done = Stages
    <3>1. Whole(h)
      BY <2>2 DEF LInv, WholeOK
    <3>2. CASE human[h].voice = Original /\ human[h].avatar = Original
      BY <3>2, OriginalIsNobodys
    <3>3. CASE \E i \in Jobs : Makes(i, job[i], enrolled[i], h, human[h])
      <4>1. PICK i \in Jobs : Makes(i, job[i], enrolled[i], h, human[h])
        BY <3>3
      <4>2. job[i].done = Stages /\ human[h].voice \in OwnedBy(i) /\ human[h].avatar \in OwnedBy(i)
        BY <2>2, <4>1 DEF Makes, Owned, OwnedBy
      <4>3. /\ human[h].voice \in OwnedBy(j) => i = j
            /\ human[h].avatar \in OwnedBy(j) => i = j
        BY <4>2, OwnersDiffer
      <4> QED BY <4>2, <4>3
    <3> QED BY <3>1, <3>2, <3>3 DEF Whole
  <2>3. RebuildSwapsBothIds
    BY <2>2 DEF RebuildSwapsBothIds
  <2> QED BY <2>1, <2>3 DEF ReadyIsWhole
<1> QED BY <1>1, LedgerIsKept, PTL
=============================================================================
