----------------------------- MODULE StagedWork -----------------------------
(***************************************************************************)
(* What the build-job service promises of a job, whatever its driver, its  *)
(* callers and the machine do: the stages are completed one by one in      *)
(* their order, a completed stage stays completed through retries, cancels *)
(* and restarts, and a job is only declared successful when all are done.  *)
(***************************************************************************)
CONSTANTS
  Jobs,     \* the jobs
  Stages,   \* the stages of every job
  Before    \* Before[s]: the stages that come before stage s

VARIABLES
  done,     \* done[j]: the stages of job j that are completed
  outcome   \* outcome[j]: what the job reports

vars == <<done, outcome>>

Outcomes == {"absent", "open", "succeeded", "stopped"}

TypeOK == done \in [Jobs -> SUBSET Stages] /\ outcome \in [Jobs -> Outcomes]

Init == done = [j \in Jobs |-> {}] /\ outcome = [j \in Jobs |-> "absent"]

\* A stage is completed after those before it; the job is then open.
Complete(j) ==
  \E s \in Stages \ done[j] :
    /\ Before[s] \subseteq done[j]
    /\ outcome[j] # "absent"
    /\ done' = [done EXCEPT ![j] = @ \cup {s}]
    /\ outcome' = [outcome EXCEPT ![j] = "open"]

Succeed(j) ==
  /\ done[j] = Stages
  /\ outcome' = [outcome EXCEPT ![j] = "succeeded"]
  /\ UNCHANGED done

\* A job is created, fails, is cancelled or cleaned up, or is opened again; the
\* stages it has completed are kept.
Report(j) ==
  /\ \E o \in {"open", "stopped"} : outcome' = [outcome EXCEPT ![j] = o]
  /\ UNCHANGED done

Next == \E j \in Jobs : Complete(j) \/ Succeed(j) \/ Report(j)

Spec == Init /\ [][Next]_vars
=============================================================================
