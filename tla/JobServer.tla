------------------------------ MODULE JobServer ------------------------------
(***************************************************************************)
(* The build jobs as the screens of the app see them: requests that the    *)
(* service answers in any order, answers that arrive in any order or not   *)
(* at all, and jobs that move on between them.  What the service does      *)
(* inside is BuildJob's subject; here a request is one step, or two where  *)
(* the job may move between its reading and its writing.  A pending job,   *)
(* which no screen tells from a running one, counts as running.            *)
(***************************************************************************)
EXTENDS Integers, Sequences, SequencesExt, FiniteSets

CONSTANTS
  MaxRequests,  \* bound: requests and answers under way at a time
  MaxRetries,   \* retries the service grants a job
  MaxFaults     \* bound: requests that are lost, or acted on when the job has moved

ASSUME ServerConstants == MaxRequests \in Nat /\ MaxRetries \in Nat /\ MaxFaults \in Nat

VARIABLES
  jobs,    \* jobs[k]: the job of material k: [status, retries, mode]
  first,   \* the material of the first job, whose human is the default one
  sent,    \* requests the service has not acted on: [by, op, key, mode, read]
  inbox,   \* answers on their way, in the order the service gave them: [by, op, key, ans]
  faults   \* bookkeeping: bounded by MaxFaults

serverVars == <<jobs, first, sent, inbox, faults>>

NoKey == <<>>
Known(k)      == k \in DOMAIN jobs
Unfinished(k) == jobs[k].status \in {"running", "cancelling"}
Stopped(k)    == ~Unfinished(k) /\ jobs[k].status # "cleanup_pending"
ReadyHuman    == first # NoKey /\ jobs[first].status = "succeeded"

ServerInit(js, rs) == /\ jobs = js /\ first = NoKey /\ sent = rs /\ inbox = <<>> /\ faults = 0

\* read: the retries of the job that cancel, retry or cleanup has read before another step.
NotRead == -1
Request(by, op, key) == [by |-> by, op |-> op, key |-> key, mode |-> "none", read |-> NotRead]
Room == Cardinality(sent) + Len(inbox) < MaxRequests
Waiting(by) == {r \in sent \cup ToSet(inbox) : r.by = by}

\* The status a request may be made in, and the one it leads to.
Accepts == [cancel  |-> {"running"},
            retry   |-> {"failed", "cleanup_failed"},
            cleanup |-> {"cancelled", "failed", "cleanup_pending", "cleanup_failed"}]
Moved(j, r) ==
  CASE r.op = "cancel" -> [j EXCEPT !.status = "cancelling"]
    [] r.op = "retry"  -> [j EXCEPT !.status = "running",
                                    !.retries = (IF r.read = NotRead THEN @ ELSE r.read) + 1]
    [] OTHER           -> [j EXCEPT !.status = "cleanup_pending"]
Refused(r) == /\ r.read = NotRead
              /\ \/ jobs[r.key].status \notin Accepts[r.op]
                 \/ r.op = "retry" /\ jobs[r.key].retries >= MaxRetries

\* start(): a job of the same material is answered as it is, whatever else is wanted.
Start(r) ==
  IF Known(r.key) THEN jobs
  ELSE [k \in DOMAIN jobs \cup {r.key} |-> IF k \in DOMAIN jobs THEN jobs[k] ELSE
          [status |-> "running", retries |-> 0, mode |-> r.mode]]

Effect(r) == CASE r.op = "create" -> Start(r)
               [] r.op \in DOMAIN Accepts /\ ~Refused(r) ->
                    [jobs EXCEPT ![r.key] = Moved(@, r)]
               [] OTHER -> jobs
Apply(r) == /\ jobs' = Effect(r)
            /\ first' = IF first = NoKey /\ r.op = "create" THEN r.key ELSE first

\* What the service answers: the job as the request has left it; to an app that starts, whether
\* the default human is ready, or else a job that is not over.
Answers(r) ==
  CASE r.op \in {"create", "poll"} -> {<<r.key, Effect(r)[r.key].status>>}
    [] r.op \in DOMAIN Accepts -> {<<r.key, IF Refused(r) THEN "refused" ELSE Effect(r)[r.key].status>>}
    [] OTHER -> LET current == {k \in DOMAIN jobs : Unfinished(k)} IN
                IF ReadyHuman THEN {<<NoKey, "ready">>}
                ELSE IF current = {} THEN {<<NoKey, "none">>} ELSE {<<k, jobs[k].status>> : k \in current}

Reply(r, answer) ==
  /\ sent' = sent \ {r}
  /\ inbox' = Append(inbox, [by |-> r.by, op |-> r.op, key |-> answer[1], ans |-> answer[2]])

Serve(r) == /\ r \in sent
            /\ Apply(r) /\ \E answer \in Answers(r) : Reply(r, answer)
            /\ UNCHANGED faults

\* A request has read the job and will write it: it is not refused any more, whatever the job
\* does in between.
ReadFirst(r) ==
  /\ r \in sent /\ r.op \in DOMAIN Accepts /\ r.read = NotRead /\ ~Refused(r)
  /\ faults < MaxFaults /\ faults' = faults + 1
  /\ sent' = (sent \ {r}) \cup {[r EXCEPT !.read = jobs[r.key].retries]}
  /\ UNCHANGED <<jobs, first, inbox>>

\* The connection fails before or after the service has done its part ("lost"), or the service
\* refuses to talk to the app ("denied").
LoseRequest(r, how) ==
  /\ r \in sent /\ faults < MaxFaults /\ faults' = faults + 1
  /\ Apply(r) \/ UNCHANGED <<jobs, first>>
  /\ Reply(r, <<r.key, how>>)

\* The driver of the job: a job that was asked to stop may still get through, or fail.
Outcomes(j) ==
  CASE j.status = "running" -> {"succeeded", "failed"}
    [] j.status = "cancelling" -> {"cancelled", "succeeded", "failed"}
    [] j.status = "cleanup_pending" -> {"cancelled", "cleanup_failed"}
    [] OTHER -> {}
JobAdvances(k) ==
  /\ \E s \in Outcomes(jobs[k]) : jobs' = [jobs EXCEPT ![k].status = s]
  /\ UNCHANGED <<first, sent, inbox, faults>>
=============================================================================
