--------------------------- MODULE CreationWizard ---------------------------
(***************************************************************************)
(* useCreationWizard: material is taken, validated and submitted, and the  *)
(* build job polled.  A poll is sent every 1.5 s whether or not the last   *)
(* one was answered, nothing that is under way is cancelled when the       *)
(* wizard leaves the screen, and buttons only look at the stage.  Each     *)
(* time the wizard is mounted it is a new one, numbered by "wizard".       *)
(***************************************************************************)
EXTENDS JobServer

CONSTANTS
  Kinds,       \* of material: "portrait" and "recording"
  Means,       \* to change it: "capture", "pick" and "delete"
  MaxWizards,  \* bound: times a wizard is mounted
  MaxTakes     \* bound: files captured, picked or deleted, and requests lost

ASSUME WizardConstants ==
  /\ Kinds \subseteq {"portrait", "recording"} /\ Kinds # {}
  /\ Means \subseteq {"capture", "pick", "delete"}
  /\ MaxWizards \in Nat /\ MaxTakes \in Nat

Wizards == 1..MaxWizards

VARIABLES
  wizard, open,\* the last wizard, and whether it is on screen
  intent,      \* [mode, source]: the human to rebuild or copy, by its material (the app's)
  file,        \* file[kind]: what was captured or picked
  info,        \* info[kind]: what was validated
  check,       \* what is being validated
  confirming,
  stage, jobId,
  timer,       \* timer[w]: the job wizard w polls
  takes,       \* bookkeeping: bounded by MaxTakes
  slipped, unchecked, strayed  \* history variables, see the properties

materialVars == <<file, info, check, takes, slipped>>
buildVars    == <<stage, jobId, timer, unchecked, strayed>>
wizardVars   == <<wizard, open, intent, confirming, materialVars, buildVars>>

NoPath  == <<"none", 0>>
Nothing == [kind \in Kinds |-> NoPath]

\* A wizard that has just been mounted, and what is left of the last one: its requests.
Blank(mode, source) ==
  /\ intent' = [mode |-> mode, source |-> source]
  /\ file' = Nothing /\ info' = Nothing /\ check' = Nothing
  /\ confirming' = FALSE /\ stage' = "idle" /\ jobId' = NoKey
  /\ slipped' = FALSE /\ unchecked' = FALSE
  /\ strayed' = \E r \in sent : r.op = "retry"   \* the last wizard may yet open its job again

WizardInit ==
  /\ wizard = 0 /\ open = FALSE /\ intent = [mode |-> "new", source |-> NoKey]
  /\ file = Nothing /\ info = Nothing /\ check = Nothing
  /\ confirming = FALSE /\ stage = "idle" /\ jobId = NoKey
  /\ timer = [w \in Wizards |-> NoKey] /\ takes = 0
  /\ slipped = FALSE /\ unchecked = FALSE /\ strayed = FALSE

MountWizard(mode, source) ==
  /\ wizard < MaxWizards
  /\ wizard' = wizard + 1 /\ open' = TRUE
  /\ Blank(mode, source)
  /\ UNCHANGED <<timer, takes>>

StopPolling(w) == [timer EXCEPT ![w] = NoKey]

\* The effect's cleanup clears the interval, and that is all.  What a wizard is for outlives
\* it in the app.
UnmountWizard(mode, source) ==
  /\ open' = FALSE
  /\ Blank(mode, source)
  /\ timer' = IF open THEN StopPolling(wizard) ELSE timer
  /\ UNCHANGED <<wizard, takes>>

-----------------------------------------------------------------------------
\* The material.  That of the human to rebuild or copy comes before what was taken.
Resolved(kind) == IF intent.source # NoKey THEN intent.source[kind] ELSE file[kind]
Prepared == \A kind \in Kinds : Resolved(kind) # NoPath
Content == [kind \in Kinds |-> Resolved(kind)]

\* The captures of one run of the app are all the same file; the key is made of the paths.
Path(f) == IF f[1] = "captured" THEN <<"captured", 0>> ELSE f
Key == [kind \in Kinds |-> Path(Resolved(kind))]

BuildBusy == stage \in {"validating", "submitting", "building", "cancelling", "cleanup"}
CanCreate == \A kind \in Kinds : info[kind] # NoPath

TakenKeepsInfo(kind, how) ==   \* mutant
  /\ open /\ takes + faults < MaxTakes
  /\ takes' = takes + 1
  /\ file' = [file EXCEPT ![kind] = CASE how = "capture" -> <<"captured", takes'>>
                                      [] how = "pick" -> <<"picked", takes'>>
                                      [] OTHER -> NoPath]
  /\ slipped' = (slipped \/ confirming)
  /\ UNCHANGED <<serverVars, wizard, open, intent, confirming, info, check, buildVars>>
\* A file is captured, picked or deleted.  The button was pressed while nothing was built; the
\* shell may take its time to answer, except that a recording ends with a second press.
Taken(kind, how) ==
  /\ open /\ takes + faults < MaxTakes
  /\ kind = "recording" /\ how = "capture" => ~BuildBusy
  /\ how = "delete" => Resolved(kind) # NoPath
  /\ takes' = takes + 1
  /\ file' = [file EXCEPT ![kind] = CASE how = "capture" -> <<"captured", takes'>>
                                      [] how = "pick" -> <<"picked", takes'>>
                                      [] OTHER -> NoPath]
  /\ info' = [info EXCEPT ![kind] = NoPath]
  /\ slipped' = (slipped \/ confirming)
  /\ UNCHANGED <<serverVars, wizard, open, intent, confirming, check, buildVars>>

Validate ==
  /\ open /\ ~BuildBusy /\ check = Nothing /\ Prepared
  /\ check' = Content
  /\ UNCHANGED <<serverVars, wizard, open, intent, confirming, file, info,
                 takes, slipped, buildVars>>

\* Both files are valid, or the screen says that they are not.
Validated ==
  /\ check # Nothing /\ check' = Nothing
  /\ \/ info' = check /\ slipped' = (slipped \/ check # Content)
     \/ UNCHANGED <<info, slipped>>
  /\ UNCHANGED <<serverVars, wizard, open, intent, confirming, file, takes,
                 buildVars>>

-----------------------------------------------------------------------------
\* The stage the screen shows for a status of the job.
StageFromJobStatus(status) ==
  CASE status \in {"pending", "running"} -> "building"
    [] status = "succeeded" -> "ready"
    [] status \in {"cleanup_pending", "cleanup_failed"} -> "cleanup"
    [] OTHER -> status
BuildFailed == IF stage \in {"cancelled", "ready"} THEN stage ELSE "failed"
CancelRequested == IF stage \in {"building", "submitting"} THEN "cancelling" ELSE stage
TerminalStatuses == {"succeeded", "failed", "cancelled", "cleanup_pending", "cleanup_failed"}

Post(rs) == sent' = sent \cup rs /\ UNCHANGED <<jobs, first, inbox, faults>>

\* handleCreate, once it is confirmed: what is uploaded is what is there now.
Submit ==
  /\ confirming' = FALSE
  /\ IF Prepared
     THEN /\ Room
          /\ Post({[Request(wizard, "create", Key) EXCEPT !.mode = intent.mode]})
          /\ stage' = "submitting"
          /\ unchecked' = (unchecked \/ info # Content)
     ELSE UNCHANGED <<serverVars, stage, unchecked>>
  /\ UNCHANGED <<wizard, open, intent, materialVars, jobId, timer, strayed>>

\* The button: the first press asks for a confirmation, the second one confirms.
PressCreate ==
  /\ open /\ CanCreate /\ ~BuildBusy /\ stage # "ready"
  /\ IF confirming THEN Submit
     ELSE confirming' = TRUE /\ UNCHANGED <<serverVars, wizard, open, intent, materialVars, buildVars>>

ConfirmUpload == open /\ confirming /\ Submit

\* The user declines, or three seconds have gone by.
ConfirmEnds ==
  /\ confirming /\ confirming' = FALSE
  /\ UNCHANGED <<serverVars, wizard, open, intent, materialVars, buildVars>>

\* A cancellation is the service's business; the polls will show it.
PressCancel ==
  /\ open /\ BuildBusy /\ jobId # NoKey
  /\ Room /\ Post({Request(wizard, "cancel", jobId)})
  /\ stage' = CancelRequested
  /\ UNCHANGED <<wizard, open, intent, confirming, materialVars, jobId, timer,
                 unchecked, strayed>>

PressRetry ==
  /\ open /\ stage = "failed" /\ jobId # NoKey
  /\ Room /\ Post({Request(wizard, "retry", jobId)})
  /\ stage' = "validating"
  /\ UNCHANGED <<wizard, open, intent, confirming, materialVars, jobId, timer,
                 unchecked, strayed>>

\* handleBack: what is left of a job that ended badly is cleaned up.
PressBack ==
  /\ open /\ ~BuildBusy
  /\ IF stage \in {"cancelled", "failed"} /\ jobId # NoKey
     THEN Room /\ Post({Request(wizard, "cleanup", jobId)})
     ELSE UNCHANGED serverVars
  /\ UnmountWizard("new", NoKey)

Tick(w) ==
  /\ timer[w] # NoKey
  /\ Room /\ Request(w, "poll", timer[w]) \notin sent
  /\ Post({Request(w, "poll", timer[w])})
  /\ UNCHANGED wizardVars

-----------------------------------------------------------------------------
\* Answers.  A wizard that has left the screen still starts and stops its polls.
Consume(n, next) == inbox' = RemoveAt(inbox, n) /\ sent' = sent \cup next
                    /\ UNCHANGED <<jobs, first, faults>>
Here(r) == open /\ r.by = wizard
\* An old answer will be shown after a newer one: the answer of a poll is overtaken, or the
\* polling ends or turns to another job while a poll is under way, or turns to an old job.
Poll(r, by) == r.op = "poll" /\ r.by = by
Strays(n, r) ==
  strayed' = (\/ strayed
              \/ \E m \in 1..(n - 1) : Poll(inbox[m], r.by)
              \/ Here(r) /\ timer'[r.by] \notin {NoKey, jobId'}
              \/ /\ timer'[r.by] # timer[r.by]
                 /\ \E q \in sent' \cup ToSet(inbox') : Poll(q, r.by) /\ q.key # timer'[r.by])
Show(r, s) == stage' = IF Here(r) THEN s ELSE stage
StartPolling(n, r) == /\ timer' = [timer EXCEPT ![r.by] = r.key]
                      /\ Consume(n, {Request(r.by, "poll", r.key)})
Lost(r) == r.ans \in {"lost", "denied"}

\* The job was created, or is opened again.
Accepted(n, r) ==
  /\ r.op \in {"create", "retry"}
  /\ IF Lost(r) \/ r.ans = "refused"
     THEN Show(r, BuildFailed) /\ Consume(n, {}) /\ UNCHANGED <<jobId, timer>>
     ELSE /\ Show(r, StageFromJobStatus(r.ans)) /\ StartPolling(n, r)
          /\ jobId' = IF Here(r) THEN r.key ELSE jobId

CancelledAtOnce(n, r) ==   \* mutant
  /\ r.op = "cancel"
  /\ Show(r, "cancelled") /\ timer' = StopPolling(r.by)
  /\ Consume(n, {}) /\ UNCHANGED jobId
\* A cancellation that was refused came too late: the job is polled all the same.
Cancelled(n, r) ==
  /\ r.op = "cancel"
  /\ StartPolling(n, r) /\ UNCHANGED <<stage, jobId>>

PolledOnce(n, r) ==   \* mutant
  /\ r.op = "poll"
  /\ timer' = StopPolling(r.by)
  /\ IF Lost(r) THEN Show(r, BuildFailed) ELSE Show(r, StageFromJobStatus(r.ans))
  /\ Consume(n, {})
  /\ UNCHANGED jobId
\* pollOnce: any failure ends the polling, and the first cancelled job is cleaned up.
Polled(n, r) ==
  /\ r.op = "poll"
  /\ timer' = IF Lost(r) \/ r.ans \in TerminalStatuses THEN StopPolling(r.by) ELSE timer
  /\ CASE Lost(r)          -> Show(r, BuildFailed)
       [] r.ans = "failed" -> Show(r, BuildFailed)
       [] OTHER            -> Show(r, StageFromJobStatus(r.ans))
  /\ Consume(n, IF r.ans = "cancelled" THEN {Request(r.by, "cleanup", r.key)} ELSE {})
  /\ UNCHANGED jobId

\* Nobody waits for a cleanup.
CleanedUp(n, r) == r.op = "cleanup" /\ Consume(n, {}) /\ UNCHANGED <<stage, jobId, timer>>

WizardAnswer(n) ==
  LET r == inbox[n] IN
  /\ r.by \in Wizards
  /\ Accepted(n, r) \/ Cancelled(n, r) \/ Polled(n, r) \/ CleanedUp(n, r)
  /\ Strays(n, r)
  /\ UNCHANGED <<wizard, open, intent, confirming, materialVars, unchecked>>

WizardPress ==
  \/ \E kind \in Kinds : \E how \in Means : Taken(kind, how)
  \/ Validate \/ Validated \/ PressCreate \/ ConfirmUpload \/ ConfirmEnds
  \/ PressCancel \/ PressRetry
=============================================================================
