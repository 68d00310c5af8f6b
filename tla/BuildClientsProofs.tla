------------------------- MODULE BuildClientsProofs -------------------------
(***************************************************************************)
(* What holds of the two clients of the build jobs in every reachable      *)
(* state.  First the creation wizard, for any requests, losses, retries,   *)
(* wizards, captures and visits; then, from the line on, the recovery card *)
(* of an unfinished build, for any jobs elsewhere too.                     *)
(***************************************************************************)
EXTENDS Creation, BuildRecovery, FiniteSetTheorems, SequenceTheorems, TLAPS

Statuses == {"running", "cancelling", "succeeded", "failed", "cancelled", "cleanup_pending", "cleanup_failed"}
Paths    == {"none", "captured", "picked"} \X Nat
MaterialKeys == [Kinds -> Paths]
JobType  == [status : Statuses, retries : Nat, mode : {"new", "rebuild", "copy"}]
Requests == [by : Wizards, op : {"create", "retry", "cancel", "cleanup", "poll"}, key : MaterialKeys,
             mode : {"none", "new", "rebuild", "copy"}, read : Nat \cup {NotRead}]
Replies  == [by : Wizards, op : {"create", "retry", "cancel", "cleanup", "poll"}, key : MaterialKeys,
             ans : Statuses \cup {"refused", "lost"}]

BuildStages == {"idle", "validating", "submitting", "building", "cancelling", "ready", "cancelled", "failed",
                "cleanup"}

\* What was validated is what is there, as long as nothing slipped in.
MaterialOK ==
  /\ file \in MaterialKeys /\ info \in MaterialKeys /\ check \in MaterialKeys
  /\ confirming \in BOOLEAN /\ slipped \in BOOLEAN /\ unchecked \in BOOLEAN /\ takes \in Nat
  /\ intent \in [mode : {"new", "rebuild", "copy"}, source : MaterialKeys \cup {NoKey}]
  /\ check # Nothing => \A kind \in Kinds : check[kind] # NoPath
  /\ slipped \/ /\ \A kind \in Kinds : info[kind] # NoPath => info[kind] = Resolved(kind)
                /\ confirming => CanCreate
  /\ SubmittedIsValidated

\* Requests and answers name jobs that are there.
WorldOK ==
  /\ jobs \in [DOMAIN jobs -> JobType] /\ DOMAIN jobs \subseteq MaterialKeys
  /\ sent \in SUBSET Requests /\ inbox \in Seq(Replies) /\ faults \in Nat
  /\ \A r \in sent : r.by <= wizard /\ (IF r.op = "create" THEN r.mode # "none" ELSE r.key \in DOMAIN jobs)
  /\ \A r \in sent : r.read # NotRead => faults > 0
  /\ \A n \in DOMAIN inbox :
       /\ inbox[n].by <= wizard
       /\ inbox[n].op # "create" \/ inbox[n].ans # "lost" => inbox[n].key \in DOMAIN jobs
       /\ inbox[n].ans = "lost" => faults > 0
       /\ inbox[n].ans = "refused" => inbox[n].op # "poll"
  /\ wizard \in 0..MaxWizards /\ open \in BOOLEAN /\ strayed \in BOOLEAN
  /\ open => wizard \in Wizards
  /\ timer \in [Wizards -> DOMAIN jobs \cup {NoKey}] /\ jobId \in DOMAIN jobs \cup {NoKey}
  /\ \A w \in Wizards : wizard < w => timer[w] = NoKey
  /\ stage \in BuildStages

\* Unless an answer strays, a wizard polls the job it shows, and nobody else retries it.
PollsOK ==
  open /\ ~strayed =>
    /\ timer[wizard] \in {NoKey, jobId}
    /\ \A q \in sent \cup ToSet(inbox) : Poll(q, wizard) => q.key = timer[wizard]
    /\ \A r \in sent : r.op = "retry" => r.by = wizard

\* The answer to r starts the polling.
Starts(r) == /\ r.by = wizard
             /\ r.op = "cancel" \/ (r.op \in {"create", "retry"} /\ ~Lost(r) /\ r.ans # "refused")

\* The job on screen is not forgotten before it is over: it is cancelled or opened again, or
\* polled, and an answer that ends the polling is followed by another one.
WatchOK ==
  open /\ ~strayed /\ faults = 0 /\ jobId # NoKey /\ Unfinished(jobId) =>
    \/ \E r \in sent : r.by = wizard /\ r.op = "cancel"
    \/ \E n \in DOMAIN inbox : Starts(inbox[n])
    \/ /\ timer[wizard] # NoKey
       /\ \A m \in DOMAIN inbox : Poll(inbox[m], wizard) /\ inbox[m].ans \in TerminalStatuses =>
            (\E q \in sent : Poll(q, wizard)) \/ \E k \in DOMAIN inbox : m < k /\ Poll(inbox[k], wizard)

CInv == MaterialOK /\ WorldOK /\ PollsOK /\ WatchOK /\ BusyIsAttended

-----------------------------------------------------------------------------
\* No material is no key, and a place is a place.
LEMMA KeysArePlaces ==
  /\ NoKey \notin MaterialKeys /\ NoPath \in Paths /\ Nothing \in MaterialKeys
  /\ Wizards \subseteq 0..MaxWizards /\ MaxWizards \in Nat
<1>1. \A k \in MaterialKeys : DOMAIN k = Kinds
  BY DEF MaterialKeys
<1>2. DOMAIN NoKey = {}
  BY DEF NoKey
<1>3. Kinds # {}
  BY WizardConstants
<1>4. NoPath \in Paths
  BY DEF NoPath, Paths
<1>5. Wizards \subseteq 0..MaxWizards /\ MaxWizards \in Nat
  BY WizardConstants DEF Wizards
<1>6. Nothing \in MaterialKeys
  BY <1>4 DEF Nothing, MaterialKeys
<1>7. NoKey \notin MaterialKeys
  BY <1>1, <1>2, <1>3
<1> QED BY <1>4, <1>5, <1>6, <1>7

\* The material on screen is material.
LEMMA ContentIsMaterial ==
  ASSUME MaterialOK
  PROVE  /\ Content \in MaterialKeys /\ Key \in MaterialKeys
         /\ \A kind \in Kinds : Content[kind] = Resolved(kind) /\ Resolved(kind) \in Paths
<1>1. \A kind \in Kinds : Resolved(kind) \in Paths
  <2>1. /\ file \in [Kinds -> Paths]
        /\ intent.source # NoKey => intent.source \in [Kinds -> Paths]
    BY DEF MaterialOK, MaterialKeys
  <2> QED BY <2>1 DEF Resolved
<1>2. \A kind \in Kinds : Path(Resolved(kind)) \in Paths
  BY <1>1 DEF Path, Paths
<1>3. Content = [kind \in Kinds |-> Resolved(kind)] /\ Key = [kind \in Kinds |-> Path(Resolved(kind))]
  BY DEF Content, Key
<1>4. Content \in [Kinds -> Paths] /\ Key \in [Kinds -> Paths]
  BY <1>1, <1>2, <1>3
<1>5. \A kind \in Kinds : Content[kind] = Resolved(kind)
  BY <1>3
<1> QED BY <1>1, <1>4, <1>5 DEF MaterialKeys

\* A step that touches neither the material nor the confirmation.
LEMMA MaterialFrame ==
  MaterialOK /\ UNCHANGED <<intent, confirming, materialVars, unchecked>> => MaterialOK'
BY DEF MaterialOK, materialVars, SubmittedIsValidated, Resolved, CanCreate

-----------------------------------------------------------------------------
\* The material changes.
LEMMA TakenKeeps ==
  ASSUME MaterialOK, NEW kind \in Kinds, NEW how \in Means, Taken(kind, how)
  PROVE  MaterialOK'
<1>1. PICK f \in Paths : file' = [file EXCEPT ![kind] = f]
  <2>1. takes' \in Nat
    BY DEF Taken, MaterialOK
  <2>2. <<"captured", takes'>> \in Paths /\ <<"picked", takes'>> \in Paths /\ NoPath \in Paths
    BY <2>1 DEF Paths, NoPath
  <2>3. \/ file' = [file EXCEPT ![kind] = <<"captured", takes'>>]
        \/ file' = [file EXCEPT ![kind] = <<"picked", takes'>>]
        \/ file' = [file EXCEPT ![kind] = NoPath]
    BY DEF Taken
  <2> QED BY <2>2, <2>3
<1>2. /\ info' = [info EXCEPT ![kind] = NoPath] /\ slipped' = (slipped \/ confirming) /\ takes' = takes + 1
      /\ UNCHANGED <<intent, confirming, check, unchecked>>
  BY DEF Taken, buildVars
<1>3. file' \in MaterialKeys /\ info' \in MaterialKeys
  BY <1>1, <1>2, KeysArePlaces DEF MaterialOK, MaterialKeys
<1>4. \A k \in Kinds : info'[k] = IF k = kind THEN NoPath ELSE info[k]
  BY <1>2 DEF MaterialOK, MaterialKeys
<1>5. \A k \in Kinds : k # kind => Resolved(k)' = Resolved(k)
  BY <1>1, <1>2 DEF MaterialOK, MaterialKeys, Resolved
<1>6. slipped' \/ /\ \A k \in Kinds : info'[k] # NoPath => info'[k] = Resolved(k)'
                  /\ confirming' => CanCreate'
  BY <1>2, <1>4, <1>5 DEF MaterialOK
<1>7. slipped' \in BOOLEAN /\ takes' \in Nat /\ SubmittedIsValidated'
  BY <1>2 DEF MaterialOK, SubmittedIsValidated
<1> QED BY <1>2, <1>3, <1>6, <1>7 DEF MaterialOK

\* The material is validated.
LEMMA ValidatedKeeps == ASSUME MaterialOK, Validate \/ Validated PROVE MaterialOK'
<1>1. /\ Content \in MaterialKeys /\ Nothing \in MaterialKeys
      /\ \A kind \in Kinds : Content[kind] = Resolved(kind) /\ Nothing[kind] = NoPath
  BY ContentIsMaterial, KeysArePlaces DEF Nothing
<1>2. UNCHANGED <<intent, file, confirming, unchecked, takes>>
  BY DEF Validate, Validated, buildVars
<1>3. \A kind \in Kinds : Resolved(kind)' = Resolved(kind)
  BY <1>2 DEF Resolved
<1>4. CASE Validate
  <2>1. check' = Content /\ UNCHANGED <<info, slipped>> /\ \A kind \in Kinds : Resolved(kind) # NoPath
    BY <1>4 DEF Validate, Prepared
  <2> QED BY <1>1, <1>2, <1>3, <2>1 DEF MaterialOK, SubmittedIsValidated, CanCreate
<1>5. CASE Validated
  <2>1. /\ check # Nothing /\ check' = Nothing
        /\ \/ info' = check /\ slipped' = (slipped \/ check # Content)
           \/ UNCHANGED <<info, slipped>>
    BY <1>5 DEF Validated
  <2>2. CASE UNCHANGED <<info, slipped>>
    BY <1>1, <1>2, <1>3, <2>1, <2>2 DEF MaterialOK, SubmittedIsValidated, CanCreate
  <2>3. CASE info' = check /\ slipped' = (slipped \/ check # Content)
    <3>1. slipped' \/ \A kind \in Kinds : info'[kind] = Resolved(kind)'
      BY <1>1, <1>3, <2>3
    <3>2. \A kind \in Kinds : info'[kind] # NoPath
      BY <2>1, <2>3 DEF MaterialOK
    <3>3. slipped' \in BOOLEAN /\ SubmittedIsValidated'
      BY <1>2, <2>3 DEF MaterialOK, SubmittedIsValidated
    <3> QED BY <1>1, <1>2, <2>1, <2>3, <3>1, <3>2, <3>3 DEF MaterialOK, CanCreate
  <2> QED BY <2>1, <2>2, <2>3
<1> QED BY <1>4, <1>5

\* The button is pressed, confirmed or given up.
LEMMA ConfirmKeeps ==
  ASSUME MaterialOK, PressCreate \/ ConfirmUpload \/ ConfirmEnds
  PROVE  MaterialOK'
<1>1. UNCHANGED <<intent, materialVars>>
  BY DEF PressCreate, ConfirmUpload, ConfirmEnds, Submit
<1>2. /\ UNCHANGED <<intent, file, info, check, takes, slipped>>
      /\ \A kind \in Kinds : Resolved(kind)' = Resolved(kind)
      /\ CanCreate' = CanCreate
  BY <1>1 DEF materialVars, Resolved, CanCreate
<1>3. CASE confirming /\ Submit
  <2>1. confirming' = FALSE /\ (unchecked' = unchecked \/ unchecked' = (unchecked \/ info # Content))
    BY <1>3 DEF Submit
  <2>2. slipped \/ info = Content
    <3>1. ASSUME ~slipped PROVE \A kind \in Kinds : info[kind] = Content[kind]
      BY <1>3, <3>1, ContentIsMaterial DEF MaterialOK, CanCreate
    <3>2. info \in MaterialKeys /\ Content \in MaterialKeys
      BY ContentIsMaterial DEF MaterialOK
    <3> QED BY <3>1, <3>2 DEF MaterialKeys
  <2>3. unchecked' \in BOOLEAN /\ SubmittedIsValidated'
    BY <1>2, <2>1, <2>2 DEF MaterialOK, SubmittedIsValidated
  <2> QED BY <1>2, <2>1, <2>3 DEF MaterialOK
<1>4. CASE ~(confirming /\ Submit)
  <2>1. /\ unchecked' = unchecked /\ confirming' \in BOOLEAN /\ (confirming' => CanCreate)
    BY <1>4 DEF PressCreate, ConfirmUpload, ConfirmEnds, buildVars
  <2> QED BY <1>2, <2>1 DEF MaterialOK, SubmittedIsValidated
<1> QED BY <1>3, <1>4

\* A wizard that is mounted or has left has no material.
LEMMA BlankMaterial ==
  ASSUME MaterialOK, NEW mode \in {"new", "rebuild", "copy"}, NEW source \in MaterialKeys \cup {NoKey},
         Blank(mode, source), UNCHANGED takes
  PROVE  MaterialOK'
<1>1. /\ intent' = [mode |-> mode, source |-> source]
      /\ file' = Nothing /\ info' = Nothing /\ check' = Nothing
      /\ confirming' = FALSE /\ slipped' = FALSE /\ unchecked' = FALSE
  BY DEF Blank
<1>2. Nothing \in MaterialKeys /\ \A kind \in Kinds : Nothing[kind] = NoPath
  BY KeysArePlaces DEF Nothing
<1> QED BY <1>1, <1>2 DEF MaterialOK, SubmittedIsValidated

-----------------------------------------------------------------------------
\* A step that touches neither the requests nor what the wizard waits for.
LEMMA BuildFrame ==
  ASSUME WorldOK, PollsOK, WatchOK, BusyIsAttended,
         UNCHANGED <<serverVars, wizard, open, buildVars>>
  PROVE  WorldOK' /\ PollsOK' /\ WatchOK' /\ BusyIsAttended'
<1>1. /\ jobs' = jobs /\ sent' = sent /\ inbox' = inbox /\ faults' = faults /\ wizard' = wizard
      /\ open' = open /\ stage' = stage /\ jobId' = jobId /\ timer' = timer /\ strayed' = strayed
  BY DEF serverVars, buildVars
<1>2. WorldOK'
  BY <1>1 DEF WorldOK
<1>3. PollsOK'
  BY <1>1 DEF PollsOK, Poll
<1>4. WatchOK'
  BY <1>1 DEF WatchOK, Unfinished, Starts, Lost, Poll
<1>5. BusyIsAttended'
  BY <1>1 DEF BusyIsAttended, BuildBusy, Attended, Waiting
<1> QED BY <1>2, <1>3, <1>4, <1>5

\* The answers that are on their way.
LEMMA InboxIsTyped ==
  ASSUME WorldOK
  PROVE  /\ DOMAIN inbox = 1..Len(inbox) /\ Len(inbox) \in Nat
         /\ \A n \in DOMAIN inbox : inbox[n] \in Replies /\ inbox[n].by \in Wizards
         /\ ToSet(inbox) = {inbox[n] : n \in DOMAIN inbox}
<1>1. inbox \in Seq(Replies)
  BY DEF WorldOK
<1>2. \A n \in 1..Len(inbox) : inbox[n] \in Replies
  BY <1>1, ElementOfSeq
<1>3. \A a \in Replies : a.by \in Wizards
  BY DEF Replies
<1>4. DOMAIN inbox = 1..Len(inbox) /\ Len(inbox) \in Nat
  BY <1>1, LenProperties
<1> QED BY <1>2, <1>3, <1>4 DEF ToSet

\* What a wizard asks for.
LEMMA RequestsAreTyped ==
  ASSUME NEW w \in Wizards, NEW op \in {"retry", "cancel", "cleanup", "poll"}, NEW k \in MaterialKeys
  PROVE  /\ Request(w, op, k) \in Requests
         /\ Request(w, op, k).by = w /\ Request(w, op, k).op = op /\ Request(w, op, k).key = k
         /\ Request(w, op, k).read = NotRead
BY DEF Request, Requests

\* A request is sent: nobody polls another job than the one it polls, and nobody else retries.
LEMMA PostKeeps ==
  ASSUME WorldOK, PollsOK, WatchOK, NEW q \in Requests, Post({q}), q.read = NotRead,
         q.by <= wizard, IF q.op = "create" THEN q.mode # "none" ELSE q.key \in DOMAIN jobs,
         open => (Poll(q, wizard) => q.key = timer[wizard]) /\ (q.op = "retry" => q.by = wizard),
         stage' \in BuildStages, UNCHANGED <<wizard, open, jobId, timer, strayed>>
  PROVE  WorldOK' /\ PollsOK' /\ WatchOK'
<1>1. /\ sent' = sent \cup {q} /\ jobs' = jobs /\ inbox' = inbox /\ faults' = faults
      /\ wizard' = wizard /\ open' = open /\ jobId' = jobId /\ timer' = timer /\ strayed' = strayed
  BY DEF Post
<1>2. WorldOK'
  BY <1>1 DEF WorldOK
<1>3. PollsOK'
  BY <1>1 DEF PollsOK, Poll
<1>4. WatchOK'
  <2>1. (\A n \in DOMAIN inbox : Starts(inbox[n])' <=> Starts(inbox[n])) /\ Unfinished(jobId)' = Unfinished(jobId)
    BY <1>1 DEF Starts, Lost, Unfinished
  <2>2. \A m \in DOMAIN inbox : (\E p \in sent : Poll(p, wizard)) => \E p \in sent' : Poll(p, wizard)
    BY <1>1
  <2> QED BY <1>1, <2>1, <2>2 DEF WatchOK, Starts, Lost, Poll, Unfinished
<1> QED BY <1>2, <1>3, <1>4

\* What the wizard waited for, it waits for still.
LEMMA WaitingGrows ==
  ASSUME Attended, sent \subseteq sent', UNCHANGED <<inbox, timer, wizard>>
  PROVE  Attended'
<1>1. inbox' = inbox /\ timer' = timer /\ wizard' = wizard
  OBVIOUS
<1>2. Waiting(wizard) \subseteq Waiting(wizard)'
  BY <1>1 DEF Waiting
<1> QED BY <1>1, <1>2 DEF Attended

\* A wizard that is mounted has asked for nothing, and shows no job.
LEMMA MountKeeps ==
  ASSUME CInv, NEW mode \in {"new", "rebuild", "copy"}, NEW source \in MaterialKeys \cup {NoKey},
         MountWizard(mode, source), UNCHANGED serverVars
  PROVE  CInv'
<1>1. /\ jobs' = jobs /\ sent' = sent /\ inbox' = inbox /\ faults' = faults /\ timer' = timer
      /\ wizard < MaxWizards /\ wizard' = wizard + 1 /\ open' = TRUE /\ takes' = takes
      /\ stage' = "idle" /\ jobId' = NoKey /\ strayed' = \E r \in sent : r.op = "retry"
  BY DEF MountWizard, Blank, serverVars
<1>2. wizard \in 0..MaxWizards /\ MaxWizards \in Nat /\ wizard' \in Wizards /\ wizard < wizard'
  BY <1>1, KeysArePlaces DEF CInv, WorldOK, Wizards
<1>3. MaterialOK'
  BY <1>1, BlankMaterial DEF CInv, MountWizard
<1>4. WorldOK'
  <2>1. \A r \in sent : r.by \in 0..MaxWizards /\ r.by <= wizard'
    BY <1>1, <1>2 DEF CInv, WorldOK, Requests, Wizards
  <2>2. \A n \in DOMAIN inbox : inbox[n].by \in Wizards /\ inbox[n].by <= wizard'
    BY <1>1, <1>2, InboxIsTyped DEF CInv, WorldOK, Wizards
  <2>3. \A w \in Wizards : wizard' < w => timer[w] = NoKey
    BY <1>1, <1>2 DEF CInv, WorldOK, Wizards
  <2>4. wizard' \in 0..MaxWizards /\ strayed' \in BOOLEAN /\ stage' \in BuildStages
    BY <1>1, <1>2 DEF BuildStages, Wizards
  <2> QED BY <1>1, <1>2, <2>1, <2>2, <2>3, <2>4 DEF CInv, WorldOK
<1>5. PollsOK'
  <2>1. timer[wizard'] = NoKey
    BY <1>2 DEF CInv, WorldOK
  <2>2. \A q \in sent \cup ToSet(inbox) : q.by # wizard'
    <3>1. \A r \in sent : r.by \in Wizards /\ r.by <= wizard
      BY DEF CInv, WorldOK, Requests
    <3>2. \A n \in DOMAIN inbox : inbox[n].by \in Wizards /\ inbox[n].by <= wizard
      BY InboxIsTyped DEF CInv, WorldOK
    <3> QED BY <1>2, <3>1, <3>2 DEF ToSet, Wizards
  <2> QED BY <1>1, <2>1, <2>2 DEF PollsOK, Poll
<1>6. WatchOK' /\ BusyIsAttended'
  BY <1>1 DEF WatchOK, BusyIsAttended, BuildBusy
<1> QED BY <1>3, <1>4, <1>5, <1>6 DEF CInv

\* A wizard that has left shows nothing.
LEMMA UnmountKeeps ==
  ASSUME CInv, NEW mode \in {"new", "rebuild", "copy"}, NEW source \in MaterialKeys \cup {NoKey},
         UnmountWizard(mode, source), UNCHANGED <<jobs, first, inbox, faults>>,
         \/ UNCHANGED sent
         \/ \E q \in Requests : /\ sent' = sent \cup {q} /\ q.by <= wizard /\ q.op = "cleanup"
                             /\ q.key \in DOMAIN jobs /\ q.read = NotRead
  PROVE  CInv'
<1>1. /\ jobs' = jobs /\ inbox' = inbox /\ faults' = faults /\ wizard' = wizard /\ open' = FALSE
      /\ timer' = (IF open THEN StopPolling(wizard) ELSE timer)
      /\ stage' = "idle" /\ jobId' = NoKey /\ strayed' = (\E r \in sent : r.op = "retry") /\ takes' = takes
  BY DEF UnmountWizard, Blank
<1>2. MaterialOK'
  BY <1>1, BlankMaterial DEF CInv, UnmountWizard
<1>3. /\ timer' \in [Wizards -> DOMAIN jobs \cup {NoKey}]
      /\ \A w \in Wizards : wizard < w => timer'[w] = NoKey
  BY <1>1 DEF CInv, WorldOK, StopPolling
<1>4. /\ sent' \in SUBSET Requests
      /\ \A r \in sent' : r.by <= wizard /\ (IF r.op = "create" THEN r.mode # "none" ELSE r.key \in DOMAIN jobs)
      /\ \A r \in sent' : r.read # NotRead => faults > 0
  BY DEF CInv, WorldOK
<1>5. stage' \in BuildStages /\ strayed' \in BOOLEAN /\ jobId' \in DOMAIN jobs \cup {NoKey}
  BY <1>1 DEF BuildStages
<1>6. WorldOK'
  BY <1>1, <1>3, <1>4, <1>5 DEF CInv, WorldOK
<1>7. PollsOK' /\ WatchOK' /\ BusyIsAttended'
  BY <1>1 DEF PollsOK, WatchOK, BusyIsAttended
<1> QED BY <1>2, <1>6, <1>7 DEF CInv

-----------------------------------------------------------------------------
\* What a request makes of the jobs: none is forgotten, and a job is under way again only when
\* it is retried, or cancelled by a request that has read it before.
LEMMA EffectKeeps ==
  ASSUME WorldOK, NEW r \in sent
  PROVE  /\ DOMAIN Effect(r) = DOMAIN jobs \cup (IF r.op = "create" THEN {r.key} ELSE {})
         /\ Effect(r) \in [DOMAIN Effect(r) -> JobType]
         /\ \A k \in DOMAIN jobs : Effect(r)[k].status \in {"running", "cancelling"} =>
              \/ Unfinished(k)
              \/ r.op = "retry" /\ ~Refused(r) /\ k = r.key
              \/ r.read # NotRead
         /\ r.op = "retry" /\ ~Refused(r) => Effect(r)[r.key].status = "running"
         /\ r.op = "poll" => Effect(r) = jobs
<1>1. /\ r \in Requests /\ jobs \in [DOMAIN jobs -> JobType] /\ (r.op # "create" => r.key \in DOMAIN jobs)
      /\ r.op \in {"create", "retry", "cancel", "cleanup", "poll"} /\ r.mode \in {"none", "new", "rebuild", "copy"}
  BY DEF WorldOK, Requests
<1>2. DOMAIN Accepts = {"cancel", "retry", "cleanup"}
  BY DEF Accepts
<1>3. CASE r.op = "create"
  <2>1. Effect(r) = IF r.key \in DOMAIN jobs THEN jobs
                    ELSE [k \in DOMAIN jobs \cup {r.key} |-> IF k \in DOMAIN jobs THEN jobs[k] ELSE
                            [status |-> "running", retries |-> 0, mode |-> r.mode]]
    BY <1>2, <1>3 DEF Effect, Start, Known
  <2>2. CASE r.key \in DOMAIN jobs
    <3>1. Effect(r) = jobs
      BY <2>1, <2>2
    <3> QED BY <1>1, <1>3, <2>2, <3>1 DEF Unfinished
  <2>3. CASE r.key \notin DOMAIN jobs
    <3>1. r.mode \in {"new", "rebuild", "copy"}
      BY <1>1, <1>3, <2>3 DEF WorldOK
    <3>2. [status |-> "running", retries |-> 0, mode |-> r.mode] \in JobType
      BY <3>1 DEF JobType, Statuses
    <3>3. Effect(r) = [k \in DOMAIN jobs \cup {r.key} |-> IF k \in DOMAIN jobs THEN jobs[k] ELSE
                         [status |-> "running", retries |-> 0, mode |-> r.mode]]
      BY <2>1, <2>3
    <3> QED BY <1>1, <1>3, <3>2, <3>3 DEF Unfinished
  <2> QED BY <2>2, <2>3
<1>4. CASE r.op \in {"cancel", "retry", "cleanup"} /\ ~Refused(r)
  <2>1. Effect(r) = [jobs EXCEPT ![r.key] = Moved(jobs[r.key], r)]
    BY <1>2, <1>4 DEF Effect
  <2>2. jobs[r.key] \in JobType
    BY <1>1, <1>4
  <2>3. /\ Moved(jobs[r.key], r) \in JobType
        /\ r.op = "retry" => Moved(jobs[r.key], r).status = "running"
        /\ r.op = "cancel" => Moved(jobs[r.key], r).status = "cancelling"
        /\ r.op = "cleanup" => Moved(jobs[r.key], r).status = "cleanup_pending"
    <3>1. PICK j \in JobType : j = jobs[r.key]
      BY <2>2
    <3>2. PICK count \in Nat : count = (IF r.read = NotRead THEN j.retries ELSE r.read) + 1
      BY <1>1 DEF Requests, JobType
    <3>3. /\ r.op = "retry" => Moved(j, r) = [j EXCEPT !.status = "running", !.retries = count]
          /\ r.op = "cancel" => Moved(j, r) = [j EXCEPT !.status = "cancelling"]
          /\ r.op = "cleanup" => Moved(j, r) = [j EXCEPT !.status = "cleanup_pending"]
      BY <1>4, <3>2 DEF Moved
    <3>4. /\ [j EXCEPT !.status = "cancelling"] \in JobType /\ [j EXCEPT !.status = "cleanup_pending"] \in JobType
          /\ [j EXCEPT !.status = "running", !.retries = count] \in JobType
          /\ [j EXCEPT !.status = "cancelling"].status = "cancelling"
          /\ [j EXCEPT !.status = "cleanup_pending"].status = "cleanup_pending"
          /\ [j EXCEPT !.status = "running", !.retries = count].status = "running"
      BY DEF JobType, Statuses
    <3> QED BY <1>4, <3>1, <3>3, <3>4
  <2>4. r.op = "cancel" /\ r.read = NotRead => jobs[r.key].status = "running"
    BY <1>4 DEF Refused, Accepts
  <2> QED BY <1>1, <1>4, <2>1, <2>2, <2>3, <2>4 DEF Unfinished
<1>5. CASE r.op = "poll" \/ (r.op \in {"cancel", "retry", "cleanup"} /\ Refused(r))
  <2>1. Effect(r) = jobs
    BY <1>2, <1>5 DEF Effect
  <2> QED BY <1>1, <1>5, <2>1 DEF Unfinished
<1> QED BY <1>1, <1>3, <1>4, <1>5

\* The answer to a request.
LEMMA AnswerIsOfJob ==
  ASSUME WorldOK, NEW r \in sent, NEW answer \in Answers(r)
  PROVE  /\ answer[1] = r.key
         /\ answer[2] \in Statuses \cup {"refused"} /\ (answer[2] = "refused" => r.op \in DOMAIN Accepts /\ Refused(r))
         /\ answer[2] # "refused" => answer[2] = Effect(r)[r.key].status
<1>1. r.op \in {"create", "retry", "cancel", "cleanup", "poll"} /\ (r.op # "create" => r.key \in DOMAIN jobs)
  BY DEF WorldOK, Requests
<1>2. DOMAIN Accepts = {"cancel", "retry", "cleanup"}
  BY DEF Accepts
<1>3. r.key \in DOMAIN Effect(r) /\ Effect(r)[r.key] \in JobType /\ Effect(r)[r.key].status \in Statuses
  BY <1>1, EffectKeeps DEF JobType
<1>4. "refused" \notin Statuses
  BY DEF Statuses
<1> QED BY <1>1, <1>2, <1>3, <1>4 DEF Answers

\* An answer is sent, and the jobs are what the request has made of them, or what they were.
LEMMA ReplyAppends ==
  ASSUME WorldOK, NEW r \in sent, NEW ans \in Statuses \cup {"refused", "lost"}, Reply(r, <<r.key, ans>>)
  PROVE  /\ sent' = sent \ {r} /\ inbox' \in Seq(Replies)
         /\ DOMAIN inbox' = 1..(Len(inbox) + 1) /\ Len(inbox) + 1 \notin DOMAIN inbox
         /\ \A n \in DOMAIN inbox : n \in DOMAIN inbox' /\ n < Len(inbox) + 1 /\ inbox'[n] = inbox[n]
         /\ \A n \in DOMAIN inbox' : n \in DOMAIN inbox \/ n = Len(inbox) + 1
         /\ inbox'[Len(inbox) + 1] = [by |-> r.by, op |-> r.op, key |-> r.key, ans |-> ans]
         /\ ToSet(inbox') = ToSet(inbox) \cup {[by |-> r.by, op |-> r.op, key |-> r.key, ans |-> ans]}
<1> DEFINE a == [by |-> r.by, op |-> r.op, key |-> r.key, ans |-> ans]
<1>1. sent' = sent \ {r} /\ inbox' = Append(inbox, a)
  BY DEF Reply
<1>2. a \in Replies
  BY DEF WorldOK, Requests, Replies
<1>3. inbox \in Seq(Replies) /\ DOMAIN inbox = 1..Len(inbox) /\ Len(inbox) \in Nat
  BY InboxIsTyped DEF WorldOK
<1> HIDE DEF a
<1>4. /\ Append(inbox, a) \in Seq(Replies) /\ Len(Append(inbox, a)) = Len(inbox) + 1
      /\ \A n \in 1..Len(inbox) : Append(inbox, a)[n] = inbox[n]
      /\ Append(inbox, a)[Len(inbox) + 1] = a
  BY <1>2, <1>3, AppendProperties
<1>5. DOMAIN inbox' = 1..(Len(inbox) + 1)
  BY <1>1, <1>4, LenProperties
<1>6. ToSet(inbox') = ToSet(inbox) \cup {a}
  BY <1>1, <1>3, <1>4, <1>5 DEF ToSet
<1> QED BY <1>1, <1>3, <1>4, <1>5, <1>6 DEF a

\* The service answers a request, or the connection fails.
LEMMA ReplyKeeps ==
  ASSUME WorldOK, PollsOK, BusyIsAttended, NEW r \in sent, NEW ans \in Statuses \cup {"refused", "lost"},
         Reply(r, <<r.key, ans>>), faults' \in Nat, faults <= faults', ans = "lost" => faults' > 0,
         ans = "refused" => r.op # "poll", r.op = "create" /\ ans # "lost" => r.key \in DOMAIN jobs',
         jobs' \in [DOMAIN jobs' -> JobType], DOMAIN jobs \subseteq DOMAIN jobs', DOMAIN jobs' \subseteq MaterialKeys,
         UNCHANGED wizardVars
  PROVE  WorldOK' /\ PollsOK' /\ BusyIsAttended'
<1> DEFINE a == [by |-> r.by, op |-> r.op, key |-> r.key, ans |-> ans]
<1>1. /\ wizard' = wizard /\ open' = open /\ stage' = stage /\ jobId' = jobId /\ timer' = timer
      /\ strayed' = strayed
  BY DEF wizardVars, buildVars
<1>2. /\ sent' = sent \ {r} /\ inbox' \in Seq(Replies)
      /\ \A n \in DOMAIN inbox : n \in DOMAIN inbox' /\ inbox'[n] = inbox[n]
      /\ \A n \in DOMAIN inbox' : n \in DOMAIN inbox \/ inbox'[n] = a
      /\ ToSet(inbox') = ToSet(inbox) \cup {a}
  BY ReplyAppends
<1>3. a.by = r.by /\ a.op = r.op /\ a.key = r.key /\ a.ans = ans
  OBVIOUS
<1> HIDE DEF a
<1>4. r \in Requests /\ r.by <= wizard /\ (r.op # "create" => r.key \in DOMAIN jobs)
  BY DEF WorldOK
<1>5. \A n \in DOMAIN inbox' :
       /\ inbox'[n].by <= wizard
       /\ inbox'[n].op # "create" \/ inbox'[n].ans # "lost" => inbox'[n].key \in DOMAIN jobs'
       /\ inbox'[n].ans = "lost" => faults' > 0
       /\ inbox'[n].ans = "refused" => inbox'[n].op # "poll"
  <2> SUFFICES ASSUME NEW n \in DOMAIN inbox'
               PROVE  /\ inbox'[n].by <= wizard
                      /\ inbox'[n].op # "create" \/ inbox'[n].ans # "lost" => inbox'[n].key \in DOMAIN jobs'
                      /\ inbox'[n].ans = "lost" => faults' > 0
                      /\ inbox'[n].ans = "refused" => inbox'[n].op # "poll"
    OBVIOUS
  <2>1. CASE n \in DOMAIN inbox
    BY <1>2, <2>1 DEF WorldOK
  <2>2. CASE inbox'[n] = a
    BY <1>3, <1>4, <2>2
  <2> QED BY <1>2, <2>1, <2>2
<1>6. timer' \in [Wizards -> DOMAIN jobs' \cup {NoKey}] /\ jobId' \in DOMAIN jobs' \cup {NoKey}
  BY <1>1 DEF WorldOK
<1>7. /\ sent' \in SUBSET Requests
      /\ \A q \in sent' : q.by <= wizard /\ (IF q.op = "create" THEN q.mode # "none" ELSE q.key \in DOMAIN jobs')
      /\ \A q \in sent' : q.read # NotRead => faults' > 0
  <2>1. faults > 0 => faults' > 0
    BY DEF WorldOK
  <2> QED BY <1>2, <2>1 DEF WorldOK
<1>8. WorldOK'
  BY <1>1, <1>2, <1>5, <1>6, <1>7 DEF WorldOK
<1>9. PollsOK'
  <2>1. \A q \in sent' \cup ToSet(inbox') : Poll(q, wizard) =>
          \E p \in sent \cup ToSet(inbox) : Poll(p, wizard) /\ p.key = q.key
    BY <1>2, <1>3 DEF Poll
  <2>2. \A q \in sent' : q \in sent
    BY <1>2
  <2> QED BY <1>1, <2>1, <2>2 DEF PollsOK, Poll
<1>10. BusyIsAttended'
  <2>1. ASSUME Attended PROVE Attended'
    <3>1. CASE timer[wizard] # NoKey
      BY <1>1, <3>1 DEF Attended
    <3>2. CASE \E q \in Waiting(wizard) : q.op \in {"create", "retry", "cancel", "poll"}
      <4>1. PICK q \in sent \cup ToSet(inbox) : q.by = wizard /\ q.op \in {"create", "retry", "cancel", "poll"}
        BY <3>2 DEF Waiting
      <4>2. CASE q = r
        BY <1>1, <1>2, <1>3, <4>1, <4>2 DEF Attended, Waiting
      <4>3. CASE q # r
        BY <1>1, <1>2, <4>1, <4>3 DEF Attended, Waiting
      <4> QED BY <4>2, <4>3
    <3> QED BY <2>1, <3>1, <3>2 DEF Attended
  <2> QED BY <1>1, <2>1 DEF BusyIsAttended, BuildBusy
<1> QED BY <1>8, <1>9, <1>10

\* An answer starts the polling again, or follows the answers before it.
LEMMA ServeWatches ==
  ASSUME WorldOK, PollsOK, WatchOK, NEW r \in sent, NEW ans \in Statuses \cup {"refused", "lost"},
         Reply(r, <<r.key, ans>>), jobs' = Effect(r), faults' = faults, UNCHANGED wizardVars,
         ans = "refused" => r.op \in DOMAIN Accepts /\ Refused(r),
         ans # "refused" => ans = Effect(r)[r.key].status
  PROVE  WatchOK'
<1> DEFINE a == [by |-> r.by, op |-> r.op, key |-> r.key, ans |-> ans]
           last == Len(inbox) + 1
<1>1. /\ wizard' = wizard /\ open' = open /\ jobId' = jobId /\ timer' = timer /\ strayed' = strayed
  BY DEF wizardVars, buildVars
<1>2. /\ sent' = sent \ {r}
      /\ \A n \in DOMAIN inbox : n \in DOMAIN inbox' /\ n < last /\ inbox'[n] = inbox[n]
      /\ \A n \in DOMAIN inbox' : n \in DOMAIN inbox \/ n = last
      /\ last \in DOMAIN inbox' /\ inbox'[last] = a
  BY ReplyAppends, InboxIsTyped
<1>3. a.by = r.by /\ a.op = r.op /\ a.key = r.key /\ a.ans = ans
  OBVIOUS
<1> HIDE DEF a, last
<1>4. SUFFICES ASSUME open, ~strayed, faults = 0, jobId # NoKey, Unfinished(jobId)'
      PROVE  \/ \E q \in sent' : q.by = wizard /\ q.op = "cancel"
             \/ \E n \in DOMAIN inbox' : Starts(inbox'[n])
             \/ /\ timer[wizard] # NoKey
                /\ \A m \in DOMAIN inbox' : Poll(inbox'[m], wizard) /\ inbox'[m].ans \in TerminalStatuses =>
                     \/ \E q \in sent' : Poll(q, wizard)
                     \/ \E k \in DOMAIN inbox' : m < k /\ Poll(inbox'[k], wizard)
  BY <1>1 DEF WatchOK, Starts, Lost, Poll
<1>5. jobId \in DOMAIN jobs /\ jobs'[jobId].status \in {"running", "cancelling"}
  BY <1>1, <1>4 DEF WorldOK, Unfinished
<1>6. CASE ~Unfinished(jobId)
  <2>1. r.op = "retry" /\ ~Refused(r) /\ r.key = jobId /\ Effect(r)[r.key].status = "running"
    <3>1. r.read = NotRead
      BY <1>4 DEF WorldOK
    <3> QED BY <1>5, <1>6, <3>1, EffectKeeps
  <2>2. ans = "running" /\ r.by = wizard
    BY <1>4, <2>1 DEF PollsOK
  <2>3. Starts(a)
    BY <1>3, <2>1, <2>2 DEF Starts, Lost
  <2> QED BY <1>2, <2>3
<1>7. CASE Unfinished(jobId)
  <2>1. CASE \E q \in sent : q.by = wizard /\ q.op = "cancel"
    <3>1. PICK q \in sent : q.by = wizard /\ q.op = "cancel"
      BY <2>1
    <3>2. CASE q = r
      BY <1>2, <1>3, <3>1, <3>2 DEF Starts
    <3>3. CASE q # r
      BY <1>2, <3>1, <3>3
    <3> QED BY <3>2, <3>3
  <2>2. CASE \E n \in DOMAIN inbox : Starts(inbox[n])
    BY <1>2, <2>2
  <2>3. CASE /\ timer[wizard] # NoKey
             /\ \A m \in DOMAIN inbox : Poll(inbox[m], wizard) /\ inbox[m].ans \in TerminalStatuses =>
                  (\E q \in sent : Poll(q, wizard)) \/ \E k \in DOMAIN inbox : m < k /\ Poll(inbox[k], wizard)
    <3>1. ASSUME NEW m \in DOMAIN inbox', Poll(inbox'[m], wizard), inbox'[m].ans \in TerminalStatuses
          PROVE  \/ \E q \in sent' : Poll(q, wizard)
                 \/ \E k \in DOMAIN inbox' : m < k /\ Poll(inbox'[k], wizard)
      <4>1. CASE m = last
        <5>1. Poll(r, wizard) /\ ans \in TerminalStatuses
          BY <1>2, <1>3, <3>1, <4>1 DEF Poll
        <5>2. r.key = jobId
          BY <1>4, <2>3, <5>1 DEF PollsOK
        <5>3. ans = jobs[jobId].status
          <6>1. r.op = "poll" /\ Effect(r) = jobs
            BY <5>1, EffectKeeps DEF Poll
          <6>2. ans # "refused"
            BY <5>1 DEF TerminalStatuses
          <6> QED BY <5>2, <6>1, <6>2
        <5> QED BY <1>7, <5>1, <5>3 DEF Unfinished, TerminalStatuses
      <4>2. CASE m \in DOMAIN inbox
        <5>1. (\E q \in sent : Poll(q, wizard)) \/ \E k \in DOMAIN inbox : m < k /\ Poll(inbox[k], wizard)
          BY <1>2, <2>3, <3>1, <4>2
        <5>2. CASE \E q \in sent : Poll(q, wizard)
          <6>1. PICK q \in sent : Poll(q, wizard)
            BY <5>2
          <6>2. CASE q = r
            BY <1>2, <1>3, <4>2, <6>1, <6>2 DEF Poll
          <6>3. CASE q # r
            BY <1>2, <6>1, <6>3
          <6> QED BY <6>2, <6>3
        <5>3. CASE \E k \in DOMAIN inbox : m < k /\ Poll(inbox[k], wizard)
          BY <1>2, <5>3
        <5> QED BY <5>1, <5>2, <5>3
      <4> QED BY <1>2, <4>1, <4>2
    <3> QED BY <2>3, <3>1
  <2> QED BY <1>4, <1>5, <1>7, <2>1, <2>2, <2>3 DEF WatchOK
<1> QED BY <1>6, <1>7

\* The service answers.
LEMMA ServeKeeps ==
  ASSUME CInv, NEW r \in sent, Serve(r), UNCHANGED wizardVars
  PROVE  CInv'
<1>1. PICK answer \in Answers(r) : Reply(r, answer)
  BY DEF Serve
<1>2. jobs' = Effect(r) /\ faults' = faults /\ faults \in Nat /\ WorldOK
  BY DEF Serve, Apply, CInv, WorldOK
<1>3. PICK ans \in Statuses \cup {"refused"} : answer[2] = ans
  BY <1>2, AnswerIsOfJob
<1>4. Reply(r, <<r.key, ans>>)
  BY <1>1, <1>2, <1>3, AnswerIsOfJob DEF Reply
<1>5. /\ ans = "refused" => r.op \in DOMAIN Accepts /\ Refused(r)
      /\ ans # "refused" => ans = Effect(r)[r.key].status
  BY <1>2, <1>3, AnswerIsOfJob
<1>6. /\ jobs' \in [DOMAIN jobs' -> JobType] /\ DOMAIN jobs \subseteq DOMAIN jobs' /\ DOMAIN jobs' \subseteq MaterialKeys
      /\ r.op = "create" => r.key \in DOMAIN jobs'
  <2>1. DOMAIN jobs \subseteq MaterialKeys /\ r.key \in MaterialKeys
    BY <1>2 DEF WorldOK, Requests
  <2> QED BY <1>2, <2>1, EffectKeeps
<1>7. ans # "lost" /\ (ans = "refused" => r.op # "poll")
  BY <1>5 DEF Accepts, Statuses
<1>8. MaterialOK'
  BY MaterialFrame DEF CInv, wizardVars, buildVars
<1>9. WorldOK' /\ PollsOK' /\ BusyIsAttended'
  BY <1>2, <1>4, <1>6, <1>7, ReplyKeeps DEF CInv
<1>10. WatchOK'
  BY <1>2, <1>4, <1>5, ServeWatches DEF CInv
<1> QED BY <1>8, <1>9, <1>10 DEF CInv

\* The connection fails.
LEMMA LoseKeeps ==
  ASSUME CInv, NEW r \in sent, LoseRequest(r, "lost"), UNCHANGED wizardVars
  PROVE  CInv'
<1>1. faults \in Nat /\ faults' = faults + 1 /\ Reply(r, <<r.key, "lost">>) /\ WorldOK
  BY DEF LoseRequest, CInv, WorldOK
<1>2. jobs' = Effect(r) \/ jobs' = jobs
  BY DEF LoseRequest, Apply
<1>3. jobs' \in [DOMAIN jobs' -> JobType] /\ DOMAIN jobs \subseteq DOMAIN jobs' /\ DOMAIN jobs' \subseteq MaterialKeys
  <2>1. jobs \in [DOMAIN jobs -> JobType] /\ DOMAIN jobs \subseteq MaterialKeys /\ r.key \in MaterialKeys
    BY <1>1 DEF WorldOK, Requests
  <2> QED BY <1>1, <1>2, <2>1, EffectKeeps
<1>4. MaterialOK'
  BY MaterialFrame DEF CInv, wizardVars, buildVars
<1>5. WorldOK' /\ PollsOK' /\ BusyIsAttended'
  BY <1>1, <1>3, ReplyKeeps DEF CInv
<1>6. WatchOK'
  BY <1>1 DEF WatchOK
<1> QED BY <1>4, <1>5, <1>6 DEF CInv

\* The service has read the job for a request, and will act on what it has read.
LEMMA ReadKeeps ==
  ASSUME CInv, NEW r \in sent, ReadFirst(r), UNCHANGED wizardVars
  PROVE  CInv'
<1>1. PICK count \in Nat : count = jobs[r.key].retries
  BY DEF ReadFirst, Accepts, CInv, WorldOK, JobType
<1>2. PICK p : p = [r EXCEPT !.read = count]
  OBVIOUS
<1>3. /\ sent' = (sent \ {r}) \cup {p} /\ jobs' = jobs /\ inbox' = inbox /\ faults' = faults + 1 /\ faults \in Nat
      /\ wizard' = wizard /\ open' = open /\ stage' = stage /\ jobId' = jobId /\ timer' = timer /\ strayed' = strayed
  BY <1>1, <1>2 DEF ReadFirst, wizardVars, buildVars, CInv, WorldOK
<1>4. p \in Requests /\ p.by = r.by /\ p.op = r.op /\ p.key = r.key /\ p.mode = r.mode
  BY <1>2 DEF CInv, WorldOK, Requests
<1>5. faults' \in Nat /\ faults' > 0
  BY <1>3
<1>6. MaterialOK'
  BY MaterialFrame DEF CInv, wizardVars, buildVars
<1>7. WorldOK'
  BY <1>3, <1>4, <1>5 DEF CInv, WorldOK
<1>8. PollsOK'
  BY <1>3, <1>4 DEF CInv, PollsOK, Poll
<1>9. WatchOK'
  BY <1>5 DEF WatchOK
<1>10. BusyIsAttended'
  <2>1. Attended => Attended'
    BY <1>3, <1>4 DEF Attended, Waiting
  <2> QED BY <1>3, <2>1 DEF CInv, BusyIsAttended, BuildBusy
<1> QED BY <1>6, <1>7, <1>8, <1>9, <1>10 DEF CInv

\* A job moves on: one that is over is not under way again.
LEMMA AdvanceKeeps ==
  ASSUME CInv, NEW k \in DOMAIN jobs, JobAdvances(k), UNCHANGED wizardVars
  PROVE  CInv'
<1>1. PICK s \in Outcomes(jobs[k]) : jobs' = [jobs EXCEPT ![k].status = s]
  BY DEF JobAdvances
<1>2. /\ wizard' = wizard /\ open' = open /\ stage' = stage /\ jobId' = jobId /\ timer' = timer
      /\ strayed' = strayed /\ sent' = sent /\ inbox' = inbox /\ faults' = faults
  BY DEF JobAdvances, wizardVars, buildVars
<1>3. jobs \in [DOMAIN jobs -> JobType] /\ DOMAIN jobs \subseteq MaterialKeys
  BY DEF CInv, WorldOK
<1>4. s \in Statuses /\ s \notin {"running", "cancelling"}
  BY <1>1 DEF Outcomes, Statuses
<1>5. [jobs[k] EXCEPT !.status = s] \in JobType /\ [jobs[k] EXCEPT !.status = s].status = s
  BY <1>3, <1>4 DEF JobType
<1>6. jobs' = [jobs EXCEPT ![k] = [jobs[k] EXCEPT !.status = s]]
  BY <1>1
<1>7. jobs' \in [DOMAIN jobs -> JobType] /\ DOMAIN jobs' = DOMAIN jobs
  BY <1>3, <1>5, <1>6
<1>8. \A j \in DOMAIN jobs : jobs'[j].status \in {"running", "cancelling"} => jobs[j].status \in {"running", "cancelling"}
  BY <1>3, <1>4, <1>5, <1>6
<1>9. MaterialOK'
  BY MaterialFrame DEF CInv, wizardVars, buildVars
<1>10. WorldOK'
  BY <1>2, <1>7 DEF CInv, WorldOK
<1>11. PollsOK'
  BY <1>2 DEF CInv, PollsOK, Poll
<1>12. WatchOK'
  <2>1. jobId \in DOMAIN jobs \cup {NoKey}
    BY DEF CInv, WorldOK
  <2>2. WatchOK
    BY DEF CInv
  <2> QED BY <1>2, <1>8, <2>1, <2>2 DEF WatchOK, Unfinished, Starts, Lost, Poll
<1>13. BusyIsAttended'
  BY <1>2 DEF CInv, BusyIsAttended, BuildBusy, Attended, Waiting
<1> QED BY <1>9, <1>10, <1>11, <1>12, <1>13 DEF CInv

-----------------------------------------------------------------------------
\* An answer is taken out of the inbox: the others keep their order.
LEMMA TakenOut ==
  ASSUME NEW S, NEW s \in Seq(S), NEW n \in 1..Len(s)
  PROVE  /\ RemoveAt(s, n) \in Seq(S) /\ Len(RemoveAt(s, n)) = Len(s) - 1
         /\ \A i \in 1..(Len(s) - 1) : RemoveAt(s, n)[i] = IF i < n THEN s[i] ELSE s[i + 1]
<1>1. Len(s) \in Nat /\ n \in Nat /\ 1 <= n /\ n <= Len(s) /\ DOMAIN s = 1..Len(s)
  BY LenProperties
<1>2. /\ SubSeq(s, 1, n - 1) \in Seq(S) /\ Len(SubSeq(s, 1, n - 1)) = n - 1
      /\ \A i \in 1..(n - 1) : SubSeq(s, 1, n - 1)[i] = s[i]
  BY <1>1
<1>3. PICK c \in Int, d \in Int : c = n + 1 /\ d = Len(s) /\ \A i \in c..d : s[i] \in S
  <2>1. n + 1 \in Int /\ Len(s) \in Int /\ \A i \in (n + 1)..Len(s) : i \in 1..Len(s)
    BY <1>1
  <2>2. \A i \in (n + 1)..Len(s) : s[i] \in S
    BY <2>1, ElementOfSeq
  <2> QED BY <2>1, <2>2
<1>4. /\ SubSeq(s, c, d) \in Seq(S) /\ Len(SubSeq(s, c, d)) = (IF c <= d THEN d - c + 1 ELSE 0)
      /\ \A i \in 1..(d - c + 1) : SubSeq(s, c, d)[i] = s[c + i - 1]
  BY <1>3, SubSeqProperties
<1>5. PICK a \in Seq(S), b \in Seq(S) : a = SubSeq(s, 1, n - 1) /\ b = SubSeq(s, n + 1, Len(s))
  BY <1>2, <1>3, <1>4
<1>6. /\ Len(a) = n - 1 /\ \A i \in 1..(n - 1) : a[i] = s[i]
      /\ Len(b) = Len(s) - n /\ \A i \in 1..(Len(s) - n) : b[i] = s[n + i]
  <2>1. Len(a) = n - 1 /\ \A i \in 1..(n - 1) : a[i] = s[i]
    BY <1>2, <1>5
  <2>2. b = SubSeq(s, c, d)
    BY <1>3, <1>5
  <2>3. c = n + 1 /\ d = Len(s) /\ Len(s) \in Int /\ n \in Int /\ n <= Len(s)
    BY <1>1, <1>3
  <2>4. d - c + 1 = Len(s) - n /\ (IF c <= d THEN d - c + 1 ELSE 0) = Len(s) - n
    <3>1. \A m \in Int, k \in Int : k <= m =>
            m - (k + 1) + 1 = m - k /\ (IF k + 1 <= m THEN m - (k + 1) + 1 ELSE 0) = m - k
      OBVIOUS
    <3> QED BY <2>3, <3>1
  <2>5. Len(b) = Len(s) - n
    BY <1>4, <2>2, <2>4
  <2>6. ASSUME NEW i \in 1..(Len(s) - n) PROVE b[i] = s[n + i]
    <3>1. i \in 1..(d - c + 1) /\ c + i - 1 = n + i
      <4>1. i \in 1..(d - c + 1)
        BY <2>4
      <4>2. i \in Int
        BY <2>3
      <4>3. n + 1 + i - 1 = n + i
        BY <2>3, <4>2
      <4> QED BY <2>3, <4>1, <4>3
    <3>2. SubSeq(s, c, d)[i] = s[c + i - 1]
      BY <1>4, <3>1
    <3> QED BY <2>2, <3>1, <3>2
  <2> QED BY <2>1, <2>5, <2>6
<1>7. /\ a \o b \in Seq(S) /\ Len(a \o b) = Len(a) + Len(b)
      /\ \A i \in 1..(Len(a) + Len(b)) : (a \o b)[i] = IF i <= Len(a) THEN a[i] ELSE b[i - Len(a)]
  BY ConcatProperties
<1>8. ASSUME NEW i \in 1..(Len(s) - 1)
      PROVE  (a \o b)[i] = IF i < n THEN s[i] ELSE s[i + 1]
  <2>1. i \in 1..(Len(a) + Len(b)) /\ (i < n => i \in 1..(n - 1) /\ i <= Len(a))
    BY <1>1, <1>6, <1>8
  <2>2. ~(i < n) => i - Len(a) \in 1..(Len(s) - n) /\ ~(i <= Len(a)) /\ n + (i - Len(a)) = i + 1
    BY <1>1, <1>6, <1>8
  <2>3. ~(i < n) => b[i - Len(a)] = s[i + 1]
    BY <1>6, <2>2
  <2> QED BY <1>6, <1>7, <2>1, <2>2, <2>3
<1>9. RemoveAt(s, n) = a \o b
  BY <1>5 DEF RemoveAt
<1>10. Len(a \o b) = Len(s) - 1
  BY <1>1, <1>6, <1>7
<1> QED BY <1>7, <1>8, <1>9, <1>10

\* The answers that are left, and where they were.
LEMMA ConsumeMoves ==
  ASSUME WorldOK, NEW n \in DOMAIN inbox, inbox' = RemoveAt(inbox, n)
  PROVE  /\ inbox' \in Seq(Replies) /\ DOMAIN inbox' \subseteq Nat /\ DOMAIN inbox \subseteq Nat
         /\ \A i \in DOMAIN inbox' :
              /\ i < n => i \in DOMAIN inbox /\ inbox'[i] = inbox[i]
              /\ n <= i => i + 1 \in DOMAIN inbox /\ inbox'[i] = inbox[i + 1]
         /\ \A i \in DOMAIN inbox :
              /\ i < n => i \in DOMAIN inbox' /\ inbox'[i] = inbox[i]
              /\ n < i => i - 1 \in DOMAIN inbox' /\ inbox'[i - 1] = inbox[i]
         /\ ToSet(inbox') \subseteq ToSet(inbox) /\ inbox[n] \in ToSet(inbox)
         /\ \A q \in ToSet(inbox) : q # inbox[n] => q \in ToSet(inbox')
<1>1. inbox \in Seq(Replies) /\ DOMAIN inbox = 1..Len(inbox) /\ Len(inbox) \in Nat
  BY InboxIsTyped DEF WorldOK
<1>2. /\ inbox' \in Seq(Replies) /\ Len(inbox') = Len(inbox) - 1
      /\ \A i \in 1..(Len(inbox) - 1) : inbox'[i] = IF i < n THEN inbox[i] ELSE inbox[i + 1]
  <2>1. PICK s \in Seq(Replies) : s = inbox
    BY <1>1
  <2>2. n \in 1..Len(s)
    BY <1>1, <2>1
  <2> QED BY <2>1, <2>2, TakenOut
<1>3. DOMAIN inbox' = 1..(Len(inbox) - 1)
  BY <1>2, LenProperties
<1>4. \A i \in DOMAIN inbox' :
        /\ i < n => i \in DOMAIN inbox /\ inbox'[i] = inbox[i]
        /\ n <= i => i + 1 \in DOMAIN inbox /\ inbox'[i] = inbox[i + 1]
  BY <1>1, <1>2, <1>3
<1>5. \A i \in DOMAIN inbox :
        /\ i < n => i \in DOMAIN inbox' /\ inbox'[i] = inbox[i]
        /\ n < i => i - 1 \in DOMAIN inbox' /\ inbox'[i - 1] = inbox[i]
  BY <1>1, <1>2, <1>3
<1>6. DOMAIN inbox' \subseteq Nat /\ DOMAIN inbox \subseteq Nat /\ n \in Nat
  BY <1>1, <1>3
<1>7. ToSet(inbox') \subseteq ToSet(inbox) /\ inbox[n] \in ToSet(inbox)
  BY <1>4, <1>6 DEF ToSet
<1>8. \A q \in ToSet(inbox) : q # inbox[n] => q \in ToSet(inbox')
  <2>1. ASSUME NEW i \in DOMAIN inbox, inbox[i] # inbox[n] PROVE inbox[i] \in ToSet(inbox')
    <3>1. CASE i < n
      BY <1>5, <3>1 DEF ToSet
    <3>2. CASE n < i
      BY <1>5, <3>2 DEF ToSet
    <3> QED BY <1>6, <2>1, <3>1, <3>2
  <2> QED BY <2>1 DEF ToSet
<1> QED BY <1>2, <1>4, <1>5, <1>6, <1>7, <1>8

\* The five things an answer may do: it starts the polling, is a failure, ends the polling, lets
\* it go on, or is of no interest.
OnScreen(r, stages) == IF Here(r) THEN stage' \in stages ELSE stage' = stage
Over == {"failed", "ready", "cancelled", "cleanup"}
Started(r) == /\ r.key \in DOMAIN jobs /\ OnScreen(r, BuildStages)
              /\ jobId' \in {jobId, r.key} /\ (~Here(r) => jobId' = jobId)
              /\ sent' = sent \cup {Request(r.by, "poll", r.key)} /\ timer' = [timer EXCEPT ![r.by] = r.key]
GaveUp(r)  == /\ r.op \in {"create", "retry"} /\ (Lost(r) \/ r.ans = "refused") /\ OnScreen(r, Over)
              /\ jobId' = jobId /\ sent' = sent /\ timer' = timer
Ended(r)   == /\ r.op = "poll" /\ (Lost(r) \/ r.ans \in TerminalStatuses) /\ OnScreen(r, Over)
              /\ jobId' = jobId /\ timer' = [timer EXCEPT ![r.by] = NoKey]
              /\ sent' = sent \/ (sent' = sent \cup {Request(r.by, "cleanup", r.key)} /\ r.key \in DOMAIN jobs)
WentOn(r)  == /\ r.op = "poll" /\ OnScreen(r, BuildStages)
              /\ jobId' = jobId /\ sent' = sent /\ timer' = timer
Ignored(r) == r.op = "cleanup" /\ stage' = stage /\ jobId' = jobId /\ sent' = sent /\ timer' = timer

\* An answer does one of the five, and is taken out of the inbox.
LEMMA AnswerOutcomes ==
  ASSUME CInv, NEW n \in DOMAIN inbox, WizardAnswer(n), NEW r \in Replies, r = inbox[n]
  PROVE  /\ Started(r) \/ GaveUp(r) \/ Ended(r) \/ WentOn(r) \/ Ignored(r)
         /\ inbox' = RemoveAt(inbox, n) /\ jobs' = jobs /\ faults' = faults /\ wizard' = wizard /\ open' = open
<1>1. /\ r.op \in {"create", "retry", "cancel", "cleanup", "poll"} /\ r.ans \in Statuses \cup {"refused", "lost"}
      /\ r.op # "create" \/ r.ans # "lost" => r.key \in DOMAIN jobs
      /\ r.ans = "refused" => r.op # "poll"
      /\ stage \in BuildStages
  BY DEF CInv, WorldOK, Replies
<1>2. /\ Accepted(n, r) \/ Cancelled(n, r) \/ Polled(n, r) \/ CleanedUp(n, r)
      /\ wizard' = wizard /\ open' = open
  BY DEF WizardAnswer
<1>3. BuildFailed \in Over
  BY DEF BuildFailed, Over
<1>4. ASSUME r.ans \in Statuses PROVE StageFromJobStatus(r.ans) \in BuildStages
  BY <1>4 DEF StageFromJobStatus, BuildStages, Statuses
<1>5. Over \subseteq BuildStages
  BY DEF Over, BuildStages
<1>6. CASE Accepted(n, r)
  <2>1. CASE Lost(r) \/ r.ans = "refused"
    <3>1. /\ r.op \in {"create", "retry"} /\ Show(r, BuildFailed) /\ Consume(n, {})
          /\ jobId' = jobId /\ timer' = timer
      BY <1>6, <2>1 DEF Accepted
    <3>2. OnScreen(r, Over)
      BY <1>3, <3>1 DEF Show, OnScreen
    <3> QED BY <1>2, <2>1, <3>1, <3>2 DEF Consume, GaveUp
  <2>2. CASE ~(Lost(r) \/ r.ans = "refused")
    <3>1. r.ans \in Statuses /\ r.ans # "lost"
      BY <1>1, <2>2 DEF Lost
    <3>2. OnScreen(r, BuildStages)
      BY <1>4, <1>6, <2>2, <3>1 DEF Accepted, Show, OnScreen
    <3>3. /\ jobId' \in {jobId, r.key} /\ (~Here(r) => jobId' = jobId)
      BY <1>6, <2>2 DEF Accepted
    <3>4. StartPolling(n, r)
      BY <1>6, <2>2 DEF Accepted
    <3> QED BY <1>1, <1>2, <3>1, <3>2, <3>3, <3>4 DEF StartPolling, Consume, Started
  <2> QED BY <1>2, <2>1, <2>2 DEF Accepted, StartPolling, Consume
<1>7. CASE Cancelled(n, r)
  <2>1. stage' \in BuildStages /\ stage' = stage
    BY <1>1, <1>7 DEF Cancelled
  <2> QED BY <1>1, <1>2, <1>7, <2>1 DEF Cancelled, StartPolling, Consume, Started, OnScreen
<1>8. CASE Polled(n, r)
  <2>1. /\ r.op = "poll" /\ jobId' = jobId /\ r.key \in DOMAIN jobs
        /\ sent' = sent \cup (IF r.ans = "cancelled" THEN {Request(r.by, "cleanup", r.key)} ELSE {})
        /\ inbox' = RemoveAt(inbox, n) /\ jobs' = jobs /\ faults' = faults
    BY <1>1, <1>8 DEF Polled, Consume
  <2>2. CASE Lost(r) \/ r.ans \in TerminalStatuses
    <3>1. timer' = [timer EXCEPT ![r.by] = NoKey]
      BY <1>8, <2>2 DEF Polled, StopPolling
    <3>2. OnScreen(r, Over)
      <4>1. CASE Lost(r) \/ r.ans = "failed"
        BY <1>3, <1>8, <4>1 DEF Polled, Show, OnScreen
      <4>2. CASE ~(Lost(r) \/ r.ans = "failed")
        <5>1. Show(r, StageFromJobStatus(r.ans))
          BY <1>8, <4>2 DEF Polled
        <5>2. StageFromJobStatus(r.ans) \in Over
          BY <2>2, <4>2 DEF TerminalStatuses, StageFromJobStatus, Over
        <5> QED BY <5>1, <5>2 DEF Show, OnScreen
      <4> QED BY <4>1, <4>2
    <3> QED BY <1>2, <2>1, <2>2, <3>1, <3>2 DEF Ended
  <2>3. CASE ~(Lost(r) \/ r.ans \in TerminalStatuses)
    <3>1. timer' = timer
      BY <1>8, <2>3 DEF Polled
    <3>2. r.ans # "cancelled" /\ r.ans # "failed" /\ r.ans \in Statuses
      BY <1>1, <2>1, <2>3 DEF TerminalStatuses, Lost
    <3>3. Show(r, StageFromJobStatus(r.ans))
      BY <1>8, <2>3, <3>2 DEF Polled
    <3>4. OnScreen(r, BuildStages)
      BY <1>4, <3>2, <3>3 DEF Show, OnScreen
    <3>5. sent' = sent
      BY <2>1, <3>2
    <3> QED BY <1>2, <2>1, <3>1, <3>4, <3>5 DEF WentOn
  <2> QED BY <2>2, <2>3
<1>9. CASE CleanedUp(n, r)
  BY <1>2, <1>9 DEF CleanedUp, Consume, Ignored
<1> QED BY <1>2, <1>6, <1>7, <1>8, <1>9

\* After an answer the requests and the answers name jobs that are there.
LEMMA AnswerWorld ==
  ASSUME CInv, NEW n \in DOMAIN inbox, WizardAnswer(n), NEW r \in Replies, r = inbox[n]
  PROVE  WorldOK'
<1>1. /\ Started(r) \/ GaveUp(r) \/ Ended(r) \/ WentOn(r) \/ Ignored(r)
      /\ inbox' = RemoveAt(inbox, n) /\ jobs' = jobs /\ faults' = faults /\ wizard' = wizard /\ open' = open
  BY AnswerOutcomes
<1>2. /\ WorldOK /\ r.by \in Wizards /\ r.by <= wizard /\ stage \in BuildStages /\ Over \subseteq BuildStages
      /\ DOMAIN jobs \subseteq MaterialKeys
  BY DEF CInv, WorldOK, Replies, Over, BuildStages
<1>3. stage' \in BuildStages /\ jobId' \in DOMAIN jobs \cup {NoKey}
  BY <1>1, <1>2 DEF Started, GaveUp, Ended, WentOn, Ignored, OnScreen, WorldOK
<1>4. /\ timer' \in [Wizards -> DOMAIN jobs \cup {NoKey}]
      /\ \A w \in Wizards : wizard < w => timer'[w] = NoKey
  <2>1. timer' = timer \/ \E k \in DOMAIN jobs \cup {NoKey} : timer' = [timer EXCEPT ![r.by] = k]
    BY <1>1 DEF Started, GaveUp, Ended, WentOn, Ignored
  <2>2. \A w \in Wizards : wizard < w => w # r.by
    BY <1>2, KeysArePlaces DEF WorldOK, Wizards
  <2> QED BY <1>2, <2>1, <2>2 DEF WorldOK
<1>5. /\ sent' \in SUBSET Requests
      /\ \A q \in sent' : q.by <= wizard /\ (IF q.op = "create" THEN q.mode # "none" ELSE q.key \in DOMAIN jobs)
      /\ \A q \in sent' : q.read # NotRead => faults > 0
  <2>1. \/ sent' = sent
        \/ r.key \in DOMAIN jobs /\ \E op \in {"poll", "cleanup"} : sent' = sent \cup {Request(r.by, op, r.key)}
    BY <1>1 DEF Started, GaveUp, Ended, WentOn, Ignored
  <2>2. CASE sent' = sent
    BY <1>2, <2>2 DEF WorldOK
  <2>3. ASSUME r.key \in DOMAIN jobs, NEW op \in {"poll", "cleanup"}, sent' = sent \cup {Request(r.by, op, r.key)}
        PROVE  /\ sent' \in SUBSET Requests
               /\ \A q \in sent' :
                    q.by <= wizard /\ (IF q.op = "create" THEN q.mode # "none" ELSE q.key \in DOMAIN jobs)
               /\ \A q \in sent' : q.read # NotRead => faults > 0
    <3>1. /\ Request(r.by, op, r.key) \in Requests /\ Request(r.by, op, r.key).by = r.by
          /\ Request(r.by, op, r.key).op = op /\ Request(r.by, op, r.key).key = r.key
          /\ Request(r.by, op, r.key).read = NotRead
      BY <1>2, <2>3 DEF Request, Requests
    <3> QED BY <1>2, <2>3, <3>1 DEF WorldOK
  <2> QED BY <2>1, <2>2, <2>3
<1>6. /\ inbox' \in Seq(Replies)
      /\ \A m \in DOMAIN inbox' :
           /\ inbox'[m].by <= wizard
           /\ inbox'[m].op # "create" \/ inbox'[m].ans # "lost" => inbox'[m].key \in DOMAIN jobs
           /\ inbox'[m].ans = "lost" => faults > 0
           /\ inbox'[m].ans = "refused" => inbox'[m].op # "poll"
  <2>1. \A m \in DOMAIN inbox' : \E i \in DOMAIN inbox : inbox'[m] = inbox[i]
    <3>1. /\ DOMAIN inbox' \subseteq Nat /\ n \in Nat
          /\ \A i \in DOMAIN inbox' :
               /\ i < n => i \in DOMAIN inbox /\ inbox'[i] = inbox[i]
               /\ n <= i => i + 1 \in DOMAIN inbox /\ inbox'[i] = inbox[i + 1]
      BY <1>1, <1>2, ConsumeMoves
    <3>2. \A i \in DOMAIN inbox' : i < n \/ n <= i
      BY <3>1
    <3> QED BY <3>1, <3>2
  <2>2. inbox' \in Seq(Replies)
    BY <1>1, <1>2, ConsumeMoves
  <2> QED BY <1>2, <2>1, <2>2 DEF WorldOK
<1>7. strayed' \in BOOLEAN
  <2>1. Strays(n, r) /\ strayed \in BOOLEAN
    BY <1>2 DEF WizardAnswer, WorldOK
  <2> QED BY <2>1 DEF Strays
<1> QED BY <1>1, <1>2, <1>3, <1>4, <1>5, <1>6, <1>7 DEF WorldOK

\* An answer that would show an old state strays; otherwise the polls are those of one job.
LEMMA AnswerPolls ==
  ASSUME CInv, NEW n \in DOMAIN inbox, WizardAnswer(n), NEW r \in Replies, r = inbox[n]
  PROVE  PollsOK'
<1>1. /\ Started(r) \/ GaveUp(r) \/ Ended(r) \/ WentOn(r) \/ Ignored(r)
      /\ inbox' = RemoveAt(inbox, n) /\ jobs' = jobs /\ faults' = faults /\ wizard' = wizard /\ open' = open
  BY AnswerOutcomes
<1>2. /\ WorldOK /\ PollsOK /\ r.by \in Wizards /\ Strays(n, r)
      /\ (open => wizard \in Wizards) /\ timer \in [Wizards -> DOMAIN jobs \cup {NoKey}]
  BY DEF CInv, WorldOK, Replies, WizardAnswer
<1>3. SUFFICES ASSUME open, ~strayed'
      PROVE  /\ timer'[wizard] \in {NoKey, jobId'}
             /\ \A q \in sent' \cup ToSet(inbox') : Poll(q, wizard) => q.key = timer'[wizard]
             /\ \A q \in sent' : q.op = "retry" => q.by = wizard
  BY <1>1 DEF PollsOK, Poll
<1>4. /\ ~strayed
      /\ ~(Here(r) /\ timer'[r.by] \notin {NoKey, jobId'})
      /\ timer'[r.by] # timer[r.by] =>
           \A q \in sent' \cup ToSet(inbox') : Poll(q, r.by) => q.key = timer'[r.by]
  BY <1>2, <1>3 DEF Strays
<1>5. /\ timer[wizard] \in {NoKey, jobId}
      /\ \A q \in sent \cup ToSet(inbox) : Poll(q, wizard) => q.key = timer[wizard]
      /\ \A q \in sent : q.op = "retry" => q.by = wizard
  BY <1>2, <1>3, <1>4 DEF PollsOK
<1>6. ToSet(inbox') \subseteq ToSet(inbox)
  BY <1>1, <1>2, ConsumeMoves
<1>7. \A q \in sent' : q \in sent \/ (q.by = r.by /\ q.op = "cleanup")
                   \/ (q.by = r.by /\ q.op = "poll" /\ q.key = r.key /\ timer' = [timer EXCEPT ![r.by] = r.key])
  BY <1>1 DEF Started, GaveUp, Ended, WentOn, Ignored, Request
<1>8. \A q \in sent' : q.op = "retry" => q.by = wizard
  BY <1>5, <1>7
<1>9. CASE r.by # wizard
  <2>1. timer'[wizard] = timer[wizard] /\ jobId' = jobId
    BY <1>1, <1>2, <1>3, <1>9 DEF Started, GaveUp, Ended, WentOn, Ignored, Here
  <2>2. \A q \in sent' : Poll(q, wizard) => q \in sent
    BY <1>7, <1>9 DEF Poll
  <2> QED BY <1>5, <1>6, <1>8, <2>1, <2>2
<1>10. CASE r.by = wizard
  <2>1. timer'[wizard] \in {NoKey, jobId'}
    BY <1>3, <1>4, <1>10 DEF Here
  <2>2. ASSUME NEW q \in sent' \cup ToSet(inbox'), Poll(q, wizard) PROVE q.key = timer'[wizard]
    <3>1. CASE timer'[wizard] # timer[wizard]
      BY <1>4, <1>10, <2>2, <3>1
    <3>2. CASE timer'[wizard] = timer[wizard]
      <4>1. CASE q \in sent \cup ToSet(inbox)
        BY <1>5, <2>2, <3>2, <4>1
      <4>2. CASE q \in sent' /\ q \notin sent
        <5>1. q.key = r.key /\ timer' = [timer EXCEPT ![r.by] = r.key]
          BY <1>7, <2>2, <4>2 DEF Poll
        <5> QED BY <1>2, <1>3, <1>10, <5>1
      <4> QED BY <1>6, <2>2, <4>1, <4>2
    <3> QED BY <3>1, <3>2
  <2> QED BY <1>8, <2>1, <2>2
<1> QED BY <1>9, <1>10

\* What is watched is watched still, when the answer neither starts the polling nor overtakes another.
LEMMA StillWatched ==
  ASSUME WorldOK, NEW n \in DOMAIN inbox, NEW r \in Replies, r = inbox[n], inbox' = RemoveAt(inbox, n),
         sent \subseteq sent', wizard' = wizard, timer'[wizard] = timer[wizard],
         ~Starts(r), Poll(r, wizard) => \A m \in DOMAIN inbox : m < n => ~Poll(inbox[m], wizard),
         \/ \E q \in sent : q.by = wizard /\ q.op = "cancel"
         \/ \E m \in DOMAIN inbox : Starts(inbox[m])
         \/ /\ timer[wizard] # NoKey
            /\ \A m \in DOMAIN inbox : Poll(inbox[m], wizard) /\ inbox[m].ans \in TerminalStatuses =>
                 (\E q \in sent : Poll(q, wizard)) \/ \E k \in DOMAIN inbox : m < k /\ Poll(inbox[k], wizard)
  PROVE  \/ \E q \in sent' : q.by = wizard /\ q.op = "cancel"
         \/ \E m \in DOMAIN inbox' : Starts(inbox'[m])
         \/ /\ timer'[wizard] # NoKey
            /\ \A m \in DOMAIN inbox' : Poll(inbox'[m], wizard) /\ inbox'[m].ans \in TerminalStatuses =>
                 (\E q \in sent' : Poll(q, wizard)) \/ \E k \in DOMAIN inbox' : m < k /\ Poll(inbox'[k], wizard)
<1>1. /\ DOMAIN inbox' \subseteq Nat /\ DOMAIN inbox \subseteq Nat /\ n \in Nat
      /\ \A i \in DOMAIN inbox' :
           /\ i < n => i \in DOMAIN inbox /\ inbox'[i] = inbox[i]
           /\ n <= i => i + 1 \in DOMAIN inbox /\ inbox'[i] = inbox[i + 1]
      /\ \A i \in DOMAIN inbox :
           /\ i < n => i \in DOMAIN inbox' /\ inbox'[i] = inbox[i]
           /\ n < i => i - 1 \in DOMAIN inbox' /\ inbox'[i - 1] = inbox[i]
  BY ConsumeMoves
<1>2. timer'[wizard] = timer[wizard]
  OBVIOUS
<1>3. CASE \E q \in sent : q.by = wizard /\ q.op = "cancel"
  BY <1>3
<1>4. CASE \E m \in DOMAIN inbox : Starts(inbox[m])
  <2>1. PICK m \in DOMAIN inbox : Starts(inbox[m])
    BY <1>4
  <2>2. m # n /\ (m < n \/ n < m)
    BY <1>1, <2>1
  <2> QED BY <1>1, <2>1, <2>2
<1>5. CASE /\ timer[wizard] # NoKey
           /\ \A m \in DOMAIN inbox : Poll(inbox[m], wizard) /\ inbox[m].ans \in TerminalStatuses =>
                (\E q \in sent : Poll(q, wizard)) \/ \E k \in DOMAIN inbox : m < k /\ Poll(inbox[k], wizard)
  <2>1. ASSUME NEW m \in DOMAIN inbox', Poll(inbox'[m], wizard), inbox'[m].ans \in TerminalStatuses
        PROVE  (\E q \in sent' : Poll(q, wizard)) \/ \E k \in DOMAIN inbox' : m < k /\ Poll(inbox'[k], wizard)
    <3>1. PICK i \in DOMAIN inbox : inbox'[m] = inbox[i] /\ ((m < n /\ i = m) \/ (n <= m /\ i = m + 1))
      <4>1. m < n \/ n <= m
        BY <1>1
      <4>2. CASE m < n
        BY <1>1, <4>2
      <4>3. CASE n <= m
        BY <1>1, <4>3
      <4> QED BY <4>1, <4>2, <4>3
    <3>2. (\E q \in sent : Poll(q, wizard)) \/ \E k \in DOMAIN inbox : i < k /\ Poll(inbox[k], wizard)
      BY <1>5, <2>1, <3>1
    <3>3. CASE \E k \in DOMAIN inbox : i < k /\ Poll(inbox[k], wizard)
      <4>1. PICK k \in DOMAIN inbox : i < k /\ Poll(inbox[k], wizard)
        BY <3>3
      <4>2. CASE Poll(r, wizard)
        <5>1. n < k /\ m < k - 1
          <6>1. ~(i < n)
            BY <2>1, <3>1, <4>2
          <6> QED BY <1>1, <3>1, <4>1, <6>1
        <5> QED BY <1>1, <4>1, <5>1
      <4>3. CASE ~Poll(r, wizard)
        <5>1. k # n
          BY <4>1, <4>3
        <5>2. CASE k < n
          <6>1. m < k
            BY <1>1, <3>1, <4>1, <5>2
          <6> QED BY <1>1, <4>1, <5>2, <6>1
        <5>3. CASE n < k
          <6>1. m < k - 1
            BY <1>1, <3>1, <4>1, <5>3
          <6> QED BY <1>1, <4>1, <5>3, <6>1
        <5> QED BY <1>1, <5>1, <5>2, <5>3
      <4> QED BY <4>2, <4>3
    <3> QED BY <3>2, <3>3
  <2> QED BY <1>2, <1>5, <2>1
<1> QED BY <1>3, <1>4, <1>5

\* After an answer the job on screen is still watched, or an answer has strayed.
LEMMA AnswerWatch ==
  ASSUME CInv, NEW n \in DOMAIN inbox, WizardAnswer(n), NEW r \in Replies, r = inbox[n]
  PROVE  WatchOK'
<1>1. /\ Started(r) \/ GaveUp(r) \/ Ended(r) \/ WentOn(r) \/ Ignored(r)
      /\ inbox' = RemoveAt(inbox, n) /\ jobs' = jobs /\ faults' = faults /\ wizard' = wizard /\ open' = open
  BY AnswerOutcomes
<1>2. /\ WorldOK /\ PollsOK /\ WatchOK /\ r.by \in Wizards /\ Strays(n, r)
      /\ (open => wizard \in Wizards) /\ timer \in [Wizards -> DOMAIN jobs \cup {NoKey}]
      /\ DOMAIN jobs \subseteq MaterialKeys /\ (r.ans = "lost" => faults > 0)
      /\ r.op # "create" => r.key \in DOMAIN jobs
  BY DEF CInv, WorldOK, Replies, WizardAnswer
<1>3. SUFFICES ASSUME open, ~strayed', faults = 0, jobId' # NoKey, Unfinished(jobId')
      PROVE  \/ \E q \in sent' : q.by = wizard /\ q.op = "cancel"
             \/ \E m \in DOMAIN inbox' : Starts(inbox'[m])
             \/ /\ timer'[wizard] # NoKey
                /\ \A m \in DOMAIN inbox' : Poll(inbox'[m], wizard) /\ inbox'[m].ans \in TerminalStatuses =>
                     \/ \E q \in sent' : Poll(q, wizard)
                     \/ \E k \in DOMAIN inbox' : m < k /\ Poll(inbox'[k], wizard)
  BY <1>1 DEF WatchOK, Starts, Lost, Poll, Unfinished
<1>4. /\ \A m \in 1..(n - 1) : ~Poll(inbox[m], r.by)
      /\ timer'[r.by] # timer[r.by] =>
           \A q \in sent' \cup ToSet(inbox') : Poll(q, r.by) => q.key = timer'[r.by]
  BY <1>2, <1>3 DEF Strays, Lost
<1>5. ~strayed /\ r.ans # "denied"
  BY <1>2, <1>3 DEF Strays, Replies, Statuses
<1>6. sent \subseteq sent'
  BY <1>1 DEF Started, GaveUp, Ended, WentOn, Ignored
<1>7. CASE r.by = wizard /\ Started(r)
  <2>1. timer'[wizard] = r.key /\ r.key # NoKey
    BY <1>2, <1>7, KeysArePlaces DEF Started
  <2>2. Request(r.by, "poll", r.key) \in sent' /\ Poll(Request(r.by, "poll", r.key), wizard)
    BY <1>7 DEF Started, Request, Poll
  <2> QED BY <2>1, <2>2
<1>8. CASE ~(r.by = wizard /\ Started(r))
  <2>1. jobId' = jobId
    BY <1>1, <1>8 DEF Started, GaveUp, Ended, WentOn, Ignored, Here
  <2>2. \/ \E q \in sent : q.by = wizard /\ q.op = "cancel"
        \/ \E m \in DOMAIN inbox : Starts(inbox[m])
        \/ /\ timer[wizard] # NoKey
           /\ \A m \in DOMAIN inbox : Poll(inbox[m], wizard) /\ inbox[m].ans \in TerminalStatuses =>
                (\E q \in sent : Poll(q, wizard)) \/ \E k \in DOMAIN inbox : m < k /\ Poll(inbox[k], wizard)
    BY <1>2, <1>3, <1>5, <2>1 DEF WatchOK
  <2>3. DOMAIN inbox = 1..Len(inbox) /\ Len(inbox) \in Nat
    BY <1>2, InboxIsTyped
  <2>4. Poll(r, wizard) => \A m \in DOMAIN inbox : m < n => ~Poll(inbox[m], wizard)
    BY <1>4, <2>3 DEF Poll
  <2>5. CASE r.by # wizard
    <3>1. timer'[wizard] = timer[wizard] /\ ~Starts(r) /\ ~Poll(r, wizard)
      BY <1>1, <1>2, <1>3, <2>5 DEF Started, GaveUp, Ended, WentOn, Ignored, Starts, Poll
    <3> QED BY <1>1, <1>2, <1>6, <2>2, <2>4, <3>1, StillWatched
  <2>6. CASE r.by = wizard /\ (GaveUp(r) \/ WentOn(r) \/ Ignored(r))
    <3>1. timer'[wizard] = timer[wizard] /\ ~Starts(r)
      BY <2>6 DEF GaveUp, WentOn, Ignored, Starts
    <3> QED BY <1>1, <1>2, <1>6, <2>2, <2>4, <3>1, StillWatched
  <2>7. CASE r.by = wizard /\ Ended(r)
    <3>1. r.op = "poll" /\ r.ans \in TerminalStatuses /\ timer'[wizard] = NoKey /\ r.key # NoKey
      BY <1>2, <1>3, <1>5, <2>7, KeysArePlaces DEF Ended, Lost
    <3>2. r \in ToSet(inbox) /\ timer[wizard] = r.key
      <4>1. r \in ToSet(inbox)
        BY <1>1, <1>2, ConsumeMoves
      <4> QED BY <1>2, <1>3, <1>5, <2>7, <3>1, <4>1 DEF PollsOK, Poll
    <3>3. \A q \in sent' \cup ToSet(inbox') : ~Poll(q, wizard)
      <4>1. \A q \in sent \cup ToSet(inbox) : Poll(q, wizard) => q.key # NoKey
        BY <1>2, <1>3, <1>5, <3>1, <3>2 DEF PollsOK
      <4>2. ToSet(inbox') \subseteq ToSet(inbox)
        BY <1>1, <1>2, ConsumeMoves
      <4>3. \A q \in sent' : Poll(q, wizard) => q \in sent
        BY <2>7 DEF Ended, Request, Poll
      <4> QED BY <1>4, <2>7, <3>1, <3>2, <4>1, <4>2, <4>3
    <3>4. /\ \A i \in DOMAIN inbox :
               /\ i < n => i \in DOMAIN inbox' /\ inbox'[i] = inbox[i]
               /\ n < i => i - 1 \in DOMAIN inbox' /\ inbox'[i - 1] = inbox[i]
          /\ ToSet(inbox') = {inbox'[i] : i \in DOMAIN inbox'} /\ DOMAIN inbox \subseteq Nat /\ n \in Nat
      BY <1>1, <1>2, ConsumeMoves DEF ToSet
    <3>5. ~((\E q \in sent : Poll(q, wizard)) \/ \E k \in DOMAIN inbox : n < k /\ Poll(inbox[k], wizard))
      BY <1>6, <3>3, <3>4
    <3>6. CASE \E m \in DOMAIN inbox : Starts(inbox[m])
      <4>1. PICK m \in DOMAIN inbox : Starts(inbox[m])
        BY <3>6
      <4>2. m # n
        BY <3>1, <4>1 DEF Starts
      <4> QED BY <3>4, <4>1, <4>2
    <3> QED BY <1>6, <2>2, <2>7, <3>1, <3>5, <3>6 DEF Poll
  <2> QED BY <1>1, <1>8, <2>5, <2>6, <2>7
<1> QED BY <1>7, <1>8

\* After an answer the wizard waits for something still, or does not look busy.
LEMMA AnswerBusy ==
  ASSUME CInv, NEW n \in DOMAIN inbox, WizardAnswer(n), NEW r \in Replies, r = inbox[n]
  PROVE  BusyIsAttended'
<1>1. /\ Started(r) \/ GaveUp(r) \/ Ended(r) \/ WentOn(r) \/ Ignored(r)
      /\ inbox' = RemoveAt(inbox, n) /\ jobs' = jobs /\ faults' = faults /\ wizard' = wizard /\ open' = open
  BY AnswerOutcomes
<1>2. /\ WorldOK /\ PollsOK /\ BusyIsAttended /\ r.by \in Wizards /\ Strays(n, r)
      /\ (open => wizard \in Wizards) /\ timer \in [Wizards -> DOMAIN jobs \cup {NoKey}]
      /\ DOMAIN jobs \subseteq MaterialKeys /\ (r.op # "create" => r.key \in DOMAIN jobs)
  BY DEF CInv, WorldOK, Replies, WizardAnswer
<1>3. SUFFICES ASSUME open, ~strayed', BuildBusy', stage' # "cleanup"
      PROVE  Attended'
  BY <1>1 DEF BusyIsAttended
<1>4. ~strayed
  BY <1>2, <1>3 DEF Strays
<1>5. sent \subseteq sent' /\ \A q \in ToSet(inbox) : q # r => q \in ToSet(inbox')
  <2>1. sent \subseteq sent'
    BY <1>1 DEF Started, GaveUp, Ended, WentOn, Ignored
  <2> QED BY <1>1, <1>2, <2>1, ConsumeMoves
<1>6. ASSUME r.by = wizard /\ r.op \in {"create", "retry", "cancel", "poll"} =>
               timer'[wizard] # NoKey,
             stage' = stage \/ timer'[wizard] # NoKey, timer'[wizard] = timer[wizard] \/ timer'[wizard] # NoKey
      PROVE  Attended'
  <2>1. CASE timer'[wizard] # NoKey
    BY <1>1, <2>1 DEF Attended
  <2>2. CASE timer'[wizard] = NoKey
    <3>1. stage' = stage /\ timer[wizard] = NoKey
      BY <1>6, <2>2
    <3>2. Attended
      BY <1>2, <1>3, <1>4, <3>1 DEF BusyIsAttended, BuildBusy
    <3>3. PICK q \in sent \cup ToSet(inbox) : q.by = wizard /\ q.op \in {"create", "retry", "cancel", "poll"}
      BY <3>1, <3>2 DEF Attended, Waiting
    <3>4. q # r
      BY <1>6, <2>2, <3>3
    <3>5. q \in sent' \cup ToSet(inbox')
      BY <1>5, <3>3, <3>4
    <3> QED BY <1>1, <3>3, <3>5 DEF Attended, Waiting
  <2> QED BY <2>1, <2>2
<1>7. CASE r.by # wizard
  <2>1. stage' = stage /\ timer'[wizard] = timer[wizard]
    BY <1>1, <1>2, <1>3, <1>7 DEF Started, GaveUp, Ended, WentOn, Ignored, OnScreen, Here
  <2> QED BY <1>6, <1>7, <2>1
<1>8. CASE r.by = wizard
  <2>1. Here(r)
    BY <1>3, <1>8 DEF Here
  <2>2. CASE Started(r)
    <3>1. timer'[wizard] # NoKey
      BY <1>2, <1>8, <2>2, KeysArePlaces DEF Started
    <3> QED BY <1>6, <3>1
  <2>3. CASE GaveUp(r) \/ Ended(r)
    <3>1. stage' \in Over
      BY <2>1, <2>3 DEF GaveUp, Ended, OnScreen
    <3> QED BY <1>3, <3>1 DEF Over, BuildBusy
  <2>4. CASE WentOn(r)
    <3>1. r \in ToSet(inbox)
      BY <1>1, <1>2, ConsumeMoves
    <3>2. timer'[wizard] = r.key /\ r.key # NoKey
      BY <1>2, <1>3, <1>4, <1>8, <2>4, <3>1, KeysArePlaces DEF WentOn, PollsOK, Poll
    <3> QED BY <1>6, <3>2
  <2>5. CASE Ignored(r)
    BY <1>6, <2>5 DEF Ignored
  <2> QED BY <1>1, <2>2, <2>3, <2>4, <2>5
<1> QED BY <1>7, <1>8

\* An answer arrives.
LEMMA AnswerKeeps ==
  ASSUME CInv, NEW n \in DOMAIN inbox, WizardAnswer(n)
  PROVE  CInv'
<1>1. PICK r \in Replies : r = inbox[n]
  BY InboxIsTyped DEF CInv
<1>2. MaterialOK'
  BY MaterialFrame DEF CInv, WizardAnswer
<1>3. WorldOK'
  BY <1>1, AnswerWorld
<1>4. PollsOK'
  BY <1>1, AnswerPolls
<1>5. WatchOK'
  BY <1>1, AnswerWatch
<1>6. BusyIsAttended'
  BY <1>1, AnswerBusy
<1> QED BY <1>2, <1>3, <1>4, <1>5, <1>6 DEF CInv

-----------------------------------------------------------------------------
\* The wizard is at work on its material, or asks for a confirmation.
LEMMA MaterialStepKeeps ==
  ASSUME CInv, MaterialOK', UNCHANGED <<serverVars, wizard, open, buildVars>>
  PROVE  CInv'
BY BuildFrame DEF CInv

\* The upload is confirmed.
LEMMA SubmitKeeps ==
  ASSUME CInv, open, MaterialOK', Submit
  PROVE  CInv'
<1>1. CASE Prepared
  <2>1. PICK q : q = [Request(wizard, "create", Key) EXCEPT !.mode = intent.mode]
    OBVIOUS
  <2>2. q \in Requests /\ q.by = wizard /\ q.op = "create" /\ q.mode # "none" /\ q.read = NotRead
    <3>1. Key \in MaterialKeys /\ wizard \in Wizards /\ intent.mode \in {"new", "rebuild", "copy"}
      BY ContentIsMaterial DEF CInv, MaterialOK, WorldOK
    <3>2. q = [by |-> wizard, op |-> "create", key |-> Key, mode |-> intent.mode, read |-> NotRead]
      BY <2>1 DEF Request
    <3> QED BY <3>1, <3>2 DEF Requests
  <2>3. /\ Post({q}) /\ stage' = "submitting"
        /\ wizard' = wizard /\ open' = open /\ jobId' = jobId /\ timer' = timer /\ strayed' = strayed
    BY <1>1, <2>1 DEF Submit
  <2>4. wizard <= wizard
    BY DEF CInv, WorldOK
  <2>5. WorldOK' /\ PollsOK' /\ WatchOK'
    BY <2>2, <2>3, <2>4, PostKeeps DEF CInv, Poll, BuildStages
  <2>6. q \in Waiting(wizard)'
    BY <2>2, <2>3 DEF Post, Waiting
  <2> QED BY <2>2, <2>5, <2>6 DEF CInv, BusyIsAttended, Attended
<1>2. CASE ~Prepared
  BY <1>2, BuildFrame DEF Submit, CInv, buildVars
<1> QED BY <1>1, <1>2

\* The job on screen is cancelled, or opened again, or polled by whoever polls it.
LEMMA JobRequestKeeps ==
  ASSUME CInv, NEW w \in Wizards, NEW op \in {"retry", "cancel", "poll"}, NEW k \in DOMAIN jobs,
         w <= wizard, op = "poll" => k = timer[w], op = "retry" => w = wizard,
         Post({Request(w, op, k)}), stage' \in BuildStages,
         \/ stage' = stage
         \/ w = wizard /\ op \in {"retry", "cancel"},
         UNCHANGED <<wizard, open, jobId, timer, strayed>>, MaterialOK'
  PROVE  CInv'
<1>1. PICK q \in Requests : q = Request(w, op, k) /\ q.by = w /\ q.op = op /\ q.key = k /\ q.read = NotRead
  <2>1. k \in MaterialKeys
    BY DEF CInv, WorldOK
  <2> QED BY <2>1, RequestsAreTyped
<1>2. Post({q}) /\ wizard' = wizard /\ open' = open /\ timer' = timer /\ strayed' = strayed /\ inbox' = inbox
  BY <1>1 DEF Post
<1>3. WorldOK' /\ PollsOK' /\ WatchOK'
  BY <1>1, <1>2, PostKeeps DEF CInv, Poll
<1>4. BusyIsAttended'
  <2>1. CASE stage' = stage
    <3>1. sent \subseteq sent'
      BY <1>2 DEF Post
    <3>2. Attended => Attended'
      BY <1>2, <3>1, WaitingGrows
    <3> QED BY <1>2, <2>1, <3>2 DEF CInv, BusyIsAttended, BuildBusy
  <2>2. CASE w = wizard /\ op \in {"retry", "cancel"}
    <3>1. q \in Waiting(wizard)'
      BY <1>1, <1>2, <2>2 DEF Post, Waiting
    <3> QED BY <1>1, <2>2, <3>1 DEF BusyIsAttended, Attended
  <2> QED BY <2>1, <2>2
<1> QED BY <1>3, <1>4 DEF CInv

\* The user is at work in the wizard.
LEMMA PressKeeps == ASSUME CInv, WizardPress PROVE CInv'
<1>1. CASE \E kind \in Kinds : \E how \in Means : Taken(kind, how)
  <2>1. PICK kind \in Kinds, how \in Means : Taken(kind, how)
    BY <1>1
  <2>2. MaterialOK'
    BY <2>1, TakenKeeps DEF CInv
  <2> QED BY <2>1, <2>2, MaterialStepKeeps DEF Taken
<1>2. CASE Validate \/ Validated
  <2>1. MaterialOK'
    BY <1>2, ValidatedKeeps DEF CInv
  <2> QED BY <1>2, <2>1, MaterialStepKeeps DEF Validate, Validated
<1>3. CASE PressCreate \/ ConfirmUpload \/ ConfirmEnds
  <2>1. MaterialOK'
    BY <1>3, ConfirmKeeps DEF CInv
  <2>2. CASE open /\ Submit
    BY <2>1, <2>2, SubmitKeeps
  <2>3. CASE ~(open /\ Submit)
    BY <1>3, <2>1, <2>3, MaterialStepKeeps DEF PressCreate, ConfirmUpload, ConfirmEnds
  <2> QED BY <2>2, <2>3
<1>4. CASE PressCancel
  <2>1. /\ open /\ jobId \in DOMAIN jobs /\ wizard \in Wizards /\ wizard <= wizard /\ CancelRequested \in BuildStages
    BY <1>4, KeysArePlaces DEF PressCancel, CInv, WorldOK, CancelRequested, BuildStages
  <2>2. MaterialOK'
    BY <1>4, MaterialFrame DEF PressCancel, CInv
  <2>3. /\ Post({Request(wizard, "cancel", jobId)}) /\ stage' = CancelRequested
        /\ UNCHANGED <<wizard, open, jobId, timer, strayed>>
    BY <1>4 DEF PressCancel
  <2> QED BY <2>1, <2>2, <2>3, JobRequestKeeps
<1>5. CASE PressRetry
  <2>1. /\ open /\ jobId \in DOMAIN jobs /\ wizard \in Wizards /\ wizard <= wizard /\ "validating" \in BuildStages
    BY <1>5, KeysArePlaces DEF PressRetry, CInv, WorldOK, BuildStages
  <2>2. MaterialOK'
    BY <1>5, MaterialFrame DEF PressRetry, CInv
  <2>3. /\ Post({Request(wizard, "retry", jobId)}) /\ stage' = "validating"
        /\ UNCHANGED <<wizard, open, jobId, timer, strayed>>
    BY <1>5 DEF PressRetry
  <2> QED BY <2>1, <2>2, <2>3, JobRequestKeeps
<1> QED BY <1>1, <1>2, <1>3, <1>4, <1>5 DEF WizardPress

\* A wizard polls.
LEMMA TickKeeps == ASSUME CInv, NEW w \in Wizards, Tick(w) PROVE CInv'
<1>1. timer[w] \in DOMAIN jobs /\ w <= wizard /\ stage \in BuildStages
  BY KeysArePlaces DEF Tick, CInv, WorldOK, Wizards
<1>2. /\ Post({Request(w, "poll", timer[w])}) /\ stage' = stage
      /\ UNCHANGED <<wizard, open, jobId, timer, strayed>>
  BY DEF Tick, wizardVars, buildVars
<1>3. MaterialOK'
  BY MaterialFrame DEF Tick, CInv, wizardVars, buildVars
<1> QED BY <1>1, <1>2, <1>3, JobRequestKeeps

\* The user leaves the wizard.
LEMMA BackKeeps == ASSUME CInv, PressBack PROVE CInv'
<1>0. "new" \in {"new", "rebuild", "copy"} /\ NoKey \in MaterialKeys \cup {NoKey}
  OBVIOUS
<1>1. CASE UNCHANGED serverVars
  BY <1>0, <1>1, UnmountKeeps DEF PressBack, serverVars
<1>2. CASE ~UNCHANGED serverVars
  <2>1. jobId \in DOMAIN jobs /\ wizard \in Wizards /\ wizard <= wizard
    BY <1>2, KeysArePlaces DEF PressBack, CInv, WorldOK
  <2>2. PICK q \in Requests : /\ q = Request(wizard, "cleanup", jobId) /\ q.by = wizard /\ q.op = "cleanup"
                              /\ q.key = jobId /\ q.read = NotRead
    <3>1. jobId \in MaterialKeys
      BY <2>1 DEF CInv, WorldOK
    <3> QED BY <2>1, <3>1, RequestsAreTyped
  <2>3. sent' = sent \cup {q} /\ UNCHANGED <<jobs, first, inbox, faults>> /\ UnmountWizard("new", NoKey)
    BY <1>2, <2>2 DEF PressBack, Post
  <2> QED BY <1>0, <2>1, <2>2, <2>3, UnmountKeeps
<1> QED BY <1>1, <1>2

-----------------------------------------------------------------------------
\* Nothing has happened yet.
LEMMA CInit == Init => CInv
<1> SUFFICES ASSUME Init PROVE CInv
  OBVIOUS
<1>1. /\ jobs = <<>> /\ sent = {} /\ inbox = <<>> /\ faults = 0 /\ wizard = 0 /\ open = FALSE
      /\ intent = [mode |-> "new", source |-> NoKey] /\ file = Nothing /\ info = Nothing /\ check = Nothing
      /\ confirming = FALSE /\ stage = "idle" /\ jobId = NoKey /\ timer = [w \in Wizards |-> NoKey] /\ takes = 0
      /\ slipped = FALSE /\ unchecked = FALSE /\ strayed = FALSE
  BY DEF Init, ServerInit, WizardInit
<1>2. MaterialOK
  BY <1>1, KeysArePlaces DEF MaterialOK, SubmittedIsValidated, Nothing
<1>3. WorldOK
  <2>1. DOMAIN jobs = {} /\ jobs \in [DOMAIN jobs -> JobType] /\ DOMAIN inbox = {} /\ inbox \in Seq(Replies)
    <3>1. DOMAIN <<>> = {} /\ <<>> \in Seq(Replies) /\ <<>> \in Seq(JobType) /\ Len(<<>>) = 0
      OBVIOUS
    <3>2. <<>> \in [1..0 -> JobType]
      BY <3>1, LenProperties
    <3>3. 1..0 = {}
      OBVIOUS
    <3> QED BY <1>1, <3>1, <3>2, <3>3
  <2>2. /\ sent \in SUBSET Requests /\ faults \in Nat /\ wizard \in 0..MaxWizards /\ open \in BOOLEAN
        /\ strayed \in BOOLEAN /\ stage \in BuildStages
    <3>1. open \in BOOLEAN /\ strayed \in BOOLEAN
      BY <1>1
    <3>2. sent \in SUBSET Requests /\ faults \in Nat /\ stage \in BuildStages
      BY <1>1 DEF BuildStages
    <3>3. wizard \in 0..MaxWizards
      BY <1>1, KeysArePlaces
    <3> QED BY <3>1, <3>2, <3>3
  <2>3. /\ timer \in [Wizards -> DOMAIN jobs \cup {NoKey}] /\ jobId \in DOMAIN jobs \cup {NoKey}
        /\ \A w \in Wizards : wizard < w => timer[w] = NoKey
    BY <1>1
  <2>4. \A r \in sent : FALSE
    BY <1>1
  <2>5. \A n \in DOMAIN inbox : FALSE
    BY <2>1
  <2>6. DOMAIN jobs \subseteq MaterialKeys /\ (open => wizard \in Wizards)
    BY <1>1, <2>1
  <2> QED BY <2>1, <2>2, <2>3, <2>4, <2>5, <2>6 DEF WorldOK
<1>4. PollsOK /\ WatchOK /\ BusyIsAttended
  BY <1>1 DEF PollsOK, WatchOK, BusyIsAttended
<1> QED BY <1>2, <1>3, <1>4 DEF CInv

\* Every step keeps the invariant.
LEMMA CStep == CInv /\ [Next]_vars => CInv'
<1> SUFFICES ASSUME CInv, [Next]_vars PROVE CInv'
  OBVIOUS
<1>1. ASSUME UNCHANGED vars PROVE CInv'
  <2>1. UNCHANGED <<serverVars, wizard, open, buildVars>> /\ UNCHANGED <<intent, confirming, materialVars, unchecked>>
    BY <1>1 DEF vars, wizardVars, buildVars
  <2>2. MaterialOK'
    BY <2>1, MaterialFrame DEF CInv
  <2> QED BY <2>1, <2>2, MaterialStepKeeps
<1>2. CASE Press
  BY <1>2, PressKeeps DEF Press
<1>3. ASSUME NEW w \in Wizards, WizardTick(w) PROVE CInv'
  BY <1>3, TickKeeps DEF WizardTick
<1>4. ASSUME NEW n \in DOMAIN inbox, Answer(n) PROVE CInv'
  BY <1>4, AnswerKeeps DEF Answer
<1>5. CASE ServiceStep
  BY <1>5, ServeKeeps DEF ServiceStep
<1>6. CASE Fault
  BY <1>6, LoseKeeps, ReadKeeps DEF Fault
<1>7. ASSUME NEW k \in DOMAIN jobs, Advance(k) PROVE CInv'
  BY <1>7, AdvanceKeeps DEF Advance
<1>0. intent.mode \in {"new", "rebuild", "copy"} /\ intent.source \in MaterialKeys \cup {NoKey}
  BY DEF CInv, MaterialOK
<1>8. CASE RequestCreation
  BY <1>0, <1>8, MountKeeps DEF RequestCreation
<1>9. CASE Back
  BY <1>9, BackKeeps DEF Back
<1>10. CASE OpenAside
  BY <1>0, <1>10, UnmountKeeps DEF OpenAside, serverVars
<1>11. CASE CloseAside
  <2>1. CASE requested
    BY <1>0, <1>11, <2>1, MountKeeps DEF CloseAside
  <2>2. CASE ~requested
    <3>1. UNCHANGED serverVars /\ UNCHANGED wizardVars
      BY <1>11, <2>2 DEF CloseAside
    <3>2. UNCHANGED <<serverVars, wizard, open, buildVars>> /\ UNCHANGED <<intent, confirming, materialVars, unchecked>>
      BY <3>1 DEF wizardVars, buildVars
    <3>3. MaterialOK'
      BY <3>2, MaterialFrame DEF CInv
    <3> QED BY <3>2, <3>3, MaterialStepKeeps
  <2> QED BY <2>1, <2>2
<1>12. ASSUME NEW mode \in Modes, NEW source \in DOMAIN jobs, Rebuild(mode, source) PROVE CInv'
  <2>1. mode \in {"new", "rebuild", "copy"} /\ source \in MaterialKeys \cup {NoKey}
    BY CreationConstants DEF CInv, WorldOK
  <2> QED BY <1>12, <2>1, MountKeeps DEF Rebuild
<1> QED BY <1>1, <1>2, <1>3, <1>4, <1>5, <1>6, <1>7, <1>8, <1>9, <1>10, <1>11, <1>12 DEF Next

\* The invariant holds in every reachable state.
THEOREM CreationIsSound == Spec => []CInv
BY CInit, CStep, PTL DEF Spec

\* What is uploaded was validated, unless it was changed under the validation or the confirmation
\* (useCreationWizard.ts:279-298, 394-411).
THEOREM UploadsAreValidated == Spec => []SubmittedIsValidated
<1>1. CInv => SubmittedIsValidated
  BY DEF CInv, MaterialOK
<1> QED BY <1>1, CreationIsSound, PTL

\* A wizard that looks busy waits for an answer or polls, unless an old answer was shown after a
\* newer one (useCreationWizard.ts:192-262).
THEOREM BusyWizardsWait == Spec => []BusyIsAttended
<1>1. CInv => BusyIsAttended
  BY DEF CInv
<1> QED BY <1>1, CreationIsSound, PTL

\* A wizard that says the build is over is right, or will learn better, unless a request was lost
\* or an old answer was shown after a newer one (avatarBuild.ts:39-145, useCreationWizard.ts:192-221).
THEOREM OverMeansOver == Spec => []OverIsOver
<1>1. CInv => OverIsOver
  <2> SUFFICES ASSUME CInv, open, jobId # NoKey, Unfinished(jobId), ~strayed, ~(faults > 0)
               PROVE  Attended
    BY DEF OverIsOver
  <2>1. faults = 0
    BY DEF CInv, WorldOK
  <2>2. CASE \E r \in sent : r.by = wizard /\ r.op = "cancel"
    BY <2>2 DEF Attended, Waiting
  <2>3. CASE \E n \in DOMAIN inbox : Starts(inbox[n])
    <3>1. PICK n \in DOMAIN inbox : Starts(inbox[n])
      BY <2>3
    <3>2. inbox[n] \in ToSet(inbox) /\ inbox[n].by = wizard /\ inbox[n].op \in {"cancel", "create", "retry"}
      BY <3>1, InboxIsTyped DEF CInv, Starts
    <3> QED BY <3>2 DEF Attended, Waiting
  <2>4. CASE timer[wizard] # NoKey
    BY <2>4 DEF Attended
  <2> QED BY <2>1, <2>2, <2>3, <2>4 DEF CInv, WatchOK
<1> QED BY <1>1, CreationIsSound, PTL

------------------------------------------------------------------------------
\* Lists: the places that are kept of one are ranked without a gap, so each of them has its item, and
\* no other is kept.

\* A set of places is finite.
LEMMA PlacesFinite ==
  ASSUME NEW n \in Nat, NEW I \in SUBSET (1..n)
  PROVE  IsFiniteSet(I) /\ Cardinality(I) \in Nat
<1>1. IsFiniteSet(1..n)
  BY FS_Interval
<1>2. IsFiniteSet(I)
  BY <1>1, FS_Subset
<1> QED BY <1>2, FS_CardinalityType

\* A later place has a higher rank.
LEMMA RankGrows ==
  ASSUME NEW n \in Nat, NEW I \in SUBSET (1..n), NEW i \in I, NEW j \in I, i < j
  PROVE  Rank(I, i) # Rank(I, j)
<1> DEFINE S == {k \in I : k <= i}
           T == {k \in I : k <= j}
<1>1. i \in Nat /\ j \in Nat /\ \A k \in I : k \in Nat
  OBVIOUS
<1>2. T \in SUBSET I
  OBVIOUS
<1>3. S \in SUBSET T
  <2>1. \A k \in I : k <= i => k <= j
    BY <1>1
  <2> QED BY <2>1
<1>4. j \in T /\ j \notin S
  BY <1>1
<1>5. IsFiniteSet(T)
  BY <1>2, PlacesFinite, FS_Subset
<1>6. Cardinality(S) # Cardinality(T)
  <2> HIDE DEF S, T
  <2> QED BY <1>3, <1>4, <1>5, FS_Subset
<1> QED BY <1>6 DEF Rank

\* The rank of a place is at most the number of places.
LEMMA RankRange ==
  ASSUME NEW n \in Nat, NEW I \in SUBSET (1..n), NEW i \in I
  PROVE  Rank(I, i) \in 1..Cardinality(I)
<1> DEFINE S == {k \in I : k <= i}
<1>1. IsFiniteSet(I) /\ Cardinality(I) \in Nat
  BY PlacesFinite
<1>2. S \in SUBSET I /\ i \in S
  OBVIOUS
<1>3. IsFiniteSet(S) /\ Cardinality(S) <= Cardinality(I)
  <2> HIDE DEF S
  <2> QED BY <1>1, <1>2, FS_Subset
<1>4. Cardinality(S) \in Nat /\ Cardinality(S) # 0
  <2> HIDE DEF S
  <2> QED BY <1>2, <1>3, FS_EmptySet, FS_CardinalityType
<1>5. Cardinality(S) \in 1..Cardinality(I)
  <2> HIDE DEF S
  <2> QED BY <1>1, <1>3, <1>4
<1> QED BY <1>5 DEF Rank

\* Every rank is that of a place.
LEMMA NthExists ==
  ASSUME NEW n \in Nat, NEW I \in SUBSET (1..n), NEW k \in 1..Cardinality(I)
  PROVE  Nth(I, k) \in I /\ Rank(I, Nth(I, k)) = k
<1> DEFINE N == 1..Cardinality(I)
           f == [i \in I |-> Rank(I, i)]
<1>1. IsFiniteSet(I) /\ Cardinality(I) \in Nat
  BY PlacesFinite
<1>2. IsFiniteSet(N) /\ Cardinality(N) = Cardinality(I)
  BY <1>1, FS_Interval
<1>3. f \in [I -> N]
  BY RankRange
<1>4. \A i, j \in I : i # j => f[i] # f[j]
  <2> SUFFICES ASSUME NEW i \in I, NEW j \in I, i # j PROVE Rank(I, i) # Rank(I, j)
    OBVIOUS
  <2>1. i < j \/ j < i
    OBVIOUS
  <2> QED BY <2>1, RankGrows
<1>5. f \in Injection(I, N)
  <2> HIDE DEF f, N
  <2> QED BY <1>3, <1>4 DEF Injection, IsInjective
<1>6. f \in Surjection(I, N)
  <2> HIDE DEF f, N
  <2> QED BY <1>2, <1>5, FS_Injection
<1>7. \E i \in I : f[i] = k
  <2> HIDE DEF f
  <2> QED BY <1>6 DEF Surjection
<1>8. \E i \in I : Rank(I, i) = k
  BY <1>7
<1> QED BY <1>8 DEF Nth

\* What Select keeps of a list: the items at the places, and nothing else.
THEOREM SelectKeeps ==
  ASSUME NEW n \in Nat, NEW I \in SUBSET (1..n), NEW list
  PROVE  /\ ToSet(Select(list, I)) = {list[i] : i \in I}
         /\ Cardinality(I) \in Nat
         /\ DOMAIN Select(list, I) = 1..Cardinality(I)
<1>1. Cardinality(I) \in Nat
  BY PlacesFinite
<1>2. \A k \in 1..Cardinality(I) : Nth(I, k) \in I
  BY NthExists
<1>3. \A i \in I : \E k \in 1..Cardinality(I) : Nth(I, k) = i
  <2> SUFFICES ASSUME NEW i \in I PROVE Rank(I, i) \in 1..Cardinality(I) /\ Nth(I, Rank(I, i)) = i
    OBVIOUS
  <2>1. Rank(I, i) \in 1..Cardinality(I)
    BY RankRange
  <2>2. PICK j : j = Nth(I, Rank(I, i))
    OBVIOUS
  <2>3. j \in I /\ Rank(I, j) = Rank(I, i)
    BY <2>1, <2>2, NthExists
  <2>4. ~(i < j) /\ ~(j < i)
    BY <2>3, RankGrows
  <2> QED BY <2>1, <2>2, <2>3, <2>4
<1>4. ToSet(Select(list, I)) = {list[Nth(I, k)] : k \in 1..Cardinality(I)}
  BY DEF Select, ToSet
<1> QED BY <1>1, <1>2, <1>3, <1>4 DEF Select

\* ... in particular what it keeps of a sequence.
LEMMA SelectIsSeq ==
  ASSUME NEW S, NEW list \in Seq(S), NEW I \in SUBSET DOMAIN list
  PROVE  /\ Select(list, I) \in Seq(S)
         /\ ToSet(Select(list, I)) = {list[i] : i \in I}
<1>1. Len(list) \in Nat /\ DOMAIN list = 1..Len(list) /\ \A i \in DOMAIN list : list[i] \in S
  OBVIOUS
<1>2. I \in SUBSET (1..Len(list))
  BY <1>1
<1>3. /\ ToSet(Select(list, I)) = {list[i] : i \in I}
      /\ Cardinality(I) \in Nat
  BY <1>1, <1>2, SelectKeeps
<1>4. \A k \in 1..Cardinality(I) : list[Nth(I, k)] \in S
  BY <1>1, <1>2, NthExists
<1>5. [k \in 1..Cardinality(I) |-> list[Nth(I, k)]] \in Seq(S)
  BY <1>3, <1>4
<1> QED BY <1>3, <1>5 DEF Select

\* The recovery card.

Askers       == {Card, Again, App, Gone}
AskedOps     == CardOps \cup {"restore"}
KnownJobs    == [status : Statuses, retries : Nat, mode : {"none", "new"}]
CardRequests == [by : Askers, op : AskedOps, key : Keys \cup {NoKey}, mode : {"none"},
                 read : Nat \cup {NotRead}]
FreshRequests == {q \in CardRequests : q.read = NotRead}
CardAnswers  == [by : Askers, op : AskedOps, key : Keys \cup {NoKey},
                 ans : Statuses \cup {"lost", "denied", "refused", "none", "ready"}]
CardRecords  == [up : BOOLEAN, key : Keys \cup {NoKey}, of : Keys \cup {NoKey},
                 shown : Statuses \cup {"none"}, ended : BOOLEAN, timer : BOOLEAN, flying : BOOLEAN,
                 active : {Card, Again, Gone}, twice : BOOLEAN, busy : {"no", "cancel", "retry", "cleanup"}]

Pending == sent \cup ToSet(inbox)
Polls   == {q \in Pending : IsPoll(q)}

\* The jobs, the card, and the job that was restored.
LeftOK ==
  /\ jobs \in [DOMAIN jobs -> KnownJobs] /\ DOMAIN jobs \subseteq Keys /\ first \in DOMAIN jobs
  /\ faults \in Nat /\ resumable \in DOMAIN jobs \cup {NoKey}
  /\ card \in CardRecords /\ (card.up => card.key \in DOMAIN jobs /\ card.of \in DOMAIN jobs)
  /\ card.timer => card.up
  /\ aside => ~card.up

\* Who asks for what: only a card that is up waits for answers of its own.
AskOK(q) ==
  /\ q.by = App <=> q.op = "restore"
  /\ q.by \in {Card, Again} => card.up
  /\ q.op = "poll" => q.by \in {Card, Again}
  /\ q.by = Again => q.op = "poll"
  /\ q.op # "restore" => q.key \in DOMAIN jobs

\* What is answered: a job that was said to have succeeded has, unless the service has let a
\* request reopen it that was overtaken.
AnswerOK(a) ==
  /\ a.ans \in {"lost", "denied"} => faults > 0
  /\ a.op = "poll" => a.ans \in Statuses \cup {"lost", "denied"}
  /\ faults = 0 /\ a.op = "poll" /\ a.ans = "succeeded" => jobs[a.key].status = "succeeded"
  /\ a.op = "restore" => \/ a.ans \in {"none", "ready", "lost", "denied"}
                         \/ a.ans \in {"running", "cancelling"} /\ a.key \in DOMAIN jobs

AsksOK ==
  /\ sent \in SUBSET CardRequests /\ inbox \in Seq(CardAnswers)
  /\ \A q \in Pending : AskOK(q)
  /\ \A a \in ToSet(inbox) : AnswerOK(a)
  /\ \A q \in sent : q.read # NotRead => faults > 0

\* Unless the card was restarted for another job, it has at most one poll, the flag is up while
\* it is under way, and the controller is its own.
OneOK ==
  ~card.twice => /\ \A q \in Polls : q.by = Card /\ card.flying /\ card.active = Card
                 /\ \A q1, q2 \in Polls : q1 = q2

\* A flag that is up is that of a poll, and without a poll there is a timer.
WatchedOK ==
  card.up /\ ~card.ended => card.timer \/ Polls # {}
FlagOK ==
  card.up /\ ~card.ended /\ card.flying => Polls # {}

\* A card that shows the first human as ready waits for the app, which will hear the same.
HandsOver ==
  card.up /\ card.of = first /\ card.shown = "succeeded" /\ faults = 0 =>
    /\ jobs[first].status = "succeeded"
    /\ \E q \in Pending : q.by = App
    /\ \A a \in ToSet(inbox) : a.by = App => a.ans = "ready"

RInv == LeftOK /\ AsksOK /\ OneOK /\ WatchedOK /\ FlagOK /\ HandsOver

-----------------------------------------------------------------------------
\* The card is told apart from the app and from those who are gone.
LEMMA AskersDiffer ==
  /\ Card \in Askers /\ Again \in Askers /\ App \in Askers /\ Gone \in Askers
  /\ Card # Again /\ Card # App /\ Card # Gone /\ Again # App /\ Again # Gone /\ App # Gone
BY DEF Card, Again, App, Gone, Askers

\* A request is no answer.
LEMMA RequestsAreNoAnswers == CardRequests \cap CardAnswers = {}
<1> SUFFICES ASSUME NEW q \in CardRequests, q \in CardAnswers PROVE FALSE
  OBVIOUS
<1>1. DOMAIN q = {"by", "op", "key", "mode", "read"}
  BY DEF CardRequests
<1>2. DOMAIN q = {"by", "op", "key", "ans"}
  BY DEF CardAnswers
<1>3. "mode" # "by" /\ "mode" # "op" /\ "mode" # "key" /\ "mode" # "ans"
  OBVIOUS
<1> QED BY <1>1, <1>2, <1>3

\* What is asked for.
LEMMA AskIsTyped ==
  ASSUME NEW by \in Askers, NEW op \in AskedOps, NEW key \in Keys \cup {NoKey}
  PROVE  /\ Request(by, op, key) \in FreshRequests
         /\ Request(by, op, key).by = by /\ Request(by, op, key).op = op /\ Request(by, op, key).key = key
BY DEF Request, CardRequests, FreshRequests

\* The answers that are on their way.
LEMMA AnswersAreTyped ==
  ASSUME AsksOK
  PROVE  /\ ToSet(inbox) = {inbox[n] : n \in DOMAIN inbox} /\ ToSet(inbox) \subseteq CardAnswers
         /\ DOMAIN inbox = 1..Len(inbox) /\ Len(inbox) \in Nat
<1>1. inbox \in Seq(CardAnswers)
  BY DEF AsksOK
<1>2. DOMAIN inbox = 1..Len(inbox) /\ Len(inbox) \in Nat /\ \A n \in DOMAIN inbox : inbox[n] \in CardAnswers
  BY <1>1
<1> QED BY <1>2 DEF ToSet

\* Requests and answers are given up, others are sent.
LEMMA RedirectMoves ==
  ASSUME AsksOK, NEW given, NEW rs, Redirect(given, rs)
  PROVE  /\ sent' = (sent \ given) \cup rs /\ ToSet(inbox') = ToSet(inbox) \ given
         /\ inbox' \in Seq(CardAnswers)
         /\ Pending' = (Pending \ given) \cup rs
         /\ Polls' = (Polls \ given) \cup {q \in rs : IsPoll(q)}
         /\ jobs' = jobs /\ first' = first /\ faults' = faults
<1> DEFINE I == {n \in DOMAIN inbox : inbox[n] \notin given}
<1>1. sent' = (sent \ given) \cup rs /\ inbox' = Select(inbox, I) /\ jobs' = jobs /\ first' = first /\ faults' = faults
  BY DEF Redirect, Without
<1>2. inbox \in Seq(CardAnswers) /\ I \in SUBSET DOMAIN inbox
  BY DEF AsksOK
<1>3. Select(inbox, I) \in Seq(CardAnswers) /\ ToSet(Select(inbox, I)) = {inbox[n] : n \in I}
  <2> HIDE DEF I
  <2> QED BY <1>2, SelectIsSeq
<1>4. {inbox[n] : n \in I} = ToSet(inbox) \ given
  BY AnswersAreTyped
<1>5. ToSet(inbox') = ToSet(inbox) \ given
  BY <1>1, <1>3, <1>4
<1>6. Pending' = (Pending \ given) \cup rs
  BY <1>1, <1>5 DEF Pending
<1>7. Polls' = (Polls \ given) \cup {q \in rs : IsPoll(q)}
  BY <1>6 DEF Polls, IsPoll
<1> QED BY <1>1, <1>3, <1>5, <1>6, <1>7

\* The card goes: what it polled is forgotten, what else it asked for belongs to nobody.
LEMMA LeaveMoves ==
  ASSUME AsksOK, NEW given, LeaveToItself(given)
  PROVE  /\ sent' = {IF r.by = Card THEN [r EXCEPT !.by = Gone] ELSE r : r \in {q \in sent : ~IsPoll(q)}}
         /\ ToSet(inbox') = {a \in ToSet(inbox) : a.by \notin {Card, Again} /\ a \notin given}
         /\ inbox' \in Seq(CardAnswers)
         /\ jobs' = jobs /\ first' = first /\ faults' = faults
<1> DEFINE G == given \cup Waiting(Card) \cup Waiting(Again)
           I == {n \in DOMAIN inbox : inbox[n] \notin G}
<1>1. /\ inbox' = Select(inbox, I) /\ jobs' = jobs /\ first' = first /\ faults' = faults
      /\ sent' = {IF r.by = Card THEN [r EXCEPT !.by = Gone] ELSE r : r \in {q \in sent : ~IsPoll(q)}}
  BY DEF LeaveToItself, Without
<1>2. inbox \in Seq(CardAnswers) /\ I \in SUBSET DOMAIN inbox
  BY DEF AsksOK
<1>3. Select(inbox, I) \in Seq(CardAnswers) /\ ToSet(Select(inbox, I)) = {inbox[n] : n \in I}
  <2> HIDE DEF I
  <2> QED BY <1>2, SelectIsSeq
<1>4. {inbox[n] : n \in I} = ToSet(inbox) \ G
  <2> HIDE DEF G
  <2> QED BY AnswersAreTyped
<1>5. ToSet(inbox) \ G = {a \in ToSet(inbox) : a.by \notin {Card, Again} /\ a \notin given}
  BY DEF Waiting
<1> QED BY <1>1, <1>3, <1>4, <1>5

\* The service answers: the request is gone, the answer is there.
LEMMA AnswerMoves ==
  ASSUME AsksOK, NEW r \in sent, NEW key \in Keys \cup {NoKey},
         NEW ans \in Statuses \cup {"lost", "denied", "refused", "none", "ready"}, Reply(r, <<key, ans>>)
  PROVE  \E a \in CardAnswers :
           /\ a.by = r.by /\ a.op = r.op /\ a.key = key /\ a.ans = ans
           /\ sent' = sent \ {r} /\ ToSet(inbox') = ToSet(inbox) \cup {a} /\ inbox' \in Seq(CardAnswers)
           /\ Pending' = (Pending \ {r}) \cup {a}
           /\ IsPoll(a) <=> IsPoll(r)
<1> DEFINE a == [by |-> r.by, op |-> r.op, key |-> key, ans |-> ans]
<1>1. sent' = sent \ {r} /\ inbox' = Append(inbox, a)
  BY DEF Reply
<1>2. r \in CardRequests /\ sent \subseteq CardRequests /\ ToSet(inbox) \subseteq CardAnswers
  BY AnswersAreTyped DEF AsksOK
<1>3. a \in CardAnswers /\ a.by = r.by /\ a.op = r.op /\ a.key = key /\ a.ans = ans
  BY <1>2 DEF CardRequests, CardAnswers
<1>4. inbox \in Seq(CardAnswers) /\ DOMAIN inbox = 1..Len(inbox) /\ Len(inbox) \in Nat
  BY AnswersAreTyped DEF AsksOK
<1> HIDE DEF a
<1>5. /\ Append(inbox, a) \in Seq(CardAnswers) /\ Len(Append(inbox, a)) = Len(inbox) + 1
      /\ \A n \in 1..Len(inbox) : Append(inbox, a)[n] = inbox[n]
      /\ Append(inbox, a)[Len(inbox) + 1] = a
  BY <1>3, <1>4, AppendProperties
<1>6. DOMAIN inbox' = 1..(Len(inbox) + 1)
  BY <1>1, <1>5, LenProperties
<1>7. ToSet(inbox') = ToSet(inbox) \cup {a}
  BY <1>1, <1>4, <1>5, <1>6 DEF ToSet
<1>8. r \notin ToSet(inbox)
  BY <1>2, RequestsAreNoAnswers
<1>9. Pending' = (Pending \ {r}) \cup {a}
  BY <1>1, <1>7, <1>8 DEF Pending
<1>10. IsPoll(a) <=> IsPoll(r)
  BY <1>3 DEF IsPoll
<1> QED BY <1>1, <1>3, <1>5, <1>7, <1>9, <1>10

\* What may become of the jobs: none is forgotten, and as long as no request was overtaken, one that
\* has succeeded stays so.
JobsGrow ==
  /\ jobs' \in [DOMAIN jobs' -> KnownJobs] /\ DOMAIN jobs \subseteq DOMAIN jobs' /\ DOMAIN jobs' \subseteq Keys
  /\ first' = first
  /\ faults = 0 => \A k \in DOMAIN jobs : jobs[k].status = "succeeded" => jobs'[k].status = "succeeded"

\* A job that moves is a job.
LEMMA MovedIsJob ==
  ASSUME NEW j \in KnownJobs, NEW r, r.op \in {"cancel", "retry", "cleanup"}, r.read \in Nat \cup {NotRead}
  PROVE  Moved(j, r) \in KnownJobs
<1>1. PICK count \in Nat : count = (IF r.read = NotRead THEN j.retries ELSE r.read) + 1
  BY DEF KnownJobs
<1>2. /\ r.op = "retry" => Moved(j, r) = [j EXCEPT !.status = "running", !.retries = count]
      /\ r.op = "cancel" => Moved(j, r) = [j EXCEPT !.status = "cancelling"]
      /\ r.op = "cleanup" => Moved(j, r) = [j EXCEPT !.status = "cleanup_pending"]
  BY <1>1 DEF Moved
<1>3. /\ [j EXCEPT !.status = "cancelling"] \in KnownJobs /\ [j EXCEPT !.status = "cleanup_pending"] \in KnownJobs
      /\ [j EXCEPT !.status = "running", !.retries = count] \in KnownJobs
  BY DEF KnownJobs, Statuses
<1> QED BY <1>2, <1>3

\* The service does what it is asked for: no job that has succeeded is opened again, unless a request
\* was overtaken.
LEMMA ApplyGrows ==
  ASSUME LeftOK, NEW r, r.op \in {"create", "cancel", "retry", "cleanup", "poll", "restore"}, r.mode = "none",
         r.op = "create" => r.key \in Keys,
         r.op \in {"cancel", "retry", "cleanup"} => r.key \in DOMAIN jobs,
         r.read \in Nat \cup {NotRead}, faults = 0 => r.read = NotRead,
         Apply(r)
  PROVE  JobsGrow /\ (r.op \in {"poll", "restore"} => jobs' = jobs)
<1>1. /\ jobs \in [DOMAIN jobs -> KnownJobs] /\ DOMAIN jobs \subseteq Keys /\ first \in DOMAIN jobs /\ NoKey \notin Keys
  BY RecoveryConstants DEF LeftOK
<1>2. DOMAIN Accepts = {"cancel", "retry", "cleanup"}
  BY DEF Accepts
<1>3. jobs' = Effect(r) /\ first' = first
  BY <1>1 DEF Apply
<1>4. CASE r.op = "create"
  <2>1. jobs' = IF r.key \in DOMAIN jobs THEN jobs
                ELSE [k \in DOMAIN jobs \cup {r.key} |-> IF k \in DOMAIN jobs THEN jobs[k] ELSE
                        [status |-> "running", retries |-> 0, mode |-> r.mode]]
    BY <1>2, <1>3, <1>4 DEF Effect, Start, Known
  <2>2. [status |-> "running", retries |-> 0, mode |-> r.mode] \in KnownJobs
    BY DEF KnownJobs, Statuses
  <2>3. CASE r.key \in DOMAIN jobs
    <3>1. jobs' = jobs
      BY <2>1, <2>3
    <3> QED BY <1>1, <1>3, <1>4, <3>1 DEF JobsGrow
  <2>4. CASE r.key \notin DOMAIN jobs
    <3>1. jobs' = [k \in DOMAIN jobs \cup {r.key} |-> IF k \in DOMAIN jobs THEN jobs[k] ELSE
                     [status |-> "running", retries |-> 0, mode |-> r.mode]]
      BY <2>1, <2>4
    <3>2. DOMAIN jobs' = DOMAIN jobs \cup {r.key} /\ \A k \in DOMAIN jobs : jobs'[k] = jobs[k]
      BY <3>1
    <3>3. jobs' \in [DOMAIN jobs' -> KnownJobs]
      BY <1>1, <2>2, <3>1
    <3> QED BY <1>1, <1>3, <1>4, <3>2, <3>3 DEF JobsGrow
  <2> QED BY <2>3, <2>4
<1>5. CASE r.op \in {"cancel", "retry", "cleanup"} /\ ~Refused(r)
  <2>1. jobs' = [jobs EXCEPT ![r.key] = Moved(jobs[r.key], r)]
    BY <1>2, <1>3, <1>5 DEF Effect
  <2>2. Moved(jobs[r.key], r) \in KnownJobs
    BY <1>1, <1>5, MovedIsJob
  <2>3. faults = 0 => jobs[r.key].status # "succeeded"
    BY <1>5 DEF Refused, Accepts
  <2> QED BY <1>1, <1>3, <1>5, <2>1, <2>2, <2>3 DEF JobsGrow
<1>6. CASE r.op \in {"poll", "restore"} \/ (r.op \in {"cancel", "retry", "cleanup"} /\ Refused(r))
  <2>1. jobs' = jobs
    BY <1>2, <1>3, <1>6 DEF Effect
  <2> QED BY <1>1, <1>3, <2>1 DEF JobsGrow
<1> QED BY <1>4, <1>5, <1>6

\* The jobs move on, and nothing is asked or answered.
LEMMA WorldMoves ==
  ASSUME RInv, JobsGrow, UNCHANGED <<sent, inbox, faults, card, resumable, aside>>
  PROVE  RInv'
<1>1. sent' = sent /\ inbox' = inbox /\ faults' = faults /\ card' = card /\ resumable' = resumable /\ aside' = aside /\ first' = first
  BY DEF JobsGrow
<1>2. Pending' = Pending /\ Polls' = Polls /\ ToSet(inbox)' = ToSet(inbox)
  BY <1>1 DEF Pending, Polls, IsPoll
<1>3. LeftOK'
  BY <1>1 DEF RInv, LeftOK, JobsGrow
<1>4. AsksOK'
  <2>1. \A q \in Pending : AskOK(q)'
    BY <1>1 DEF RInv, AsksOK, AskOK, JobsGrow
  <2>2. \A a \in ToSet(inbox) : AnswerOK(a)'
    <3> SUFFICES ASSUME NEW a \in ToSet(inbox) PROVE AnswerOK(a)'
      OBVIOUS
    <3>1. AnswerOK(a) /\ AskOK(a)
      BY DEF RInv, AsksOK, Pending
    <3>2. a.op = "poll" => a.key \in DOMAIN jobs
      BY <3>1 DEF AskOK
    <3> QED BY <1>1, <3>1, <3>2 DEF AnswerOK, JobsGrow
  <2> QED BY <1>1, <1>2, <2>1, <2>2 DEF RInv, AsksOK
<1>5. OneOK' /\ WatchedOK' /\ FlagOK'
  BY <1>1, <1>2 DEF RInv, OneOK, WatchedOK, FlagOK
<1>6. HandsOver'
  BY <1>1, <1>2 DEF RInv, LeftOK, HandsOver, JobsGrow
<1> QED BY <1>3, <1>4, <1>5, <1>6 DEF RInv

\* A request is answered, by the service or by nobody.
LEMMA AnsweredKeeps ==
  ASSUME RInv, JobsGrow, NEW r \in sent, NEW key \in Keys \cup {NoKey},
         NEW ans \in Statuses \cup {"lost", "denied", "refused", "none", "ready"}, Reply(r, <<key, ans>>),
         faults' \in Nat, faults <= faults', ans \in {"lost", "denied"} => faults' > faults,
         r.op = "poll" \/ ans \in {"lost", "denied"} => key = r.key,
         r.op # "restore" => key = r.key,
         r.op = "poll" => ans \in Statuses \cup {"lost", "denied"},
         r.op = "poll" /\ ans = "succeeded" => jobs'[key].status = "succeeded",
         r.op = "restore" => \/ ans \in {"none", "ready", "lost", "denied"}
                             \/ ans \in {"running", "cancelling"} /\ key \in DOMAIN jobs,
         r.op = "restore" /\ jobs[first].status = "succeeded" => ans \in {"ready", "lost", "denied"},
         UNCHANGED <<card, resumable, aside>>
  PROVE  RInv'
<1>1. card' = card /\ resumable' = resumable /\ aside' = aside /\ first' = first
  BY DEF JobsGrow
<1>2. AsksOK /\ r \in Pending /\ AskOK(r)
  BY DEF RInv, AsksOK, Pending
<1>3. PICK a \in CardAnswers :
        /\ a.by = r.by /\ a.op = r.op /\ a.key = key /\ a.ans = ans
        /\ sent' = sent \ {r} /\ ToSet(inbox') = ToSet(inbox) \cup {a} /\ inbox' \in Seq(CardAnswers)
        /\ Pending' = (Pending \ {r}) \cup {a}
        /\ IsPoll(a) <=> IsPoll(r)
  BY <1>2, AnswerMoves
<1>4. Polls' = IF IsPoll(r) THEN (Polls \ {r}) \cup {a} ELSE Polls
  BY <1>3 DEF Polls, IsPoll
<1>5. LeftOK'
  BY <1>1 DEF RInv, LeftOK, JobsGrow
<1>6. AsksOK'
  <2>1. \A q \in Pending : AskOK(q)'
    BY <1>1, <1>2 DEF AsksOK, AskOK, JobsGrow
  <2>2. AskOK(a)'
    BY <1>1, <1>2, <1>3 DEF AskOK, JobsGrow
  <2>3. \A b \in ToSet(inbox) : AnswerOK(b)'
    <3> SUFFICES ASSUME NEW b \in ToSet(inbox) PROVE AnswerOK(b)'
      OBVIOUS
    <3>1. AnswerOK(b) /\ AskOK(b)
      BY DEF RInv, AsksOK, Pending
    <3>2. b.op = "poll" => b.key \in DOMAIN jobs
      BY <3>1 DEF AskOK
    <3>3. (faults > 0 => faults' > 0) /\ (faults' = 0 => faults = 0)
      BY DEF RInv, LeftOK
    <3> QED BY <1>1, <3>1, <3>2, <3>3 DEF AnswerOK, JobsGrow
  <2>4. AnswerOK(a)'
    <3>1. ans \in {"lost", "denied"} => faults' > 0
      BY DEF RInv, LeftOK
    <3> QED BY <1>3, <3>1 DEF AnswerOK, JobsGrow
  <2>5. sent' \in SUBSET CardRequests
    BY <1>2, <1>3 DEF AsksOK
  <2>6. \A q \in sent' : q.read # NotRead => faults' > 0
    <3>1. faults > 0 => faults' > 0
      BY DEF RInv, LeftOK
    <3> QED BY <1>2, <1>3, <3>1 DEF AsksOK
  <2> QED BY <1>3, <2>1, <2>2, <2>3, <2>4, <2>5, <2>6 DEF AsksOK
<1>7. OneOK'
  <2>1. IsPoll(r) => r \in Polls
    BY <1>2 DEF Polls
  <2> QED BY <1>1, <1>3, <1>4, <2>1 DEF RInv, OneOK
<1>8. WatchedOK' /\ FlagOK'
  <2>1. Polls # {} => Polls' # {}
    BY <1>4
  <2> QED BY <1>1, <2>1 DEF RInv, WatchedOK, FlagOK
<1>9. HandsOver'
  <2> SUFFICES ASSUME card.up, card.of = first, card.shown = "succeeded", faults' = 0
               PROVE  /\ jobs'[first].status = "succeeded"
                      /\ \E q \in Pending' : q.by = App
                      /\ \A b \in ToSet(inbox') : b.by = App => b.ans = "ready"
    BY <1>1 DEF HandsOver
  <2>1. faults = 0
    BY DEF RInv, LeftOK
  <2>2. /\ jobs[first].status = "succeeded" /\ \E q \in Pending : q.by = App
        /\ \A b \in ToSet(inbox) : b.by = App => b.ans = "ready"
    BY <2>1 DEF RInv, HandsOver
  <2>3. jobs'[first].status = "succeeded"
    BY <2>1, <2>2 DEF RInv, LeftOK, JobsGrow
  <2>4. \E q \in Pending' : q.by = App
    BY <1>3, <2>2
  <2>5. a.by = App => a.ans = "ready"
    BY <1>2, <1>3, <2>1, <2>2 DEF AskOK
  <2> QED BY <1>3, <2>2, <2>3, <2>4, <2>5
<1> QED BY <1>5, <1>6, <1>7, <1>8, <1>9 DEF RInv

\* What a request has read, and that it has: a fault.
LEMMA ReadIsFault ==
  ASSUME RInv, NEW r \in sent
  PROVE  r.read \in Nat \cup {NotRead} /\ (faults = 0 => r.read = NotRead)
<1>1. r \in CardRequests /\ (r.read # NotRead => faults > 0)
  BY DEF RInv, AsksOK
<1>2. r.read # NotRead => faults # 0
  BY <1>1 DEF RInv, LeftOK
<1> QED BY <1>1, <1>2 DEF CardRequests

\* The service answers: for a poll with the job, for the app with the human or a job under way.
LEMMA ServesCard == ASSUME RInv, NEW r \in sent, Serve(r), Service PROVE RInv'
<1>1. /\ r \in CardRequests /\ r \in Pending /\ AskOK(r) /\ LeftOK /\ card' = card /\ resumable' = resumable /\ aside' = aside
      /\ Apply(r) /\ faults' = faults /\ faults \in Nat
  BY DEF RInv, AsksOK, LeftOK, Pending, Serve, Service, cardVars, asideVars
<1>2. r.op \in {"poll", "cancel", "retry", "cleanup", "restore"} /\ r.mode = "none" /\ r.key \in Keys \cup {NoKey}
  BY <1>1 DEF CardRequests, AskedOps, CardOps
<1>3. r.op # "restore" => r.key \in DOMAIN jobs
  BY <1>1 DEF AskOK
<1>4. JobsGrow /\ (r.op \in {"poll", "restore"} => jobs' = jobs)
  BY <1>1, <1>2, <1>3, ReadIsFault, ApplyGrows
<1>5. PICK answer \in Answers(r) : Reply(r, answer)
  BY DEF Serve
<1>6. DOMAIN Accepts = {"cancel", "retry", "cleanup"}
  BY DEF Accepts
<1>7. jobs' = Effect(r) /\ first \in DOMAIN jobs /\ NoKey \notin Keys /\ DOMAIN jobs \subseteq Keys
      /\ \A k \in DOMAIN jobs' : jobs'[k].status \in Statuses
  BY <1>1, <1>4, RecoveryConstants DEF Apply, LeftOK, JobsGrow, KnownJobs
<1>8. CASE r.op = "poll"
  <2>1. answer = <<r.key, jobs'[r.key].status>>
    BY <1>5, <1>6, <1>7, <1>8 DEF Answers
  <2>2. r.key \in DOMAIN jobs'
    BY <1>3, <1>4, <1>8 DEF JobsGrow
  <2>3. jobs'[r.key].status \in Statuses \cup {"lost", "denied", "refused", "none", "ready"}
        /\ jobs'[r.key].status \notin {"lost", "denied"}
    BY <1>7, <2>2 DEF Statuses
  <2> QED BY <1>1, <1>2, <1>4, <1>5, <1>7, <1>8, <2>1, <2>2, <2>3, AnsweredKeeps
<1>9. CASE r.op \in {"cancel", "retry", "cleanup"}
  <2>1. answer = <<r.key, IF Refused(r) THEN "refused" ELSE jobs'[r.key].status>>
    BY <1>5, <1>6, <1>7, <1>9 DEF Answers
  <2>2. PICK ans : ans = IF Refused(r) THEN "refused" ELSE jobs'[r.key].status
    OBVIOUS
  <2>3. r.key \in DOMAIN jobs'
    BY <1>3, <1>4, <1>9 DEF JobsGrow
  <2>4. ans \in Statuses \cup {"lost", "denied", "refused", "none", "ready"} /\ ans \notin {"lost", "denied"}
    BY <1>7, <2>2, <2>3 DEF Statuses
  <2> QED BY <1>1, <1>2, <1>4, <1>5, <1>9, <2>1, <2>2, <2>4, AnsweredKeeps
<1>10. CASE r.op = "restore"
  <2>1. \/ ReadyHuman /\ answer = <<NoKey, "ready">>
        \/ ~ReadyHuman /\ answer = <<NoKey, "none">>
        \/ ~ReadyHuman /\ \E k \in DOMAIN jobs : Unfinished(k) /\ answer = <<k, jobs[k].status>>
    BY <1>5, <1>6, <1>10 DEF Answers
  <2>2. ReadyHuman <=> jobs[first].status = "succeeded"
    BY <1>7 DEF ReadyHuman
  <2>3. CASE answer = <<NoKey, "ready">>
    BY <1>1, <1>4, <1>5, <1>10, <2>3, AnsweredKeeps
  <2>4. CASE ~ReadyHuman /\ answer = <<NoKey, "none">>
    BY <1>1, <1>4, <1>5, <1>10, <2>2, <2>4, AnsweredKeeps
  <2>5. ASSUME ~ReadyHuman, NEW k \in DOMAIN jobs, Unfinished(k), answer = <<k, jobs[k].status>>
        PROVE  RInv'
    <3>1. jobs[k].status \in {"running", "cancelling"} /\ k \in Keys
      BY <1>7, <2>5 DEF Unfinished
    <3>2. jobs[k].status \in Statuses \cup {"lost", "denied", "refused", "none", "ready"}
      BY <3>1 DEF Statuses
    <3> QED BY <1>1, <1>4, <1>5, <1>10, <2>2, <2>5, <3>1, <3>2, AnsweredKeeps
  <2> QED BY <2>1, <2>3, <2>4, <2>5
<1> QED BY <1>2, <1>8, <1>9, <1>10

\* The connection fails, before or after the service has done its part.
LEMMA LoseCardKeeps ==
  ASSUME RInv, NEW r \in sent, NEW how \in {"lost", "denied"}, LoseRequest(r, how), Service
  PROVE  RInv'
<1>1. LoseRequest(r, how) /\ Service
  OBVIOUS
<1>2. /\ r \in CardRequests /\ r \in Pending /\ AskOK(r) /\ LeftOK /\ card' = card /\ resumable' = resumable /\ aside' = aside
      /\ faults' = faults + 1 /\ faults \in Nat
  BY <1>1 DEF RInv, AsksOK, LeftOK, Pending, LoseRequest, Service, cardVars, asideVars
<1>3. r.op \in {"poll", "cancel", "retry", "cleanup", "restore"} /\ r.mode = "none" /\ r.key \in Keys \cup {NoKey}
  BY <1>2 DEF CardRequests, AskedOps, CardOps
<1>4. r.op # "restore" => r.key \in DOMAIN jobs
  BY <1>2 DEF AskOK
<1>5. JobsGrow
  <2>1. CASE Apply(r)
    BY <1>2, <1>3, <1>4, <2>1, ReadIsFault, ApplyGrows
  <2>2. CASE UNCHANGED <<jobs, first>>
    BY <1>2, <2>2 DEF JobsGrow, LeftOK
  <2> QED BY <1>1, <2>1, <2>2 DEF LoseRequest
<1>6. Reply(r, <<r.key, how>>)
  BY <1>1 DEF LoseRequest
<1>7. how \in Statuses \cup {"lost", "denied", "refused", "none", "ready"} /\ how # "succeeded"
  OBVIOUS
<1>8. faults' \in Nat /\ faults <= faults' /\ faults' > faults
  BY <1>2
<1> QED BY <1>2, <1>3, <1>5, <1>6, <1>7, <1>8, AnsweredKeeps

\* The service has read the job for a request, and will act on what it has read.
LEMMA ReadCardKeeps == ASSUME RInv, NEW r \in sent, ReadFirst(r), Service PROVE RInv'
<1>1. r \in CardRequests /\ r \in Pending /\ AskOK(r) /\ LeftOK /\ AsksOK /\ r.op \in {"cancel", "retry", "cleanup"}
  BY DEF RInv, AsksOK, Pending, ReadFirst, Accepts
<1>2. PICK count \in Nat : count = jobs[r.key].retries
  BY <1>1 DEF AskOK, LeftOK, KnownJobs
<1>3. PICK p : p = [r EXCEPT !.read = count]
  OBVIOUS
<1>4. /\ sent' = (sent \ {r}) \cup {p} /\ jobs' = jobs /\ first' = first /\ inbox' = inbox /\ faults' = faults + 1
      /\ card' = card /\ resumable' = resumable /\ aside' = aside
  BY <1>2, <1>3 DEF ReadFirst, Service, cardVars, asideVars
<1>5. p \in CardRequests /\ p.by = r.by /\ p.op = r.op /\ p.key = r.key /\ ~IsPoll(p) /\ ~IsPoll(r)
  BY <1>1, <1>3 DEF CardRequests, IsPoll
<1>6. faults' \in Nat /\ faults' > 0 /\ faults' # 0
  BY <1>1, <1>4 DEF LeftOK
<1>7. /\ ToSet(inbox') = ToSet(inbox) /\ Pending' \subseteq Pending \cup {p} /\ Polls' = Polls
  BY <1>4, <1>5 DEF Pending, Polls, IsPoll, ToSet
<1>8. LeftOK'
  BY <1>1, <1>4, <1>6 DEF LeftOK
<1>9. AsksOK'
  <2>1. \A q \in Pending' : AskOK(q)'
    BY <1>1, <1>4, <1>5, <1>7 DEF AsksOK, AskOK
  <2>2. \A a \in ToSet(inbox') : AnswerOK(a)'
    BY <1>1, <1>4, <1>6, <1>7 DEF AsksOK, AnswerOK
  <2>3. sent' \in SUBSET CardRequests /\ inbox' \in Seq(CardAnswers)
    BY <1>1, <1>4, <1>5 DEF AsksOK
  <2> QED BY <1>6, <2>1, <2>2, <2>3 DEF AsksOK
<1>10. OneOK' /\ WatchedOK' /\ FlagOK'
  BY <1>4, <1>7 DEF RInv, OneOK, WatchedOK, FlagOK
<1>11. HandsOver'
  BY <1>6 DEF HandsOver
<1> QED BY <1>8, <1>9, <1>10, <1>11 DEF RInv

LEMMA FailKeeps == ASSUME RInv, Fail PROVE RInv'
BY LoseCardKeeps, ReadCardKeeps DEF Fail

\* A job moves on, or something is done about it elsewhere.
LEMMA JobMovesKeeps == ASSUME RInv, JobMoves PROVE RInv'
<1>1. PICK k \in DOMAIN jobs : JobAdvances(k) /\ Service
  BY DEF JobMoves
<1>2. PICK s \in Outcomes(jobs[k]) : jobs' = [jobs EXCEPT ![k].status = s]
  BY <1>1 DEF JobAdvances
<1>3. s \in Statuses /\ jobs[k].status # "succeeded"
  BY <1>2 DEF Outcomes, Statuses
<1>4. jobs \in [DOMAIN jobs -> KnownJobs] /\ DOMAIN jobs \subseteq Keys
  BY DEF RInv, LeftOK
<1>5. [jobs[k] EXCEPT !.status = s] \in KnownJobs
  BY <1>3, <1>4 DEF KnownJobs
<1>6. jobs' = [jobs EXCEPT ![k] = [jobs[k] EXCEPT !.status = s]]
  BY <1>2
<1>7. UNCHANGED <<first, sent, inbox, faults, card, resumable, aside>>
  BY <1>1 DEF JobAdvances, Service, cardVars, asideVars
<1>8. JobsGrow
  BY <1>3, <1>4, <1>5, <1>6, <1>7 DEF JobsGrow
<1> QED BY <1>7, <1>8, WorldMoves

LEMMA ElsewhereKeeps ==
  ASSUME RInv, NEW op \in {"create", "cancel", "retry", "cleanup"}, NEW key \in Keys, Elsewhere(op, key)
  PROVE  RInv'
<1>1. /\ Apply(Request(Gone, op, key)) /\ UNCHANGED <<sent, inbox, faults, card, resumable, aside>>
      /\ op # "create" => key \in DOMAIN jobs
  BY DEF Elsewhere, Known, asideVars
<1>2. /\ Request(Gone, op, key).op = op /\ Request(Gone, op, key).key = key /\ Request(Gone, op, key).mode = "none"
      /\ Request(Gone, op, key).read = NotRead
  BY DEF Request
<1>3. JobsGrow
  BY <1>1, <1>2, ApplyGrows DEF RInv
<1> QED BY <1>1, <1>3, WorldMoves

-----------------------------------------------------------------------------
\* Requests are given up and sent, and the card changes: the types.
LEMMA RedirectKeeps ==
  ASSUME RInv, NEW given, NEW rs \in SUBSET FreshRequests, Redirect(given, rs), \A q \in rs : AskOK(q)',
         card' \in CardRecords, card.up => card'.up, card'.up => card'.key \in DOMAIN jobs /\ card'.of \in DOMAIN jobs,
         card'.timer => card'.up, aside' => ~card'.up, resumable' \in DOMAIN jobs \cup {NoKey}
  PROVE  LeftOK' /\ AsksOK'
<1>1. /\ sent' = (sent \ given) \cup rs /\ ToSet(inbox') = ToSet(inbox) \ given
      /\ inbox' \in Seq(CardAnswers) /\ Pending' = (Pending \ given) \cup rs
      /\ jobs' = jobs /\ first' = first /\ faults' = faults
  BY RedirectMoves DEF RInv
<1>2. LeftOK'
  BY <1>1 DEF RInv, LeftOK
<1>3. \A q \in Pending : AskOK(q)'
  BY <1>1 DEF RInv, AsksOK, AskOK
<1>4. \A a \in ToSet(inbox) : AnswerOK(a)'
  BY <1>1 DEF RInv, AsksOK, AnswerOK
<1>5. sent' \in SUBSET CardRequests
  BY <1>1 DEF RInv, AsksOK, FreshRequests
<1>6. AsksOK'
  <2>1. \A q \in sent' : q.read # NotRead => faults' > 0
    BY <1>1 DEF RInv, AsksOK, FreshRequests
  <2> QED BY <1>1, <1>3, <1>4, <1>5, <2>1 DEF AsksOK
<1> QED BY <1>2, <1>6

\* Nothing that the app waits for is given up.
LEMMA HandsKept ==
  ASSUME RInv, NEW given, NEW rs, Redirect(given, rs), \A q \in given : q.by # App,
         card'.up => \/ card'.shown # "succeeded"
                     \/ card.up /\ card'.of = card.of /\ card'.shown = card.shown
  PROVE  HandsOver'
<1>1. /\ ToSet(inbox') = ToSet(inbox) \ given /\ Pending' = (Pending \ given) \cup rs
      /\ jobs' = jobs /\ first' = first /\ faults' = faults
  BY RedirectMoves DEF RInv
<1> QED BY <1>1 DEF RInv, HandsOver

\* Whose the polls are.
LEMMA PollersAre ==
  ASSUME RInv
  PROVE  /\ \A q \in Polls : q.by \in {Card, Again} /\ q \in Pending /\ card.up /\ IsPoll(q)
         /\ Active \subseteq Polls /\ (\A q \in Active : q.by # App)
         /\ Active = {q \in Polls : q.by = card.active}
         /\ Free \in {Card, Again} /\ (Polls = {} => Free = Card)
<1>1. \A q \in Polls : q.by \in {Card, Again} /\ q \in Pending /\ card.up /\ IsPoll(q)
  BY DEF RInv, AsksOK, AskOK, Polls, IsPoll
<1>2. Active = {q \in Polls : q.by = card.active}
  BY DEF Active, Waiting, Polls, Pending
<1>3. Free \in {Card, Again} /\ (Polls = {} => Free = Card)
  BY DEF Free, Flies, Waiting, Polls, Pending
<1> QED BY <1>1, <1>2, <1>3, AskersDiffer

\* A poll is no other request.
LEMMA PollIsPoll ==
  ASSUME NEW by \in {Card, Again}, NEW key \in Keys
  PROVE  /\ PollOf(by, key) \in FreshRequests /\ IsPoll(PollOf(by, key))
         /\ PollOf(by, key).by = by /\ PollOf(by, key).op = "poll" /\ PollOf(by, key).key = key
<1>1. by \in Askers /\ "poll" \in AskedOps
  BY AskersDiffer DEF AskedOps, CardOps
<1> QED BY <1>1, AskIsTyped DEF PollOf, IsPoll

\* The timer fires, or the user asks for a check.
LEMMA RequestPollKeeps == ASSUME RInv, card.up, RequestPoll(card), CardOnly PROVE RInv'
<1> DEFINE now == ~card.ended /\ ~card.flying
           rs  == IF now THEN {PollOf(Free, card.key)} ELSE {}
<1>1. /\ card' = [card EXCEPT !.timer = FALSE, !.flying = @ \/ now, !.active = IF now THEN Free ELSE @]
      /\ Redirect({}, rs) /\ resumable' = resumable /\ aside' = aside
  BY DEF RequestPoll, CardOnly, asideVars
<1>2. /\ card \in CardRecords /\ card.key \in DOMAIN jobs /\ card.of \in DOMAIN jobs /\ DOMAIN jobs \subseteq Keys
      /\ resumable \in DOMAIN jobs \cup {NoKey} /\ ~aside
  BY DEF RInv, LeftOK
<1>3. Free \in {Card, Again} /\ (Polls = {} => Free = Card)
  BY PollersAre
<1>4. /\ card' \in CardRecords /\ card'.timer = FALSE /\ card'.flying = (card.flying \/ now) /\ card'.up
      /\ card'.active = (IF now THEN Free ELSE card.active) /\ card'.key = card.key /\ card'.of = card.of
      /\ card'.shown = card.shown /\ card'.ended = card.ended /\ card'.twice = card.twice
  BY <1>1, <1>2, <1>3 DEF CardRecords
<1>5. PollOf(Free, card.key) \in FreshRequests /\ IsPoll(PollOf(Free, card.key))
      /\ PollOf(Free, card.key).by = Free /\ PollOf(Free, card.key).op = "poll" /\ PollOf(Free, card.key).key = card.key
  BY <1>2, <1>3, PollIsPoll
<1>6. /\ Polls' = Polls \cup {q \in rs : IsPoll(q)} /\ jobs' = jobs
  BY <1>1, RedirectMoves DEF RInv
<1>7. LeftOK' /\ AsksOK'
  <2>1. \A q \in rs : AskOK(q)'
    BY <1>2, <1>3, <1>4, <1>5, <1>6, AskersDiffer DEF AskOK
  <2>2. rs \in SUBSET FreshRequests
    BY <1>5
  <2> HIDE DEF rs
  <2> QED BY <1>1, <1>2, <1>4, <2>1, <2>2, RedirectKeeps
<1>8. HandsOver'
  <2> HIDE DEF rs
  <2> QED BY <1>1, <1>4, HandsKept
<1>9. CASE now
  <2>1. Polls' = Polls \cup {PollOf(Free, card.key)}
    BY <1>5, <1>6, <1>9
  <2>2. ~card.twice => Polls = {}
    BY <1>9 DEF RInv, OneOK
  <2>3. OneOK'
    BY <1>3, <1>4, <1>5, <1>9, <2>1, <2>2 DEF OneOK
  <2>4. WatchedOK' /\ FlagOK'
    BY <2>1 DEF WatchedOK, FlagOK
  <2> QED BY <1>7, <1>8, <2>3, <2>4 DEF RInv
<1>10. CASE ~now
  <2>1. Polls' = Polls
    BY <1>6, <1>10
  <2>2. OneOK' /\ WatchedOK' /\ FlagOK'
    BY <1>4, <1>10, <2>1 DEF RInv, OneOK, WatchedOK, FlagOK
  <2> QED BY <1>7, <1>8, <2>2 DEF RInv
<1> QED BY <1>9, <1>10

\* The user cancels, retries, or cleans up.
LEMMA CardActionKeeps ==
  ASSUME RInv, NEW op \in {"cancel", "retry", "cleanup"}, CardAction(op)
  PROVE  RInv'
<1>0. PICK r : r = Request(Card, op, card.of)
  OBVIOUS
<1>1. /\ card.up /\ card' = [card EXCEPT !.busy = op] /\ Redirect({}, {r}) /\ resumable' = resumable /\ aside' = aside
  BY <1>0 DEF CardAction, CardOnly, asideVars
<1>2. /\ card \in CardRecords /\ card.key \in DOMAIN jobs /\ card.of \in DOMAIN jobs /\ DOMAIN jobs \subseteq Keys
      /\ resumable \in DOMAIN jobs \cup {NoKey} /\ ~aside
  BY <1>1 DEF RInv, LeftOK
<1>3. /\ card' \in CardRecords /\ card'.timer = card.timer /\ card'.flying = card.flying /\ card'.up
      /\ card'.active = card.active /\ card'.key = card.key /\ card'.of = card.of
      /\ card'.shown = card.shown /\ card'.ended = card.ended /\ card'.twice = card.twice
  BY <1>1, <1>2 DEF CardRecords
<1>4. r \in FreshRequests /\ r.by = Card /\ r.op = op /\ r.key = card.of /\ ~IsPoll(r)
  <2>1. op \in AskedOps /\ card.of \in Keys \cup {NoKey}
    BY <1>2 DEF AskedOps, CardOps
  <2> QED BY <1>0, <2>1, AskIsTyped, AskersDiffer DEF IsPoll
<1>5. Polls' = Polls /\ jobs' = jobs
  <2>1. Polls' = (Polls \ {}) \cup {q \in {r} : IsPoll(q)} /\ jobs' = jobs
    BY <1>1, RedirectMoves DEF RInv
  <2> QED BY <1>4, <2>1
<1>6. AskOK(r)'
  BY <1>1, <1>2, <1>3, <1>4, <1>5, AskersDiffer DEF AskOK
<1>7. LeftOK' /\ AsksOK'
  BY <1>1, <1>2, <1>3, <1>4, <1>6, RedirectKeeps DEF RInv, LeftOK
<1>8. HandsOver'
  BY <1>1, <1>3, HandsKept
<1>9. OneOK' /\ WatchedOK' /\ FlagOK'
  BY <1>1, <1>3, <1>5 DEF RInv, OneOK, WatchedOK, FlagOK
<1> QED BY <1>7, <1>8, <1>9 DEF RInv

-----------------------------------------------------------------------------
\* The answers to the card.

\* An answer that has arrived.
LEMMA ArrivedIs ==
  ASSUME RInv, NEW n \in DOMAIN inbox
  PROVE  /\ inbox[n] \in ToSet(inbox) /\ inbox[n] \in CardAnswers /\ inbox[n] \in Pending
         /\ AskOK(inbox[n]) /\ AnswerOK(inbox[n])
BY AnswersAreTyped DEF RInv, AsksOK, Pending

\* A card whose polling has ended has no poll, unless it was restarted for another job.
LEMMA StoppedKeeps ==
  ASSUME RInv, NEW given, NEW rs, Redirect(given, rs), \A q \in rs : ~IsPoll(q),
         card'.ended, card'.twice = card.twice, ~card.twice => Polls \subseteq given
  PROVE  OneOK' /\ WatchedOK' /\ FlagOK'
<1>1. Polls' = (Polls \ given) \cup {q \in rs : IsPoll(q)}
  BY RedirectMoves DEF RInv
<1>2. ~card'.twice => Polls' = {}
  BY <1>1
<1> QED BY <1>2 DEF OneOK, WatchedOK, FlagOK

\* The card's poll is answered.
LEMMA PolledKeeps ==
  ASSUME RInv, NEW n \in DOMAIN inbox, inbox[n].by \in {Card, Again}, card.up, CardPolled(n, inbox[n]), CardOnly
  PROVE  RInv'
<1>0. PICK r : r = inbox[n]
  OBVIOUS
<1> DEFINE seen == IF r.ans \in {"lost", "denied"} THEN card ELSE [card EXCEPT !.shown = r.ans, !.of = r.key]
           idle == [seen EXCEPT !.flying = FALSE, !.active = IF @ = r.by THEN Gone ELSE @]
           ends == r.ans \in CardEnds \cup {"denied"}
<1>1. /\ r \in ToSet(inbox) /\ r \in CardAnswers /\ r \in Pending /\ AskOK(r) /\ AnswerOK(r)
      /\ r.by \in {Card, Again} /\ r.op = "poll" /\ r \in Polls
  BY <1>0, ArrivedIs DEF CardPolled, Polls, IsPoll
<1>2. resumable' = resumable /\ aside' = aside
  BY DEF CardOnly, asideVars
<1>3. /\ card \in CardRecords /\ card.key \in DOMAIN jobs /\ card.of \in DOMAIN jobs /\ DOMAIN jobs \subseteq Keys
      /\ resumable \in DOMAIN jobs \cup {NoKey} /\ ~aside /\ faults \in Nat
  BY DEF RInv, LeftOK
<1>4. r.key \in DOMAIN jobs /\ r.key \in Keys /\ r.ans \in Statuses \cup {"lost", "denied"}
  BY <1>1, <1>3 DEF AskOK, AnswerOK
<1>5. /\ seen \in CardRecords /\ seen.up /\ seen.key = card.key /\ seen.ended = card.ended /\ seen.twice = card.twice
      /\ seen.timer = card.timer /\ seen.of \in DOMAIN jobs
      /\ r.ans \in {"lost", "denied"} => seen.of = card.of /\ seen.shown = card.shown
      /\ r.ans \notin {"lost", "denied"} => seen.of = r.key /\ seen.shown = r.ans
  <2>1. CASE r.ans \in {"lost", "denied"}
    BY <1>3, <2>1
  <2>2. CASE r.ans \notin {"lost", "denied"}
    BY <1>3, <1>4, <2>2 DEF CardRecords
  <2> QED BY <2>1, <2>2
<1> HIDE DEF seen
<1>6. /\ idle \in CardRecords /\ idle.up /\ idle.key = card.key /\ idle.ended = card.ended /\ idle.twice = card.twice
      /\ idle.timer = card.timer /\ idle.of = seen.of /\ idle.shown = seen.shown /\ ~idle.flying
  BY <1>5 DEF CardRecords
<1>7. /\ IF ends
         THEN /\ card' = Stop(idle)
              /\ Redirect({r} \cup Active \cup IF Restores(r) # {} THEN Waiting(App) ELSE {}, Restores(r))
         ELSE card' = [idle EXCEPT !.timer = @ \/ Reschedules(r)] /\ Redirect({r}, {})
  BY <1>0 DEF CardPolled, seen
<1> HIDE DEF idle
<1>8. CASE ends
  <2>1. PICK given : given = {r} \cup Active \cup IF Restores(r) # {} THEN Waiting(App) ELSE {}
    OBVIOUS
  <2>2. card' = Stop(idle) /\ Redirect(given, Restores(r))
    BY <1>7, <1>8, <2>1
  <2>3. /\ card' \in CardRecords /\ card'.up /\ card'.ended /\ ~card'.timer /\ ~card'.flying /\ card'.twice = card.twice
        /\ card'.key = card.key /\ card'.of = seen.of /\ card'.shown = seen.shown
    BY <1>6, <2>2 DEF Stop, CardRecords
  <2>4. Restore \in FreshRequests /\ Restore.by = App /\ Restore.op = "restore" /\ ~IsPoll(Restore)
    BY AskIsTyped, AskersDiffer DEF Restore, AskedOps, IsPoll
  <2>5. Restores(r) \in SUBSET {Restore} /\ (r.ans \in CardEnds => Restores(r) = {Restore})
    BY DEF Restores
  <2>6. \A q \in Restores(r) : AskOK(q)' /\ ~IsPoll(q)
    BY <2>4, <2>5, AskersDiffer DEF AskOK
  <2>7. LeftOK' /\ AsksOK'
    <3>1. Restores(r) \in SUBSET FreshRequests
      BY <2>4, <2>5
    <3> QED BY <1>2, <1>3, <1>5, <2>2, <2>3, <2>6, <3>1, RedirectKeeps
  <2>8. OneOK' /\ WatchedOK' /\ FlagOK'
    <3>1. ~card.twice => Polls \subseteq given
      BY <1>1, <2>1 DEF RInv, OneOK
    <3> QED BY <2>2, <2>3, <2>6, <3>1, StoppedKeeps
  <2>9. HandsOver'
    <3> SUFFICES ASSUME card'.of = first', card'.shown = "succeeded", faults' = 0
                 PROVE  /\ jobs'[first'].status = "succeeded"
                        /\ \E q \in Pending' : q.by = App
                        /\ \A a \in ToSet(inbox)' : a.by = App => a.ans = "ready"
      BY DEF HandsOver
    <3>1. /\ ToSet(inbox') = ToSet(inbox) \ given /\ Pending' = (Pending \ given) \cup Restores(r)
          /\ jobs' = jobs /\ first' = first /\ faults' = faults
      BY <2>2, RedirectMoves DEF RInv
    <3>2. r.ans \notin {"lost", "denied"}
      BY <1>1, <1>3, <3>1 DEF AnswerOK
    <3>3. r.key = first /\ r.ans = "succeeded"
      BY <1>5, <2>3, <3>1, <3>2
    <3>4. jobs[first].status = "succeeded" /\ Restores(r) = {Restore}
      BY <1>1, <2>5, <3>1, <3>3 DEF AnswerOK, CardEnds
    <3>5. \A a \in ToSet(inbox) : a.by = App => a \in given
      BY <2>1, <3>4 DEF Waiting
    <3> QED BY <2>4, <3>1, <3>4, <3>5
  <2> QED BY <2>7, <2>8, <2>9 DEF RInv
<1>9. CASE ~ends
  <2>1. card' = [idle EXCEPT !.timer = @ \/ Reschedules(r)] /\ Redirect({r}, {})
    BY <1>7, <1>9
  <2>2. /\ card' \in CardRecords /\ card'.up /\ card'.ended = card.ended /\ ~card'.flying /\ card'.twice = card.twice
        /\ card'.key = card.key /\ card'.of = seen.of /\ card'.shown = seen.shown
        /\ card'.timer = (card.timer \/ ~card.ended)
    BY <1>6, <2>1 DEF Reschedules, CardRecords
  <2>3. LeftOK' /\ AsksOK'
    BY <1>2, <1>3, <1>5, <2>1, <2>2, RedirectKeeps
  <2>4. Polls' = Polls \ {r}
    <3>1. Polls' = (Polls \ {r}) \cup {q \in {} : IsPoll(q)}
      BY <2>1, RedirectMoves DEF RInv
    <3> QED BY <3>1
  <2>5. OneOK' /\ WatchedOK' /\ FlagOK'
    BY <1>1, <2>2, <2>4 DEF RInv, OneOK, WatchedOK, FlagOK
  <2>6. HandsOver'
    <3>1. r.by # App
      BY <1>1, AskersDiffer
    <3>2. card'.shown # "succeeded" \/ (card'.of = card.of /\ card'.shown = card.shown)
      BY <1>5, <1>9, <2>2 DEF CardEnds
    <3> QED BY <2>1, <3>1, <3>2, HandsKept
  <2> QED BY <2>3, <2>5, <2>6 DEF RInv
<1> QED BY <1>8, <1>9

\* The cancellation is answered: the polling stops with it.
LEMMA CancelledCardKeeps ==
  ASSUME RInv, NEW n \in DOMAIN inbox, inbox[n].by \in {Card, Again}, card.up, CardCancelled(n, inbox[n]), CardOnly
  PROVE  RInv'
<1>0. PICK r : r = inbox[n]
  OBVIOUS
<1>1. r \in Pending /\ AskOK(r) /\ r.by \in {Card, Again} /\ r.op = "cancel" /\ ~IsPoll(r) /\ r.by # App
  BY <1>0, ArrivedIs, AskersDiffer DEF CardCancelled, IsPoll
<1>2. resumable' = resumable /\ aside' = aside
  BY DEF CardOnly, asideVars
<1>3. /\ card \in CardRecords /\ card.key \in DOMAIN jobs /\ card.of \in DOMAIN jobs /\ DOMAIN jobs \subseteq Keys
      /\ resumable \in DOMAIN jobs \cup {NoKey} /\ ~aside
  BY DEF RInv, LeftOK
<1>4. CASE card' = [card EXCEPT !.busy = "no"] /\ Redirect({r}, {})
  <2>1. /\ card' \in CardRecords /\ card'.up /\ card'.ended = card.ended /\ card'.flying = card.flying
        /\ card'.twice = card.twice /\ card'.key = card.key /\ card'.of = card.of /\ card'.shown = card.shown
        /\ card'.timer = card.timer /\ card'.active = card.active
    BY <1>3, <1>4 DEF CardRecords
  <2>2. LeftOK' /\ AsksOK'
    BY <1>2, <1>3, <1>4, <2>1, RedirectKeeps
  <2>3. Polls' = Polls
    <3>1. Polls' = (Polls \ {r}) \cup {q \in {} : IsPoll(q)}
      BY <1>4, RedirectMoves DEF RInv
    <3>2. r \notin Polls
      BY <1>1 DEF Polls
    <3> QED BY <3>1, <3>2
  <2>4. OneOK' /\ WatchedOK' /\ FlagOK'
    BY <2>1, <2>3 DEF RInv, OneOK, WatchedOK, FlagOK
  <2>5. HandsOver'
    BY <1>1, <1>4, <2>1, HandsKept
  <2> QED BY <2>2, <2>4, <2>5 DEF RInv
<1>5. CASE card' = [Stop(card) EXCEPT !.busy = "no"] /\ Redirect({r} \cup Active, {})
  <2>1. /\ card' \in CardRecords /\ card'.up /\ card'.ended /\ ~card'.timer
        /\ card'.twice = card.twice /\ card'.key = card.key /\ card'.of = card.of /\ card'.shown = card.shown
    <3>1. PICK c : c = Stop(card)
      OBVIOUS
    <3>2. /\ c \in CardRecords /\ c.up = card.up /\ c.ended /\ ~c.timer
          /\ c.twice = card.twice /\ c.key = card.key /\ c.of = card.of /\ c.shown = card.shown
      BY <1>3, <3>1 DEF Stop, CardRecords
    <3>3. card' = [c EXCEPT !.busy = "no"]
      BY <1>5, <3>1
    <3> QED BY <3>2, <3>3 DEF CardRecords
  <2>2. PICK given : given = {r} \cup Active
    OBVIOUS
  <2>3. LeftOK' /\ AsksOK'
    BY <1>2, <1>3, <1>5, <2>1, <2>2, RedirectKeeps
  <2>4. OneOK' /\ WatchedOK' /\ FlagOK'
    <3>1. ~card.twice => Polls \subseteq given
      BY <2>2, PollersAre DEF RInv, OneOK
    <3> QED BY <1>5, <2>1, <2>2, <3>1, StoppedKeeps
  <2>5. HandsOver'
    <3>1. \A q \in given : q.by # App
      BY <1>1, <2>2, PollersAre
    <3> QED BY <1>5, <2>1, <2>2, <3>1, HandsKept
  <2> QED BY <2>3, <2>4, <2>5 DEF RInv
<1> QED BY <1>0, <1>4, <1>5 DEF CardCancelled

\* A retry or a clean-up is answered: a check follows, unless the polling has ended.
LEMMA ActedKeeps ==
  ASSUME RInv, NEW n \in DOMAIN inbox, inbox[n].by \in {Card, Again}, card.up, CardActed(n, inbox[n]), CardOnly
  PROVE  RInv'
<1>0. PICK r : r = inbox[n]
  OBVIOUS
<1> DEFINE done  == r.ans \notin {"lost", "denied", "refused"}
           polls == done /\ ~card.ended /\ ~card.flying
           rs    == IF polls THEN {PollOf(Free, card.key)} ELSE {}
<1>1. r \in Pending /\ AskOK(r) /\ r.by \in {Card, Again} /\ ~IsPoll(r) /\ r.by # App
  BY <1>0, ArrivedIs, AskersDiffer DEF CardActed, IsPoll
<1>2. resumable' = resumable /\ aside' = aside
  BY DEF CardOnly, asideVars
<1>3. /\ card \in CardRecords /\ card.key \in DOMAIN jobs /\ card.of \in DOMAIN jobs /\ DOMAIN jobs \subseteq Keys
      /\ resumable \in DOMAIN jobs \cup {NoKey} /\ ~aside
  BY DEF RInv, LeftOK
<1>4. /\ card' = [card EXCEPT !.busy = "no", !.timer = @ /\ ~done, !.flying = @ \/ polls,
                              !.active = IF polls THEN Free ELSE @]
      /\ Redirect({r}, rs)
  BY <1>0 DEF CardActed
<1>5. Free \in {Card, Again} /\ (Polls = {} => Free = Card)
  BY PollersAre
<1>6. /\ card' \in CardRecords /\ card'.timer = (card.timer /\ ~done) /\ card'.flying = (card.flying \/ polls)
      /\ card'.up /\ card'.active = (IF polls THEN Free ELSE card.active) /\ card'.key = card.key /\ card'.of = card.of
      /\ card'.shown = card.shown /\ card'.ended = card.ended /\ card'.twice = card.twice
  <2>1. PICK d \in BOOLEAN : d = (card.timer /\ ~done)
    OBVIOUS
  <2>2. PICK f \in BOOLEAN : f = (card.flying \/ polls)
    OBVIOUS
  <2>3. PICK by \in {Card, Again, Gone} : by = IF polls THEN Free ELSE card.active
    BY <1>3, <1>5 DEF CardRecords
  <2> HIDE DEF done, polls
  <2>4. card' = [card EXCEPT !.busy = "no", !.timer = d, !.flying = f, !.active = by]
    BY <1>4, <2>1, <2>2, <2>3
  <2>5. /\ card' \in CardRecords /\ card'.timer = d /\ card'.flying = f /\ card'.up = card.up /\ card'.active = by
        /\ card'.key = card.key /\ card'.of = card.of /\ card'.shown = card.shown /\ card'.ended = card.ended
        /\ card'.twice = card.twice
    BY <1>3, <2>4 DEF CardRecords
  <2> QED BY <2>1, <2>2, <2>3, <2>5
<1>7. PollOf(Free, card.key) \in FreshRequests /\ IsPoll(PollOf(Free, card.key))
      /\ PollOf(Free, card.key).by = Free /\ PollOf(Free, card.key).op = "poll" /\ PollOf(Free, card.key).key = card.key
  BY <1>3, <1>5, PollIsPoll
<1>8. Polls' = Polls \cup {q \in rs : IsPoll(q)} /\ jobs' = jobs
  <2>1. Polls' = (Polls \ {r}) \cup {q \in rs : IsPoll(q)} /\ jobs' = jobs
    BY <1>4, RedirectMoves DEF RInv
  <2>2. r \notin Polls
    BY <1>1 DEF Polls
  <2> QED BY <2>1, <2>2
<1>9. LeftOK' /\ AsksOK'
  <2>1. \A q \in rs : AskOK(q)'
    BY <1>3, <1>5, <1>6, <1>7, <1>8, AskersDiffer DEF AskOK
  <2>2. rs \in SUBSET FreshRequests
    BY <1>7
  <2> HIDE DEF rs, polls
  <2>3. card'.timer => card'.up
    BY <1>6
  <2> QED BY <1>2, <1>3, <1>4, <1>6, <2>1, <2>2, <2>3, RedirectKeeps
<1>10. HandsOver'
  <2> HIDE DEF rs
  <2> QED BY <1>1, <1>4, <1>6, HandsKept
<1>11. CASE polls
  <2>1. Polls' = Polls \cup {PollOf(Free, card.key)}
    BY <1>7, <1>8, <1>11
  <2>2. ~card.twice => Polls = {}
    BY <1>11 DEF RInv, OneOK
  <2>3. OneOK'
    BY <1>5, <1>6, <1>7, <1>11, <2>1, <2>2 DEF OneOK
  <2>4. WatchedOK' /\ FlagOK'
    BY <2>1 DEF WatchedOK, FlagOK
  <2> QED BY <1>9, <1>10, <2>3, <2>4 DEF RInv
<1>12. CASE ~polls
  <2>1. Polls' = Polls
    BY <1>8, <1>12
  <2>2. OneOK' /\ WatchedOK' /\ FlagOK'
    BY <1>6, <1>12, <2>1 DEF RInv, OneOK, WatchedOK, FlagOK
  <2> QED BY <1>9, <1>10, <2>2 DEF RInv
<1> QED BY <1>11, <1>12

\* An answer to the card.
LEMMA CardAnswerKeeps == ASSUME RInv, NEW n \in DOMAIN inbox, CardAnswer(n) PROVE RInv'
BY PolledKeeps, CancelledCardKeeps, ActedKeeps DEF CardAnswer

\* An answer that nobody waits for.
LEMMA UnheardKeeps == ASSUME RInv, NEW n \in DOMAIN inbox, Unheard(n) PROVE RInv'
<1>0. PICK r : r = inbox[n]
  OBVIOUS
<1>1. r \in Pending /\ AskOK(r) /\ r.by = Gone /\ r.by # App /\ ~IsPoll(r)
  BY <1>0, ArrivedIs, AskersDiffer DEF Unheard, IsPoll
<1>2. Redirect({r}, {}) /\ card' = card /\ resumable' = resumable /\ aside' = aside
  BY <1>0 DEF Unheard, cardVars, asideVars
<1>3. LeftOK' /\ AsksOK'
  BY <1>2, RedirectKeeps DEF RInv, LeftOK
<1>4. Polls' = Polls
  <2>1. Polls' = (Polls \ {r}) \cup {q \in {} : IsPoll(q)}
    BY <1>2, RedirectMoves DEF RInv
  <2>2. r \notin Polls
    BY <1>1 DEF Polls
  <2> QED BY <2>1, <2>2
<1>5. OneOK' /\ WatchedOK' /\ FlagOK'
  BY <1>2, <1>4 DEF RInv, OneOK, WatchedOK, FlagOK
<1>6. HandsOver'
  BY <1>1, <1>2, HandsKept
<1> QED BY <1>3, <1>5, <1>6 DEF RInv

-----------------------------------------------------------------------------
\* The card comes and goes.

\* A card that goes leaves no poll behind.
LEMMA LeaveKeeps ==
  ASSUME RInv, NEW given, LeaveToItself(given), card' = NoCard, resumable' \in DOMAIN jobs \cup {NoKey}
  PROVE  RInv'
<1>1. /\ sent' = {IF r.by = Card THEN [r EXCEPT !.by = Gone] ELSE r : r \in {q \in sent : ~IsPoll(q)}}
      /\ ToSet(inbox') = {a \in ToSet(inbox) : a.by \notin {Card, Again} /\ a \notin given}
      /\ inbox' \in Seq(CardAnswers)
      /\ jobs' = jobs /\ first' = first /\ faults' = faults
  BY LeaveMoves DEF RInv
<1>2. card' \in CardRecords /\ ~card'.up /\ ~card'.timer /\ card'.active = Gone
  BY <1>1 DEF NoCard, CardRecords
<1>3. \A q \in sent' : q \in CardRequests /\ AskOK(q)' /\ ~IsPoll(q) /\ (q.read # NotRead => faults > 0)
  <2> SUFFICES ASSUME NEW r \in sent, ~IsPoll(r),
                      NEW q, q = IF r.by = Card THEN [r EXCEPT !.by = Gone] ELSE r
               PROVE  q \in CardRequests /\ AskOK(q)' /\ ~IsPoll(q) /\ (q.read # NotRead => faults > 0)
    BY <1>1
  <2>1. r \in CardRequests /\ AskOK(r) /\ (r.read # NotRead => faults > 0)
    BY DEF RInv, AsksOK, Pending
  <2>2. q \in CardRequests /\ q.op = r.op /\ q.key = r.key /\ q.read = r.read /\ q.by = (IF r.by = Card THEN Gone ELSE r.by)
    BY <2>1, AskersDiffer DEF CardRequests
  <2>3. r.op # "poll" /\ r.by # Again
    BY <2>1 DEF AskOK, IsPoll
  <2> QED BY <1>1, <2>1, <2>2, <2>3, AskersDiffer DEF AskOK, IsPoll
<1>4. \A a \in ToSet(inbox') : AskOK(a)' /\ AnswerOK(a)' /\ ~IsPoll(a)
  <2> SUFFICES ASSUME NEW a \in ToSet(inbox), a.by \notin {Card, Again}
               PROVE  AskOK(a)' /\ AnswerOK(a)' /\ ~IsPoll(a)
    BY <1>1
  <2>1. AskOK(a) /\ AnswerOK(a)
    BY DEF RInv, AsksOK, Pending
  <2> QED BY <1>1, <2>1 DEF AskOK, AnswerOK, IsPoll
<1>5. LeftOK'
  BY <1>1, <1>2 DEF RInv, LeftOK
<1>6. AsksOK'
  BY <1>1, <1>3, <1>4 DEF AsksOK, Pending
<1>7. Polls' = {}
  BY <1>3, <1>4 DEF Polls, Pending, IsPoll
<1>8. OneOK' /\ WatchedOK' /\ FlagOK' /\ HandsOver'
  BY <1>2, <1>7 DEF OneOK, WatchedOK, FlagOK, HandsOver
<1> QED BY <1>5, <1>6, <1>8 DEF RInv

\* A card that comes polls at once.
LEMMA ShownKeeps ==
  ASSUME RInv, ~card.up, NEW given, NEW found \in DOMAIN jobs, NEW status \in {"running", "cancelling"},
         Redirect(given, {PollOf(Card, found)}), \A q \in given : q.by = App \/ q \in Polls,
         card' = CardShown(found, status), ~aside', resumable' = found
  PROVE  RInv'
<1>1. found \in Keys
  BY DEF RInv, LeftOK
<1>2. /\ card' \in CardRecords /\ card'.up /\ card'.key = found /\ card'.of = found /\ card'.shown = status
      /\ ~card'.ended /\ ~card'.timer /\ card'.flying /\ card'.active = Card /\ ~card'.twice
  BY <1>1 DEF CardShown, NoCard, CardRecords, Statuses
<1>3. /\ PollOf(Card, found) \in FreshRequests /\ IsPoll(PollOf(Card, found)) /\ PollOf(Card, found).by = Card
      /\ PollOf(Card, found).op = "poll" /\ PollOf(Card, found).key = found
  BY <1>1, PollIsPoll
<1>4. Polls' = (Polls \ given) \cup {q \in {PollOf(Card, found)} : IsPoll(q)} /\ jobs' = jobs
  BY RedirectMoves DEF RInv
<1>5. Polls' = {PollOf(Card, found)}
  BY <1>3, <1>4, PollersAre
<1>6. AskOK(PollOf(Card, found))'
  BY <1>2, <1>3, <1>4, AskersDiffer DEF AskOK
<1>7. LeftOK' /\ AsksOK'
  <2>1. PICK q : q = PollOf(Card, found)
    OBVIOUS
  <2>2. q \in FreshRequests /\ AskOK(q)'
    BY <1>2, <1>3, <1>4, <2>1, AskersDiffer DEF AskOK
  <2> QED BY <1>2, <2>1, <2>2, RedirectKeeps
<1>8. OneOK' /\ WatchedOK' /\ FlagOK'
  BY <1>2, <1>3, <1>5 DEF OneOK, WatchedOK, FlagOK
<1>9. HandsOver'
  BY <1>2 DEF HandsOver
<1> QED BY <1>7, <1>8, <1>9 DEF RInv

\* The card that is up is given another job, and restarts.
LEMMA RestartKeeps ==
  ASSUME RInv, card.up, NEW r \in ToSet(inbox), r.by = App, r.ans # "ready", NEW found \in DOMAIN jobs,
         ShowJob(found, r), ~aside', resumable' = found
  PROVE  RInv'
<1> DEFINE aborts == Active # {}
<1>1. PICK by : by = IF aborts THEN card.active ELSE Free
  OBVIOUS
<1>2. PICK given : given = {r} \cup Active
  OBVIOUS
<1>3. /\ card' = [card EXCEPT !.key = found, !.ended = FALSE, !.timer = aborts,
                              !.flying = ~aborts, !.active = by, !.twice = @ \/ aborts]
      /\ Redirect(given, {PollOf(by, found)})
  BY <1>1, <1>2 DEF ShowJob
<1>4. /\ card \in CardRecords /\ card.of \in DOMAIN jobs /\ DOMAIN jobs \subseteq Keys /\ found \in Keys
  BY DEF RInv, LeftOK
<1>5. by \in {Card, Again} /\ (Polls = {} => by = Card)
  <2>1. aborts => card.active \in {Card, Again} /\ Polls # {}
    BY PollersAre
  <2> QED BY <1>1, <2>1, PollersAre
<1>6. /\ card' \in CardRecords /\ card'.up /\ card'.key = found /\ ~card'.ended /\ card'.timer = aborts
      /\ card'.flying = ~aborts /\ card'.active = by /\ card'.twice = (card.twice \/ aborts)
      /\ card'.of = card.of /\ card'.shown = card.shown
  <2>1. PICK t \in BOOLEAN : t = aborts
    OBVIOUS
  <2>2. PICK two \in BOOLEAN : two = (card.twice \/ aborts)
    OBVIOUS
  <2>3. card' = [card EXCEPT !.key = found, !.ended = FALSE, !.timer = t, !.flying = ~t, !.active = by, !.twice = two]
    BY <1>3, <2>1, <2>2
  <2> HIDE DEF aborts
  <2>4. /\ card' \in CardRecords /\ card'.up = card.up /\ card'.key = found /\ ~card'.ended /\ card'.timer = t
        /\ card'.flying = ~t /\ card'.active = by /\ card'.twice = two
        /\ card'.of = card.of /\ card'.shown = card.shown
    BY <1>4, <1>5, <2>3 DEF CardRecords
  <2> QED BY <2>1, <2>2, <2>4
<1>7. /\ PollOf(by, found) \in FreshRequests /\ IsPoll(PollOf(by, found)) /\ PollOf(by, found).by = by
      /\ PollOf(by, found).op = "poll" /\ PollOf(by, found).key = found
  BY <1>4, <1>5, PollIsPoll
<1>8. Polls' = (Polls \ given) \cup {PollOf(by, found)} /\ jobs' = jobs
  <2>1. Polls' = (Polls \ given) \cup {q \in {PollOf(by, found)} : IsPoll(q)} /\ jobs' = jobs
    BY <1>3, RedirectMoves DEF RInv
  <2> QED BY <1>7, <2>1
<1>9. LeftOK' /\ AsksOK'
  <2>1. PICK q : q = PollOf(by, found)
    OBVIOUS
  <2>2. q \in FreshRequests /\ AskOK(q)'
    BY <1>5, <1>6, <1>7, <1>8, <2>1, AskersDiffer DEF AskOK
  <2> HIDE DEF aborts
  <2> QED BY <1>3, <1>4, <1>6, <2>1, <2>2, RedirectKeeps
<1>10. OneOK'
  <2> SUFFICES ASSUME ~card.twice, ~aborts
               PROVE  /\ \A q \in Polls' : q.by = Card /\ card'.flying /\ card'.active = Card
                      /\ \A q1, q2 \in Polls' : q1 = q2
    BY <1>6 DEF OneOK
  <2>1. Polls = {}
    BY PollersAre DEF RInv, OneOK
  <2> QED BY <1>5, <1>6, <1>7, <1>8, <2>1
<1>11. WatchedOK' /\ FlagOK'
  BY <1>8 DEF WatchedOK, FlagOK
<1>12. HandsOver'
  <2>1. first' = first /\ faults' = faults
    BY <1>3, RedirectMoves DEF RInv
  <2>2. ~(card.of = first /\ card.shown = "succeeded" /\ faults = 0)
    BY DEF RInv, HandsOver
  <2> QED BY <1>6, <2>1, <2>2 DEF HandsOver
<1> QED BY <1>9, <1>10, <1>11, <1>12 DEF RInv

\* The app has its answer.
LEMMA RestoredKeeps == ASSUME RInv, NEW n \in DOMAIN inbox, Restored(n) PROVE RInv'
<1>0. PICK r : r = inbox[n]
  OBVIOUS
<1>1. PICK found : found = IF r.ans \in {"lost", "denied", "none", "ready"} THEN NoKey ELSE r.key
  OBVIOUS
<1> DEFINE shows == found # NoKey /\ ~restored /\ ~aside
<1>2. /\ r \in ToSet(inbox) /\ r \in Pending /\ AskOK(r) /\ AnswerOK(r) /\ r.by = App /\ r.op = "restore" /\ ~IsPoll(r)
  BY <1>0, ArrivedIs, AskersDiffer DEF Restored, AskOK, IsPoll
<1>3. /\ resumable' = found /\ aside' = aside
      /\ IF shows /\ card.key # found
         THEN ShowJob(found, r)
         ELSE IF shows \/ ~card.up THEN card' = card /\ Redirect({r}, {})
         ELSE card' = NoCard /\ LeaveToItself({r})
  BY <1>0, <1>1 DEF Restored, asideVars
<1>4. NoKey \notin DOMAIN jobs /\ (aside => ~card.up)
  BY RecoveryConstants DEF RInv, LeftOK
<1>5. found # NoKey => /\ found \in DOMAIN jobs /\ r.ans \in {"running", "cancelling"}
                       /\ r.ans \notin {"lost", "denied", "none", "ready"}
  BY <1>1, <1>2 DEF AnswerOK
<1>6. CASE shows /\ card.key # found
  <2>1. CASE card.up
    BY <1>2, <1>3, <1>5, <1>6, <2>1, RestartKeeps
  <2>2. CASE ~card.up
    <3>1. Polls = {} /\ Active = {} /\ Free = Card
      BY <2>2, PollersAre
    <3>2. card' = CardShown(found, r.ans) /\ Redirect({r} \cup Active, {PollOf(Card, found)})
      BY <1>3, <1>6, <2>2, <3>1 DEF ShowJob
    <3>3. PICK given : given = {r} \cup Active
      OBVIOUS
    <3> QED BY <1>2, <1>3, <1>5, <1>6, <2>2, <3>1, <3>2, <3>3, ShownKeeps
  <2> QED BY <2>1, <2>2
<1>7. CASE ~(shows /\ card.key # found) /\ (shows \/ ~card.up)
  <2>1. card' = card /\ Redirect({r}, {})
    BY <1>3, <1>7
  <2>2. LeftOK' /\ AsksOK'
    BY <1>3, <1>4, <1>5, <2>1, RedirectKeeps DEF RInv, LeftOK
  <2>3. /\ Polls' = (Polls \ {r}) \cup {q \in {} : IsPoll(q)} /\ first' = first /\ faults' = faults
    BY <2>1, RedirectMoves DEF RInv
  <2>4. Polls' = Polls
    BY <1>2, <2>3 DEF Polls
  <2>5. OneOK' /\ WatchedOK' /\ FlagOK'
    BY <2>1, <2>4 DEF RInv, OneOK, WatchedOK, FlagOK
  <2>6. HandsOver'
    <3>1. ~(card.up /\ card.of = first /\ card.shown = "succeeded" /\ faults = 0)
      BY <1>2, <1>5, <1>7 DEF RInv, HandsOver
    <3> QED BY <2>1, <2>3, <3>1 DEF HandsOver
  <2> QED BY <2>2, <2>5, <2>6 DEF RInv
<1>8. CASE ~(shows \/ ~card.up)
  BY <1>3, <1>5, <1>8, LeaveKeeps
<1> QED BY <1>6, <1>7, <1>8

\* The header's buttons.
LEMMA CardGoesKeeps == ASSUME RInv, CardGoes PROVE RInv'
<1>1. resumable' = resumable /\ resumable \in DOMAIN jobs \cup {NoKey}
  BY DEF CardGoes, RInv, LeftOK
<1>2. CASE card.up
  BY <1>1, <1>2, LeaveKeeps DEF CardGoes
<1>3. CASE ~card.up
  <2>1. UNCHANGED <<jobs, first, sent, inbox, faults, card, resumable>>
    BY <1>1, <1>3 DEF CardGoes, serverVars
  <2>2. Pending' = Pending /\ Polls' = Polls /\ ToSet(inbox)' = ToSet(inbox)
    BY <2>1 DEF Pending, Polls, IsPoll
  <2>3. LeftOK'
    BY <1>3, <2>1 DEF RInv, LeftOK
  <2>4. AsksOK'
    BY <2>1, <2>2 DEF RInv, AsksOK, AskOK, AnswerOK
  <2>5. OneOK' /\ WatchedOK' /\ FlagOK' /\ HandsOver'
    BY <1>3, <2>1, <2>2 DEF RInv, OneOK, WatchedOK, FlagOK, HandsOver
  <2> QED BY <2>3, <2>4, <2>5 DEF RInv
<1> QED BY <1>2, <1>3

LEMMA CardComesBackKeeps == ASSUME RInv, CardComesBack PROVE RInv'
<1>1. /\ aside /\ ~aside' /\ resumable' = resumable /\ ~card.up /\ resumable \in DOMAIN jobs \cup {NoKey}
  BY DEF CardComesBack, ComeBack, RInv, LeftOK
<1>2. CASE resumable # NoKey /\ ~restored
  <2>1. PICK status \in {"running", "cancelling"} : card' = CardShown(resumable, status)
    BY <1>2 DEF CardComesBack
  <2>2. PICK found \in DOMAIN jobs : found = resumable
    BY <1>1, <1>2
  <2>3. Redirect({}, {PollOf(Card, found)})
    BY <1>2, <2>2 DEF CardComesBack
  <2> QED BY <1>1, <2>1, <2>2, <2>3, ShownKeeps
<1>3. CASE ~(resumable # NoKey /\ ~restored)
  <2>1. UNCHANGED <<jobs, first, sent, inbox, faults, card, resumable>>
    BY <1>1, <1>3 DEF CardComesBack, serverVars
  <2>2. Pending' = Pending /\ Polls' = Polls /\ ToSet(inbox)' = ToSet(inbox)
    BY <2>1 DEF Pending, Polls, IsPoll
  <2>3. LeftOK'
    BY <1>1, <2>1 DEF RInv, LeftOK
  <2>4. AsksOK'
    BY <2>1, <2>2 DEF RInv, AsksOK, AskOK, AnswerOK
  <2>5. OneOK' /\ WatchedOK' /\ FlagOK' /\ HandsOver'
    BY <1>1, <2>1, <2>2 DEF RInv, OneOK, WatchedOK, FlagOK, HandsOver
  <2> QED BY <2>3, <2>4, <2>5 DEF RInv
<1> QED BY <1>2, <1>3

-----------------------------------------------------------------------------
\* The app starts beside a job that was left behind.
LEMMA RecoveryStarts == RecoveryInit => RInv
<1> SUFFICES ASSUME RecoveryInit PROVE RInv
  OBVIOUS
<1>1. PICK status \in {"running", "cancelling", "failed", "cleanup_pending"} :
        jobs = [k \in {Left} |-> [status |-> status, retries |-> 0, mode |-> "new"]]
  BY DEF RecoveryInit
<1>2. /\ first = Left /\ sent = {Restore} /\ inbox = <<>> /\ faults = 0 /\ resumable = NoKey /\ card = NoCard
      /\ aside = FALSE
  BY DEF RecoveryInit, AsideInit
<1>3. Left \in Keys
  BY RecoveryConstants
<1>4. [status |-> status, retries |-> 0, mode |-> "new"] \in KnownJobs
  BY DEF KnownJobs, Statuses
<1>5. jobs \in [DOMAIN jobs -> KnownJobs] /\ DOMAIN jobs = {Left}
  BY <1>1, <1>4
<1>6. card \in CardRecords /\ ~card.up /\ ~card.timer
  BY <1>2 DEF NoCard, CardRecords
<1>7. LeftOK
  BY <1>2, <1>3, <1>5, <1>6 DEF LeftOK
<1>8. Restore \in FreshRequests /\ Restore.by = App /\ Restore.op = "restore" /\ ~IsPoll(Restore)
  BY AskIsTyped, AskersDiffer DEF Restore, AskedOps, IsPoll
<1>9. inbox \in Seq(CardAnswers) /\ ToSet(inbox) = {}
  BY <1>2 DEF ToSet
<1>10. Pending = {Restore} /\ Polls = {}
  BY <1>2, <1>8, <1>9 DEF Pending, Polls
<1>11. AsksOK
  BY <1>2, <1>8, <1>9, <1>10, AskersDiffer DEF AsksOK, AskOK, FreshRequests
<1>12. OneOK /\ WatchedOK /\ FlagOK /\ HandsOver
  BY <1>6, <1>10 DEF OneOK, WatchedOK, FlagOK, HandsOver
<1> QED BY <1>7, <1>11, <1>12 DEF RInv

\* Every step keeps the invariant.
LEMMA RecoveryStep == RInv /\ [RecoveryNext]_recoveryVars => RInv'
<1> SUFFICES ASSUME RInv, [RecoveryNext]_recoveryVars PROVE RInv'
  OBVIOUS
<1>1. CASE UNCHANGED recoveryVars
  <2>1. UNCHANGED <<jobs, first, sent, inbox, faults, card, resumable, aside>>
    BY <1>1 DEF recoveryVars, serverVars, cardVars, asideVars
  <2>2. JobsGrow
    BY <2>1 DEF RInv, LeftOK, JobsGrow
  <2> QED BY <2>1, <2>2, WorldMoves
<1>2. CASE CardTick
  BY <1>2, RequestPollKeeps DEF CardTick, RInv, LeftOK
<1>3. CASE CardRefresh
  BY <1>3, RequestPollKeeps DEF CardRefresh
<1>4. ASSUME NEW op \in DOMAIN Accepts, Act(op) PROVE RInv'
  BY <1>4, CardActionKeeps DEF Act, Accepts
<1>5. ASSUME NEW n \in DOMAIN inbox, AnswerArrives(n) PROVE RInv'
  BY <1>5, CardAnswerKeeps, UnheardKeeps, RestoredKeeps DEF AnswerArrives
<1>6. ASSUME NEW op \in CardOps, ServeCard(op) PROVE RInv'
  BY <1>6, ServesCard DEF ServeCard
<1>7. CASE ServeRest
  BY <1>7, ServesCard DEF ServeRest
<1>8. CASE Fail
  BY <1>8, FailKeeps
<1>9. CASE JobMoves
  BY <1>9, JobMovesKeeps
<1>10. CASE CardGoes
  BY <1>10, CardGoesKeeps
<1>11. CASE CardComesBack
  BY <1>11, CardComesBackKeeps
<1>12. ASSUME NEW op \in {"create", "cancel", "retry", "cleanup"}, NEW key \in Keys, Elsewhere(op, key) PROVE RInv'
  BY <1>12, ElsewhereKeeps
<1> QED BY <1>1, <1>2, <1>3, <1>4, <1>5, <1>6, <1>7, <1>8, <1>9, <1>10, <1>11, <1>12 DEF RecoveryNext

\* The invariant of the recovery card holds in every reachable state.
THEOREM RecoveryIsSound == RecoverySpec => []RInv
BY RecoveryStarts, RecoveryStep, PTL DEF RecoverySpec

\* The card watches its job until it has ended, with one poll at a time unless it was restarted, and a
\* card that has seen the first human become ready is on its way to the workspace, unless a request was
\* lost, or overtaken inside the service (useBuildJobPolling.ts:194-326, App.tsx:193-204).
THEOREM CardStaysAttentive == RecoverySpec => []CardIsAttentive
<1>1. RInv => CardIsAttentive
  <2> SUFFICES ASSUME RInv PROVE CardIsAttentive
    OBVIOUS
  <2>1. \A by : Flies(by) <=> \E q \in Polls : q.by = by
    BY DEF Flies, Waiting, Polls, Pending
  <2>2. Flies(Card) /\ Flies(Again) => card.twice
    BY <2>1, AskersDiffer DEF RInv, OneOK
  <2>3. Polls # {} => Flies(Card) \/ Flies(Again)
    BY <2>1, PollersAre
  <2>4. CardKeepsWatching
    BY <2>2, <2>3 DEF CardKeepsWatching, RInv, WatchedOK
  <2>5. SeenReadyIsRestored
    <3>1. faults \in Nat
      BY DEF RInv, LeftOK
    <3>2. (\E q \in Pending : q.by = App) => Waiting(App) # {}
      BY DEF Waiting, Pending
    <3> QED BY <3>1, <3>2 DEF SeenReadyIsRestored, RInv, HandsOver
  <2> QED BY <2>4, <2>5 DEF CardIsAttentive
<1> QED BY <1>1, RecoveryIsSound, PTL
==============================================================================
