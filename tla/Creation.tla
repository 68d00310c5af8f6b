------------------------------ MODULE Creation ------------------------------
(***************************************************************************)
(* The creation wizard in the app that mounts it, and the build jobs it    *)
(* asks for.  The management and the settings screen take its place; the   *)
(* management screen asks for the rebuilding or copying of a human that is *)
(* ready.                                                                  *)
(***************************************************************************)
EXTENDS CreationWizard, AsideScreens

CONSTANTS
  Modes        \* of a human that is there already: "rebuild" and "copy"

ASSUME CreationConstants == Modes \subseteq {"rebuild", "copy"}

VARIABLES
  requested    \* creationRequested

vars == <<serverVars, wizardVars, asideVars, requested>>

Init ==
  /\ ServerInit(<<>>, {}) /\ WizardInit
  /\ AsideInit /\ requested = FALSE

Still == UNCHANGED <<asideVars, requested>>

-----------------------------------------------------------------------------
\* The gate's button.
RequestCreation ==
  /\ ~requested /\ ~aside
  /\ requested' = TRUE /\ MountWizard(intent.mode, intent.source)
  /\ UNCHANGED <<serverVars, asideVars>>

Back == PressBack /\ requested' = FALSE /\ UNCHANGED asideVars

\* The header's buttons.
OpenAside ==
  /\ GoAside
  /\ UnmountWizard(intent.mode, intent.source)
  /\ UNCHANGED <<serverVars, requested>>

\* A wizard that had been asked for starts over, for the same human and purpose.
CloseAside ==
  /\ ComeBack
  /\ IF requested THEN MountWizard(intent.mode, intent.source) ELSE UNCHANGED wizardVars
  /\ UNCHANGED <<serverVars, requested>>

Rebuild(mode, source) ==
  /\ ComeBack
  /\ jobs[source].status = "succeeded"
  /\ requested' = TRUE /\ MountWizard(mode, source)
  /\ UNCHANGED serverVars

-----------------------------------------------------------------------------
Answer(n)     == WizardAnswer(n) /\ Still
ServiceStep   == (\E r \in sent : Serve(r)) /\ UNCHANGED wizardVars /\ Still
Advance(k)    == JobAdvances(k) /\ UNCHANGED wizardVars /\ Still
Fault         == takes + faults < MaxTakes /\ (\E r \in sent : LoseRequest(r, "lost") \/ ReadFirst(r))
                 /\ UNCHANGED wizardVars /\ Still
WizardTick(w) == Tick(w) /\ Still
Press         == WizardPress /\ Still

Next ==
  \/ Press \/ (\E w \in Wizards : WizardTick(w))
  \/ (\E n \in DOMAIN inbox : Answer(n)) \/ ServiceStep \/ Fault
  \/ (\E k \in DOMAIN jobs : Advance(k))
  \/ RequestCreation \/ Back \/ OpenAside \/ CloseAside
  \/ (\E mode \in Modes, source \in DOMAIN jobs : Rebuild(mode, source))

Spec == Init /\ [][Next]_vars

-----------------------------------------------------------------------------
\* What is uploaded was validated, unless it was changed while it was being validated or
\* while the upload was to be confirmed (useCreationWizard.ts:279-298, 394-411).
SubmittedIsValidated == unchecked => slipped

Attended == \/ timer[wizard] # NoKey
            \/ \E r \in Waiting(wizard) : r.op \in {"create", "retry", "cancel", "poll"}

\* A wizard that looks busy is waiting for something, unless an old answer was shown after
\* a newer one: its buttons are disabled, and nothing but an answer would enable
\* them.  A cleanup looks busy too and is not waited for (useCreationWizard.ts:192-262).
BusyIsAttended == open /\ BuildBusy /\ stage # "cleanup" => Attended \/ strayed

\* A wizard that says the build is over is right or about to learn better, unless a request
\* was lost or overtaken inside the service, or an old answer was shown after a newer one
\* (avatarBuild.ts:39-145, useCreationWizard.ts:192-221).
OverIsOver ==
  open /\ stage \in {"ready", "cancelled", "failed"} /\ jobId # NoKey
    => ~Unfinished(jobId) \/ Attended \/ strayed \/ faults > 0

\* "For rebuild / copy the build targets the SOURCE human id; the backend updates the same
\* record (rebuild) or derives a new record (copy)" (useCreationWizard.ts:412-413): when a
\* rebuild or a copy is shown as ready, it was made.
RebuildIsMade ==
  open /\ stage = "ready" /\ intent.mode # "new" => jobs[jobId].mode = intent.mode
=============================================================================
