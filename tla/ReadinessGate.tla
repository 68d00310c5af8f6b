---------------------------- MODULE ReadinessGate ----------------------------
(***************************************************************************)
(* The readiness gate of the desktop app: the hook useReadiness, which     *)
(* starts the preparation of the sidecar, polls its run and unlocks the    *)
(* creation of a digital human, composed with ReadinessLifecycle.          *)
(*                                                                         *)
(* The hook is mounted as long as the app is open.  A request it aborts    *)
(* goes on in the sidecar; its answer is dropped.                          *)
(***************************************************************************)
EXTENDS ReadinessLifecycle

CONSTANT AutoRetryMax  \* AUTO_RETRY_MAX

ASSUME RetriesAreNatural == AutoRetryMax \in Nat

VARIABLE ui  \* the refs and the state of the hook

uiVars == <<vars, ui>>
sidecar == <<run, phase, lock, prep, task>>

-----------------------------------------------------------------------------
\* Nothing shown, nothing asked for.
NewUi(visible) ==
  [visible |-> visible, active |-> None, received |-> None, timer |-> "none",
   retries |-> 0, requested |-> FALSE, queued |-> FALSE, committed |-> FALSE,
   state |-> "not_started", canCreate |-> FALSE, error |-> "none", loading |-> visible]

PollingStates == {"pending", "checking", "recovering"}

\* Mutant: the current request survives.
InvalidatedTimerOnly(u) == [u EXCEPT !.timer = "none"]

\* invalidateWork: the generation moves on, the timer and the request are dropped.
Invalidated(u) == [u EXCEPT !.active = None, !.received = None, !.timer = "none"]

\* request(mode): a POST for "start", a GET for "refresh".
Ask(u, mode, auto) ==
  \E r \in Requests :
    /\ req[r].pc = "idle"
    /\ ui' = [Invalidated(u) EXCEPT
                !.active = r, !.retries = IF auto THEN @ ELSE 0,
                !.requested = @ \/ mode = "start",
                !.error = "none", !.loading = ~u.committed, !.canCreate = FALSE]
    /\ req' = [req EXCEPT ![r].pc = IF mode = "start" THEN "lock" ELSE "read"]

\* The effect on mount.
Mount ==
  /\ ui.visible /\ ~ui.requested
  /\ Ask(ui, "start", FALSE)
  /\ UNCHANGED sidecar

Hide ==
  /\ ui.visible
  /\ ui' = [Invalidated(ui) EXCEPT !.visible = FALSE, !.canCreate = FALSE, !.loading = FALSE]
  /\ UNCHANGED vars

Show ==
  /\ ~ui.visible
  /\ Ask([ui EXCEPT !.visible = TRUE, !.queued = FALSE],
         IF ui.queued \/ ~ui.requested THEN "start" ELSE "refresh", FALSE)
  /\ UNCHANGED sidecar

\* resume(): the user asks for another preparation.
Resume ==
  \/ /\ ui.visible /\ ui.requested
     /\ Ask([ui EXCEPT !.queued = FALSE], "start", FALSE)
     /\ UNCHANGED sidecar
  \/ /\ ~ui.visible
     /\ ui' = [ui EXCEPT !.queued = TRUE]
     /\ UNCHANGED vars

PollTimerFires ==
  /\ ui.timer = "refresh"
  /\ Ask(ui, "refresh", FALSE)
  /\ UNCHANGED sidecar

RetryTimerFires ==
  /\ ui.timer = "retry"
  /\ Ask(ui, "start", TRUE)
  /\ UNCHANGED sidecar

\* Mutant: retries without a bound.
FailForever(error) ==
  IF error = "retryable" /\ ~ui.committed /\ ui.visible
  THEN ui' = [Invalidated(ui) EXCEPT !.retries = AutoRetryMax, !.timer = "retry"]
  ELSE ui' = [Invalidated(ui) EXCEPT !.retries = 0, !.canCreate = FALSE, !.error = error,
                                     !.loading = FALSE]

\* The catch clause: a bounded retry before anything is shown, or the error.
Fail(error) ==
  IF error = "retryable" /\ ~ui.committed /\ ui.visible /\ ui.retries < AutoRetryMax
  THEN ui' = [Invalidated(ui) EXCEPT !.retries = @ + 1, !.timer = "retry"]
  ELSE ui' = [Invalidated(ui) EXCEPT !.retries = 0, !.canCreate = FALSE, !.error = error,
                                     !.loading = FALSE]

\* The answer of the current request: a snapshot goes to derive_readiness_snapshot of
\* the shell, an error envelope to the catch clause.
Receive(r) ==
  /\ ui.active = r /\ req[r].pc = "answered"
  /\ req' = [req EXCEPT ![r] = NoRequest]
  /\ IF req[r].answer.ok THEN ui' = [ui EXCEPT !.active = None, !.received = req[r].answer]
     ELSE Fail("retryable")
  /\ UNCHANGED sidecar

\* The answer of a request that was aborted or has timed out; one that never reaches
\* a process is dropped.
Ignore(r) ==
  /\ ui.active # r
  /\ req[r].pc = "answered" \/ (phase = "down" /\ req[r].pc # "idle")
  /\ req' = [req EXCEPT ![r] = NoRequest]
  /\ UNCHANGED <<sidecar, ui>>

\* The fetch times out, there is no connection, or the shell does not derive the
\* snapshot; "failed closed" while the sidecar does not run.
NoAnswer ==
  /\ ui.active # None \/ ui.received # None
  /\ Fail("retryable") \/ (phase = "down" /\ Fail("failed_closed"))
  /\ UNCHANGED vars

\* The shell has derived the snapshot: it is shown, and polled on.
Commit ==
  /\ ui.received # None
  /\ ui' = [ui EXCEPT !.received = None, !.retries = 0, !.committed = TRUE,
              !.state = ui.received.state, !.canCreate = ui.received.gate,
              !.error = "none", !.loading = FALSE,
              !.timer = IF ui.visible /\ ui.received.state \in PollingStates THEN "refresh"
                        ELSE "none"]
  /\ UNCHANGED vars

Hook ==
  \/ Mount \/ PollTimerFires \/ RetryTimerFires \/ Commit \/ NoAnswer
  \/ \E r \in Requests : Receive(r) \/ Ignore(r)

User == Hide \/ Show \/ Resume

UiInit == Init /\ \E visible \in BOOLEAN : ui = NewUi(visible)

UiNext == (Serve /\ UNCHANGED ui) \/ Hook \/ User

UiSpec == UiInit /\ [][UiNext]_uiVars

\* Timers fire, and a fetch has a timeout.
FairUiSpec ==
  /\ UiSpec
  /\ WF_uiVars(Hook)
  /\ \A r \in Requests : WF_uiVars(Handle(r) /\ UNCHANGED ui)
  /\ \A t \in Tasks : /\ WF_uiVars(Prepare(t) /\ UNCHANGED ui)
                      /\ SF_uiVars(Finally(t) /\ UNCHANGED ui)

-----------------------------------------------------------------------------
\* The hook has its type, and its retries their bound.
UiTypeOK ==
  ui \in [visible : BOOLEAN, active : Requests \cup {None}, received : Ans \cup {None},
          timer : {"none", "refresh", "retry"}, retries : 0..AutoRetryMax,
          requested : BOOLEAN, queued : BOOLEAN, committed : BOOLEAN,
          state : RunState, canCreate : BOOLEAN, error : {"none", "retryable", "failed_closed"},
          loading : BOOLEAN]

\* Whatever the user does between a request, its answer and a timer, only the latest
\* of them is pending: no answer is applied out of order.
OneAtATime ==
  /\ ui.timer # "none" => ui.active = None /\ ui.received = None
  /\ ui.active # None => ui.received = None

\* While the window is hidden, creation stays locked and no work of the hook is
\* pending, also when an answer was on its way.
HiddenIsLocked ==
  ~ui.visible => ~ui.canCreate /\ ui.active = None /\ ui.received = None /\ ui.timer = "none"

\* "The creation button remains locked until the sidecar gate" opens: an unlocked
\* button, however old its snapshot, means that every capability is ready now.
CreateOnlyWhenReady == ui.canCreate => run # None /\ GateOpen(run.cap)

\* The gate as a whole: it applies one thing at a time, does nothing unseen, and is never open too
\* early (useReadiness.ts:120-330).
GateIsSafe == UiTypeOK /\ OneAtATime /\ HiddenIsLocked /\ CreateOnlyWhenReady

\* Once the user rests, the gate does not stay in its loading state: a snapshot or an
\* error is shown, though the sidecar may die, fail or not answer at all.
LoadingEnds ==
  <>[][~User]_uiVars => (ui.visible /\ ui.loading ~> ~ui.loading)

\* The client "polls only while preparation is active" (readiness plan, Task 13).
PollsOnlyWhilePreparing == <>[](~Active) => <>[](ui.timer # "refresh")
=============================================================================
