# VoxStudio (Meta-Human): specifications and proofs

This directory holds a TLA+ development of the desktop application VoxStudio: a Tauri shell in
Rust, a React front end in TypeScript and a Python sidecar with a SQLite database. The modules are
translated from the code; `PROJECT.json` maps every definition to the lines it stands for.

Contents: [the system](#1-the-system), [the modules](#2-the-modules), [what the runs
show](#3-what-the-runs-show), [bounds](#4-bounds), [fairness](#5-fairness), [proofs](#6-proofs),
[disagreements with the documentation](#7-where-code-and-documentation-disagree),
[plan](#8-plan), [what is not modelled](#9-what-is-not-modelled).

Shorthand for paths: `SC` = `apps/sidecar/src/voxstudio_core`, `RS` = `apps/desktop/src-tauri/src`,
`FE` = `apps/desktop/src`.

To check a run, `tlc -workers 2 -config BuildJobCalls.cfg MCBuildJob.tla`; to check a proof module,
`tlapm BuildJobProofs.tla`. The module of each `.cfg` is named in `PROJECT.json` under `runs`.

## 1. The system

The shell starts the sidecar as a child process, gives the front end its port and token, and
replaces it when it dies. The front end sends HTTP requests to the sidecar. The sidecar is one
asyncio event loop: handlers and background tasks interleave at every `await`, and share one SQLite
connection behind an `asyncio.Lock`, so one repository call is one transaction and two repository
calls are not. Remote providers (speech, avatar, model gateways) are called over HTTP.

| component | state it keeps | operations | interacts with |
|---|---|---|---|
| Build jobs (`SC/providers/build_job_service.py`, `SC/persistence/build_job_repository.py`, `SC/api/routes/avatar.py`) | rows `build_jobs`, `digital_humans`; `_tasks`, one task per job | start, cancel, retry, cleanup, resume, current; the driver with stages validate, voice, avatar, save; deletion of a human | providers (enrol, delete), database, startup order |
| Sidecar supervisor (`RS/sidecar.rs`, `RS/lib.rs`, `FE/api/client.ts`) | child process, restart budget, connection, diagnostics, monitor thread and its channel; the connection the client caches | start, monitor loop, restart after a crash, `restart_sidecar`, exit | the OS, main thread, front end |
| Readiness (`SC/lifecycle.py`, `SC/readiness/`) | the persisted run with its capabilities, the phase, `_lock`, `_preparation_task` | startup, start or resume, current, the preparation task, recovery, shutdown | capability adapters, database, HTTP requests |
| Readiness gate (`FE/features/readiness/useReadiness.ts`) | request generation, abort controller, timer, retry count, visibility, snapshot | mount, hide, show, poll, retry, resume, commit, fail | readiness API, `derive_readiness_snapshot` of the shell |
| Conversation service (`SC/knowledge/conversation.py`, `SC/api/routes/conversation.py`) | messages, titles, summaries; `GenerationRegistry` | stream a reply, stop, regenerate, read pages, rename, clear, archive, delete | model gateway, memory, client of the stream |
| Conversation workspace (`FE/features/conversation/`) | the state machine of the UI, messages, the refs that all replies share, the page loader | ask, retry, regenerate, edit, stop, switch conversation, load more, clear, create | conversation service |
| Avatar session and presentation (`useAvatarSession.ts`, `useAvatarPresentation.ts`, `useVoiceRecording.ts`) | session, controller, stage of the video, reconnect timer, recorder | select a human, video and window events, reconnect, press the voice button | avatar routes, `<video>`, recorder of the shell |
| Memory (`SC/knowledge/memory.py`, `MemoryPanel.tsx`) | long-term memory rows, ignore rules; the rows of the panel | record, resolve conflicts, prune; pin, disable, reject, edit, ignore a type, delete, clear | conversation, prompts |
| Natural conversation (`FE/features/conversation/natural/`) | phase, epoch, STT session, playback queue | enable, disable, speech start and end, confirm, barge-in, reply, retry | VAD, STT, chat stream, TTS |
| Creation wizard (`FE/features/creation/`) | files, their validation, stage, polled job | capture, pick, delete, validate, confirm, submit, poll, cancel, retry, go back | build jobs, routing in `App.tsx` |
| Restore and recovery card (`FE/features/restore/`) | restored human and job; the card's timer, in-flight flag, back-off | restore, poll, cancel, retry, clean up, refresh, hide, change job | build jobs, routing in `App.tsx` |
| Management screens (`ConversationManagement.tsx`, `DigitalHumanManagement.tsx`, `Settings.tsx` and its panels) | lists with pages and mirrors of them, forms, dialogs | read, search, page, change a row, delete, save, clear | services, shell |
| Update (`FE/features/update/`, `RS/updater.rs`) | phase, progress, package the shell has staged | check, download, verify, install, retry, roll back | update server, shell |
| Settings and keychain (`RS/settings.rs`, `RS/lib.rs`) | settings file, secrets | load, save, reset | supervisor (restart) |
| Database (`SC/persistence/`) | schema version, backup file, connection lock | open, back up, migrate, transact | every component of the sidecar |

`PROJECT.json` lists the remaining parts (adapters, API shell, capture, reliability helpers, other
screens, tooling) with the reason each one is left out.

What is hard in this system, and what correctness means there:

- **Build jobs.** Every handler reads a row in one transaction and writes it in another, while the
  driver moves the same row, and the process may die between any two. Correct means: a job that
  says SUCCEEDED has done all its stages; a RUNNING row has a driver; a stage that was recorded is
  not enrolled, and paid for, again; remote resources are not lost; a human has the voice and the
  avatar of one build; one idempotency key makes one job.
- **Supervisor.** Two threads, an OS that may refuse anything, and an app that may die. Correct
  means: at most one sidecar under control and none after exit, no crash loop, no connection
  published for a sidecar nobody supervises, and a main thread that never waits for ever.
- **Readiness.** Requests, the preparation task and the shutdown share one lock; the task may be
  cancelled inside a check, its recovery may fail. Correct means: one preparation at a time, no check
  left behind without somebody who makes it, a state that agrees with the capabilities, and no
  deadlock.
- **Readiness gate.** Answers, timers, visibility changes and retries in any order. Correct means: an
  answer that was superseded is never applied, and the creation is unlocked only when everything is
  ready.
- **Natural conversation.** Callbacks of an earlier exchange arrive later. Correct means: an exchange
  that was cancelled does not write, sound or move the machine, and no phase lasts for ever.
- **Workspace and service.** Replies share their refs; a stream, a stop, a page, a clearing and a
  deletion interleave on both sides of the wire. Correct means: an answer is made of its own text,
  the stop reaches the reply it was pressed for, the composer is closed exactly while a reply is
  under way, a stale page is not shown.
- **Avatar.** Sessions are created and closed remotely while the selection changes. Correct means: no
  stream crosses a change of human, no session is left open unaccounted for, the stage fits the
  video.
- **Creation and recovery.** Polls overlap or race with actions, screens replace each other, requests
  are lost. Correct means: what is uploaded was validated, a busy screen waits for something, a
  finished one is right, and a card watches its job to the end.
- **Screens.** Buttons stay enabled while requests are under way; answers overtake each other. Correct
  means: what is shown in the end is what the service has, and a promise shown on screen is kept.
- **Update, database.** A step fails half way and there must still be a way out.

`PROJECT.json` lists each hazard at its line, with the properties that cover it, or none yet.

## 2. The modules

| module | what it is |
|---|---|
| `StagedWork` | abstract specification of a staged job: stages complete in order, completed work is never forgotten, success only when everything is done |
| `BuildJob` | the build-job service, its handlers and driver over the two tables; implements `StagedWork` |
| `MCBuildJob` | the symmetry set for `BuildJobPair.cfg` |
| `BuildJobProofs` | invariants of `BuildJob`, its refinement of `StagedWork`, and the ledger of its remote resources |
| `SidecarSupervisor`, `SidecarSupervisorProofs` | shell, monitor thread, sidecar processes, client cache; proofs |
| `ReadinessLifecycle` | the sidecar's readiness lifecycle |
| `ReadinessGate` | the front-end hook, composed with `ReadinessLifecycle` (which it EXTENDS) |
| `ReadinessProofs` | proofs about both |
| `TtsPlaybackQueue` | the playback queue as operators on a record |
| `NaturalConversation`, `NaturalConversationProofs` | the hands-free conversation, composed with `TtsPlaybackQueue` (which it EXTENDS); proofs |
| `ConversationService` | the sidecar's side of a reply: table, registry, coroutine |
| `ConversationStateMachine` | the reducer of the conversation UI, as operators |
| `ConversationWorkspace`, `ConversationWorkspaceProofs` | the text side of the workspace, composed with both; proofs |
| `AvatarSession` | the live session of the selected human |
| `VoiceRecording` | the voice button and the recorder of the shell |
| `AvatarPresentation`, `AvatarPresentationProofs` | the stage of the video, composed with both; proofs |
| `JobServer` | build jobs as the screens see them: requests, answers, losses, requests that are overtaken inside the service |
| `AsideScreens` | the header's buttons, whose screens take the place of wizard or card |
| `CreationWizard`, `Creation` | the wizard over `JobServer`; the app around successive wizards, over `AsideScreens` |
| `BuildRecovery` | restoring at startup and the recovery card, over `JobServer` and `AsideScreens` |
| `BuildClientsProofs` | proofs about both clients of `JobServer`, the wizard and the card |
| `ScreenCalls` | the requests of one screen: pressed, acted on, answered or lost |
| `ConversationList`, `HumanList`, `MemoryList`, `SettingsForm`, `KnowledgeSources`, `UpdateManager` | one management screen each, with its side of the service or the shell, over `ScreenCalls` |
| `Screens`, `ScreensProofs` | the six screens instantiated over one set of calls, one of them open; proofs |
| `Lists` | what a filter of the code keeps of a list, said without recursion; the proofs that use it state its lemmas first |

`BuildJob` and `JobServer` show the same service at two grains. `BuildJob` takes it apart into
transactions; `JobServer` makes a request one step, because the screens' questions are about what
arrives when, not about what happens inside. One thing that happens inside does reach the screens: cancel,
retry and cleanup read the job and then write it, and the job may move in between, so that a job which has
succeeded is reported as cancelling (section 7, first row). `ReadFirst` takes that reading apart from the
writing; it is counted among the faults, as the loss of a request is.

A definition whose comment says "mutant" (`EnterAlways`, `StaleRefs`, ...) is not part of a
specification: it is a plausible bug in the definition that follows it, and `PROJECT.json` names the
property that notices it. Each property of a passing run has one.

### BuildJob

`job` and `human` are the rows. `driver[j]` is the task of job `j` in `_tasks`: its program counter,
the stage it runs, the human it loaded and the remote id it holds but has not stored. `start[j]` and
`request[q]` are HTTP calls in flight, with what they read. `enrolled[j]` counts what the provider
made. `newer` orders `updated_at`, which decides which job of a human the deletion sees.

One action is one transaction, or one call to the provider, with the local code up to the next
`await`. So `cancel` is `CancelRead` then `CancelWrite`; the driver's loop over the stages is `Load`,
`Claim`, then per stage `CheckCancelled`, `Enroll`, `EnrollFails` or `EnrollTimesOut`, `PersistHuman`, `PersistJob`,
then `Commit` (for a copy `CopyRead`, `CopyCreate`, `CopyReady`), `Finish`; `Settle` and
`SettleHuman` are the failure and cancellation paths; `Clean...` is the cleanup. `Raise` is an
exception that leaves the task: the coroutine ends and nobody restarts it. `Crash` empties `driver`,
`start` and `request` and keeps the rows; `Restart` is `resume()` at startup.

A driver may meet two failures that change more than the outcome; `faults[j]` counts them.
`EnrollTimesOut` is a provider that has made the resource and whose answer is late, cut off or without
an id. `TransactionFails` is a database error in any of the driver's transactions, which
`Database.transaction` rolls back: inside the try of `_drive` the job fails and the id in hand is
forgotten, inside that of `_run_cleanup` the cleanup fails, anywhere else the exception ends the task.
A COMMIT that fails is not rolled back and makes every later BEGIN on the connection fail until the
restart: each of these is one more fault. A transaction of a handler that fails needs no action, for a
call may always stop before it writes; a `resume()` that fails is a process that has not come up.

The data abstracted: a stage result is a remote id, an id is its owner and a number, uploads are
valid, error codes and events are left out.

### SidecarSupervisor

A generation is one monitor thread with its port and token. `monitor` is the thread spawned last
with its `SidecarSupervisor` (child, restarts) and its channel; `main` the main thread, which runs
the commands of the front end one at a time and blocks in `join`; `alive` the processes that run;
`lost` those that an OS failure or the death of the app took out of control; `conn` and `diag` what
is published; `reply` and `cache` the API client. One action is what a thread does between two
waits. Every OS call (spawn, health, signal, wait, kill) may fail in the way the code handles.

### ReadinessLifecycle

`run` is the persisted run: aggregate state, state and attempts of each capability. `phase` is
starting, serving, the steps of `shutdown`, down. `lock` holds who has `_lock`; `prep` is
`_preparation_task`. `task[t]` is a preparation with the copy of the run it got back from its last
call (`seen`), because the aggregate is computed from that copy and not from the row. `req[r]` is a
request at its next `await`. `Finally` is the finally clause of the task, which needs the lock.
`Serve` is the system without a graceful shutdown, `Next` has all of it. `complete_run` has no
caller and is left out, and so is the branch of the preparation that creates a run, which its only
caller makes unreachable. uvicorn drains requests before it runs the shutdown; the model lets them
race, so it allows more than the program does.

### ReadinessGate

`ui` is the state of the hook; the generation counter and the abort controller are represented by
`active`, the request whose answer will be used. `Receive` is the answer of the current request,
`Ignore` any other one, `Commit` the return of `derive_readiness_snapshot`, `Fail` the catch clause
with its bounded retries. The sidecar side is `Serve`: for the hook, a shutdown is the same as a
death.

### TtsPlaybackQueue and NaturalConversation

`queue` is the playback queue: the chunk on the audio element, whether its `play()` has settled, the
chunks that wait, and the rejections of earlier `play()` calls that are still to come. A chunk is
known by its exchange only.

`phase` and `mode` are the reducer's state, `Dispatch` its table. `epoch` is the counter of the engine
and names exchanges: `reply[e]` is the coroutine `beginReply` of exchange `e` (streaming, in a back-off
delay, or ended by an exception), `recog[e]` counts the utterances of that epoch whose `stop()` is
awaited. `mic` is the VAD adapter: `getUserMedia` calls in flight by caller, open streams, whether the
adapter holds one and pumps frames, and audio contexts being closed. `silenced` and `delivered` are
history variables. One action is one JavaScript callback up to its next `await`: `SpeechStart`
(echo gate, barge-in or session), `SpeechEnd`, `Recognized` and `NotRecognized`, `Audio`, `Replied`,
`ReplyFails`, `RequestThrows`, `DelayEnds`, the audio callbacks (`Playback`), and `Disable` with its
second half `Closed`. The buttons are offered in the phases in which the bar shows them. A stream that
was aborted may still deliver in the model, so the properties rest on the epoch checks alone. Not used
by the program, and left out: sentences synthesised on demand.

### ConversationService and ConversationWorkspace

`history` holds the message rows: conversation, role, question, the reply that wrote them. `task[g]`
is the coroutine of reply `g`, which steps from await to await: `Register`, `Start` (a regeneration
deletes the last answer), `Retrieve`, `Token`, `Compose`, `RememberQuestion`, `RememberAnswer`,
`Speak`; `Fail`, `ForgetQuestion` and `ForgetAnswer` are a gateway or a database that raises, `Cancel`
the client's disconnection. `active` and `stopped` are the generation registry, `wire[g]` the events
the client has yet to read.

The client's `stream[s]` is the send coroutine of reply `s`; `refs` the refs that every reply shares
(abort controller, generation, bubble, text under construction, pending frame). `OnStarted`,
`OnFoundSources`, `OnToken`, `OnDone`, `OnError` and `OnEnd` are the callbacks of the stream client,
`Flush` the animation frame, `Refuse` and `Break` a connection that fails. `load[l]` and `page` are
the page loader with its controller and cursor; `posts` are requests nobody's coroutine waits for
(stop, title, clear). The buttons have the guards under which they are rendered or enabled; a text is
the set of the replies it was put together from. `Moving` holds what the user does and what goes
wrong, `Going` everything else.

### AvatarSession, VoiceRecording and AvatarPresentation

`start[i]` is a session start with its promise, as the client and as the sidecar see it; `controller`,
`session`, `starting` are the hook's, `remote` the sessions open at the sidecar, `stopping` those
whose DELETE is under way. `press[i]` is the coroutine of a press of the voice button, `recorder` the
one recording the shell can hold. `presentation` is the lifecycle reducer (`PresentationNext`),
`avatar` and `recording` are dimensions of the UI's state machine, `video` the element with what it
plays. Each action is an event handler or an effect; `Render` and `FollowSession` are the effects that
run in the same commit, `Shown` says when there is an element at all.

### JobServer, AsideScreens, CreationWizard, Creation and BuildRecovery

A request waits in `sent` until the service acts on it (`Serve`), its answer waits in `inbox` until
the screen takes it, in any order. A fault loses the request or the answer (`LoseRequest`), or lets the
service read the job before other steps and write it after them (`ReadFirst`). A job is known by the
material that made it, because the idempotency key is computed from the material.

`CreationWizard` has one variable per state hook: `file[kind]` what was captured, `info[kind]` what
was validated, `check` what is being validated, `stage`, `jobId`, `timer[w]` the interval of wizard
`w`, which `Tick`s whether or not the last poll was answered. `Taken` is the end of a capture, pick
or deletion, `Submit`, `Polled`, `Cancelled`, `CleanedUp` the answers. Nothing under way is cancelled
when the wizard leaves the screen, so actions carry the number of their wizard. `Creation` is the
routing of `App.tsx`: `RequestCreation`, `Back`, `OpenAside`, `CloseAside`, `Rebuild`. What the wizard
is for (`intent`) is state of the app: a rebuild that was left for another screen comes back as a rebuild.

`BuildRecovery` has the card as one record: the job it polls, the one it shows, the timer and the refs
`inFlightRef` and `activeControllerRef`. `CardTick` is the timer, `CardPolled` the answer with its
back-off (`Reschedules`), `Act` a button with the answer `CardActed` or `CardCancelled`, `CardRefresh`
the window that becomes visible, `ShowJob` the change of job, whose aborted poll clears the flag of
the next one, `Restored` the answer to the question the app asks when it starts, `CardGoes` and
`CardComesBack` the card around `AsideScreens`. `Redirect` gives requests up and sends others: what is
given up is heard no more. `Elsewhere` is the
creation wizard, which may be on screen beside the card.

### ScreenCalls, the six screens, and Screens

`calls` are the requests under way: an operation, its argument, and the answer once the service or the
shell has acted. Each screen's `Serve(c)` is what its service does and `Lose(c)` a failure before or
after; the remaining actions are presses and answers, named after the handlers.

- `ConversationList`: `items` and its mirror `itemsRef`, the numbered and aborted readings, the
  unnumbered pages, optimistic deletion with roll-back, and the retry of a failed action. `store` is
  the table.
- `HumanList`: rows, mirror and pages, the dialog with `target`, `job`, `result`; `jobOf` are the
  jobs behind the humans, with what the service accepts (`routes/avatar.py`).
- `MemoryList`: `rows` and `ignored` against `memories` and `rules`; a patch answers with the row, a
  change of the rules with a new reading.
- `SettingsForm`: `form`, `savedForm`, `secretFlags`, `typed` against `stored`, `keychain` and
  `running`, what the sidecar was started with. The shell writes the file, then the keychain, then
  answers; the form then asks for a restart.
- `KnowledgeSources`: `listed`, `shownEnabled` against `kept`, `enabled`.
- `UpdateManager`: the reducer `u`, which ignores what does not fit its phase, `staged` the shell's
  package, `published` the newest version; a panel that was left takes no more answers.

`Screens` instantiates the six over one `calls`. They share no state, so a behaviour opens one of them
and stays: the state space is the sum of the six, and one run and one cfg serve them. In the app
several are parts of the settings page at once; what they touch is disjoint, except that clearing all
local data also empties the memories under an open `MemoryPanel`, which is not modelled.

## 3. What the runs show

| run | result | what it says |
|---|---|---|
| `build_job_calls` | pass | With any two of cancel, retry, cleanup and delete between the transactions of a job, one crash and one restart, and one call of its driver that fails: success means complete, a RUNNING row has a driver and leaves RUNNING unless an exception killed the driver; at most one remote resource is lost per crash, deletion or failed call, no recorded stage is enrolled again, a driver dies of an exception only when a human was deleted or a call of its own had failed; every behaviour is one of `StagedWork`. |
| `build_job_pair` | pass | Two rebuild or copy jobs on the same or different humans, with or without one key: one job per key; a rebuild swaps voice and avatar together; a READY human has both. |
| `supervisor_restarts` | pass | Crashes, restarts, failing OS calls and exits: one sidecar under control, none after exit, at most the allowed restarts, no report of a sidecar nobody supervises; a published connection is served or withdrawn; `join` returns. |
| `readiness_lifecycle` | pass | Two capabilities, two requests, failing adapters and database, a death anywhere, a shutdown with a drain that times out: one preparation, no orphaned check, no lost progress, the aggregate agrees, the shutdown completes. |
| `readiness_gate` | pass | Hiding, retries, timeouts and superseded answers against a sidecar that dies and returns: one thing pending, nothing while hidden, creation unlocked only when every capability is ready, loading ends. |
| `natural` | pass | Three epochs of exchanges, barge-ins and stops, with transcripts, streams, delays and `play()` rejections that come late: nothing cancelled writes, sounds or moves the machine; while a reply is awaited its exchange is at work; speaking, reconnecting and turning off come to an end. |
| `workspace` | pass | Two replies asked, retried, regenerated, edited, stopped, refused and broken, with pages, clears, deletions and titles on their way, against the service: an answer is made of its own text, a stop reaches its own reply, the composer is closed exactly while one is under way, only the latest page lands. |
| `avatar` | pass | Two humans in turn, sessions that start, fail, time out, are aborted and stopped, a video that drops, ends, is paused and rebuilt, the window offline and back, the voice button: no stream crosses humans, every open session is accounted for, the stage fits the video, a picture comes. |
| `creation` | pass | Two wizards, one after the other, with a rebuild: what is uploaded was validated, a busy wizard waits for something, a finished one is right. |
| `recovery` | pass | A job left behind, one created elsewhere, a lost request, every button: the card watches to the end and hands over to the workspace. |
| `screens` | pass | Each management screen with presses that overlap and answers in any order: lists, dialogs, panels and forms agree with the service and the shell in the end. |
| `settings_secrets` | violation | Section 7. |

What the less obvious properties mean in the code:

- `DoesStagedWork` maps a row to the set of its finished stages and to *absent, open, succeeded,
  stopped*. A retry, a cancel that arrives late, a crash between enrolment and persistence map to a
  report of `StagedWork`; none of them may take back a stage.
- `RunningSettles`: a RUNNING row leaves RUNNING although calls go on, unless its driver was killed
  by the deletion of its human or by a database error outside the try of `_drive`.
- `NoStraySidecar`, `SupervisorSettles`, `PreparationIsOwned`, `LifecycleSettles`, `GateIsSafe`,
  `ExchangesAreApart`, `NaturalSettles`, `StopReachesItsReply`, `SessionsAreKnown`, `StageIsOfVideo`,
  `VideoComes`, `CardIsAttentive`, `LossesAreKnown` and `ReadyIsWhole` are conjunctions of named
  parts, each with its own comment; the parts of one name answer one question.
- `CancelledNeverActs` is the promise in the header of `naturalConversationCore.ts`.
- `StopReachesItsReply` joins the two sides of the wire: the generation the client names is the one
  whose stream it aborts, and whatever the service still produces is in the registry, so that it can
  be stopped.
- `SubmittedIsValidated`, `BusyIsAttended`, `OverIsOver`, `MemoryAgrees`, `SourcesAgree`,
  `PanelIsBacked`, `ListIsOfView`, `WholeAnswers` name, by a history variable, the one way in which
  they fail in the code (material changed while it is validated, answers of two polls in reverse
  order, a retry nobody acts on, overlapping sends): TLC found each exception, and shows that there
  is no other. The exceptions are listed in section 7.
- `LoadingEnds` assumes the user rests: each user action may start a new load.

Type correctness of `BuildJob`, `SidecarSupervisor` and `ReadinessLifecycle` is proved (section 6)
and not run; that of `ReadinessGate` and `NaturalConversation` is part of `GateIsSafe` and
`ExchangesAreApart`.

`CHECK_DEADLOCK FALSE` appears in every configuration but the two of readiness: there the system may
stop for good because all calls are made and all jobs settled, the app has exited, or the user has
used up the presses, visits or epochs of the bound. The readiness runs check deadlock.

## 4. Bounds

| bound | why it is enough |
|---|---|
| `Jobs`, `Humans` (1 or 2) | jobs meet only through a shared human or key, two at a time; each has its own driver |
| `Requests` = 2 in `build_job_calls` | the hazards are a read of one call, a write of another and a step of the driver; a third call repeats one of the two |
| `MaxRetries` = 1 (code: 3 by default) | the limit is reached, and a retry that read the count before another retry exists |
| `MaxCrashes` = 1 | a crash at any point, and the recovery from it, with the calls before and after |
| `MaxFaults` = 1 in `build_job_calls`, 0 in `build_job_pair` | one failed call at any point of the driver, with the retry after it; the pair takes five minutes with one, and that it changes nothing there is left to the theorem `ReadyStaysWhole`, which holds for any `MaxFaults` |
| `MaxCrashRestarts` = 1 | the value of the code |
| `MaxGens` = 3 | an initial sidecar, its replacement by `restart_sidecar` and by a new app |
| `NCaps` = 2, `MaxAttempts` = 1 | the aggregate and the loop need two capabilities, one ready and one not; the attempts only count, and stop at the bound |
| `Tasks` = 2, `Requests` = 2 | an old task in its finally clause and a new one; a request that holds the lock and one that waits |
| `NCaps` = 1, `Tasks` = 1, `AutoRetryMax` = 1 in `ReadinessGate` | the hook sees only state and gate; the code retries 3 times, one reaches the limit |
| `MaxEpoch` = 3 in `natural` | an exchange, what supersedes it, and another exchange while the first still has something to deliver |
| `MaxReconnect` = 1, `MaxQueueLength` = 1 (code: 2 and 8) | the limit of either is reached: a second failure is final, a second waiting chunk displaces the first |
| `MaxStreams` = 1, `MaxUtterances` = 1 | one microphone asked for or open, one transcript awaited; exchanges that the user types overlap with it |
| `MaxReplies` = 2, `MaxTokens` = 2, `MaxUnread` = 1 in `workspace` | a reply and the one that supersedes it; a frame due before the last token; one event on the wire and one to come |
| `PageStep` = 2, `MaxLoads` = 2, `MaxMoves` = 3 | a thread of two pages; two loads in each other's way; three presses or failures, e.g. ask, stop, ask or ask, switch, switch back |
| `MaxStarts` = 2, `Humans` = 2, `MaxVisits` = 1, `MaxFaults` = 3, `MaxPresses` = 2 in `avatar` | a session and the one that replaces it; the two reconnections the code grants are used up by three disturbances; a press that overlaps another |
| one of `Kinds`, `Modes`, `Means`, `MaxTakes` = 2, `MaxWizards` = 2 in `creation` | two takes make two materials; the second kind is validated and uploaded by the same code; a wizard and the one that follows it |
| `MaxRequests` = 2, `MaxRetries` = 1, `MaxFaults` = 1 in `creation` and `recovery` | two polls, or a poll and an action, overtake each other; one loss, or one request overtaken inside the service |
| two `Keys`, `MaxVisits` = 1, `MaxElsewhere` = 1 in `recovery` | the job left behind and one that replaces it; the card left and come back to |
| `MaxTroubles` = 2 in `recovery` | any two of a fault, a doing elsewhere and a visit of another screen; each hazard of the card is the work of one or two of them |
| `MaxPresses` = 3 (`FewPresses` = 2 on the screens with many buttons), `MaxFaults` = 1, `PageSize` = 1 in `screens` | two requests that overlap and a press between; a page that has a next one; one loss before or after the service acted |
| `HumansShown` = 1, one `Secrets`, one `Sources`, `Versions` = 2 | a dialog for one human and then another; secrets and sources are handled one by one; a version is published while another is offered |

The proofs of section 6 have none of these bounds. The `screens` run takes about two
minutes with two workers, the others less.

## 5. Fairness

- `BuildJob`: `WF(DriverStep(j))`. The event loop runs every ready task, database calls end and the
  provider client has timeouts. Nothing is assumed of handlers (a client may never call) and nothing
  of `Restart`.
- `SidecarSupervisor`: `WF(MonitorStep)`, `WF(Join)`. The waits of the monitor for health (10 s),
  for a graceful stop and between polls have a timeout, after which the code goes on. The
  `child.wait()` after a kill has none: that the OS ends and reaps a process it has killed is assumed.
- `ReadinessLifecycle`: `WF(Handle(r))`, `WF(Prepare(t))`, `WF(Shutdown)`: tasks run, adapters and
  the drain have timeouts. `SF(Finally(t))` and `SF(ShutdownEnds)`: both acquire `_lock`, an
  `asyncio.Lock`, whose waiters are served first in, first out; requests may take it again and again
  but cannot overtake, which weak fairness would not express.
- `NaturalConversation`: `WF(Sound)` (an audio element plays to its end or fails), `WF(DelayEnds(e))`
  (a timer fires), `WF(Closed)` (`AudioContext.close()` returns). Nothing is assumed of the user, the
  microphone, or the reply stream, which has no timeout.
- `ReadinessGate`: `WF(Hook)`: timers fire and `fetch` has a timeout; the sidecar as above.
- `AvatarPresentation`: weak fairness of the end of a start (`withDeadline` rejects it if nothing
  else does), of the loading and playing of an element that is not disturbed, and of the reconnect
  timer.
- `BuildRecovery`: `SF(CardTick)`: the timer fires; strong, because the bound on requests under way
  disables it now and then, which the program does not; weak fairness of the service and of the
  oldest answer. Nothing is assumed of the job itself, so the property starts when the job has stopped.
- `ConversationWorkspace`, `Creation` and `Screens` state safety only. A liveness property of the
  workspace takes longer than the run may; a wizard and a settings form can stay busy for ever
  (section 7).

## 6. Proofs

TLAPS checks these for every value of the constants, under the assumptions the modules name.

| module | assumptions | inductive invariant | theorems |
|---|---|---|---|
| `BuildJobProofs` | `NoneIsNoValue`, `StartModesAreModes`, `BoundsAreNaturals` | `TypeOK`, `CallsOK`, `UnbornOK`, `DriverOK`, `RunningHasDriver`, `SucceededIsComplete` | `TypeCorrect`, `RunningAlwaysHasDriver`, `SuccessIsComplete`, `KeysAreUnique`, `Implements` (`Spec => DoesStagedWork`) |
| the same, ledger | the same and `NoneIsNoResource` | the same and `LInv`: `LedgerOK`, `WholeOK`, `DriverDeathsAreKnown` | `LedgerIsKept`, `LossesStayKnown`, `ReadyStaysWhole` |
| `SidecarSupervisorProofs` | `LimitsAreNaturals`, `NoneIsNoNumber` | `TypeOK`, `MonitorOK`, `Withdrawn`, `MainOK`, `OnlyOwnSidecar`, `ReportsAreLive` | `TypeCorrect`, `OneSidecar`, `NoneAfterExit`, `NoneIsStray`, `ReportsLive` |
| `ReadinessProofs`, lifecycle | `SizesArePositive`, `NoneIsNone`, `NoneIsNoRun` | `TypeOK`, `TaskOK`, `LockOK`, `RunOK`, `CheckingIsDriven`, `Clean` | `TypeCorrect`, `PreparesOnce`, `ChecksAreDriven`, `StopsResumable`, `PreparationOwned`, `Aggregates`, `Progresses` |
| the same, gate | the same and `RetriesAreNatural` | the same, `GateIsSafe`, `AnswersHold` | `GateSafe` |
| `NaturalConversationProofs` | `QueueHoldsSomething`, `LimitsAreNaturals`, `NobodyIsNoEpoch` | `NInv`: `EngineOK`, `FlagsOK`, `ListensOK`, `RepliesOK`, `MicOK`, `QueueOK`, `PhaseHasExchange` | `ExchangesStayApart`, `CancelledStaysOut` |
| `ConversationWorkspaceProofs` | `ServiceConstants`, `WorkspaceConstants` | `WInv`: `ServiceOK`, `StreamOK`, `ThreadOK`, `PageOK`, `ClientOK` | `AnswersStayWhole`, `StopsReachTheirReply`, `BusyStaysLive`, `LatestLoadLands` |
| `AvatarPresentationProofs` | `SessionConstants` | `AInv`: `TypesOK`, `SessionOK`, `StageOK`, `VoiceOK` | `SessionsStayKnown`, `StageStaysOfVideo`, `MicrophoneStaysShown` |
| `BuildClientsProofs`, wizard | `ServerConstants`, `VisitConstants`, `WizardConstants`, `CreationConstants` | `CInv`: `MaterialOK`, `WorldOK`, `PollsOK`, `WatchOK`, `BusyIsAttended` | `CreationIsSound`, `UploadsAreValidated`, `BusyWizardsWait`, `OverMeansOver` |
| the same, card | `ServerConstants`, `VisitConstants`, `RecoveryConstants` | `RInv`: `LeftOK`, `AsksOK`, `OneOK`, `WatchedOK`, `FlagOK`, `HandsOver` | `RecoveryIsSound`, `CardStaysAttentive` |
| `ScreensProofs` | `CallConstants`, `ScreenConstants` | `ScreenInv`: `SettingsInv`, `KnowledgeInv`, `UpdateInv`, `HumanInv`, `ListInv`, `MemoryInv`, one per screen | `StoredComesToTakeEffect`, `SourcesComeToAgree`, `PanelStaysBacked`, `ResultStaysOfTarget`, `FailedCleanupAlwaysKeeps`, `ListStaysOfView`, `DeletionsStay`, `MemoryComesToAgree`; of `Lists`: `SelectKeeps` |

Why the invariants need strengthening:

- *BuildJob.* `SucceededIsComplete` is kept by `Finish` only if a driver that stands there has run
  all its stages: `DriverOK` says, for each program counter, which stages the row has. `CallsOK`
  bounds what a handler has read (a stale retry count is still below the limit), `UnbornOK` says that
  a job that does not exist yet has no driver, no resources and no reader. `KeysAreUnique` adds
  only the unique index to this invariant.
- *Refinement.* Each action of `BuildJob` that touches `job` completes the next stage, succeeds with
  all stages done, or reports; the invariant supplies that the stages before the driver's stage are
  done. All other actions stutter.
- *Supervisor.* `MonitorOK` ties the child, the spawn count and the program counter; `Withdrawn` says
  that a supervisor that shuts down has withdrawn its connection, or does so when its process has
  stopped; `MainOK` that the main thread gives up its handle only of a monitor that is over.
- *Readiness.* `TaskOK` says that a task that runs is `prep` and that its copy of the run is the
  persisted run: this is what makes the aggregate right although it is computed outside the
  transaction. `RunOK` says that the state of the run matches its capabilities, `LockOK` who may
  hold the lock and that no task runs when one is about to be spawned, `Clean` that a shutdown which
  has marked the interrupted checks stays clean.

- *Gate.* `GateIsSafe` is kept by `Commit` only if the answer it shows is still true: `AnswersHold`
  says that an answer on its way which opens the gate was given by a run that has every capability.
  It stays true because no step of the sidecar, death and restart included, takes back a ready
  capability; that step lemma (`StepKept`) is the one behind `Progresses`.

- *Ledger.* `LossesAreKnown` counts; counting is only inductive if one knows where each resource is.
  `Hands` says that a driver holds a resource exactly between an enrolment and its record, `Ids` where
  the id of a finished stage is (in the row, or in mode `new` at the human), `Names` that the copies
  of the human which the row and the driver carry differ only when that human was deleted, and
  `Counted` that a job has lost at most one resource per crash and per failed call, and one more only after
  its human went. One lemma, `LedgerChange`, turns what an action does to one job into the invariant of all. `WholeOK`
  names the job that made both ids of a human that is ready.
- *Natural conversation.* That nothing old sounds rests on when an exchange was begun: `RepliesOK` says that
  the exchange of this epoch, if it is at work, was begun after the last silence, and that no exchange of a
  later epoch is there yet; then what it enqueues is young enough, and `QueueOK` (`HoldsAfter`) keeps that
  through every callback of the queue. `RepliesOK` also says that only the present exchange can have
  thrown: otherwise a new turn would end it, and `CancelledNeverActs` would not follow. `MicOK` counts
  streams and pending requests together, so that a grant stays within the bound. `DispatchTable` is the
  reducer, worked out once from its table of transitions.
- *Workspace.* All replies share one set of refs, so the properties hold only as far as one knows whose
  the refs are. `RefsAreOfReply` says that of the replies under way the last one sent is the only one
  that is not aborted, that it owns the controller, the text being built and the generation, and that
  later replies do not exist; it is given up (`overlapped`) only where the code gives it up. The
  bubbles are told apart by their numbers: those of the service are negative, those of the app are at
  most `nextId`, so a new bubble is nobody else's (`BubbleIsOfReply`). `PageOK` says that the
  controller of the page is the only load that can still arrive; it had to say as well that this load
  is pending, or a page that is answered late could not be told from one that was given up.
- *Screens.* Each invariant relates what the screen shows to the requests under way: what is stored and
  not in effect has a restart, or a change that asks for one, on its way (`SettingsInv`); a source
  shown though it is gone has the answer coming that removes it, and an older answer about a source is
  overtaken by no newer one (`KnowledgeInv`); a phase of the panel has its call, and what it offers is
  staged (`UpdateInv`); one deletion of a human at a time, and the dialog is of its target
  (`HumanInv`); rows are of the view they are shown under, also those kept for a rollback and those in
  an answer (`ListInv`); a row that differs from the service's has a patch or a deletion on its way,
  and the last one decides (`MemoryInv`).
- *Avatar.* A session becomes known only through its start, so `SessionOK` says what a start may still
  become: only the one that has the controller waits, it is of the human selected, and while it waits no
  session is shown; one that has settled is shown, being stopped, or counted as not stopped. `StageOK` adds
  that there is an element exactly when one is to be shown, `VoiceOK` that one press is under way at a
  time and that the recorder is off while a recording is transcribed.
- *Creation.* `OverIsOver` is a promise of the future: it needs to know where the answer is that will
  correct a wizard which shows an end. `PollsOK` says that, unless an answer strays, everything that is
  polled is the job on screen, and that nobody else can open it again. `WatchOK` then follows that job:
  while it is under way and shown, a cancellation is on its way to the service, or an answer is on its way
  to the app that starts the polling, or the wizard polls, and each answer that would end the polling has
  another poll behind it, in flight or later in the inbox. The answers keep their order when one of them is
  taken out (`TakenOut`), which is why an overtaken answer is the only one that can break it.
  `MaterialOK` says that what was validated is what is there until something slips in between.
- *Recovery card.* Neither half of `CardIsAttentive` is inductive. That the card goes on watching needs to know
  what its refs stand for: `FlagOK` says that a flag which is up has a poll behind it, or `RequestPoll` would
  clear the timer and send nothing; `OneOK` that before any restart there is one poll, that the controller is
  its own and that the flag is up while it flies, so that `stop` and `ShowJob` abort it and not another.
  After a restart only the flag's half survives, which is why the other is given up with `twice`. `AsksOK` says
  who may ask for what: only a card that is up waits for polls, and the app asks for nothing but what to
  restore. `HandsOver` is about the promise: a card that shows the first human as ready learned it from an
  answer, and answers never say *succeeded* of a job that has not (`AnswerOK`). Without a fault such a job is never opened
  again, by whomever (`JobsGrow`, kept by every request through `ApplyGrows`); it takes a request that had read
  the job before it succeeded, and `AsksOK` counts such a request as a fault (`ReadIsFault`). So whatever the service tells
  the app from then on is *ready*; the older answers, which could say otherwise, are given up in the step in
  which the card ends.

Attempts at proofs changed the model where it was wrong or could not be reasoned about: the history
variables of `ConversationList` now also record a retry and a confirmation that act on a row of another view;
the arms of three CASE expressions overlapped, of which TLC takes the first and the semantics any;
filters of lists, those of `BuildRecovery` too, are `Select` of `Lists`, since what a recursive filter computes
cannot be proved; `RecoveryConstants` says that no material is `NoKey`, without which the restored job could
not be told from none, and the visits that wizard and card share became a module of their own (`AsideScreens`);
`WizardConstants` says that there is a kind of material, without which a key could not be told from none;
the utterances that `NaturalConversation` bounds are counted as a set, since a sum over a fold cannot be
reasoned about.

Every safety property of a passing run is a theorem. Only model-checked are the liveness properties
(`RunningSettles`, `SupervisorSettles`, `LifecycleSettles`, `LoadingEnds`, `NaturalSettles`, `VideoComes`,
`CardSettles`): liveness under fairness and ENABLED are out of the prover's reach, as are induction over data
and theorems about RECURSIVE operators; the modules declare no RECURSIVE operator.

## 7. Where code and documentation disagree

`settings_secrets` shows one: every field of a stored secret that is left empty is sent as an empty
string, and the shell deletes a secret that is sent empty, although the field says
"已保存，留空表示不修改" (saved, leave empty to keep it). Any saving of the settings that does not type all
the secrets again deletes them. `PROJECT.json` quotes the lines.

The following properties are stated in their modules from what the documentation says, and do not
hold of the code. No configuration lists them; put one under INVARIANT or PROPERTY in the cfg of its
module and TLC prints the counterexample.

| module, property | what the documentation says | what happens |
|---|---|---|
| `BuildJob`, `CompletedNeverUnfinished` | `build_job_service.py:140`: "Completed jobs are never reported here" | `cancel` reads RUNNING, the driver finishes, `cancel` writes CANCELLING over SUCCEEDED; `current()` then reports a job that is complete |
| `BuildJob`, `HonestDelete` | `avatar.py:354`: "never delete local record while remote resources are still pending cleanup" | `delete_human` decides on a human without remote ids; the driver stores one before the record is deleted |
| `SidecarSupervisor`, `CacheIsCurrent` | `client.ts:203`: "Clears the cached sidecar connection, e.g. after a sidecar restart" | `restart_sidecar` publishes a new port and token; the API client keeps the old ones, nothing calls `resetSidecarConnection` |
| `ReadinessGate`, `PollsOnlyWhilePreparing` | readiness plan, Task 13: "polls only while preparation is active" | after a failed preparation or a restart in a check the run stays pending or recovering with no preparation active; the hook polls for ever |
| `NaturalConversation`, `MicClosedWhenIdle` | `useNaturalConversation.ts:139`: "stop the natural engine (and any audio / VAD)" | turned off while `getUserMedia` is pending, the adapter has no stream to release; the grant then opens the microphone of an idle conversation, and what it hears is sent and answered |
| `NaturalConversation`, `ThinkingIsStreaming` | `naturalConversationStateMachine.ts:31`: "`thinking` only when an LLM reply stream is in flight" | a refused connection rejects `streamConversationReply`; nobody catches it, and the machine stays in `thinking` |
| `ConversationWorkspace`, `RegenerateRemovesOnlyThatReply` | `docs/development.md:270`: it "removes only that reply" | the service deletes the last answer there is, also when it answers another question (after a reply that was never kept, or a switch of the thread) |
| `AvatarPresentation`, `ReconnectRemounts` | `useAvatarPresentation.ts:142`: "Remount the media element (new key) so the stream is rebuilt" | a stream that fails leaves the avatar dimension in *failed*, which keeps the element off the screen: the timer rebuilds nothing |
| `Creation`, `RebuildIsMade` | `useCreationWizard.ts:412`: the backend "updates the same record (rebuild) or derives a new record (copy)" | the idempotency key is made of the paths, which are those of the source: the service answers with the job that made the source, and the wizard says it is ready |

Met while modelling, without a property of their own. Where a history variable excludes one from a
property, the variable is named.

- *Build jobs.* A job of mode `new` without a human id succeeds and creates no human, although
  `build_job_repository.py` says that the mode creates one. An enrolment that times out after the
  provider has acted, or whose id could not be stored, leaves a resource nobody knows, and the retry
  makes another; a database error outside the try of `_drive` leaves the row RUNNING until a restart
  (both counted in `faults`). A retry that arrives while the old task still writes the human gets no
  driver: the row stays PENDING until a restart.
- *Supervisor.* After a restart that worked, the diagnostics no longer say that the sidecar crashed
  "this session" (`sidecar.rs`).
- *Natural conversation.* `stop()` of a sidecar transcription rejects when nothing was understood;
  `handleSpeechEnd` does not catch it and the phase stays `transcribing`. With two `getUserMedia`
  calls pending, the first stream is never stopped (out of the bound `MaxStreams` = 1). The hook stops
  nothing when it unmounts.
- *Workspace.* The buttons that save an edit and that retry are not disabled while a reply streams:
  two sends then share their refs (`overlapped`). A fetch that is refused leaves the generation at
  "understanding". `needsTitleRef` and `lastQueryRef` survive a switch of the conversation, and a
  switch does not abort the stream. The restored first page is not aborted by a switch. Clearing
  another conversation from the side bar blanks the one that is open.
- *Avatar.* Going offline and online again does not play again: `RECONNECT` is rejected in the stage
  it is sent in. Switching windows uses up reconnect attempts. A session whose start was aborted or
  timed out, or whose DELETE failed, stays open remotely (`unstopped`). All recordings are one file,
  and leaving the workspace leaves the recorder on (`misused`).
- *Creation.* A single lost poll shows "failed"; polls are not serialised and may be shown in reverse
  order (`strayed`). A stage "cleanup" is busy and ends the polling: the wizard is stuck in it.
  Material captured again has the same path and so the same key: the old job answers. Material changed
  while it is validated or confirmed is uploaded unvalidated (`slipped`). A wizard that has left the
  screen still acts.
- *Recovery card.* After its polling has ended, retry and cleanup do not start it again. After a change
  of job two polls may run side by side (`twice`). Cancelling with a poll in flight shows a timeout
  for ever. The job id kept in the local storage is read by nobody.
- *Conversation list.* A page is neither numbered nor aborted and may add rows of another view
  (`astray`); a failed deletion rolls back to the rows of then (`back`); an action reads again with
  the tab of its press.
- *Digital humans.* `humansRef` is not updated by deletion, renaming or the default, so that the next
  page brings a deleted human back. A human that is ready cannot be deleted: skipping is refused with
  409 and the clean-up is only accepted for a job that was cancelled or has failed. The dialog closed
  while deleting shows its result for the next human (`reused`).
- *Memory.* Two patches of one row answered in reverse order show the older one; a reading of the rules
  that is overtaken shows a rule that is gone (`overlapped`). A row whose deletion was answered by
  nobody can no longer be deleted.
- *Settings.* A failed saving throws away what was typed since; a late first answer overwrites what was
  typed before it, and a saving before it wipes everything. Clearing one secret saves the whole
  form, unvalidated. A saving whose keychain half fails has stored the settings; a deletion the keychain
  refuses is passed over, and the secret stays although its flag goes. Three presses on a source can end
  showing the wrong state (`crossed`).
- *Update.* The chosen channel is ignored; a retry waits for a check nobody makes; a download of
  unknown length never ends on screen (`strange`); the download looks for the newest version again, so
  that what is installed need not be what was shown; an installation that fails loses the package.

## 8. Plan

1. Done: the modules of section 2, and the proofs of section 6.
2. `Memory` on the side of the service (check-then-act of `record`, conflicts, concurrent pruning) and
   `DatabaseMigration` (backup, migration, crash between them).
3. Pure algorithms against a reference definition: error mapping, back-off, version comparison,
   summary windows, crop and duration rules.

To keep the set of runs small, the properties of a module share one run, and the disagreements of
section 7 have no run each.

## 9. What is not modelled

- Signature checking, TLS, providers, speech recognition, browsers and the OS are outside: the models
  take an outcome, an error or a timeout from them.
- Text processing: classification of memories, masking, ranking, chunking, prompt assembly, summaries.
- What a turn stores in the long-term memory (`record`, conflicts, pruning): it depends on the text the
  extractor finds. `MemoryList` models what the panel and its routes do to the rows.
- Backup and migration of the database; capture of images and sound; the thresholds of the VAD.
- Rendering, wording, scrolling, drafts, export, logging, metrics, event log.
- Of the modelled components: what the notes of `PROJECT.json` say; among it uploads, preview
  sessions, searching messages, archiving on the side of the service, connection checks of the
  settings, the other commands of the shell, evidence and timestamps of a capability.
- Code that only its tests use: `reliability/offlineQueue`, `resilience`, `messageRecovery`,
  `stallDetector`, `remoteResource`, `degradation`, `avSync`, `assetQuality`. Knowledge
  synchronisation has no concurrent caller.
