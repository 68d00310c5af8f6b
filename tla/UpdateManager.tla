------------------------------ MODULE UpdateManager ------------------------------
(***************************************************************************)
(* The update panel: a state machine that rejects what does not fit its    *)
(* phase, driven by a manager that calls the shell's updater.  The panel   *)
(* lives as long as the settings are open; the calls outlive it, and so    *)
(* does the package the shell has downloaded, verified and staged.         *)
(***************************************************************************)
EXTENDS ScreenCalls

CONSTANT Versions  \* the newest version in the channel of the installation, as time goes by

VARIABLES
  published, staged,   \* the newest version of the channel; the shell's package
  panel,               \* the number of the panel, its answers are lost when another is opened
  configured,          \* the panel knows that updates are configured
  u,                   \* the state of the machine
  strange              \* history variable, see the property

updateVars == <<published, staged, panel, configured, u, strange>>

NoVersion == 0
InitialUpdateState ==
  [phase |-> "idle", channel |-> "stable", available |-> NoVersion, total |-> FALSE,
   verified |-> FALSE, backup |-> FALSE, error |-> "none"]

-----------------------------------------------------------------------------
\* updateReducer.  "total" says that the length of the package is known.
Channels == {"stable", "beta"}
Retryable == {"not_configured", "check_failed", "download_failed", "install_failed"}
Running(s) == s.phase \in {"checking", "downloading", "verifying_signature", "installing"}

InError(s, kind) == [s EXCEPT !.phase = "error", !.error = kind, !.verified = FALSE]
SetChannel(s, channel) ==
  IF s.phase \in {"idle", "available", "error", "rolled_back"} THEN [s EXCEPT !.channel = channel] ELSE s
CheckStart(s) ==
  IF s.phase \in {"idle", "error", "rolled_back"} THEN [s EXCEPT !.phase = "checking", !.error = "none"] ELSE s
CheckEnds(s, ans) ==
  IF s.phase # "checking" THEN s
  ELSE IF ~ans.ok THEN InError(s, "check_failed")
  ELSE [s EXCEPT !.phase = IF ans.data.version = NoVersion THEN "idle" ELSE "available",
                 !.available = ans.data.version, !.total = FALSE]
DownloadStart(s) == IF s.phase = "available" THEN [s EXCEPT !.phase = "downloading", !.total = FALSE] ELSE s
DownloadProgress(s, known) == IF s.phase = "downloading" THEN [s EXCEPT !.total = known] ELSE s
DownloadComplete(s) ==
  IF s.phase = "downloading" /\ s.total THEN [s EXCEPT !.phase = "verifying_signature"] ELSE s
SignatureOk(s) ==
  IF s.phase = "verifying_signature" THEN [s EXCEPT !.phase = "ready", !.verified = TRUE] ELSE s
DownloadFailTooLate(s) ==   \* mutant
  IF s.phase = "verifying_signature" THEN InError(s, "download_failed") ELSE s
DownloadFail(s) == IF s.phase = "downloading" THEN InError(s, "download_failed") ELSE s
InstallStart(s) == IF s.phase = "ready" /\ s.verified THEN [s EXCEPT !.phase = "installing"] ELSE s
BackupMade(s) == IF s.phase \in {"ready", "installing"} THEN [s EXCEPT !.backup = TRUE] ELSE s
InstallEnds(s, ok) ==
  IF s.phase # "installing" THEN s
  ELSE IF ~ok THEN InError(s, "install_failed")
  ELSE [s EXCEPT !.phase = "idle", !.available = NoVersion, !.total = FALSE, !.verified = FALSE,
                 !.backup = FALSE, !.error = "none"]
RolledBack(s) ==
  IF s.phase = "error" THEN [s EXCEPT !.phase = "rolled_back", !.error = "none", !.verified = FALSE, !.backup = FALSE]
  ELSE s
Retry(s) ==
  IF s.phase = "error" /\ s.error \in Retryable
  THEN [s EXCEPT !.phase = "checking", !.error = "none", !.verified = FALSE, !.backup = FALSE] ELSE s
Reset(s) == [InitialUpdateState EXCEPT !.channel = s.channel]

-----------------------------------------------------------------------------
\* The shell: a download checks again, and stages what it finds then; an installation takes what is
\* staged, whatever becomes of it.
Serve(c) ==
  /\ CASE c.op = "check" ->
            Serves(c, Ok([version |-> published])) /\ UNCHANGED staged
       [] c.op = "download" ->
            IF published = NoVersion THEN Serves(c, Failed) /\ UNCHANGED staged
            ELSE staged' = published /\ Serves(c, Ok(<<>>))
       [] c.op = "install" ->
            staged' = NoVersion /\ Serves(c, IF staged = NoVersion THEN Failed ELSE Ok(<<>>))
       [] OTHER -> Serves(c, Ok(<<>>)) /\ UNCHANGED staged
  /\ UNCHANGED <<published, panel, configured, u, strange>>
Lose(c) == /\ Fails(c)
           /\ staged' = IF c.op = "install" THEN NoVersion ELSE staged
           /\ UNCHANGED <<published, panel, configured, u, strange>>
Publish == /\ published < Versions /\ published' = published + 1
           /\ UNCHANGED <<callVars, staged, panel, configured, u, strange>>

-----------------------------------------------------------------------------
\* The panel.  Closing the settings unmounts it, and a new one asks for the configuration again.
Mine(c) == c.arg = panel
OpenPanel ==
  /\ presses < MaxPresses /\ presses' = presses + 1 /\ UNCHANGED faults
  /\ panel' = panel + 1 /\ calls' = calls \cup {Call("config", panel')}
  /\ configured' = FALSE /\ u' = InitialUpdateState
  /\ strange' = (strange \/ Of("install") # {})
  /\ UNCHANGED <<published, staged>>
Forget(c) == ~Mine(c) /\ Heard(c, {}) /\ UNCHANGED updateVars

Configured(c) ==
  /\ c.op = "config" /\ Mine(c) /\ Heard(c, {}) /\ configured' = c.ans.ok
  /\ UNCHANGED <<published, staged, panel, u, strange>>

PressChannel(channel) ==
  /\ ~Running(u) /\ configured /\ u.channel # channel /\ u' = SetChannel(u, channel)
  /\ UNCHANGED <<callVars, published, staged, panel, configured, strange>>
PressCheck ==
  /\ ~Running(u) /\ configured /\ Press({Call("check", panel)}) /\ u' = CheckStart(u)
  /\ UNCHANGED <<published, staged, panel, configured, strange>>
PressDownload ==
  /\ u.phase = "available" /\ Press({Call("download", panel)}) /\ u' = DownloadStart(u)
  /\ UNCHANGED <<published, staged, panel, configured, strange>>
PressInstall ==
  /\ u.phase = "ready" /\ Press({Call("install", panel)}) /\ u' = BackupMade(InstallStart(u))
  /\ UNCHANGED <<published, staged, panel, configured, strange>>

\* Nobody checks after a retry.
PressRetry ==
  /\ u.phase = "error" /\ u' = Retry(u) /\ strange' = (strange \/ u' # u)
  /\ UNCHANGED <<callVars, published, staged, panel, configured>>
PressRollback ==
  /\ u.phase = "error" /\ u' = RolledBack(u)
  /\ UNCHANGED <<callVars, published, staged, panel, configured, strange>>
PressReset ==
  /\ ~Running(u) /\ u' = Reset(u) /\ u' # u
  /\ UNCHANGED <<callVars, published, staged, panel, configured, strange>>

Progress(c, known) ==
  /\ c \in Of("download") /\ ~c.ans.done /\ Mine(c)
  /\ u' = DownloadProgress(u, known) /\ u' # u
  /\ UNCHANGED <<callVars, published, staged, panel, configured, strange>>
Checked(c) ==
  /\ c.op = "check" /\ Mine(c) /\ Heard(c, {}) /\ u' = CheckEnds(u, c.ans)
  /\ UNCHANGED <<published, staged, panel, configured, strange>>
\* The end of a download of unknown length is rejected.
Downloaded(c) ==
  /\ c.op = "download" /\ Mine(c) /\ Heard(c, {})
  /\ u' = IF c.ans.ok THEN SignatureOk(DownloadComplete(u)) ELSE DownloadFail(u)
  /\ strange' = (strange \/ (c.ans.ok /\ u.phase = "downloading" /\ ~u.total))
  /\ UNCHANGED <<published, staged, panel, configured>>
Installed(c) ==
  /\ c.op = "install" /\ Mine(c) /\ Heard(c, {}) /\ u' = InstallEnds(u, c.ans.ok)
  /\ UNCHANGED <<published, staged, panel, configured, strange>>

-----------------------------------------------------------------------------
ScreenInit ==
  /\ published = NoVersion /\ staged = NoVersion /\ panel = 0 /\ configured = FALSE
  /\ u = InitialUpdateState /\ strange = FALSE
FirstCalls == {Call("config", 0)}
Init == ScreenInit /\ CallsInit(FirstCalls)

Next ==
  \/ Publish \/ OpenPanel \/ PressCheck \/ PressDownload \/ PressInstall
  \/ PressRetry \/ PressRollback \/ PressReset \/ (\E channel \in Channels : PressChannel(channel))
  \/ (\E c \in calls : \/ Serve(c) \/ Lose(c) \/ Forget(c) \/ Configured(c) \/ Checked(c) \/ Downloaded(c)
                       \/ Installed(c) \/ \E known \in BOOLEAN : Progress(c, known))

Spec == Init /\ [][Next]_<<callVars, updateVars>>

-----------------------------------------------------------------------------
\* While the panel says that something is running, and so disables what could end it, a call of its own
\* is under way that will; and it offers to install only what the shell has staged.  Except after a
\* retry, which nobody acts on, a download of unknown length, and when the panel was opened again
\* with an installation under way (updateStateMachine.ts:160-204, useUpdateManager.ts:76-136).
PanelIsBacked ==
  ~strange =>
    /\ Running(u) => \E c \in calls : Mine(c) /\ c.op = (CASE u.phase = "checking" -> "check"
                                                          [] u.phase = "installing" -> "install"
                                                          [] OTHER -> "download")
    /\ u.phase = "ready" => staged # NoVersion
=============================================================================
