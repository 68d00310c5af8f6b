------------------------- MODULE AvatarPresentation -------------------------
(***************************************************************************)
(* useAvatarPresentation: the presentation lifecycle, the events of the    *)
(* <video> element and of the window, and the session they present,        *)
(* composed with the voice button of the same workspace.  The human is     *)
(* chosen on the management screen, which takes the workspace's place, so  *)
(* that the presentation starts anew on every return while the session,    *)
(* which App.tsx owns, lives on.                                           *)
(***************************************************************************)
EXTENDS AvatarSession, VoiceRecording

CONSTANTS
  MaxVisits,   \* bound: times the workspace is opened
  MaxFaults    \* bound: events of the window, the user or the stream that disturb the video

ASSUME PresentationConstants == MaxVisits \in Nat /\ MaxFaults \in Nat

VARIABLES
  mounted,       \* the workspace is on screen
  presentation,  \* [stage, attempts]; the mode follows from the stage
  timer,         \* reconnectTimeoutRef is set
  avatar,        \* the avatar dimension of the state machine
  video,         \* the <video> element: "none" when it is not rendered
  online,
  visits, faults \* bookkeeping: bounded by MaxVisits and MaxFaults

presentationVars == <<mounted, presentation, timer, avatar, video, online, visits, faults>>
vars == <<sessionVars, voiceVars, presentationVars>>

MaxReconnectAttempts == 2
Stage(stage, attempts) == [stage |-> stage, attempts |-> attempts]
Initial == Stage("fallback", 0)
Live(p) == p.stage \notin {"fallback", "auth-expired", "stream-expired", "error"}

DropsOnlyWhenBuffering(p, a) ==   \* mutant
  LET to(stage) == Stage(stage, p.attempts) IN
  CASE a = "START" -> Stage("loading", 0)
    [] a = "LOADED" /\ p.stage \in {"loading", "reconnecting"} -> to("buffering")
    [] a = "PLAYING" /\ p.stage \in {"buffering", "loading"}   -> to("playing")
    [] a = "RECONNECT" /\ p.stage = "buffering" -> Stage("reconnecting", p.attempts + 1)
    [] a = "RECONNECTED" /\ p.stage = "reconnecting"           -> to("loading")
    [] a = "FALLBACK" -> to("fallback")
    [] a = "RESET"    -> Initial
    [] OTHER          -> p
\* presentationLifecycleReducer: an action that is not legal in its stage changes nothing.
\* The actions nobody dispatches are left out.
PresentationNext(p, a) ==
  LET to(stage) == Stage(stage, p.attempts) IN
  CASE a = "START" -> Stage("loading", 0)
    [] a = "LOADED" /\ p.stage \in {"loading", "reconnecting"} -> to("buffering")
    [] a = "PLAYING" /\ p.stage \in {"buffering", "loading"}   -> to("playing")
    [] a = "RECONNECT" /\ p.stage \in {"playing", "buffering"} ->
         Stage("reconnecting", p.attempts + 1)
    [] a = "RECONNECTED" /\ p.stage = "reconnecting"           -> to("loading")
    [] a = "FALLBACK" -> to("fallback")
    [] a = "RESET"    -> Initial
    [] OTHER          -> p

Present(a) == presentation' = PresentationNext(presentation, a)
DispatchAvatar(a) == avatar' = AvatarNext(avatar, a)

\* What is rendered after a step: the element that stays is in state v; a rebuild, a new
\* session or a return makes a new one.
Shown == mounted /\ Playable(session) /\ Live(presentation) /\ avatar # "failed"
Render(v, rebuilt) ==
  video' = IF ~Shown' THEN "none"
           ELSE IF rebuilt \/ video = "none" \/ session' # session THEN "new" ELSE v

-----------------------------------------------------------------------------
\* Another session, or none, begins a new presentation.
FollowSession ==
  /\ IF mounted /\ session' # session THEN Present("START") ELSE UNCHANGED presentation
  /\ UNCHANGED <<voiceVars, mounted, timer, avatar, online, visits, faults>>
  /\ Render(video, FALSE)

SelectHuman(h) == ~mounted /\ ChangeIdentity(h) /\ FollowSession
SessionStep(i) == (Serve(i) \/ Stopped(i) \/ Created(i) \/ StartFails(i)) /\ FollowSession

Mount ==
  /\ ~mounted /\ human # NoHuman /\ visits < MaxVisits
  /\ mounted' = TRUE /\ visits' = visits + 1
  /\ presentation' = IF Playable(session) THEN Stage("loading", 0) ELSE Initial
  /\ avatar' = "idle"
  /\ UNCHANGED <<sessionVars, voiceVars, timer, online, faults>>
  /\ Render("none", FALSE)

\* The management or the settings screen takes the place of the workspace.
Unmount ==
  /\ mounted /\ mounted' = FALSE
  /\ timer' = FALSE
  /\ presentation' = Initial /\ avatar' = "idle"
  /\ LeaveVoice
  /\ UNCHANGED <<sessionVars, online, visits, faults>>
  /\ Render("none", FALSE)

-----------------------------------------------------------------------------
StillHere == UNCHANGED <<sessionVars, mounted, visits>>
Undisturbed == StillHere /\ UNCHANGED <<voiceVars, online, faults>>
Disturb == StillHere /\ faults < MaxFaults /\ faults' = faults + 1

OnVideoLoadedData ==
  /\ video = "new"
  /\ DispatchAvatar("AVATAR_STARTED") /\ Present("LOADED")
  /\ Undisturbed /\ UNCHANGED timer
  /\ Render("loaded", FALSE)

OnVideoPlay ==
  /\ video = "loaded"
  /\ DispatchAvatar("AVATAR_PLAYING") /\ Present("PLAYING")
  /\ Undisturbed /\ UNCHANGED timer
  /\ Render("playing", FALSE)

\* stopPlayback, when the thread becomes read-only: the video is paused with the speech, and
\* nothing plays it again.
OnVideoPause ==
  /\ video = "playing"
  /\ DispatchAvatar("AVATAR_PAUSED")
  /\ UNCHANGED <<presentation, timer, voiceVars, online>>
  /\ Disturb
  /\ Render("paused", FALSE)

OnVideoEnded ==
  /\ video = "playing"
  /\ DispatchAvatar("AVATAR_COMPLETED") /\ Present("FALLBACK")
  /\ Disturb /\ UNCHANGED <<timer, voiceVars, online>>
  /\ Render("none", FALSE)

\* scheduleReconnect, unless the stream dropped too often.
OnVideoError ==
  /\ video # "none"
  /\ DispatchAvatar("AVATAR_FAILED")
  /\ IF presentation.attempts < MaxReconnectAttempts
     THEN Present("RECONNECT") /\ timer' = TRUE
     ELSE Present("FALLBACK") /\ UNCHANGED timer
  /\ Disturb /\ UNCHANGED <<voiceVars, online>>
  /\ Render("none", FALSE)

\* The timer fires: the element is rendered under a new key.
Reconnect ==
  /\ timer /\ timer' = FALSE
  /\ Present("RECONNECTED")
  /\ UNCHANGED avatar
  /\ Undisturbed
  /\ Render("new", TRUE)

\* The window becomes visible, and a stream that is not playing is rebuilt.
OnVisible ==
  /\ mounted /\ Playable(session) /\ presentation.stage # "playing"
  /\ Present("RECONNECT")
  /\ UNCHANGED <<timer, avatar, voiceVars, online>>
  /\ Disturb
  /\ Render("new", TRUE)

OnOffline ==
  /\ online /\ online' = FALSE
  /\ IF mounted /\ presentation.stage \in {"playing", "buffering"} THEN Present("RECONNECT")
     ELSE UNCHANGED presentation
  /\ UNCHANGED <<timer, avatar, voiceVars>>
  /\ Disturb
  /\ Render(video, FALSE)

OnOnline ==
  LET rebuild == mounted /\ Playable(session)
                   /\ presentation.stage \in {"reconnecting", "fallback"} IN
  /\ ~online /\ online' = TRUE
  /\ IF rebuild THEN Present("RECONNECT") ELSE UNCHANGED presentation
  /\ UNCHANGED <<timer, avatar, voiceVars>>
  /\ StillHere /\ UNCHANGED faults
  /\ Render(video, rebuild)

\* Another conversation, selected or created (which also resets the state machine), or none
\* once it is deleted: cleanup.
SwitchConversation(reset) ==
  /\ mounted
  /\ timer' = FALSE
  /\ Present("RESET")
  /\ recording' = IF reset THEN RecordingNext(recording, "RESET") ELSE recording
  /\ IF reset THEN DispatchAvatar("RESET") ELSE UNCHANGED avatar
  /\ Disturb /\ UNCHANGED <<recorder, recordingVoice, press, misused, online>>
  /\ Render("none", FALSE)

Voice(i) ==
  /\ (mounted /\ PressVoice(i)) \/ VoiceStep(i)
  /\ UNCHANGED <<sessionVars, presentationVars>>

-----------------------------------------------------------------------------
Init ==
  /\ SessionInit /\ VoiceInit
  /\ mounted = FALSE /\ presentation = Initial /\ timer = FALSE /\ avatar = "idle"
  /\ video = "none" /\ online = TRUE /\ visits = 0 /\ faults = 0

Next ==
  \/ \E h \in Humans \cup {NoHuman} : SelectHuman(h)
  \/ \E i \in Starts : SessionStep(i)
  \/ Mount \/ Unmount
  \/ OnVideoLoadedData \/ OnVideoPlay \/ OnVideoPause \/ OnVideoEnded \/ OnVideoError
  \/ Reconnect \/ OnVisible \/ OnOffline \/ OnOnline
  \/ \E reset \in BOOLEAN : SwitchConversation(reset)
  \/ \E i \in Presses : Voice(i)

\* The promise of a start settles, because of the deadline if nothing else; a stream that is
\* loaded and not disturbed loads and plays.
Fairness ==
  /\ \A i \in Starts : WF_vars((Created(i) \/ StartFails(i)) /\ FollowSession)
  /\ WF_vars(OnVideoLoadedData) /\ WF_vars(OnVideoPlay) /\ WF_vars(Reconnect)

Spec == Init /\ [][Next]_vars /\ Fairness

-----------------------------------------------------------------------------
\* A stream never crosses a change of human, although the start of the session of the one
\* before may still be answered (useAvatarSession.ts:15-17, :72-82).
SessionIsOfHuman == session \in Starts => start[session].human = human

\* A session left open at the sidecar is the one on screen, is being stopped, or was lost in
\* one of four known ways: its start was aborted or timed out, its DELETE failed, or the
\* human was deselected (useAvatarSession.ts:117-140, avatarClient.ts:200-219).
OnlyKnownLeaks ==
  \A i \in remote \ ({session} \cup stopping \cup unstopped) :
    start[i].client \in {"waiting", "aborted", "failed"}

\* Every session that is open is accounted for, on screen or not (useAvatarSession.ts:60-140).
SessionsAreKnown == SessionIsOfHuman /\ OnlyKnownLeaks

\* The stage is "playing" only while there is a video that plays or was paused
\* (useAvatarPresentation.ts:148-236).
PlayingIsOnScreen == presentation.stage = "playing" => video \in {"playing", "paused"}

\* A rebuild that is due follows a failure of the presentation it will rebuild, never one
\* that was torn down since (useAvatarPresentation.ts:136-146, :236-242).
RebuildFollowsFailure == timer => avatar = "failed" /\ Live(presentation)

\* What the presentation claims, and what it is about to do, fits the video there is
\* (useAvatarPresentation.ts:136-242).
StageIsOfVideo == PlayingIsOnScreen /\ RebuildFollowsFailure

\* A start never hangs: its promise settles or is aborted (useAvatarSession.ts:11-12).
StartSettles == \A i \in Starts : start[i].client = "waiting" ~> start[i].client # "waiting"

\* A new element comes to be presented as playing, whatever made it new, unless it is gone
\* again first or the window goes offline while it loads (useAvatarPresentation.ts:148-170).
NewVideoPlays == video = "new" ~> presentation.stage = "playing" \/ video = "none" \/ ~online

\* From the start of a session to a picture that moves, nothing hangs (useAvatarSession.ts:60-140,
\* useAvatarPresentation.ts:148-170).
VideoComes == StartSettles /\ NewVideoPlays

\* When the reconnect timer fires the media element is mounted again
\* (useAvatarPresentation.ts:142: "Remount the media element (new key) so the stream is
\* rebuilt").
ReconnectRemounts == [][timer /\ ~timer' /\ Live(presentation') => video' = "new"]_vars
=============================================================================
