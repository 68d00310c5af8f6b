---------------------- MODULE AvatarPresentationProofs ----------------------
(***************************************************************************)
(* What holds of the session, of its video and of the voice button in      *)
(* every reachable state, for any humans, starts, visits and presses.      *)
(***************************************************************************)
EXTENDS AvatarPresentation, TLAPS

Identities == Humans \cup {NoHuman}

\* Only the start that has the controller can still become the session, and it is of the human
\* selected; a session that was shown is shown, being stopped, or counted as forgotten.
SessionOK ==
  /\ human \in Identities
  /\ start \in [Starts -> [human : Identities,
                           client : {"none", "waiting", "aborted", "failed", "settled"},
                           server : {"none", "asked", "made", "silent", "refused"}]]
  /\ controller \in 0..MaxStarts /\ session \in 0..MaxStarts
  /\ remote \in SUBSET Starts
  /\ controller # 0 => /\ session = 0
                       /\ start[controller].client = "waiting" /\ start[controller].human = human
  /\ \A i \in Starts :
       /\ start[i].client = "waiting" => i = controller
       /\ start[i].client = "none" => start[i].server = "none"
       /\ start[i].client = "settled" => start[i].server \in {"made", "silent"}
       /\ i \in remote => start[i].server \in {"made", "silent"}
       /\ i \in remote /\ start[i].client = "settled" => i \in {session} \cup stopping \cup unstopped
  /\ session # 0 => start[session].client = "settled" /\ start[session].human = human

\* The element is on screen exactly when it is to be shown, and a screen that is gone presents
\* nothing.
StageOK ==
  /\ video = "none" <=> ~Shown
  /\ ~mounted => presentation = Initial
  /\ PlayingIsOnScreen
  /\ RebuildFollowsFailure

\* Unless the button was misused one press is under way at a time, and the recorder is off when
\* the recording is transcribed.
VoiceOK ==
  misused \/ /\ recorder => recordingVoice
             /\ \A i, j \in Presses : press[i].pc \notin {"none", "over"} /\ press[j].pc \notin {"none", "over"}
                                      => i = j
             /\ \A i \in Presses : press[i].pc = "transcribing" => ~recorder

PressType == [pc : {"none", "starting", "stopping", "transcribing", "over"}, here : BOOLEAN]

TypesOK ==
  /\ video \in {"none", "new", "loaded", "playing", "paused"}
  /\ presentation = Stage(presentation.stage, presentation.attempts)
  /\ mounted \in BOOLEAN /\ timer \in BOOLEAN
  /\ press \in [Presses -> PressType]
  /\ recorder \in BOOLEAN /\ recordingVoice \in BOOLEAN /\ misused \in BOOLEAN

AInv == TypesOK /\ SessionOK /\ StageOK /\ VoiceOK

-----------------------------------------------------------------------------
\* What a step of another part leaves alone.
LEMMA SessionFrame == SessionOK /\ UNCHANGED sessionVars => SessionOK'
BY DEF SessionOK, sessionVars

\* The voice button.
LEMMA VoiceFrame == VoiceOK /\ UNCHANGED voiceVars => VoiceOK'
BY DEF VoiceOK, voiceVars

\* 0 is no start.
LEMMA StartsAreNumbers == Starts \subseteq 0..MaxStarts /\ 0 \notin Starts /\ \A i \in 0..MaxStarts : i = 0 \/ i \in Starts
BY SessionConstants DEF Starts

-----------------------------------------------------------------------------
\* Aborting the start that has the controller: nothing waits any more.
LEMMA AbortForm ==
  ASSUME SessionOK
  PROVE  /\ \A j \in Starts : j # controller => Abort(start, controller)[j] = start[j]
         /\ controller \in Starts => Abort(start, controller)[controller] = [start[controller] EXCEPT !.client = "aborted"]
         /\ Abort(start, controller) \in [Starts -> [human : Identities,
                           client : {"none", "waiting", "aborted", "failed", "settled"},
                           server : {"none", "asked", "made", "silent", "refused"}]]
<1>1. DOMAIN start = Starts
  BY DEF SessionOK
<1>2. ASSUME NEW j \in Starts
      PROVE  [start[j] EXCEPT !.client = "aborted"] \in [human : Identities,
                           client : {"none", "waiting", "aborted", "failed", "settled"},
                           server : {"none", "asked", "made", "silent", "refused"}]
  BY DEF SessionOK
<1> QED BY <1>1, <1>2 DEF SessionOK, Abort

\* The identity changes.
LEMMA ChangeKeeps == ASSUME SessionOK, NEW h \in Identities, ChangeIdentity(h) PROVE SessionOK'
<1> DEFINE kept == Abort(start, controller)
<1>1. /\ \A j \in Starts : /\ kept[j].server = start[j].server
                           /\ kept[j].client = IF j = controller THEN "aborted" ELSE start[j].client
                           /\ kept[j].human = start[j].human
      /\ kept \in [Starts -> [human : Identities,
                           client : {"none", "waiting", "aborted", "failed", "settled"},
                           server : {"none", "asked", "made", "silent", "refused"}]]
  BY AbortForm DEF SessionOK
<1> HIDE DEF kept
<1>2. session # 0 => controller = 0
  BY DEF SessionOK
<1>3. CASE h = NoHuman
  <2>1. /\ human' = h /\ start' = kept /\ controller' = 0 /\ session' = 0
        /\ unstopped' = unstopped \cup {session} /\ UNCHANGED <<stopping, remote>>
    BY <1>3 DEF ChangeIdentity, Deselect, kept
  <2> QED BY <1>1, <2>1, StartsAreNumbers DEF SessionOK
<1>4. CASE h # NoHuman
  <2>1. PICK i \in Starts : Switch(h, i)
    BY <1>4 DEF ChangeIdentity
  <2> DEFINE new == [human |-> h, client |-> "waiting", server |-> "asked"]
  <2>2. /\ human' = h /\ start' = [kept EXCEPT ![i] = new] /\ controller' = i /\ session' = 0
        /\ start[i].client = "none"
        /\ stopping' = (IF session = 0 THEN stopping ELSE stopping \cup {session})
        /\ UNCHANGED <<unstopped, remote>>
    BY <1>4, <2>1 DEF ChangeIdentity, Switch, StartFor, kept
  <2>3. \A j \in Starts : start'[j] = IF j = i THEN new ELSE kept[j]
    BY <1>1, <2>2
  <2>4. start' \in [Starts -> [human : Identities,
                           client : {"none", "waiting", "aborted", "failed", "settled"},
                           server : {"none", "asked", "made", "silent", "refused"}]]
    BY <1>1, <2>2
  <2>5. i \notin remote
    BY <2>2 DEF SessionOK
  <2>6. human' \in Identities /\ controller' \in 0..MaxStarts /\ session' \in 0..MaxStarts /\ controller' # 0
    BY <2>2, StartsAreNumbers DEF SessionOK
  <2> QED BY <1>1, <1>2, <2>2, <2>3, <2>4, <2>5, <2>6 DEF SessionOK
<1> QED BY <1>3, <1>4

\* The sidecar answers, and the promise of a start settles.
LEMMA SessionKeeps ==
  ASSUME SessionOK, NEW i \in Starts, Serve(i) \/ Stopped(i) \/ Created(i) \/ StartFails(i)
  PROVE  SessionOK'
<1>1. CASE Serve(i)
  <2>1. PICK answer \in {"made", "silent", "refused"} :
          /\ start' = [start EXCEPT ![i].server = answer]
          /\ remote' = remote \/ (remote' = remote \cup {i} /\ answer # "refused")
    BY <1>1 DEF Serve
  <2>2. start[i].server = "asked" /\ UNCHANGED <<human, controller, session, starting, stopping, unstopped>>
    BY <1>1 DEF Serve
  <2> QED BY <2>1, <2>2 DEF SessionOK
<1>2. CASE Stopped(i)
  BY <1>2 DEF Stopped, SessionOK
<1>3. CASE Created(i)
  BY <1>3, StartsAreNumbers DEF Created, SessionOK
<1>4. CASE StartFails(i)
  BY <1>4, StartsAreNumbers DEF StartFails, SessionOK
<1> QED BY <1>1, <1>2, <1>3, <1>4
-----------------------------------------------------------------------------
\* The reducers, as far as the proofs look: what plays is only what was told to play, what is
\* live stays so, and only a failure makes the avatar fail.
LEMMA StageSteps ==
  ASSUME TypesOK
  PROVE  /\ \A a : LET q == PresentationNext(presentation, a) IN q = Stage(q.stage, q.attempts)
         /\ PresentationNext(presentation, "START").stage = "loading"
         /\ PresentationNext(presentation, "RESET") = Initial
         /\ PresentationNext(presentation, "FALLBACK").stage = "fallback"
         /\ PresentationNext(presentation, "RECONNECT").stage # "playing"
         /\ \A a \in {"RECONNECT", "RECONNECTED", "LOADED", "PLAYING"} :
              Live(presentation) => Live(PresentationNext(presentation, a))
         /\ \A a \in {"RECONNECTED", "LOADED"} :
              PresentationNext(presentation, a).stage = "playing" => presentation.stage = "playing"
<1> DEFINE to(stage) == Stage(stage, presentation.attempts)
<1>1. \A stage : to(stage).stage = stage
  BY DEF Stage
<1> QED BY <1>1 DEF TypesOK, PresentationNext, Live, Stage, Initial

\* What the avatar fails of.
LEMMA AvatarSteps ==
  ASSUME NEW v
  PROVE  /\ AvatarNext(v, "AVATAR_FAILED") = "failed"
         /\ v # "failed" => /\ AvatarNext(v, "AVATAR_STARTED") # "failed"
                            /\ AvatarNext(v, "AVATAR_PLAYING") # "failed"
                            /\ AvatarNext(v, "AVATAR_PAUSED") # "failed"
BY DEF AvatarNext
-----------------------------------------------------------------------------
\* What is rendered.
LEMMA Rendered ==
  ASSUME TypesOK, NEW v \in {"none", "new", "loaded", "playing", "paused"}, NEW rebuilt, Render(v, rebuilt),
         v # "none" \/ video = "none" \/ ~Shown'
  PROVE  /\ video' \in {"none", "new", "loaded", "playing", "paused"}
         /\ video' = "none" <=> ~Shown'
         /\ Shown' /\ ~rebuilt /\ video # "none" /\ session' = session => video' = v
BY DEF Render, TypesOK

\* The session of the video that is on screen answers no more, so it stays playable.
LEMMA StaysPlayable ==
  ASSUME SessionOK, NEW i \in Starts, Serve(i) \/ Stopped(i) \/ Created(i) \/ StartFails(i),
         session' = session, session # 0
  PROVE  Playable(session)' = Playable(session)
<1>1. session \in Starts
  BY StartsAreNumbers DEF SessionOK
<1>2. start[session].client = "settled" /\ start[session].server \in {"made", "silent"}
  BY <1>1 DEF SessionOK
<1>3. start'[session].server = start[session].server
  BY <1>1, <1>2 DEF Serve, Stopped, Created, StartFails, SessionOK
<1> QED BY <1>3 DEF Playable

\* Another session, or none, is presented anew.
LEMMA FollowKeeps ==
  ASSUME TypesOK, StageOK, FollowSession,
         session' = session => Playable(session)' = Playable(session)
  PROVE  StageOK' /\ TypesOK'
<1>1. /\ UNCHANGED <<voiceVars, mounted, timer, avatar>> /\ Render(video, FALSE)
      /\ IF mounted /\ session' # session THEN Present("START") ELSE UNCHANGED presentation
  BY DEF FollowSession
<1>2. /\ presentation' = Stage(presentation'.stage, presentation'.attempts)
      /\ Live(presentation) => Live(presentation')
      /\ ~mounted => presentation' = presentation
      /\ presentation'.stage = "playing" => presentation' = presentation /\ (session' = session \/ ~mounted)
  BY <1>1, StageSteps DEF Present, TypesOK, Live, PresentationNext, Stage
<1>3. /\ video' \in {"none", "new", "loaded", "playing", "paused"}
      /\ video' = "none" <=> ~Shown'
      /\ Shown' /\ video # "none" /\ session' = session => video' = video
  BY <1>1, Rendered DEF TypesOK
<1>4. TypesOK'
  BY <1>1, <1>2, <1>3 DEF TypesOK, voiceVars
<1>5. PlayingIsOnScreen'
  <2>1. CASE presentation'.stage = "playing"
    <3>1. presentation' = presentation /\ video \in {"playing", "paused"} /\ Shown
      BY <1>2, <2>1 DEF StageOK, PlayingIsOnScreen
    <3>2. session' = session /\ mounted
      BY <1>2, <2>1, <3>1 DEF Shown
    <3>3. Shown'
      BY <1>1, <3>1, <3>2 DEF Shown
    <3> QED BY <1>3, <3>1, <3>2, <3>3 DEF PlayingIsOnScreen
  <2> QED BY <2>1 DEF PlayingIsOnScreen
<1>6. RebuildFollowsFailure'
  BY <1>1, <1>2 DEF StageOK, RebuildFollowsFailure
<1> QED BY <1>1, <1>2, <1>3, <1>4, <1>5, <1>6 DEF StageOK

\* The workspace is opened, or left.
LEMMA MountKeeps == ASSUME TypesOK, StageOK, Mount \/ Unmount PROVE StageOK' /\ TypesOK'
<1>0. ~mounted => timer = FALSE
  <2>1. ~Live(Initial)
    BY DEF Live, Initial, Stage
  <2> QED BY <2>1 DEF TypesOK, StageOK, RebuildFollowsFailure
<1>1. mounted' = (~mounted) /\ Render("none", FALSE) /\ avatar' = "idle" /\ timer' = FALSE
  <2>1. CASE Mount
    BY <2>1, <1>0 DEF Mount, TypesOK
  <2>2. CASE Unmount
    BY <2>2 DEF Unmount, TypesOK
  <2> QED BY <2>1, <2>2
<1>2. presentation' = Initial \/ (mounted' /\ presentation' = Stage("loading", 0))
  BY DEF Mount, Unmount
<1>3. video = "none" \/ ~Shown'
  BY <1>1 DEF StageOK, Shown, TypesOK
<1>4. /\ video' \in {"none", "new", "loaded", "playing", "paused"}
      /\ video' = "none" <=> ~Shown'
  BY <1>1, <1>3, Rendered
<1>5. /\ press' \in [Presses -> PressType]
      /\ recorder' \in BOOLEAN /\ recordingVoice' \in BOOLEAN /\ misused' \in BOOLEAN
  <2>1. CASE Mount
    BY <2>1 DEF Mount, voiceVars, TypesOK
  <2>2. CASE Unmount
    <3>1. ASSUME NEW q \in PressType, NEW b \in BOOLEAN PROVE [q EXCEPT !.here = b] \in PressType
      BY DEF PressType
    <3>2. ASSUME NEW i \in Presses PROVE [press[i] EXCEPT !.here = press[i].pc \in {"none", "over"}] \in PressType
      <4>1. press[i] \in PressType /\ (press[i].pc \in {"none", "over"}) \in BOOLEAN
        BY DEF TypesOK
      <4> QED BY <3>1, <4>1
    <3> QED BY <2>2, <3>2 DEF Unmount, LeaveVoice, TypesOK
  <2> QED BY <2>1, <2>2
<1>6. presentation' = Stage(presentation'.stage, presentation'.attempts) /\ presentation'.stage # "playing"
  BY <1>2 DEF Stage, Initial
<1>7. mounted' \in BOOLEAN /\ timer' \in BOOLEAN
  BY <1>1 DEF TypesOK
<1> QED BY <1>1, <1>2, <1>4, <1>5, <1>6, <1>7 DEF StageOK, TypesOK, PlayingIsOnScreen, RebuildFollowsFailure

-----------------------------------------------------------------------------
\* A step on a workspace that stays, with its session: what the stage and the timer may become.
LEMMA StageHolds ==
  ASSUME TypesOK, StageOK, StillHere, UNCHANGED <<recorder, recordingVoice, press, misused>>,
         NEW v \in {"none", "new", "loaded", "playing", "paused"}, NEW rebuilt, Render(v, rebuilt),
         v # "none" \/ video = "none" \/ ~Shown',
         presentation' = Stage(presentation'.stage, presentation'.attempts),
         ~mounted => presentation' = Initial,
         presentation'.stage = "playing" =>
           video # "none" /\ avatar' # "failed" /\ ~rebuilt /\ v \in {"playing", "paused"},
         timer' \in BOOLEAN, timer' => avatar' = "failed" /\ Live(presentation')
  PROVE  StageOK' /\ TypesOK'
<1>1. UNCHANGED <<mounted, session, start>>
  BY DEF StillHere, sessionVars
<1>2. /\ video' \in {"none", "new", "loaded", "playing", "paused"}
      /\ video' = "none" <=> ~Shown'
      /\ Shown' /\ ~rebuilt /\ video # "none" /\ session' = session => video' = v
  BY Rendered
<1>3. TypesOK'
  BY <1>1, <1>2 DEF TypesOK
<1>4. PlayingIsOnScreen'
  <2>1. CASE presentation'.stage = "playing"
    <3>1. Shown /\ Live(presentation')
      BY <2>1 DEF StageOK, Live
    <3>2. Shown'
      BY <1>1, <2>1, <3>1 DEF Shown, Playable
    <3> QED BY <1>1, <1>2, <2>1, <3>2 DEF PlayingIsOnScreen
  <2> QED BY <2>1 DEF PlayingIsOnScreen
<1> QED BY <1>1, <1>2, <1>3, <1>4 DEF StageOK, RebuildFollowsFailure

\* While a rebuild is due there is no element on screen.
LEMMA RebuildHasNoVideo == ASSUME StageOK, timer PROVE video = "none" /\ avatar = "failed" /\ Live(presentation)
BY DEF StageOK, RebuildFollowsFailure, Shown

\* A workspace that is gone shows nothing.
LEMMA GoneIsInitial ==
  ASSUME StageOK, ~mounted
  PROVE  /\ presentation = Initial /\ video = "none"
         /\ \A a \in {"RECONNECT", "RECONNECTED"} : PresentationNext(presentation, a) = Initial
BY DEF StageOK, Shown, PresentationNext, Initial, Stage

\* The events of the element.
LEMMA ElementKeeps ==
  ASSUME TypesOK, StageOK, OnVideoLoadedData \/ OnVideoPlay \/ OnVideoPause \/ OnVideoEnded \/ OnVideoError
  PROVE  StageOK' /\ TypesOK'
<1>1. video # "none" /\ Shown /\ mounted /\ avatar # "failed" /\ Live(presentation) /\ ~timer
  BY RebuildHasNoVideo DEF OnVideoLoadedData, OnVideoPlay, OnVideoPause, OnVideoEnded, OnVideoError, StageOK, Shown
<1>2. presentation = Stage(presentation.stage, presentation.attempts) /\ timer \in BOOLEAN
  BY DEF TypesOK
<1>3. CASE OnVideoLoadedData
  <2>1. /\ StillHere /\ UNCHANGED <<recorder, recordingVoice, press, misused, timer>> /\ Render("loaded", FALSE)
        /\ presentation' = PresentationNext(presentation, "LOADED") /\ video = "new"
    BY <1>3 DEF OnVideoLoadedData, Undisturbed, voiceVars, Present
  <2>2. presentation'.stage # "playing" /\ presentation' = Stage(presentation'.stage, presentation'.attempts)
    BY <1>2, <2>1, StageSteps DEF StageOK, PlayingIsOnScreen
  <2> QED BY <1>1, <1>2, <2>1, <2>2, StageHolds
<1>4. CASE OnVideoPlay
  <2>1. /\ StillHere /\ UNCHANGED <<recorder, recordingVoice, press, misused, timer>> /\ Render("playing", FALSE)
        /\ presentation' = PresentationNext(presentation, "PLAYING")
        /\ avatar' = AvatarNext(avatar, "AVATAR_PLAYING")
    BY <1>4 DEF OnVideoPlay, Undisturbed, voiceVars, Present, DispatchAvatar
  <2>2. presentation' = Stage(presentation'.stage, presentation'.attempts) /\ avatar' # "failed"
    BY <1>1, <1>2, <2>1, StageSteps, AvatarSteps
  <2> QED BY <1>1, <1>2, <2>1, <2>2, StageHolds
<1>5. CASE OnVideoPause
  <2>1. /\ StillHere /\ UNCHANGED <<recorder, recordingVoice, press, misused, timer, presentation>>
        /\ Render("paused", FALSE) /\ avatar' = AvatarNext(avatar, "AVATAR_PAUSED")
    BY <1>5 DEF OnVideoPause, Disturb, voiceVars, DispatchAvatar
  <2>2. avatar' # "failed"
    BY <1>1, <2>1, AvatarSteps
  <2> QED BY <1>1, <1>2, <2>1, <2>2, StageHolds
<1>6. CASE OnVideoEnded
  <2>1. /\ StillHere /\ UNCHANGED <<recorder, recordingVoice, press, misused, timer>>
        /\ Render("none", FALSE) /\ presentation' = PresentationNext(presentation, "FALLBACK")
    BY <1>6 DEF OnVideoEnded, Disturb, voiceVars, Present
  <2>2. presentation'.stage = "fallback" /\ presentation' = Stage(presentation'.stage, presentation'.attempts)
    BY <1>2, <2>1, StageSteps
  <2>3. ~Shown'
    BY <2>2 DEF Shown, Live
  <2> QED BY <1>1, <1>2, <2>1, <2>2, <2>3, StageHolds
<1>7. CASE OnVideoError
  <2>1. /\ StillHere /\ UNCHANGED <<recorder, recordingVoice, press, misused>>
        /\ Render("none", FALSE) /\ avatar' = "failed"
        /\ \/ presentation' = PresentationNext(presentation, "RECONNECT") /\ timer' = TRUE
           \/ presentation' = PresentationNext(presentation, "FALLBACK") /\ timer' = timer
    BY <1>7, AvatarSteps DEF OnVideoError, Disturb, voiceVars, Present, DispatchAvatar
  <2>2. presentation'.stage # "playing" /\ presentation' = Stage(presentation'.stage, presentation'.attempts)
    BY <1>2, <2>1, StageSteps
  <2>3. ~Shown'
    BY <2>1 DEF Shown
  <2>4. timer' \in BOOLEAN
    BY <1>2, <2>1
  <2>5. timer' => Live(presentation')
    BY <1>1, <1>2, <2>1, StageSteps
  <2> QED BY <1>1, <1>2, <2>1, <2>2, <2>3, <2>4, <2>5, StageHolds
<1> QED BY <1>3, <1>4, <1>5, <1>6, <1>7

\* The timer and the events of the window.
LEMMA WindowKeeps ==
  ASSUME TypesOK, StageOK, Reconnect \/ OnVisible \/ OnOffline \/ OnOnline
  PROVE  StageOK' /\ TypesOK'
<1>1. presentation = Stage(presentation.stage, presentation.attempts)
  BY DEF TypesOK
<1>2. /\ StillHere /\ UNCHANGED <<recorder, recordingVoice, press, misused, avatar>>
      /\ timer' = timer \/ timer' = FALSE
  BY DEF Reconnect, OnVisible, OnOffline, OnOnline, Undisturbed, Disturb, voiceVars
<1>3. PICK v \in {"new", video}, rebuilt \in BOOLEAN :
        /\ Render(v, rebuilt)
        /\ \/ timer /\ presentation' = PresentationNext(presentation, "RECONNECTED")
           \/ presentation' = PresentationNext(presentation, "RECONNECT")
           \/ presentation' = presentation /\ v = video /\ ~rebuilt
  <2>1. CASE Reconnect
    BY <2>1 DEF Reconnect, Present
  <2>2. CASE OnVisible
    BY <2>2 DEF OnVisible, Present
  <2>3. CASE OnOffline
    BY <2>3 DEF OnOffline, Present
  <2>4. CASE OnOnline
    <3> DEFINE rebuild == mounted /\ Playable(session) /\ presentation.stage \in {"reconnecting", "fallback"}
    <3>1. rebuild \in BOOLEAN /\ Render(video, rebuild)
          /\ (IF rebuild THEN Present("RECONNECT") ELSE UNCHANGED presentation)
      BY <2>4 DEF OnOnline
    <3> QED BY <3>1 DEF Present
  <2> QED BY <2>1, <2>2, <2>3, <2>4
<1>4. /\ presentation' = Stage(presentation'.stage, presentation'.attempts)
      /\ ~mounted => presentation' = Initial
      /\ Live(presentation) => Live(presentation')
  BY <1>1, <1>3, StageSteps, GoneIsInitial
<1>5. ASSUME presentation'.stage = "playing"
      PROVE  video # "none" /\ avatar # "failed" /\ ~rebuilt /\ v \in {"playing", "paused"}
  <2>1. presentation.stage = "playing"
    BY <1>3, <1>5, StageSteps
  <2>2. video \in {"playing", "paused"} /\ Shown
    BY <2>1 DEF StageOK, PlayingIsOnScreen
  <2>3. ~timer /\ presentation' # PresentationNext(presentation, "RECONNECT")
    BY <1>5, <2>2, StageSteps, RebuildHasNoVideo
  <2> QED BY <1>3, <2>2, <2>3 DEF Shown
<1>6. v # "none" \/ video = "none"
  BY <1>3
<1>7. timer' \in BOOLEAN /\ (timer' => timer)
  <2>1. timer \in BOOLEAN
    BY DEF TypesOK
  <2>2. CASE timer' = timer
    BY <2>1, <2>2, Zenon
  <2>3. CASE timer' = FALSE
    BY <2>3, Zenon
  <2> QED BY <1>2, <2>2, <2>3, Zenon
<1>8. v \in {"none", "new", "loaded", "playing", "paused"}
  BY DEF TypesOK
<1> QED BY <1>2, <1>3, <1>4, <1>5, <1>6, <1>7, <1>8, StageHolds, RebuildHasNoVideo

\* Another conversation.
LEMMA CleanupKeeps == ASSUME TypesOK, StageOK, NEW reset \in BOOLEAN, SwitchConversation(reset) PROVE StageOK' /\ TypesOK'
<1>1. /\ StillHere /\ UNCHANGED <<recorder, recordingVoice, press, misused>> /\ timer' = FALSE
      /\ Render("none", FALSE) /\ presentation' = PresentationNext(presentation, "RESET") /\ mounted
  BY DEF SwitchConversation, Disturb, Present
<1>2. presentation' = Initial /\ Initial = Stage(Initial.stage, Initial.attempts) /\ Initial.stage = "fallback"
  BY <1>1, StageSteps DEF TypesOK, Initial, Stage
<1>3. ~Shown'
  BY <1>2 DEF Shown, Live
<1> QED BY <1>1, <1>2, <1>3, StageHolds

-----------------------------------------------------------------------------
\* The voice button is pressed, or its recording goes on.
LEMMA ButtonKeeps ==
  ASSUME TypesOK, VoiceOK, NEW i \in Presses, PressVoice(i) \/ VoiceStep(i)
  PROVE  VoiceOK' /\ recorder' \in BOOLEAN /\ recordingVoice' \in BOOLEAN /\ misused' \in BOOLEAN
         /\ press' \in [Presses -> PressType]
<1>1. press \in [Presses -> PressType] /\ press[i] \in PressType
  BY DEF TypesOK
<1>2. CASE PressVoice(i)
  <2>1. PICK pc \in {"starting", "stopping"} : press' = [press EXCEPT ![i].pc = pc]
    BY <1>2 DEF PressVoice, Go
  <2>2. press[i].pc = "none" /\ UNCHANGED <<recorder, recordingVoice>>
        /\ misused' = (misused \/ \E j \in Presses : press[j].pc \notin {"none", "over"})
    BY <1>2 DEF PressVoice
  <2>3. /\ \A j \in Presses : press'[j].pc = IF j = i THEN pc ELSE press[j].pc
        /\ press' \in [Presses -> PressType]
    BY <1>1, <2>1 DEF PressType
  <2>4. misused' \in BOOLEAN
    BY <2>2 DEF TypesOK
  <2>5. VoiceOK'
    BY <2>2, <2>3 DEF VoiceOK
  <2> QED BY <2>2, <2>3, <2>4, <2>5 DEF TypesOK
<1>3. CASE RecorderStarts(i)
  <2>1. press' = [press EXCEPT ![i].pc = "over"] /\ press[i].pc = "starting"
        /\ misused' = (misused \/ ~press[i].here)
        /\ \/ recorder /\ recorder' = recorder /\ recordingVoice' = recordingVoice
           \/ recorder' = TRUE /\ (press[i].here => recordingVoice' = TRUE)
              /\ (~press[i].here => recordingVoice' = recordingVoice)
    BY <1>3 DEF RecorderStarts, Go, Sees
  <2>2. /\ \A j \in Presses : press'[j].pc = IF j = i THEN "over" ELSE press[j].pc
        /\ press' \in [Presses -> PressType]
    BY <1>1, <2>1 DEF PressType
  <2>3. recorder' \in BOOLEAN /\ recordingVoice' \in BOOLEAN /\ misused' \in BOOLEAN
    BY <1>1, <2>1 DEF TypesOK, PressType
  <2>4. VoiceOK'
    <3>1. CASE misused \/ ~press[i].here
      <4>1. misused'
        BY <2>1, <3>1, Zenon
      <4> QED BY <4>1, Zenon DEF VoiceOK
    <3>2. CASE ~(misused \/ ~press[i].here)
      <4>1. recorder => recordingVoice
        BY <3>2 DEF VoiceOK
      <4>2. recordingVoice'
        <5>1. CASE recorder /\ recorder' = recorder /\ recordingVoice' = recordingVoice
          BY <4>1, <5>1, Zenon
        <5>2. CASE press[i].here => recordingVoice' = TRUE
          BY <3>2, <5>2, Zenon
        <5> QED BY <2>1, <5>1, <5>2, Zenon
      <4>3. \A j, k \in Presses : press[j].pc \notin {"none", "over"} /\ press[k].pc \notin {"none", "over"}
                                  => j = k
        BY <3>2 DEF VoiceOK
      <4>4. \A j \in Presses : press'[j].pc \in {"none", "over"}
        BY <2>1, <2>2, <4>3
      <4> QED BY <4>2, <4>4 DEF VoiceOK
    <3> QED BY <3>1, <3>2
  <2> QED BY <2>2, <2>3, <2>4
<1>4. CASE RecorderStops(i)
  <2>1. PICK pc \in {"transcribing", "over"} : press' = [press EXCEPT ![i].pc = pc]
    BY <1>4 DEF RecorderStops, Go
  <2>2. press[i].pc = "stopping" /\ recorder' = FALSE /\ recordingVoice' \in {FALSE, recordingVoice}
        /\ misused' = misused
    BY <1>4 DEF RecorderStops, Sees
  <2>3. /\ \A j \in Presses : press'[j].pc = IF j = i THEN pc ELSE press[j].pc
        /\ press' \in [Presses -> PressType]
    BY <1>1, <2>1 DEF PressType
  <2>4. VoiceOK'
    <3>1. CASE misused
      <4>1. misused'
        BY <2>2, <3>1, Zenon
      <4> QED BY <4>1, Zenon DEF VoiceOK
    <3>2. CASE ~misused
      BY <2>2, <2>3, <3>2 DEF VoiceOK
    <3> QED BY <3>1, <3>2
  <2> QED BY <2>2, <2>3, <2>4 DEF TypesOK
<1>5. CASE Transcribed(i)
  <2>1. press' = [press EXCEPT ![i].pc = "over"] /\ press[i].pc = "transcribing"
        /\ recordingVoice' \in {FALSE, recordingVoice} /\ UNCHANGED <<recorder, misused>>
    BY <1>5 DEF Transcribed, Go, Sees
  <2>2. /\ \A j \in Presses : press'[j].pc = IF j = i THEN "over" ELSE press[j].pc
        /\ press' \in [Presses -> PressType]
    BY <1>1, <2>1 DEF PressType
  <2>3. VoiceOK'
    BY <2>1, <2>2 DEF VoiceOK
  <2> QED BY <2>1, <2>2, <2>3 DEF TypesOK
<1> QED BY <1>2, <1>3, <1>4, <1>5 DEF VoiceStep

\* The screen is left: a recording that goes on is a misuse.
LEMMA LeavingKeeps == ASSUME TypesOK, VoiceOK, LeaveVoice PROVE VoiceOK'
<1>1. \A i \in Presses : press'[i].pc = press[i].pc
  BY DEF LeaveVoice, TypesOK, PressType
<1> QED BY <1>1 DEF LeaveVoice, VoiceOK

-----------------------------------------------------------------------------
\* Nothing is selected, nothing presented and nothing recorded.
LEMMA PresentationOpens == Init => AInv
<1> SUFFICES ASSUME Init PROVE AInv
  OBVIOUS
<1>1. SessionOK
  <2>1. human = NoHuman /\ controller = 0 /\ session = 0 /\ remote = {}
        /\ start = [i \in Starts |-> [human |-> NoHuman, client |-> "none", server |-> "none"]]
    BY DEF Init, SessionInit
  <2>2. start \in [Starts -> [human : Identities,
                           client : {"none", "waiting", "aborted", "failed", "settled"},
                           server : {"none", "asked", "made", "silent", "refused"}]]
    BY <2>1 DEF Identities
  <2>3. human \in Identities /\ 0 \in 0..MaxStarts
    BY <2>1, SessionConstants DEF Identities
  <2> QED BY <2>1, <2>2, <2>3 DEF SessionOK
<1>2. /\ mounted = FALSE /\ presentation = Initial /\ timer = FALSE /\ avatar = "idle" /\ video = "none"
      /\ recorder = FALSE /\ recordingVoice = FALSE /\ misused = FALSE
      /\ press = [i \in Presses |-> [pc |-> "none", here |-> TRUE]]
  BY DEF Init, VoiceInit
<1>3. StageOK
  BY <1>2 DEF StageOK, Shown, PlayingIsOnScreen, RebuildFollowsFailure, Initial, Stage
<1>4. VoiceOK
  BY <1>2 DEF VoiceOK
<1>5. TypesOK
  BY <1>2 DEF TypesOK, PressType, Initial, Stage
<1> QED BY <1>1, <1>3, <1>4, <1>5 DEF AInv

\* Every step keeps it.
LEMMA PresentationStep == AInv /\ [Next]_vars => AInv'
<1> SUFFICES ASSUME AInv, [Next]_vars PROVE AInv'
  OBVIOUS
<1> USE DEF AInv
<1>1. ASSUME NEW h \in Identities, SelectHuman(h) PROVE AInv'
  <2>1. ~mounted /\ ChangeIdentity(h) /\ FollowSession /\ UNCHANGED voiceVars
    BY <1>1 DEF SelectHuman, FollowSession
  <2>2. session' = session => Playable(session)' = Playable(session)
    BY <2>1, StartsAreNumbers, AbortForm DEF ChangeIdentity, Deselect, Switch, StartFor, Playable, SessionOK
  <2> QED BY <2>1, <2>2, ChangeKeeps, FollowKeeps, VoiceFrame
<1>2. ASSUME NEW i \in Starts, SessionStep(i) PROVE AInv'
  <2>1. (Serve(i) \/ Stopped(i) \/ Created(i) \/ StartFails(i)) /\ FollowSession /\ UNCHANGED voiceVars
    BY <1>2 DEF SessionStep, FollowSession
  <2>2. session' = session => Playable(session)' = Playable(session)
    BY <2>1, StaysPlayable DEF Playable
  <2> QED BY <2>1, <2>2, SessionKeeps, FollowKeeps, VoiceFrame
<1>3. CASE Mount
  BY <1>3, MountKeeps, SessionFrame, VoiceFrame DEF Mount
<1>4. CASE Unmount
  BY <1>4, MountKeeps, SessionFrame, LeavingKeeps DEF Unmount
<1>5. CASE OnVideoLoadedData \/ OnVideoPlay \/ OnVideoPause \/ OnVideoEnded \/ OnVideoError
  <2>1. UNCHANGED <<sessionVars, voiceVars>>
    BY <1>5 DEF OnVideoLoadedData, OnVideoPlay, OnVideoPause, OnVideoEnded, OnVideoError, Undisturbed, Disturb,
       StillHere
  <2> QED BY <1>5, <2>1, ElementKeeps, SessionFrame, VoiceFrame
<1>6. CASE Reconnect \/ OnVisible \/ OnOffline \/ OnOnline
  <2>1. UNCHANGED <<sessionVars, voiceVars>>
    BY <1>6 DEF Reconnect, OnVisible, OnOffline, OnOnline, Undisturbed, Disturb, StillHere
  <2> QED BY <1>6, <2>1, WindowKeeps, SessionFrame, VoiceFrame
<1>7. ASSUME NEW reset \in BOOLEAN, SwitchConversation(reset) PROVE AInv'
  <2>1. UNCHANGED sessionVars /\ UNCHANGED <<recorder, recordingVoice, press, misused>>
    BY <1>7 DEF SwitchConversation, Disturb, StillHere
  <2>2. VoiceOK'
    BY <2>1 DEF VoiceOK
  <2> QED BY <1>7, <2>1, <2>2, CleanupKeeps, SessionFrame
<1>8. ASSUME NEW i \in Presses, Voice(i) PROVE AInv'
  <2>1. (PressVoice(i) \/ VoiceStep(i)) /\ UNCHANGED <<sessionVars, presentationVars>>
    BY <1>8 DEF Voice
  <2>2. StageOK'
    BY <2>1 DEF StageOK, Shown, Playable, PlayingIsOnScreen, RebuildFollowsFailure, sessionVars, presentationVars
  <2>3. TypesOK'
    BY <2>1, ButtonKeeps DEF TypesOK, presentationVars
  <2> QED BY <2>1, <2>2, <2>3, ButtonKeeps, SessionFrame
<1>9. CASE UNCHANGED vars
  <2>1. UNCHANGED <<sessionVars, voiceVars, presentationVars>>
    BY <1>9 DEF vars
  <2>2. StageOK' /\ TypesOK'
    BY <2>1 DEF StageOK, TypesOK, Shown, Playable, PlayingIsOnScreen, RebuildFollowsFailure, sessionVars, voiceVars,
       presentationVars
  <2> QED BY <2>1, <2>2, SessionFrame, VoiceFrame
<1> QED BY <1>1, <1>2, <1>3, <1>4, <1>5, <1>6, <1>7, <1>8, <1>9 DEF Next, Identities

\* The invariant holds throughout.
LEMMA PresentationInvariant == Spec => []AInv
BY PresentationOpens, PresentationStep, PTL DEF Spec

\* Every session that is open is accounted for, and the one on screen is of the human selected
\* (useAvatarSession.ts:60-140).
THEOREM SessionsStayKnown == Spec => []SessionsAreKnown
<1>1. AInv => SessionsAreKnown
  <2> SUFFICES ASSUME AInv PROVE SessionsAreKnown
    OBVIOUS
  <2>1. SessionIsOfHuman
    BY StartsAreNumbers DEF AInv, SessionOK, SessionIsOfHuman
  <2>2. OnlyKnownLeaks
    BY StartsAreNumbers DEF AInv, SessionOK, OnlyKnownLeaks
  <2> QED BY <2>1, <2>2 DEF SessionsAreKnown
<1> QED BY <1>1, PresentationInvariant, PTL

\* What the presentation claims, and what it is about to do, fits the video there is
\* (useAvatarPresentation.ts:136-242).
THEOREM StageStaysOfVideo == Spec => []StageIsOfVideo
<1>1. AInv => StageIsOfVideo
  BY DEF AInv, StageOK, StageIsOfVideo
<1> QED BY <1>1, PresentationInvariant, PTL

\* A microphone that is on is shown to be on, unless the button was misused
\* (useVoiceRecording.ts:38-77).
THEOREM MicrophoneStaysShown == Spec => []MicrophoneIsShown
<1>1. AInv => MicrophoneIsShown
  BY DEF AInv, VoiceOK, MicrophoneIsShown
<1> QED BY <1>1, PresentationInvariant, PTL
=============================================================================
