---------------------- MODULE ConversationStateMachine ----------------------
(***************************************************************************)
(* conversationUiReducer: six dimensions that advance in parallel.  Every  *)
(* operator gives the value a dimension has after an action; an action     *)
(* that is not of the dimension, or not legal in its value, changes        *)
(* nothing.  GENERATION_STAGE is one action per stage.                     *)
(***************************************************************************)

GenerationNext(g, a) ==
  CASE a \in {"GENERATION_START", "STAGE_understanding"} -> "understanding"
    [] a = "STAGE_retrieving"                            -> "retrieving"
    [] a = "SOURCES_FOUND"                               -> "found_sources"
    [] a = "TOKEN_STARTED" /\ g # "done"                 -> "generating"
    [] a = "GENERATION_DONE" /\ g = "generating"         -> "done"
    [] a = "GENERATION_STOPPED" /\ g # "done"            -> "idle"
    [] a \in {"GENERATION_ERROR", "RESET"}               -> "idle"
    [] OTHER                                             -> g

TtsNext(t, a) ==
  CASE a = "TTS_READY"                        -> "ready"
    [] a = "TTS_PLAYING" /\ t = "ready"       -> "playing"
    [] a = "TTS_PAUSED" /\ t = "playing"      -> "idle"
    [] a = "TTS_COMPLETED" /\ t = "playing"   -> "completed"
    [] a = "TTS_FAILED"                       -> "failed"
    [] a = "RESET"                            -> "idle"
    [] OTHER                                  -> t

AvatarNext(v, a) ==
  CASE a = "AVATAR_STARTING"                                -> "starting"
    [] a = "AVATAR_STARTED" /\ v \in {"starting", "idle"}   -> "started"
    [] a = "AVATAR_PLAYING" /\ v = "started"                -> "playing"
    [] a = "AVATAR_PAUSED" /\ v = "playing"                 -> "idle"
    [] a = "AVATAR_COMPLETED" /\ v = "playing"              -> "completed"
    [] a = "AVATAR_FAILED"                                  -> "failed"
    [] a \in {"AVATAR_RESET", "RESET"}                      -> "idle"
    [] OTHER                                                -> v

RecordingNext(r, a) ==
  CASE a = "RECORDING_START"               -> "recording"
    [] a \in {"RECORDING_STOP", "RESET"}   -> "idle"
    [] OTHER                               -> r

-----------------------------------------------------------------------------
Generations == {"idle", "understanding", "retrieving", "found_sources", "generating", "done"}

\* Either the avatar video or the audio is audible or on screen.
IsSpeaking(tts, avatar) == tts = "playing" \/ avatar = "playing"
=============================================================================
