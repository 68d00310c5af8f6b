------------------------- MODULE NaturalConversation -------------------------
(***************************************************************************)
(* The hands-free conversation of the front end: the engine with its       *)
(* reducer and epochs, the microphone adapter, the speech-to-text          *)
(* sessions, the reply streams, the playback queue, and the buttons of the *)
(* natural conversation bar.                                               *)
(*                                                                         *)
(* JavaScript runs one callback at a time, so one action is one callback,  *)
(* up to its next await.  An exchange is named by the epoch beginReply     *)
(* gave it.  Aborting a request is no more than a wish here: a reply that  *)
(* was aborted may still deliver, so that nothing rests on the network.    *)
(* Left out: the request to cancel a generation, metrics, the sentences    *)
(* shown, the transcript, which the user may edit whenever he may confirm  *)
(* it, and userSpeaking, which only the status line reads.                 *)
(***************************************************************************)
EXTENDS TtsPlaybackQueue, FiniteSets

CONSTANTS
  MaxReconnect,  \* maxReconnectAttempts
  MaxEpoch,      \* bound: exchanges, interrupts and stops
  MaxStreams,    \* bound: microphone streams open or asked for at once
  MaxUtterances  \* bound: utterances that wait for their transcript at once

ASSUME LimitsAreNaturals ==
  MaxReconnect \in Nat /\ MaxEpoch \in Nat /\ MaxStreams \in Nat /\ MaxUtterances \in Nat
ASSUME NobodyIsNoEpoch == Nobody \notin Nat

VARIABLES
  phase,      \* the reducer's phase
  mode,       \* inputMode
  epoch,      \* the engine's epoch
  silenced,   \* the epoch of the last interrupt or stop
  stt,        \* there is an open sttSession
  recog,      \* recog[e]: the utterances of epoch e that stop() still transcribes
  reply,      \* reply[e]: the beginReply coroutine of exchange e
  delivered,  \* the answer of the exchange of this epoch is in the timeline
  audible,    \* the echo gate believes that the assistant is heard
  mic,        \* the VAD adapter: requests, streams and closings in flight
  queue       \* the playback queue

vars == <<phase, mode, epoch, silenced, stt, recog, reply, delivered, audible, mic, queue>>

Epochs == 0..MaxEpoch
Phases == {"idle", "listening", "transcribing", "thinking", "speaking", "interrupted",
           "reconnecting", "error"}

-----------------------------------------------------------------------------
\* phaseTarget: the actions that lead to a phase, with the phases they are legal in.
Engaged == {"listening", "transcribing", "thinking", "speaking"}
Into ==
  [idle         |-> {},
   listening    |-> {<<"idle", "START">>, <<"idle", "RETRY">>, <<"error", "START">>,
                     <<"error", "RETRY">>, <<"transcribing", "TRANSCRIPT_CLEARED">>,
                     <<"speaking", "ASSISTANT_ENDED">>, <<"interrupted", "INTERRUPT_RESOLVED">>,
                     <<"reconnecting", "NETWORK_RECONNECTED">>},
   transcribing |-> {<<"listening", "SPEECH_END">>},
   thinking     |-> {<<"transcribing", "TRANSCRIPT_CONFIRMED">>, <<"listening", "REPLY_START">>,
                     <<"transcribing", "REPLY_START">>, <<"reconnecting", "REPLY_START">>},
   speaking     |-> {<<"thinking", "ASSISTANT_STARTED">>},
   interrupted  |-> {<<"thinking", "SPEECH_START">>, <<"speaking", "SPEECH_START">>}
                      \cup Engaged \X {"INTERRUPT"},
   reconnecting |-> (Engaged \cup {"interrupted"}) \X {"NETWORK_RECONNECTING"},
   error        |-> (Engaged \cup {"interrupted", "reconnecting"}) \X {"ERROR"}
                      \cup {<<"reconnecting", "RECONNECT_FAILED">>}]

\* naturalConversationReducer: an action that is not legal in the phase is rejected.
Dispatch(from, action) ==
  IF \E p \in Phases : <<from, action>> \in Into[p]
  THEN CHOOSE p \in Phases : <<from, action>> \in Into[p]
  ELSE from

-----------------------------------------------------------------------------
NoReply == [pc |-> "none", attempts |-> 0, audio |-> FALSE]

\* The epoch moves on: what a superseded coroutine has counted is of no account.
Supersede ==
  /\ epoch < MaxEpoch
  /\ epoch' = epoch + 1
  /\ delivered' = FALSE
Superseded ==
  [e \in Epochs |-> IF reply[e].pc \in {"stream", "delay"} THEN [NoReply EXCEPT !.pc = reply[e].pc]
                    ELSE NoReply]

\* beginReply: a new exchange, up to the first await of its stream.
BeginReply ==
  /\ Supersede
  /\ phase' = Dispatch(Dispatch(phase, "TRANSCRIPT_CONFIRMED"), "REPLY_START")
  /\ reply' = [Superseded EXCEPT ![epoch'].pc = "stream"]
  /\ UNCHANGED <<mode, silenced, stt, audible, mic, queue>>

\* The user confirms the transcript on screen, which he may have typed himself.
Confirm ==
  /\ phase \in {"listening", "transcribing"}
  /\ BeginReply
  /\ UNCHANGED recog

\* What interrupt() and disable() share: whatever runs is superseded, and silent.
\* Mutant: the audio goes on.
SilenceRepliesOnly ==
  /\ Supersede /\ reply' = Superseded
  /\ silenced' = epoch'
  /\ stt' = FALSE /\ audible' = FALSE
  /\ UNCHANGED queue
Silence ==
  /\ Supersede /\ reply' = Superseded
  /\ silenced' = epoch'
  /\ stt' = FALSE /\ audible' = FALSE
  /\ queue' = Clear(queue)

\* interrupt(): by the button, or by the user's voice.
Interrupt ==
  /\ Silence
  /\ phase' = Dispatch(Dispatch(phase, "INTERRUPT"), "INTERRUPT_RESOLVED")
  /\ UNCHANGED <<mode, recog>>

PressInterrupt == phase \in {"speaking", "thinking"} /\ Interrupt /\ UNCHANGED mic

\* The VAD hears speech.  The echo gate may take it for the assistant's voice;
\* otherwise it interrupts, or opens a session.
Hears == mic.held /\ mic.pumping
SpeechStart ==
  /\ Hears /\ ~mic.speech
  /\ mic' = [mic EXCEPT !.speech = TRUE]
  /\ \/ /\ audible
        /\ UNCHANGED <<phase, mode, epoch, silenced, stt, recog, reply, delivered, audible, queue>>
     \/ /\ phase \in {"speaking", "thinking"}
        /\ Interrupt
     \/ /\ phase \notin {"speaking", "thinking"}
        /\ phase' = Dispatch(phase, "SPEECH_START")
        /\ stt' = TRUE
        /\ UNCHANGED <<mode, epoch, silenced, recog, reply, delivered, audible, queue>>

\* The utterances that wait for their transcript, each by its epoch and its place there.
Utterances == {u \in Epochs \X (1..MaxUtterances) : u[2] <= recog[u[1]]}

\* handleSpeechEnd: the open session is stopped and awaited; without one there is
\* nothing to transcribe.
SpeechEnd ==
  /\ Hears /\ mic.speech
  /\ mic' = [mic EXCEPT !.speech = FALSE]
  /\ stt' = FALSE
  /\ LET ended == Dispatch(phase, "SPEECH_END") IN
       IF stt THEN /\ Cardinality(Utterances) < MaxUtterances
                   /\ recog' = [recog EXCEPT ![epoch] = @ + 1]
                   /\ phase' = ended
       ELSE /\ phase' = Dispatch(ended, "TRANSCRIPT_CLEARED")
            /\ UNCHANGED recog
  /\ UNCHANGED <<mode, epoch, silenced, reply, delivered, audible, queue>>

\* stop() answers.
Transcribe(e) == recog[e] > 0 /\ recog' = [recog EXCEPT ![e] = @ - 1]
Recognized(e) == Transcribe(e) /\ e = epoch /\ BeginReply

\* It answers with nothing, or too late, or it rejects, which nobody catches.
NotRecognized(e) ==
  /\ Transcribe(e)
  /\ phase' \in {phase} \cup (IF e = epoch THEN {Dispatch(phase, "TRANSCRIPT_CLEARED")} ELSE {})
  /\ UNCHANGED <<mode, epoch, silenced, stt, reply, delivered, audible, mic, queue>>

-----------------------------------------------------------------------------
\* The stream of exchange e.
Streaming(e) == reply[e].pc = "stream"
Over(e) == reply' = [reply EXCEPT ![e] = NoReply]

\* onAudio, once per reply; a superseded one does nothing.
Audio(e) ==
  /\ e = epoch /\ Streaming(e) /\ ~reply[e].audio
  /\ reply' = [reply EXCEPT ![e].audio = TRUE]
  /\ audible' = TRUE
  /\ phase' = Dispatch(phase, "ASSISTANT_STARTED")
  /\ queue' = Enqueue(queue, e)
  /\ UNCHANGED <<mode, epoch, silenced, stt, recog, delivered, mic>>

\* The stream ends well.  Mutant: the answer is written whoever asks by now.
RepliedLate(e) ==
  /\ Streaming(e) /\ Over(e)
  /\ delivered' \in {delivered, TRUE}
  /\ IF e = epoch
     THEN /\ phase' = LET started == Dispatch(phase, "ASSISTANT_STARTED")
                   IN  IF reply[e].audio THEN started ELSE Dispatch(started, "ASSISTANT_ENDED")
          /\ audible' = (audible \/ reply[e].audio)
     ELSE UNCHANGED <<phase, audible>>
  /\ UNCHANGED <<mode, epoch, silenced, stt, recog, mic, queue>>
Replied(e) ==
  /\ Streaming(e) /\ Over(e)
  /\ IF e = epoch
     THEN /\ delivered' \in {delivered, TRUE}
          /\ phase' = LET started == Dispatch(phase, "ASSISTANT_STARTED")
                   IN  IF reply[e].audio THEN started ELSE Dispatch(started, "ASSISTANT_ENDED")
          /\ audible' = (audible \/ reply[e].audio)
     ELSE UNCHANGED <<delivered, phase, audible>>
  /\ UNCHANGED <<mode, epoch, silenced, stt, recog, mic, queue>>

\* It ends with an error: another attempt after a delay, or the error.
ReplyFails(e) ==
  /\ Streaming(e)
  /\ \/ /\ e = epoch /\ reply[e].attempts < MaxReconnect
        /\ reply' = [reply EXCEPT ![e].pc = "delay", ![e].attempts = @ + 1]
        /\ phase' = Dispatch(phase, "NETWORK_RECONNECTING")
     \/ /\ e = epoch
        /\ Over(e) /\ phase' = Dispatch(phase, "ERROR")
     \/ e # epoch /\ Over(e) /\ UNCHANGED phase
  /\ UNCHANGED <<mode, epoch, silenced, stt, recog, delivered, audible, mic, queue>>

\* The connection is refused: streamConversationReply rejects, and nobody catches it.
RequestThrows(e) ==
  /\ Streaming(e) /\ ~reply[e].audio
  /\ reply' = [reply EXCEPT ![e] = IF e = epoch THEN [NoReply EXCEPT !.pc = "thrown"] ELSE NoReply]
  /\ UNCHANGED <<phase, mode, epoch, silenced, stt, recog, delivered, audible, mic, queue>>

\* The delay is over.
DelayEnds(e) ==
  /\ reply[e].pc = "delay"
  /\ IF e = epoch
     THEN /\ reply' = [reply EXCEPT ![e].pc = "stream", ![e].audio = FALSE]
          /\ phase' = Dispatch(phase, "REPLY_START")
     ELSE Over(e) /\ UNCHANGED phase
  /\ UNCHANGED <<mode, epoch, silenced, stt, recog, delivered, audible, mic, queue>>

-----------------------------------------------------------------------------
\* A callback of the audio element; onDrained tells the engine.
\* Mutant: it does not.
PlaybackUnnoticed(q) ==
  /\ queue' = q
  /\ UNCHANGED <<phase, audible, mode, epoch, silenced, stt, recog, reply, delivered, mic>>
Playback(q) ==
  /\ queue' = q
  /\ IF Drained(q) THEN phase' = Dispatch(phase, "ASSISTANT_ENDED") /\ audible' = FALSE
     ELSE UNCHANGED <<phase, audible>>
  /\ UNCHANGED <<mode, epoch, silenced, stt, recog, reply, delivered, mic>>

ChunkBegins ==
  /\ Playing(queue) /\ queue.starting
  /\ queue' = Begins(queue)
  /\ UNCHANGED <<phase, audible, mode, epoch, silenced, stt, recog, reply, delivered, mic>>
ChunkEnds == Playing(queue) /\ ~queue.starting /\ Playback(Ends(queue))
ChunkFails == Playing(queue) /\ Playback(Ends(queue))
PlayRefused == Playing(queue) /\ queue.starting /\ Playback(Refused(queue))
LateRejection == queue.late > 0 /\ Playback(RejectsLate(queue))

-----------------------------------------------------------------------------
\* vad.start() for a caller: nothing if there is a stream, else getUserMedia.
Ask(caller) ==
  IF mic.held THEN UNCHANGED mic
  ELSE /\ mic.open + mic.asking["enable"] + mic.asking["retry"] < MaxStreams
       /\ mic' = [mic EXCEPT !.asking[caller] = @ + 1]

\* The user turns the conversation on.
Enable ==
  /\ phase = "idle"
  /\ phase' = Dispatch(phase, "START")
  /\ \/ mode' = "natural" /\ Ask("enable")
     \/ mode' = "push_to_talk" /\ UNCHANGED mic
  /\ UNCHANGED <<epoch, silenced, stt, recog, reply, delivered, audible, queue>>

Retry ==
  /\ phase = "error"
  /\ phase' = Dispatch(phase, "RETRY")
  /\ IF mode = "natural" THEN Ask("retry") ELSE UNCHANGED mic
  /\ UNCHANGED <<mode, epoch, silenced, stt, recog, reply, delivered, audible, queue>>

\* The microphone is granted: a stream that was there before is forgotten, not stopped.
Granted(caller) ==
  /\ mic.asking[caller] > 0
  /\ mic' = [mic EXCEPT !.asking[caller] = @ - 1, !.open = @ + 1, !.held = TRUE,
                        !.pumping = TRUE, !.speech = FALSE]
  /\ UNCHANGED <<phase, mode, epoch, silenced, stt, recog, reply, delivered, audible, queue>>

\* releaseResources stops the tracks of the stream the adapter holds.
Released(m) ==
  [m EXCEPT !.open = IF m.held THEN @ - 1 ELSE @, !.held = FALSE, !.pumping = FALSE,
            !.speech = FALSE]

\* disable(): everything is silenced, and the machine stopped once the audio context
\* is closed.
DisableWith(m) ==
  /\ Silence
  /\ IF m.held /\ m.pumping
     THEN /\ mic' = [m EXCEPT !.pumping = FALSE, !.closing = @ + 1]
          /\ UNCHANGED phase
     ELSE mic' = Released(m) /\ phase' = "idle"
  /\ UNCHANGED <<mode, recog>>

\* The user turns the conversation off, or chooses another human.
Disable == DisableWith(mic)

\* The microphone is refused: enableNatural disables, retryNatural does not.
Refuse(caller) ==
  /\ mic.asking[caller] > 0
  /\ LET m == [mic EXCEPT !.asking[caller] = @ - 1] IN
       IF caller = "enable" THEN DisableWith(m)
       ELSE /\ mic' = m
            /\ UNCHANGED <<phase, mode, epoch, silenced, stt, recog, reply, delivered, audible, queue>>

\* ctx.close() has returned.
Closed ==
  /\ mic.closing > 0
  /\ mic' = Released([mic EXCEPT !.closing = @ - 1])
  /\ phase' = "idle"
  /\ UNCHANGED <<mode, epoch, silenced, stt, recog, reply, delivered, audible, queue>>

-----------------------------------------------------------------------------
Init ==
  /\ phase = "idle" /\ mode = "natural"
  /\ epoch = 0 /\ silenced = 0
  /\ stt = FALSE /\ recog = [e \in Epochs |-> 0]
  /\ reply = [e \in Epochs |-> NoReply]
  /\ delivered = FALSE /\ audible = FALSE
  /\ mic = [asking |-> [c \in {"enable", "retry"} |-> 0], open |-> 0, held |-> FALSE,
            pumping |-> FALSE, speech |-> FALSE, closing |-> 0]
  /\ queue = EmptyQueue

User == Enable \/ Retry \/ Disable \/ PressInterrupt \/ Confirm
Voice == SpeechStart \/ SpeechEnd \/ \E e \in Epochs : Recognized(e) \/ NotRecognized(e)
Stream(e) == Audio(e) \/ Replied(e) \/ ReplyFails(e) \/ RequestThrows(e) \/ DelayEnds(e)
Sound == ChunkBegins \/ ChunkEnds \/ ChunkFails \/ PlayRefused \/ LateRejection
Microphone == Closed \/ \E c \in {"enable", "retry"} : Granted(c) \/ Refuse(c)

Next == User \/ Voice \/ (\E e \in Epochs : Stream(e)) \/ Sound \/ Microphone

Spec == Init /\ [][Next]_vars

\* Audio plays to its end or fails, delays end, and an audio context closes.  Nothing
\* is assumed of the user, the microphone, or the server, whose stream has no timeout.
FairSpec ==
  /\ Spec
  /\ WF_vars(Sound) /\ WF_vars(Closed)
  /\ \A e \in Epochs : WF_vars(DelayEnds(e))

-----------------------------------------------------------------------------
\* The types of the state; between two callbacks the machine never rests in
\* "interrupted", and an exchange makes at most MaxReconnect further attempts.
NaturalTypeOK ==
  /\ phase \in Phases \ {"interrupted"}
  /\ mode \in {"natural", "push_to_talk"}
  /\ epoch \in Epochs /\ silenced \in 0..epoch
  /\ stt \in BOOLEAN /\ audible \in BOOLEAN
  /\ recog \in [Epochs -> 0..MaxUtterances]
  /\ reply \in [Epochs -> [pc : {"none", "stream", "delay", "thrown"},
                          attempts : 0..MaxReconnect, audio : BOOLEAN]]
  /\ delivered \in BOOLEAN
  /\ mic \in [asking : [{"enable", "retry"} -> 0..MaxStreams], open : 0..MaxStreams,
              held : BOOLEAN, pumping : BOOLEAN, speech : BOOLEAN, closing : 0..MaxEpoch]
  /\ queue.current \in Epochs \cup {Nobody} /\ queue.starting \in BOOLEAN
  /\ Len(queue.pending) <= MaxQueueLength /\ queue.late \in Nat

\* After an interrupt or a stop nothing of an earlier exchange sounds or waits to be
\* played, whatever its stream still delivers: no "stale chunk" plays "across a turn
\* boundary" (ttsPlaybackQueue.ts:10).
NothingOldSounds ==
  /\ Playing(queue) => queue.current > silenced
  /\ \A i \in 1..Len(queue.pending) : queue.pending[i] > silenced

\* While the reply is awaited, the exchange of this epoch is at work, unless its
\* request has thrown or the conversation is being turned off; the same for a delay.
PhaseHasExchange ==
  mic.closing = 0 =>
    /\ phase = "thinking" => reply[epoch].pc \in {"stream", "thrown"}
    /\ phase = "reconnecting" => reply[epoch].pc = "delay"

\* Exchanges are kept apart: what sounds and what is awaited belongs to the one under way
\* (naturalConversationCore.ts:150-420).
ExchangesAreApart == NaturalTypeOK /\ NothingOldSounds /\ PhaseHasExchange

\* "A cancelled task can never (a) write a message, (b) auto-play audio, (c) advance
\* the machine, or (d) clobber a newer turn" (naturalConversationCore.ts:21).
CancelledStep(e) ==
  e # epoch /\ (reply[e].pc \notin {"none", reply'[e].pc} \/ recog'[e] < recog[e])
CancelledNeverActs ==
  [][(\E e \in Epochs : CancelledStep(e))
       => UNCHANGED <<delivered, queue, phase, epoch, audible>>]_<<reply, recog>>

\* Whatever plays, fails, is dropped or interrupted, the assistant stops speaking, and
\* a reconnection ends in an attempt.
VoiceSettles ==
  /\ phase = "speaking" ~> phase # "speaking"
  /\ phase = "reconnecting" ~> phase # "reconnecting"

\* Turning off returns, also when the user turns on and off again meanwhile.
TurnsOff == mic.closing > 0 ~> phase = "idle"

\* The conversation never hangs in what it does by itself (naturalConversationCore.ts:150-420).
NaturalSettles == VoiceSettles /\ TurnsOff

\* disable() is to "stop the natural engine (and any audio / VAD)"
\* (useNaturalConversation.ts:139): when the machine is idle, with nothing being opened
\* or closed, no microphone is open.
MicClosedWhenIdle ==
  phase = "idle" /\ mic.asking["enable"] = 0 /\ mic.closing = 0 => mic.open = 0

\* "`thinking` only when an LLM reply stream is in flight"
\* (naturalConversationStateMachine.ts:31).
ThinkingIsStreaming == phase = "thinking" /\ mic.closing = 0 => Streaming(epoch)
=============================================================================
