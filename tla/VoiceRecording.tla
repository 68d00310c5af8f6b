--------------------------- MODULE VoiceRecording ---------------------------
(***************************************************************************)
(* useVoiceRecording and the recorder of the desktop shell: a question is  *)
(* spoken into a recording, which is transcribed and deleted.  The shell   *)
(* holds one recording at a time, and every recording is the same file.    *)
(***************************************************************************)
EXTENDS Integers, ConversationStateMachine

CONSTANT MaxPresses   \* bound: presses of the voice button

ASSUME PressesAssumption == MaxPresses \in Nat

Presses == 1..MaxPresses

VARIABLES
  recorder,     \* the shell holds an active recording
  recordingVoice,
  recording,    \* the recording dimension of the state machine
  press,        \* press[i]: the coroutine of a press: [pc, here]
  misused       \* history variable: pressed again too early, or left while recording

voiceVars == <<recorder, recordingVoice, recording, press, misused>>

VoiceInit ==
  /\ recorder = FALSE /\ recordingVoice = FALSE /\ recording = "idle" /\ misused = FALSE
  /\ press = [i \in Presses |-> [pc |-> "none", here |-> TRUE]]

Go(i, pc) == press' = [press EXCEPT ![i].pc = pc]

\* What a coroutine does to the screen is lost once its screen is gone.
Sees(i, shown, action) ==
  IF press[i].here
  THEN recordingVoice' = shown /\ recording' = RecordingNext(recording, action)
  ELSE UNCHANGED <<recordingVoice, recording>>

\* The button, which stays enabled while the recording is transcribed.
PressVoice(i) ==
  /\ press[i].pc = "none" /\ \A j \in 1..(i - 1) : press[j].pc # "none"
  /\ Go(i, IF recordingVoice THEN "stopping" ELSE "starting")
  /\ misused' = (misused \/ \E j \in Presses : press[j].pc \notin {"none", "over"})
  /\ UNCHANGED <<recorder, recordingVoice, recording>>

\* startVoiceInput: the shell refuses a second recording.
RecorderStarts(i) ==
  /\ press[i].pc = "starting"
  /\ Go(i, "over")
  /\ IF recorder THEN UNCHANGED <<recorder, recordingVoice, recording>>
     ELSE recorder' = TRUE /\ Sees(i, TRUE, "RECORDING_START")
  /\ misused' = (misused \/ ~press[i].here)

KeepsWhatFails(i) ==   \* mutant
  /\ press[i].pc = "stopping"
  /\ \/ /\ recorder /\ recorder' = FALSE
        /\ Go(i, "transcribing")
        /\ IF press[i].here THEN recording' = RecordingNext(recording, "RECORDING_STOP")
           ELSE UNCHANGED recording
        /\ UNCHANGED recordingVoice
     \/ UNCHANGED recorder /\ Go(i, "over") /\ Sees(i, FALSE, "RECORDING_STOP")
  /\ UNCHANGED misused
\* stopRecording: the shell lets go of the recording before it knows whether it is any good.
RecorderStops(i) ==
  /\ press[i].pc = "stopping"
  /\ recorder' = FALSE
  /\ \/ /\ recorder
        /\ Go(i, "transcribing")
        /\ IF press[i].here THEN recording' = RecordingNext(recording, "RECORDING_STOP")
           ELSE UNCHANGED recording
        /\ UNCHANGED recordingVoice
     \/ Go(i, "over") /\ Sees(i, FALSE, "RECORDING_STOP")
  /\ UNCHANGED misused

\* The transcription is there, or failed; the file is deleted, and the finally clause is done.
Transcribed(i) ==
  /\ press[i].pc = "transcribing"
  /\ Go(i, "over")
  /\ Sees(i, FALSE, "RECORDING_STOP")
  /\ UNCHANGED <<recorder, misused>>

\* The screen is left: nobody stops the recorder.
LeaveVoice ==
  /\ press' = [i \in Presses |-> [press[i] EXCEPT !.here = press[i].pc \in {"none", "over"}]]
  /\ recordingVoice' = FALSE
  /\ recording' = "idle"
  /\ misused' = (misused \/ recorder)
  /\ UNCHANGED recorder

VoiceStep(i) == RecorderStarts(i) \/ RecorderStops(i) \/ Transcribed(i)

\* A microphone that is on is shown to be on, unless the button was pressed while an earlier
\* press was not yet through, or the workspace left during a recording: nobody stops the
\* recorder then, and the next press can only try to start it (useVoiceRecording.ts:38-77).
MicrophoneIsShown == recorder => recordingVoice \/ misused
=============================================================================
