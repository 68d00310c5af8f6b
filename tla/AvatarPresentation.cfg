\* Two humans and two session starts, one visit of the workspace, three things that
\* disturb the video and two presses of the voice button.
SPECIFICATION Spec
CONSTANTS
  Humans = {h1, h2}
  NoHuman = none
  MaxStarts = 2
  MaxPresses = 2
  MaxVisits = 1
  MaxFaults = 3
INVARIANTS SessionsAreKnown StageIsOfVideo MicrophoneIsShown
PROPERTIES VideoComes
CHECK_DEADLOCK FALSE
