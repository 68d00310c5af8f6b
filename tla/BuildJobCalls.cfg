CONSTANTS
  Jobs = {j1}
  Humans = {h1}
  Requests = {q1, q2}
  Keys = {k1}
  StartModes = {"new", "rebuild"}
  None = None
  MaxRetries = 1
  MaxCrashes = 1
  MaxFaults = 1
SPECIFICATION FairSpec
INVARIANTS RunningHasDriver SucceededIsComplete LossesAreKnown
PROPERTIES DoesStagedWork RunningSettles
CHECK_DEADLOCK FALSE
