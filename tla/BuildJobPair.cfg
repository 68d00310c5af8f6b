CONSTANTS
  Jobs = {j1, j2}
  Humans = {h1, h2}
  Requests = {q1}
  Keys = {k1}
  StartModes = {"rebuild", "copy"}
  None = None
  MaxRetries = 1
  MaxCrashes = 0
  MaxFaults = 0
SPECIFICATION Spec
SYMMETRY JobsAndCallsSymmetry
INVARIANTS OneJobPerKey ReadyIsWhole
CHECK_DEADLOCK FALSE
