SPECIFICATION FairUiSpec
CONSTANTS
  NCaps = 1
  MaxAttempts = 1
  Requests = {r1, r2}
  Tasks = {t1}
  None = None
  AutoRetryMax = 1
INVARIANTS GateIsSafe
PROPERTIES LoadingEnds
