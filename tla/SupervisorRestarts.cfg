CONSTANTS
  MaxCrashRestarts = 1
  MaxGens = 3
  None = None
SPECIFICATION FairSpec
INVARIANTS NoStraySidecar ReportsAreLive
PROPERTIES SupervisorSettles
CHECK_DEADLOCK FALSE
