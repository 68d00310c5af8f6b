SPECIFICATION FairSpec
CONSTANTS
  NCaps = 2
  MaxAttempts = 1
  Requests = {r1, r2}
  Tasks = {t1, t2}
  None = None
INVARIANTS PreparationIsOwned StateIsAggregate
PROPERTIES ProgressIsKept LifecycleSettles
