\* A job of an earlier run and one that is created elsewhere; two of these: a request is lost,
\* one thing happens elsewhere, the card is left and come back to.
SPECIFICATION RecoverySpec
CONSTANTS
  Keys = {k1, k2}
  Left = k1
  MaxRequests = 2
  MaxRetries = 1
  MaxFaults = 1
  MaxVisits = 1
  MaxElsewhere = 1
  MaxTroubles = 2
INVARIANTS CardIsAttentive
PROPERTIES CardSettles
CHECK_DEADLOCK FALSE
