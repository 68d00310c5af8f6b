CONSTANTS
  MaxQueueLength = 1
  Nobody = Nobody
  MaxReconnect = 1
  MaxEpoch = 3
  MaxStreams = 1
  MaxUtterances = 1
SPECIFICATION FairSpec
INVARIANTS ExchangesAreApart
PROPERTIES CancelledNeverActs NaturalSettles
CHECK_DEADLOCK FALSE
