SPECIFICATION Spec
CONSTANTS
  MaxPresses = 3
  FewPresses = 2
  MaxFaults = 1
  Found = {1}
  PageSize = 1
  HumansShown = 1
  RulesBefore = {"goal"}
  Secrets = {"apiKey"}
  Granted = {"apiKey"}
  Sources = {"doc"}
  Versions = 2
PROPERTY EmptyKeepsSecret
CHECK_DEADLOCK FALSE
