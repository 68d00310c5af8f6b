SPECIFICATION Spec
CONSTANTS
  Kinds = {"portrait"}
  Modes = {"rebuild"}
  Means = {"capture"}
  MaxRequests = 2
  MaxRetries = 1
  MaxFaults = 1
  MaxWizards = 2
  MaxTakes = 2
  MaxVisits = 1
INVARIANTS SubmittedIsValidated BusyIsAttended OverIsOver
CHECK_DEADLOCK FALSE
