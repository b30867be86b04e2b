SPECIFICATION Spec
CONSTANTS
  Workers = {w1, w2}
  Compensators = {c1}
  Nobody = nobody
  Outputs = {o1}
  Async = TRUE
  MaxAttempts = 2
  MaxPolls = 1
  ReportedPoints = 1
  EstimatedPoints = 1
  RetryRows = {"retry1", "retry2"}
  LateWrites = TRUE
  Faults = {"lease", "cancel", "commit", "billing"}
SYMMETRY Symmetry
INVARIANTS NoOrphanedProviderWork SuccessIsBoundAndCharged
PROPERTIES CancelledNeverBinds
CHECK_DEADLOCK FALSE
