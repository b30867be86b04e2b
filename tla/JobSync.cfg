SPECIFICATION Spec
CONSTANTS
  Workers = {w1, w2}
  Compensators = {c1}
  Nobody = nobody
  Outputs = {o1, o2}
  Async = FALSE
  MaxAttempts = 2
  MaxPolls = 1
  ReportedPoints = 0
  EstimatedPoints = 1
  RetryRows = {"retry1", "retry2"}
  LateWrites = FALSE
  Faults = {"crash", "store", "commit", "billing", "refund", "dead"}
SYMMETRY Symmetry
INVARIANTS PaidBeforeAvailable LedgerFollowsQuote RefundsFollowFailure
PROPERTIES KeepsContract
CHECK_DEADLOCK FALSE
