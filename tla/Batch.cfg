SPECIFICATION FairSpec
CONSTANTS
  Jobs = {j1, j2}
  Price = 2
  LateWrites = FALSE
INVARIANTS TerminalBatchIsSettled OutcomeIsHonest SignalAgrees
PROPERTIES BatchCloses
CHECK_DEADLOCK FALSE
