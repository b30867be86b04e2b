SPECIFICATION FairSpec
CONSTANTS
  None = None
  w1 = w1
  w2 = w2
  Workers = {w1, w2}
  Inputs = {"u1", "u2", "c1", "r1"}
  Kind <- TheKinds
  Rounds = 2
  Window = 3
  Faults = {"fail", "lapse", "live", "drop"}
  Sessions <- TheSessions
INVARIANTS RecordsAgree DirectiveRunsOnce PublishedIsFrozen DoneIsPublished ContextIsCausal NoGap
PROPERTIES SessionSettles
CHECK_DEADLOCK FALSE
