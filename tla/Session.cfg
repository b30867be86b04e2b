SPECIFICATION FairSpec
CONSTANTS
  u1 = u1
  r1 = r1
  b1 = b1
  s1 = s1
  Inputs = {u1, r1, s1, b1}
  Kind <- InstanceKind
  Managers = {m1, m2}
  Nobody = nobody
  Outputs = {o1}
  NoOutput = none
  MaxAttempts = 1
  Undecodable = {u1}
  Interrupts = {o1}
  MaxFaults = 1
INVARIANTS OneHead OneFailureEvent FrozenSurvives
PROPERTIES NothingIsUndone InputsSettleOrStrand
CHECK_DEADLOCK FALSE
