SPECIFICATION FairSpec
CONSTANTS
  u1 = u1
  r1 = r1
  b1 = b1
  s1 = s1
  Inputs = {u1, r1}
  Kind <- InstanceKind
  Managers = {m1, m2}
  Nobody = nobody
  Outputs = {o1}
  NoOutput = none
  MaxAttempts = 1
  Undecodable = {}
  Interrupts = {o1}
  MaxFaults = 1
PROPERTIES InputsSettle
CHECK_DEADLOCK FALSE
