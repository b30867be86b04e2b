SPECIFICATION Spec
CONSTANTS
  None = none
  s1 = s1
  s2 = s2
  p1 = p1
  p2 = p2
  Approvals <- SpecPlanApprovals
  BatchKeys = {}
  MaxDelivery = 1
  Candidates = {}
  Handlers = {h1}
  Relays = {}
  Agents = {}
  Requests = {s1, s2, p1}
  Kind <- InstanceKind
  Exports = {}
  Analyses = {}
  MaxFaults = 1
  Asked = {"approve", "reject"}
  Planned = FALSE
INVARIANTS OneOfEach OnlyApprovedTakesEffect AppliedIsClosed StoresAgree
CHECK_DEADLOCK FALSE
