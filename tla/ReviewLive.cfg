SPECIFICATION FairSpec
CONSTANTS
  None = none
  s1 = s1
  s2 = s2
  p1 = p1
  p2 = p2
  Approvals <- ExportApprovals
  BatchKeys = {}
  Candidates = {}
  Handlers = {h1}
  Relays = {r1}
  Agents = {g1}
  Requests = {}
  Kind <- InstanceKind
  Exports = {e1}
  Analyses = {n1}
  Asked = {"approve", "reject"}
  Planned = FALSE
  MaxFaults = 2
  MaxDelivery = 2
INVARIANTS AgentHearsApplied StoresAgree
PROPERTIES DecisionIsCarriedOut
CHECK_DEADLOCK FALSE
