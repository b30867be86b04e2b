SPECIFICATION Spec
CONSTANTS
  None = none
  s1 = s1
  s2 = s2
  p1 = p1
  p2 = p2
  Approvals <- CandidateApprovals
  BatchKeys = {k1}
  Candidates = {1,2}
  Handlers = {h1}
  Relays = {r1}
  Agents = {}
  Requests = {}
  Kind <- InstanceKind
  Exports = {}
  Analyses = {}
  Asked = {"reject"}
  Planned = TRUE
  MaxFaults = 1
  MaxDelivery = 1
INVARIANTS LedgerTellsTruth RetryKeepsFirst
CHECK_DEADLOCK FALSE
