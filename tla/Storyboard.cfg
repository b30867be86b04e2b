CONSTANTS
  e1 = e1
  e2 = e2
  e3 = e3
  k1 = k1
  k2 = k2
  k3 = k3
  None = None
  Dropped = Dropped
  Elements <- MCElements
  Keys <- MCKeys
  Named <- MCKeys
  Requests = {q1, q2}
  Regenerations = {r1}
  Turns = {t1}
  Plans <- MCPlans
  Jobs = {j1}
  Uploads = {u1}
  Texts = {"q"}
  Fields = {"content"}
  Values = {"d"}
  MaxSpec = 2
  MaxVersion = 6
  MaxOvertaking = 1
  Overtaken = {"adopt"}
  Store = "postgres"
SPECIFICATION Spec
SYMMETRY MCSymmetry
INVARIANTS  EventsMatchLedger
PROPERTIES AdoptedIsCurrent AdoptedSurvivesPromotion LockedStaysLocked
CHECK_DEADLOCK FALSE
