SPECIFICATION Spec
CONSTANTS
  l1 = l1
  q1 = q1
  q2 = q2
  Leads = {l1}
  Quotes = {q1, q2}
  WalkIns = {s1}
  LeadOf <- OneLeadForBoth
  Capacity = 1
  MaxUnits = 2
  Jobs = {j1, j2}
  NoJob = NoJob
INVARIANTS OrderInvariant CapacityAccounted ActivationFollowsItsJob
PROPERTY KeepsJourney
SYMMETRY Symmetric
CHECK_DEADLOCK FALSE
