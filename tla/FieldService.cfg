SPECIFICATION FieldSpec
CONSTANTS
  l1 = l1
  q1 = q1
  Leads = {l1}
  Quotes = {q1}
  WalkIns = {s1}
  LeadOf <- OneLead
  Capacity = 1
  MaxUnits = 1
  Jobs = {}
  NoJob = NoJob
  WorkOrders = {w1, w2}
  Technicians = {t1}
  Nobody = Nobody
  Nowhere = Nowhere
INVARIANT FieldInvariant
PROPERTY ObeysOrderDesk
SYMMETRY WorkSymmetric
CHECK_DEADLOCK FALSE
