SPECIFICATION Spec
CONSTANTS
  Invoices = {i1}
  Payments = {p1, p2}
  Allocations = {a1, a2}
  Notes = {n1}
  Nothing = Nothing
  LastDay = 2
  MaxAmount = 2
INVARIANTS LedgerAgrees SourcesInBooks ClosedIsClassified
PROPERTIES SealedPeriods MovesMoney
CONSTRAINT BusyOrLong
CHECK_DEADLOCK FALSE
SYMMETRY PapersSymmetric
