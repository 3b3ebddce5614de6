\* Two overlapping calls, repeated payments, other operations, a withdrawal, two enrolments.
SPECIFICATION Spec
CONSTANTS
  Assignments = {a1, a2}
  Calls = {c1, c2}
  Nobody = nobody
  BatchSize = 2
  MaxPayments = 2
  MaxPerAssignment = 2
  MaxOthers = 1
  MaxDevices = 2
  MaxMoves = 1
  MaxFaults = 2
SYMMETRY Symmetric
INVARIANTS SyncInvariant
PROPERTIES EvidenceKept KeepsLedger
CHECK_DEADLOCK FALSE
