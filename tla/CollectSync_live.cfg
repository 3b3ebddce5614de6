\* Payments only, one per assignment, nothing withdrawn, one enrolment.
SPECIFICATION FairSpec
CONSTANTS
  Assignments = {a1, a2, a3}
  Calls = {c1, c2}
  Nobody = nobody
  BatchSize = 2
  MaxPayments = 3
  MaxPerAssignment = 1
  MaxOthers = 0
  MaxDevices = 1
  MaxMoves = 0
  MaxFaults = 1
INVARIANTS BatchesFollowLedger
PROPERTIES PaymentsSettle
CHECK_DEADLOCK FALSE
