\* The phone enrols again after its tokens were cleared.
SPECIFICATION FairSpec
CONSTANTS
  Assignments = {a1, a2}
  Calls = {c1}
  Nobody = nobody
  BatchSize = 2
  MaxPayments = 2
  MaxPerAssignment = 1
  MaxOthers = 0
  MaxDevices = 2
  MaxMoves = 1
  MaxFaults = 2

PROPERTIES EnrolmentsContinue
CHECK_DEADLOCK FALSE
