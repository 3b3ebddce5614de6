\* Three transactions and a plain read, two faults; no symmetry, for the liveness property.
SPECIFICATION FairSpec
CONSTANTS
  Transactions = {t1, t2, t3}
  Readers = {r1}
  Opener = opener
  MaxFaults = 2
INVARIANTS ReplacementProtocol ReadsAreFresh
PROPERTIES EvidenceOnlyGrows QueueDrains StoresAtomically
CHECK_DEADLOCK FALSE
