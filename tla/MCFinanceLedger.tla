--------------------------- MODULE MCFinanceLedger ----------------------------
(* Small instances of FinanceLedger for TLC. *)
EXTENDS FinanceLedger, TLC

PapersSymmetric == Permutations(Payments) \cup Permutations(Allocations)

(* Several receipts and allocations on a single day, or one of each over the
   whole calendar with its closes. *)
SameDay ==
  /\ closed = {} /\ today = 1
  /\ \A s \in Sources : posted[s] <= 1 /\ reversed[s] <= 1 /\ corrected[s] <= 1

AtMostOne(S) == \A s, t \in S : posted[s] # 0 /\ posted[t] # 0 => s = t

BusyOrLong == SameDay \/ (AtMostOne(Payments) /\ AtMostOne(Allocations))
===============================================================================
