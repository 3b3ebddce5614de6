--------------------------- MODULE MCOrderFulfilment ---------------------------
(* Small instances of OrderFulfilment for TLC. *)
EXTENDS OrderFulfilment, TLC

CONSTANTS l1, q1, q2

OneLead == q1 :> l1
OneLeadForBoth == (q1 :> l1) @@ (q2 :> l1)

Symmetric == Permutations(Jobs) \cup Permutations(Quotes)
================================================================================
