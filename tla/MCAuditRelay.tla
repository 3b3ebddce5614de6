----------------------------- MODULE MCAuditRelay -----------------------------
(* A small instance of AuditRelay for TLC. *)
EXTENDS AuditRelay, TLC

CONSTANTS t1, t2

OneAudit == {<<t2, "finance", 1>>}
TwoStates == (t1 :> 2) @@ (t2 :> 0)
===============================================================================
