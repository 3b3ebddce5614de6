--------------------------- MODULE MCBillingRecovery ---------------------------
(* A small instance of BillingRecovery for TLC: a service of one branch, and one
   of another whose first invoice is due. *)
EXTENDS BillingRecovery, TLC

CONSTANTS old, new, north, south

TheBranches == (old :> north) @@ (new :> south)
TheAnchors == (old :> 2) @@ (new :> 3)
TheActivations == (old :> 1) @@ (new :> 2)

(* Two months that overlap; the second begins with the activation. *)
TwoPeriods == {<<1, 4>>, <<2, 5>>}

Changes ==
  ({old} \X {"complete", "missing"}) \cup ({new} \X ({"status"} \cup Configs))

(* Sound for BillingRecovery.cfg, which checks invariants and single steps. *)
Symmetric == Permutations(Keys)
================================================================================
