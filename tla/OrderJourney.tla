----------------------------- MODULE OrderJourney -----------------------------
(***************************************************************************)
(* What a customer is promised by an accepted quotation: the six steps of  *)
(* its delivery are done one after the other, none is ever undone, an      *)
(* order ends with its first invoice, and it is cancelled only before      *)
(* anything was delivered.                                                 *)
(***************************************************************************)
CONSTANT Orders

VARIABLES done, fate

vars == <<done, fate>>

Before == [subscriber |-> "commercial", resource |-> "subscriber",
           installation |-> "resource", network |-> "installation",
           billing |-> "network"]

Init ==
  /\ done = [o \in Orders |-> {}]
  /\ fate = [o \in Orders |-> "open"]

Accept(o) ==
  /\ done[o] = {} /\ fate[o] = "open"
  /\ done' = [done EXCEPT ![o] = {"commercial"}]
  /\ UNCHANGED fate

Deliver(o, k) ==
  /\ fate[o] = "open" /\ k \notin done[o] /\ Before[k] \in done[o]
  /\ done' = [done EXCEPT ![o] = done[o] \cup {k}]
  /\ fate' = [fate EXCEPT ![o] = IF k = "billing" THEN "completed" ELSE "open"]

Cancel(o) ==
  /\ fate[o] = "open" /\ done[o] = {"commercial"}
  /\ fate' = [fate EXCEPT ![o] = "cancelled"]
  /\ UNCHANGED done

Next ==
  \E o \in Orders :
    Accept(o) \/ Cancel(o) \/ \E k \in DOMAIN Before : Deliver(o, k)

Spec == Init /\ [][Next]_vars
===============================================================================
