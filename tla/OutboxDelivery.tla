---------------------------- MODULE OutboxDelivery ----------------------------
(***************************************************************************)
(* What the writers of an outbox rely on: what arrived stays, what is      *)
(* acknowledged has arrived, and the states of a tenant arrive one after   *)
(* the other.                                                              *)
(***************************************************************************)
EXTENDS Naturals

VARIABLES written, arrived, acknowledged

vars == <<written, arrived, acknowledged>>

Init == written = {} /\ arrived = {} /\ acknowledged = {}

Write ==
  /\ written \subseteq written'
  /\ UNCHANGED <<arrived, acknowledged>>

(* The previous state of the tenant has arrived. *)
InOrder(e) == e[2] = "states" /\ e[3] > 1 => <<e[1], e[2], e[3] - 1>> \in arrived

Arrive ==
  /\ \E e \in written : InOrder(e) /\ arrived' = arrived \cup {e}
  /\ UNCHANGED <<written, acknowledged>>

Acknowledge ==
  /\ acknowledged \subseteq acknowledged' /\ acknowledged' \subseteq arrived
  /\ UNCHANGED <<written, arrived>>

Next == Write \/ Arrive \/ Acknowledge

Spec == Init /\ [][Next]_vars
===============================================================================
