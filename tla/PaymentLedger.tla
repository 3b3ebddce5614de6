---------------------------- MODULE PaymentLedger ----------------------------
(***************************************************************************)
(* What a collector and the office expect of collected payments: each one  *)
(* recorded on the phone is posted at most once and stays posted, no       *)
(* assignment is paid twice, and the phone knows a payment as accepted     *)
(* only when it is posted.  A payment is a pair of its number and the      *)
(* assignment it pays.                                                     *)
(***************************************************************************)
VARIABLES recorded, posted, known

vars == <<recorded, posted, known>>

Init == recorded = {} /\ posted = {} /\ known = {}

Pays(payment) == payment[2]

Record ==
  /\ recorded \subseteq recorded'
  /\ UNCHANGED <<posted, known>>

(* Some recorded payments are posted together: none of an assignment that has
   one, and no two of one assignment. *)
Post ==
  /\ posted \subseteq posted' /\ posted' \subseteq recorded
  /\ \A p, q \in posted' : p # q /\ p \notin posted => Pays(p) # Pays(q)
  /\ UNCHANGED <<recorded, known>>

(* The phone hears of posted payments. *)
Acknowledge ==
  /\ known \subseteq known' /\ known' \subseteq posted
  /\ UNCHANGED <<recorded, posted>>

Next == Record \/ Post \/ Acknowledge

Spec == Init /\ [][Next]_vars
==============================================================================
