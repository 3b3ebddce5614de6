----------------------------- MODULE Settlement -------------------------------
(***************************************************************************)
(* What invoices and receipts are for: money of a receipt settles what is  *)
(* left of an invoice, a credit forgives some of it, both can be taken     *)
(* back while the document stands, and a document is voided only whole.    *)
(***************************************************************************)
EXTENDS Naturals

CONSTANTS Invoices, Payments, Amounts

VARIABLES
  state,  \* of a document: none, open or void
  face,   \* what it was issued for
  left    \* what of it is not yet settled, forgiven or spent

vars == <<state, face, left>>

Documents == Invoices \cup Payments

Init ==
  /\ state = [d \in Documents |-> "none"]
  /\ face = [d \in Documents |-> 0]
  /\ left = [d \in Documents |-> 0]

Issue(d, n) ==
  /\ state[d] = "none"
  /\ state' = [state EXCEPT ![d] = "open"]
  /\ face' = [face EXCEPT ![d] = n]
  /\ left' = [left EXCEPT ![d] = n]

Change(d, n) == left' = [left EXCEPT ![d] = n] /\ UNCHANGED <<state, face>>

Forgive(i, n) == state[i] = "open" /\ n <= left[i] /\ Change(i, left[i] - n)

Restore(i, n) == state[i] = "open" /\ left[i] + n <= face[i] /\ Change(i, left[i] + n)

Settle(i, p, n) ==
  /\ state[i] = "open" /\ state[p] = "open"
  /\ n <= left[i] /\ n <= left[p]
  /\ left' = [left EXCEPT ![i] = left[i] - n, ![p] = left[p] - n]
  /\ UNCHANGED <<state, face>>

Unsettle(i, p, n) ==
  /\ state[i] = "open" /\ state[p] = "open"
  /\ left[i] + n <= face[i] /\ left[p] + n <= face[p]
  /\ left' = [left EXCEPT ![i] = left[i] + n, ![p] = left[p] + n]
  /\ UNCHANGED <<state, face>>

(* A receipt written for all that is left of an invoice, and spent on it. *)
PayOff(i, p) ==
  /\ state[i] = "open" /\ left[i] > 0 /\ state[p] = "none"
  /\ state' = [state EXCEPT ![p] = "open"]
  /\ face' = [face EXCEPT ![p] = left[i]]
  /\ left' = [left EXCEPT ![i] = 0]

Void(d) ==
  /\ state[d] = "open" /\ left[d] = face[d]
  /\ state' = [state EXCEPT ![d] = "void"]
  /\ UNCHANGED <<face, left>>

Next ==
  \/ \E d \in Documents : Void(d) \/ \E n \in Amounts : Issue(d, n)
  \/ \E i \in Invoices, n \in Amounts : Forgive(i, n) \/ Restore(i, n)
  \/ \E i \in Invoices, p \in Payments :
       PayOff(i, p) \/ \E n \in Amounts : Settle(i, p, n) \/ Unsettle(i, p, n)

Spec == Init /\ [][Next]_vars
===============================================================================
