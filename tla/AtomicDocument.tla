---------------------------- MODULE AtomicDocument ----------------------------
(***************************************************************************)
(* What the Collect phone expects of its state storage: one document that  *)
(* a transaction either extends or leaves alone, that never loses what a   *)
(* transaction added, and that holds whatever was reported as saved.  A    *)
(* document is represented by the set of transactions whose work it holds. *)
(***************************************************************************)
CONSTANT Transactions

VARIABLES document, reported

vars == <<document, reported>>

Init ==
  /\ document = {}
  /\ reported = {}

(* The transaction's work becomes part of the document, all of it at once. *)
Commit(t) ==
  /\ document' = document \cup {t}
  /\ UNCHANGED reported

(* The caller is told that its work is saved. *)
Report(t) ==
  /\ t \in document
  /\ reported' = reported \cup {t}
  /\ UNCHANGED document

Next == \E t \in Transactions : Commit(t) \/ Report(t)

Spec == Init /\ [][Next]_vars
==============================================================================
