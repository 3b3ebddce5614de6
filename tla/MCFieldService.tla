---------------------------- MODULE MCFieldService ----------------------------
(* Small instances of FieldService for TLC. *)
EXTENDS FieldService, TLC

CONSTANTS l1, q1

OneLead == q1 :> l1

WorkSymmetric == Permutations(WorkOrders)
===============================================================================
