---------------------------- MODULE MCCollectSync ----------------------------
(* Small instances of CollectSync for TLC. *)
EXTENDS CollectSync, TLC

(* Sound for CollectSync.cfg: all its properties are invariants and properties
   of single steps, and none names an assignment or a call. *)
Symmetric == Permutations(Assignments) \cup Permutations(Calls)
==============================================================================
