-------------------------- MODULE NetworkJobContract --------------------------
(***************************************************************************)
(* What a durable network job promises whoever enqueued it, without        *)
(* leases, processes, routers or circuits: the job is decided at most      *)
(* once, "done" only after some attempt reached a router, and it is given  *)
(* up at the latest with its MaxAttempts-th recorded attempt.              *)
(***************************************************************************)
EXTENDS Naturals

CONSTANTS Jobs, MaxAttempts

VARIABLES verdict, tries

vars == <<verdict, tries>>

Verdicts == {"absent", "open", "done", "given_up"}

Init ==
  /\ verdict = [j \in Jobs |-> "absent"]
  /\ tries = [j \in Jobs |-> 0]

(* The job is enqueued. *)
Accept(j) ==
  /\ verdict[j] = "absent"
  /\ verdict' = [verdict EXCEPT ![j] = "open"]
  /\ UNCHANGED tries

(* An attempt is recorded; the last one allowed decides the job. *)
Try(j) ==
  /\ verdict[j] = "open"
  /\ tries' = [tries EXCEPT ![j] = @ + 1]
  /\ \E v \in {"open", "done", "given_up"} :
       /\ v = "open" => tries[j] + 1 < MaxAttempts
       /\ verdict' = [verdict EXCEPT ![j] = v]

(* The job is decided without a further attempt: reconciled with what an
   earlier attempt did, held for a human, or its router is gone. *)
Decide(j) ==
  /\ verdict[j] = "open"
  /\ \/ tries[j] > 0 /\ verdict' = [verdict EXCEPT ![j] = "done"]
     \/ verdict' = [verdict EXCEPT ![j] = "given_up"]
  /\ UNCHANGED tries

Next == \E j \in Jobs : Accept(j) \/ Try(j) \/ Decide(j)

Spec == Init /\ [][Next]_vars
==============================================================================
