--------------------------- MODULE MCNetworkWorker ---------------------------
(* Small instances of NetworkWorker for TLC. *)
EXTENDS NetworkWorker, TLC

CONSTANTS w1, w2, c1, c2, r1, r2, s1, on, off

OneCallEach == (c1 :> w1) @@ (c2 :> w2)
OneProcess == [c \in {c1, c2} |-> w1]

OneRouter == [j \in Jobs |-> r1]
TwoRouters == [j \in Jobs |-> IF j = 1 THEN r2 ELSE r1]
OneService == [j \in Jobs |-> s1]
SuspendThenRestore == [j \in Jobs |-> IF j = 1 THEN "pppoe.suspend" ELSE "pppoe.restore"]
CreateThenSuspend == [j \in Jobs |-> IF j = 1 THEN "pppoe.create" ELSE "pppoe.suspend"]
OffThenOn == [j \in Jobs |-> IF j = 1 THEN off ELSE on]
OnThenOff == [j \in Jobs |-> IF j = 1 THEN on ELSE off]

Fresh == s1 :> Absent
Online == s1 :> on
==============================================================================
