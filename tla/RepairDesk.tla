------------------------------ MODULE RepairDesk ------------------------------
(***************************************************************************)
(* What a tenant may rely on for each piece of equipment: it is in one      *)
(* place at a time, a case settles the device it was opened for exactly     *)
(* once, what is written off never comes back, and what is replaced is      *)
(* replaced by one new piece.                                               *)
(***************************************************************************)
CONSTANTS Units, Cases, Unused, Settled

VARIABLES
  place,  \* of a unit: not there yet, on a shelf, out, at the desk, or gone
  about   \* the device of a case until it is settled

Init ==
  /\ place = [u \in Units |-> "none"]
  /\ about = [k \in Cases |-> Unused]

Enter(U) ==
  /\ \A u \in U : place[u] = "none"
  /\ place' = [u \in Units |-> IF u \in U THEN "shelf" ELSE place[u]]
  /\ UNCHANGED about

Move(u, from, to) ==
  /\ place[u] = from
  /\ place' = [place EXCEPT ![u] = to]

(* A device can be left at the desk without a case. *)
Carry(u) ==
  /\ Move(u, "shelf", "out") \/ Move(u, "out", "shelf") \/ Move(u, "shelf", "desk")
  /\ UNCHANGED about

Submit(k, u) ==
  /\ about[k] = Unused
  /\ Move(u, "shelf", "desk")
  /\ about' = [about EXCEPT ![k] = u]

Settle(k, u) ==
  /\ about[k] = u
  /\ \A c \in Cases \ {k} : about[c] # u
  /\ about' = [about EXCEPT ![k] = Settled]
  /\ place[u] = "desk"
  /\ \/ place' = [place EXCEPT ![u] = "shelf"]
     \/ place' = [place EXCEPT ![u] = "gone"]
     \/ \E s \in Units :
          /\ place[s] = "none"
          /\ place' = [x \in Units |-> IF x = s THEN "shelf"
                                       ELSE IF x = u THEN "gone" ELSE place[x]]

Next ==
  \/ \E U \in SUBSET Units : Enter(U)
  \/ \E u \in Units : Carry(u) \/ \E k \in Cases : Submit(k, u) \/ Settle(k, u)

Spec == Init /\ [][Next]_<<place, about>>
===============================================================================
