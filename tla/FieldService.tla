----------------------------- MODULE FieldService -----------------------------
(***************************************************************************)
(* Field work beside the order desk: work orders and technicians, whose    *)
(* commands move the same installations the order desk moves.  A command   *)
(* that names a technician reads it without a lock, so its transaction is  *)
(* two steps here; every other command is one.                             *)
(***************************************************************************)
EXTENDS OrderFulfilment

CONSTANTS
  WorkOrders,  \* bounds how many are ever opened
  Technicians,
  Nobody, Nowhere

ASSUME NobodyIsNoTechnician == Nobody \notin Technicians
ASSUME NowhereIsNoPlace == Nowhere \notin Services \cup WorkOrders

VARIABLES
  work,        \* operations_work_orders.status
  target,      \* .installation_id, by the service it installs
  technician,  \* .technician_id
  revisitOf,   \* .revisit_of
  roster,      \* operations_field_technicians: unregistered, active or inactive
  found        \* the technician an open transaction on the work order has read

orders == vars
board == <<work, target, technician, revisitOf>>
fieldVars == <<board, roster, found>>

Live == {"open", "scheduled", "dispatched", "on_site"}
Closed == {"completed", "failed", "cancelled"}

FieldTypeOK ==
  /\ work \in [WorkOrders -> Live \cup Closed \cup {"none"}]
  /\ target \in [WorkOrders -> Services \cup {Nowhere}]
  /\ technician \in [WorkOrders -> Technicians \cup {Nobody}]
  /\ revisitOf \in [WorkOrders -> WorkOrders \cup {Nowhere}]
  /\ roster \in [Technicians -> {"none", "active", "inactive"}]
  /\ found \in [WorkOrders -> Technicians \cup {Nobody}]

FieldInit ==
  /\ Init
  /\ work = [w \in WorkOrders |-> "none"]
  /\ target = [w \in WorkOrders |-> Nowhere]
  /\ technician = [w \in WorkOrders |-> Nobody]
  /\ revisitOf = [w \in WorkOrders |-> Nowhere]
  /\ roster = [t \in Technicians |-> "none"]
  /\ found = [w \in WorkOrders |-> Nobody]

-----------------------------------------------------------------------------
(* Technicians *)

RegisterTechnician(t) ==
  /\ roster[t] = "none"
  /\ roster' = [roster EXCEPT ![t] = "active"]
  /\ UNCHANGED <<orders, board, found>>

(* A technician with work on hand cannot be deactivated. *)
UpdateTechnician(t) ==
  /\ roster[t] # "none"
  /\ \/ roster' = [roster EXCEPT ![t] = "active"]
     \/ /\ \A w \in WorkOrders : technician[w] = t => work[w] \notin {"dispatched", "on_site"}
        /\ roster' = [roster EXCEPT ![t] = "inactive"]
  /\ UNCHANGED <<orders, board, found>>

(* A command on w that names t has found it active; w's row is locked. *)
FindTechnician(w, t) ==
  /\ found[w] = Nobody /\ roster[t] = "active"
  /\ work[w] \in {"none", "open", "scheduled", "dispatched"}
  /\ found' = [found EXCEPT ![w] = t]
  /\ UNCHANGED <<orders, board, roster>>

(* That command is refused after all, or its connection is lost. *)
RollBack(w) ==
  /\ found[w] # Nobody
  /\ found' = [found EXCEPT ![w] = Nobody]
  /\ UNCHANGED <<orders, board, roster>>

-----------------------------------------------------------------------------
(* What field commands do to an installation *)

(* Variant: the installation row is written without an installation event. *)
MoveSilently(s, st) ==
  /\ <<installation[s], st>> \in InstallationMoves
  /\ installation' = [installation EXCEPT ![s] = st]
  /\ UNCHANGED <<commercial, delivery, resuming, capacity, service, network>>

(* The audit trigger on tasks does not know the field actions: a transition
   that would change a task of an order is refused, and the command with it. *)
FieldMove(s, st) ==
  /\ s \in Quotes => TasksFollowing(task[s], st) = task[s]
  /\ MoveInstallation(s, st)
  /\ UNCHANGED <<commercial, subscriber, resuming, capacity, network>>

(* A first appointment needs an installer, a new one only a new time. *)
Appoint(s, installer) ==
  \/ s = Nowhere /\ UNCHANGED orders
  \/ s # Nowhere /\ installation[s] = "scheduled" /\ UNCHANGED orders
  \/ s # Nowhere /\ installer # Nobody /\ FieldMove(s, "scheduled")

MoveTarget(w, st) ==
  \/ target[w] = Nowhere /\ UNCHANGED orders
  \/ target[w] # Nowhere /\ FieldMove(target[w], st)

-----------------------------------------------------------------------------
(* Dispatch *)

(* Variant: no unique index on the live work orders of an installation. *)
NeverAttended(s) == TRUE

(* At most one work order of an installation is live. *)
Unattended(s) == \A w \in WorkOrders : ~(work[w] \in Live /\ target[w] = s)

(* A technician is only sent to an appointment. *)
CreateWorkOrder(w, s) ==
  /\ work[w] = "none"
  /\ s # Nowhere => /\ installation[s] \notin {"none", "completed", "cancelled"}
                    /\ Unattended(s)
  /\ target' = [target EXCEPT ![w] = s]
  /\ technician' = [technician EXCEPT ![w] = found[w]]
  /\ found' = [found EXCEPT ![w] = Nobody]
  /\ \/ /\ found[w] = Nobody
        /\ work' = [work EXCEPT ![w] = "open"]
        /\ UNCHANGED orders
     \/ /\ work' = [work EXCEPT ![w] = IF found[w] = Nobody THEN "scheduled" ELSE "dispatched"]
        /\ Appoint(s, found[w])
  /\ UNCHANGED <<revisitOf, roster>>

ScheduleWorkOrder(w) ==
  LET t == IF found[w] = Nobody THEN technician[w] ELSE found[w] IN
  /\ work[w] \in {"open", "scheduled", "dispatched"}
  /\ work' = [work EXCEPT ![w] = IF t = Nobody THEN "scheduled" ELSE "dispatched"]
  /\ technician' = [technician EXCEPT ![w] = t]
  /\ found' = [found EXCEPT ![w] = Nobody]
  /\ Appoint(target[w], t)
  /\ UNCHANGED <<target, revisitOf, roster>>

(* Dispatching a revisit reschedules the installation it found blocked. *)
AssignWorkOrder(w) ==
  /\ work[w] \in {"scheduled", "dispatched"} /\ found[w] # Nobody
  /\ work' = [work EXCEPT ![w] = "dispatched"]
  /\ technician' = [technician EXCEPT ![w] = found[w]]
  /\ found' = [found EXCEPT ![w] = Nobody]
  /\ IF target[w] # Nowhere /\ installation[target[w]] \in {"requested", "blocked"}
       THEN FieldMove(target[w], "scheduled")
       ELSE UNCHANGED orders
  /\ UNCHANGED <<target, revisitOf, roster>>

UnassignWorkOrder(w) ==
  /\ work[w] \in {"scheduled", "dispatched"} /\ found[w] = Nobody
  /\ work' = [work EXCEPT ![w] = "scheduled"]
  /\ technician' = [technician EXCEPT ![w] = Nobody]
  /\ UNCHANGED <<orders, target, revisitOf, roster, found>>

CancelWorkOrder(w) ==
  /\ work[w] \in {"open", "scheduled", "dispatched"} /\ found[w] = Nobody
  /\ work' = [work EXCEPT ![w] = "cancelled"]
  /\ UNCHANGED <<orders, target, technician, revisitOf, roster, found>>

-----------------------------------------------------------------------------
(* Execution *)

StartWorkOrder(w) ==
  /\ work[w] = "dispatched" /\ found[w] = Nobody
  /\ work' = [work EXCEPT ![w] = "on_site"]
  /\ MoveTarget(w, "in_progress")
  /\ UNCHANGED <<target, technician, revisitOf, roster, found>>

CompleteWorkOrder(w) ==
  /\ work[w] = "on_site"
  /\ work' = [work EXCEPT ![w] = "completed"]
  /\ MoveTarget(w, "ready_for_activation")
  /\ UNCHANGED <<target, technician, revisitOf, roster, found>>

(* The revisit takes the place of the failed work order, unassigned. *)
FailWorkOrder(w, next) ==
  /\ work[w] \in {"dispatched", "on_site"} /\ found[w] = Nobody
  /\ work[next] = "none" /\ found[next] = Nobody
  /\ \E st \in {"open", "scheduled"} :
       work' = [work EXCEPT ![w] = "failed", ![next] = st]
  /\ target' = [target EXCEPT ![next] = target[w]]
  /\ revisitOf' = [revisitOf EXCEPT ![next] = w]
  /\ MoveTarget(w, "blocked")
  /\ UNCHANGED <<technician, roster, found>>

FieldStep ==
  \/ \E t \in Technicians : RegisterTechnician(t) \/ UpdateTechnician(t)
  \/ \E w \in WorkOrders :
       \/ \E t \in Technicians : FindTechnician(w, t)
       \/ RollBack(w)
       \/ \E s \in Services \cup {Nowhere} : CreateWorkOrder(w, s)
       \/ ScheduleWorkOrder(w) \/ AssignWorkOrder(w) \/ UnassignWorkOrder(w)
       \/ CancelWorkOrder(w) \/ StartWorkOrder(w) \/ CompleteWorkOrder(w)
       \/ \E next \in WorkOrders : FailWorkOrder(w, next)

FieldNext == FieldStep \/ (Next /\ UNCHANGED fieldVars)

FieldSpec == FieldInit /\ [][FieldNext]_<<orders, fieldVars>>

-----------------------------------------------------------------------------
(* Properties *)

(* Who is sent: a known technician, from dispatch on. *)
Staffed ==
  \A w \in WorkOrders :
    /\ work[w] \in {"dispatched", "on_site", "completed", "failed"} => technician[w] # Nobody
    /\ work[w] \in {"none", "open", "scheduled"} => technician[w] = Nobody
    /\ \A t \in {technician[w], found[w]} \ {Nobody} : roster[t] # "none"
    /\ found[w] # Nobody => work[w] \notin {"on_site"} \cup Closed

(* Where to: an installation with an appointment, one work order at a time. *)
Appointed ==
  \A w \in WorkOrders :
    work[w] \in {"scheduled", "dispatched", "on_site"} /\ target[w] # Nowhere
      => installation[target[w]] \notin {"none", "requested"}

AttendedOnce ==
  \A w, x \in WorkOrders :
    w # x /\ work[w] \in Live /\ work[x] \in Live /\ target[w] = target[x] => target[w] = Nowhere

(* What failed goes on in exactly one revisit, of the same place. *)
RevisitsFollow ==
  /\ \A w \in WorkOrders :
       /\ work[w] = "none" => revisitOf[w] = Nowhere
       /\ work[w] = "failed" <=> \E x \in WorkOrders : revisitOf[x] = w
       /\ revisitOf[w] # Nowhere => target[w] = target[revisitOf[w]]
  /\ \A w, x \in WorkOrders : w # x /\ revisitOf[w] = revisitOf[x] => revisitOf[w] = Nowhere

(* The board, whatever commands of dispatchers, technicians and the order desk
   come between: work under way is staffed and appointed, an installation is
   attended once, and failed work is never lost. *)
FieldInvariant == FieldTypeOK /\ Staffed /\ Appointed /\ AttendedOnce /\ RevisitsFollow

(* The two screens on one installation: whatever field work does to it, the
   orders only ever see it as moves the order desk could have made itself, so
   no promise of an order depends on which screen acted. *)
ObeysOrderDesk == Spec
===============================================================================
