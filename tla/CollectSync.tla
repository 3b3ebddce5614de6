------------------------------ MODULE CollectSync ------------------------------
(***************************************************************************)
(* One Collect phone and the collect backend: CollectService and           *)
(* CollectSyncEngine on the phone, ProductionCollectApi between them,      *)
(* syncCollectOperations on the server.                                    *)
(*                                                                         *)
(* The phone appends operations to its outbox; the position of one is its  *)
(* createdLocalSequence and, as ids are never reused, stands for its id.   *)
(* A sync call reads the ready operations, pushes them and records the     *)
(* answer; calls overlap, messages are lost or outlive their call, the app *)
(* is killed.  The phone's state survives, see CollectStorage.  The server *)
(* handles a request in one transaction.  An operation is abstracted to    *)
(* the assignment it pays, none for a print audit or a reconciliation,     *)
(* and the operations it depends on.                                       *)
(***************************************************************************)
EXTENDS Naturals, Sequences, FiniteSets

CONSTANTS
  Assignments,       \* collections the collector may be assigned
  Calls, Nobody,     \* sync calls in progress at once; a request nobody awaits
  BatchSize,         \* of sync, 25 in the production app
  MaxPayments, MaxPerAssignment, MaxOthers,   \* bounds: operations recorded
  MaxDevices,        \* bound: enrolments of the phone
  MaxMoves,          \* bound: assignments given to or taken from the collector
  MaxFaults          \* bound: messages lost or late, killed apps

ASSUME SyncAssumption ==
  /\ Nobody \notin Calls
  /\ BatchSize \in Nat \ {0}
  /\ MaxDevices \in Nat /\ MaxMoves \in Nat /\ MaxFaults \in Nat

VARIABLES
  outbox,            \* operations of the phone, in createdLocalSequence order
  cached,            \* assignments of the last installed bootstrap
  snapshot,          \* a bootstrap read by the server and not yet installed
  phase,             \* of the app: "login", "starting", "ready"
  device,            \* the device the phone's tokens are for, 0 for none
  pc, batch,         \* per sync call: its step, the operations it read
  requests,          \* on their way to the server
  enrolled,          \* collect_devices rows
  last, ledger,      \* per device: last_sequence, collect_sync_operations
  open, moves,       \* assignments that are this collector's, changes of them
  faults             \* lost or late messages and killed apps so far

phone == <<outbox, cached, snapshot, phase, device>>
network == <<pc, batch, requests, faults>>
server == <<enrolled, last, ledger, open, moves>>
vars == <<phone, network, server>>

Devices == 1..MaxDevices
Operations == [pays : SUBSET Assignments, needs : SUBSET Nat, status : {"pending", "accepted"}]
Requests == [call : Calls \cup {Nobody}, device : Devices, operations : SUBSET Nat]

TypeOK ==
  /\ outbox \in Seq(Operations)
  /\ cached \subseteq Assignments
  /\ snapshot \subseteq SUBSET Assignments
  /\ phase \in {"login", "starting", "ready"}
  /\ device \in 0..MaxDevices /\ enrolled \in 0..MaxDevices
  /\ pc \in [Calls -> {"idle", "pushing", "answered", "failing"}]
  /\ batch \in [Calls -> SUBSET Nat]
  /\ requests \subseteq Requests
  /\ last \in [Devices -> Nat]
  /\ ledger \in [Devices -> SUBSET Nat]
  /\ open \subseteq Assignments
  /\ moves \in 0..MaxMoves
  /\ faults \in 0..MaxFaults

Init ==
  /\ outbox = <<>> /\ cached = {} /\ snapshot = {} /\ phase = "login" /\ device = 0
  /\ pc = [c \in Calls |-> "idle"]
  /\ batch = [c \in Calls |-> {}]
  /\ requests = {}
  /\ enrolled = 0
  /\ last = [d \in Devices |-> 0]
  /\ ledger = [d \in Devices |-> {}]
  /\ open \in SUBSET Assignments /\ moves = 0
  /\ faults = 0

Payments == {i \in DOMAIN outbox : outbox[i].pays # {}}
Pending == {i \in DOMAIN outbox : outbox[i].status = "pending"}
Posted == UNION {ledger[d] : d \in Devices}

(* collect_lock_payable_assignment and currentAssignments: still with this
   collector, and no collection evidence yet. *)
Payable == {a \in open : \A i \in Posted : outbox[i].pays # {a}}

-----------------------------------------------------------------------------
(* The phone *)

AppendOperation(operation) ==
  /\ phase = "ready"
  /\ outbox' = Append(outbox, operation)
  /\ UNCHANGED <<cached, snapshot, phase, device, network, server>>

(* recordPayment: the assignment must be cached; nothing looks at the payments
   already recorded for it. *)
RecordPayment(a) ==
  /\ a \in cached
  /\ Cardinality(Payments) < MaxPayments
  /\ Cardinality({i \in Payments : outbox[i].pays = {a}}) < MaxPerAssignment
  /\ AppendOperation([pays |-> {a}, needs |-> {}, status |-> "pending"])

(* The audit of a print depends on the payment. *)
PrintReceipt(i) ==
  /\ i \in Payments
  /\ Len(outbox) - Cardinality(Payments) < MaxOthers
  /\ \E a \in cached : outbox[i].pays = {a}
  /\ AppendOperation([pays |-> {}, needs |-> {i}, status |-> "pending"])

(* saveReconciliationDraft and submitReconciliation: depends on every payment. *)
SubmitReconciliation ==
  /\ Len(outbox) - Cardinality(Payments) < MaxOthers
  /\ AppendOperation([pays |-> {}, needs |-> Payments, status |-> "pending"])

(* login: authorizeDevice makes a new device row; outbox and sequence stay. *)
Enrol ==
  /\ phase = "login"
  /\ enrolled < MaxDevices
  /\ enrolled' = enrolled + 1
  /\ device' = enrolled + 1
  /\ UNCHANGED <<outbox, cached, snapshot, phase, network, last, ledger, open, moves>>

ReadBootstrap ==
  /\ device # 0 /\ snapshot = {}
  /\ snapshot' = {Payable}
  /\ UNCHANGED <<outbox, cached, phase, device, network, server>>

(* installBootstrap, after a login, at the start of the app or after a sync. *)
InstallBootstrap ==
  /\ \E assignments \in snapshot : cached' = assignments
  /\ snapshot' = {}
  /\ phase' = "ready"
  /\ UNCHANGED <<outbox, device, network, server>>

(* initialize, when the bootstrap fails: work offline if something is cached,
   otherwise clear the tokens. *)
StartOffline ==
  /\ phase = "starting"
  /\ faults < MaxFaults
  /\ faults' = faults + 1
  /\ snapshot' = {}
  /\ \/ /\ cached # {}
        /\ phase' = "ready"
        /\ UNCHANGED device
     \/ /\ cached = {} /\ enrolled < MaxDevices
        /\ phase' = "login"
        /\ device' = 0
  /\ UNCHANGED <<outbox, cached, pc, batch, requests, server>>

-----------------------------------------------------------------------------
(* CollectSyncEngine.sync and ProductionCollectApi.push *)

(* readyOperations before the slice. *)
AllReady ==
  {i \in Pending : \A j \in outbox[i].needs : outbox[j].status = "accepted"}

(* Variant: the newest operations first. *)
NewestReady == {i \in AllReady : Cardinality({j \in AllReady : j >= i}) <= BatchSize}

ReadyOperations == {i \in AllReady : Cardinality({j \in AllReady : j <= i}) <= BatchSize}

(* push refuses a batch with anything but payments before sending it. *)
StartSync(c) ==
  /\ phase = "ready"
  /\ pc[c] = "idle"
  /\ ReadyOperations # {}
  /\ batch' = [batch EXCEPT ![c] = ReadyOperations]
  /\ \/ /\ ReadyOperations \subseteq Payments
        /\ pc' = [pc EXCEPT ![c] = "pushing"]
        /\ requests' = requests \cup
             {[call |-> c, device |-> device, operations |-> ReadyOperations]}
     \/ /\ ~(ReadyOperations \subseteq Payments)
        /\ pc' = [pc EXCEPT ![c] = "failing"]
        /\ UNCHANGED requests
  /\ UNCHANGED <<phone, faults, server>>

Accepted(operation) ==
  [pays |-> operation.pays, needs |-> operation.needs, status |-> "accepted"]

(* Variant: the outbox the call had read is written back. *)
FinishFromCopy(c) ==
  /\ pc[c] = "answered"
  /\ outbox' = [i \in DOMAIN outbox |->
                  IF i \in batch[c] THEN Accepted(outbox[i])
                  ELSE [outbox[i] EXCEPT !.status = "pending"]]
  /\ pc' = [pc EXCEPT ![c] = "idle"]
  /\ batch' = [batch EXCEPT ![c] = {}]
  /\ UNCHANGED <<cached, snapshot, phase, device, requests, faults, server>>

(* updateOperation: this endpoint answers accepted, for all of the batch. *)
Finish(c) ==
  /\ pc[c] = "answered"
  /\ outbox' = [i \in DOMAIN outbox |->
                  IF i \in batch[c] THEN Accepted(outbox[i]) ELSE outbox[i]]
  /\ pc' = [pc EXCEPT ![c] = "idle"]
  /\ batch' = [batch EXCEPT ![c] = {}]
  /\ UNCHANGED <<cached, snapshot, phase, device, requests, faults, server>>

(* The catch: attempts are counted, the operations stay pending. *)
FinishFailed(c) ==
  /\ pc[c] = "failing"
  /\ pc' = [pc EXCEPT ![c] = "idle"]
  /\ batch' = [batch EXCEPT ![c] = {}]
  /\ UNCHANGED <<phone, requests, faults, server>>

-----------------------------------------------------------------------------
(* syncCollectOperations: one transaction per request *)

New(d, operations) == operations \ ledger[d]

(* Variant: any sequence after the last one will do. *)
NotStale(d, operations) == \A i \in New(d, operations) : i > last[d]

(* Variant: the lock does not look for collection evidence. *)
CollectableAgain(d, operations) ==
  \A i \in New(d, operations) : outbox[i].pays \subseteq open

(* Replays aside, the operations continue the device's sequence without a gap,
   and each locks an assignment that is still payable. *)
InOrder(d, operations) ==
  New(d, operations) = (last[d] + 1)..(last[d] + Cardinality(New(d, operations)))

Collectable(d, operations) ==
  /\ \A i \in New(d, operations) : outbox[i].pays \subseteq Payable
  /\ \A i, j \in New(d, operations) : i # j => outbox[i].pays # outbox[j].pays

Contiguous(operations) == \A i, j \in operations : i..j \subseteq operations

Accepts(d, operations) ==
  Contiguous(operations) /\ InOrder(d, operations) /\ Collectable(d, operations)

Reply(r, step) ==
  pc' = [c \in Calls |-> IF c = r.call THEN step ELSE pc[c]]

Post(r) ==
  /\ Accepts(r.device, r.operations)
  /\ ledger' = [ledger EXCEPT ![r.device] = ledger[r.device] \cup r.operations]
  /\ last' = [last EXCEPT ![r.device] =
                last[r.device] + Cardinality(New(r.device, r.operations))]
  /\ requests' = requests \ {r}
  /\ Reply(r, "answered")
  /\ UNCHANGED <<phone, batch, faults, enrolled, open, moves>>

(* One operation fails: the whole transaction is rolled back, the call throws. *)
Refuse(r) ==
  /\ ~Accepts(r.device, r.operations)
  /\ requests' = requests \ {r}
  /\ Reply(r, "failing")
  /\ UNCHANGED <<phone, batch, faults, server>>

(* The office assigns a collection, gives it to somebody else or settles it. *)
Move(a) ==
  /\ moves < MaxMoves
  /\ moves' = moves + 1
  /\ open' = IF a \in open THEN open \ {a} ELSE open \cup {a}
  /\ UNCHANGED <<phone, network, enrolled, last, ledger>>

-----------------------------------------------------------------------------
(* Failures *)

Fault == faults < MaxFaults /\ faults' = faults + 1

(* The request is lost, or its transaction aborted: two requests of a device that
   both hold the shared lock of its row cannot both take it for update. *)
LoseRequest(r) ==
  /\ Fault
  /\ requests' = requests \ {r}
  /\ Reply(r, "failing")
  /\ UNCHANGED <<phone, batch, server>>

(* The connection breaks while the request goes on. *)
Disconnect(r) ==
  /\ Fault
  /\ r.call # Nobody
  /\ requests' = (requests \ {r}) \cup
       {[call |-> Nobody, device |-> r.device, operations |-> r.operations]}
  /\ Reply(r, "failing")
  /\ UNCHANGED <<phone, batch, server>>

LoseAnswer(c) ==
  /\ Fault
  /\ pc[c] = "answered"
  /\ pc' = [pc EXCEPT ![c] = "failing"]
  /\ UNCHANGED <<phone, batch, requests, server>>

(* The app is killed; its requests go on. *)
Kill ==
  /\ Fault
  /\ pc' = [c \in Calls |-> "idle"]
  /\ batch' = [c \in Calls |-> {}]
  /\ requests' = {[call |-> Nobody, device |-> r.device, operations |-> r.operations] :
                    r \in requests}
  /\ snapshot' = {}
  /\ phase' = IF device = 0 THEN "login" ELSE "starting"
  /\ UNCHANGED <<outbox, cached, device, server>>

-----------------------------------------------------------------------------
Record ==
  \/ \E a \in Assignments : RecordPayment(a)
  \/ \E i \in Payments : PrintReceipt(i)
  \/ SubmitReconciliation

Next ==
  \/ Record \/ Enrol \/ ReadBootstrap \/ InstallBootstrap \/ StartOffline
  \/ \E c \in Calls : StartSync(c) \/ Finish(c) \/ FinishFailed(c) \/ LoseAnswer(c)
  \/ \E r \in requests : Post(r) \/ Refuse(r) \/ LoseRequest(r) \/ Disconnect(r)
  \/ \E a \in Assignments : Move(a)
  \/ Kill

Spec == Init /\ [][Next]_vars

(* The collector signs in and keeps pressing retry; bootstraps are read and
   requests that are not lost are handled; a call that has its answer records it. *)
Fairness ==
  /\ WF_vars(Enrol) /\ WF_vars(ReadBootstrap) /\ WF_vars(InstallBootstrap)
  /\ \A c \in Calls :
       WF_vars(StartSync(c)) /\ WF_vars(Finish(c)) /\ WF_vars(FinishFailed(c))
  /\ WF_vars(\E r \in requests : Post(r) \/ Refuse(r))

FairSpec == Spec /\ Fairness

-----------------------------------------------------------------------------
(* Properties *)

(* repository.ts:299-308.  A device's ledger has no gap: last_sequence is the
   number of its operations, which are the first ones. *)
LedgerContiguous == \A d \in Devices : ledger[d] = 1..last[d]

(* repository.ts:279-297 and 448-453.  No assignment is collected twice: not by a
   request that arrives again or late, not by two operations of the phone, not
   under two enrolments of it. *)
PostedOnce ==
  \A d, e \in Devices : \A i \in ledger[d], j \in ledger[e] :
    <<d, i>> # <<e, j>> => outbox[i].pays # outbox[j].pays

(* sync-engine.ts:150-170.  What the phone shows as accepted is on the server,
   whichever call recorded it. *)
AcceptedIsPosted ==
  \A i \in Payments : outbox[i].status = "accepted" => i \in Posted

(* sync-engine.ts:92-180 and repository.ts:249-253.  While only payments were
   recorded and the phone has not enrolled again, what it sends continues the
   sequence of its device or repeats what the device has sent. *)
Undisturbed == Payments = DOMAIN outbox /\ enrolled <= 1

BatchesFollowLedger ==
  Undisturbed =>
    \A r \in requests : Contiguous(r.operations) /\ InOrder(r.device, r.operations)

(* model.ts, sync-engine.ts:36-66.  The phone's evidence only grows: operations
   stay what they are, and accepted ones stay accepted. *)
EvidenceKept ==
  [][/\ Len(outbox) <= Len(outbox')
     /\ \A i \in DOMAIN outbox :
          /\ outbox'[i].pays = outbox[i].pays /\ outbox'[i].needs = outbox[i].needs
          /\ outbox[i].status = "accepted" => outbox'[i].status = "accepted"]_outbox

(* Every payment recorded is accepted in the end, through lost and late messages
   and restarts. *)
PaymentsSettle ==
  \A i \in 1..MaxPayments : (i \in Payments) ~> (i \in Payments \ Pending)

(* docs/adr/0007-mobile-offline-sync.md:11-12, "reconcile without lost/duplicate
   payment": what is recorded after the phone enrolled again reaches the server,
   unless an assignment with an unposted payment was taken away. *)
EnrolmentsContinue ==
  \A i \in 1..MaxPayments : (i \in Payments /\ enrolled > 1) ~>
    (i \in Posted \/ \E j \in Payments \ Posted : outbox[j].pays \cap open = {})

(* The phone and the server implement a ledger of payments. *)
Ledger ==
  INSTANCE PaymentLedger WITH
    recorded <- {<<i, outbox[i].pays>> : i \in Payments},
    posted <- {<<i, outbox[i].pays>> : i \in Payments \cap Posted},
    known <- {<<i, outbox[i].pays>> : i \in Payments \ Pending}

KeepsLedger == Ledger!Spec

-----------------------------------------------------------------------------
(* The inductive invariant behind LedgerContiguous, PostedOnce, AcceptedIsPosted
   and KeepsLedger *)

(* Who has a bootstrap to install, or is past the login, has tokens; a payment
   pays one assignment. *)
PhoneConsistent ==
  /\ snapshot # {} \/ phase # "login" => device # 0
  /\ \A i \in Payments : \E a \in Assignments : outbox[i].pays = {a}

(* A request is of payments, and of the batch of the one call that awaits it;
   an answered call's batch is posted. *)
NetworkConsistent ==
  /\ \A r \in requests :
       /\ r.operations \subseteq Payments
       /\ r.call # Nobody => pc[r.call] = "pushing" /\ batch[r.call] = r.operations
  /\ \A r, s \in requests : r.call = s.call /\ r.call # Nobody => r = s
  /\ \A c \in Calls :
       /\ batch[c] \subseteq DOMAIN outbox
       /\ pc[c] = "answered" => batch[c] \subseteq Posted

(* sync-engine.ts:99-180 with repository.ts:246-310.  Whatever calls overlap and
   messages are late, the server's ledger holds payments of the phone, in the
   phone's order, and an answer is about what it holds. *)
SyncInvariant ==
  /\ PhoneConsistent /\ NetworkConsistent
  /\ \A d \in Devices : ledger[d] \subseteq Payments
  /\ LedgerContiguous /\ PostedOnce /\ AcceptedIsPosted
==============================================================================
