-------------------------- MODULE CollectSyncProofs --------------------------
(* What CollectSync guarantees for any assignments, sync calls, batch size and
   number of payments, enrolments and faults. *)
EXTENDS CollectSync, FiniteSetTheorems, SequenceTheorems, TLAPS

-----------------------------------------------------------------------------
(* The outbox *)

(* What a step may do to the outbox, and not more: its operations stay where
   they are and what they are. *)
OutboxKept ==
  /\ DOMAIN outbox \subseteq DOMAIN outbox'
  /\ \A i \in DOMAIN outbox :
       outbox'[i].pays = outbox[i].pays /\ outbox'[i].needs = outbox[i].needs

LEMMA OutboxType ==
  ASSUME TypeOK
  PROVE  /\ DOMAIN outbox = 1..Len(outbox) /\ Len(outbox) \in Nat
         /\ \A i \in DOMAIN outbox : i \in Nat /\ outbox[i] \in Operations
  BY DEF TypeOK

LEMMA AppendKeepsOutbox ==
  ASSUME TypeOK, NEW operation \in Operations, AppendOperation(operation)
  PROVE  /\ outbox' \in Seq(Operations)
         /\ OutboxKept
         /\ DOMAIN outbox' = DOMAIN outbox \cup {Len(outbox) + 1}
         /\ Len(outbox) + 1 \notin DOMAIN outbox
         /\ outbox'[Len(outbox) + 1] = operation
         /\ \A i \in DOMAIN outbox : outbox'[i] = outbox[i]
<1>1. outbox' = Append(outbox, operation) /\ outbox \in Seq(Operations)
  BY DEF AppendOperation, TypeOK
<1>2. /\ outbox' \in Seq(Operations) /\ Len(outbox') = Len(outbox) + 1
      /\ \A i \in 1..Len(outbox) : outbox'[i] = outbox[i]
      /\ outbox'[Len(outbox) + 1] = operation
  BY <1>1, AppendProperties
<1> QED
  BY <1>1, <1>2 DEF OutboxKept

LEMMA FinishKeepsOutbox ==
  ASSUME TypeOK, NEW c \in Calls, Finish(c)
  PROVE  /\ outbox' \in Seq(Operations)
         /\ OutboxKept
         /\ DOMAIN outbox' = DOMAIN outbox
         /\ \A i \in DOMAIN outbox :
              outbox'[i] = IF i \in batch[c] THEN Accepted(outbox[i]) ELSE outbox[i]
<1>1. outbox' = [i \in DOMAIN outbox |->
                   IF i \in batch[c] THEN Accepted(outbox[i]) ELSE outbox[i]]
  BY DEF Finish
<1>2. ASSUME NEW i \in DOMAIN outbox
      PROVE  /\ outbox'[i] \in Operations
             /\ outbox'[i].pays = outbox[i].pays /\ outbox'[i].needs = outbox[i].needs
  BY <1>1, OutboxType DEF Accepted, Operations
<1>3. Len(outbox) \in Nat /\ outbox' \in [1..Len(outbox) -> Operations]
  BY <1>1, <1>2, OutboxType
<1>4. outbox' \in Seq(Operations)
  BY <1>3, SeqDef
<1> QED
  BY <1>1, <1>2, <1>4 DEF OutboxKept

(* The operations of a batch become accepted, the others stay as they are. *)
LEMMA AcceptedStatus ==
  ASSUME NEW operation
  PROVE  Accepted(operation).status = "accepted"
  BY DEF Accepted

LEMMA FinishStatus ==
  ASSUME TypeOK, NEW c \in Calls, Finish(c), NEW i \in DOMAIN outbox
  PROVE  outbox'[i].status = "accepted" \/ outbox'[i] = outbox[i]
<1>1. CASE i \in batch[c]
  <2>1. outbox'[i] = Accepted(outbox[i])
    BY <1>1, FinishKeepsOutbox
  <2> QED
    BY <2>1, AcceptedStatus
<1>2. CASE i \notin batch[c]
  BY <1>2, FinishKeepsOutbox
<1> QED
  BY <1>1, <1>2

(* The operations the phone records. *)
LEMMA RecordShape ==
  ASSUME TypeOK, Record
  PROVE  \E operation \in Operations :
           /\ AppendOperation(operation)
           /\ operation.status = "pending"
           /\ operation.pays = {} \/ \E a \in Assignments : operation.pays = {a}
<1>1. ASSUME NEW a \in Assignments, RecordPayment(a)
      PROVE  /\ [pays |-> {a}, needs |-> {}, status |-> "pending"] \in Operations
             /\ AppendOperation([pays |-> {a}, needs |-> {}, status |-> "pending"])
  BY <1>1 DEF RecordPayment, Operations
<1>2. Payments \subseteq Nat
  BY OutboxType DEF Payments
<1>3. ASSUME NEW i \in Payments, PrintReceipt(i)
      PROVE  /\ [pays |-> {}, needs |-> {i}, status |-> "pending"] \in Operations
             /\ AppendOperation([pays |-> {}, needs |-> {i}, status |-> "pending"])
  BY <1>2, <1>3 DEF PrintReceipt, Operations
<1>4. ASSUME SubmitReconciliation
      PROVE  /\ [pays |-> {}, needs |-> Payments, status |-> "pending"] \in Operations
             /\ AppendOperation([pays |-> {}, needs |-> Payments, status |-> "pending"])
  BY <1>2, <1>4 DEF SubmitReconciliation, Operations
<1> QED
  BY <1>1, <1>3, <1>4 DEF Record

LEMMA RecordNeeds ==
  ASSUME TypeOK, Record
  PROVE  \E operation \in Operations :
           AppendOperation(operation) /\ (operation.pays = {} \/ operation.needs = {})
<1>1. Payments \subseteq Nat
  BY OutboxType DEF Payments
<1>2. ASSUME NEW a \in Assignments
      PROVE  [pays |-> {a}, needs |-> {}, status |-> "pending"] \in Operations
  BY DEF Operations
<1>3. ASSUME NEW S \in SUBSET Payments
      PROVE  [pays |-> {}, needs |-> S, status |-> "pending"] \in Operations
  BY <1>1 DEF Operations
<1>4. ASSUME NEW a \in Assignments, RecordPayment(a)
      PROVE  AppendOperation([pays |-> {a}, needs |-> {}, status |-> "pending"])
  BY <1>4 DEF RecordPayment
<1>5. ASSUME NEW i \in Payments, PrintReceipt(i)
      PROVE  {i} \in SUBSET Payments
             /\ AppendOperation([pays |-> {}, needs |-> {i}, status |-> "pending"])
  BY <1>5 DEF PrintReceipt
<1>6. ASSUME SubmitReconciliation
      PROVE  AppendOperation([pays |-> {}, needs |-> Payments, status |-> "pending"])
  BY <1>6 DEF SubmitReconciliation
<1>7. CASE \E a \in Assignments : RecordPayment(a)
  BY <1>2, <1>4, <1>7
<1>8. CASE \E i \in Payments : PrintReceipt(i)
  <2>1. PICK i \in Payments : PrintReceipt(i)
    BY <1>8
  <2> DEFINE operation == [pays |-> {}, needs |-> {i}, status |-> "pending"]
  <2>2. operation \in Operations /\ AppendOperation(operation) /\ operation.pays = {}
    BY <1>3, <1>5, <2>1
  <2> HIDE DEF operation
  <2> QED
    BY <2>2
<1>9. CASE SubmitReconciliation
  <2> DEFINE operation == [pays |-> {}, needs |-> Payments, status |-> "pending"]
  <2>1. operation \in Operations /\ AppendOperation(operation) /\ operation.pays = {}
    BY <1>3, <1>6, <1>9
  <2> HIDE DEF operation
  <2> QED
    BY <2>1
<1> QED
  BY <1>7, <1>8, <1>9 DEF Record

-----------------------------------------------------------------------------
(* Types *)

LEMMA TypeInit == Init => TypeOK
<1> SUFFICES ASSUME Init PROVE TypeOK
  OBVIOUS
<1>1. outbox \in Seq(Operations)
  BY DEF Init
<1> QED
  BY <1>1, SyncAssumption DEF Init, TypeOK

(* A request's new operations can be counted. *)
LEMMA NewType ==
  ASSUME TypeOK, NetworkConsistent, NEW r \in requests
  PROVE  /\ r.device \in Devices /\ r.operations \subseteq Payments
         /\ Cardinality(New(r.device, r.operations)) \in Nat
<1>1. r.device \in Devices /\ r.operations \subseteq Payments
  BY DEF TypeOK, Requests, NetworkConsistent
<1>2. IsFiniteSet(DOMAIN outbox)
  BY OutboxType, FS_Interval
<1>3. New(r.device, r.operations) \subseteq DOMAIN outbox
  BY <1>1 DEF New, Payments
<1> QED
  BY <1>1, <1>2, <1>3, FS_Subset, FS_CardinalityType

LEMMA ReplyType ==
  ASSUME TypeOK, NEW r \in requests, NEW step \in {"answered", "failing"}, Reply(r, step)
  PROVE  /\ pc' \in [Calls -> {"idle", "pushing", "answered", "failing"}]
         /\ \A c \in Calls : pc'[c] = IF c = r.call THEN step ELSE pc[c]
  BY DEF Reply, TypeOK

LEMMA AbandonedType ==
  ASSUME TypeOK, NEW r \in requests
  PROVE  [call |-> Nobody, device |-> r.device, operations |-> r.operations] \in Requests
  BY DEF TypeOK, Requests

LEMMA TypeStep ==
  TypeOK /\ PhoneConsistent /\ NetworkConsistent /\ [Next]_vars => TypeOK'
<1> SUFFICES ASSUME TypeOK, PhoneConsistent, NetworkConsistent, [Next]_vars
             PROVE  TypeOK'
  OBVIOUS
<1> USE DEF phone, network, server
<1>1. CASE Record
  <2>1. PICK operation \in Operations : AppendOperation(operation)
    BY <1>1, RecordShape
  <2>2. outbox' \in Seq(Operations)
    BY <2>1, AppendKeepsOutbox
  <2> QED
    BY <2>1, <2>2 DEF AppendOperation, TypeOK
<1>2. CASE Enrol
  BY <1>2, SyncAssumption DEF Enrol, TypeOK
<1>3. CASE ReadBootstrap
  <2>1. Payable \subseteq Assignments
    BY DEF Payable, TypeOK
  <2> QED
    BY <1>3, <2>1 DEF ReadBootstrap, TypeOK
<1>4. CASE InstallBootstrap
  BY <1>4 DEF InstallBootstrap, TypeOK
<1>5. CASE StartOffline
  BY <1>5, SyncAssumption DEF StartOffline, TypeOK
<1>6. ASSUME NEW c \in Calls, StartSync(c) PROVE TypeOK'
  <2>1. ReadyOperations \subseteq Nat
    BY OutboxType DEF ReadyOperations, AllReady, Pending
  <2>2. device \in Devices
    BY <1>6, SyncAssumption DEF StartSync, PhoneConsistent, TypeOK, Devices
  <2>3. [call |-> c, device |-> device, operations |-> ReadyOperations] \in Requests
    BY <2>1, <2>2 DEF Requests
  <2>4. requests' \subseteq Requests
    BY <1>6, <2>3 DEF StartSync, TypeOK
  <2> QED
    BY <1>6, <2>1, <2>4 DEF StartSync, TypeOK
<1>7. ASSUME NEW c \in Calls, Finish(c) PROVE TypeOK'
  <2>1. outbox' \in Seq(Operations)
    BY <1>7, FinishKeepsOutbox
  <2> QED
    BY <1>7, <2>1 DEF Finish, TypeOK
<1>8. ASSUME NEW c \in Calls, FinishFailed(c) PROVE TypeOK'
  BY <1>8 DEF FinishFailed, TypeOK
<1>9. ASSUME NEW c \in Calls, LoseAnswer(c) PROVE TypeOK'
  BY <1>9, SyncAssumption DEF LoseAnswer, Fault, TypeOK
<1>10. ASSUME NEW r \in requests, Post(r) PROVE TypeOK'
  <2>1. pc' \in [Calls -> {"idle", "pushing", "answered", "failing"}]
    BY <1>10, ReplyType DEF Post
  <2>2. r.operations \subseteq Nat
    BY DEF TypeOK, Requests
  <2>3. ledger' \in [Devices -> SUBSET Nat]
    BY <1>10, <2>2, NewType DEF Post, TypeOK
  <2>4. last' \in [Devices -> Nat]
    BY <1>10, NewType DEF Post, TypeOK
  <2> QED
    BY <1>10, <2>1, <2>3, <2>4 DEF Post, TypeOK
<1>11. ASSUME NEW r \in requests, Refuse(r) PROVE TypeOK'
  BY <1>11, ReplyType DEF Refuse, TypeOK
<1>12. ASSUME NEW r \in requests, LoseRequest(r) PROVE TypeOK'
  BY <1>12, ReplyType, SyncAssumption DEF LoseRequest, Fault, TypeOK
<1>13. ASSUME NEW r \in requests, Disconnect(r) PROVE TypeOK'
  <2>1. requests' \subseteq Requests
    BY <1>13, AbandonedType DEF Disconnect, TypeOK
  <2>2. pc' \in [Calls -> {"idle", "pushing", "answered", "failing"}]
    BY <1>13, ReplyType DEF Disconnect
  <2>3. faults' \in 0..MaxFaults
    BY <1>13, SyncAssumption DEF Disconnect, Fault, TypeOK
  <2> QED
    BY <1>13, <2>1, <2>2, <2>3 DEF Disconnect, TypeOK
<1>14. ASSUME NEW a \in Assignments, Move(a) PROVE TypeOK'
  BY <1>14, SyncAssumption DEF Move, TypeOK
<1>15. CASE Kill
  <2>1. requests' \subseteq Requests
    BY <1>15, AbandonedType DEF Kill
  <2> QED
    BY <1>15, <2>1, SyncAssumption DEF Kill, Fault, TypeOK
<1>16. CASE UNCHANGED vars
  BY <1>16 DEF vars, TypeOK
<1> QED
  BY <1>1, <1>2, <1>3, <1>4, <1>5, <1>6, <1>7, <1>8, <1>9, <1>10, <1>11, <1>12, <1>13,
     <1>14, <1>15, <1>16 DEF Next

-----------------------------------------------------------------------------
(* Steps of the outbox and of the ledger *)

LEMMA OutboxStep ==
  ASSUME TypeOK, [Next]_vars
  PROVE  /\ OutboxKept
         /\ Payments \subseteq Payments'
         /\ \A i \in DOMAIN outbox : i \in Payments' => i \in Payments
         /\ outbox' = outbox \/ Record \/ \E c \in Calls : Finish(c)
<1> USE DEF phone, network, server
<1>1. outbox' = outbox \/ Record \/ \E c \in Calls : Finish(c)
  BY DEF Next, vars, Enrol, ReadBootstrap, InstallBootstrap, StartOffline, StartSync,
     FinishFailed, LoseAnswer, Post, Refuse, LoseRequest, Disconnect, Move, Kill
<1>2. OutboxKept
  <2>1. CASE outbox' = outbox
    BY <2>1 DEF OutboxKept
  <2>2. CASE Record
    BY <2>2, RecordShape, AppendKeepsOutbox
  <2>3. CASE \E c \in Calls : Finish(c)
    BY <2>3, FinishKeepsOutbox
  <2> QED
    BY <1>1, <2>1, <2>2, <2>3
<1> QED
  BY <1>1, <1>2 DEF OutboxKept, Payments

LEMMA LedgerStep ==
  ASSUME TypeOK, [Next]_vars
  PROVE  \/ ledger' = ledger /\ last' = last
         \/ \E r \in requests : Post(r)
  BY DEF Next, vars, phone, network, server, Record, RecordPayment, PrintReceipt,
     SubmitReconciliation, AppendOperation, Enrol, ReadBootstrap, InstallBootstrap,
     StartOffline, StartSync, Finish, FinishFailed, LoseAnswer, Refuse, LoseRequest,
     Disconnect, Move, Kill

(* A posting touches the ledger of one device. *)
LEMMA PostShape ==
  ASSUME TypeOK, NEW r \in requests, Post(r)
  PROVE  /\ r.device \in Devices
         /\ ledger'[r.device] = ledger[r.device] \cup r.operations
         /\ last'[r.device] = last[r.device] + Cardinality(New(r.device, r.operations))
         /\ \A d \in Devices \ {r.device} : ledger'[d] = ledger[d] /\ last'[d] = last[d]
         /\ outbox' = outbox
  BY DEF Post, TypeOK, Requests, phone

LEMMA PostedGrows ==
  ASSUME TypeOK, [Next]_vars
  PROVE  Posted \subseteq Posted'
<1>1. \A d \in Devices : ledger[d] \subseteq ledger'[d]
  BY LedgerStep, PostShape
<1> QED
  BY <1>1 DEF Posted

LEMMA PhoneStep ==
  ASSUME TypeOK, PhoneConsistent, [Next]_vars
  PROVE  PhoneConsistent'
<1> USE DEF phone, network, server
<1>1. (snapshot # {} \/ phase # "login" => device # 0)'
  <2>1. CASE Enrol
    BY <2>1 DEF Enrol, TypeOK
  <2>2. CASE ReadBootstrap \/ InstallBootstrap \/ StartOffline \/ Kill
    BY <2>2 DEF ReadBootstrap, InstallBootstrap, StartOffline, Kill, PhoneConsistent
  <2>3. CASE UNCHANGED <<snapshot, phase, device>>
    BY <2>3 DEF PhoneConsistent
  <2>4. \/ Enrol \/ ReadBootstrap \/ InstallBootstrap \/ StartOffline \/ Kill
        \/ UNCHANGED <<snapshot, phase, device>>
    BY DEF Next, vars, Record, RecordPayment, PrintReceipt, SubmitReconciliation,
       AppendOperation, StartSync, Finish, FinishFailed, LoseAnswer, Post, Refuse,
       LoseRequest, Disconnect, Move
  <2> QED
    BY <2>1, <2>2, <2>3, <2>4
<1>2. ASSUME NEW i \in Payments' PROVE \E a \in Assignments : outbox'[i].pays = {a}
  <2>1. CASE i \in DOMAIN outbox
    <3>1. i \in Payments /\ outbox'[i].pays = outbox[i].pays
      BY <2>1, OutboxStep DEF OutboxKept
    <3> QED
      BY <3>1 DEF PhoneConsistent
  <2>2. CASE i \notin DOMAIN outbox
    <3>1. i \in DOMAIN outbox' /\ outbox'[i].pays # {}
      BY DEF Payments
    <3>2. Record
      BY <2>2, <3>1, OutboxStep, FinishKeepsOutbox
    <3>3. PICK operation \in Operations :
            /\ AppendOperation(operation)
            /\ operation.pays = {} \/ \E a \in Assignments : operation.pays = {a}
      BY <3>2, RecordShape
    <3>4. i = Len(outbox) + 1 /\ outbox'[i] = operation
      BY <2>2, <3>1, <3>3, AppendKeepsOutbox
    <3> QED
      BY <3>1, <3>3, <3>4
  <2> QED
    BY <2>1, <2>2
<1> QED
  BY <1>1, <1>2 DEF PhoneConsistent

(* The ledger of each device holds payments. *)
LEMMA LedgerPaymentsStep ==
  ASSUME TypeOK, NetworkConsistent, [Next]_vars,
         \A d \in Devices : ledger[d] \subseteq Payments
  PROVE  \A d \in Devices : ledger'[d] \subseteq Payments'
<1>1. Payments \subseteq Payments'
  BY OutboxStep
<1>2. \A r \in requests : r.operations \subseteq Payments
  BY DEF NetworkConsistent
<1> QED
  BY <1>1, <1>2, LedgerStep, PostShape

LEMMA ContiguousStep ==
  ASSUME TypeOK, NetworkConsistent, LedgerContiguous, [Next]_vars
  PROVE  LedgerContiguous'
<1>1. CASE ledger' = ledger /\ last' = last
  BY <1>1 DEF LedgerContiguous
<1>2. ASSUME NEW r \in requests, Post(r) PROVE LedgerContiguous'
  <2> DEFINE d == r.device
             k == Cardinality(New(d, r.operations))
  <2>1. New(d, r.operations) = (last[d] + 1)..(last[d] + k)
    BY <1>2 DEF Post, Accepts, InOrder
  <2>2. k \in Nat /\ d \in Devices /\ last[d] \in Nat
    BY NewType DEF TypeOK
  <2>3. ledger'[d] = ledger[d] \cup New(d, r.operations)
    BY <1>2, PostShape DEF New
  <2>4. ledger[d] = 1..last[d] /\ last'[d] = last[d] + k
    BY <1>2, <2>2, PostShape DEF LedgerContiguous
  <2> HIDE DEF k
  <2>5. (1..last[d]) \cup ((last[d] + 1)..(last[d] + k)) = 1..(last[d] + k)
    BY <2>2
  <2>6. ledger'[d] = 1..last'[d]
    BY <2>1, <2>3, <2>4, <2>5
  <2> QED
    BY <1>2, <2>6, PostShape DEF LedgerContiguous
<1> QED
  BY <1>1, <1>2, LedgerStep

LEMMA PostedOnceStep ==
  ASSUME TypeOK, PhoneConsistent, NetworkConsistent, PostedOnce, [Next]_vars,
         \A d \in Devices : ledger[d] \subseteq Payments
  PROVE  PostedOnce'
<1>1. CASE ledger' = ledger
  <2>1. \A d \in Devices : \A i \in ledger[d] : outbox'[i].pays = outbox[i].pays
    BY OutboxStep DEF OutboxKept, Payments
  <2> QED
    BY <1>1, <2>1 DEF PostedOnce
<1>2. ASSUME NEW r \in requests, Post(r) PROVE PostedOnce'
  <2> DEFINE new == New(r.device, r.operations)
  <2>1. \A i \in new : \E a \in Payable : outbox[i].pays = {a}
    <3>1. \A i \in new : \E a \in Assignments : outbox[i].pays = {a}
      BY DEF New, NetworkConsistent, PhoneConsistent
    <3>2. \A i \in new : outbox[i].pays \subseteq Payable
      BY <1>2 DEF Post, Accepts, Collectable
    <3> QED
      BY <3>1, <3>2
  <2>2. \A i \in new, j \in Posted : outbox[i].pays # outbox[j].pays
    BY <2>1 DEF Payable
  <2>3. \A i, j \in new : i # j => outbox[i].pays # outbox[j].pays
    BY <1>2 DEF Post, Accepts, Collectable
  <2>4. \A d \in Devices : \A i \in ledger'[d] :
          (i \in ledger[d] /\ i \in Posted) \/ (d = r.device /\ i \in new)
    BY <1>2, PostShape DEF New, Posted
  <2> SUFFICES ASSUME NEW d \in Devices, NEW e \in Devices,
                      NEW i \in ledger'[d], NEW j \in ledger'[e], <<d, i>> # <<e, j>>
               PROVE  outbox[i].pays # outbox[j].pays
    BY <1>2, PostShape DEF PostedOnce
  <2>5. CASE i \in ledger[d] /\ j \in ledger[e]
    BY <2>5 DEF PostedOnce
  <2>6. CASE (i \in new /\ j \in Posted) \/ (j \in new /\ i \in Posted)
    BY <2>2, <2>6
  <2>7. CASE d = r.device /\ e = r.device /\ i \in new /\ j \in new
    BY <2>3, <2>7
  <2> QED
    BY <2>4, <2>5, <2>6, <2>7
<1> QED
  BY <1>1, <1>2, LedgerStep

LEMMA AcceptedStep ==
  ASSUME TypeOK, NetworkConsistent, AcceptedIsPosted, [Next]_vars
  PROVE  AcceptedIsPosted'
<1> SUFFICES ASSUME NEW i \in Payments', outbox'[i].status = "accepted"
             PROVE  i \in Posted
  BY PostedGrows DEF AcceptedIsPosted
<1>1. CASE outbox' = outbox
  BY <1>1 DEF AcceptedIsPosted, Payments
<1>2. CASE Record
  <2>1. PICK operation \in Operations :
          AppendOperation(operation) /\ operation.status = "pending"
    BY <1>2, RecordShape
  <2>2. i \in DOMAIN outbox /\ outbox'[i] = outbox[i]
    BY <2>1, AppendKeepsOutbox DEF Payments
  <2> QED
    BY <2>2, OutboxStep DEF AcceptedIsPosted
<1>3. ASSUME NEW c \in Calls, Finish(c) PROVE i \in Posted
  <2>1. batch[c] \subseteq Posted
    BY <1>3 DEF Finish, NetworkConsistent
  <2>2. /\ i \in DOMAIN outbox
        /\ outbox'[i] = IF i \in batch[c] THEN Accepted(outbox[i]) ELSE outbox[i]
    BY <1>3, FinishKeepsOutbox DEF Payments
  <2> QED
    BY <2>1, <2>2, OutboxStep DEF AcceptedIsPosted
<1> QED
  BY <1>1, <1>2, <1>3, OutboxStep

-----------------------------------------------------------------------------
(* The network *)

LEMMA QuietNetwork ==
  ASSUME TypeOK, NetworkConsistent, [Next]_vars, UNCHANGED <<pc, batch, requests>>
  PROVE  NetworkConsistent'
<1>1. /\ Payments \subseteq Payments' /\ DOMAIN outbox \subseteq DOMAIN outbox'
      /\ Posted \subseteq Posted'
  BY OutboxStep, PostedGrows DEF OutboxKept
<1> QED
  BY <1>1 DEF NetworkConsistent

(* A call ends, which no request awaits. *)
LEMMA CallLeaves ==
  ASSUME TypeOK, NetworkConsistent, [Next]_vars, NEW c \in Calls, pc[c] # "pushing",
         pc'[c] # "answered", batch'[c] \subseteq batch[c], requests' = requests,
         \A q \in Calls \ {c} : pc'[q] = pc[q] /\ batch'[q] = batch[q]
  PROVE  NetworkConsistent'
<1>1. /\ Payments \subseteq Payments' /\ DOMAIN outbox \subseteq DOMAIN outbox'
      /\ Posted \subseteq Posted'
  BY OutboxStep, PostedGrows DEF OutboxKept
<1>2. \A r \in requests : r.call \in (Calls \ {c}) \cup {Nobody}
  BY DEF NetworkConsistent, TypeOK, Requests
<1> QED
  BY <1>1, <1>2 DEF NetworkConsistent

(* A request is answered or given up; what may be left of it awaits nobody. *)
LEMMA ReplyNetwork ==
  ASSUME TypeOK, NetworkConsistent, [Next]_vars, NEW r \in requests,
         NEW step \in {"answered", "failing"}, Reply(r, step), batch' = batch,
         step = "answered" => r.operations \subseteq Posted',
         \A s \in requests' : \/ s \in requests \ {r}
                              \/ s.call = Nobody /\ s.operations = r.operations
  PROVE  NetworkConsistent'
<1>1. /\ Payments \subseteq Payments' /\ DOMAIN outbox \subseteq DOMAIN outbox'
      /\ Posted \subseteq Posted'
  BY OutboxStep, PostedGrows DEF OutboxKept
<1>2. \A c \in Calls : pc'[c] = IF c = r.call THEN step ELSE pc[c]
  BY ReplyType
<1>3. ASSUME NEW s \in requests'
      PROVE  /\ s.operations \subseteq Payments'
             /\ s.call # Nobody => pc'[s.call] = "pushing" /\ batch'[s.call] = s.operations
  <2>1. CASE s.call = Nobody
    BY <1>1, <2>1 DEF NetworkConsistent
  <2>2. CASE s.call # Nobody
    <3>1. s \in requests /\ s # r /\ s.call # r.call /\ s.call \in Calls
      BY <2>2 DEF NetworkConsistent, TypeOK, Requests
    <3> QED
      BY <1>1, <1>2, <3>1 DEF NetworkConsistent
  <2> QED
    BY <2>1, <2>2
<1>4. \A s, u \in requests' : s.call = u.call /\ s.call # Nobody => s = u
  BY DEF NetworkConsistent
<1>5. ASSUME NEW c \in Calls
      PROVE  /\ batch'[c] \subseteq DOMAIN outbox'
             /\ pc'[c] = "answered" => batch'[c] \subseteq Posted'
  BY <1>1, <1>2, SyncAssumption DEF NetworkConsistent
<1> QED
  BY <1>3, <1>4, <1>5 DEF NetworkConsistent

LEMMA StartNetwork ==
  ASSUME TypeOK, NetworkConsistent, [Next]_vars, NEW c \in Calls, StartSync(c)
  PROVE  NetworkConsistent'
<1>1. /\ Payments' = Payments /\ Posted' = Posted /\ outbox' = outbox
      /\ batch' = [batch EXCEPT ![c] = ReadyOperations] /\ pc[c] = "idle"
  BY DEF StartSync, phone, server, Payments, Posted
<1>2. ReadyOperations \subseteq DOMAIN outbox
  BY DEF ReadyOperations, AllReady, Pending
<1>3. \A r \in requests : r.call # c
  BY <1>1, SyncAssumption DEF NetworkConsistent
<1>4. CASE /\ ReadyOperations \subseteq Payments
           /\ pc' = [pc EXCEPT ![c] = "pushing"]
           /\ requests' = requests \cup
                {[call |-> c, device |-> device, operations |-> ReadyOperations]}
  <2> DEFINE new == [call |-> c, device |-> device, operations |-> ReadyOperations]
  <2>1. new.call = c /\ new.operations = ReadyOperations /\ c # Nobody
    BY SyncAssumption
  <2>2. \A r \in requests' : r \in requests \/ r = new
    BY <1>4
  <2> HIDE DEF new
  <2>3. pc'[c] = "pushing" /\ batch'[c] = ReadyOperations
    BY <1>1, <1>4 DEF TypeOK
  <2>4. \A q \in Calls \ {c} : pc'[q] = pc[q] /\ batch'[q] = batch[q]
    BY <1>1, <1>4 DEF TypeOK
  <2>5. \A r \in requests : r.call \in Calls \cup {Nobody}
    BY DEF TypeOK, Requests
  <2> QED
    BY <1>1, <1>2, <1>3, <1>4, <2>1, <2>2, <2>3, <2>4, <2>5 DEF NetworkConsistent
<1>5. CASE pc' = [pc EXCEPT ![c] = "failing"] /\ UNCHANGED requests
  <2>1. /\ pc'[c] = "failing" /\ batch'[c] = ReadyOperations
        /\ \A q \in Calls \ {c} : pc'[q] = pc[q] /\ batch'[q] = batch[q]
    BY <1>1, <1>5 DEF TypeOK
  <2>2. \A r \in requests : r.call \in Calls \cup {Nobody}
    BY DEF TypeOK, Requests
  <2> QED
    BY <1>1, <1>2, <1>3, <1>5, <2>1, <2>2 DEF NetworkConsistent
<1> QED
  BY <1>4, <1>5 DEF StartSync

LEMMA NetworkStep ==
  ASSUME TypeOK, NetworkConsistent, [Next]_vars
  PROVE  NetworkConsistent'
<1> USE DEF phone, network, server
<1>1. ASSUME NEW c \in Calls, StartSync(c) PROVE NetworkConsistent'
  BY <1>1, StartNetwork
<1>2. ASSUME NEW c \in Calls, Finish(c) \/ FinishFailed(c) \/ LoseAnswer(c)
      PROVE  NetworkConsistent'
  <2>1. /\ pc[c] # "pushing" /\ pc'[c] # "answered" /\ requests' = requests
        /\ batch'[c] \subseteq batch[c]
        /\ \A q \in Calls \ {c} : pc'[q] = pc[q] /\ batch'[q] = batch[q]
    BY <1>2 DEF Finish, FinishFailed, LoseAnswer, TypeOK
  <2> QED
    BY <2>1, CallLeaves
<1>3. ASSUME NEW r \in requests, Post(r) PROVE NetworkConsistent'
  <2>1. r.operations \subseteq Posted'
    BY <1>3, PostShape DEF Posted
  <2>2. Reply(r, "answered") /\ batch' = batch /\ requests' = requests \ {r}
    BY <1>3 DEF Post
  <2> QED
    BY <2>1, <2>2, ReplyNetwork
<1>4. ASSUME NEW r \in requests, Refuse(r) \/ LoseRequest(r) PROVE NetworkConsistent'
  <2>1. Reply(r, "failing") /\ batch' = batch /\ requests' = requests \ {r}
    BY <1>4 DEF Refuse, LoseRequest
  <2> QED
    BY <2>1, ReplyNetwork
<1>5. ASSUME NEW r \in requests, Disconnect(r) PROVE NetworkConsistent'
  <2> DEFINE rest == [call |-> Nobody, device |-> r.device, operations |-> r.operations]
  <2>1. Reply(r, "failing") /\ batch' = batch /\ requests' = (requests \ {r}) \cup {rest}
    BY <1>5 DEF Disconnect
  <2>2. rest.call = Nobody /\ rest.operations = r.operations
    OBVIOUS
  <2> HIDE DEF rest
  <2> QED
    BY <2>1, <2>2, ReplyNetwork
<1>6. CASE Kill
  <2>1. /\ Payments' = Payments /\ Posted' = Posted /\ outbox' = outbox
        /\ \A c \in Calls : pc'[c] = "idle" /\ batch'[c] = {}
    BY <1>6 DEF Kill, Payments, Posted
  <2>2. \A s \in requests' : s.call = Nobody /\ \E r \in requests : s.operations = r.operations
    BY <1>6 DEF Kill
  <2> QED
    BY <2>1, <2>2 DEF NetworkConsistent
<1>7. CASE UNCHANGED <<pc, batch, requests>>
  BY <1>7, QuietNetwork
<1>8. \/ \E c \in Calls : StartSync(c) \/ Finish(c) \/ FinishFailed(c) \/ LoseAnswer(c)
      \/ \E r \in requests : Post(r) \/ Refuse(r) \/ LoseRequest(r) \/ Disconnect(r)
      \/ Kill
      \/ UNCHANGED <<pc, batch, requests>>
  BY DEF Next, vars, Record, RecordPayment, PrintReceipt, SubmitReconciliation,
     AppendOperation, Enrol, ReadBootstrap, InstallBootstrap, StartOffline, Move
<1> QED
  BY <1>1, <1>2, <1>3, <1>4, <1>5, <1>6, <1>7, <1>8

-----------------------------------------------------------------------------
(* Theorems *)

LEMMA SyncInit == Init => SyncInvariant
  BY DEF Init, SyncInvariant, PhoneConsistent, NetworkConsistent, LedgerContiguous,
     PostedOnce, AcceptedIsPosted, Payments, Posted

(* Whatever calls overlap and messages are late, the server's ledger holds
   payments of the phone in order, and an answer is about what it holds. *)
THEOREM Synchronisation == Spec => [](TypeOK /\ SyncInvariant)
<1>1. Init => TypeOK /\ SyncInvariant
  BY TypeInit, SyncInit
<1>2. TypeOK /\ SyncInvariant /\ [Next]_vars => (TypeOK /\ SyncInvariant)'
  <2> SUFFICES ASSUME TypeOK, SyncInvariant, [Next]_vars
               PROVE  (TypeOK /\ SyncInvariant)'
    OBVIOUS
  <2> USE DEF SyncInvariant
  <2>1. TypeOK'
    BY TypeStep
  <2>2. PhoneConsistent' /\ NetworkConsistent'
    BY PhoneStep, NetworkStep
  <2>3. (\A d \in Devices : ledger[d] \subseteq Payments)'
    BY LedgerPaymentsStep
  <2>4. LedgerContiguous' /\ PostedOnce' /\ AcceptedIsPosted'
    BY ContiguousStep, PostedOnceStep, AcceptedStep
  <2> QED
    BY <2>1, <2>2, <2>3, <2>4
<1> QED
  BY <1>1, <1>2, PTL DEF Spec

(* Every variable keeps its type, with any number of calls and enrolments. *)
THEOREM TypeCorrect == Spec => []TypeOK
  BY Synchronisation, PTL

(* last_sequence is the number of a device's operations, which are the first. *)
THEOREM LedgersHaveNoGap == Spec => []LedgerContiguous
<1>1. SyncInvariant => LedgerContiguous
  BY DEF SyncInvariant
<1> QED
  BY <1>1, Synchronisation, PTL

(* No assignment is collected twice. *)
THEOREM NothingPostedTwice == Spec => []PostedOnce
<1>1. SyncInvariant => PostedOnce
  BY DEF SyncInvariant
<1> QED
  BY <1>1, Synchronisation, PTL

(* What the phone shows as accepted is on the server. *)
THEOREM AcceptanceIsTrue == Spec => []AcceptedIsPosted
<1>1. SyncInvariant => AcceptedIsPosted
  BY DEF SyncInvariant
<1> QED
  BY <1>1, Synchronisation, PTL

(* The phone's operations stay what they are, and accepted ones accepted. *)
THEOREM EvidenceIsKept == Spec => EvidenceKept
<1>1. TypeOK /\ TypeOK' /\ [Next]_vars =>
        [/\ Len(outbox) <= Len(outbox')
         /\ \A i \in DOMAIN outbox :
              /\ outbox'[i].pays = outbox[i].pays /\ outbox'[i].needs = outbox[i].needs
              /\ outbox[i].status = "accepted" => outbox'[i].status = "accepted"]_outbox
  <2> SUFFICES ASSUME TypeOK, TypeOK', [Next]_vars, outbox' # outbox
               PROVE  /\ Len(outbox) <= Len(outbox')
                      /\ \A i \in DOMAIN outbox :
                           /\ outbox'[i].pays = outbox[i].pays
                           /\ outbox'[i].needs = outbox[i].needs
                           /\ outbox[i].status = "accepted" => outbox'[i].status = "accepted"
    OBVIOUS
  <2>1. 1..Len(outbox) \subseteq 1..Len(outbox') /\ Len(outbox) \in Nat /\ Len(outbox') \in Nat
    BY OutboxStep, OutboxType DEF OutboxKept, TypeOK
  <2>2. Len(outbox) <= Len(outbox')
    BY <2>1
  <2>3. CASE Record
    BY <2>2, <2>3, OutboxStep, RecordShape, AppendKeepsOutbox DEF OutboxKept
  <2>4. ASSUME NEW c \in Calls, Finish(c), NEW i \in DOMAIN outbox,
               outbox[i].status = "accepted"
        PROVE  outbox'[i].status = "accepted"
    BY <2>4, FinishStatus
  <2> QED
    BY <2>2, <2>3, <2>4, OutboxStep DEF OutboxKept
<1> QED
  BY <1>1, TypeCorrect, PTL DEF Spec, EvidenceKept

-----------------------------------------------------------------------------
(* What the phone sends continues the sequence of its device *)

PaymentsNeedNothing == \A i \in Payments : outbox[i].needs = {}

(* Only enrolled devices send and have a ledger. *)
DevicesEnrolled ==
  /\ device <= enrolled
  /\ \A r \in requests : r.device <= enrolled
  /\ \A d \in Devices : d > enrolled => ledger[d] = {}

IsAccepted(i) == outbox[i].status = "accepted"

(* Whatever comes before an accepted operation is accepted, before one of a batch is in the
   batch or accepted, and before one of a request is in the request or posted. *)
InSequence ==
  /\ \A i \in DOMAIN outbox : IsAccepted(i) => \A j \in 1..i : IsAccepted(j)
  /\ \A c \in Calls : \A i \in batch[c] : \A j \in 1..i : j \in batch[c] \/ IsAccepted(j)
  /\ \A r \in requests :
       /\ Contiguous(r.operations)
       /\ \A i \in r.operations : \A j \in 1..i : j \in r.operations \/ j \in Posted

SequenceInvariant == PaymentsNeedNothing /\ DevicesEnrolled /\ (Undisturbed => InSequence)

(* The oldest of the pending payments are sent. *)
LEMMA ReadyInSequence ==
  ASSUME TypeOK, SequenceInvariant, Undisturbed
  PROVE  /\ \A i \in ReadyOperations : \A j \in 1..i : j \in ReadyOperations \/ IsAccepted(j)
         /\ Contiguous(ReadyOperations)
<1>1. /\ DOMAIN outbox = 1..Len(outbox) /\ Len(outbox) \in Nat
      /\ \A i \in DOMAIN outbox : i \in Pending <=> ~ IsAccepted(i)
  BY OutboxType DEF Operations, Pending, IsAccepted
<1>2. AllReady = Pending /\ Pending \subseteq DOMAIN outbox
  BY DEF AllReady, SequenceInvariant, Undisturbed, PaymentsNeedNothing, Pending
<1>3. ASSUME NEW i \in ReadyOperations, NEW j \in AllReady, j <= i PROVE j \in ReadyOperations
  <2>1. i \in AllReady /\ Cardinality({k \in AllReady : k <= i}) <= BatchSize
    BY DEF ReadyOperations
  <2>2. i \in Nat /\ j \in Nat /\ \A k \in AllReady : k \in Nat
    BY <1>1, <1>2, <2>1
  <2>3. IsFiniteSet({k \in AllReady : k <= i})
    <3>1. IsFiniteSet(1..Len(outbox)) /\ {k \in AllReady : k <= i} \subseteq 1..Len(outbox)
      BY <1>1, <1>2, FS_Interval
    <3> QED
      BY <3>1, FS_Subset
  <2>4. {k \in AllReady : k <= j} \subseteq {k \in AllReady : k <= i}
    <3>1. \A k \in AllReady : k <= j => k <= i
      BY <1>3, <2>2
    <3> QED
      BY <3>1
  <2>5. /\ Cardinality({k \in AllReady : k <= j}) <= Cardinality({k \in AllReady : k <= i})
        /\ Cardinality({k \in AllReady : k <= j}) \in Nat
        /\ Cardinality({k \in AllReady : k <= i}) \in Nat
    BY <2>3, <2>4, FS_Subset, FS_CardinalityType
  <2>6. Cardinality({k \in AllReady : k <= j}) <= BatchSize
    BY <2>1, <2>5, SyncAssumption
  <2> QED
    BY <2>6 DEF ReadyOperations
<1>4. ReadyOperations \subseteq AllReady
  BY DEF ReadyOperations
<1>5. ASSUME NEW i \in ReadyOperations, NEW j \in 1..i, ~ IsAccepted(j)
      PROVE  j \in ReadyOperations
  <2>1. j \in DOMAIN outbox /\ j <= i
    BY <1>1, <1>2, <1>4
  <2> QED
    BY <1>1, <1>2, <1>3, <1>5, <2>1
<1>6. ASSUME NEW i \in ReadyOperations, NEW j \in ReadyOperations, NEW k \in i..j
      PROVE  k \in ReadyOperations
  <2>1. i \in DOMAIN outbox /\ j \in DOMAIN outbox /\ ~ IsAccepted(i)
    BY <1>1, <1>2, <1>4
  <2>2. k \in DOMAIN outbox /\ i \in 1..k /\ k \in 1..j
    BY <1>1, <2>1
  <2>3. ~ IsAccepted(k)
    BY <2>1, <2>2 DEF SequenceInvariant, InSequence
  <2> QED
    BY <1>5, <2>2, <2>3
<1> QED
  BY <1>5, <1>6 DEF Contiguous

(* What was undisturbed after a step was so before it. *)
LEMMA UndisturbedBefore ==
  ASSUME TypeOK, [Next]_vars
  PROVE  (Undisturbed' => Undisturbed) /\ enrolled <= enrolled'
<1>1. enrolled' = enrolled \/ enrolled' = enrolled + 1
  BY DEF Next, vars, phone, network, server, Record, RecordPayment, PrintReceipt,
     SubmitReconciliation, AppendOperation, Enrol, ReadBootstrap, InstallBootstrap,
     StartOffline, StartSync, Finish, FinishFailed, LoseAnswer, Post, Refuse, LoseRequest,
     Disconnect, Move, Kill
<1>2. enrolled \in Nat
  BY DEF TypeOK
<1>3. Payments' = DOMAIN outbox' => Payments = DOMAIN outbox
  BY OutboxStep DEF OutboxKept, Payments
<1> QED
  BY <1>1, <1>2, <1>3 DEF Undisturbed

LEMMA NeedNothingStep ==
  ASSUME TypeOK, PaymentsNeedNothing, [Next]_vars
  PROVE  PaymentsNeedNothing'
<1> SUFFICES ASSUME NEW i \in Payments' PROVE outbox'[i].needs = {}
  BY DEF PaymentsNeedNothing
<1>1. CASE i \in DOMAIN outbox
  BY <1>1, OutboxStep DEF PaymentsNeedNothing, OutboxKept
<1>2. CASE i \notin DOMAIN outbox
  <2>1. i \in DOMAIN outbox' /\ outbox'[i].pays # {}
    BY DEF Payments
  <2>2. Record
    BY <1>2, <2>1, OutboxStep, FinishKeepsOutbox
  <2>3. PICK operation \in Operations :
          /\ AppendOperation(operation)
          /\ operation.pays = {} \/ operation.needs = {}
    BY <2>2, RecordNeeds
  <2>4. outbox'[i] = operation
    BY <1>2, <2>1, <2>3, AppendKeepsOutbox
  <2> QED
    BY <2>1, <2>3, <2>4
<1> QED
  BY <1>1, <1>2

(* Where requests and batches come from. *)
LEMMA Origins ==
  ASSUME TypeOK, [Next]_vars
  PROVE  /\ \A c \in Calls : batch'[c] = batch[c] \/ batch'[c] = {}
                             \/ (StartSync(c) /\ batch'[c] = ReadyOperations)
         /\ \A s \in requests' :
              \/ \E r \in requests : s.device = r.device /\ s.operations = r.operations
              \/ \E c \in Calls : StartSync(c) /\ s.device = device
                                  /\ s.operations = ReadyOperations
<1> USE DEF phone, network, server
<1>1. ASSUME NEW c \in Calls, StartSync(c)
      PROVE  /\ \A q \in Calls : batch'[q] = IF q = c THEN ReadyOperations ELSE batch[q]
             /\ requests' \subseteq
                  requests \cup {[call |-> c, device |-> device, operations |-> ReadyOperations]}
  BY <1>1 DEF StartSync, TypeOK
<1>2. ASSUME NEW c \in Calls, Finish(c) \/ FinishFailed(c) \/ LoseAnswer(c)
      PROVE  /\ \A q \in Calls : batch'[q] = batch[q] \/ batch'[q] = {}
             /\ requests' = requests
  BY <1>2 DEF Finish, FinishFailed, LoseAnswer, TypeOK
<1>3. ASSUME NEW r \in requests, Post(r) \/ Refuse(r) \/ LoseRequest(r)
      PROVE  batch' = batch /\ requests' \subseteq requests
  BY <1>3 DEF Post, Refuse, LoseRequest
<1>4. ASSUME NEW r \in requests, Disconnect(r)
      PROVE  /\ batch' = batch
             /\ requests' \subseteq requests \cup
                  {[call |-> Nobody, device |-> r.device, operations |-> r.operations]}
  BY <1>4 DEF Disconnect
<1>5. CASE Kill
  <2>1. \A c \in Calls : batch'[c] = {}
    BY <1>5 DEF Kill
  <2>2. requests' = {[call |-> Nobody, device |-> r.device, operations |-> r.operations] :
                       r \in requests}
    BY <1>5 DEF Kill
  <2> QED
    BY <2>1, <2>2
<1>6. CASE batch' = batch /\ requests' = requests
  BY <1>6
<1>7. \/ \E c \in Calls : StartSync(c) \/ Finish(c) \/ FinishFailed(c) \/ LoseAnswer(c)
      \/ \E r \in requests : Post(r) \/ Refuse(r) \/ LoseRequest(r) \/ Disconnect(r)
      \/ Kill
      \/ batch' = batch /\ requests' = requests
  BY DEF Next, vars, Record, RecordPayment, PrintReceipt, SubmitReconciliation,
     AppendOperation, Enrol, ReadBootstrap, InstallBootstrap, StartOffline, Move
<1>8. ASSUME NEW c \in Calls, StartSync(c)
      PROVE  \A s \in requests' :
               \/ \E r \in requests : s.device = r.device /\ s.operations = r.operations
               \/ s.device = device /\ s.operations = ReadyOperations
  BY <1>1, <1>8
<1>9. ASSUME NEW c \in Calls, StartSync(c)
      PROVE  /\ \A q \in Calls : batch'[q] = batch[q] \/ batch'[q] = {}
                                 \/ (StartSync(q) /\ batch'[q] = ReadyOperations)
             /\ \A s \in requests' :
                  \/ \E r \in requests : s.device = r.device /\ s.operations = r.operations
                  \/ \E q \in Calls : StartSync(q) /\ s.device = device
                                      /\ s.operations = ReadyOperations
  BY <1>1, <1>8, <1>9
<1>10. ASSUME NEW r \in requests, Disconnect(r)
       PROVE  \A s \in requests' : \E q \in requests : s.device = q.device /\ s.operations = q.operations
  BY <1>4, <1>10
<1> QED
  BY <1>2, <1>3, <1>4, <1>5, <1>6, <1>7, <1>9, <1>10

LEMMA EnrolledStep ==
  ASSUME TypeOK, DevicesEnrolled, [Next]_vars
  PROVE  DevicesEnrolled'
<1> USE DEF phone, network, server
<1>0. enrolled \in Nat /\ enrolled' \in Nat /\ enrolled <= enrolled' /\ device \in Nat
      /\ \A r \in requests : r.device \in Nat
  <2>1. enrolled' = enrolled \/ enrolled' = enrolled + 1
    BY DEF Next, vars, Record, RecordPayment, PrintReceipt,
       SubmitReconciliation, AppendOperation, Enrol, ReadBootstrap, InstallBootstrap,
       StartOffline, StartSync, Finish, FinishFailed, LoseAnswer, Post, Refuse, LoseRequest,
       Disconnect, Move, Kill
  <2> QED
    BY <2>1 DEF TypeOK, Requests, Devices
<1>1. device' <= enrolled'
  <2>1. device' = device \/ device' = 0 \/ (Enrol /\ device' = enrolled')
    BY DEF Next, vars, Record, RecordPayment, PrintReceipt,
       SubmitReconciliation, AppendOperation, Enrol, ReadBootstrap, InstallBootstrap,
       StartOffline, StartSync, Finish, FinishFailed, LoseAnswer, Post, Refuse, LoseRequest,
       Disconnect, Move, Kill
  <2> QED
    BY <1>0, <2>1 DEF DevicesEnrolled
<1>2. \A s \in requests' : s.device <= enrolled'
  <2>1. \A s \in requests' : s.device = device \/ \E r \in requests : s.device = r.device
    BY Origins
  <2>2. device <= enrolled /\ \A r \in requests : r.device <= enrolled
    BY DEF DevicesEnrolled
  <2> QED
    BY <1>0, <2>1, <2>2
<1>3. ASSUME NEW d \in Devices, d > enrolled' PROVE ledger'[d] = {}
  <2>1. d > enrolled
    BY <1>0, <1>3 DEF Devices
  <2>2. \A r \in requests : r.device # d
    BY <1>0, <2>1 DEF DevicesEnrolled, Devices
  <2>3. ledger'[d] = ledger[d]
    BY <2>2, LedgerStep, PostShape
  <2> QED
    BY <2>1, <2>3 DEF DevicesEnrolled
<1> QED
  BY <1>1, <1>2, <1>3 DEF DevicesEnrolled

(* Accepted operations stay accepted, and what a step accepts is in the batch of a call. *)
LEMMA AcceptedSteps ==
  ASSUME TypeOK, [Next]_vars
  PROVE  /\ \A i \in DOMAIN outbox : IsAccepted(i) => IsAccepted(i)'
         /\ \/ \A i \in DOMAIN outbox' : IsAccepted(i)' => i \in DOMAIN outbox /\ IsAccepted(i)
            \/ \E c \in Calls : /\ DOMAIN outbox' = DOMAIN outbox
                                /\ \A i \in DOMAIN outbox :
                                     IsAccepted(i)' <=> IsAccepted(i) \/ i \in batch[c]
<1>1. CASE outbox' = outbox
  BY <1>1 DEF IsAccepted
<1>2. CASE Record
  <2>1. PICK operation \in Operations :
          AppendOperation(operation) /\ operation.status = "pending"
    BY <1>2, RecordShape
  <2> QED
    BY <2>1, AppendKeepsOutbox DEF IsAccepted
<1>3. ASSUME NEW c \in Calls, Finish(c)
      PROVE  /\ DOMAIN outbox' = DOMAIN outbox
             /\ \A i \in DOMAIN outbox : IsAccepted(i)' <=> IsAccepted(i) \/ i \in batch[c]
  BY <1>3, FinishKeepsOutbox, AcceptedStatus DEF IsAccepted
<1> QED
  BY <1>1, <1>2, <1>3, OutboxStep

LEMMA SequenceStep ==
  ASSUME TypeOK, SyncInvariant, SequenceInvariant, [Next]_vars
  PROVE  SequenceInvariant'
<1>1. PaymentsNeedNothing' /\ DevicesEnrolled'
  BY NeedNothingStep, EnrolledStep DEF SequenceInvariant
<1> SUFFICES ASSUME Undisturbed' PROVE InSequence'
  BY <1>1 DEF SequenceInvariant
<1>2. Undisturbed /\ InSequence
  BY UndisturbedBefore DEF SequenceInvariant
<1>3. /\ DOMAIN outbox = 1..Len(outbox) /\ Len(outbox) \in Nat
      /\ DOMAIN outbox \subseteq DOMAIN outbox'
      /\ \A i \in DOMAIN outbox : IsAccepted(i) => IsAccepted(i)'
  BY OutboxType, OutboxStep, AcceptedSteps DEF OutboxKept
<1>4. ASSUME NEW i \in DOMAIN outbox', IsAccepted(i)', NEW j \in 1..i PROVE IsAccepted(j)'
  <2>1. CASE \A k \in DOMAIN outbox' : IsAccepted(k)' => k \in DOMAIN outbox /\ IsAccepted(k)
    <3>1. i \in DOMAIN outbox /\ IsAccepted(i)
      BY <1>4, <2>1
    <3>2. j \in DOMAIN outbox /\ IsAccepted(j)
      BY <1>2, <1>3, <3>1 DEF InSequence
    <3> QED
      BY <1>3, <3>2
  <2>2. ASSUME NEW c \in Calls, DOMAIN outbox' = DOMAIN outbox,
               \A k \in DOMAIN outbox : IsAccepted(k)' <=> IsAccepted(k) \/ k \in batch[c]
        PROVE  IsAccepted(j)'
    <3>1. i \in DOMAIN outbox /\ j \in DOMAIN outbox
      BY <1>3, <2>2
    <3>2. IsAccepted(j) \/ j \in batch[c]
      BY <1>2, <1>4, <2>2, <3>1 DEF InSequence
    <3> QED
      BY <2>2, <3>1, <3>2
  <2> QED
    BY <2>1, <2>2, AcceptedSteps
<1>5. ASSUME NEW c \in Calls, NEW i \in batch'[c], NEW j \in 1..i PROVE j \in batch'[c] \/ IsAccepted(j)'
  <2>1. \/ batch'[c] = batch[c]
        \/ batch'[c] = ReadyOperations
    BY Origins
  <2>2. batch'[c] \subseteq DOMAIN outbox
    BY <2>1 DEF SyncInvariant, NetworkConsistent, ReadyOperations, AllReady, Pending
  <2>3. j \in DOMAIN outbox
    BY <1>3, <2>2
  <2>4. j \in batch'[c] \/ IsAccepted(j)
    BY <1>2, <2>1, ReadyInSequence DEF InSequence
  <2> QED
    BY <1>3, <2>3, <2>4
<1>6. ASSUME NEW s \in requests'
      PROVE  /\ Contiguous(s.operations)
             /\ \A i \in s.operations : \A j \in 1..i : j \in s.operations \/ j \in Posted'
  <2>1. Posted \subseteq Posted'
    BY PostedGrows
  <2>2. ASSUME NEW r \in requests, s.operations = r.operations
        PROVE  /\ Contiguous(s.operations)
               /\ \A i \in s.operations : \A j \in 1..i : j \in s.operations \/ j \in Posted
    BY <1>2, <2>2 DEF InSequence
  <2>3. ASSUME s.operations = ReadyOperations
        PROVE  /\ Contiguous(s.operations)
               /\ \A i \in s.operations : \A j \in 1..i : j \in s.operations \/ j \in Posted
    <3>1. ReadyOperations \subseteq DOMAIN outbox
      BY DEF ReadyOperations, AllReady, Pending
    <3>2. \A j \in DOMAIN outbox : IsAccepted(j) => j \in Posted
      BY <1>2 DEF SyncInvariant, AcceptedIsPosted, Undisturbed, IsAccepted
    <3>3. \A i \in ReadyOperations : \A j \in 1..i : j \in DOMAIN outbox
      BY <1>3, <3>1
    <3> QED
      BY <1>2, <2>3, <3>2, <3>3, ReadyInSequence
  <2> QED
    BY <2>1, <2>2, <2>3, Origins
<1>7. \A s \in requests' : Contiguous(s.operations) = Contiguous(s.operations)'
  BY DEF Contiguous
<1> QED
  BY <1>4, <1>5, <1>6 DEF InSequence, Contiguous

(* Operations without a gap from the end of the ledger on are those next in its order. *)
LEMMA NewInOrder ==
  ASSUME NEW n \in Nat, NEW m \in Nat, NEW N, N \subseteq 1..m,
         \A i \in N : i > n /\ \A j \in 1..i : j > n => j \in N
  PROVE  N = (n + 1)..(n + Cardinality(N))
<1>1. IsFiniteSet(N) /\ Cardinality(N) \in Nat
  <2>1. IsFiniteSet(1..m) /\ N \in SUBSET (1..m)
    BY FS_Interval
  <2>2. IsFiniteSet(N)
    BY <2>1, FS_Subset
  <2> QED
    BY <2>2, FS_CardinalityType
<1>2. ASSUME NEW i \in N PROVE i \in (n + 1)..(n + Cardinality(N))
  <2>1. i \in Nat /\ i > n /\ (n + 1)..i \subseteq N
    OBVIOUS
  <2>2. Cardinality((n + 1)..i) <= Cardinality(N)
    BY <1>1, <2>1, FS_Subset
  <2>3. Cardinality((n + 1)..i) = i - n
    BY <2>1, FS_Interval
  <2> QED
    BY <1>1, <2>1, <2>2, <2>3
<1> DEFINE k == Cardinality(N)
<1>3. Cardinality((n + 1)..(n + k)) = k /\ IsFiniteSet((n + 1)..(n + k))
  <2> HIDE DEF k
  <2>1. k \in Nat
    BY <1>1 DEF k
  <2> QED
    BY <2>1, FS_Interval
<1>4. N \in SUBSET ((n + 1)..(n + k))
  BY <1>2
<1> QED
  BY <1>3, <1>4, FS_Subset

LEMMA SequenceGivesOrder ==
  TypeOK /\ SyncInvariant /\ SequenceInvariant => BatchesFollowLedger
<1> SUFFICES ASSUME TypeOK, SyncInvariant, SequenceInvariant, Undisturbed, NEW r \in requests
             PROVE  Contiguous(r.operations) /\ InOrder(r.device, r.operations)
  BY DEF BatchesFollowLedger
<1>1. InSequence
  BY DEF SequenceInvariant
<1>2. PICK d : d = r.device
  OBVIOUS
<1>3. d \in Devices /\ d \in Nat /\ d >= 1 /\ enrolled \in Nat
  BY <1>2 DEF TypeOK, Requests, Devices
<1>4. d = 1 /\ enrolled = 1
  BY <1>2, <1>3 DEF SequenceInvariant, DevicesEnrolled, Undisturbed
<1>5. Posted = ledger[d]
  <2>1. \A e \in Devices : e # d => ledger[e] = {}
    BY <1>4 DEF SequenceInvariant, DevicesEnrolled, Devices
  <2> QED
    BY <1>3, <2>1 DEF Posted
<1>6. ledger[d] = 1..last[d] /\ last[d] \in Nat
  BY <1>3 DEF SyncInvariant, LedgerContiguous, TypeOK
<1>7. New(d, r.operations) \subseteq 1..Len(outbox) /\ Len(outbox) \in Nat
  BY OutboxType DEF New, SyncInvariant, NetworkConsistent, Payments
<1>8. ASSUME NEW i \in New(d, r.operations)
      PROVE  i > last[d] /\ \A j \in 1..i : j > last[d] => j \in New(d, r.operations)
  <2>1. i \in r.operations /\ i \in Nat /\ i >= 1 /\ i \notin 1..last[d]
    BY <1>6, <1>7 DEF New
  <2>2. i > last[d]
    BY <1>6, <2>1
  <2>3. \A j \in 1..i : j \in r.operations \/ j \in 1..last[d]
    BY <1>1, <1>5, <1>6, <2>1 DEF InSequence
  <2> QED
    BY <1>6, <2>1, <2>2, <2>3 DEF New
<1>9. New(d, r.operations) = (last[d] + 1)..(last[d] + Cardinality(New(d, r.operations)))
  <2>1. PICK N : N = New(d, r.operations)
    OBVIOUS
  <2>2. N = (last[d] + 1)..(last[d] + Cardinality(N))
    BY <1>6, <1>7, <1>8, <2>1, NewInOrder
  <2> QED
    BY <2>1, <2>2
<1> QED
  BY <1>1, <1>2, <1>9 DEF InSequence, InOrder

LEMMA SequenceInit == Init => SequenceInvariant
  BY SyncAssumption DEF Init, SequenceInvariant, PaymentsNeedNothing, DevicesEnrolled,
     InSequence, Payments, Devices

(* While the phone records payments and stays enrolled as it is, every batch it sends continues
   the sequence of its device or repeats it: the server never finds a gap (push and
   syncCollectOperations). *)
THEOREM BatchesInOrder == Spec => []BatchesFollowLedger
<1>1. TypeOK /\ SyncInvariant /\ SequenceInvariant /\ [Next]_vars => SequenceInvariant'
  BY SequenceStep
<1> QED
  BY <1>1, SequenceInit, SequenceGivesOrder, Synchronisation, PTL DEF Spec

-----------------------------------------------------------------------------
(* The refinement *)

Pairs(operations) == {<<i, outbox[i].pays>> : i \in operations}

LEMMA LedgerStepIsAllowed ==
  TypeOK /\ SyncInvariant /\ TypeOK' /\ SyncInvariant' /\ [Next]_vars
    => [Ledger!Next]_(Ledger!vars)
<1> SUFFICES ASSUME TypeOK, SyncInvariant, TypeOK', SyncInvariant', [Next]_vars
             PROVE  [Ledger!Next]_(Ledger!vars)
  OBVIOUS
<1> DEFINE recorded == Pairs(Payments)
           posted == Pairs(Payments \cap Posted)
           known == Pairs(Payments \ Pending)
<1>1. Posted \subseteq Payments
  BY DEF SyncInvariant, Posted
<1>2. (known \subseteq posted)'
  <2>1. (Payments \ Pending \subseteq Posted)'
    <3>1. AcceptedIsPosted'
      BY DEF SyncInvariant
    <3>2. \A i \in DOMAIN outbox' : outbox'[i] \in Operations
      BY DEF TypeOK
    <3>3. \A operation \in Operations : operation.status \in {"pending", "accepted"}
      BY DEF Operations
    <3> QED
      BY <3>1, <3>2, <3>3 DEF AcceptedIsPosted, Payments, Pending
  <2> QED
    BY <2>1 DEF Pairs
<1>3. CASE outbox' = outbox /\ ledger' = ledger
  BY <1>3 DEF Ledger!vars, Payments, Posted, Pending
<1>4. CASE Record
  <2>1. PICK operation \in Operations :
          AppendOperation(operation) /\ operation.status = "pending"
    BY <1>4, RecordShape
  <2>2. ledger' = ledger /\ Posted' = Posted
    BY <2>1 DEF AppendOperation, server, Posted
  <2>3. /\ DOMAIN outbox' = DOMAIN outbox \cup {Len(outbox) + 1}
        /\ Len(outbox) + 1 \notin DOMAIN outbox
        /\ outbox'[Len(outbox) + 1].status = "pending"
        /\ \A i \in DOMAIN outbox : outbox'[i] = outbox[i]
    BY <2>1, AppendKeepsOutbox
  <2>4. /\ Payments \subseteq Payments'
        /\ (Payments \cap Posted)' = Payments \cap Posted
        /\ (Payments \ Pending)' = Payments \ Pending
    BY <1>1, <2>2, <2>3 DEF Payments, Pending
  <2>5. \A i \in Payments : outbox'[i] = outbox[i]
    BY <2>3 DEF Payments
  <2>6. recorded \subseteq recorded' /\ posted' = posted /\ known' = known
    BY <2>4, <2>5 DEF Pairs
  <2> QED
    BY <2>6 DEF Ledger!Next, Ledger!Record, Pairs
<1>5. ASSUME NEW c \in Calls, Finish(c) PROVE Ledger!Acknowledge
  <2>1. ledger' = ledger /\ Posted' = Posted
    BY <1>5 DEF Finish, server, Posted
  <2>2. /\ DOMAIN outbox' = DOMAIN outbox
        /\ \A i \in DOMAIN outbox :
             /\ outbox'[i].pays = outbox[i].pays
             /\ outbox'[i].status = "pending" => outbox[i].status = "pending"
    <3>1. \A i \in DOMAIN outbox :
            outbox'[i].status = "pending" => outbox[i].status = "pending"
      BY <1>5, FinishStatus
    <3> QED
      BY <1>5, <3>1, FinishKeepsOutbox DEF OutboxKept
  <2>3. Payments' = Payments /\ Pending' \subseteq Pending
    BY <2>2 DEF Payments, Pending
  <2>4. \A i \in Payments : outbox'[i].pays = outbox[i].pays
    BY <2>2 DEF Payments
  <2>5. recorded' = recorded /\ posted' = posted /\ known \subseteq known'
    BY <2>1, <2>3, <2>4 DEF Pairs
  <2> QED
    BY <1>2, <2>5 DEF Ledger!Acknowledge, Pairs
<1>6. ASSUME NEW r \in requests, Post(r) PROVE Ledger!Post
  <2>1. outbox' = outbox /\ Payments' = Payments /\ Pending' = Pending
    BY <1>6, PostShape DEF Payments, Pending
  <2>2. Posted \subseteq Posted'
    BY PostedGrows
  <2>3. recorded' = recorded /\ known' = known
    BY <2>1 DEF Pairs
  <2>4. posted \subseteq posted' /\ posted' \subseteq recorded
    BY <2>1, <2>2 DEF Pairs
  <2>5. ASSUME NEW p \in posted', NEW q \in posted', p # q
        PROVE  p[2] # q[2]
    <3>1. PICK i \in Posted' : p = <<i, outbox[i].pays>>
      BY <2>1 DEF Pairs
    <3>2. PICK j \in Posted' : q = <<j, outbox[j].pays>>
      BY <2>1 DEF Pairs
    <3>3. PICK d \in Devices, e \in Devices : i \in ledger'[d] /\ j \in ledger'[e]
      BY DEF Posted
    <3>4. i # j
      BY <2>5, <3>1, <3>2
    <3>5. outbox'[i].pays # outbox'[j].pays
      BY <3>3, <3>4 DEF SyncInvariant, PostedOnce
    <3> QED
      BY <2>1, <3>1, <3>2, <3>5
  <2> QED
    BY <2>3, <2>4, <2>5 DEF Ledger!Post, Ledger!Pays, Pairs
<1>7. \/ outbox' = outbox /\ ledger' = ledger
      \/ Record
      \/ \E c \in Calls : Finish(c)
      \/ \E r \in requests : Post(r)
  BY OutboxStep, LedgerStep DEF Finish, server
<1> QED
  BY <1>3, <1>4, <1>5, <1>6, <1>7 DEF Ledger!Next

(* The phone and the server implement a ledger of payments: each posted at most
   once, none of an assignment that has one, and accepted only when posted. *)
THEOREM SyncImplementsLedger == Spec => KeepsLedger
<1>1. Init => Ledger!Init
  BY DEF Init, Ledger!Init, Payments
<1>2. TypeOK /\ SyncInvariant /\ TypeOK' /\ SyncInvariant' /\ [Next]_vars
        => [Ledger!Next]_(Ledger!vars)
  BY LedgerStepIsAllowed
<1> QED
  BY <1>1, <1>2, Synchronisation, PTL DEF Spec, KeepsLedger, Ledger!Spec
==============================================================================
