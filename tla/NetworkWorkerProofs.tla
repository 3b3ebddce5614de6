-------------------------- MODULE NetworkWorkerProofs --------------------------
(***************************************************************************)
(* Theorems about NetworkWorker, for every value of its constants.         *)
(***************************************************************************)
EXTENDS NetworkWorker, FiniteSetTheorems, SequenceTheorems, TLAPS

USE DEF States, Waiting, Terminal, Done, Classes, Steps

-----------------------------------------------------------------------------
(* Types *)

(* Appending an attempt keeps a history a history. *)
LEMMA AppendType ==
  ASSUME NEW s \in Seq(Classes), NEW class \in Classes
  PROVE  /\ Append(s, class) \in Seq(Classes)
         /\ Len(Append(s, class)) = Len(s) + 1
OBVIOUS

(* What the worker decides to save is a well-typed record. *)
LEMMA RecordType ==
  ASSUME NEW s \in Seq(Classes)
  PROVE  /\ \A class \in Classes : AfterAttempt(s, class) \in Records
         /\ Deferred(s) \in Records
         /\ \A verdict \in Terminal : Decided(s, verdict) \in Records
         /\ NoSave \in Records
BY AppendType DEF AfterAttempt, Deferred, Decided, NoSave, Records

(* A breaker that admits a call or hears of an outcome stays a breaker. *)
LEMMA BreakerType ==
  ASSUME NEW breaker \in Circuits
  PROVE  /\ \A class \in Classes : RecordOutcome(breaker, class) \in Circuits
         /\ TryAcquire(breaker) \in Circuits
         /\ ClosedCircuit \in Circuits
BY BoundsAssumption
   DEF RecordOutcome, RecordFailure, TryAcquire, ClosedCircuit, Circuits

(* The initial state is typed. *)
LEMMA TypeInit == Init => TypeOK
<1>1. ClosedCircuit \in Circuits
  BY BoundsAssumption DEF ClosedCircuit, Circuits
<1>2. NoSave \in Records
  BY DEF NoSave, Records
<1> QED
  BY <1>1, <1>2, BoundsAssumption, RequestAssumption, CallsAssumption
     DEF Init, TypeOK, RowsTyped, ProcessesTyped, CallsTyped, RoutersTyped

(* A call that goes on to save stays typed. *)
LEMMA GoSaveType ==
  ASSUME CallsTyped, NEW c \in Calls, pc[c] # "idle", NEW record \in Records,
         GoSave(c, record)
  PROVE  CallsTyped'
BY DEF CallsTyped, GoSave

(* Returning from processNext gives the slot back and forgets the call. *)
LEMMA ReleaseType ==
  ASSUME CallsTyped, ProcessesTyped, NEW c \in Calls, pc[c] # "idle", Release(c)
  PROVE  /\ CallsTyped'
         /\ active' \in [Processes -> [Routers -> Int]]
<1>1. CallsTyped'
  BY RecordType DEF CallsTyped, Release, Forget, NoSave, Records
<1>2. job[c] \in Jobs
  BY DEF CallsTyped
<1>3. active' \in [Processes -> [Routers -> Int]]
  BY <1>2, CallsAssumption, RequestAssumption DEF ProcessesTyped, Release
<1> QED
  BY <1>1, <1>3

(* applyOutcome tells the breaker and goes on to save. *)
LEMMA ApplyOutcomeType ==
  ASSUME CallsTyped, ProcessesTyped, NEW c \in Calls, pc[c] # "idle",
         NEW class \in Classes, ApplyOutcome(c, class)
  PROVE  /\ CallsTyped'
         /\ circuit' \in [Processes -> [Routers -> Circuits]]
<1>1. read[c] \in Seq(Classes) /\ job[c] \in Jobs
  BY DEF CallsTyped
<1>2. CallsTyped'
  BY <1>1, RecordType, GoSaveType DEF ApplyOutcome
<1>3. circuit' \in [Processes -> [Routers -> Circuits]]
  BY <1>1, BreakerType, CallsAssumption, RequestAssumption DEF ProcessesTyped, ApplyOutcome
<1> QED
  BY <1>2, <1>3

(* save_job writes a typed row. *)
LEMMA StoreType ==
  ASSUME RowsTyped, CallsTyped, NEW c \in Calls, pc[c] # "idle", Store(c),
         registered' = registered
  PROVE  RowsTyped'
<1>1. job[c] \in Jobs /\ next[c] \in Records
  BY DEF CallsTyped
<1>2. /\ next[c].state \in States
      /\ next[c].due \in BOOLEAN
      /\ next[c].attempts \in Seq(Classes)
  BY <1>1 DEF Records
<1>3. /\ task' \in [Jobs -> {"none", "running", "completed", "failed"}]
      /\ billing' \in [Jobs -> {"pending", "ready"}]
  BY <1>1 DEF RowsTyped, Store, SyncOrder, orderVars
<1> QED
  BY <1>1, <1>2, <1>3 DEF RowsTyped, Store

(* A router that applies a mutation has a configuration. *)
LEMMA MutateType ==
  ASSUME RoutersTyped, NEW j \in Jobs, Mutate(j)
  PROVE  /\ config' \in [Services -> Configs \cup {Absent}]
         /\ session' \in [Services -> BOOLEAN]
BY RequestAssumption DEF RoutersTyped, Mutate

(* Every step keeps the types. *)
LEMMA TypeStep ==
  ASSUME TypeOK, [Next]_vars
  PROVE  TypeOK'
<1> USE DEF TypeOK
<1>d. UNCHANGED dbVars => RowsTyped'
  BY DEF RowsTyped, dbVars, rowVars, leaseVars, orderVars
<1>p. UNCHANGED <<tokens, circuit, active>> => ProcessesTyped'
  BY DEF ProcessesTyped
<1>c. UNCHANGED callVars => CallsTyped'
  BY DEF CallsTyped, callVars
<1>r. UNCHANGED routerVars => RoutersTyped'
  BY DEF RoutersTyped, routerVars
<1>1. ASSUME NEW j \in Jobs, Enqueue(j) PROVE TypeOK'
  BY <1>1, <1>c, <1>p, <1>r DEF Enqueue, RowsTyped, leaseVars, orderVars
<1>2. ASSUME NEW r \in Provisioned, RegisterRouter(r) PROVE TypeOK'
  BY <1>2, RequestAssumption, <1>c, <1>p, <1>r DEF RegisterRouter, RowsTyped, rowVars,
     leaseVars, orderVars
<1>3. ASSUME NEW c \in Calls, NEW j \in Jobs, ClaimJob(c, j) PROVE TypeOK'
  <2>1. RowsTyped'
    BY <1>3, CallsAssumption DEF ClaimJob, RowsTyped, orderVars
  <2>2. tokens' \in [Processes -> SUBSET Jobs]
    BY <1>3, CallsAssumption DEF ClaimJob, ProcessesTyped
  <2>3. active' \in [Processes -> [Routers -> Int]]
    <3>1. active' = active \/ active' = [active EXCEPT ![ProcessOf[c]][RouterOf[j]] = @ +
       1]
      BY <1>3 DEF ClaimJob
    <3>2. active[ProcessOf[c]][RouterOf[j]] + 1 \in Int
      BY CallsAssumption, RequestAssumption DEF ProcessesTyped
    <3>3. [active EXCEPT ![ProcessOf[c]][RouterOf[j]] = @ + 1] \in [Processes -> [Routers
       -> Int]]
      BY <3>2, CallsAssumption, RequestAssumption DEF ProcessesTyped
    <3> QED
      BY <3>1, <3>3 DEF ProcessesTyped
  <2>4. ProcessesTyped'
    BY <1>3, <2>2, <2>3 DEF ClaimJob, ProcessesTyped
  <2>5. slot' \in [Calls -> BOOLEAN]
    <3>1. slot' = [slot EXCEPT ![c] = active[ProcessOf[c]][RouterOf[j]] < LimitPerRouter]
      BY <1>3 DEF ClaimJob
    <3>2. slot \in [Calls -> BOOLEAN]
      BY DEF CallsTyped
    <3> QED
      BY <3>1, <3>2
  <2>6. attempts[j] \in Seq(Classes) /\ Deferred(attempts[j]) \in Records
    BY RecordType DEF RowsTyped
  <2>7. CallsTyped'
    BY <1>3, <2>5, <2>6 DEF ClaimJob, CallsTyped
  <2>8. RoutersTyped' /\ (confirmed \in SUBSET Jobs)' /\ (faults \in 0..MaxFaults)'
    BY <1>3, <1>r DEF ClaimJob
  <2> QED
    BY <2>1, <2>2, <2>3, <2>4, <2>5, <2>6, <2>7, <2>8
<1>4. ASSUME NEW c \in Calls, Save(c) PROVE TypeOK'
  BY <1>4, StoreType, ReleaseType, CallsAssumption, <1>r DEF Save, ProcessesTyped
<1>5. ASSUME NEW c \in Calls, SaveRejected(c) PROVE TypeOK'
  BY <1>5, ReleaseType, <1>d, <1>r DEF SaveRejected, ProcessesTyped
<1>6. ASSUME NEW c \in Calls, RouterUnavailable(c) PROVE TypeOK'
  <2>1. CallsTyped'
    BY <1>6, GoSaveType, RecordType DEF RouterUnavailable, CallsTyped
  <2> QED
    BY <1>6, <2>1, <1>d, <1>p, <1>r DEF RouterUnavailable
<1>7. ASSUME NEW c \in Calls, EgressDenied(c) PROVE TypeOK'
  BY <1>7, ReleaseType, <1>d, <1>r DEF EgressDenied, ProcessesTyped
<1>8. ASSUME NEW c \in Calls, PassCircuit(c) PROVE TypeOK'
  <2>1. CallsTyped'
    BY <1>8, GoSaveType, RecordType DEF PassCircuit, CallsTyped
  <2>2. job[c] \in Jobs
    BY <1>8 DEF PassCircuit, CallsTyped
  <2>3. circuit[ProcessOf[c]][RouterOf[job[c]]] \in Circuits
    BY <2>2, CallsAssumption, RequestAssumption DEF ProcessesTyped
  <2>4. ProcessesTyped'
    <3>1. circuit' = circuit \/ circuit' = [circuit EXCEPT
       ![ProcessOf[c]][RouterOf[job[c]]] = TryAcquire(@)]
      BY <1>8 DEF PassCircuit
    <3>2. TryAcquire(circuit[ProcessOf[c]][RouterOf[job[c]]]) \in Circuits
      BY <2>3, BreakerType
    <3>3. [circuit EXCEPT ![ProcessOf[c]][RouterOf[job[c]]] = TryAcquire(@)] \in [Processes
       -> [Routers -> Circuits]]
      BY <3>2, <2>2, CallsAssumption, RequestAssumption DEF ProcessesTyped
    <3> QED
      BY <1>8, <3>1, <3>3 DEF PassCircuit, ProcessesTyped
  <2> QED
    BY <1>8, <2>1, <2>4, <1>d, <1>r DEF PassCircuit
<1>9. ASSUME NEW c \in Calls, ObserveFails(c) PROVE TypeOK'
  BY <1>9, ApplyOutcomeType, <1>d, <1>r DEF ObserveFails, ProcessesTyped
<1>10. ASSUME NEW c \in Calls, Observe(c) PROVE TypeOK'
  <2>1. CallsTyped'
    BY <1>10, GoSaveType, RecordType DEF Observe, CallsTyped
  <2>2. job[c] \in Jobs
    BY <1>10 DEF Observe, CallsTyped
  <2>3. ProcessesTyped'
    <3>1. circuit' = circuit \/ circuit' = [circuit EXCEPT
       ![ProcessOf[c]][RouterOf[job[c]]] = ClosedCircuit]
      BY <1>10 DEF Observe
    <3>2. ClosedCircuit \in Circuits
      BY BoundsAssumption DEF ClosedCircuit, Circuits
    <3>3. [circuit EXCEPT ![ProcessOf[c]][RouterOf[job[c]]] = ClosedCircuit] \in [Processes
       -> [Routers -> Circuits]]
      BY <3>2, <2>2, CallsAssumption, RequestAssumption DEF ProcessesTyped
    <3> QED
      BY <1>10, <3>1, <3>3 DEF Observe, ProcessesTyped
  <2>4. (confirmed \in SUBSET Jobs)'
    BY <1>10 DEF Observe, CallsTyped
  <2> QED
    BY <1>10, <2>1, <2>3, <2>4, <1>d, <1>r DEF Observe
<1>11. ASSUME NEW c \in Calls, Refuse(c) PROVE TypeOK'
  BY <1>11, ApplyOutcomeType, <1>d, <1>r DEF Refuse, ProcessesTyped
<1>12. ASSUME NEW c \in Calls, Send(c) PROVE TypeOK'
  BY <1>12, <1>d, <1>p, <1>r DEF Send, CallsTyped
<1>13. ASSUME NEW c \in Calls, Acknowledge(c) PROVE TypeOK'
  BY <1>13, ApplyOutcomeType, <1>d, <1>r DEF Acknowledge, ProcessesTyped, CallsTyped
<1>14. ASSUME NEW c \in Calls, Reject(c) PROVE TypeOK'
  BY <1>14, ApplyOutcomeType, <1>d, <1>r DEF Reject, ProcessesTyped
<1>15. ASSUME NEW c \in Calls, LoseAnswer(c) PROVE TypeOK'
  <2>1. CallsTyped' /\ ProcessesTyped'
    BY <1>15, ApplyOutcomeType DEF LoseAnswer, ProcessesTyped
  <2>2. job[c] \in Jobs
    BY <1>15 DEF LoseAnswer, CallsTyped
  <2>3. RoutersTyped'
    BY <1>15, <2>2 DEF LoseAnswer, RoutersTyped
  <2> QED
    BY <1>15, <2>1, <2>3, <1>d DEF LoseAnswer
<1>16. ASSUME NEW c \in Calls, Apply(c) PROVE TypeOK'
  <2>1. job[c] \in Jobs
    BY <1>16 DEF Apply, CallsTyped
  <2>2. RoutersTyped'
    BY <1>16, <2>1, MutateType DEF Apply, RoutersTyped
  <2>3. CallsTyped'
    BY <1>16 DEF Apply, CallsTyped
  <2> QED
    BY <1>16, <2>2, <2>3, <1>d, <1>p DEF Apply
<1>17. ASSUME NEW j \in Jobs, Straggle(j) PROVE TypeOK'
  <2>1. RoutersTyped'
    BY <1>17, MutateType DEF Straggle, RoutersTyped
  <2> QED
    BY <1>17, <2>1, <1>d, <1>p, <1>c DEF Straggle
<1>18. ASSUME NEW c \in Calls, DatabaseError(c) PROVE TypeOK'
  <2>1. RowsTyped'
    BY <1>18, StoreType DEF DatabaseError, RowsTyped, rowVars, leaseVars, orderVars
  <2>2. CallsTyped' /\ ProcessesTyped'
    BY <1>18, ReleaseType DEF DatabaseError, ProcessesTyped
  <2>3. (faults \in 0..MaxFaults)'
    BY <1>18, BoundsAssumption DEF DatabaseError
  <2> QED
    BY <1>18, <2>1, <2>2, <2>3, <1>r DEF DatabaseError
<1>19. ASSUME NEW p \in Processes, Crash(p) PROVE TypeOK'
  <2>1. ClosedCircuit \in Circuits /\ NoSave \in Records
    BY BoundsAssumption DEF ClosedCircuit, Circuits, NoSave, Records
  <2>2. ProcessesTyped' /\ CallsTyped'
    <3>1. tokens' \in [Processes -> SUBSET Jobs]
      BY <1>19 DEF Crash, ProcessesTyped
    <3>2. circuit' \in [Processes -> [Routers -> Circuits]]
      BY <1>19, <2>1 DEF Crash, ProcessesTyped
    <3>3. active' \in [Processes -> [Routers -> Int]]
      BY <1>19 DEF Crash, ProcessesTyped
    <3>4. CallsTyped'
      <4>1. pc' \in [Calls -> Steps] /\ job' \in [Calls -> Jobs \cup {NoJob}]
        BY <1>19 DEF Crash, CallsTyped
      <4>2. \A c \in Calls : pc'[c] # "idle" => job'[c] \in Jobs
        BY <1>19 DEF Crash, CallsTyped
      <4>3. read' \in [Calls -> Seq(Classes)]
        BY <1>19 DEF Crash, CallsTyped
      <4>4. slot' \in [Calls -> BOOLEAN]
        BY <1>19 DEF Crash, CallsTyped
      <4>5. sent' \in [Calls -> {"no", "pending", "applied"}]
        BY <1>19 DEF Crash, CallsTyped
      <4>6. next' \in [Calls -> Records]
        BY <1>19, <2>1 DEF Crash, CallsTyped
      <4> QED
        BY <4>1, <4>2, <4>3, <4>4, <4>5, <4>6 DEF CallsTyped
    <3> QED
      BY <3>1, <3>2, <3>3, <3>4 DEF ProcessesTyped
  <2>3. \A j \in Jobs : Cardinality({c \in Calls : ProcessOf[c] = p /\ job[c] = j /\
     sent[c] = "pending"}) \in Nat
    BY CallsAssumption, FS_Subset, FS_CardinalityType
  <2>4. RoutersTyped'
    BY <1>19, <2>3 DEF Crash, RoutersTyped
  <2>5. (faults \in 0..MaxFaults)'
    BY <1>19, BoundsAssumption DEF Crash
  <2> QED
    BY <1>19, <2>1, <2>2, <2>4, <2>5, <1>d DEF Crash
<1>20. ASSUME NEW j \in Jobs, BecomeDue(j) PROVE TypeOK'
  BY <1>20, <1>c, <1>p, <1>r DEF BecomeDue, RowsTyped, leaseVars, orderVars
<1>21. ASSUME NEW j \in Jobs, LeaseElapses(j) PROVE TypeOK'
  BY <1>21, BoundsAssumption, <1>c, <1>p, <1>r DEF LeaseElapses, RowsTyped, orderVars
<1>22. ASSUME NEW p \in Processes, NEW r \in Routers, CircuitElapses(p, r) PROVE TypeOK'
  BY <1>22, <1>d, <1>c, <1>r DEF CircuitElapses, ProcessesTyped, Circuits
<1>23. CASE UNCHANGED vars
  BY <1>23, <1>d, <1>p, <1>c, <1>r DEF vars
<1> QED
  BY <1>1, <1>2, <1>3, <1>4, <1>5, <1>6, <1>7, <1>8, <1>9, <1>10, <1>11, <1>12, <1>13,
     <1>14, <1>15, <1>16, <1>17, <1>18, <1>19, <1>20, <1>21, <1>22, <1>23 DEF Next,
     CallStep, Claim, Deadline

(* Spec => []TypeOK: no step of worker, router, clock or fault leaves the types. *)
THEOREM TypeCorrect == Spec => []TypeOK
BY TypeInit, TypeStep, PTL DEF Spec

-----------------------------------------------------------------------------
(* Theorems for a worker whose processes run one call at a time *)

(* What the worker decides over a history with attempts left extends it. *)
LEMMA RecordExtends ==
  ASSUME NEW s \in Seq(Classes), Len(s) < MaxAttempts
  PROVE  /\ \A class \in Classes : Extends(AfterAttempt(s, class), s)
         /\ Extends(Deferred(s), s)
         /\ \A verdict \in Terminal : (verdict \in Done => s # <<>>) => Extends(Decided(s, verdict), s)
BY AppendType, BoundsAssumption DEF AfterAttempt, Deferred, Decided, Extends

(* The lease protocol holds at the start. *)
LEMMA LeaseInit == Init => LeaseInvariant
BY BoundsAssumption DEF Init, LeaseInvariant, RowsConsistent, CallsConsistent

(* A call that changes nothing but its own record keeps the protocol. *)
LEMMA GoSaveKeepsLease ==
  ASSUME TypeOK, LeaseInvariant, UNCHANGED <<dbVars, tokens>>,
         NEW c \in Calls, pc[c] # "idle",
         NEW record, Extends(record, read[c]), GoSave(c, record)
  PROVE  LeaseInvariant'
<1>1. RowsConsistent'
  BY DEF LeaseInvariant, RowsConsistent, dbVars, rowVars, leaseVars
<1>2. ASSUME NEW d \in Calls, pc'[d] # "idle"
      PROVE  /\ Len(read'[d]) < MaxAttempts
             /\ Accepts(d)' => read'[d] = attempts'[job'[d]]
             /\ pc'[d] = "saving" => Extends(next'[d], read'[d])
  BY <1>2 DEF TypeOK, CallsTyped, LeaseInvariant, CallsConsistent, GoSave, Accepts, dbVars, rowVars, leaseVars
<1>3. CallsConsistent'
  BY <1>2 DEF CallsConsistent, Extends
<1> QED
  BY <1>1, <1>3 DEF LeaseInvariant

(* What save_job writes for a call it accepts: the row's history or one attempt
   more, in a state that leaves the row unleased. *)
LEMMA StoreRow ==
  ASSUME TypeOK, LeaseInvariant, NEW c \in Calls, pc[c] = "saving", Accepts(c), Store(c)
  PROVE  /\ job[c] \in Jobs
         /\ state[job[c]] = "running"
         /\ Extends(next[c], attempts[job[c]])
         /\ state' = [state EXCEPT ![job[c]] = next[c].state]
         /\ attempts' = [attempts EXCEPT ![job[c]] = next[c].attempts]
         /\ owner' = [owner EXCEPT ![job[c]] = NoOwner]
<1>1. job[c] \in Jobs /\ ProcessOf[c] \in Processes
  BY CallsAssumption DEF TypeOK, CallsTyped
<1>2. owner[job[c]] # NoOwner
  BY <1>1, CallsAssumption DEF Accepts
<1>3. state[job[c]] = "running"
  BY <1>1, <1>2 DEF LeaseInvariant, RowsConsistent
<1>4. Extends(next[c], attempts[job[c]])
  BY <1>1 DEF LeaseInvariant, CallsConsistent
<1> QED
  BY <1>1, <1>3, <1>4 DEF Store

(* A history that extends another is at most one attempt longer. *)
LEMMA ExtendsLength ==
  ASSUME NEW s \in Seq(Classes), NEW record, Extends(record, s), Len(s) < MaxAttempts
  PROVE  /\ record.attempts \in Seq(Classes)
         /\ Len(record.attempts) <= MaxAttempts
         /\ record.state \notin Terminal => Len(record.attempts) < MaxAttempts
         /\ record.state \notin {"running", "absent"}
BY AppendType, BoundsAssumption DEF Extends

(* A call that returns, with or without a stored record, keeps the protocol. *)
LEMMA ReleaseKeepsLease ==
  ASSUME TypeOK, LeaseInvariant, NEW c \in Calls, Release(c),
         tokens' \in [Processes -> SUBSET Jobs],
         \A p \in Processes : tokens'[p] \subseteq tokens[p],
         \/ UNCHANGED rowVars
         \/ pc[c] = "saving" /\ Accepts(c) /\ Store(c)
  PROVE  LeaseInvariant'
<1>1. CASE UNCHANGED rowVars
  <2>1. RowsConsistent'
    BY <1>1 DEF LeaseInvariant, RowsConsistent, rowVars, leaseVars
  <2>2. CallsConsistent'
    BY <1>1, CallsAssumption
       DEF TypeOK, CallsTyped, LeaseInvariant, CallsConsistent, Release, Forget, Accepts,
           Extends, rowVars, leaseVars
  <2> QED
    BY <2>1, <2>2 DEF LeaseInvariant
<1>2. CASE pc[c] = "saving" /\ Accepts(c) /\ Store(c)
  <2> DEFINE k == job[c]
  <2>1. /\ k \in Jobs
        /\ Extends(next[c], attempts[k])
        /\ state' = [state EXCEPT ![k] = next[c].state]
        /\ attempts' = [attempts EXCEPT ![k] = next[c].attempts]
        /\ owner' = [owner EXCEPT ![k] = NoOwner]
    BY <1>2, StoreRow
  <2>2. attempts[k] \in Seq(Classes) /\ Len(attempts[k]) < MaxAttempts
    BY <1>2, <2>1 DEF TypeOK, RowsTyped, CallsTyped, LeaseInvariant, CallsConsistent
  <2>3. RowsConsistent'
    BY <2>1, <2>2, ExtendsLength DEF TypeOK, RowsTyped, LeaseInvariant, RowsConsistent
  <2>4. CallsConsistent'
    <3> SUFFICES ASSUME NEW d \in Calls, pc'[d] # "idle"
                 PROVE  /\ Len(read'[d]) < MaxAttempts
                        /\ Accepts(d)' => read'[d] = attempts'[job'[d]]
                        /\ pc'[d] = "saving" => Extends(next'[d], read'[d])
      BY DEF CallsConsistent, Extends
    <3>1. /\ d # c
          /\ pc'[d] = pc[d] /\ job'[d] = job[d] /\ read'[d] = read[d] /\ next'[d] = next[d]
      BY DEF Release, Forget, TypeOK, CallsTyped
    <3>2. job[d] \in Jobs /\ ProcessOf[d] \in Processes
      BY <3>1, CallsAssumption DEF TypeOK, CallsTyped
    <3>3. Accepts(d)' => Accepts(d) /\ job[d] # k
      BY <2>1, <3>1, <3>2, CallsAssumption DEF Accepts, TypeOK, RowsTyped
    <3> QED
      BY <2>1, <3>1, <3>2, <3>3 DEF LeaseInvariant, CallsConsistent, TypeOK, RowsTyped
  <2> QED
    BY <2>3, <2>4 DEF LeaseInvariant
<1> QED
  BY <1>1, <1>2

(* A claim takes the row's history under a new token; only another process's
   call could have held the row, and its token is now stale. *)
LEMMA ClaimKeepsLease ==
  ASSUME OneCallPerProcess, TypeOK, LeaseInvariant,
         NEW c \in Calls, NEW j \in Jobs, ClaimJob(c, j)
  PROVE  LeaseInvariant'
<1>1. /\ state[j] \notin Terminal
      /\ Len(attempts[j]) < MaxAttempts
      /\ attempts[j] \in Seq(Classes)
  BY DEF ClaimJob, Candidate, LeaseInvariant, RowsConsistent, TypeOK, RowsTyped
<1>2. /\ state' = [state EXCEPT ![j] = "running"]
      /\ owner' = [owner EXCEPT ![j] = ProcessOf[c]]
      /\ attempts' = attempts
      /\ ProcessOf[c] \in Processes
  BY CallsAssumption DEF ClaimJob
<1>3. RowsConsistent'
  BY <1>1, <1>2, CallsAssumption DEF TypeOK, RowsTyped, LeaseInvariant, RowsConsistent
<1>4. CallsConsistent'
  <2> SUFFICES ASSUME NEW d \in Calls, pc'[d] # "idle"
               PROVE  /\ Len(read'[d]) < MaxAttempts
                      /\ Accepts(d)' => read'[d] = attempts'[job'[d]]
                      /\ pc'[d] = "saving" => Extends(next'[d], read'[d])
    BY DEF CallsConsistent, Extends
  <2>1. CASE d = c
    <3>1. /\ read'[c] = attempts[j]
          /\ job'[c] = j
          /\ pc'[c] = "saving" => next'[c] = Deferred(attempts[j])
      BY DEF ClaimJob, TypeOK, CallsTyped
    <3> QED
      BY <1>1, <1>2, <2>1, <3>1, RecordExtends
  <2>2. CASE d # c
    <3>1. /\ pc'[d] = pc[d] /\ job'[d] = job[d] /\ read'[d] = read[d] /\ next'[d] = next[d]
      BY <2>2 DEF ClaimJob, TypeOK, CallsTyped
    <3>2. job[d] \in Jobs /\ ProcessOf[d] # ProcessOf[c]
      BY <2>2, <3>1 DEF OneCallPerProcess, TypeOK, CallsTyped
    <3>3. Accepts(d)' => Accepts(d)
      <4>1. tokens'[ProcessOf[d]] = tokens[ProcessOf[d]]
        BY <3>2, CallsAssumption DEF ClaimJob, TypeOK, ProcessesTyped
      <4> QED
        BY <1>2, <3>1, <3>2, <4>1 DEF Accepts, TypeOK, RowsTyped
    <3> QED
      BY <1>2, <3>1, <3>3 DEF LeaseInvariant, CallsConsistent
  <2> QED
    BY <2>1, <2>2
<1> QED
  BY <1>3, <1>4 DEF LeaseInvariant

(* Every step keeps the lease protocol. *)
LEMMA LeaseStep ==
  ASSUME OneCallPerProcess, TypeOK, TypeOK', LeaseInvariant, [Next]_vars
  PROVE  LeaseInvariant'
<1>a. ASSUME UNCHANGED <<state, attempts, owner, tokens>>, UNCHANGED <<pc, job, read, next>>
      PROVE  LeaseInvariant'
  BY <1>a DEF LeaseInvariant, RowsConsistent, CallsConsistent, Accepts, Extends
<1>b. \A c \in Calls : pc[c] # "idle" => read[c] \in Seq(Classes) /\ Len(read[c]) < MaxAttempts
  BY DEF TypeOK, CallsTyped, LeaseInvariant, CallsConsistent
<1>1. ASSUME NEW j \in Jobs, Enqueue(j) PROVE LeaseInvariant'
  <2>1. RowsConsistent'
    BY <1>1 DEF Enqueue, LeaseInvariant, RowsConsistent, TypeOK, RowsTyped, leaseVars
  <2>2. CallsConsistent'
    BY <1>1 DEF Enqueue, LeaseInvariant, CallsConsistent, Accepts, Extends, leaseVars, callVars
  <2> QED
    BY <2>1, <2>2 DEF LeaseInvariant
<1>2. ASSUME NEW c \in Calls, NEW j \in Jobs, ClaimJob(c, j) PROVE LeaseInvariant'
  BY <1>2, ClaimKeepsLease
<1>3. ASSUME NEW c \in Calls, Save(c) \/ SaveRejected(c) \/ EgressDenied(c) \/ DatabaseError(c)
      PROVE  LeaseInvariant'
  <2>1. Release(c) /\ tokens' \in [Processes -> SUBSET Jobs]
    BY <1>3 DEF Save, SaveRejected, EgressDenied, DatabaseError, TypeOK, ProcessesTyped
  <2>2. \A p \in Processes : tokens'[p] \subseteq tokens[p]
    BY <1>3 DEF Save, SaveRejected, EgressDenied, DatabaseError, TypeOK, ProcessesTyped
  <2>3. \/ UNCHANGED rowVars
        \/ pc[c] = "saving" /\ Accepts(c) /\ Store(c)
    BY <1>3 DEF Save, SaveRejected, EgressDenied, DatabaseError, dbVars
  <2> QED
    BY <2>1, <2>2, <2>3, ReleaseKeepsLease
<1>4. ASSUME NEW c \in Calls, RouterUnavailable(c) PROVE LeaseInvariant'
  BY <1>4, <1>b, RecordExtends, GoSaveKeepsLease DEF RouterUnavailable
<1>5. ASSUME NEW c \in Calls, PassCircuit(c) PROVE LeaseInvariant'
  <2>1. CASE GoSave(c, Deferred(read[c]))
    BY <1>5, <2>1, <1>b, RecordExtends, GoSaveKeepsLease DEF PassCircuit
  <2>2. CASE pc' = [pc EXCEPT ![c] = "observing"] /\ UNCHANGED <<job, read, slot, sent, next>>
    BY <1>5, <2>2
       DEF PassCircuit, LeaseInvariant, RowsConsistent, CallsConsistent, Accepts, Extends,
           TypeOK, CallsTyped, dbVars, rowVars, leaseVars
  <2> QED
    BY <1>5, <2>1, <2>2 DEF PassCircuit
<1>6. ASSUME NEW c \in Calls,
             ObserveFails(c) \/ Refuse(c) \/ Acknowledge(c) \/ Reject(c) \/ LoseAnswer(c)
      PROVE  LeaseInvariant'
  <2>1. pc[c] # "idle" /\ UNCHANGED <<dbVars, tokens>>
    BY <1>6 DEF ObserveFails, Refuse, Acknowledge, Reject, LoseAnswer
  <2>2. PICK class \in Classes : ApplyOutcome(c, class)
    BY <1>6 DEF ObserveFails, Refuse, Acknowledge, Reject, LoseAnswer
  <2> QED
    BY <1>b, <2>1, <2>2, RecordExtends, GoSaveKeepsLease DEF ApplyOutcome
<1>7. ASSUME NEW c \in Calls, Observe(c) PROVE LeaseInvariant'
  <2>1. CASE /\ pc' = [pc EXCEPT ![c] = "executing"]
             /\ UNCHANGED <<circuit, job, read, slot, sent, next>>
    BY <1>7, <2>1
       DEF Observe, LeaseInvariant, RowsConsistent, CallsConsistent, Accepts, Extends,
           TypeOK, CallsTyped, dbVars, rowVars, leaseVars
  <2>2. CASE GoSave(c, Decided(read[c], "dead_lettered"))
    BY <1>7, <2>2, <1>b, RecordExtends, GoSaveKeepsLease DEF Observe
  <2>3. CASE LastIs(read[c], "uncertain") /\ GoSave(c, Decided(read[c], "reconciled"))
    BY <1>7, <2>3, <1>b, RecordExtends, GoSaveKeepsLease DEF Observe, LastIs
  <2> QED
    BY <1>7, <2>1, <2>2, <2>3 DEF Observe
<1>8. ASSUME NEW c \in Calls, Send(c) PROVE LeaseInvariant'
  BY <1>8 DEF Send, LeaseInvariant, RowsConsistent, CallsConsistent, Accepts, Extends,
              TypeOK, CallsTyped, dbVars, rowVars, leaseVars
<1>9. ASSUME NEW p \in Processes, Crash(p) PROVE LeaseInvariant'
  <2>1. RowsConsistent'
    BY <1>9 DEF Crash, LeaseInvariant, RowsConsistent, dbVars, rowVars, leaseVars
  <2>2. \A d \in Calls : pc'[d] # "idle" =>
          /\ pc'[d] = pc[d] /\ job'[d] = job[d] /\ read'[d] = read[d] /\ next'[d] = next[d]
          /\ ProcessOf[d] # p
    BY <1>9 DEF Crash
  <2>3. \A d \in Calls : ProcessOf[d] # p => tokens'[ProcessOf[d]] = tokens[ProcessOf[d]]
    BY <1>9, CallsAssumption DEF Crash, TypeOK, ProcessesTyped
  <2>4. CallsConsistent'
    BY <1>9, <2>2, <2>3
       DEF Crash, LeaseInvariant, CallsConsistent, Accepts, Extends, dbVars, rowVars, leaseVars
  <2> QED
    BY <2>1, <2>4 DEF LeaseInvariant
<1>10. ASSUME NEW c \in Calls, Apply(c) PROVE LeaseInvariant'
  BY <1>10, <1>a DEF Apply, dbVars, rowVars, leaseVars
<1>11. ASSUME NEW j \in Jobs, Straggle(j) \/ BecomeDue(j) \/ LeaseElapses(j) PROVE LeaseInvariant'
  BY <1>11, <1>a DEF Straggle, BecomeDue, LeaseElapses, dbVars, rowVars, leaseVars, callVars
<1>12. ASSUME NEW r \in Provisioned, RegisterRouter(r) PROVE LeaseInvariant'
  BY <1>12, <1>a DEF RegisterRouter, rowVars, leaseVars, callVars
<1>13. ASSUME NEW p \in Processes, NEW r \in Routers, CircuitElapses(p, r) PROVE LeaseInvariant'
  BY <1>13, <1>a DEF CircuitElapses, dbVars, rowVars, leaseVars, callVars
<1>14. CASE UNCHANGED vars
  BY <1>14, <1>a DEF vars, dbVars, rowVars, leaseVars, callVars
<1> QED
  BY <1>1, <1>2, <1>3, <1>4, <1>5, <1>6, <1>7, <1>8, <1>9, <1>10, <1>11, <1>12, <1>13, <1>14
     DEF Next, CallStep, Claim, Deadline

(* The lease protocol, for any number of jobs, routers, processes and faults:
   a call that save_job would accept holds the row's latest history. *)
THEOREM LeaseProtocol ==
  ASSUME OneCallPerProcess
  PROVE  Spec => []LeaseInvariant
BY TypeCorrect, LeaseInit, LeaseStep, PTL DEF Spec

(* No recorded history exceeds maxAttempts. *)
THEOREM AttemptsNeverExceed ==
  ASSUME OneCallPerProcess
  PROVE  Spec => []AttemptsBounded
<1>1. LeaseInvariant => AttemptsBounded
  BY DEF LeaseInvariant, RowsConsistent, AttemptsBounded
<1> QED
  BY <1>1, LeaseProtocol, PTL

(* What one step of anybody may do to the rows: nothing, enqueue a job, claim
   one that is undecided, or store what extends the history of a running one. *)
Stored(j, record) ==
  /\ state[j] = "running"
  /\ Extends(record, attempts[j])
  /\ state' = [state EXCEPT ![j] = record.state]
  /\ attempts' = [attempts EXCEPT ![j] = record.attempts]

(* Every step has one of those shapes. *)
LEMMA StepShape ==
  ASSUME TypeOK, LeaseInvariant, [Next]_vars
  PROVE  \/ UNCHANGED <<state, attempts>>
         \/ \E j \in Jobs : /\ state[j] = "absent"
                            /\ state' = [state EXCEPT ![j] = "queued"]
                            /\ attempts' = attempts
         \/ \E j \in Jobs : /\ state[j] \in Waiting \cup {"running"}
                            /\ state' = [state EXCEPT ![j] = "running"]
                            /\ attempts' = attempts
         \/ \E j \in Jobs, record \in Records : Stored(j, record)
<1>1. CASE \E j \in Jobs : Enqueue(j)
  BY <1>1 DEF Enqueue
<1>2. CASE \E c \in Calls : Claim(c)
  BY <1>2 DEF Claim, ClaimJob, Candidate
<1>3. ASSUME NEW c \in Calls, pc[c] = "saving", Accepts(c), Store(c)
      PROVE  \E j \in Jobs, record \in Records : Stored(j, record)
  <2>1. job[c] \in Jobs /\ next[c] \in Records
    BY <1>3 DEF TypeOK, CallsTyped
  <2> QED
    BY <1>3, <2>1, StoreRow DEF Stored
<1>4. CASE \E c \in Calls : Save(c) \/ DatabaseError(c)
  BY <1>3, <1>4 DEF Save, DatabaseError, rowVars
<1>5. CASE \E c \in Calls : \/ SaveRejected(c) \/ RouterUnavailable(c) \/ EgressDenied(c)
                            \/ PassCircuit(c) \/ ObserveFails(c) \/ Observe(c) \/ Refuse(c)
                            \/ Send(c) \/ Acknowledge(c) \/ Reject(c) \/ LoseAnswer(c)
                            \/ Apply(c)
  BY <1>5 DEF SaveRejected, RouterUnavailable, EgressDenied, PassCircuit, ObserveFails, Observe,
              Refuse, Send, Acknowledge, Reject, LoseAnswer, Apply, dbVars, rowVars
<1>6. CASE \/ \E j \in Jobs : Straggle(j) \/ BecomeDue(j) \/ LeaseElapses(j)
           \/ \E r \in Provisioned : RegisterRouter(r)
           \/ \E p \in Processes : Crash(p)
           \/ \E p \in Processes, r \in Routers : CircuitElapses(p, r)
  BY <1>6 DEF Straggle, BecomeDue, LeaseElapses, RegisterRouter, Crash, CircuitElapses, dbVars, rowVars
<1>7. CASE UNCHANGED vars
  BY <1>7 DEF vars, dbVars, rowVars
<1> QED
  BY <1>1, <1>2, <1>4, <1>5, <1>6, <1>7 DEF Next, CallStep, Deadline

(* A saved history is only ever extended, by at most one attempt. *)
THEOREM HistoriesOnlyGrow ==
  ASSUME OneCallPerProcess
  PROVE  Spec => AttemptsOnlyGrow
<1>1. ASSUME TypeOK, LeaseInvariant, [Next]_vars, NEW j \in Jobs
      PROVE  \/ attempts'[j] = attempts[j]
             \/ \E class \in Classes : attempts'[j] = Append(attempts[j], class)
  BY <1>1, StepShape DEF Stored, Extends, TypeOK, RowsTyped
<1>2. TypeOK /\ LeaseInvariant /\ [Next]_vars =>
        [\A j \in Jobs : \/ attempts'[j] = attempts[j]
                         \/ \E class \in Classes : attempts'[j] = Append(attempts[j], class)]_vars
  BY <1>1
<1> QED
  BY <1>2, TypeCorrect, LeaseProtocol, PTL DEF Spec, AttemptsOnlyGrow

(* A decided job keeps its decision and its history. *)
THEOREM DecisionsAreFinal ==
  ASSUME OneCallPerProcess
  PROVE  Spec => TerminalIsFinal
<1>1. ASSUME TypeOK, LeaseInvariant, [Next]_vars, NEW j \in Jobs, state[j] \in Terminal
      PROVE  state'[j] = state[j] /\ attempts'[j] = attempts[j]
  BY <1>1, StepShape DEF Stored, TypeOK, RowsTyped
<1>2. TypeOK /\ LeaseInvariant /\ [Next]_vars =>
        [\A j \in Jobs : state[j] \in Terminal =>
           /\ state'[j] = state[j]
           /\ attempts'[j] = attempts[j]]_vars
  BY <1>1
<1> QED
  BY <1>2, TypeCorrect, LeaseProtocol, PTL DEF Spec, TerminalIsFinal

(* The contract's initial state, and its steps: every step of the worker
   accepts a job, records an attempt, decides, or changes nothing the contract
   speaks of. *)
LEMMA ContractInit == Init => Contract!Init
BY DEF Init, Contract!Init

(* Every step of the worker is a contract step or a stutter. *)
LEMMA ContractStep ==
  ASSUME TypeOK, LeaseInvariant, [Next]_vars
  PROVE  [Contract!Next]_(Contract!vars)
<1>1. CASE UNCHANGED <<state, attempts>>
  BY <1>1 DEF Contract!vars
<1>2. ASSUME NEW j \in Jobs, state[j] = "absent", state' = [state EXCEPT ![j] = "queued"],
             attempts' = attempts
      PROVE  Contract!Accept(j)
  BY <1>2 DEF Contract!Accept, TypeOK, RowsTyped
<1>3. ASSUME NEW j \in Jobs, state[j] \in Waiting \cup {"running"},
             state' = [state EXCEPT ![j] = "running"], attempts' = attempts
      PROVE  UNCHANGED Contract!vars
  BY <1>3 DEF Contract!vars, TypeOK, RowsTyped
<1>4. ASSUME NEW j \in Jobs, NEW record \in Records, Stored(j, record)
      PROVE  Contract!Next \/ UNCHANGED Contract!vars
  <2>1. /\ attempts[j] \in Seq(Classes)
        /\ Len(attempts[j]) < MaxAttempts
        /\ record.state \in Waiting \cup Terminal
    BY <1>4 DEF Stored, Extends, TypeOK, RowsTyped, LeaseInvariant, RowsConsistent
  <2>2. CASE \E class \in Classes : record.attempts = Append(attempts[j], class)
    <3>1. Len(record.attempts) = Len(attempts[j]) + 1
      BY <2>1, <2>2, AppendType
    <3>2. Contract!Try(j)
      BY <1>4, <2>1, <3>1, BoundsAssumption DEF Contract!Try, Stored, Extends, TypeOK, RowsTyped
    <3> QED
      BY <3>2 DEF Contract!Next
  <2>3. CASE record.attempts = attempts[j] /\ record.state \in Terminal
    <3>1. record.state \in Done => Len(attempts[j]) > 0
      BY <1>4, <2>1, <2>3, AppendType DEF Stored, Extends
    <3>2. Contract!Decide(j)
      BY <1>4, <2>1, <2>3, <3>1 DEF Contract!Decide, Stored, TypeOK, RowsTyped
    <3> QED
      BY <3>2 DEF Contract!Next
  <2>4. CASE record.attempts = attempts[j] /\ record.state \in Waiting
    BY <1>4, <2>1, <2>4 DEF Contract!vars, Stored, TypeOK, RowsTyped
  <2> QED
    BY <1>4, <2>1, <2>2, <2>3, <2>4 DEF Stored, Extends
<1> QED
  BY <1>1, <1>2, <1>3, <1>4, StepShape DEF Contract!Next

(* The worker implements the contract, whatever crashes and leases elapse. *)
THEOREM WorkerMeetsContract ==
  ASSUME OneCallPerProcess
  PROVE  Spec => MeetsContract
BY ContractInit, ContractStep, TypeCorrect, LeaseProtocol, PTL
   DEF Spec, MeetsContract, Contract!Spec
-----------------------------------------------------------------------------
(* What holds however many calls a process runs *)

(* A call about to report its job done has seen the router confirm it. *)
DoneIsConfirmed ==
  /\ DoneWasObserved
  /\ \A c \in Calls : pc[c] = "saving" /\ next[c].state \in Done => job[c] \in confirmed

(* Only the decision taken on a confirming observation is a done one. *)
LEMMA VerdictStates ==
  ASSUME NEW s
  PROVE  /\ \A class \in Classes \ {"success"} : AfterAttempt(s, class).state \notin Done
         /\ Deferred(s).state \notin Done
         /\ \A verdict : Decided(s, verdict).state = verdict
         /\ NoSave.state \notin Done
BY DEF AfterAttempt, Deferred, Decided, NoSave

(* A call that stays, or goes on to save what is not done, disturbs nothing. *)
LEMMA GoSaveKeepsConfirmed ==
  ASSUME TypeOK, DoneIsConfirmed, UNCHANGED state, confirmed \subseteq confirmed',
         NEW c \in Calls, NEW record, GoSave(c, record),
         record.state \in Done => job[c] \in confirmed'
  PROVE  DoneIsConfirmed'
<1>1. DoneWasObserved'
  BY DEF DoneIsConfirmed, DoneWasObserved
<1>2. \A d \in Calls : pc'[d] = "saving" /\ next'[d].state \in Done => job'[d] \in confirmed'
  BY DEF DoneIsConfirmed, GoSave, TypeOK, CallsTyped
<1> QED
  BY <1>1, <1>2 DEF DoneIsConfirmed

(* A call that stores its record, or drops it, leaves done jobs confirmed. *)
LEMMA ReleaseKeepsConfirmed ==
  ASSUME TypeOK, DoneIsConfirmed, UNCHANGED confirmed, NEW c \in Calls, Release(c),
         \/ UNCHANGED state
         \/ pc[c] = "saving" /\ Store(c)
  PROVE  DoneIsConfirmed'
<1>1. DoneWasObserved'
  <2>1. CASE UNCHANGED state
    BY <2>1 DEF DoneIsConfirmed, DoneWasObserved
  <2>2. CASE pc[c] = "saving" /\ Store(c)
    BY <2>2 DEF DoneIsConfirmed, DoneWasObserved, Store, TypeOK, RowsTyped, CallsTyped
  <2> QED
    BY <2>1, <2>2
<1>2. \A d \in Calls : pc'[d] = "saving" /\ next'[d].state \in Done => job'[d] \in confirmed'
  BY DEF DoneIsConfirmed, Release, Forget, TypeOK, CallsTyped
<1> QED
  BY <1>1, <1>2 DEF DoneIsConfirmed

(* Every step keeps done jobs confirmed. *)
LEMMA ConfirmedStep ==
  ASSUME TypeOK, DoneIsConfirmed, [Next]_vars
  PROVE  DoneIsConfirmed'
<1>a. ASSUME UNCHANGED <<state, confirmed>>, UNCHANGED <<pc, job, next>>
      PROVE  DoneIsConfirmed'
  BY <1>a DEF DoneIsConfirmed, DoneWasObserved
<1>b. ASSUME NEW c \in Calls, NEW step \in Steps \ {"saving"}, UNCHANGED <<state, job, next>>,
             confirmed \subseteq confirmed', pc' = [pc EXCEPT ![c] = step]
      PROVE  DoneIsConfirmed'
  BY <1>b DEF DoneIsConfirmed, DoneWasObserved, TypeOK, CallsTyped
<1>1. ASSUME NEW j \in Jobs, Enqueue(j) PROVE DoneIsConfirmed'
  BY <1>1 DEF Enqueue, DoneIsConfirmed, DoneWasObserved, TypeOK, RowsTyped, callVars
<1>2. ASSUME NEW c \in Calls, NEW j \in Jobs, ClaimJob(c, j) PROVE DoneIsConfirmed'
  <2>1. DoneWasObserved'
    BY <1>2 DEF ClaimJob, DoneIsConfirmed, DoneWasObserved, TypeOK, RowsTyped
  <2>2. ASSUME NEW d \in Calls, pc'[d] = "saving", next'[d].state \in Done
        PROVE  job'[d] \in confirmed'
    <3>1. d # c
      BY <1>2, <2>2, VerdictStates DEF ClaimJob, TypeOK, CallsTyped
    <3> QED
      BY <1>2, <2>2, <3>1 DEF ClaimJob, DoneIsConfirmed, TypeOK, CallsTyped
  <2> QED
    BY <2>1, <2>2 DEF DoneIsConfirmed
<1>3. ASSUME NEW c \in Calls, Save(c) \/ SaveRejected(c) \/ EgressDenied(c) \/ DatabaseError(c)
      PROVE  DoneIsConfirmed'
  BY <1>3, ReleaseKeepsConfirmed
     DEF Save, SaveRejected, EgressDenied, DatabaseError, dbVars, rowVars
<1>4. ASSUME NEW c \in Calls, RouterUnavailable(c) PROVE DoneIsConfirmed'
  BY <1>4, GoSaveKeepsConfirmed, VerdictStates DEF RouterUnavailable, dbVars, rowVars
<1>5. ASSUME NEW c \in Calls, PassCircuit(c) PROVE DoneIsConfirmed'
  <2>1. UNCHANGED <<state, confirmed>>
    BY <1>5 DEF PassCircuit, dbVars, rowVars
  <2>2. CASE GoSave(c, Deferred(read[c]))
    BY <2>1, <2>2, GoSaveKeepsConfirmed, VerdictStates
  <2>3. CASE pc' = [pc EXCEPT ![c] = "observing"] /\ UNCHANGED <<job, next>>
    BY <2>1, <2>3, <1>b
  <2> QED
    BY <1>5, <2>2, <2>3 DEF PassCircuit
<1>6. ASSUME NEW c \in Calls, ObserveFails(c) \/ Refuse(c) \/ Reject(c) \/ LoseAnswer(c)
      PROVE  DoneIsConfirmed'
  <2>1. UNCHANGED <<state, confirmed>>
    BY <1>6 DEF ObserveFails, Refuse, Reject, LoseAnswer, dbVars, rowVars
  <2>2. PICK class \in Classes \ {"success"} : GoSave(c, AfterAttempt(read[c], class))
    BY <1>6 DEF ObserveFails, Refuse, Reject, LoseAnswer, ApplyOutcome
  <2> QED
    BY <2>1, <2>2, GoSaveKeepsConfirmed, VerdictStates
<1>7. ASSUME NEW c \in Calls, Acknowledge(c) PROVE DoneIsConfirmed'
  <2>1. UNCHANGED state /\ confirmed \subseteq confirmed'
    BY <1>7 DEF Acknowledge, dbVars, rowVars
  <2>2. CASE GoSave(c, AfterAttempt(read[c], "success")) /\ job[c] \in confirmed'
    BY <2>1, <2>2, GoSaveKeepsConfirmed
  <2>3. CASE GoSave(c, AfterAttempt(read[c], "uncertain"))
    BY <2>1, <2>3, GoSaveKeepsConfirmed, VerdictStates
  <2> QED
    BY <1>7, <2>2, <2>3 DEF Acknowledge, ApplyOutcome
<1>8. ASSUME NEW c \in Calls, Observe(c) PROVE DoneIsConfirmed'
  <2>1. UNCHANGED state /\ confirmed \subseteq confirmed'
    BY <1>8 DEF Observe, dbVars, rowVars
  <2>2. CASE GoSave(c, Decided(read[c], "dead_lettered"))
    BY <2>1, <2>2, GoSaveKeepsConfirmed, VerdictStates
  <2>3. CASE GoSave(c, Decided(read[c], "reconciled")) /\ job[c] \in confirmed'
    BY <2>1, <2>3, GoSaveKeepsConfirmed
  <2>4. CASE pc' = [pc EXCEPT ![c] = "executing"] /\ UNCHANGED <<job, next>>
    BY <2>1, <2>4, <1>b
  <2> QED
    BY <1>8, <2>2, <2>3, <2>4 DEF Observe
<1>9. ASSUME NEW c \in Calls, Send(c) PROVE DoneIsConfirmed'
  BY <1>9, <1>b DEF Send, dbVars, rowVars
<1>10. ASSUME NEW p \in Processes, Crash(p) PROVE DoneIsConfirmed'
  BY <1>10 DEF Crash, DoneIsConfirmed, DoneWasObserved, dbVars, rowVars
<1>11. ASSUME NEW c \in Calls, Apply(c) PROVE DoneIsConfirmed'
  BY <1>11, <1>a DEF Apply, dbVars, rowVars
<1>12. ASSUME NEW j \in Jobs, Straggle(j) \/ BecomeDue(j) \/ LeaseElapses(j)
       PROVE  DoneIsConfirmed'
  BY <1>12, <1>a DEF Straggle, BecomeDue, LeaseElapses, dbVars, rowVars, callVars
<1>13. ASSUME NEW r \in Provisioned, RegisterRouter(r) PROVE DoneIsConfirmed'
  BY <1>13, <1>a DEF RegisterRouter, rowVars, callVars
<1>14. ASSUME NEW p \in Processes, NEW r \in Routers, CircuitElapses(p, r) PROVE DoneIsConfirmed'
  BY <1>14, <1>a DEF CircuitElapses, dbVars, rowVars, callVars
<1>15. CASE UNCHANGED vars
  BY <1>15, <1>a DEF vars, dbVars, rowVars, callVars
<1> QED
  BY <1>1, <1>2, <1>3, <1>4, <1>5, <1>6, <1>7, <1>8, <1>9, <1>10, <1>11, <1>12, <1>13, <1>14,
     <1>15 DEF Next, CallStep, Claim, Deadline

(* worker.ts:106 and :154, with any number of calls in a process: no job is
   reported done unless an observation of the router showed what it asked for. *)
THEOREM DoneIsObserved == Spec => []DoneWasObserved
<1>1. Init => DoneIsConfirmed
  BY DEF Init, DoneIsConfirmed, DoneWasObserved
<1>2. DoneIsConfirmed => DoneWasObserved
  BY DEF DoneIsConfirmed
<1> QED
  BY <1>1, <1>2, ConfirmedStep, TypeCorrect, PTL DEF Spec
-----------------------------------------------------------------------------
(* The half-open probe, when no job is a credential rotation *)

(* A rotation held after an uncertain attempt leaves processClaimed without
   telling the breaker, so its probe would never be given back. *)
NoRotations == \A j \in Jobs : KindOf[j] # "pppoe.password.change"

(* The steps of processClaimed that run under an admitted circuit. *)
Probing == {"observing", "executing", "awaiting"}

(* A step that leaves every probing call and every circuit as they were. *)
LEMMA ProbesUntouched ==
  ASSUME ProbeIsOwned, UNCHANGED circuit,
         \A c \in Calls : pc[c] \in Probing =>
           pc'[c] \in Probing /\ job'[c] = job[c]
  PROVE  ProbeIsOwned'
BY DEF ProbeIsOwned, Probing

(* A call that reports its outcome takes its router's probe with it. *)
LEMMA OutcomeClearsProbe ==
  ASSUME TypeOK, ProbeIsOwned, NEW c \in Calls, pc[c] \in Probing, NEW breaker \in Circuits,
         ~breaker.probe,
         circuit' = [circuit EXCEPT ![ProcessOf[c]][RouterOf[job[c]]] = breaker],
         \A d \in Calls \ {c} : pc'[d] = pc[d] /\ job'[d] = job[d]
  PROVE  ProbeIsOwned'
<1>1. job[c] \in Jobs /\ ProcessOf[c] \in Processes /\ RouterOf[job[c]] \in Routers
  BY CallsAssumption, RequestAssumption DEF TypeOK, CallsTyped, Probing
<1> SUFFICES ASSUME NEW p \in Processes, NEW r \in Routers, circuit'[p][r].probe
             PROVE  \E d \in Calls : /\ ProcessOf[d] = p
                                     /\ pc'[d] \in Probing
                                     /\ RouterOf[job'[d]] = r
  BY DEF ProbeIsOwned, Probing
<1>2. ~(p = ProcessOf[c] /\ r = RouterOf[job[c]]) /\ circuit'[p][r] = circuit[p][r]
  BY <1>1 DEF TypeOK, ProcessesTyped
<1>3. PICK d \in Calls : ProcessOf[d] = p /\ pc[d] \in Probing /\ RouterOf[job[d]] = r
  BY <1>2 DEF ProbeIsOwned, Probing
<1> QED
  BY <1>2, <1>3

(* Every step leaves each probe with a call that will settle it. *)
LEMMA ProbeStep ==
  ASSUME NoRotations, TypeOK, ProbeIsOwned, [Next]_vars
  PROVE  ProbeIsOwned'
<1> USE DEF Probing
<1>1. ASSUME NEW j \in Jobs, Enqueue(j) \/ Straggle(j) \/ BecomeDue(j) \/ LeaseElapses(j)
      PROVE  ProbeIsOwned'
  BY <1>1, ProbesUntouched DEF Enqueue, Straggle, BecomeDue, LeaseElapses, callVars
<1>2. ASSUME NEW r \in Provisioned, RegisterRouter(r) PROVE ProbeIsOwned'
  BY <1>2, ProbesUntouched DEF RegisterRouter, callVars
<1>3. ASSUME NEW c \in Calls, NEW j \in Jobs, ClaimJob(c, j) PROVE ProbeIsOwned'
  <2>1. UNCHANGED circuit /\ pc[c] = "idle"
    BY <1>3 DEF ClaimJob
  <2>2. \A d \in Calls \ {c} : pc'[d] = pc[d] /\ job'[d] = job[d]
    BY <1>3 DEF ClaimJob, TypeOK, CallsTyped
  <2> QED
    BY <2>1, <2>2, ProbesUntouched
<1>4. ASSUME NEW c \in Calls, Save(c) \/ SaveRejected(c) \/ EgressDenied(c) \/ DatabaseError(c)
      PROVE  ProbeIsOwned'
  <2>1. UNCHANGED circuit /\ pc[c] \in {"lookup", "saving"} /\ Release(c)
    BY <1>4 DEF Save, SaveRejected, EgressDenied, DatabaseError
  <2>2. \A d \in Calls \ {c} : pc'[d] = pc[d] /\ job'[d] = job[d]
    BY <2>1 DEF Release, Forget, TypeOK, CallsTyped
  <2> QED
    BY <2>1, <2>2, ProbesUntouched
<1>5. ASSUME NEW c \in Calls, RouterUnavailable(c) PROVE ProbeIsOwned'
  <2>1. UNCHANGED circuit /\ pc[c] = "lookup"
    BY <1>5 DEF RouterUnavailable
  <2>2. \A d \in Calls \ {c} : pc'[d] = pc[d] /\ job'[d] = job[d]
    BY <1>5 DEF RouterUnavailable, GoSave, TypeOK, CallsTyped
  <2> QED
    BY <2>1, <2>2, ProbesUntouched
<1>6. ASSUME NEW c \in Calls, PassCircuit(c) PROVE ProbeIsOwned'
  <2>1. /\ pc[c] = "lookup"
        /\ job[c] \in Jobs
        /\ ProcessOf[c] \in Processes
        /\ RouterOf[job[c]] \in Routers
    BY <1>6, CallsAssumption, RequestAssumption DEF PassCircuit, TypeOK, CallsTyped
  <2>2. \A d \in Calls \ {c} : pc'[d] = pc[d] /\ job'[d] = job[d]
    BY <1>6 DEF PassCircuit, GoSave, TypeOK, CallsTyped
  <2>3. CASE UNCHANGED circuit
    BY <2>1, <2>2, <2>3, ProbesUntouched
  <2>4. CASE /\ circuit' = [circuit EXCEPT ![ProcessOf[c]][RouterOf[job[c]]] = TryAcquire(@)]
             /\ pc' = [pc EXCEPT ![c] = "observing"]
             /\ UNCHANGED job
    <3>1. pc'[c] = "observing" /\ job'[c] = job[c]
      BY <2>4 DEF TypeOK, CallsTyped
    <3>2. ASSUME NEW p \in Processes, NEW r \in Routers,
                 ~(p = ProcessOf[c] /\ r = RouterOf[job[c]])
          PROVE  circuit'[p][r] = circuit[p][r]
      BY <2>1, <2>4, <3>2 DEF TypeOK, ProcessesTyped
    <3> SUFFICES ASSUME NEW p \in Processes, NEW r \in Routers, circuit'[p][r].probe
                 PROVE  \E d \in Calls : /\ ProcessOf[d] = p
                                         /\ pc'[d] \in Probing
                                         /\ RouterOf[job'[d]] = r
      BY DEF ProbeIsOwned
    <3>3. CASE p = ProcessOf[c] /\ r = RouterOf[job[c]]
      BY <3>1, <3>3
    <3>4. CASE ~(p = ProcessOf[c] /\ r = RouterOf[job[c]])
      <4>1. PICK d \in Calls : ProcessOf[d] = p /\ pc[d] \in Probing /\ RouterOf[job[d]] = r
        BY <3>2, <3>4 DEF ProbeIsOwned
      <4> QED
        BY <2>1, <2>2, <4>1
    <3> QED
      BY <3>3, <3>4
  <2> QED
    BY <1>6, <2>3, <2>4 DEF PassCircuit
<1>7. ASSUME NEW c \in Calls, NEW class \in Classes, pc[c] \in Probing, ApplyOutcome(c, class)
      PROVE  ProbeIsOwned'
  <2> DEFINE before == circuit[ProcessOf[c]][RouterOf[job[c]]]
  <2>1. before \in Circuits
    BY <1>7, CallsAssumption, RequestAssumption DEF TypeOK, CallsTyped, ProcessesTyped
  <2>2. RecordOutcome(before, class) \in Circuits /\ ~RecordOutcome(before, class).probe
    BY <2>1, BreakerType DEF RecordOutcome, RecordFailure, ClosedCircuit
  <2>3. circuit' = [circuit EXCEPT ![ProcessOf[c]][RouterOf[job[c]]] = RecordOutcome(before, class)]
    BY <1>7 DEF ApplyOutcome
  <2>4. \A d \in Calls \ {c} : pc'[d] = pc[d] /\ job'[d] = job[d]
    BY <1>7 DEF ApplyOutcome, GoSave, TypeOK, CallsTyped
  <2> QED
    BY <1>7, <2>2, <2>3, <2>4, OutcomeClearsProbe
<1>8. ASSUME NEW c \in Calls,
             ObserveFails(c) \/ Refuse(c) \/ Acknowledge(c) \/ Reject(c) \/ LoseAnswer(c)
      PROVE  ProbeIsOwned'
  BY <1>7, <1>8 DEF ObserveFails, Refuse, Acknowledge, Reject, LoseAnswer
<1>9. ASSUME NEW c \in Calls, Observe(c) PROVE ProbeIsOwned'
  <2>1. pc[c] = "observing" /\ job[c] \in Jobs
    BY <1>9 DEF Observe, TypeOK, CallsTyped
  <2>2. KindOf[job[c]] # "pppoe.password.change"
    BY <2>1 DEF NoRotations
  <2>3. CASE /\ circuit' = [circuit EXCEPT ![ProcessOf[c]][RouterOf[job[c]]] = ClosedCircuit]
             /\ GoSave(c, Decided(read[c], "reconciled"))
    <3>1. ClosedCircuit \in Circuits /\ ~ClosedCircuit.probe
      BY BoundsAssumption DEF ClosedCircuit, Circuits
    <3>2. \A d \in Calls \ {c} : pc'[d] = pc[d] /\ job'[d] = job[d]
      BY <2>3 DEF GoSave, TypeOK, CallsTyped
    <3> QED
      BY <2>1, <2>3, <3>1, <3>2, OutcomeClearsProbe
  <2>4. CASE pc' = [pc EXCEPT ![c] = "executing"] /\ UNCHANGED <<circuit, job>>
    BY <2>4, ProbesUntouched DEF TypeOK, CallsTyped
  <2> QED
    BY <1>9, <2>2, <2>3, <2>4 DEF Observe
<1>10. ASSUME NEW c \in Calls, Send(c) \/ Apply(c) PROVE ProbeIsOwned'
  BY <1>10, ProbesUntouched DEF Send, Apply, TypeOK, CallsTyped
<1>11. ASSUME NEW p \in Processes, Crash(p) PROVE ProbeIsOwned'
  <2>1. circuit' = [circuit EXCEPT ![p] = [r \in Routers |-> ClosedCircuit]]
    BY <1>11 DEF Crash
  <2>2. \A d \in Calls : ProcessOf[d] # p => pc'[d] = pc[d] /\ job'[d] = job[d]
    BY <1>11 DEF Crash
  <2> SUFFICES ASSUME NEW q \in Processes, NEW r \in Routers, circuit'[q][r].probe
               PROVE  \E d \in Calls : /\ ProcessOf[d] = q
                                       /\ pc'[d] \in Probing
                                       /\ RouterOf[job'[d]] = r
    BY DEF ProbeIsOwned
  <2>3. q # p /\ circuit'[q] = circuit[q]
    BY <2>1 DEF TypeOK, ProcessesTyped, ClosedCircuit
  <2>4. PICK d \in Calls : ProcessOf[d] = q /\ pc[d] \in Probing /\ RouterOf[job[d]] = r
    BY <2>3 DEF ProbeIsOwned
  <2> QED
    BY <2>2, <2>3, <2>4
<1>12. ASSUME NEW p \in Processes, NEW r \in Routers, CircuitElapses(p, r) PROVE ProbeIsOwned'
  <2>1. UNCHANGED callVars
    BY <1>12 DEF CircuitElapses
  <2>2. \A q \in Processes, s \in Routers : circuit'[q][s].probe <=> circuit[q][s].probe
    BY <1>12 DEF CircuitElapses, TypeOK, ProcessesTyped
  <2> QED
    BY <2>1, <2>2 DEF ProbeIsOwned, callVars
<1>13. CASE UNCHANGED vars
  BY <1>13, ProbesUntouched DEF vars, callVars
<1> QED
  BY <1>1, <1>2, <1>3, <1>4, <1>5, <1>6, <1>8, <1>9, <1>10, <1>11, <1>12, <1>13
     DEF Next, CallStep, Claim, Deadline

(* policy.ts:46, with any number of calls in a process: as long as no job is a
   rotation, a half-open probe is some call's, and its outcome settles it. *)
THEOREM ProbesAreOwned ==
  ASSUME NoRotations
  PROVE  Spec => []ProbeIsOwned
<1>1. Init => ProbeIsOwned
  BY CallsAssumption DEF Init, ProbeIsOwned, ClosedCircuit
<1> QED
  BY <1>1, ProbeStep, TypeCorrect, PTL DEF Spec
-----------------------------------------------------------------------------
(* An order's activation task follows its job *)

(* Only a running row has an owner, only an undecided state is overwritten,
   and a task runs exactly while its job is undecided. *)
OrderConsistent ==
  /\ \A j \in Jobs : owner[j] # NoOwner <=> state[j] = "running"
  /\ \A c \in Calls : pc[c] = "saving" => next[c].state \in Waiting \cup Terminal
  /\ \A j \in OrderJobs :
       /\ task[j] = "none" <=> state[j] = "absent"
       /\ task[j] = "running" <=> state[j] \in Waiting \cup {"running"}
  /\ OrderFollowsJob

(* Everything the worker decides to save is a state a claim can leave. *)
LEMMA SavedStates ==
  ASSUME NEW s
  PROVE  /\ \A class : AfterAttempt(s, class).state \in Waiting \cup Terminal
         /\ Deferred(s).state \in Waiting
         /\ \A verdict : Decided(s, verdict).state = verdict
BY DEF AfterAttempt, Deferred, Decided

(* save_job and the order's task move together. *)
LEMMA StoreKeepsOrder ==
  ASSUME TypeOK, OrderConsistent, NEW c \in Calls, pc[c] = "saving", Accepts(c), Store(c)
  PROVE  /\ \A j \in Jobs : owner'[j] # NoOwner <=> state'[j] = "running"
         /\ \A j \in OrderJobs :
              /\ task'[j] = "none" <=> state'[j] = "absent"
              /\ task'[j] = "running" <=> state'[j] \in Waiting \cup {"running"}
         /\ OrderFollowsJob'
<1> DEFINE k == job[c]
<1>1. /\ k \in Jobs
      /\ owner[k] # NoOwner
      /\ next[c].state \in Waiting \cup Terminal
  BY CallsAssumption DEF TypeOK, CallsTyped, Accepts, OrderConsistent
<1>2. state[k] = "running"
  BY <1>1 DEF OrderConsistent
<1>3. /\ state' = [state EXCEPT ![k] = next[c].state]
      /\ owner' = [owner EXCEPT ![k] = NoOwner]
  BY DEF Store
<1>4. \A j \in Jobs : owner'[j] # NoOwner <=> state'[j] = "running"
  BY <1>1, <1>3 DEF TypeOK, RowsTyped, OrderConsistent
<1>5. ASSUME NEW j \in OrderJobs, j # k
      PROVE  state'[j] = state[j] /\ task'[j] = task[j] /\ billing'[j] = billing[j]
  BY <1>5, <1>1, <1>3, RequestAssumption
     DEF TypeOK, RowsTyped, Store, SyncOrder, orderVars
<1>6. ASSUME k \in OrderJobs
      PROVE  /\ state'[k] = next[c].state
             /\ next[c].state \in Waiting => task'[k] = "running" /\ billing'[k] = billing[k]
             /\ next[c].state \in Done => task'[k] = "completed" /\ billing'[k] = "ready"
             /\ next[c].state \in Terminal \ Done =>
                  task'[k] = "failed" /\ billing'[k] = billing[k]
  <2>1. task[k] = "running"
    BY <1>2, <1>6 DEF OrderConsistent
  <2> QED
    BY <1>1, <1>3, <1>6, <2>1 DEF TypeOK, RowsTyped, Store, SyncOrder, orderVars
<1>7. k \in OrderJobs => billing[k] # "ready"
  BY <1>2 DEF OrderConsistent, OrderFollowsJob
<1>8. ASSUME NEW j \in OrderJobs
      PROVE  /\ task'[j] = "none" <=> state'[j] = "absent"
             /\ task'[j] = "running" <=> state'[j] \in Waiting \cup {"running"}
             /\ task'[j] = "completed" <=> state'[j] \in Done
             /\ task'[j] = "failed" <=> state'[j] \in Terminal \ Done
             /\ billing'[j] = "ready" <=> state'[j] \in Done
  <2>1. CASE j = k
    BY <1>1, <1>6, <1>7, <2>1
  <2>2. CASE j # k
    BY <1>5, <2>2 DEF OrderConsistent, OrderFollowsJob
  <2> QED
    BY <2>1, <2>2
<1> QED
  BY <1>4, <1>8 DEF OrderFollowsJob

(* Steps that leave the rows and the tasks alone need only show what is saved. *)
LEMMA RowsUntouched ==
  ASSUME OrderConsistent, UNCHANGED <<state, owner, orderVars>>,
         \A c \in Calls : pc'[c] = "saving" => next'[c].state \in Waiting \cup Terminal
  PROVE  OrderConsistent'
BY DEF OrderConsistent, OrderFollowsJob, orderVars

(* Every step keeps the tasks in step with the jobs. *)
LEMMA OrderStep ==
  ASSUME TypeOK, OrderConsistent, [Next]_vars
  PROVE  OrderConsistent'
<1>a. UNCHANGED dbVars => UNCHANGED <<state, owner, orderVars>>
  BY DEF dbVars, rowVars, leaseVars
<1>b. \A c \in Calls : pc[c] = "saving" => next[c].state \in Waiting \cup Terminal
  BY DEF OrderConsistent
<1>c. ASSUME UNCHANGED <<state, owner, orderVars>>, UNCHANGED <<pc, next>>
      PROVE  OrderConsistent'
  BY <1>b, <1>c, RowsUntouched
<1>d. ASSUME NEW c \in Calls, NEW record, record.state \in Waiting \cup Terminal,
             GoSave(c, record), UNCHANGED dbVars
      PROVE  OrderConsistent'
  <2>1. \A d \in Calls : pc'[d] = "saving" => next'[d].state \in Waiting \cup Terminal
    BY <1>b, <1>d DEF GoSave, TypeOK, CallsTyped
  <2> QED
    BY <1>a, <1>d, <2>1, RowsUntouched
<1>e. ASSUME NEW c \in Calls, NEW step \in Steps \ {"saving"}, UNCHANGED <<dbVars, next>>,
             pc' = [pc EXCEPT ![c] = step]
      PROVE  OrderConsistent'
  <2>1. \A d \in Calls : pc'[d] = "saving" => next'[d].state \in Waiting \cup Terminal
    BY <1>b, <1>e DEF TypeOK, CallsTyped
  <2> QED
    BY <1>a, <1>e, <2>1, RowsUntouched
<1>f. ASSUME NEW c \in Calls, Release(c)
      PROVE  \A d \in Calls : pc'[d] = "saving" => next'[d].state \in Waiting \cup Terminal
  BY <1>b, <1>f DEF Release, Forget, TypeOK, CallsTyped
<1>1. ASSUME NEW j \in Jobs, Enqueue(j) PROVE OrderConsistent'
  BY <1>1, RequestAssumption
     DEF Enqueue, OrderConsistent, OrderFollowsJob, TypeOK, RowsTyped, leaseVars, callVars
<1>2. ASSUME NEW c \in Calls, NEW j \in Jobs, ClaimJob(c, j) PROVE OrderConsistent'
  <2>1. /\ state[j] \in Waiting \cup {"running"}
        /\ state' = [state EXCEPT ![j] = "running"]
        /\ owner' = [owner EXCEPT ![j] = ProcessOf[c]]
        /\ ProcessOf[c] # NoOwner
        /\ UNCHANGED orderVars
    BY <1>2, CallsAssumption DEF ClaimJob, Candidate
  <2>2. \A i \in Jobs : owner'[i] # NoOwner <=> state'[i] = "running"
    BY <2>1 DEF OrderConsistent, TypeOK, RowsTyped
  <2>3. \A i \in OrderJobs :
          /\ task'[i] = "none" <=> state'[i] = "absent"
          /\ task'[i] = "running" <=> state'[i] \in Waiting \cup {"running"}
    BY <2>1, RequestAssumption DEF OrderConsistent, TypeOK, RowsTyped, orderVars
  <2>4. OrderFollowsJob'
    BY <2>1, RequestAssumption
       DEF OrderConsistent, OrderFollowsJob, TypeOK, RowsTyped, orderVars
  <2>5. \A d \in Calls : pc'[d] = "saving" => next'[d].state \in Waiting \cup Terminal
    <3>1. pc'[c] = "saving" => next'[c] = Deferred(attempts[j])
      BY <1>2 DEF ClaimJob, TypeOK, CallsTyped
    <3>2. \A d \in Calls \ {c} : pc'[d] = pc[d] /\ next'[d] = next[d]
      BY <1>2 DEF ClaimJob, TypeOK, CallsTyped
    <3> QED
      BY <1>b, <3>1, <3>2, SavedStates
  <2> QED
    BY <2>2, <2>3, <2>4, <2>5 DEF OrderConsistent
<1>3. ASSUME NEW c \in Calls, pc[c] = "saving", Accepts(c), Store(c), Release(c)
      PROVE  OrderConsistent'
  BY <1>3, <1>f, StoreKeepsOrder DEF OrderConsistent
<1>4. ASSUME NEW c \in Calls, Save(c) \/ SaveRejected(c) \/ EgressDenied(c) \/ DatabaseError(c)
      PROVE  OrderConsistent'
  <2>1. \/ pc[c] = "saving" /\ Accepts(c) /\ Store(c)
        \/ UNCHANGED <<state, owner, orderVars>>
    BY <1>4, <1>a DEF Save, SaveRejected, EgressDenied, DatabaseError, rowVars, leaseVars
  <2>2. Release(c)
    BY <1>4 DEF Save, SaveRejected, EgressDenied, DatabaseError
  <2> QED
    BY <1>3, <1>f, <2>1, <2>2, RowsUntouched
<1>5. ASSUME NEW c \in Calls, RouterUnavailable(c) PROVE OrderConsistent'
  BY <1>5, <1>d, SavedStates DEF RouterUnavailable
<1>6. ASSUME NEW c \in Calls, PassCircuit(c) PROVE OrderConsistent'
  <2>1. CASE GoSave(c, Deferred(read[c]))
    BY <1>6, <2>1, <1>d, SavedStates DEF PassCircuit
  <2>2. CASE pc' = [pc EXCEPT ![c] = "observing"] /\ UNCHANGED next
    BY <1>6, <2>2, <1>e DEF PassCircuit
  <2> QED
    BY <1>6, <2>1, <2>2 DEF PassCircuit
<1>7. ASSUME NEW c \in Calls,
             ObserveFails(c) \/ Refuse(c) \/ Acknowledge(c) \/ Reject(c) \/ LoseAnswer(c)
      PROVE  OrderConsistent'
  <2>1. UNCHANGED dbVars
    BY <1>7 DEF ObserveFails, Refuse, Acknowledge, Reject, LoseAnswer
  <2>2. PICK class : GoSave(c, AfterAttempt(read[c], class))
    BY <1>7 DEF ObserveFails, Refuse, Acknowledge, Reject, LoseAnswer, ApplyOutcome
  <2> QED
    BY <1>d, <2>1, <2>2, SavedStates
<1>8. ASSUME NEW c \in Calls, Observe(c) PROVE OrderConsistent'
  <2>1. UNCHANGED dbVars
    BY <1>8 DEF Observe
  <2>2. CASE \E verdict \in Terminal : GoSave(c, Decided(read[c], verdict))
    BY <1>d, <2>1, <2>2, SavedStates
  <2>3. CASE pc' = [pc EXCEPT ![c] = "executing"] /\ UNCHANGED next
    BY <1>e, <2>1, <2>3
  <2> QED
    BY <1>8, <2>2, <2>3 DEF Observe
<1>9. ASSUME NEW c \in Calls, Send(c) PROVE OrderConsistent'
  BY <1>9, <1>e DEF Send
<1>10. ASSUME NEW p \in Processes, Crash(p) PROVE OrderConsistent'
  <2>1. \A d \in Calls : pc'[d] = "saving" => pc[d] = "saving" /\ next'[d] = next[d]
    BY <1>10 DEF Crash
  <2>2. UNCHANGED dbVars
    BY <1>10 DEF Crash
  <2> QED
    BY <1>a, <1>b, <2>1, <2>2, RowsUntouched
<1>11. ASSUME NEW c \in Calls, Apply(c) PROVE OrderConsistent'
  BY <1>11, <1>a, <1>c DEF Apply
<1>12. ASSUME NEW j \in Jobs, Straggle(j) \/ BecomeDue(j) \/ LeaseElapses(j)
       PROVE  OrderConsistent'
  BY <1>12, <1>a, <1>c DEF Straggle, BecomeDue, LeaseElapses, leaseVars, callVars
<1>13. ASSUME NEW r \in Provisioned, RegisterRouter(r) PROVE OrderConsistent'
  BY <1>13, <1>c DEF RegisterRouter, rowVars, leaseVars, callVars
<1>14. ASSUME NEW p \in Processes, NEW r \in Routers, CircuitElapses(p, r) PROVE OrderConsistent'
  BY <1>14, <1>a, <1>c DEF CircuitElapses, callVars
<1>15. CASE UNCHANGED vars
  BY <1>15, <1>a, <1>c DEF vars, callVars
<1> QED
  BY <1>1, <1>2, <1>4, <1>5, <1>6, <1>7, <1>8, <1>9, <1>10, <1>11, <1>12, <1>13, <1>14, <1>15
     DEF Next, CallStep, Claim, Deadline

(* sync_sales_order_network_job, with any number of calls in a process: a task
   is completed, and billing released, exactly when its job is done. *)
THEOREM TasksFollowJobs == Spec => []OrderFollowsJob
<1>1. Init => OrderConsistent
  BY RequestAssumption DEF Init, OrderConsistent, OrderFollowsJob
<1>2. OrderConsistent => OrderFollowsJob
  BY DEF OrderConsistent
<1> QED
  BY <1>1, <1>2, OrderStep, TypeCorrect, PTL DEF Spec
-----------------------------------------------------------------------------
(* The limiter's slots *)

(* The calls of process p that hold a slot of router r. *)
Holders(p, r) == {c \in Calls : ProcessOf[c] = p /\ slot[c] /\ RouterOf[job[c]] = r}

(* Every slot in use is held by a call that is under way. *)
SlotsHeld ==
  /\ SlotsAccounted
  /\ \A c \in Calls : slot[c] => pc[c] # "idle"

(* The holders of a slot are finitely many. *)
LEMMA HoldersFinite ==
  ASSUME NEW p, NEW r
  PROVE  IsFiniteSet(Holders(p, r)) /\ Cardinality(Holders(p, r)) \in Nat
<1>1. Holders(p, r) \subseteq Calls
  BY DEF Holders
<1> QED
  BY <1>1, CallsAssumption, FS_Subset, FS_CardinalityType

(* Steps that move no slot. *)
LEMMA SlotsUntouched ==
  ASSUME SlotsHeld, UNCHANGED <<active, slot, job>>,
         \A c \in Calls : pc[c] # "idle" => pc'[c] # "idle"
  PROVE  SlotsHeld'
BY DEF SlotsHeld, SlotsAccounted

(* claimNext's limiter: a call that gets a slot is one holder more. *)
LEMMA ClaimKeepsSlots ==
  ASSUME TypeOK, SlotsHeld, NEW c \in Calls, NEW j \in Jobs, ClaimJob(c, j)
  PROVE  SlotsHeld'
<1> DEFINE P == ProcessOf[c]
           R == RouterOf[j]
           free == active[P][R] < LimitPerRouter
<1>1. P \in Processes /\ R \in Routers /\ active[P][R] \in Int
  BY CallsAssumption, RequestAssumption DEF TypeOK, ProcessesTyped
<1>2. /\ pc[c] = "idle"
      /\ job' = [job EXCEPT ![c] = j]
      /\ slot' = [slot EXCEPT ![c] = free]
      /\ free => active' = [active EXCEPT ![P][R] = @ + 1]
      /\ ~free => active' = active
      /\ \A d \in Calls : pc[d] # "idle" => pc'[d] # "idle"
      /\ pc'[c] # "idle"
  BY DEF ClaimJob, TypeOK, CallsTyped
<1>3. ~slot[c]
  BY <1>2 DEF SlotsHeld
<1>4. /\ slot'[c] <=> free
      /\ job'[c] = j
      /\ \A d \in Calls \ {c} : (slot'[d] <=> slot[d]) /\ job'[d] = job[d]
  BY <1>2 DEF TypeOK, CallsTyped
<1>5. \A d \in Calls : slot'[d] => pc'[d] # "idle"
  BY <1>2, <1>4 DEF SlotsHeld
<1>6. ASSUME NEW p \in Processes, NEW r \in Routers, ~(p = P /\ r = R /\ free)
      PROVE  Holders(p, r)' = Holders(p, r) /\ active'[p][r] = active[p][r]
  <2>1. active'[p][r] = active[p][r]
    BY <1>1, <1>2, <1>6 DEF TypeOK, ProcessesTyped
  <2>2. \A d \in Calls : d \in Holders(p, r)' <=> d \in Holders(p, r)
    BY <1>3, <1>4, <1>6 DEF Holders
  <2> QED
    BY <2>1, <2>2 DEF Holders
<1>7. ASSUME free
      PROVE  /\ Holders(P, R)' = Holders(P, R) \cup {c}
             /\ c \notin Holders(P, R)
             /\ active'[P][R] = active[P][R] + 1
  <2>1. active'[P][R] = active[P][R] + 1
    BY <1>1, <1>2, <1>7 DEF TypeOK, ProcessesTyped
  <2>2. \A d \in Calls : d \in Holders(P, R)' <=> d \in Holders(P, R) \cup {c}
    BY <1>4, <1>7 DEF Holders
  <2> QED
    BY <1>3, <2>1, <2>2 DEF Holders
<1>8. ASSUME NEW p \in Processes, NEW r \in Routers
      PROVE  /\ active'[p][r] <= LimitPerRouter
             /\ active'[p][r] = Cardinality(Holders(p, r)')
  <2>1. /\ active[p][r] <= LimitPerRouter
        /\ active[p][r] = Cardinality(Holders(p, r))
    BY DEF SlotsHeld, SlotsAccounted, Holders
  <2>2. CASE p = P /\ r = R /\ free
    <3>1. Cardinality(Holders(P, R) \cup {c}) = Cardinality(Holders(P, R)) + 1
      BY <1>7, <2>2, HoldersFinite, FS_AddElement
    <3> QED
      BY <1>1, <1>7, <2>1, <2>2, <3>1, BoundsAssumption
  <2>3. CASE ~(p = P /\ r = R /\ free)
    BY <1>6, <2>1, <2>3
  <2> QED
    BY <2>2, <2>3
<1> QED
  BY <1>5, <1>8 DEF SlotsHeld, SlotsAccounted, Holders

(* Returning from processNext is one holder less, if the call held a slot. *)
LEMMA ReleaseKeepsSlots ==
  ASSUME TypeOK, SlotsHeld, NEW c \in Calls, pc[c] # "idle", Release(c)
  PROVE  SlotsHeld'
<1>0. PICK k \in Jobs : k = job[c]
  BY DEF TypeOK, CallsTyped
<1> DEFINE P == ProcessOf[c]
           R == RouterOf[k]
<1>1. P \in Processes /\ R \in Routers /\ active[P][R] \in Int
  BY CallsAssumption, RequestAssumption DEF TypeOK, ProcessesTyped
<1>2. /\ slot' = [slot EXCEPT ![c] = FALSE]
      /\ job' = [job EXCEPT ![c] = NoJob]
      /\ pc' = [pc EXCEPT ![c] = "idle"]
      /\ slot[c] => active' = [active EXCEPT ![P][R] = @ - 1]
      /\ ~slot[c] => active' = active
  BY <1>0 DEF Release, Forget
<1>3. /\ ~slot'[c]
      /\ \A d \in Calls \ {c} : (slot'[d] <=> slot[d]) /\ job'[d] = job[d] /\ pc'[d] = pc[d]
  BY <1>2 DEF TypeOK, CallsTyped
<1>4. \A d \in Calls : slot'[d] => pc'[d] # "idle"
  BY <1>3 DEF SlotsHeld
<1>5. ASSUME NEW p \in Processes, NEW r \in Routers, ~(p = P /\ r = R /\ slot[c])
      PROVE  Holders(p, r)' = Holders(p, r) /\ active'[p][r] = active[p][r]
  <2>1. active'[p][r] = active[p][r]
    BY <1>1, <1>2, <1>5 DEF TypeOK, ProcessesTyped
  <2>2. \A d \in Calls : d \in Holders(p, r)' <=> d \in Holders(p, r)
    BY <1>0, <1>3, <1>5 DEF Holders
  <2> QED
    BY <2>1, <2>2 DEF Holders
<1>6. ASSUME slot[c]
      PROVE  /\ Holders(P, R)' = Holders(P, R) \ {c}
             /\ c \in Holders(P, R)
             /\ active'[P][R] = active[P][R] - 1
  <2>1. active'[P][R] = active[P][R] - 1
    BY <1>1, <1>2, <1>6 DEF TypeOK, ProcessesTyped
  <2>2. c \in Holders(P, R) /\ c \notin Holders(P, R)'
    BY <1>0, <1>3, <1>6 DEF Holders
  <2>3. \A d \in Calls \ {c} : d \in Holders(P, R)' <=> d \in Holders(P, R)
    BY <1>3 DEF Holders
  <2>4. Holders(P, R) \subseteq Calls /\ Holders(P, R)' \subseteq Calls
    BY DEF Holders
  <2> QED
    BY ONLY <2>1, <2>2, <2>3, <2>4
<1>7. ASSUME NEW p \in Processes, NEW r \in Routers
      PROVE  /\ active'[p][r] <= LimitPerRouter
             /\ active'[p][r] = Cardinality(Holders(p, r)')
  <2>1. /\ active[p][r] <= LimitPerRouter
        /\ active[p][r] = Cardinality(Holders(p, r))
    BY DEF SlotsHeld, SlotsAccounted, Holders
  <2>2. CASE p = P /\ r = R /\ slot[c]
    <3>1. Cardinality(Holders(P, R) \ {c}) = Cardinality(Holders(P, R)) - 1
      BY <1>6, <2>2, HoldersFinite, FS_RemoveElement
    <3>2. /\ active'[P][R] = active[P][R] - 1
          /\ Cardinality(Holders(P, R)') = Cardinality(Holders(P, R)) - 1
      BY <1>6, <2>2, <3>1
    <3>3. LimitPerRouter \in Int
      BY BoundsAssumption
    <3> QED
      BY ONLY <1>1, <2>1, <2>2, <3>2, <3>3
  <2>3. CASE ~(p = P /\ r = R /\ slot[c])
    BY <1>5, <2>1, <2>3
  <2> QED
    BY <2>2, <2>3
<1> QED
  BY <1>4, <1>7 DEF SlotsHeld, SlotsAccounted, Holders

(* A dying process takes its slots and their holders with it. *)
LEMMA CrashKeepsSlots ==
  ASSUME TypeOK, SlotsHeld, NEW p \in Processes, Crash(p)
  PROVE  SlotsHeld'
<1>1. /\ \A d \in Calls : ProcessOf[d] = p => ~slot'[d]
      /\ \A d \in Calls : ProcessOf[d] # p =>
           (slot'[d] <=> slot[d]) /\ job'[d] = job[d] /\ pc'[d] = pc[d]
      /\ active' = [active EXCEPT ![p] = [r \in Routers |-> 0]]
  BY DEF Crash
<1>2. \A d \in Calls : slot'[d] => pc'[d] # "idle"
  BY <1>1 DEF SlotsHeld
<1>3. ASSUME NEW q \in Processes, NEW r \in Routers
      PROVE  /\ active'[q][r] <= LimitPerRouter
             /\ active'[q][r] = Cardinality(Holders(q, r)')
  <2>1. CASE q = p
    <3>1. Holders(q, r)' = {}
      BY <1>1, <2>1 DEF Holders
    <3>2. active'[q][r] = 0
      BY <1>1, <2>1 DEF TypeOK, ProcessesTyped
    <3> QED
      BY <3>1, <3>2, FS_EmptySet, BoundsAssumption
  <2>2. CASE q # p
    <3>1. Holders(q, r)' = Holders(q, r)
      BY <1>1, <2>2 DEF Holders
    <3>2. active'[q][r] = active[q][r]
      BY <1>1, <2>2 DEF TypeOK, ProcessesTyped
    <3>3. /\ active[q][r] <= LimitPerRouter
          /\ active[q][r] = Cardinality(Holders(q, r))
      BY DEF SlotsHeld, SlotsAccounted, Holders
    <3> QED
      BY ONLY <3>1, <3>2, <3>3
  <2> QED
    BY <2>1, <2>2
<1> QED
  BY <1>2, <1>3 DEF SlotsHeld, SlotsAccounted, Holders

(* Every step keeps the slots with their holders. *)
LEMMA SlotsStep ==
  ASSUME TypeOK, SlotsHeld, [Next]_vars
  PROVE  SlotsHeld'
<1>1. ASSUME NEW j \in Jobs, Enqueue(j) \/ Straggle(j) \/ BecomeDue(j) \/ LeaseElapses(j)
      PROVE  SlotsHeld'
  BY <1>1, SlotsUntouched DEF Enqueue, Straggle, BecomeDue, LeaseElapses, callVars
<1>2. ASSUME NEW r \in Provisioned, RegisterRouter(r) PROVE SlotsHeld'
  BY <1>2, SlotsUntouched DEF RegisterRouter, callVars
<1>3. ASSUME NEW c \in Calls, NEW j \in Jobs, ClaimJob(c, j) PROVE SlotsHeld'
  BY <1>3, ClaimKeepsSlots
<1>4. ASSUME NEW c \in Calls, Save(c) \/ SaveRejected(c) \/ EgressDenied(c) \/ DatabaseError(c)
      PROVE  SlotsHeld'
  BY <1>4, ReleaseKeepsSlots DEF Save, SaveRejected, EgressDenied, DatabaseError
<1>5. ASSUME NEW c \in Calls, NEW step \in Steps \ {"idle"}, pc' = [pc EXCEPT ![c] = step],
             UNCHANGED <<active, slot, job>>
      PROVE  SlotsHeld'
  BY <1>5, SlotsUntouched DEF TypeOK, CallsTyped
<1>6. ASSUME NEW c \in Calls,
             \/ RouterUnavailable(c) \/ PassCircuit(c) \/ ObserveFails(c) \/ Observe(c)
             \/ Refuse(c) \/ Send(c) \/ Acknowledge(c) \/ Reject(c) \/ LoseAnswer(c)
      PROVE  SlotsHeld'
  BY <1>5, <1>6 DEF RouterUnavailable, PassCircuit, ObserveFails, Observe, Refuse, Send,
                    Acknowledge, Reject, LoseAnswer, ApplyOutcome, GoSave
<1>7. ASSUME NEW c \in Calls, Apply(c) PROVE SlotsHeld'
  BY <1>7, SlotsUntouched DEF Apply
<1>8. ASSUME NEW p \in Processes, Crash(p) PROVE SlotsHeld'
  BY <1>8, CrashKeepsSlots
<1>9. ASSUME NEW p \in Processes, NEW r \in Routers, CircuitElapses(p, r) PROVE SlotsHeld'
  BY <1>9, SlotsUntouched DEF CircuitElapses, callVars
<1>10. CASE UNCHANGED vars
  BY <1>10, SlotsUntouched DEF vars, callVars
<1> QED
  BY <1>1, <1>2, <1>3, <1>4, <1>6, <1>7, <1>8, <1>9, <1>10 DEF Next, CallStep, Claim, Deadline

(* RouterConcurrencyLimiter, for any limit and any number of calls: the count
   is the calls that hold a slot, within the limit, on every way out. *)
THEOREM SlotsNeverLeak == Spec => []SlotsAccounted
<1>1. Init => SlotsHeld
  <2> SUFFICES ASSUME Init PROVE SlotsHeld
    OBVIOUS
  <2>1. \A p \in Processes, r \in Routers : Holders(p, r) = {} /\ active[p][r] = 0
    BY DEF Init, Holders
  <2>2. ASSUME NEW p \in Processes, NEW r \in Routers
        PROVE  /\ active[p][r] <= LimitPerRouter
               /\ active[p][r] = Cardinality(Holders(p, r))
    <3>1. active[p][r] = 0 /\ Cardinality(Holders(p, r)) = 0
      BY <2>1, FS_EmptySet
    <3> QED
      BY <3>1, BoundsAssumption
  <2>3. \A c \in Calls : ~slot[c]
    BY DEF Init
  <2> QED
    BY <2>2, <2>3 DEF SlotsHeld, SlotsAccounted, Holders
<1>2. SlotsHeld => SlotsAccounted
  BY DEF SlotsHeld
<1> QED
  BY <1>1, <1>2, SlotsStep, TypeCorrect, PTL DEF Spec
=============================================================================
