---------------------------- MODULE NetworkWorker ----------------------------
(***************************************************************************)
(* The durable RouterOS job queue and the worker processes that drain it.  *)
(*                                                                         *)
(* A job row lives in PostgreSQL (network_worker.jobs).  A worker process  *)
(* runs calls of NetworkWorker.processNext: each claims the oldest         *)
(* available row under a lease, reads the router registration, passes the  *)
(* circuit breaker, observes the router, possibly sends one mutation, and  *)
(* saves the classified result under the claim's token.  Every await of    *)
(* the TypeScript is a place where other calls, the router and the clock   *)
(* may step, so each stretch between two awaits is one action.             *)
(*                                                                         *)
(* Time is abstracted to its deadlines: a job's availableAt, a lease's     *)
(* expiry and a circuit's reset are flags that an action of their own      *)
(* flips once.  Lease tokens are abstracted to what save_job can tell: a   *)
(* process overwrites its token of a job at every claim, so the remembered *)
(* token equals the row's exactly when the row's last claim was made by    *)
(* that process and the process still remembers one.                       *)
(***************************************************************************)
EXTENDS Integers, Sequences, FiniteSets

CONSTANTS
  Jobs,              \* job numbers, in the order of (created_at, job_id)
  Calls,             \* concurrent activations of processNext
  Processes,         \* worker processes (lease_owner)
  ProcessOf,         \* the process each call runs in
  Routers,
  Services,          \* subscriber services, each one PPP secret on its router
  RouterOf, ServiceOf, KindOf, Desired,   \* the immutable request of a job
  OrderJobs,         \* pppoe.create jobs that complete a sales order's task
  AllowedRouters,    \* routers inside the process's egress allowlist
  Configs,           \* desired/observed PPP states the checks tell apart
  Absent,            \* the router has no secret for the service
  InitialConfig,     \* what the routers have at the start
  Provisioned,       \* routers the DBA enables or disables during a behaviour
  NoOwner, NoJob,    \* SQL NULL: no lease owner; no claimed job
  MaxAttempts,       \* RetryPolicy.maxAttempts
  FailureThreshold,  \* CircuitPolicy.failureThreshold
  LimitPerRouter,    \* RouterConcurrencyLimiter limit, per process
  MaxFaults          \* bound: crashes, database errors and outlived leases

Destructive == {"pppoe.suspend", "pppoe.password.change", "pppoe.profile.change",
                "pppoe.address.change", "session.disconnect"}
Kinds == Destructive \cup {"pppoe.create", "pppoe.restore"}

ASSUME JobsAssumption == Jobs \subseteq Nat /\ NoJob \notin Jobs
ASSUME CallsAssumption ==
  /\ IsFiniteSet(Calls)
  /\ ProcessOf \in [Calls -> Processes]
  /\ NoOwner \notin Processes
ASSUME RequestAssumption ==
  /\ RouterOf \in [Jobs -> Routers]
  /\ ServiceOf \in [Jobs -> Services]
  /\ KindOf \in [Jobs -> Kinds]
  /\ Desired \in [Jobs -> Configs]
  /\ OrderJobs \subseteq {j \in Jobs : KindOf[j] = "pppoe.create"}
  /\ AllowedRouters \subseteq Routers
  /\ Absent \notin Configs
  /\ InitialConfig \in [Services -> Configs \cup {Absent}]
  /\ Provisioned \subseteq Routers
ASSUME BoundsAssumption ==
  /\ MaxAttempts \in Nat \ {0}
  /\ FailureThreshold \in Nat \ {0}
  /\ LimitPerRouter \in Nat \ {0}
  /\ MaxFaults \in Nat

VARIABLES
  state, due, attempts,   \* network_worker.jobs: the record, and availableAt <= now
  owner, leased,          \* its lease: the owning process, and not yet expired
  task, billing,          \* the sales order tasks an order job completes
  registered,             \* enabled rows of network_worker.routers
  tokens,                 \* per process: jobs whose lease token it remembers
  circuit,                \* per process and router: RouterCircuitBreaker state
  active,                 \* per process and router: RouterConcurrencyLimiter slots
  pc, job, read, slot,    \* per call: where it is, its job, the history it read,
  sent, next,             \*   its slot, its mutation, the record it will save
  config, session,        \* per service: what the router really has
  late,                   \* per job: mutations nobody waits for that may still land
  confirmed,              \* history: jobs some observation confirmed
  faults                  \* crashes, database errors and outlived leases so far

leaseVars == <<owner, leased>>
rowVars == <<state, due, attempts, leaseVars>>
orderVars == <<task, billing>>
dbVars == <<rowVars, orderVars, registered>>
callVars == <<pc, job, read, slot, sent, next>>
routerVars == <<config, session, late>>
vars == <<dbVars, tokens, circuit, active, callVars, routerVars, confirmed, faults>>

-----------------------------------------------------------------------------
(* Values *)

Waiting == {"queued", "retry_scheduled", "reconciling"}
Done == {"reconciled", "succeeded"}
Terminal == Done \cup {"failed", "dead_lettered"}
States == {"absent", "running"} \cup Waiting \cup Terminal
Classes == {"success", "retryable", "permanent", "uncertain"}
Steps == {"idle", "lookup", "observing", "executing", "awaiting", "saving"}
Records == [state : States, attempts : Seq(Classes), due : BOOLEAN]
Circuits == [failures : 0..FailureThreshold, gate : {"closed", "open", "elapsed"},
             probe : BOOLEAN]

NoSave == [state |-> "absent", attempts |-> <<>>, due |-> FALSE]
ClosedCircuit == [failures |-> 0, gate |-> "closed", probe |-> FALSE]

LastIs(history, class) ==
  /\ history # <<>>
  /\ history[Len(history)] = class

(* observedConfirmsAction of what the router has now. *)
Confirms(j) ==
  /\ config[ServiceOf[j]] = Desired[j]
  /\ KindOf[j] = "session.disconnect" => ~session[ServiceOf[j]]

(* The router applies job j's mutation. *)
Mutate(j) ==
  IF KindOf[j] = "session.disconnect"
    THEN session' = [session EXCEPT ![ServiceOf[j]] = FALSE] /\ UNCHANGED config
    ELSE config' = [config EXCEPT ![ServiceOf[j]] = Desired[j]] /\ UNCHANGED session

(* The adapter finds no PPP secret, or no such session, to act on. *)
NothingToChange(j) ==
  \/ config[ServiceOf[j]] = Absent /\ KindOf[j] # "pppoe.create"
  \/ KindOf[j] = "session.disconnect" /\ ~session[ServiceOf[j]]

-----------------------------------------------------------------------------
(* RouterCircuitBreaker *)

Admits(breaker) == breaker.gate = "closed" \/ (breaker.gate = "elapsed" /\ ~breaker.probe)

TryAcquire(breaker) ==
  [failures |-> breaker.failures, gate |-> breaker.gate, probe |-> breaker.gate = "elapsed"]

RecordFailureKeepingProbe(breaker) ==
  [failures |-> FailureThreshold, gate |-> "open", probe |-> breaker.probe]

(* recordFailure; failures beyond the threshold make no difference. *)
RecordFailure(breaker) ==
  LET opens == breaker.failures + 1 >= FailureThreshold IN
  [failures |-> IF opens THEN FailureThreshold ELSE breaker.failures + 1,
   gate |-> IF opens THEN "open" ELSE breaker.gate,
   probe |-> FALSE]

RecordOutcome(breaker, class) ==
  IF class = "success" THEN ClosedCircuit ELSE RecordFailure(breaker)

-----------------------------------------------------------------------------
(* The job record a call is about to save *)

(* rescheduleWithoutAttempt: the attempt count does not move. *)
Deferred(history) == [state |-> "retry_scheduled", attempts |-> history, due |-> FALSE]

(* finishFailure, the hold of a rotation, and reconciliation: no new attempt. *)
Decided(history, verdict) == [state |-> verdict, attempts |-> history, due |-> TRUE]

AfterAttemptLate(history, class) ==
  LET tried == Append(history, class)
      result == IF class = "success" THEN "succeeded"
                ELSE IF class = "permanent" \/ Len(tried) > MaxAttempts THEN "dead_lettered"
                ELSE "retry_scheduled"
  IN [state |-> result, attempts |-> tried, due |-> result \in Terminal]

(* applyOutcome: classify the attempt, give up at maxAttempts. *)
AfterAttempt(history, class) ==
  LET tried == Append(history, class)
      result == IF class = "success" THEN "succeeded"
                ELSE IF class = "permanent" \/ Len(tried) >= MaxAttempts THEN "dead_lettered"
                ELSE IF class = "uncertain" THEN "reconciling"
                ELSE "retry_scheduled"
  IN [state |-> result, attempts |-> tried, due |-> result \in Terminal]

(* The call leaves its mutation, if any, behind and goes on to save. *)
GoSave(c, record) ==
  /\ pc' = [pc EXCEPT ![c] = "saving"]
  /\ sent' = [sent EXCEPT ![c] = "no"]
  /\ next' = [next EXCEPT ![c] = record]
  /\ UNCHANGED <<job, read, slot>>

-----------------------------------------------------------------------------
RowsTyped ==
  /\ state \in [Jobs -> States]
  /\ due \in [Jobs -> BOOLEAN]
  /\ attempts \in [Jobs -> Seq(Classes)]
  /\ owner \in [Jobs -> Processes \cup {NoOwner}]
  /\ leased \in [Jobs -> BOOLEAN]
  /\ task \in [Jobs -> {"none", "running", "completed", "failed"}]
  /\ billing \in [Jobs -> {"pending", "ready"}]
  /\ registered \in SUBSET Routers

ProcessesTyped ==
  /\ tokens \in [Processes -> SUBSET Jobs]
  /\ circuit \in [Processes -> [Routers -> Circuits]]
  /\ active \in [Processes -> [Routers -> Int]]

CallsTyped ==
  /\ pc \in [Calls -> Steps]
  /\ job \in [Calls -> Jobs \cup {NoJob}]
  /\ \A c \in Calls : pc[c] # "idle" => job[c] \in Jobs
  /\ read \in [Calls -> Seq(Classes)]
  /\ slot \in [Calls -> BOOLEAN]
  /\ sent \in [Calls -> {"no", "pending", "applied"}]
  /\ next \in [Calls -> Records]

RoutersTyped ==
  /\ config \in [Services -> Configs \cup {Absent}]
  /\ session \in [Services -> BOOLEAN]
  /\ late \in [Jobs -> Nat]

TypeOK ==
  /\ RowsTyped
  /\ ProcessesTyped
  /\ CallsTyped
  /\ RoutersTyped
  /\ confirmed \in SUBSET Jobs
  /\ faults \in 0..MaxFaults

Init ==
  /\ state = [j \in Jobs |-> "absent"]
  /\ due = [j \in Jobs |-> FALSE]
  /\ attempts = [j \in Jobs |-> <<>>]
  /\ owner = [j \in Jobs |-> NoOwner]
  /\ leased = [j \in Jobs |-> FALSE]
  /\ task = [j \in Jobs |-> "none"]
  /\ billing = [j \in Jobs |-> "pending"]
  /\ registered = Routers
  /\ tokens = [p \in Processes |-> {}]
  /\ circuit = [p \in Processes |-> [r \in Routers |-> ClosedCircuit]]
  /\ active = [p \in Processes |-> [r \in Routers |-> 0]]
  /\ pc = [c \in Calls |-> "idle"]
  /\ job = [c \in Calls |-> NoJob]
  /\ read = [c \in Calls |-> <<>>]
  /\ slot = [c \in Calls |-> FALSE]
  /\ sent = [c \in Calls |-> "no"]
  /\ next = [c \in Calls |-> NoSave]
  /\ config = InitialConfig
  /\ session = [s \in Services |-> config[s] # Absent]
  /\ late = [j \in Jobs |-> 0]
  /\ confirmed = {}
  /\ faults = 0

-----------------------------------------------------------------------------
(* The tenant database *)

(* enqueue_job, in the transaction that inserts the network action (and, for
   an order, marks its task running).  Enqueueing the same key again returns
   the stored row and changes nothing, so a job number is enqueued once. *)
Enqueue(j) ==
  /\ state[j] = "absent"
  /\ \A i \in Jobs : i < j => state[i] # "absent"
  /\ state' = [state EXCEPT ![j] = "queued"]
  /\ due' = [due EXCEPT ![j] = TRUE]
  /\ task' = IF j \in OrderJobs THEN [task EXCEPT ![j] = "running"] ELSE task
  /\ UNCHANGED <<attempts, leaseVars, billing, registered, tokens, circuit, active,
                 callVars, routerVars, confirmed, faults>>

(* register_router, by the DBA: a router is enabled or disabled. *)
RegisterRouter(r) ==
  /\ registered' \in {registered \cup {r}, registered \ {r}}
  /\ registered' # registered
  /\ UNCHANGED <<rowVars, orderVars, tokens, circuit, active, callVars, routerVars,
                 confirmed, faults>>

CandidateNeverExpiring(j) == due[j] /\ state[j] \in Waiting

(* claim_job's WHERE clause. *)
Candidate(j) ==
  /\ due[j]
  /\ state[j] \in Waiting \/ (state[j] = "running" /\ ~leased[j])

(* claimNext and the limiter: both happen before the next await. *)
ClaimJob(c, j) ==
  LET p == ProcessOf[c]
      r == RouterOf[j]
      free == active[p][r] < LimitPerRouter IN
  /\ pc[c] = "idle"
  /\ Candidate(j)
  /\ \A i \in Jobs : Candidate(i) => j <= i
  /\ state' = [state EXCEPT ![j] = "running"]
  /\ owner' = [owner EXCEPT ![j] = p]
  /\ leased' = [leased EXCEPT ![j] = TRUE]
  /\ tokens' = [tokens EXCEPT ![p] = @ \cup {j}]
  /\ job' = [job EXCEPT ![c] = j]
  /\ read' = [read EXCEPT ![c] = attempts[j]]
  /\ slot' = [slot EXCEPT ![c] = free]
  /\ \/ /\ free
        /\ active' = [active EXCEPT ![p][r] = @ + 1]
        /\ pc' = [pc EXCEPT ![c] = "lookup"]
        /\ UNCHANGED next
     \/ /\ ~free
        /\ pc' = [pc EXCEPT ![c] = "saving"]
        /\ next' = [next EXCEPT ![c] = Deferred(attempts[j])]
        /\ UNCHANGED active
  /\ UNCHANGED <<due, attempts, orderVars, registered, circuit, sent, routerVars,
                 confirmed, faults>>

Claim(c) == \E j \in Jobs : ClaimJob(c, j)

Forget(c) ==
  /\ pc' = [pc EXCEPT ![c] = "idle"]
  /\ job' = [job EXCEPT ![c] = NoJob]
  /\ read' = [read EXCEPT ![c] = <<>>]
  /\ slot' = [slot EXCEPT ![c] = FALSE]
  /\ sent' = [sent EXCEPT ![c] = "no"]
  /\ next' = [next EXCEPT ![c] = NoSave]

ReleaseNothing(c) == Forget(c) /\ UNCHANGED active

(* The slot is released when processNext returns or throws. *)
Release(c) ==
  /\ active' = IF slot[c] THEN [active EXCEPT ![ProcessOf[c]][RouterOf[job[c]]] = @ - 1]
                          ELSE active
  /\ Forget(c)

SyncOrderIgnoringFailed(j, verdict) ==
  IF j \in OrderJobs /\ task[j] = "running" /\ verdict \in Terminal \ {"failed"}
    THEN /\ task' = [task EXCEPT ![j] = IF verdict \in Done THEN "completed" ELSE "failed"]
         /\ billing' = [billing EXCEPT ![j] = IF verdict \in Done THEN "ready" ELSE @]
    ELSE UNCHANGED orderVars

(* sync_sales_order_network_job, in the transaction of save_job. *)
SyncOrder(j, verdict) ==
  IF j \in OrderJobs /\ task[j] = "running" /\ verdict \in Terminal
    THEN /\ task' = [task EXCEPT ![j] = IF verdict \in Done THEN "completed" ELSE "failed"]
         /\ billing' = [billing EXCEPT ![j] = IF verdict \in Done THEN "ready" ELSE @]
    ELSE UNCHANGED orderVars

AcceptsRemembered(c) == job[c] \in tokens[ProcessOf[c]]

(* save_job accepts the record only under the row's current lease token. *)
Accepts(c) ==
  /\ job[c] \in tokens[ProcessOf[c]]
  /\ owner[job[c]] = ProcessOf[c]

(* save_job stores the record and clears the lease. *)
Store(c) ==
  LET j == job[c] IN
  /\ state' = [state EXCEPT ![j] = next[c].state]
  /\ due' = [due EXCEPT ![j] = next[c].due]
  /\ attempts' = [attempts EXCEPT ![j] = next[c].attempts]
  /\ owner' = [owner EXCEPT ![j] = NoOwner]
  /\ leased' = [leased EXCEPT ![j] = FALSE]
  /\ SyncOrder(j, next[c].state)

(* save: the result is stored and the token forgotten. *)
Save(c) ==
  /\ pc[c] = "saving"
  /\ Accepts(c)
  /\ Store(c)
  /\ tokens' = [tokens EXCEPT ![ProcessOf[c]] = @ \ {job[c]}]
  /\ Release(c)
  /\ UNCHANGED <<registered, circuit, routerVars, confirmed, faults>>

(* save throws: the lease was lost to a later claim, or the token is gone. *)
SaveRejected(c) ==
  /\ pc[c] = "saving"
  /\ ~Accepts(c)
  /\ Release(c)
  /\ UNCHANGED <<dbVars, tokens, circuit, routerVars, confirmed, faults>>

-----------------------------------------------------------------------------
(* NetworkWorker.processClaimed *)

(* getRouter found no enabled registration: finishFailure. *)
RouterUnavailable(c) ==
  /\ pc[c] = "lookup"
  /\ RouterOf[job[c]] \notin registered
  /\ GoSave(c, Decided(read[c], "failed"))
  /\ UNCHANGED <<dbVars, tokens, circuit, active, routerVars, confirmed, faults>>

(* egress.assertAllowed throws out of processNext: nothing is saved. *)
EgressDenied(c) ==
  /\ pc[c] = "lookup"
  /\ RouterOf[job[c]] \in registered \ AllowedRouters
  /\ Release(c)
  /\ UNCHANGED <<dbVars, tokens, circuit, routerVars, confirmed, faults>>

(* The circuit breaker admits the call, or the job is put off. *)
PassCircuit(c) ==
  LET p == ProcessOf[c]
      r == RouterOf[job[c]] IN
  /\ pc[c] = "lookup"
  /\ r \in registered \cap AllowedRouters
  /\ \/ /\ Admits(circuit[p][r])
        /\ circuit' = [circuit EXCEPT ![p][r] = TryAcquire(@)]
        /\ pc' = [pc EXCEPT ![c] = "observing"]
        /\ UNCHANGED <<job, read, slot, sent, next>>
     \/ /\ ~Admits(circuit[p][r])
        /\ GoSave(c, Deferred(read[c]))
        /\ UNCHANGED circuit
  /\ UNCHANGED <<dbVars, tokens, active, routerVars, confirmed, faults>>

(* applyOutcome up to its save: the breaker hears of the outcome first. *)
ApplyOutcome(c, class) ==
  /\ circuit' = [circuit EXCEPT ![ProcessOf[c]][RouterOf[job[c]]] = RecordOutcome(@, class)]
  /\ GoSave(c, AfterAttempt(read[c], class))

(* The preflight observation failed: an attempt, though nothing was sent. *)
ObserveFails(c) ==
  /\ pc[c] = "observing"
  /\ ApplyOutcome(c, "retryable")
  /\ UNCHANGED <<dbVars, tokens, active, routerVars, confirmed, faults>>

ObserveTrusting(c) ==
  /\ pc[c] = "observing"
  /\ IF LastIs(read[c], "uncertain")
       THEN GoSave(c, Decided(read[c], "reconciled"))
       ELSE pc' = [pc EXCEPT ![c] = "executing"] /\ UNCHANGED <<job, read, slot, sent, next>>
  /\ UNCHANGED <<dbVars, tokens, circuit, active, routerVars, confirmed, faults>>

(* The preflight observation arrived; decide from the previous attempt. *)
Observe(c) ==
  LET j == job[c]
      unknown == LastIs(read[c], "uncertain")
      held == unknown /\ KindOf[j] = "pppoe.password.change"
      reconciles == unknown /\ KindOf[j] \in Destructive /\ Confirms(j) IN
  /\ pc[c] = "observing"
  /\ confirmed' = IF Confirms(j) THEN confirmed \cup {j} ELSE confirmed
  /\ \/ /\ held
        /\ GoSave(c, Decided(read[c], "dead_lettered"))
        /\ UNCHANGED circuit
     \/ /\ ~held /\ reconciles
        /\ circuit' = [circuit EXCEPT ![ProcessOf[c]][RouterOf[j]] = ClosedCircuit]
        /\ GoSave(c, Decided(read[c], "reconciled"))
     \/ /\ ~held /\ ~reconciles
        /\ pc' = [pc EXCEPT ![c] = "executing"]
        /\ UNCHANGED <<circuit, job, read, slot, sent, next>>
  /\ UNCHANGED <<dbVars, tokens, active, routerVars, faults>>

(* adapter.execute refuses after its own look at the router. *)
Refuse(c) ==
  /\ pc[c] = "executing"
  /\ NothingToChange(job[c])
  /\ ApplyOutcome(c, "permanent")
  /\ UNCHANGED <<dbVars, tokens, active, routerVars, confirmed, faults>>

(* adapter.execute sends the mutation and waits. *)
Send(c) ==
  /\ pc[c] = "executing"
  /\ ~NothingToChange(job[c])
  /\ pc' = [pc EXCEPT ![c] = "awaiting"]
  /\ sent' = [sent EXCEPT ![c] = "pending"]
  /\ UNCHANGED <<dbVars, tokens, circuit, active, job, read, slot, next, routerVars,
                 confirmed, faults>>

(* The router applies a mutation its caller still waits for. *)
Apply(c) ==
  /\ pc[c] = "awaiting"
  /\ sent[c] = "pending"
  /\ Mutate(job[c])
  /\ sent' = [sent EXCEPT ![c] = "applied"]
  /\ UNCHANGED <<dbVars, tokens, circuit, active, pc, job, read, slot, next, late,
                 confirmed, faults>>

(* The router acknowledged; the adapter reads back and the worker compares. *)
Acknowledge(c) ==
  /\ pc[c] = "awaiting"
  /\ sent[c] = "applied"
  /\ \/ /\ Confirms(job[c])
        /\ ApplyOutcome(c, "success")
        /\ confirmed' = confirmed \cup {job[c]}
     \/ /\ ~Confirms(job[c])
        /\ ApplyOutcome(c, "uncertain")
        /\ UNCHANGED confirmed
  /\ UNCHANGED <<dbVars, tokens, active, routerVars, faults>>

(* The router answers that it will not do it, for good or for now. *)
Reject(c) ==
  /\ pc[c] = "awaiting"
  /\ sent[c] = "pending"
  /\ \E class \in {"permanent", "retryable"} : ApplyOutcome(c, class)
  /\ UNCHANGED <<dbVars, tokens, active, routerVars, confirmed, faults>>

(* Timeout or transport loss: the mutation may have landed, may yet, or not. *)
LoseAnswer(c) ==
  /\ pc[c] \in {"executing", "awaiting"}
  /\ ApplyOutcome(c, "uncertain")
  /\ \/ /\ sent[c] = "pending"
        /\ late' = [late EXCEPT ![job[c]] = @ + 1]
     \/ UNCHANGED late
  /\ UNCHANGED <<dbVars, tokens, active, config, session, confirmed, faults>>

(* A mutation lands after its caller stopped waiting, or never. *)
Straggle(j) ==
  /\ late[j] > 0
  /\ late' = [late EXCEPT ![j] = @ - 1]
  /\ Mutate(j) \/ UNCHANGED <<config, session>>
  /\ UNCHANGED <<dbVars, tokens, circuit, active, callVars, confirmed, faults>>

-----------------------------------------------------------------------------
(* Faults and deadlines *)

(* getRouter or save throws on a database error; save may have committed. *)
DatabaseError(c) ==
  /\ faults < MaxFaults
  /\ faults' = faults + 1
  /\ \/ /\ pc[c] \in {"lookup", "saving"}
        /\ UNCHANGED <<rowVars, orderVars>>
     \/ /\ pc[c] = "saving"
        /\ Accepts(c)
        /\ Store(c)
  /\ Release(c)
  /\ UNCHANGED <<registered, tokens, circuit, routerVars, confirmed>>

(* A worker process dies and starts again: its memory is gone, its rows stay
   running until their leases elapse, its mutations may still land. *)
Crash(p) ==
  LET lost(c) == ProcessOf[c] = p
      reset(f, value) == [c \in Calls |-> IF lost(c) THEN value ELSE f[c]] IN
  /\ faults < MaxFaults
  /\ faults' = faults + 1
  /\ pc' = reset(pc, "idle")
  /\ job' = reset(job, NoJob)
  /\ read' = reset(read, <<>>)
  /\ slot' = reset(slot, FALSE)
  /\ sent' = reset(sent, "no")
  /\ next' = reset(next, NoSave)
  /\ tokens' = [tokens EXCEPT ![p] = {}]
  /\ circuit' = [circuit EXCEPT ![p] = [r \in Routers |-> ClosedCircuit]]
  /\ active' = [active EXCEPT ![p] = [r \in Routers |-> 0]]
  /\ late' = [j \in Jobs |->
       late[j] + Cardinality({c \in Calls : lost(c) /\ job[c] = j /\ sent[c] = "pending"})]
  /\ UNCHANGED <<dbVars, config, session, confirmed>>

(* available_at passes. *)
BecomeDue(j) ==
  /\ state[j] \in Waiting
  /\ ~due[j]
  /\ due' = [due EXCEPT ![j] = TRUE]
  /\ UNCHANGED <<state, attempts, leaseVars, orderVars, registered, tokens, circuit, active,
                 callVars, routerVars, confirmed, faults>>

(* lease_expires_at passes: routine once the holder is gone, a fault while it
   still works (an observation alone may take three router timeouts, and the
   default lease is no longer than that). *)
LeaseElapses(j) ==
  LET outlived == \E c \in Calls : job[c] = j /\ ProcessOf[c] = owner[j] IN
  /\ leased[j]
  /\ leased' = [leased EXCEPT ![j] = FALSE]
  /\ \/ ~outlived /\ UNCHANGED faults
     \/ outlived /\ faults < MaxFaults /\ faults' = faults + 1
  /\ UNCHANGED <<state, due, attempts, owner, orderVars, registered, tokens, circuit, active,
                 callVars, routerVars, confirmed>>

(* openedAt + resetAfterMs passes. *)
CircuitElapses(p, r) ==
  LET breaker == circuit[p][r] IN
  /\ breaker.gate = "open"
  /\ circuit' = [circuit EXCEPT ![p][r] = [failures |-> breaker.failures, gate |-> "elapsed",
                                           probe |-> breaker.probe]]
  /\ UNCHANGED <<dbVars, tokens, active, callVars, routerVars, confirmed, faults>>

-----------------------------------------------------------------------------
CallStep(c) ==
  \/ Claim(c) \/ Save(c) \/ SaveRejected(c)
  \/ RouterUnavailable(c) \/ EgressDenied(c) \/ PassCircuit(c)
  \/ ObserveFails(c) \/ Observe(c) \/ Refuse(c) \/ Send(c)
  \/ Acknowledge(c) \/ Reject(c) \/ LoseAnswer(c)

Deadline ==
  \/ \E j \in Jobs : BecomeDue(j) \/ LeaseElapses(j)
  \/ \E p \in Processes, r \in Routers : CircuitElapses(p, r)

Next ==
  \/ \E j \in Jobs : Enqueue(j) \/ Straggle(j)
  \/ \E r \in Provisioned : RegisterRouter(r)
  \/ \E c \in Calls : CallStep(c) \/ Apply(c) \/ DatabaseError(c)
  \/ \E p \in Processes : Crash(p)
  \/ Deadline

Spec == Init /\ [][Next]_vars

(* setInterval keeps polling, every await settles (each has a timeout), and
   clocks move.  Nothing forces a router to apply or reject, nor a fault. *)
Fairness ==
  /\ \A c \in Calls : WF_vars(CallStep(c))
  /\ \A j \in Jobs : WF_vars(BecomeDue(j)) /\ WF_vars(LeaseElapses(j))
  /\ \A p \in Processes, r \in Routers : WF_vars(CircuitElapses(p, r))

FairSpec == Spec /\ Fairness

(* A poll is shorter than a lease or a retry delay (250 ms against 30 s and
   400 ms by default), so a job that keeps becoming available between older
   ones is claimed in the end. *)
PollsOften == \A c \in Calls, j \in Jobs : SF_vars(ClaimJob(c, j))

PollingSpec == FairSpec /\ PollsOften

-----------------------------------------------------------------------------
(* Properties *)

(* worker.ts:177 and docs/integrations/network-worker.md:69.  A saved history
   of attempts is only ever extended, by at most one attempt at a time: no
   save made under a superseded claim rewrites what a later claim recorded. *)
AttemptsOnlyGrow ==
  [][\A j \in Jobs :
       \/ attempts'[j] = attempts[j]
       \/ \E class \in Classes : attempts'[j] = Append(attempts[j], class)]_vars

(* save_job and claim_job.  A job that reached a terminal state keeps it and
   its history, whichever stale call or crashed process wakes up later. *)
TerminalIsFinal ==
  [][\A j \in Jobs : state[j] \in Terminal =>
       /\ state'[j] = state[j]
       /\ attempts'[j] = attempts[j]]_vars

(* worker.ts:188.  No history outgrows maxAttempts, whatever crashes, lease
   losses and deferrals happen between the attempts. *)
AttemptsBounded == \A j \in Jobs : Len(attempts[j]) <= MaxAttempts

(* worker.ts:106 and :154.  A job is reported done only if some observation
   of the router showed its desired state. *)
DoneWasObserved == \A j \in Jobs : state[j] \in Done => j \in confirmed

(* sync_sales_order_network_job.  An order's activation task mirrors its job:
   it completes, and billing is released, exactly with a successful job. *)
OrderFollowsJob ==
  \A j \in OrderJobs :
    /\ task[j] = "completed" <=> state[j] \in Done
    /\ task[j] = "failed" <=> state[j] \in Terminal \ Done
    /\ billing[j] = "ready" <=> state[j] \in Done

(* policy.ts:46.  A half-open probe is always somebody's: a call of the same
   process is between tryAcquire and the outcome it will record. *)
ProbeIsOwned ==
  \A p \in Processes, r \in Routers :
    circuit[p][r].probe =>
      \E c \in Calls : /\ ProcessOf[c] = p
                       /\ pc[c] \in {"observing", "executing", "awaiting"}
                       /\ RouterOf[job[c]] = r

(* RouterConcurrencyLimiter: the slots in use are the calls that hold one,
   never more than the limit, and none leaks on any way out of processNext. *)
SlotsAccounted ==
  \A p \in Processes, r \in Routers :
    /\ active[p][r] <= LimitPerRouter
    /\ active[p][r] = Cardinality({c \in Calls : /\ ProcessOf[c] = p
                                                 /\ slot[c]
                                                 /\ RouterOf[job[c]] = r})

(* server.ts:65.  Every job enqueued for a router of the allowlist is eventually
   decided, whatever older jobs keep failing, crashing or being refused. *)
EventuallyDecided ==
  \A j \in Jobs : RouterOf[j] \in AllowedRouters =>
    (state[j] = "queued") ~> (state[j] \in Terminal)

-----------------------------------------------------------------------------
(* What the lease protocol maintains when each process runs one call at a time,
   as server.ts does: the inductive invariant behind AttemptsOnlyGrow,
   TerminalIsFinal and AttemptsBounded. *)

OneCallPerProcess == \A c, d \in Calls : ProcessOf[c] = ProcessOf[d] => c = d

RowsConsistent ==
  \A j \in Jobs :
    /\ owner[j] # NoOwner <=> state[j] = "running"
    /\ state[j] \notin Terminal => Len(attempts[j]) < MaxAttempts
    /\ Len(attempts[j]) <= MaxAttempts

(* What a call may save over a history: the history itself or one attempt
   more, open only while attempts are left, done only if something was tried. *)
Extends(record, history) ==
  /\ record.state \in Waiting \cup Terminal
  /\ record.state \notin Terminal => Len(record.attempts) < MaxAttempts
  /\ \/ record.attempts = history /\ (record.state \in Done => history # <<>>)
     \/ \E class \in Classes : record.attempts = Append(history, class)

(* A call whose token the row would accept holds the row's own history, and
   what it is about to save extends that history. *)
CallsConsistent ==
  \A c \in Calls : pc[c] # "idle" =>
    /\ Len(read[c]) < MaxAttempts
    /\ Accepts(c) => read[c] = attempts[job[c]]
    /\ pc[c] = "saving" => Extends(next[c], read[c])

LeaseInvariant == RowsConsistent /\ CallsConsistent

(* The abstract contract: a job is decided once, after at most maxAttempts
   recorded attempts. *)
Contract ==
  INSTANCE NetworkJobContract WITH
    verdict <- [j \in Jobs |->
                 IF state[j] = "absent" THEN "absent"
                 ELSE IF state[j] \in Done THEN "done"
                 ELSE IF state[j] \in Terminal THEN "given_up"
                 ELSE "open"],
    tries <- [j \in Jobs |-> Len(attempts[j])]

(* Every behaviour of the worker is one the contract allows. *)
MeetsContract == Contract!Spec
==============================================================================
