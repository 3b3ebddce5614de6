------------------------------ MODULE AuditRelay ------------------------------
(***************************************************************************)
(* The relay between the control plane and the tenant planes: the cycle of *)
(* FinanceAuditRelay and the three drains of server.ts.                    *)
(*                                                                         *)
(* Each tenant has three streams of events.  Finance and operations audits *)
(* go from the tenant's database to the control plane; subscription states *)
(* go from the control plane to the tenant's database.  A stream has an    *)
(* outbox in the source database, whose rows are written with the business *)
(* change and marked when delivered.  An event is <<tenant, stream, n>>:   *)
(* n is its place in the order the outbox is read in, the revision of a    *)
(* subscription state.                                                     *)
(*                                                                         *)
(* Several relays may run, as while one replaces another.  Times are       *)
(* abstracted: a tenant's backoff is over or not, and polls just happen.   *)
(***************************************************************************)
EXTENDS Naturals, FiniteSets

CONSTANTS
  Tenants, NoTenant,   \* the platform's clients; a relay between two tenants
  Hosted,              \* tenants whose data is in a configured database
  Configured,          \* tenants of FINANCE_AUDIT_TENANTS_JSON
  Leads,               \* clients whose subscription may begin as a lead
  Relays,              \* relay processes
  BatchSize,           \* FINANCE_AUDIT_BATCH_SIZE
  Audits,              \* bound: audit events that may be written
  MaxRevision,         \* bound: states of each tenant's subscription
  MaxFaults            \* bound: failing queries and crashes

AuditStreams == {"finance", "operations"}
Streams == AuditStreams \cup {"states"}
Events == Tenants \X Streams \X Nat

ASSUME TenantsAssumption ==
  /\ NoTenant \notin Tenants
  /\ Configured \subseteq Hosted /\ Hosted \subseteq Tenants
  /\ Configured # {}
  /\ Leads \subseteq Tenants
ASSUME EventsAssumption ==
  /\ Audits \subseteq Hosted \X AuditStreams \X Nat
  /\ MaxRevision \in [Tenants -> Nat]
ASSUME RelayAssumption ==
  /\ IsFiniteSet(Relays)
  /\ BatchSize \in Nat \ {0} /\ MaxFaults \in Nat

VARIABLES
  written,             \* outbox rows
  arrived,             \* audit_events; operations_platform_subscription_events
  marked,              \* outbox rows with a delivered_at, committed
  leads,               \* per tenant: its first revisions that are leads
  pc,                  \* per relay: its step
  known,               \*   knownTenantsByDatabase
  todo,                \*   tenants this cycle has not come to
  due,                 \*   tenants whose nextAttemptAtMs is past
  tenant, stream, rows,  \*   the drain it is in, what is left of its batch
  marks,               \*   rows marked in its open transaction
  faults               \* failing queries and crashes so far

outboxes == <<written, leads>>
drain == <<tenant, stream, rows>>
vars == <<outboxes, arrived, marked, pc, known, todo, due, drain, marks, faults>>

TypeOK ==
  /\ written \subseteq Events /\ arrived \subseteq Events /\ marked \subseteq Events
  /\ leads \in [Tenants -> Nat]
  /\ pc \in [Relays -> {"listed", "turn", "read", "deliver", "mark"}]
  /\ known \in [Relays -> SUBSET Hosted]
  /\ todo \in [Relays -> SUBSET Hosted]
  /\ \A r \in Relays : todo[r] \subseteq known[r]
  /\ due \in [Relays -> SUBSET Tenants]
  /\ tenant \in [Relays -> Hosted \cup {NoTenant}]
  /\ stream \in [Relays -> Streams]
  /\ rows \in [Relays -> SUBSET Nat]
  /\ marks \in [Relays -> SUBSET Events]
  /\ faults \in 0..MaxFaults

Init ==
  /\ written = {} /\ arrived = {} /\ marked = {}
  /\ leads = [t \in Tenants |-> 0]
  /\ pc = [r \in Relays |-> "turn"]
  /\ known = [r \in Relays |-> Configured]
  /\ todo = [r \in Relays |-> {}]
  /\ due = [r \in Relays |-> Tenants]
  /\ tenant = [r \in Relays |-> NoTenant]
  /\ stream = [r \in Relays |-> "finance"]
  /\ rows = [r \in Relays |-> {}]
  /\ marks = [r \in Relays |-> {}]
  /\ faults = 0

(* The places of tenant t's events in one stream. *)
Numbers(events, t, s) == {e[3] : e \in {f \in events : f[1] = t /\ f[2] = s}}
Pending(t, s) == Numbers(written \ marked, t, s)
Revisions(t) == Numbers(written, t, "states")
Recorded(t) == Numbers(arrived, t, "states")

-----------------------------------------------------------------------------
(* The business: an outbox row in the transaction of the change it tells of *)

(* Transactions commit in any order; the outbox is read in another, that of
   created_at or occurred_at. *)
WriteAudit(e) ==
  /\ e \in Audits \ written
  /\ written' = written \cup {e}
  /\ UNCHANGED <<leads, arrived, marked, pc, known, todo, due, drain, marks, faults>>

(* Assigning or changing a subscription: its row is locked, so revisions come
   in order.  A lead stays one until its first transition. *)
PublishState(t) ==
  LET n == Cardinality(Revisions(t)) + 1 IN
  /\ n <= MaxRevision[t]
  /\ written' = written \cup {<<t, "states", n>>}
  /\ \/ /\ t \in Leads /\ leads[t] = n - 1
        /\ leads' = [leads EXCEPT ![t] = n]
     \/ UNCHANGED leads
  /\ UNCHANGED <<arrived, marked, pc, known, todo, due, drain, marks, faults>>

-----------------------------------------------------------------------------
(* One cycle *)

(* discoverTargets: tenants with pending audits in the databases it is
   configured with join the ones it knows. *)
ListTenants(r) ==
  /\ pc[r] = "turn" /\ todo[r] = {}
  /\ known' = [known EXCEPT ![r] = known[r] \cup
                 {t \in Hosted : \E s \in AuditStreams : Pending(t, s) # {}}]
  /\ pc' = [pc EXCEPT ![r] = "listed"]
  /\ UNCHANGED <<outboxes, arrived, marked, todo, due, drain, marks, faults>>

(* ... and it throws if a subscription state waits for a tenant it does not know. *)
CheckRoutes(r) ==
  /\ pc[r] = "listed"
  /\ pc' = [pc EXCEPT ![r] = "turn"]
  /\ \/ /\ \A t \in Tenants : Pending(t, "states") # {} => t \in known[r]
        /\ todo' = [todo EXCEPT ![r] = known[r]]
     \/ /\ \E t \in Tenants \ known[r] : Pending(t, "states") # {}
        /\ UNCHANGED todo
  /\ UNCHANGED <<outboxes, arrived, marked, known, due, drain, marks, faults>>

(* The next tenant, unless it is backing off. *)
Turn(r) ==
  \E t \in todo[r] :
    /\ pc[r] = "turn"
    /\ todo' = [todo EXCEPT ![r] = todo[r] \ {t}]
    /\ \/ /\ t \in due[r]
          /\ pc' = [pc EXCEPT ![r] = "read"]
          /\ tenant' = [tenant EXCEPT ![r] = t]
       \/ /\ t \notin due[r]
          /\ UNCHANGED <<pc, tenant>>
    /\ UNCHANGED <<outboxes, arrived, marked, known, due, stream, rows, marks, faults>>

(* The backoff of a tenant ends. *)
BecomeDue(r, t) ==
  /\ t \notin due[r]
  /\ due' = [due EXCEPT ![r] = due[r] \cup {t}]
  /\ UNCHANGED <<outboxes, arrived, marked, pc, known, todo, drain, marks, faults>>

-----------------------------------------------------------------------------
(* One drain: a batch of pending rows, each delivered and then marked *)

Leave(r) ==
  /\ pc' = [pc EXCEPT ![r] = "turn"]
  /\ tenant' = [tenant EXCEPT ![r] = NoTenant]
  /\ stream' = [stream EXCEPT ![r] = "finance"]
  /\ rows' = [rows EXCEPT ![r] = {}]
  /\ marks' = [marks EXCEPT ![r] = {}]

Batch(t, s) ==
  {n \in Pending(t, s) : Cardinality({m \in Pending(t, s) : m <= n}) <= BatchSize}

ReadBatch(r) ==
  /\ pc[r] = "read"
  /\ rows' = [rows EXCEPT ![r] = Batch(tenant[r], stream[r])]
  /\ pc' = [pc EXCEPT ![r] = "deliver"]
  /\ UNCHANGED <<outboxes, arrived, marked, known, todo, due, tenant, stream, marks, faults>>

(* Variant: the outbox is read without an order. *)
AnyRow(r, n) == n \in rows[r]

First(r, n) == n \in rows[r] /\ \A m \in rows[r] : n <= m
Event(r, n) == <<tenant[r], stream[r], n>>

(* Variant: a revision that is already recorded is stale. *)
Newer(t, n) == n > leads[t] /\ \A m \in Recorded(t) : m < n

(* record_operations_platform_subscription_state knows no lead, and no revision
   below one that is recorded; the same event again is fine. *)
Acceptable(t, n) ==
  \/ n \in Recorded(t)
  \/ n > leads[t] /\ \A m \in Recorded(t) : m < n

(* The insert is one transaction in the other database, and idempotent. *)
Deliver(r) ==
  \E n \in rows[r] :
    /\ pc[r] = "deliver"
    /\ First(r, n)
    /\ stream[r] = "states" => Acceptable(tenant[r], n)
    /\ arrived' = arrived \cup {Event(r, n)}
    /\ pc' = [pc EXCEPT ![r] = "mark"]
    /\ UNCHANGED <<outboxes, marked, known, todo, due, drain, marks, faults>>

(* Variant: a row is marked under no lock. *)
MarkUnlocked(r) ==
  \E n \in rows[r] :
    /\ pc[r] = "mark"
    /\ First(r, n)
    /\ \/ /\ stream[r] = "states"
          /\ marked' = marked \cup {Event(r, n)}
          /\ UNCHANGED marks
       \/ /\ stream[r] \in AuditStreams
          /\ marks' = [marks EXCEPT ![r] = marks[r] \cup {Event(r, n)}]
          /\ UNCHANGED marked
    /\ rows' = [rows EXCEPT ![r] = rows[r] \ {n}]
    /\ pc' = [pc EXCEPT ![r] = "deliver"]
    /\ UNCHANGED <<outboxes, arrived, known, todo, due, tenant, stream, faults>>

(* An audit's mark is part of the drain's transaction and waits for another
   relay that has marked the same row; a state's mark is committed at once. *)
Mark(r) ==
  \E n \in rows[r] :
    /\ pc[r] = "mark"
    /\ First(r, n)
    /\ \/ /\ stream[r] = "states"
          /\ marked' = marked \cup {Event(r, n)}
          /\ UNCHANGED marks
       \/ /\ stream[r] \in AuditStreams
          /\ \A q \in Relays \ {r} : Event(r, n) \notin marks[q]
          /\ marks' = [marks EXCEPT ![r] = marks[r] \cup ({Event(r, n)} \ marked)]
          /\ UNCHANGED marked
    /\ rows' = [rows EXCEPT ![r] = rows[r] \ {n}]
    /\ pc' = [pc EXCEPT ![r] = "deliver"]
    /\ UNCHANGED <<outboxes, arrived, known, todo, due, tenant, stream, faults>>

(* The batch is done: an audit drain commits, finance before operations. *)
Commit(r) ==
  /\ pc[r] = "deliver" /\ rows[r] = {}
  /\ stream[r] \in AuditStreams
  /\ marked' = marked \cup marks[r]
  /\ marks' = [marks EXCEPT ![r] = {}]
  /\ stream' = [stream EXCEPT ![r] = IF stream[r] = "finance" THEN "operations" ELSE "states"]
  /\ pc' = [pc EXCEPT ![r] = "read"]
  /\ UNCHANGED <<outboxes, arrived, known, todo, due, tenant, rows, faults>>

(* The states are done; the backlog is read and the tenant's turn is over. *)
EndTurn(r) ==
  /\ pc[r] = "deliver" /\ rows[r] = {}
  /\ stream[r] = "states"
  /\ Leave(r)
  /\ UNCHANGED <<outboxes, arrived, marked, known, todo, due, faults>>

-----------------------------------------------------------------------------
(* Failures *)

(* Variant: a drain that throws ends the cycle. *)
BackOffAndStop(r) ==
  /\ due' = [due EXCEPT ![r] = due[r] \ {tenant[r]}]
  /\ todo' = [todo EXCEPT ![r] = {}]
  /\ Leave(r)
  /\ UNCHANGED <<outboxes, arrived, marked, known>>

(* A drain throws: its transaction is rolled back and the tenant backs off. *)
BackOff(r) ==
  /\ due' = [due EXCEPT ![r] = due[r] \ {tenant[r]}]
  /\ Leave(r)
  /\ UNCHANGED <<outboxes, arrived, marked, known, todo>>

(* The tenant's database refuses a state. *)
Refuse(r) ==
  \E n \in rows[r] :
    /\ pc[r] = "deliver"
    /\ First(r, n)
    /\ stream[r] = "states" /\ ~Acceptable(tenant[r], n)
    /\ BackOff(r)
    /\ UNCHANGED faults

Fault == faults < MaxFaults /\ faults' = faults + 1

(* A probe, a query or a commit of a drain fails. *)
QueryFails(r) ==
  /\ Fault
  /\ pc[r] \in {"read", "deliver", "mark"}
  /\ BackOff(r)

(* A query of the discovery fails. *)
DiscoveryFails(r) ==
  /\ Fault
  /\ pc[r] = "listed"
  /\ pc' = [pc EXCEPT ![r] = "turn"]
  /\ UNCHANGED <<outboxes, arrived, marked, known, todo, due, drain, marks>>

(* The relay stops, gracefully between two tenants or not, and another starts. *)
Restart(r) ==
  /\ Fault
  /\ pc' = [pc EXCEPT ![r] = "turn"]
  /\ known' = [known EXCEPT ![r] = Configured]
  /\ todo' = [todo EXCEPT ![r] = {}]
  /\ due' = [due EXCEPT ![r] = Tenants]
  /\ tenant' = [tenant EXCEPT ![r] = NoTenant]
  /\ stream' = [stream EXCEPT ![r] = "finance"]
  /\ rows' = [rows EXCEPT ![r] = {}]
  /\ marks' = [marks EXCEPT ![r] = {}]
  /\ UNCHANGED <<outboxes, arrived, marked>>

-----------------------------------------------------------------------------
RelayStep(r) ==
  \/ ListTenants(r) \/ CheckRoutes(r) \/ Turn(r)
  \/ ReadBatch(r) \/ Deliver(r) \/ Mark(r) \/ Commit(r) \/ EndTurn(r) \/ Refuse(r)

Next ==
  \/ \E e \in Audits : WriteAudit(e)
  \/ \E t \in Tenants : PublishState(t)
  \/ \E r \in Relays : RelayStep(r) \/ QueryFails(r) \/ DiscoveryFails(r) \/ Restart(r)
  \/ \E r \in Relays, t \in Tenants : BecomeDue(r, t)

Spec == Init /\ [][Next]_vars

(* Every await settles and polls go on; a backoff is capped. *)
Fairness ==
  /\ \A r \in Relays : WF_vars(RelayStep(r))
  /\ \A r \in Relays, t \in Tenants : WF_vars(BecomeDue(r, t))

FairSpec == Spec /\ Fairness

-----------------------------------------------------------------------------
(* Properties *)

(* finance-audit-outbox.ts:63-88, operations-relay.ts:42-81.  What an outbox no
   longer shows as pending is in the other database, whatever was rolled back,
   repeated or delivered by two relays at once. *)
MarkedHasArrived == marked \subseteq arrived

(* operations-relay.ts:69, 202608112200:1170.  A tenant's database has the first
   states of its subscription without a gap: the newest it has was the newest
   once, and none is skipped because a later one arrived first. *)
StatesInOrder ==
  \A t \in Tenants : \A n \in Recorded(t) : 1..n \subseteq Recorded(t)

(* finance-audit-outbox.ts:84.  Two relays never hold the same mark, and neither
   marks again what is committed. *)
MarkedOnce ==
  \A r \in Relays :
    /\ marks[r] \cap marked = {}
    /\ \A q \in Relays \ {r} : marks[r] \cap marks[q] = {}

(* The update of r's next row waits for the transaction in which q updated it. *)
WaitsFor(r, q) ==
  /\ pc[r] = "mark" /\ stream[r] \in AuditStreams
  /\ q # r /\ \E n \in rows[r] : First(r, n) /\ Event(r, n) \in marks[q]

(* finance-audit-outbox.ts:63-88, operations-relay.ts:42-57.  However many relays
   drain a tenant at once, among any of them is one whose update waits for none of
   the others: they lock the rows of an outbox in the order it is read in. *)
NoCircularWait ==
  \A S \in SUBSET Relays : S # {} => \E r \in S : \A q \in S : ~WaitsFor(r, q)

Reachable == \A t \in Tenants : Revisions(t) # {} => t \in Configured

(* workers/finance-audit-relay/README.md:5.  Every audit event arrives and is marked,
   also of a tenant whose states are refused, and whatever other tenants do,
   while nobody without a route has a subscription. *)
AuditsArrive ==
  \A e \in Audits : (e \in written) ~> (e \in marked \/ ~Reachable)

(* Every state arrives, of a client that did not begin as a lead, while
   others' are refused. *)
StatesArrive ==
  \A t \in Tenants : \A n \in 1..MaxRevision[t] :
    (n \in Revisions(t)) ~> (<<t, "states", n>> \in marked \/ leads[t] > 0 \/ ~Reachable)

(* Each stream is an outbox: at-least-once, states in order. *)
Outbox == INSTANCE OutboxDelivery WITH acknowledged <- marked

DeliversOutbox == Outbox!Spec

-----------------------------------------------------------------------------
(* The inductive invariant behind MarkedHasArrived, StatesInOrder, MarkedOnce,
   NoCircularWait and DeliversOutbox *)

RevisionsContiguous == \A t \in Tenants : \E k \in 0..MaxRevision[t] : Revisions(t) = 1..k

(* A drain reads rows of its tenant, marks in their order what it has delivered,
   and leaves out no state below one that it has yet to deliver. *)
DrainConsistent(r) ==
  /\ pc[r] \in {"read", "deliver", "mark"} => tenant[r] \in Hosted
  /\ pc[r] \notin {"deliver", "mark"} => rows[r] = {} /\ marks[r] = {}
  /\ \A n \in rows[r] : Event(r, n) \in written
  /\ pc[r] = "mark" => \E n \in rows[r] : First(r, n) /\ Event(r, n) \in arrived
  /\ marks[r] \subseteq arrived
  /\ \A e \in marks[r] :
       /\ e[1] = tenant[r] /\ e[2] = stream[r] /\ stream[r] \in AuditStreams
       /\ \A n \in rows[r] : e[3] < n
  /\ stream[r] = "states" =>
       \A n \in rows[r] : \A m \in 1..n : m \in rows[r] \/ Event(r, m) \in marked

DrainsConsistent == \A r \in Relays : DrainConsistent(r)

(* relay.ts:151-155 with the drains of server.ts:51-74.  Whatever other relays and
   rollbacks do between two calls of a drain, what it is about to mark is in the
   other database and what it is about to deliver comes next. *)
DeliveryInvariant ==
  /\ RevisionsContiguous /\ DrainsConsistent
  /\ MarkedHasArrived /\ StatesInOrder /\ MarkedOnce
===============================================================================
