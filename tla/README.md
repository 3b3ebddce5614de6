# Orvex ISP: TLA+ models, checks and proofs

Orvex ISP is a multi-tenant platform for internet service providers: a TypeScript
monorepo over PostgreSQL, with a control plane (one database for the platform) and
tenant planes (one database or schema set per provider).  Most of its rules live in
PL/pgSQL functions and in the TypeScript repositories that call them; most of what
can go wrong lives between them: workers that claim rows under leases, relays that
copy outboxes from one database to another, and a collector's phone that keeps a
ledger of its own and synchronises it later.

This directory holds TLA+ modules translated from that code, the TLC
configurations that check them on small instances, and theorems about them with
proofs that TLAPS checks for every instance.  All paths are relative to the
repository, which is found under `src/`.

## 1. Inventory

### 1.1 Network worker and durable job queue

*Where.* `workers/network-worker/src`, migrations `202608112500`, `202608310200`,
`202609021809`.

*State.* The rows of `network_worker.jobs` (the job document with its state and its
recorded attempts, `available_at`, the lease: owner, token, expiry), the enabled rows
of `network_worker.routers`, the sales order tasks an activation job completes; in
each worker process a map from job to remembered lease token, one circuit breaker
and one concurrency counter per router; on each router the PPP secrets and sessions.

*Operations.* `enqueue_job`, `register_router`, `claim_job`, `save_job` with
`sync_sales_order_network_job`; `NetworkWorker.processNext` with `processClaimed`,
`applyOutcome`, `finishFailure`, `rescheduleWithoutAttempt`; the RouterOS adapter's
`observe` and `execute`; `RouterCircuitBreaker`, `RouterConcurrencyLimiter`.

*Interactions.* Processes meet in the database (claims and conditional saves) and on
the routers (mutations); the order module meets the queue through `save_job`.

*Hard.* Every `await` of `processClaimed` is a place where the lease may be lost, the
router may act late and another process may claim the same row; a database error may
hide a commit; a process may die between the router's action and the save.

*Correct when.* A recorded history only grows; a decided job stays decided; a job is
reported done only if some observation showed the desired state; attempts are
bounded; order tasks mirror their job; no probe or slot leaks; every job is decided.

### 1.2 Finance audit relay

*Where.* `workers/finance-audit-relay/src`, `packages/database/src/finance-audit-outbox.ts`,
`operations-relay.ts`, migrations `202608111530`, `202608111700`, parts of `202608112100`
and `202608112200`.

*State.* Tenant outboxes of finance and operations audit events, the control-plane
`audit_events`, the control-plane outbox of subscription states and the tenant's
`operations_platform_subscription_events`; in the process the retry deadlines.

*Operations.* The relay cycle (probe, discovery, one drain per tenant, backlog),
`deliverFinanceAuditEvent`, the two audit drains (a tenant transaction around
independent control transactions), the subscription state drain (no transaction).

*Hard.* A batch is delivered in the control plane before it is marked in the tenant
plane; several relays may run; one bad event or one unrouted tenant stops others.

*Correct when.* An event is marked only if the control plane has it; nothing is lost;
a tenant's subscription state follows the control plane's revisions; every event is
delivered in the end.

### 1.3 Collect: the collector's phone and its backend

*Where.* `apps/collect/src/core`, `packages/database/src/collect/repository.ts`,
`apps/api/src/collect-service.ts`, migrations `202608112300` and `202609021807`.

*State.* On the phone one encrypted document: payments, reconciliations, an outbox of
operations with local sequence numbers, dependencies and statuses; three files (next,
current, backup) that hold it.  On the server the device rows with `last_sequence`, the
ledger of synchronised operations, payments, allocations, collection evidence,
reconciliation submissions and approvals, token digests.

*Operations.* `recordPayment`, `printReceipt`, `saveReconciliationDraft`,
`submitReconciliation`, `installBootstrap`, `CollectSyncEngine.sync`,
`ProductionCollectApi.push`, `syncCollectOperations`, `approveCollectDiscrepancy`,
`rotate_collect_device_tokens`; `ExpoAesGcmStateDriver.replace` and `read`.

*Hard.* A sync reads the outbox, awaits the network and then writes by operation id;
answers are lost after the server committed; the process is killed inside a file
replacement; the server wants contiguous sequences and rolls whole batches back.

*Correct when.* No payment is posted twice or lost; what the phone calls accepted is in
the server's ledger with the same content; a committed document survives any crash;
every recorded payment is settled in the end.

### 1.4 Customer orders and services

*Where.* `packages/database/src/operations/sales.ts`, `repository.ts`,
`service-lifecycle.ts`, migrations `202608300210`, `202608300230`, `202608310000`,
`202608310400`, `202609021809`, parts of `202608112200` and `202608112500`.

*State.* Leads, quotations, service orders with six chained tasks, reservations of
capacity, installations, services, change orders, the outbox row and job of an
activation.

*Operations.* From the lead to the acceptance of a quotation; conversion, reservation,
installation, activation and first invoice; hold, resume, retry and cancel; installation
events; service change orders and network actions; the worker's results.

*Hard.* Four parties move the same tasks: sales staff, dispatchers, the worker and the
commands on an order, most of them through triggers on other tables; a resume reads
tasks under a lock that the triggers do not take.

*Correct when.* Steps are delivered one after the other and once, an order that ended
stays ended, a network step has the outcome of the job it queued, capacity is not
promised twice.

### 1.5 Field service

*Where.* `operations/field-service.ts`, migration `202609080100`.  *State.* Technicians,
work orders, revisits; the installations of 1.4.  *Hard.* Two screens move one
installation; a technician is read without a lock.  *Correct when.* Work under way is
staffed and appointed, an installation is attended once, failed work goes on, and orders
cannot tell which screen acted.

### 1.6 Finance journal, accounting and customer accounts

*Where.* `packages/database/src/finance-repository.ts`,
`operations/{billing,accounting,customer-accounts}.ts`, `collect/repository.ts`,
migrations `202608111230`, `202609021200`, `202609021800` to `202609021806`.

*State.* Append-only invoices, receipts, allocations, deposits, credit notes and
reversals; a guard row per document; the journal; closed periods.

*Hard.* Four interfaces spend and take back the same money and five triggers keep its
balances; clients date what they post, also backwards, while periods are closed.

*Correct when.* No document is settled beyond what is left of it, guards, journal and
statement agree, a closed period never changes and nothing in it is unclassified.

### 1.7 Warehouse and procurement

*Where.* `operations/warehouse.ts`, migrations `202609021500`, `202609021810`,
`202609050900` to `202609051400`.

*State.* Catalog, warehouses, bins, vendors; bulk stock per item and place with
reservations and counts; serialized equipment with its custody and repair cases; quote
requests, quotes, purchase orders and what arrived of them; the inventory account.

*Hard.* A count is closed long after its shelves were frozen, with goods moved and held
in between; one receipt changes shelves, equipment, order lines and two accounts; custody
and repair cases move one device through two interfaces.

*Correct when.* What is held is there, the account values what the tenant has as long as costs
stay, orders arrive once and come from one award, a device is in one place and settled once.

### 1.8 Billing runs and dunning

*Where.* `operations/repository.ts` (`prepareRecurringInvoices`), `operations/sales.ts`
(`postSalesOrderFirstInvoice`), `operations/billing.ts` (`evaluateDunning`), migrations
`202608112200` and `202609021000`.

*State.* Billing runs with a period, a scope and a status; an item per run and service;
drafts of invoices; dunning cases, one per posted invoice.

*Operations.* A run, the retry of one that failed, the first invoice of an order, which
makes a run of its own; an evaluation for a day its caller names.

*Hard.* A failed run keeps its drafts and frees its period; the guard against overlaps
reads only the runs its caller may see; between two evaluations an invoice is paid,
credited or reversed, and payments are taken back.

*Correct when.* An item says what was done, nobody is billed twice for a day, a case
follows what its invoice owes and never goes back.

### 1.9 Authentication, control center, usage, dealers

*Authentication* (`apps/api/src/auth-service.ts`, migration `202608112400`): sessions with
a chain of refresh tokens, lock-out, multi-factor challenges.  *Control center*
(`packages/database/src/control-center`, migration `202608112100`): clients, subscriptions
with revisions, invoices, allocations; only its outbox of states is part of 1.2.
*Usage, outages, tickets, dealers*: the other tables of
`packages/database/src/operations`.  Not modelled, see 13.

### 1.10 Not state machines

HTTP routes, web applications, the user interface kit, provider adapters, build files
and deployment: they validate, render or forward, and keep no state that outlives a
request beyond what the components above keep.

## 2. Plan

| order | modules | composes | abstract specification | proved |
|---|---|---|---|---|
| 1 | `NetworkWorker` | database, processes, routers, order tasks | `NetworkJobContract` | typing, lease protocol, growth of histories, finality, refinement |
| 2 | `CollectStorage` | store queue, file driver, crashes | `AtomicDocument` | replacement protocol, nothing lost, refinement |
| 3 | `CollectSync` | phone, network, backend | `PaymentLedger` | no double posting, acceptance is evidence, batches in order, refinement |
| 4 | `AuditRelay` | outboxes of both planes, relays | `OutboxDelivery` | marked has arrived, order, refinement |
| 5 | `OrderFulfilment` | sales, installations, services, jobs | `OrderJourney` | the order as a whole, capacity, its activation, refinement |
| 6 | `FieldService` | dispatch over `OrderFulfilment` | `OrderFulfilment` itself | refinement, the board |
| 7 | `FinanceLedger` | documents, guards, journal, periods | `Settlement` | sealed and classified periods, entries of a source, guards and journal and statement agree, refinement |
| 8 | `Premises`, `StockControl`, `EquipmentCustody`, `Procurement`, `Warehouse` | shelves, equipment, buying over one register | `RepairDesk` | holds are covered, orders booked once, the account follows the stock, counts settle, refinement |
| 9 | `BillingRuns`, `BillingRecovery` | runs and drafts, first invoices, what is owed, cases | | items and drafts, overlaps, cases |

All of these are built, checked and proved about.  Left: `AuthSessions`
(refresh rotation and revocation) and the control center's subscriptions and receivables;
rotation, revocation and server-side reconciliation of the Collect backend.

How the modules are laid out: a component is one module with its constants and their
assumptions, its state, one action per stretch of code between two points where others
may step, its properties and its inductive invariant; an `MC...` module where TLC needs
values a `.cfg` cannot write; a `...Proofs` module with its theorems (`AccountingProofs` for
the ledger and billing together); a small module with the abstract specification it
implements.  `SumTheorems` has what several of the proofs use about sums over finite sets.  The type invariants are theorems
and are left out of the runs.  Definitions whose comment begins with
"Variant:" are plausible mistakes in the code.  They are not part of any specification;
each property is known to fail when a variant takes the place of the definition after it.

## 3. `NetworkWorker`

One module, because processes, rows and routers are only interesting together.  Each
stretch of `processClaimed` between two awaits is one action:

| code | action |
|---|---|
| `claimNext` and the limiter | `Claim` |
| `getRouter`, disabled router | `RouterUnavailable` |
| `assertAllowed` throws | `EgressDenied` |
| `circuit.tryAcquire` | `PassCircuit` |
| `observe` fails / arrives | `ObserveFails` / `Observe` |
| `execute` refuses / sends | `Refuse` / `Send` |
| the router acts / answers / says no | `Apply` / `Acknowledge` / `Reject` |
| timeout, transport loss | `LoseAnswer`, then `Straggle` for the command left behind |
| `save` accepted / refused | `Save` / `SaveRejected` |
| a query throws (perhaps after its commit) | `DatabaseError` |
| the process dies | `Crash` |
| `available_at`, `lease_expires_at`, breaker reset pass | `BecomeDue`, `LeaseElapses`, `CircuitElapses` |

*Abstractions.*  Time is reduced to deadlines that pass.  A lease token is reduced to
what `save_job` can tell: whether the row's last claim was made by a process that still
remembers one.  An attempt is its class: success, retryable, permanent, uncertain.  A
router's state is one value per service, and whether its session is up.

*Runs* (all over `MCNetworkWorker`):

| run | instance | what it shows | states |
|---|---|---|---|
| `network_lease` | a job outside the allowlist before one inside, two processes, one fault, two attempts | the lease protocol, done only after a confirming observation, the contract, and that the younger job is decided | 73,000 |
| `network_queue` | an activation and a suspension of one service, one process running two calls, a router that is disabled and enabled, one fault | orders mirror jobs; no probe without its owner; slots are exactly those held | 628,064 |

*Bounds.*  Two processes are what a lease needs to be lost to; a fault is a crash, an
outlived lease or a lost answer of the database; two attempts allow a first and a last
one.  A third process or attempt repeats the same roles.  Two calls of one process are
what the limiter and the half-open probe need to be contended.  `CHECK_DEADLOCK FALSE`,
since jobs come to an end.

*Fairness* (`network_lease`).  `server.ts` polls on an interval and every
await settles because each has a timeout, so each call's next step is weakly fair, and so
are the deadlines.  `PollsOften` adds that a job that is the oldest available again and
again is claimed in the end: the poll interval (250 ms by default) is shorter than a
lease (30 s) and a retry delay (400 ms at least), so between two expiries of an older
job there are polls.  Nothing forces a router to answer or a fault to happen.

*Proved* in `NetworkWorkerProofs`: `TypeCorrect`; `LeaseProtocol`, that `LeaseInvariant`
holds when each process runs one call at a time (`OneCallPerProcess`, what the `polling`
flag of `server.ts` ensures), and from it `AttemptsNeverExceed`, `HistoriesOnlyGrow`,
`DecisionsAreFinal` and `WorkerMeetsContract`, the refinement of `NetworkJobContract`; for
any number of calls in a process `DoneIsObserved`, `TasksFollowJobs`, `SlotsNeverLeak` and
`ProbesAreOwned`.  The last assumes `NoRotations`: a rotation that is held after a half-open
probe leaves the probe taken (section 11), so without the assumption it is false.

*The argument.*  That a saved history only grows is not inductive: one has to know that
the caller still holds the history it read.  `LeaseInvariant` says so: whoever's save the
row would accept (it remembers a token, and the row's last claim was its process's)
has read exactly the row's history, and what it is about to save extends that history.
A claim establishes it, a save of somebody else takes the lease away, and a crash or a
later claim empties or overwrites the remembered token.  `StepShape` then summarises what
one step may do to a row: nothing, an enqueue, a claim, or an accepted save; growth,
finality and the contract are read off it.

That a done job was observed needs what each step of a call knows (`DoneIsConfirmed`): a
call that is about to save success has seen the state it wants, and what was seen once is
not forgotten.  Slots are counted by the calls that hold them (`SlotsHeld`), and a task is
tied to its job from the moment the job is enqueued (`OrderConsistent`).

*Left out.*  TLS and certificate checks, request formats, batch previews, the simulator.

## 4. `CollectStorage`

The phone keeps one encrypted document.  `EncryptedCollectStore.transaction` chains each
transaction to the one before it; `ExpoAesGcmStateDriver.replace` writes a `next` file,
reads it back, copies `current` to `backup`, moves `next` over `current` and deletes
`backup`.  Each of these file operations is an action, and writing, copying and moving
are two (begun and done), because the app may be killed in the middle:

| code | action |
|---|---|
| `open` | `Open` |
| `transaction` up to `await prior`; after it; its work throws | `Enqueue`; `Begin`; `Reject` |
| `next.create`, `next.write` | `CreateNext`, `WriteNext` |
| `decrypt(next)` | `Verify`, `VerifyFails` |
| `current.copy(backup)` | `StartSavingOld`, `SaveOld` |
| `next.move(current)` | `StartMove`, `Rename` |
| `backup.delete`, return, `finally` | `Clean` |
| `read` outside the queue | `BeginRead`, `ReadCurrent`, `ReadBackup` |
| a file operation throws / the app is killed | `OperationFails` / `Kill` |

*Abstractions.*  A document is the set of transactions whose work it holds; a file is
absent, torn or sealed with a document.  Assumed of the platform: a `File` object keeps
naming its path after a move; the failures are a killed process and a throwing operation,
not a power loss that undoes what the file system acknowledged (the code does not flush).

*Run* `storage`: three transactions, one plain read, two faults, 76,037 states.  It shows
the replacement protocol, that what the files hold only grows (`EvidenceOnlyGrows`), that a
read is never older than its beginning (`ReadsAreFresh`), that a queued transaction is
settled (`QueueDrains`) and that the files implement `AtomicDocument`.  Three transactions
give a first, a middle and a last one in the queue; two faults a failing replacement
whose successor is killed.  `CHECK_DEADLOCK FALSE`, since transactions come to an end.
A plain read may fail although the store is initialised, when it looks at `current`
during the rename and at `backup` after its deletion; the model has that behaviour.

*Fairness.*  A promise that waits for its predecessor runs once released, and every file
operation returns or throws.  Nothing forces the app to be opened.

*Proved* in `CollectStorageProofs`: `TypeCorrect`, `Protocol` (`ReplacementProtocol`),
`SavedStaysReadable`, `NothingIsLost`, `ReadsNeverStale`, `FilesImplementDocument`.

*The argument.*  `ReplacementProtocol` has three parts.  `OneReplaces`: only the head of
the queue, or the opener of an empty store, is inside `replace`.  `FilesFollow`: what each
step of a replacement may find in the three files; the current file is never torn, as
nothing but a rename makes it.  `DraftExtends`: what is about to be stored is what is
readable plus the transaction's own work.  From these, a step either leaves the readable
document alone or, at the rename of the new file, makes it the draft.

## 5. `CollectSync`

One phone and the backend.  The phone records payments, print audits and
reconciliations in its outbox; `CollectSyncEngine.sync` reads the ready ones, pushes
them, and writes the outcome by operation id into whatever the outbox has become;
`syncCollectOperations` handles a request in one transaction.

| code | action |
|---|---|
| `recordPayment`, `printReceipt`, `submitReconciliation` | `RecordPayment`, `PrintReceipt`, `SubmitReconciliation` |
| `authorizeCollectDevice` after a login | `Enrol` |
| `readCollectBootstrap`, `installBootstrap` | `ReadBootstrap`, `InstallBootstrap` |
| `initialize` when the bootstrap fails | `StartOffline` |
| `sync` up to the push, which may refuse its batch | `StartSync` |
| `sync` after the push | `Finish`, `FinishFailed` |
| `syncCollectOperations` commits / rolls back | `Post` / `Refuse` |
| lost request, request that outlives its call, lost answer, killed app | `LoseRequest`, `Disconnect`, `LoseAnswer`, `Kill` |
| the office gives a collection away, takes it back, settles it | `Move` |

*Abstractions.*  An operation's place in the outbox is its local sequence and its
identity; it has the assignment it pays, or none, the operations it needs, and its
status.  Each transaction of the server is one action: `FOR UPDATE` on the device row
serialises them, and the deadlock of two requests that both hold the row's shared lock
aborts one, which is `LoseRequest`.  What the phone stores survives (section 4).

*Runs* (over `MCCollectSync`):

| run | instance | what it shows | states |
|---|---|---|---|
| `sync` | two overlapping calls, two assignments, repeated payments, a print or a reconciliation, two enrolments, one move, two faults | `SyncInvariant`, of which that nothing is posted twice and accepted means posted are parts, evidence kept, and the refinement of `PaymentLedger` | 478,127, up to symmetry |
| `sync_live` | three payments in batches of two, two calls, one fault, one enrolment | batches continue or repeat the device's sequence; every payment is accepted in the end | 141,026 |
| `sync_enrolled` | a second enrolment | finding, see 11 | |

*Bounds.*  Two calls are what an overlap needs, three payments in batches of two give
overlapping batches that are not equal, two payments of one assignment a double one,
two enrolments a device whose sequence starts over.  Symmetry of assignments and calls
is used in `sync` only, whose properties are invariants and properties of single steps
that name no assignment or call.  `CHECK_DEADLOCK FALSE`, as the collector may be done.

*Fairness.*  The collector signs in and keeps pressing retry; bootstraps are read,
requests that are not lost are handled, and a call that has its answer or failure records
it.  Faults are bounded: the network works in the end.  `PaymentsSettle` is stated for
payments that stay collectable: one payment per assignment and no move, since a refused
payment stays pending for ever and keeps all later ones from the server (`push` knows no
answer but "accepted", and a batch is all or nothing).

*Proved* in `CollectSyncProofs`: `Synchronisation` (`SyncInvariant`), `TypeCorrect`,
`LedgersHaveNoGap`, `NothingPostedTwice`, `AcceptanceIsTrue`, `EvidenceIsKept`,
`BatchesInOrder` (`BatchesFollowLedger`), `SyncImplementsLedger`.

*The argument.*  That accepted payments are posted rests on what a call carries over its
await: `NetworkConsistent` says that a request has the batch of the one call that awaits
it, if any, and that an answered call's batch is posted.  Requests that nobody awaits may
arrive at any time; they change the server only through `Accepts`, whose three parts
keep the ledger contiguous and the assignments distinct.  Each ledger being `1..last[d]`,
a replay is exactly what is below `last[d]`.  Acceptance never travels from the server
without a `Post` before it, and no step takes a posted operation away.

`BatchesFollowLedger` is about a phone that is `Undisturbed`: it has recorded payments only
and enrolled once; both are needed, as a print audit that is not ready leaves a gap in a
batch, and a second enrolment starts over (section 11).  The phones of the run `sync_live`
are never anything else; the theorem is about every phone.  Its invariant, `InSequence`, looks at what comes
before an operation: before an accepted one everything is accepted, before one in a batch
everything is in the batch or accepted, before one in a request everything is in the
request or posted.  `Finish` keeps this for every overlapping call because it marks its own
batch and nothing else, and `readyOperations` establishes it by taking the oldest
(`ReadyInSequence`).  As what is posted is `1..last[d]`, the new operations of a request
then begin right after it and have no gap (`NewInOrder`).

*Left out.*  Amounts, currencies, hashes, signatures, attempt counts, session expiry,
token rotation and revocation; the answers and operations the production phone never
produces (server-side reconciliation, print audits, discrepancies, deltas).  A
reconciliation is saved and submitted by two transactions; when the app is killed between
them the draft is abandoned, and only the submission is modelled.  Two print copies and
several reconciliations are bounded by `MaxOthers`.

## 6. `AuditRelay`

The relay runs cycles: it discovers tenants, then gives each its turn, which drains the
tenant's finance audits, its operations audits and the control plane's subscription
states, in that order.

| code | action |
|---|---|
| an outbox row is written with its business change | `WriteAudit`, `PublishState` |
| `discoverTargets` | `ListTenants`, `CheckRoutes` |
| a tenant's turn begins / ends | `Turn` / `EndTurn` |
| a drain reads its batch | `ReadBatch` |
| the other database inserts the event / refuses it | `Deliver` / `Refuse` |
| the row is marked | `Mark` |
| an audit drain's transaction commits | `Commit` |
| a drain throws | `Refuse`, `QueryFails`, which roll back and `BackOff` |
| discovery throws | `CheckRoutes`, `DiscoveryFails` |
| a backoff passes, the relay is replaced | `BecomeDue`, `Restart` |

*Abstractions.*  An audit drain's marks are row locks of an open transaction (`marks`)
until `Commit`; another relay waits for them.  A state's mark is committed at once.  An
event is its tenant, stream and place in the order the outbox is read in.  Assumed: the
wall clock, which orders the states, follows their revisions.  Amounts outside the safe
integers are refused where the audit is written (migration `202609021803`), so no audit
is undeliverable.

*Runs* (over `MCAuditRelay`):

| run | instance | what it shows | states |
|---|---|---|---|
| `relay` | two relays, a tenant that is known only through its audit, another with two states, of which the first may be a lead's and be refused for ever, one fault | `DeliveryInvariant`, so what is marked has arrived and states arrive in order; the refinement of `OutboxDelivery`; no deadlock; every audit and every state that is not refused arrives and is marked | 196,954 |

*Bounds.*  Two relays are what a wait and a double delivery need, two states in one batch
what an order needs, a second tenant what one that fails may starve.  Deadlock is checked, but
the one audit of the instance cannot bring it about: that takes two drains with two rows of
one outbox each, and is left to the theorem `RelaysNeverDeadlock`.

*Fairness.*  Every await of every relay settles, polls go on, and a backoff is capped.
Faults are bounded.  The two liveness properties hold while every client with a
subscription has a route (`Reachable`): one without makes discovery throw, and no tenant
at all is served.

*Proved* in `AuditRelayProofs`: `Delivery` (`DeliveryInvariant`), `TypeCorrect`,
`MarkedIsDelivered`, `StatesAreInOrder`, `MarksAreExclusive`, `RelaysNeverDeadlock` (`NoCircularWait`),
`RelayImplementsOutbox`.

*The argument.*  A drain works from a batch it has read some time ago.
`DrainConsistent` says what stays true of it: the row it is about to mark has arrived
(rollbacks in the source do not undo an insert in the other database), and every state
below one in the batch is in the batch too or has been marked.  So the first row of a
batch, if it is a state, has all earlier ones in the tenant's database, and delivering it
keeps `1..n` gap-free whatever another relay did meanwhile.

Relays that drain one outbox lock its rows in the order it is read in, so the rows a
transaction has marked come before all it has left to mark (also in `DrainConsistent`).
A relay that waits for another is therefore behind it (`WaitingIsBehind`), and if each of
some relays waited for one of them, none could be furthest.  This takes a finite number of
relays; a drain commits before the tenant's next one begins, so no transaction holds
rows of two outboxes.

## 7. `OrderFulfilment` and `FieldService`

An order is named by its quotation.  Every operation is one transaction with the triggers
it fires; a trigger that raises refuses the whole.

| code | action |
|---|---|
| `createSalesLead`, `qualifySalesLead` | `CreateLead`, `QualifyLead` |
| `createSalesQuote`, `approveSalesQuote`, `acceptSalesQuote` | `CreateQuote`, `ApproveQuote`, `AcceptQuote` |
| `convertSalesOrderSubscriber`, `reserveSalesOrderResource` | `ConvertSubscriber`, `ReserveResource` |
| `createSalesOrderInstallation`, `createServiceInstallation` | `CreateInstallation`, `CreateServiceInstallation` |
| `transitionInstallation` and its triggers | `TransitionInstallation` |
| `enqueueSalesOrderActivation`, `enqueueSubscriberNetworkAction` | `EnqueueActivation`, `EnqueueNetworkAction` |
| the worker's result with `sync_sales_order_network_job` | `FinishJob` |
| `applyServiceChangeOrder` | `ApplyChangeOrder` |
| `postSalesOrderFirstInvoice` | `PostFirstInvoice` |
| `executeSalesOrderCommand` | `RetryTask`, `PlaceOnHold`, `BeginResume` and `CommitResume`, `CancelOrder` |
| technicians | `RegisterTechnician`, `UpdateTechnician`, `FindTechnician` |
| work orders | `CreateWorkOrder` to `FailWorkOrder`, `RollBack` |

A resume is two steps: it locks the order, counts the failed tasks, and writes; a trigger
that fails a task in between skips an order on hold instead of waiting for its lock.  A
field command that names a technician is two steps as well, because it reads the
technician without a lock.  `FieldService` extends `OrderFulfilment`, and its commands move
installations with the very definition the order desk uses; where the audit trigger of
tasks does not know the field actions, `FieldMove` refuses as it does.

*Abstractions.*  Prices, addresses, discounts, texts, evidence and check lists are left
out; one resource stands for all; a lead's qualifications are what they last said; a
job's run is section 3 and only its result is seen here.

*Runs.*

| run | instance | what it shows | states |
|---|---|---|---|
| `orders` (`MCOrderFulfilment`) | two quotations of one lead and a service sold at the counter, one unit of capacity, two jobs | the order as a whole, capacity, activation, `OrderJourney` | 187,000, up to symmetry |
| `field` (`MCFieldService`) | two work orders and a technician over one order's installation and one of the counter | the board; with field work, every behaviour is one of the order desk alone | 488,000, up to symmetry |

*Bounds.*  Two orders compete for one unit of capacity; two jobs are the one an order waits
for and another activation of its service; a second work order is the revisit of the
first, or competes with it.  `CHECK_DEADLOCK FALSE`, since everything may be delivered.

*Proved.*  In `OrderFulfilmentProofs`: `TypeCorrect`, `OrdersStayWhole`
(`OrderInvariant`), `CapacityIsNeverPromisedTwice` (`CapacityAccounted`), `ActivationIsItsOwn`, `OrdersKeepTheirJourney`, and of
field work `FieldWorkObeysTheDesk`, `OrdersStayWholeInTheField`, `BoardIsInOrder`.

*The argument.*  `OrderInvariant` is inductive as it stands.  It fixes for each task the
statuses it can have at all (only the installation can be blocked, only the network step
can fail), that no task but the first begins before the one it needs is completed, and
where the installation may be for each status of its task, including that a cancelled
installation cancels its task for ever.  What an update of the tasks can do to the order
is stated once for any update; then there is one step per operation.
Only `ReserveResource` touches the resource's counter or an order's units, the units of an
order are reserved once, and the guard is read under the lock it is written under, so the
counter stays the sum of the units and below the capacity.
`FieldWorkObeysTheDesk` needs nothing but that field commands change orders through
`FieldMove`, so all theorems about orders hold beside field work.

## 8. `FinanceLedger`

A request takes the tenant's accounting lock and keeps it until it commits, so it is one
action.

| code | action |
|---|---|
| invoices, receipts | `PostInvoice`, `PostPayment` |
| `post_customer_account_entry` | `ReceiveDeposit`, `ApplyDeposit`, `CreditNote` and the three reversals |
| allocations, collectors' receipts | `Allocate`, `CollectPayment` |
| reversals by the finance interface | `ReverseInvoice`, `ReversePayment`, `ReverseAllocation` |
| `classify_accounting_journal`, `close_accounting_period` | `Classify`, `ClosePeriod` |
| the clock | `Tick` |

`Balance` and `Statement` are `readTrialBalance` and `readCustomerStatement`.

*Abstractions.*  One currency; one customer, who owns the invoices of billing runs and the
deposits; net, tax and stamp are one amount; manual journals that classify nothing, and a
free choice among counter-accounts, are left out (cash for receipts, revenue for invoices);
an exact retry changes nothing; a collector's assignments are section 5.  Dates of the
finance interface are chosen by its client, any day of the calendar; collectors and the
customer account use the clock.

*Run* `finance`: one invoice, two receipts or deposits, two allocations, one credit note,
two days and amounts to 2, 151,000 states up to symmetry.  `BusyOrLong` restricts what is
explored to several receipts and allocations on one day, or one of each over the whole
calendar with its closes: allocations that compete and closes that come between are
both reached, their product is not.  `CHECK_DEADLOCK FALSE`, since papers run out.

It shows that guards, journal and statement agree (`LedgerAgrees`), what a source's
entries come to (`SourcesInBooks`), that a closed period is reconciled and sealed
(`ClosedIsClassified`, `SealedPeriods`), and that the ledger implements `Settlement`.

*Proved* in `AccountingProofs`: `TypeCorrect`, `PeriodsAreSealed`,
`ClosedStaysClassified`, `BooksAreInOrder`, `LedgerAlwaysAgrees`, `MoneyIsMoved`.

*The argument.*  What a source's three entries come to is not inductive: a correction is
only right for the kind of source it corrects, and a reversal only if it mirrors both the
entry and its correction.  `JournalOK` says what each of the three is.  A closed period
stays classified because a date in it is never given again, and because a reversal dated
after it does not undo a classification within it.  For `Settlement` the guards are enough:
what is left of a document is its amount less its guards, and no guard is negative.

`LedgerAgrees` speaks of sums over all documents.  First, each guard is the sum of the live
allocations and credits that name it (`GuardsAgree`), one changed term at a time; this is
inductive only with `GuardsRest`: nothing rests on a document that is not live, and credits
and the use of deposits are of governed invoices.  Then the balance of a control account is
the sum over all sources of what their entries put there, which `SourcesInBooks` gives for
each; summed by the document they name (`SumByTarget`), allocations and credits are the
guards again, and what remains is what is left of the documents.

## 9. `Warehouse`

`Warehouse` composes four modules over one register: `Premises` (catalog, warehouses, bins,
vendors), `StockControl` (bulk stock), `EquipmentCustody` (serialized equipment) and
`Procurement`.  Commands lock the rows they write, or name the version they read, so each
is one action.

| code | action |
|---|---|
| catalog, warehouses, bins, vendors | `CreateItem`, `UpdateItem`, `CreatePlace`, `UpdatePlace`, `CreateVendor` |
| stock movements | `TransferStock`, `AdjustStock`, both over `ApplyDelta` |
| reservations | `ReserveStock`, `ReleaseReservation`, `ConsumeReservation` |
| counts | `OpenCount`, `RecordCount`, `CancelCount`, `CloseCount` |
| custody | `Issue`, `Install`, `Return`, `SetAside` |
| repair cases | `OpenCase`, `SendToVendor`, `ReceiveRepaired`, `ReceiveReplacement`, `ScrapAsset`, `CloseCase` |
| quotes | `CreateQuoteRequest`, `RecordQuote`, `AwardQuote`, `CancelQuoteRequest` |
| purchase orders | `CreateOrder`, `ApproveOrder`, `ReceiveOrder` |

Two actions are no commands: `Lose`, by which goods disappear unbooked, and `FieldWork`, by
which the installation a device is issued for begins or ends.

*Costs and currencies.*  An item has a cost in dollars and in pounds (`cost`), which
`CreateItem` sets and `UpdateItem` changes at any time, posting nothing.  The account
(`inventory`) is kept per item and currency.  An adjustment posts in the currency its caller
names, at the item's cost in it, which may be 0; a count freezes its currency and those costs
when it is opened (`frozen`) and posts at them when it is closed; a receipt posts what the
order paid in the order's currency; what is consumed or scrapped leaves in dollars if the item
has a cost in dollars, else in pounds (`Own`).  `Standard(i, c)` is the cost it leaves at, 0 in
the other currency.  The history variable `steady` decides nothing: it holds the items whose
`Standard` no update changed, and that were not adjusted, nor found different by a closed
count, in another currency than `Own`.

*Abstractions.*  One line per item in a request and an order; what a receipt makes the tenant owe is kept per line,
where the code posts one journal; a receipt takes at least one piece; an expired quote is
a refusal like any other.  What is really on a shelf is the environment: goods that are
carried are there, an adjustment books a real change or puts the books right.

*Run* `warehouse` (`MCWarehouse`): one warehouse with a bin, a bulk and a serialized item,
three units, two holds, counts, cases, requests and vendors, one order, a cost of 1 in dollars
or of 2 in pounds, 32,571 states up to symmetry.  The product of everything is too large; the constraint `OneConcern` explores,
on premises set up one entry after the other, holds, a count with a loss, two overlapping
counts, holds with a count, competing quotes, receipts, awards with their receipts, repair
cases with a receipt, and all of it in the small while the register changes.  In these
prices are fixed and all else is in dollars; a concern of its own (`Costing`) lets one item's
cost change, and stock be adjusted, counted, received and consumed in either currency.  Every
action occurs.  `CHECK_DEADLOCK FALSE`, since the constants bound what can be made.

It shows that what is reserved is held and there (`HoldsAreCovered`), that the inventory
account of every steady item is, in each currency, what there is of it at the cost it leaves
at and what orders paid above or below that (`BooksFollowStock`), that orders are booked once
(`OrdersBookedOnce`), that a count nobody disturbed leaves the books right
(`CountsCorrect`), and that custody implements `RepairDesk`.

*Proved* in `WarehouseProofs`: `TypeCorrect`, `HeldStockStays` (the first half of
`HoldsAreCovered`), `HoldsStayCovered` (all of it), `BookedOnce` (`OrdersBookedOnce`),
`BooksAlwaysFollowStock` (`BooksFollowStock`), `CountsSettle` (`CountsCorrect`),
`EquipmentKeepsCustody`.

*The argument.*  Types need `TypedAndLinked`: a live hold is on a shelf, an open count is
of a place, a case has its device.  For the repair desk, `DeskInOrder` says that the
device of a case that is not settled is set aside and has no other such case; no custody
command moves a device that is set aside, and none but `OpenCase` claims one.  For buying,
`BuyingInOrder` ties units to the order they came with, which takes that an item with
orders keeps its being serialized, and an awarded request to the one order made from it.

That the account follows the stock is proved per item and currency: a step adds as much
to it as to the pieces on the shelves, the living units and what orders paid above or below
standard cost (`BooksMove`).  It takes `DeskInOrder`, as a unit that is scrapped has to have
been living, and `BuyingInOrder`, as the units of a receipt are those its lines count.  Two
invariants are about costs.  `FrozenAsIs`: of a steady item an open count in the currency it
leaves in froze the cost it still has, so that the close posts the cost of today; it survives a
change of the cost because an item whose `Standard` stays keeps its `Own` and the cost in it
(`StandardSays`).  `StockOfKnown`: what is not in the catalog is on no shelf and in no count,
so that the cost `CreateItem` sets values nothing; that a used hold adds no row takes
`ReservedIsThere`.

`CountsCorrect` compares the close of a count with what is missing then, after any number
of movements.  `CountsInOrder` carries it from the opening on: while nothing the count
covers moved, what it believes is the sum on hand; and while nothing was lost after an
item was found, what was found is what is believed less what is missing, in whatever
way goods moved since.  Opening a count establishes the first, which needs that shelves
without a row have no stock (`EmptyWithoutRow`) and that no item lies in two places; recording
establishes the second; the close of another count that covers the place breaks it and is
one of the things that spoil a count.

## 10. `BillingRuns` and `BillingRecovery`

Every request takes the tenant's financial lock and is one transaction, so each is one
action.  `BillingRuns` has the runs; `BillingRecovery` adds what follows a posted invoice.

| code | action |
|---|---|
| `prepareRecurringInvoices`, also as a retry | `Prepare` |
| `postSalesOrderFirstInvoice` | `FirstBill` |
| service change orders; plans, their versions and billing policies | `SwitchService`, `Configure` |
| allocations and credit notes, and their reversals | `Settle`, `Release` |
| the reversal of an invoice | `ReverseBill` |
| `evaluateDunning` | `Evaluate` |

*Abstractions.*  The calendar is one month, so an anchor day is a day, and a period is its
first day and the day after its last.  Amounts of drafts, usage and add-ons, areas and
routes are left out: a scope is a branch or the whole tenant.  Whatever makes a service
impossible to rate is one of two configurations, an inactive plan or a missing version or
policy.  `Free` is what the guard's trigger sees: its function belongs to the table's
owner, who is subject to the row policies, so it sees the runs whose scope lies within the
caller's.  An evaluation is for any day, so how far each invoice is overdue is any stage.
A repeated key changes nothing.

*Run* `billing` (`MCBillingRecovery`): a service of one branch and, in another, one whose
first invoice is due; two periods that overlap, three runs by any of three callers,
an invoice of two units, configurations that change between them; 265,932 states up to the
symmetry of keys.  Three runs are a failed one, one that takes its period and a retry.
`CHECK_DEADLOCK FALSE`, since keys and periods run out.  No fairness is assumed: nothing in
the code runs by itself.

It shows that items and drafts agree however often a run is retried and by whom
(`RunsTellTheTruth`); that a service is drafted for two overlapping periods only next to a
failed run or when a branch cannot see a run of the whole tenant
(`BilledTwiceOnlyUnseen`); and that a case only advances, is settled once, and says after
each evaluation what its invoice owes (`CasesFollowTheDebt`).

*Proved.*  In `AccountingProofs`: `RecoveryTypeCorrect`, `ItemsAgreeWithDrafts`
(`RunsTellTheTruth`), `OverlapsAreUnseen` (`BilledTwiceOnlyUnseen`), `CasesOnlyAdvance`
(`CasesFollowTheDebt`).

*The argument.*  Only `Prepare` and `FirstBill` write runs, items and drafts, and both add
one run under a fresh key with its items and drafts: `Opens` says what they have in common,
`StepShape` that a step opens one run or leaves all three alone.  `RunsTellTheTruth` is not
inductive as it stands, since a new key might have old drafts and a retry's source might
not exist; `Recorded` says that unused keys have no items, that sources exist and that a
draft lies within the period and scope of its run.  `RunsApart` says of any two runs that
did not fail what `BilledTwiceOnlyUnseen` says of drafts: they lie apart, belong to two
branches, or the later one's caller did not see the earlier.

## 11. Findings and observations

`sync_enrolled` must end in a counterexample; `PROJECT.json` quotes the line that promises
otherwise: when tokens are cleared at a start without network and without cached
assignments, the next enrolment's device row starts at sequence 0 and the phone does not;
every later payment is refused as a gap.

Observations that no run is about.  Network worker:

* holding a rotation of unknown outcome records neither success nor failure
  (`worker.ts:103`), and a half-open probe stays taken until a restart;
* only the last attempt is looked at (`worker.ts:92`), so a failed preflight between an
  uncertain rotation and its retry makes the worker send the rotation again;
* the limiter of mutations per router is per process (`policy.ts:75`); `claim_job` lets a
  younger job of a service overtake one in back-off;
* the default lease is no longer than an observation and a command may take together.

Collect and relay:

* `push` throws for a batch with anything but payments (`production-api.ts:178`), so
  payments recorded after a reconciliation never reach the server; it answers "authorized"
  whatever the server knows of the device (`:202`);
* the answer to a token refresh may be lost, and a phone with cached assignments never
  offers to sign in; `collect_audit_outbox` has no drain in the relay;
* a subscription may begin as a lead, the tenant's database refuses that status
  (`202608112200:1154`), and the relay reads the row first in every batch: no later state
  of that client arrives.  States are read by the wall clock of their writing.

Orders and field service:

* a task that fails while a resume is open leaves an order in progress with a failed step,
  against the comment at `202608310400:35`;
* a blocked installation that goes on in place leaves its task blocked, and completing it
  never unlocks the network step; a cancelled one leaves its order in fallout for ever;
* a field failure of an order's installation is refused by the audit trigger of tasks
  (`202608310400:72`), against `docs/enterprise-release-status.md:31`; work on site whose
  installation the order desk has moved cannot be closed;
* a technician may be deactivated by the time an assignment commits, against
  `docs/enterprise-release-status.md:36`;
* one lead with two quotations yields two orders; reservations are never released; a
  service terminated before its first invoice strands its order; reservation,
  installation, activation and billing go on while an order is on hold.

Finance:

* a source that needs classification and is reversed on a later day before it was
  classified can never be classified, and blocks every close between the two days;
* a later period can be closed first, so an as-of balance within it may still change by
  earlier entries;
* `derive_collector_assignment_amount` (`202608112200:1539`) ignores credits, which
  `collect_lock_payable_assignment` subtracts.

Billing:

* a branch may bill a period that a run of the whole tenant has billed, as the guard of
  `202608112200:1384` does not see that run, against "billing runs cannot overlap for a
  tenant" (`docs/product/operations-implementation.md:39`); only drafts of exactly the same
  period are then skipped;
* a failed run keeps its drafts and frees its period, so a run of a shifted period drafts
  the same service again;
* a failed item can become impossible to retry: any run that has succeeded over the period,
  also one of another branch or the first invoice of an order, holds the period against the
  retry that `docs/requirements/requirements.md:88` asks for; the same trigger then refuses even
  the repetition of the failed run's own key instead of answering it;
* a case that was resolved and whose invoice is owed again, after a payment is taken back,
  makes the table's check (`202609021000:115`) refuse every evaluation that covers it, for
  all invoices, against `docs/operations/customer-accounts.md:59`;
* an evaluation may name any day, so a mistyped one escalates cases for good; no code posts
  the drafts of recurring runs.

Warehouse:

* the custody action `rma` leaves a device set aside without a case, and none can be opened
  for it; a repaired device has no second case until the first is closed;
* goods moved between the opening of a count and its recording are counted twice; a
  warehouse count fails on an item that lies in two places, books its differences outside
  the bins, and overlaps counts of its bins, against `202609051200:32`;
* a retried count command is not answered from its record, unlike all others;
* the inventory accounts keep a remainder of an item whose cost was changed, or that was adjusted
  or counted in another currency than it leaves in, though valuation is standard cost
  (`docs/enterprise-release-status.md:343`): nothing is revalued (`202609050900:244`).  Ten pieces
  adjusted in at 5 and consumed at 7 leave the account at -20 with an empty shelf, and pieces
  adjusted in at their cost in pounds leave through dollars.  `BooksFollowStock` holds of the
  other items, those in `steady`;
* closing a warehouse looks at neither bulk stock, partly received orders nor devices in
  repair, and retiring an item does not look at partly received orders;
* a quote's lines are counted and not checked one by one (`202609051400:288`), so a quote may
  price less than its request asked for; an award rechecks nothing; no command cancels an
  order; `purchase_receipt_rejections` is never written.

## 12. What is proved and what is only model-checked

The theorems hold for all constants that satisfy the named assumptions of their module:
any number of jobs, processes, calls, transactions, relays, orders, documents, shelves and
units, any batch size, calendar and bound on faults.  The lease protocol of `NetworkWorker`
and what follows from it also assume `OneCallPerProcess`, its probes `NoRotations`.  Bounds such as `MaxFaults` are
constants, so a theorem covers every value of them.  No theorem uses the constraints of
the runs.

Only checked by TLC, on the instances above:

* the liveness properties `EventuallyDecided`, `QueueDrains`, `PaymentsSettle`,
  `AuditsArrive` and `StatesArrive`, since the prover handles neither fairness nor ENABLED,
  and, as far as it is about enabled steps, the absence of deadlock in `relay`;
* `EnrolmentsContinue`, which is refuted.

All other properties of the runs are theorems.  Many of them speak of sums: of units,
amounts, pieces or holds.  `SumFunctionOnSet` is a fold, recursive on its set, and no
induction theorem can be used, because these take the statement to be shown as a parameter;
`SumTheorems` instead looks at a smallest subset for which a statement would fail
(`SmallestSubset`, from the well-foundedness of the subsets of a finite set), which needs a set
and no operator.  From `SumTakes`, that any member may be taken out first, follow the sum
of a function changed at one place, of two functions, of the part that is not zero, and the
exchange of sums by what their members name.  The sets that are summed over are finite by
assumption (`SourcesAreFinite`, `RegisterIsFinite`, `HoldsAreFinite`, `OrdersAreFinite` and
that quotations are): a database has finitely many rows.

## 13. Not modelled

Authentication, the control center except for its states; the amounts of drafts, invoice
documents and versions of dunning policies; usage, outages, tickets and dealers; offers and capacity resources (`createSalesOfferVersion`,
`createCapacityResource`), which are written once and then only read; the parts
`PROJECT.json` lists as not modelled, each with its reason; everything of 1.10.
