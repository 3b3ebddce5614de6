--------------------------- MODULE OrderFulfilment ---------------------------
(***************************************************************************)
(* From a lead to a billed service: a lead is qualified and quoted, an     *)
(* accepted quotation becomes a service order of six chained tasks, and    *)
(* four parties work those tasks off: sales staff, dispatchers moving the  *)
(* installation, the network worker returning job results, and the         *)
(* commands that hold, resume, retry and cancel.  Every operation is one   *)
(* transaction; the triggers it fires on other tables are part of it, and  *)
(* one that raises refuses the whole.  An order is named by its quotation  *)
(* and a service by its order or, if it was sold at the counter, by        *)
(* itself.                                                                 *)
(***************************************************************************)
EXTENDS FiniteSets, Functions, Naturals

CONSTANTS
  Leads, Quotes, WalkIns,
  LeadOf,      \* the lead a quotation is for
  Capacity,    \* units of the one resource orders reserve
  MaxUnits,    \* the most units one order asks for
  Jobs,        \* durable network jobs; bounds how many are ever queued
  NoJob

ASSUME QuotesAreNotWalkIns == Quotes \cap WalkIns = {}
ASSUME QuotesHaveLeads == LeadOf \in [Quotes -> Leads]
ASSUME CapacityIsPositive == Capacity \in Nat \ {0} /\ MaxUnits \in Nat \ {0}
ASSUME NoJobIsNone == NoJob \notin Jobs
ASSUME QuotesAreFinite == IsFiniteSet(Quotes)

VARIABLES
  lead,          \* sales_leads.status
  quote,         \* sales_quotes.status
  order,         \* sales_service_orders.status
  subscriber,    \* sales_service_orders.subscriber_id is set
  task,          \* sales_order_tasks.status by task_key
  resuming,      \* what an open resume transaction will write into order
  units,         \* units of sales_order_resource_reservations
  reserved,      \* operations_capacity_resources.reserved_units
  installation,  \* operations_installations.status
  service,       \* operations_services.status
  outbox,        \* result_reference.outboxId of the activation task
  job            \* network_worker jobs: what they ask and how they ended

commercial == <<lead, quote>>
delivery == <<order, subscriber, task>>
capacity == <<units, reserved>>
field == <<installation, service>>
network == <<outbox, job>>
vars == <<commercial, delivery, resuming, capacity, field, network>>

Services == Quotes \cup WalkIns

LeadStatus == {"none", "new", "qualifying", "qualified", "disqualified", "quoted", "won"}
QuoteStatus == {"none", "pending_approval", "approved", "issued", "accepted"}
OrderStatus == {"none", "accepted", "in_progress", "on_hold", "fallout", "completed", "cancelled"}
TaskStatus == {"none", "pending", "ready", "running", "blocked", "failed", "completed", "cancelled"}
InstallationStatus == {"none", "requested", "scheduled", "in_progress", "blocked",
                       "ready_for_activation", "completed", "cancelled"}
ServiceStatus == {"none", "pending_installation", "active", "suspended", "terminated"}

Keys == {"commercial", "subscriber", "resource", "installation", "network", "billing"}

(* depends_on_keys: each task but the first needs the one before it. *)
Before == [subscriber |-> "commercial", resource |-> "subscriber",
           installation |-> "resource", network |-> "installation",
           billing |-> "network"]

NoRequest == [service |-> NoJob, creates |-> FALSE, state |-> "none"]
Requests == [service : Services \cup {NoJob}, creates : BOOLEAN,
             state : {"none", "queued", "succeeded", "failed"}]

TypeOK ==
  /\ lead \in [Leads -> LeadStatus]
  /\ quote \in [Quotes -> QuoteStatus]
  /\ order \in [Quotes -> OrderStatus]
  /\ subscriber \in [Quotes -> BOOLEAN]
  /\ task \in [Quotes -> [Keys -> TaskStatus]]
  /\ resuming \in [Quotes -> {"no", "in_progress", "fallout"}]
  /\ units \in [Quotes -> 0..MaxUnits]
  /\ reserved \in 0..Capacity
  /\ installation \in [Services -> InstallationStatus]
  /\ service \in [Services -> ServiceStatus]
  /\ outbox \in [Quotes -> Jobs \cup {NoJob}]
  /\ job \in [Jobs -> Requests]

Init ==
  /\ lead = [l \in Leads |-> "none"]
  /\ quote = [q \in Quotes |-> "none"]
  /\ order = [q \in Quotes |-> "none"]
  /\ subscriber = [q \in Quotes |-> FALSE]
  /\ task = [q \in Quotes |-> [k \in Keys |-> "none"]]
  /\ resuming = [q \in Quotes |-> "no"]
  /\ units = [q \in Quotes |-> 0]
  /\ reserved = 0
  /\ installation = [s \in Services |-> "none"]
  /\ service = [s \in Services |-> "none"]
  /\ outbox = [q \in Quotes |-> NoJob]
  /\ job = [j \in Jobs |-> NoRequest]

-----------------------------------------------------------------------------
(* The triggers on tasks *)

TaskMoves ==
  {"pending"} \X {"ready", "cancelled"}
    \cup {"ready"} \X {"running", "completed", "blocked", "failed", "cancelled"}
    \cup {"running"} \X {"completed", "blocked", "failed"}
    \cup {"blocked", "failed"} \X {"ready", "cancelled"}

(* The transition guard lets q's tasks become ts. *)
TasksMayBecome(q, ts) ==
  \A k \in Keys : ts[k] # task[q][k] =>
    /\ <<task[q][k], ts[k]>> \in TaskMoves
    /\ ts[k] \in {"ready", "running", "completed"} /\ k # "commercial"
         => ts[Before[k]] = "completed"

Exceptions(ts) == {k \in Keys : ts[k] \in {"failed", "blocked"}}

(* sync_sales_order_exception_status: the order follows its tasks into fallout
   and out of it. *)
OrderAfter(q, ts) ==
  IF Exceptions(ts) \ Exceptions(task[q]) # {}
    THEN IF order[q] \in {"on_hold", "completed", "cancelled"} THEN order[q] ELSE "fallout"
  ELSE IF /\ \E k \in Exceptions(task[q]) : ts[k] = "ready"
          /\ Exceptions(ts) = {} /\ order[q] = "fallout"
    THEN "in_progress"
  ELSE order[q]

(* An update of q's tasks with what the triggers do about it. *)
SetTasks(q, ts) ==
  /\ TasksMayBecome(q, ts)
  /\ task' = [task EXCEPT ![q] = ts]
  /\ order' = [order EXCEPT ![q] = OrderAfter(q, ts)]

(* Completing a task makes the one that waits for it ready. *)
Completed(ts, k, next) ==
  [ts EXCEPT ![k] = "completed", ![next] = IF ts[next] = "pending" THEN "ready" ELSE @]

(* Variant: the order is read without FOR UPDATE. *)
NeverLocked(q) == TRUE

(* The row lock of the order is free: an open resume transaction holds it. *)
Unlocked(q) == resuming[q] = "no"

-----------------------------------------------------------------------------
(* Sales: leads and quotations *)

CreateLead(l) ==
  /\ lead[l] = "none"
  /\ lead' = [lead EXCEPT ![l] = "new"]
  /\ UNCHANGED <<quote, delivery, resuming, capacity, field, network>>

(* A survey leaves the lead qualifying. *)
QualifyLead(l) ==
  /\ lead[l] \in {"new", "qualifying"}
  /\ \E outcome \in {"qualified", "disqualified", "qualifying"} :
       lead' = [lead EXCEPT ![l] = outcome]
  /\ UNCHANGED <<quote, delivery, resuming, capacity, field, network>>

Quoted(l) == [lead EXCEPT ![l] = IF lead[l] = "qualified" THEN "quoted" ELSE @]

(* Any qualification of the lead that found it eligible will do; a large
   discount needs an approval. *)
CreateQuote(q) ==
  /\ quote[q] = "none"
  /\ lead[LeadOf[q]] \in {"qualified", "quoted", "won"}
  /\ \/ /\ quote' = [quote EXCEPT ![q] = "issued"]
        /\ lead' = Quoted(LeadOf[q])
     \/ /\ quote' = [quote EXCEPT ![q] = "pending_approval"]
        /\ UNCHANGED lead
  /\ UNCHANGED <<delivery, resuming, capacity, field, network>>

ApproveQuote(q) ==
  /\ quote[q] = "pending_approval"
  /\ quote' = [quote EXCEPT ![q] = "approved"]
  /\ lead' = Quoted(LeadOf[q])
  /\ UNCHANGED <<delivery, resuming, capacity, field, network>>

NewTasks ==
  [k \in Keys |-> IF k = "commercial" THEN "completed"
                  ELSE IF k = "subscriber" THEN "ready" ELSE "pending"]

(* The lead is won by the first of its quotations; the others stay valid. *)
AcceptQuote(q) ==
  /\ quote[q] \in {"issued", "approved"}
  /\ quote' = [quote EXCEPT ![q] = "accepted"]
  /\ lead' = [lead EXCEPT ![LeadOf[q]] = IF @ = "quoted" THEN "won" ELSE @]
  /\ order' = [order EXCEPT ![q] = "accepted"]
  /\ task' = [task EXCEPT ![q] = NewTasks]
  /\ UNCHANGED <<subscriber, resuming, capacity, field, network>>

-----------------------------------------------------------------------------
(* Delivery *)

ConvertSubscriber(q) ==
  /\ Unlocked(q)
  /\ ~subscriber[q] /\ task[q]["subscriber"] = "ready"
  /\ order[q] \in {"accepted", "in_progress"}
  /\ LET ts == Completed(task[q], "subscriber", "resource") IN
       /\ TasksMayBecome(q, ts)
       /\ task' = [task EXCEPT ![q] = ts]
  /\ order' = [order EXCEPT ![q] = "in_progress"]
  /\ subscriber' = [subscriber EXCEPT ![q] = TRUE]
  /\ UNCHANGED <<commercial, resuming, capacity, field, network>>

(* Variant: what is left of the resource is not looked at. *)
ReserveUnchecked(q) ==
  /\ Unlocked(q)
  /\ subscriber[q] /\ task[q]["resource"] = "ready" /\ units[q] = 0
  /\ \E n \in 1..MaxUnits :
       /\ units' = [units EXCEPT ![q] = n]
       /\ reserved' = reserved + n
  /\ SetTasks(q, Completed(task[q], "resource", "installation"))
  /\ UNCHANGED <<commercial, subscriber, resuming, field, network>>

(* The order's own status is not asked here, nor by the three that follow. *)
ReserveResource(q) ==
  /\ Unlocked(q)
  /\ subscriber[q] /\ task[q]["resource"] = "ready" /\ units[q] = 0
  /\ \E n \in 1..MaxUnits :
       /\ Capacity - reserved >= n
       /\ units' = [units EXCEPT ![q] = n]
       /\ reserved' = reserved + n
  /\ SetTasks(q, Completed(task[q], "resource", "installation"))
  /\ UNCHANGED <<commercial, subscriber, resuming, field, network>>

(* One installation per order, whatever became of it. *)
CreateInstallation(q) ==
  /\ Unlocked(q)
  /\ subscriber[q] /\ task[q]["installation"] = "ready" /\ installation[q] = "none"
  /\ service' = [service EXCEPT ![q] = "pending_installation"]
  /\ installation' = [installation EXCEPT ![q] = "requested"]
  /\ SetTasks(q, [task[q] EXCEPT !["installation"] = "running"])
  /\ UNCHANGED <<commercial, subscriber, resuming, capacity, network>>

(* A service sold at the counter, without an order. *)
CreateServiceInstallation(s) ==
  /\ s \in WalkIns /\ service[s] = "none"
  /\ service' = [service EXCEPT ![s] = "pending_installation"]
  /\ installation' = [installation EXCEPT ![s] = "requested"]
  /\ UNCHANGED <<commercial, delivery, resuming, capacity, network>>

(* The outbox row and the durable job are one insert. *)
Enqueue(s, j, creates) ==
  /\ job[j].state = "none"
  /\ job' = [job EXCEPT ![j] = [service |-> s, creates |-> creates, state |-> "queued"]]

EnqueueActivation(q, j) ==
  /\ Unlocked(q)
  /\ installation[q] = "completed" /\ service[q] = "active"
  /\ task[q]["network"] = "ready"
  /\ Enqueue(q, j, TRUE)
  /\ outbox' = [outbox EXCEPT ![q] = j]
  /\ SetTasks(q, [task[q] EXCEPT !["network"] = "running"])
  /\ UNCHANGED <<commercial, subscriber, resuming, capacity, field>>

PostFirstInvoice(q) ==
  /\ Unlocked(q)
  /\ quote[q] = "accepted" /\ task[q]["billing"] = "ready"
  /\ task[q]["network"] = "completed"
  /\ installation[q] = "completed" /\ service[q] = "active"
  /\ task' = [task EXCEPT ![q]["billing"] = "completed"]
  /\ order' = [order EXCEPT ![q] = "completed"]
  /\ UNCHANGED <<commercial, subscriber, resuming, capacity, field, network>>

-----------------------------------------------------------------------------
(* Commands on an order *)

RetryTask(q, k) ==
  /\ Unlocked(q)
  /\ order[q] \notin {"none", "completed", "cancelled", "on_hold"}
  /\ task[q][k] \in {"failed", "blocked"}
  /\ SetTasks(q, [task[q] EXCEPT ![k] = "ready"])
  /\ UNCHANGED <<commercial, subscriber, resuming, capacity, field, network>>

PlaceOnHold(q) ==
  /\ Unlocked(q)
  /\ order[q] \in {"accepted", "in_progress", "fallout"}
  /\ \A k \in Keys : task[q][k] # "running"
  /\ order' = [order EXCEPT ![q] = "on_hold"]
  /\ UNCHANGED <<commercial, subscriber, task, resuming, capacity, field, network>>

(* The order row is locked and the tasks are looked at ... *)
BeginResume(q) ==
  /\ Unlocked(q) /\ order[q] = "on_hold"
  /\ resuming' = [resuming EXCEPT ![q] =
       IF Exceptions(task[q]) # {} THEN "fallout" ELSE "in_progress"]
  /\ UNCHANGED <<commercial, delivery, capacity, field, network>>

(* ... and a trigger that finds the order on hold meanwhile does not wait for
   the lock: the row it would update is not among those it selects. *)
CommitResume(q) ==
  /\ resuming[q] # "no"
  /\ order' = [order EXCEPT ![q] = resuming[q]]
  /\ resuming' = [resuming EXCEPT ![q] = "no"]
  /\ UNCHANGED <<commercial, subscriber, task, capacity, field, network>>

(* Variant: an order can be cancelled while steps of its delivery are done. *)
CancelAnyway(q) ==
  /\ Unlocked(q)
  /\ order[q] \notin {"none", "completed", "cancelled"}
  /\ task' = [task EXCEPT ![q] =
       [k \in Keys |-> IF task[q][k] = "completed" THEN "completed" ELSE "cancelled"]]
  /\ order' = [order EXCEPT ![q] = "cancelled"]
  /\ UNCHANGED <<commercial, subscriber, resuming, capacity, field, network>>

CancelOrder(q) ==
  /\ Unlocked(q)
  /\ order[q] \notin {"none", "completed", "cancelled"}
  /\ ~subscriber[q]
  /\ \A k \in Keys : task[q][k] # "running" /\ (task[q][k] = "completed" => k = "commercial")
  /\ task' = [task EXCEPT ![q] =
       [k \in Keys |-> IF k = "commercial" THEN "completed" ELSE "cancelled"]]
  /\ order' = [order EXCEPT ![q] = "cancelled"]
  /\ UNCHANGED <<commercial, subscriber, resuming, capacity, field, network>>

-----------------------------------------------------------------------------
(* The installation *)

InstallationMoves ==
  {"requested"} \X {"scheduled", "cancelled"}
    \cup {"scheduled"} \X {"in_progress", "blocked", "cancelled"}
    \cup {"in_progress"} \X {"blocked", "ready_for_activation", "cancelled"}
    \cup {"blocked"} \X {"scheduled", "in_progress", "cancelled"}
    \cup {"ready_for_activation"} \X {"completed", "blocked"}

(* sync_sales_order_installation_task: the tasks of an order whose
   installation becomes st. *)
TasksFollowing(ts, st) ==
  LET t == ts["installation"] IN
  IF st = "completed" /\ t = "running"
    THEN Completed(ts, "installation", "network")
    ELSE [ts EXCEPT !["installation"] =
            IF st = "blocked" /\ t \in {"ready", "running"} THEN "blocked"
            ELSE IF st = "scheduled" /\ t = "blocked" THEN "ready"
            ELSE IF st = "in_progress" /\ t = "ready" THEN "running"
            ELSE IF st = "cancelled" /\ t \in {"ready", "running", "blocked"} THEN "cancelled"
            ELSE t]

(* An installation event with the triggers it fires: completing activates the
   service, and the order's task follows. *)
MoveInstallation(s, st) ==
  /\ <<installation[s], st>> \in InstallationMoves
  /\ installation' = [installation EXCEPT ![s] = st]
  /\ \/ /\ st = "completed" /\ service[s] = "pending_installation"
        /\ service' = [service EXCEPT ![s] = "active"]
     \/ st # "completed" /\ UNCHANGED service
  /\ \/ s \in Quotes /\ SetTasks(s, TasksFollowing(task[s], st))
     \/ s \in WalkIns /\ UNCHANGED <<task, order>>

TransitionInstallation(s) ==
  /\ \E st \in InstallationStatus : MoveInstallation(s, st)
  /\ UNCHANGED <<commercial, subscriber, resuming, capacity, network>>

-----------------------------------------------------------------------------
(* The active service and its network jobs *)

ChangeFrom == [plan_change |-> {"active"}, suspend |-> {"active"},
               restore |-> {"suspended"}, terminate |-> {"active", "suspended"}]
ChangeTo == [plan_change |-> "active", suspend |-> "suspended",
             restore |-> "active", terminate |-> "terminated"]

(* No change order creates the account on the router: that is activation. *)
ApplyChangeOrder(s, j, change) ==
  /\ service[s] \in ChangeFrom[change]
  /\ service' = [service EXCEPT ![s] = ChangeTo[change]]
  /\ Enqueue(s, j, FALSE)
  /\ UNCHANGED <<commercial, delivery, resuming, capacity, installation, outbox>>

(* A network action by hand, which may be one more activation. *)
EnqueueNetworkAction(s, j) ==
  /\ \/ service[s] = "active" /\ installation[s] = "completed" /\ Enqueue(s, j, TRUE)
     \/ service[s] \in {"active", "suspended"} /\ Enqueue(s, j, FALSE)
  /\ UNCHANGED <<commercial, delivery, resuming, capacity, field, outbox>>

(* Variant: any activation of the service will do. *)
AwaitsAny(q, j) ==
  task[q]["network"] = "running" /\ job[j].service = q /\ job[j].creates

(* The activation job the order's running task is waiting for. *)
Awaits(q, j) ==
  task[q]["network"] = "running" /\ outbox[q] = j /\ job[j].service = q /\ job[j].creates

(* The worker's terminal result and sync_sales_order_network_job. *)
FinishJob(j, ok) ==
  /\ job[j].state = "queued"
  /\ job' = [job EXCEPT ![j] = [service |-> job[j].service, creates |-> job[j].creates,
                                state |-> IF ok THEN "succeeded" ELSE "failed"]]
  /\ \/ \E q \in Quotes :
          /\ Awaits(q, j)
          /\ SetTasks(q, IF ok THEN Completed(task[q], "network", "billing")
                         ELSE [task[q] EXCEPT !["network"] = "failed"])
     \/ /\ \A q \in Quotes : ~Awaits(q, j)
        /\ UNCHANGED <<task, order>>
  /\ UNCHANGED <<commercial, subscriber, resuming, capacity, field, outbox>>

JobStep(j) == \E ok \in BOOLEAN : FinishJob(j, ok)

-----------------------------------------------------------------------------

SalesStep ==
  \/ \E l \in Leads : CreateLead(l) \/ QualifyLead(l)
  \/ \E q \in Quotes :
       \/ CreateQuote(q) \/ ApproveQuote(q) \/ AcceptQuote(q)
       \/ ConvertSubscriber(q) \/ ReserveResource(q) \/ CreateInstallation(q)
       \/ PostFirstInvoice(q)
       \/ \E j \in Jobs : EnqueueActivation(q, j)

CommandStep ==
  \E q \in Quotes :
    \/ PlaceOnHold(q) \/ BeginResume(q) \/ CommitResume(q) \/ CancelOrder(q)
    \/ \E k \in Keys : RetryTask(q, k)

ServiceStep ==
  \E s \in Services :
    \/ CreateServiceInstallation(s) \/ TransitionInstallation(s)
    \/ \E j \in Jobs :
         \/ EnqueueNetworkAction(s, j)
         \/ \E change \in DOMAIN ChangeFrom : ApplyChangeOrder(s, j, change)

Next == SalesStep \/ CommandStep \/ ServiceStep \/ \E j \in Jobs : JobStep(j)

Spec == Init /\ [][Next]_vars

-----------------------------------------------------------------------------
(* Properties *)

(* Tasks ts of an order with status o: each waits for the one before it, and
   only the steps that depend on someone else can be stuck. *)
TasksInOrder(ts, o) ==
  /\ o # "none" <=> ts["commercial"] = "completed"
  /\ o = "none" => \A k \in Keys : ts[k] = "none"
  /\ \A k \in Keys \ {"commercial"} :
       /\ ts[k] \in {"ready", "running", "blocked", "failed", "completed"}
            => ts[Before[k]] = "completed"
       /\ ts[Before[k]] = "completed" => ts[k] # "pending"
       /\ ts[k] = "none" => o = "none"
       /\ ts[k] = "cancelled" /\ k # "installation" => o = "cancelled"
       /\ ts[k] = "running" => k \in {"installation", "network"}
       /\ ts[k] = "blocked" => k = "installation"
       /\ ts[k] = "failed" => k = "network"

(* The installation's task t is where the installation is, or has lost it. *)
TaskFollowsInstallation(t, inst, o) ==
  /\ inst = "none" /\ t \notin {"none", "pending", "ready"} => o = "cancelled"
  /\ t = "running" => inst \in {"requested", "scheduled", "in_progress", "ready_for_activation"}
  /\ t = "completed" => inst = "completed"
  /\ t = "cancelled" => inst \in {"none", "cancelled"}
  /\ inst = "cancelled" => t = "cancelled"

OrderOK(q) ==
  /\ order[q] # "none" <=> quote[q] = "accepted"
  /\ TasksInOrder(task[q], order[q])
  /\ TaskFollowsInstallation(task[q]["installation"], installation[q], order[q])
  /\ subscriber[q] <=> task[q]["subscriber"] = "completed"
  /\ units[q] # 0 <=> task[q]["resource"] = "completed"
  /\ installation[q] # "none" => units[q] # 0
  /\ order[q] = "accepted" => ~subscriber[q]
  /\ order[q] = "cancelled" => task[q]["subscriber"] = "cancelled"
  /\ order[q] = "completed" <=> task[q]["billing"] = "completed"
  /\ resuming[q] # "no" => order[q] = "on_hold"

(* The order as a whole: what was delivered is recorded once, a cancelled order
   left nothing behind, an order is complete with its last task, and a service
   is in use exactly if its installation was completed. *)
OrderInvariant ==
  /\ \A q \in Quotes : OrderOK(q)
  /\ \A s \in Services :
       /\ installation[s] = "none" <=> service[s] = "none"
       /\ installation[s] = "completed" <=> service[s] \in {"active", "suspended", "terminated"}

(* Capacity is never promised twice: what the resource counts as taken is what
   the orders hold, and no more than there is, although reservations are made
   by concurrent transactions. *)
CapacityAccounted ==
  /\ reserved = SumFunction(units)
  /\ reserved <= Capacity

(* An order's network step follows the job it queued itself, whichever other
   activations of the service are queued, retried or answered late. *)
ActivationFollowsItsJob ==
  \A q \in Quotes :
    LET t == task[q]["network"]
        j == outbox[q]
    IN
    /\ t \in {"none", "pending"} => j = NoJob
    /\ t \in {"running", "failed", "completed"} =>
         j \in Jobs /\ job[j].service = q /\ job[j].creates
    /\ t = "running" => job[j].state = "queued"
    /\ t = "failed" => job[j].state = "failed"
    /\ t = "completed" => job[j].state = "succeeded"

(* An order in the code is an order as it was promised. *)
Journey == INSTANCE OrderJourney WITH
  Orders <- Quotes,
  done <- [q \in Quotes |-> {k \in Keys : task[q][k] = "completed"}],
  fate <- [q \in Quotes |-> IF order[q] \in {"completed", "cancelled"} THEN order[q] ELSE "open"]

(* Whatever sales, dispatchers, commands and the worker do in whatever order,
   steps are delivered one by one, once, and an order that ended stays ended. *)
KeepsJourney == Journey!Spec
===============================================================================
