------------------------ MODULE OrderFulfilmentProofs ------------------------
(***************************************************************************)
(* Proofs about OrderFulfilment and FieldService.  TypeCorrect gives every *)
(* variable of orders its type; OrderInvariant is inductive as it stands,  *)
(* one step per operation, with what an update of an order's tasks can do  *)
(* stated once, in TasksStayInOrder and OrderFollows.  Every field command *)
(* moves installations as the order desk could have, so FieldSpec          *)
(* implements the order desk's Spec and everything proved of orders holds  *)
(* beside field work too; and the board of work orders keeps its invariant.*)
(***************************************************************************)
EXTENDS FieldService, SumTheorems, TLAPS

-----------------------------------------------------------------------------
(* Types *)

TaskMap == [Keys -> TaskStatus]

LEMMA CompletedTyped ==
  ASSUME NEW ts \in TaskMap, NEW k \in Keys, NEW n \in Keys
  PROVE  Completed(ts, k, n) \in TaskMap
BY DEF Completed, TaskMap, TaskStatus

LEMMA FollowingTyped ==
  ASSUME NEW ts \in TaskMap, NEW st
  PROVE  TasksFollowing(ts, st) \in TaskMap
<1>1. Completed(ts, "installation", "network") \in TaskMap
  BY CompletedTyped DEF Keys
<1>2. \A u \in TaskStatus : [ts EXCEPT !["installation"] = u] \in TaskMap
  BY DEF TaskMap
<1>3. ts["installation"] \in TaskStatus
  BY DEF TaskMap, Keys
<1> QED
  BY <1>1, <1>2, <1>3 DEF TasksFollowing, TaskStatus

LEMMA SetTasksTyped ==
  ASSUME NEW q \in Quotes, NEW ts \in TaskMap, SetTasks(q, ts),
         task \in [Quotes -> TaskMap], order \in [Quotes -> OrderStatus]
  PROVE  task' \in [Quotes -> TaskMap] /\ order' \in [Quotes -> OrderStatus]
<1>1. OrderAfter(q, ts) \in OrderStatus
  BY DEF OrderAfter, OrderStatus
<1> QED
  BY <1>1 DEF SetTasks

LEMMA OneTaskTyped ==
  ASSUME NEW ts \in TaskMap, NEW k \in Keys, NEW u \in TaskStatus
  PROVE  [ts EXCEPT ![k] = u] \in TaskMap
BY DEF TaskMap

LEMMA InitTyped == Init => TypeOK
<1> USE NoJobIsNone, CapacityIsPositive
<1> QED
  BY DEF Init, TypeOK, LeadStatus, QuoteStatus, OrderStatus, TaskStatus,
         InstallationStatus, ServiceStatus, Requests, NoRequest, Services

LEMMA SalesTyped ==
  ASSUME TypeOK, SalesStep
  PROVE  TypeOK'
<1> USE DEF TypeOK, commercial, delivery, capacity, field, network
<1> USE CapacityIsPositive, QuotesHaveLeads
<1>1. ASSUME NEW l \in Leads, CreateLead(l) \/ QualifyLead(l)  PROVE TypeOK'
  BY <1>1 DEF CreateLead, QualifyLead, LeadStatus
<1>2. ASSUME NEW q \in Quotes, CreateQuote(q) \/ ApproveQuote(q)  PROVE TypeOK'
  BY <1>2 DEF CreateQuote, ApproveQuote, Quoted, LeadStatus, QuoteStatus
<1>3. ASSUME NEW q \in Quotes, AcceptQuote(q)  PROVE TypeOK'
  <2>1. NewTasks \in TaskMap
    BY DEF NewTasks, TaskMap, TaskStatus
  <2>2. task' \in [Quotes -> [Keys -> TaskStatus]]
    BY <1>3, <2>1 DEF AcceptQuote, TaskMap
  <2> QED
    BY <1>3, <2>2 DEF AcceptQuote, LeadStatus, QuoteStatus, OrderStatus
<1>4. ASSUME NEW q \in Quotes, ConvertSubscriber(q)  PROVE TypeOK'
  <2>1. Completed(task[q], "subscriber", "resource") \in TaskMap
    BY CompletedTyped DEF TaskMap, Keys
  <2>2. task' \in [Quotes -> [Keys -> TaskStatus]]
    BY <1>4, <2>1 DEF ConvertSubscriber, TaskMap
  <2> QED
    BY <1>4, <2>2 DEF ConvertSubscriber, OrderStatus
<1>5. ASSUME NEW q \in Quotes, ReserveResource(q)  PROVE TypeOK'
  <2>1. Completed(task[q], "resource", "installation") \in TaskMap
    BY CompletedTyped DEF TaskMap, Keys
  <2>2. task' \in [Quotes -> TaskMap] /\ order' \in [Quotes -> OrderStatus]
    BY <1>5, <2>1, SetTasksTyped DEF ReserveResource, TaskMap
  <2>3. PICK n \in 1..MaxUnits : /\ Capacity - reserved >= n
                                 /\ units' = [units EXCEPT ![q] = n]
                                 /\ reserved' = reserved + n
    BY <1>5 DEF ReserveResource
  <2>4. units' \in [Quotes -> 0..MaxUnits] /\ reserved' \in 0..Capacity
    BY <2>3
  <2> QED
    BY <1>5, <2>2, <2>4 DEF ReserveResource, TaskMap
<1>6. ASSUME NEW q \in Quotes, CreateInstallation(q)  PROVE TypeOK'
  <2>1. [task[q] EXCEPT !["installation"] = "running"] \in TaskMap
    BY OneTaskTyped DEF TaskMap, Keys, TaskStatus
  <2>2. task' \in [Quotes -> TaskMap] /\ order' \in [Quotes -> OrderStatus]
    BY <1>6, <2>1, SetTasksTyped DEF CreateInstallation, TaskMap
  <2> QED
    BY <1>6, <2>2 DEF CreateInstallation, TaskMap, ServiceStatus, InstallationStatus
<1>7. ASSUME NEW q \in Quotes, PostFirstInvoice(q)  PROVE TypeOK'
  <2>1. [task[q] EXCEPT !["billing"] = "completed"] \in TaskMap
    BY OneTaskTyped DEF TaskMap, Keys, TaskStatus
  <2>2. task' \in [Quotes -> [Keys -> TaskStatus]]
    BY <1>7, <2>1 DEF PostFirstInvoice, TaskMap
  <2> QED
    BY <1>7, <2>2 DEF PostFirstInvoice, OrderStatus
<1>8. ASSUME NEW q \in Quotes, NEW j \in Jobs, EnqueueActivation(q, j)  PROVE TypeOK'
  <2>1. [task[q] EXCEPT !["network"] = "running"] \in TaskMap
    BY OneTaskTyped DEF TaskMap, Keys, TaskStatus
  <2>2. task' \in [Quotes -> TaskMap] /\ order' \in [Quotes -> OrderStatus]
    BY <1>8, <2>1, SetTasksTyped DEF EnqueueActivation, TaskMap
  <2>3. job' \in [Jobs -> Requests]
    BY <1>8 DEF EnqueueActivation, Enqueue, Requests, Services
  <2> QED
    BY <1>8, <2>2, <2>3 DEF EnqueueActivation, TaskMap
<1> QED
  BY <1>1, <1>2, <1>3, <1>4, <1>5, <1>6, <1>7, <1>8 DEF SalesStep

LEMMA CommandTyped ==
  ASSUME TypeOK, CommandStep
  PROVE  TypeOK'
<1> USE DEF TypeOK, commercial, delivery, capacity, field, network
<1>1. ASSUME NEW q \in Quotes, PlaceOnHold(q) \/ BeginResume(q) \/ CommitResume(q)
      PROVE  TypeOK'
  <2>1. CASE PlaceOnHold(q)
    BY <2>1 DEF PlaceOnHold, OrderStatus
  <2>2. CASE BeginResume(q)
    BY <2>2 DEF BeginResume
  <2>3. CASE CommitResume(q)
    BY <2>3 DEF CommitResume, OrderStatus
  <2> QED
    BY <1>1, <2>1, <2>2, <2>3
<1>2. ASSUME NEW q \in Quotes, CancelOrder(q)  PROVE TypeOK'
  <2>1. [k \in Keys |-> IF k = "commercial" THEN "completed" ELSE "cancelled"] \in TaskMap
    BY DEF TaskMap, TaskStatus
  <2>2. task' \in [Quotes -> [Keys -> TaskStatus]]
    BY <1>2, <2>1 DEF CancelOrder, TaskMap
  <2> QED
    BY <1>2, <2>2 DEF CancelOrder, OrderStatus
<1>3. ASSUME NEW q \in Quotes, NEW k \in Keys, RetryTask(q, k)  PROVE TypeOK'
  <2>1. [task[q] EXCEPT ![k] = "ready"] \in TaskMap
    BY OneTaskTyped DEF TaskMap, TaskStatus
  <2>2. task' \in [Quotes -> TaskMap] /\ order' \in [Quotes -> OrderStatus]
    BY <1>3, <2>1, SetTasksTyped DEF RetryTask, TaskMap
  <2> QED
    BY <1>3, <2>2 DEF RetryTask, TaskMap
<1> QED
  BY <1>1, <1>2, <1>3 DEF CommandStep

LEMMA MoveTyped ==
  ASSUME TypeOK, NEW s \in Services, NEW st, MoveInstallation(s, st)
  PROVE  /\ installation' \in [Services -> InstallationStatus]
         /\ service' \in [Services -> ServiceStatus]
         /\ task' \in [Quotes -> TaskMap]
         /\ order' \in [Quotes -> OrderStatus]
<1> USE DEF TypeOK
<1>1. st \in InstallationStatus
  BY DEF MoveInstallation, InstallationMoves, InstallationStatus
<1>2. installation' \in [Services -> InstallationStatus]
  BY <1>1 DEF MoveInstallation
<1>3. service' \in [Services -> ServiceStatus]
  BY DEF MoveInstallation, ServiceStatus
<1>4. CASE s \in Quotes /\ SetTasks(s, TasksFollowing(task[s], st))
  <2>1. TasksFollowing(task[s], st) \in TaskMap
    BY <1>4, FollowingTyped DEF TaskMap
  <2> QED
    BY <1>2, <1>3, <1>4, <2>1, SetTasksTyped DEF TaskMap
<1>5. CASE s \in WalkIns /\ UNCHANGED <<task, order>>
  BY <1>2, <1>3, <1>5 DEF TaskMap
<1> QED
  BY <1>4, <1>5 DEF MoveInstallation

LEMMA ServiceTyped ==
  ASSUME TypeOK, ServiceStep
  PROVE  TypeOK'
<1> USE DEF TypeOK, commercial, delivery, capacity, field, network
<1>1. ASSUME NEW s \in Services, CreateServiceInstallation(s)  PROVE TypeOK'
  BY <1>1 DEF CreateServiceInstallation, ServiceStatus, InstallationStatus
<1>2. ASSUME NEW s \in Services, TransitionInstallation(s)  PROVE TypeOK'
  <2>1. PICK st : MoveInstallation(s, st)
    BY <1>2 DEF TransitionInstallation
  <2> QED
    BY <1>2, <2>1, MoveTyped DEF TransitionInstallation, TaskMap
<1>3. ASSUME NEW s \in Services, NEW j \in Jobs, EnqueueNetworkAction(s, j)  PROVE TypeOK'
  <2>1. job' \in [Jobs -> Requests]
    BY <1>3, \A creates \in BOOLEAN : [service |-> s, creates |-> creates, state |-> "queued"] \in Requests
       DEF EnqueueNetworkAction, Enqueue, Requests
  <2> QED
    BY <1>3, <2>1 DEF EnqueueNetworkAction
<1>4. ASSUME NEW s \in Services, NEW j \in Jobs, NEW change \in DOMAIN ChangeFrom,
             ApplyChangeOrder(s, j, change)
      PROVE  TypeOK'
  <2>1. ChangeTo[change] \in ServiceStatus
    BY DEF ChangeTo, ChangeFrom, ServiceStatus
  <2>2. service' \in [Services -> ServiceStatus]
    BY <1>4, <2>1 DEF ApplyChangeOrder
  <2>3. job' \in [Jobs -> Requests]
    BY <1>4 DEF ApplyChangeOrder, Enqueue, Requests
  <2> QED
    BY <1>4, <2>2, <2>3 DEF ApplyChangeOrder
<1> QED
  BY <1>1, <1>2, <1>3, <1>4 DEF ServiceStep

LEMMA JobTyped ==
  ASSUME TypeOK, NEW j \in Jobs, JobStep(j)
  PROVE  TypeOK'
<1> USE DEF TypeOK, commercial, delivery, capacity, field, network
<1> PICK ok \in BOOLEAN : FinishJob(j, ok)
  BY DEF JobStep
<1>1. job' \in [Jobs -> Requests]
  BY DEF FinishJob, Requests
<1>2. task' \in [Quotes -> TaskMap] /\ order' \in [Quotes -> OrderStatus]
  <2>1. ASSUME NEW q \in Quotes
        PROVE  /\ Completed(task[q], "network", "billing") \in TaskMap
               /\ [task[q] EXCEPT !["network"] = "failed"] \in TaskMap
    BY CompletedTyped, OneTaskTyped DEF TaskMap, Keys, TaskStatus
  <2>2. ASSUME NEW q \in Quotes,
               SetTasks(q, IF ok THEN Completed(task[q], "network", "billing")
                              ELSE [task[q] EXCEPT !["network"] = "failed"])
        PROVE  task' \in [Quotes -> TaskMap] /\ order' \in [Quotes -> OrderStatus]
    BY <2>1, <2>2, SetTasksTyped DEF TaskMap
  <2> QED
    BY <2>2 DEF FinishJob, TaskMap
<1> QED
  BY <1>1, <1>2 DEF FinishJob, TaskMap

LEMMA NextTyped ==
  ASSUME TypeOK, [Next]_vars
  PROVE  TypeOK'
<1>1. CASE UNCHANGED vars
  BY <1>1 DEF vars, commercial, delivery, capacity, field, network, TypeOK
<1> QED
  BY <1>1, SalesTyped, CommandTyped, ServiceTyped, JobTyped DEF Next

(* Every variable keeps its type, for any number of quotations, services and
   jobs. *)
THEOREM TypeCorrect == Spec => []TypeOK
BY InitTyped, NextTyped, PTL DEF Spec

-----------------------------------------------------------------------------
(* The order as a whole *)

(* What TasksInOrder says of one task t, when the one before it is p. *)
StepInOrder(k, p, t, o) ==
  /\ t \in {"ready", "running", "blocked", "failed", "completed"} => p = "completed"
  /\ p = "completed" => t # "pending"
  /\ t = "none" => o = "none"
  /\ t = "cancelled" /\ k # "installation" => o = "cancelled"
  /\ t = "running" => k \in {"installation", "network"}
  /\ t = "blocked" => k = "installation"
  /\ t = "failed" => k = "network"

InOrder(ts, o) ==
  /\ o # "none" => ts["commercial"] = "completed"
  /\ o = "none" => /\ ts["commercial"] = "none" /\ ts["subscriber"] = "none"
                   /\ ts["resource"] = "none" /\ ts["installation"] = "none"
                   /\ ts["network"] = "none" /\ ts["billing"] = "none"
  /\ StepInOrder("subscriber", ts["commercial"], ts["subscriber"], o)
  /\ StepInOrder("resource", ts["subscriber"], ts["resource"], o)
  /\ StepInOrder("installation", ts["resource"], ts["installation"], o)
  /\ StepInOrder("network", ts["installation"], ts["network"], o)
  /\ StepInOrder("billing", ts["network"], ts["billing"], o)

LEMMA Unfolded ==
  ASSUME NEW ts, NEW o
  PROVE  TasksInOrder(ts, o) <=> InOrder(ts, o)
<1>1. ASSUME NEW k \in Keys \ {"commercial"}
      PROVE  StepInOrder(k, ts[Before[k]], ts[k], o) <=>
               /\ ts[k] \in {"ready", "running", "blocked", "failed", "completed"}
                    => ts[Before[k]] = "completed"
               /\ ts[Before[k]] = "completed" => ts[k] # "pending"
               /\ ts[k] = "none" => o = "none"
               /\ ts[k] = "cancelled" /\ k # "installation" => o = "cancelled"
               /\ ts[k] = "running" => k \in {"installation", "network"}
               /\ ts[k] = "blocked" => k = "installation"
               /\ ts[k] = "failed" => k = "network"
  BY DEF StepInOrder
<1>2. (\A k \in Keys \ {"commercial"} : StepInOrder(k, ts[Before[k]], ts[k], o)) <=>
        /\ StepInOrder("subscriber", ts["commercial"], ts["subscriber"], o)
        /\ StepInOrder("resource", ts["subscriber"], ts["resource"], o)
        /\ StepInOrder("installation", ts["resource"], ts["installation"], o)
        /\ StepInOrder("network", ts["installation"], ts["network"], o)
        /\ StepInOrder("billing", ts["network"], ts["billing"], o)
  <2>1. /\ Before["subscriber"] = "commercial" /\ Before["resource"] = "subscriber"
        /\ Before["installation"] = "resource" /\ Before["network"] = "installation"
        /\ Before["billing"] = "network"
    BY DEF Before
  <2>2. \A k \in Keys \ {"commercial"} :
          k \in {"subscriber", "resource", "installation", "network", "billing"}
    BY DEF Keys
  <2> QED
    BY <2>1, <2>2 DEF Keys
<1> QED
  BY <1>1, <1>2 DEF TasksInOrder, InOrder, Keys

LEMMA CompletedAt ==
  ASSUME NEW ts \in TaskMap, NEW k \in Keys, NEW n \in Keys, k # n
  PROVE  /\ Completed(ts, k, n)[k] = "completed"
         /\ Completed(ts, k, n)[n] = IF ts[n] = "pending" THEN "ready" ELSE ts[n]
         /\ \A x \in Keys \ {k, n} : Completed(ts, k, n)[x] = ts[x]
BY DEF Completed, TaskMap

LEMMA AfterOf ==
  ASSUME NEW q \in Quotes, NEW ts
  PROVE  /\ OrderAfter(q, ts) \in {order[q], "fallout", "in_progress"}
         /\ order[q] \in {"on_hold", "completed", "cancelled"} => OrderAfter(q, ts) = order[q]
BY DEF OrderAfter

(* An order nothing of which changes stays as it should be. *)
LEMMA Untouched ==
  ASSUME NEW q \in Quotes, OrderOK(q),
         quote'[q] = quote[q], order'[q] = order[q], subscriber'[q] = subscriber[q],
         task'[q] = task[q], resuming'[q] = resuming[q], units'[q] = units[q],
         installation'[q] = installation[q]
  PROVE  OrderOK(q)'
BY DEF OrderOK, TasksInOrder, TaskFollowsInstallation

-----------------------------------------------------------------------------

ServicesOK ==
  \A s \in Services :
    /\ installation[s] = "none" <=> service[s] = "none"
    /\ installation[s] = "completed" <=> service[s] \in {"active", "suspended", "terminated"}

LEMMA Parts == OrderInvariant <=> (\A q \in Quotes : OrderOK(q)) /\ ServicesOK
BY DEF OrderInvariant, ServicesOK

LEMMA InitOrder == Init => OrderInvariant
<1> SUFFICES ASSUME Init PROVE OrderInvariant
  OBVIOUS
<1>1. ASSUME NEW q \in Quotes PROVE OrderOK(q)
  <2>1. InOrder(task[q], order[q])
    BY DEF Init, InOrder, StepInOrder, Keys
  <2>2. /\ task[q]["installation"] = "none" /\ task[q]["subscriber"] = "none"
        /\ task[q]["resource"] = "none" /\ task[q]["billing"] = "none"
    BY DEF Init, Keys
  <2> QED
    BY <2>1, <2>2, Unfolded DEF Init, OrderOK, TaskFollowsInstallation, Services
<1>2. ServicesOK
  BY DEF Init, ServicesOK
<1> QED
  BY <1>1, <1>2, Parts

LEMMA AcceptOrder ==
  ASSUME TypeOK, OrderInvariant, NEW q \in Quotes, AcceptQuote(q)
  PROVE  OrderInvariant'
<1> USE DEF TypeOK, commercial, delivery, capacity, field, network
<1>1. OrderOK(q)'
  <2>1. order[q] = "none"
    BY DEF OrderInvariant, OrderOK, AcceptQuote, QuoteStatus
  <2>2. InOrder(task[q], order[q])
    BY Unfolded DEF OrderInvariant, OrderOK
  <2>3. /\ quote'[q] = "accepted" /\ order'[q] = "accepted"
        /\ task'[q]["commercial"] = "completed" /\ task'[q]["subscriber"] = "ready"
        /\ task'[q]["resource"] = "pending" /\ task'[q]["installation"] = "pending"
        /\ task'[q]["network"] = "pending" /\ task'[q]["billing"] = "pending"
    BY DEF AcceptQuote, NewTasks, Keys
  <2>4. UNCHANGED <<subscriber, units, installation, resuming>>
    BY DEF AcceptQuote
  <2>5. InOrder(task[q], order[q])'
    BY <2>3 DEF InOrder, StepInOrder
  <2>6. TasksInOrder(task[q], order[q])'
    BY <2>5, Unfolded
  <2> QED
    BY <2>1, <2>2, <2>3, <2>4, <2>6 DEF OrderInvariant, OrderOK, InOrder, TaskFollowsInstallation
<1>2. ASSUME NEW x \in Quotes \ {q}  PROVE OrderOK(x)'
  BY Untouched DEF AcceptQuote, OrderInvariant
<1>3. ServicesOK'
  BY Parts DEF AcceptQuote, ServicesOK
<1> QED
  BY <1>1, <1>2, <1>3 DEF OrderInvariant, ServicesOK

(* What an update of q's tasks leaves, and what it may make of the order. *)
LEMMA SetAt ==
  ASSUME TypeOK, NEW q \in Quotes, NEW ts \in TaskMap, SetTasks(q, ts)
  PROVE  /\ task'[q] = ts
         /\ order'[q] \in {order[q], "fallout", "in_progress"}
         /\ order[q] \in {"on_hold", "completed", "cancelled"} => order'[q] = order[q]
         /\ \A x \in Quotes \ {q} : task'[x] = task[x] /\ order'[x] = order[x]
BY AfterOf DEF SetTasks, TypeOK

(* The facts about one order that the steps below need. *)
LEMMA AtOrder ==
  ASSUME TypeOK, OrderInvariant, NEW q \in Quotes
  PROVE  /\ OrderOK(q) /\ InOrder(task[q], order[q]) /\ task[q] \in TaskMap
         /\ order[q] \in OrderStatus /\ q \in Services
BY Unfolded DEF OrderInvariant, OrderOK, TypeOK, TaskMap, Services

LEMMA ConvertOrder ==
  ASSUME TypeOK, OrderInvariant, NEW q \in Quotes, ConvertSubscriber(q)
  PROVE  OrderInvariant'
<1> USE AtOrder DEF TypeOK, commercial, delivery, capacity, field, network
<1> DEFINE ts == Completed(task[q], "subscriber", "resource")
<1>1. OrderOK(q)'
  <2>1. /\ ts["subscriber"] = "completed"
        /\ ts["resource"] = IF task[q]["resource"] = "pending" THEN "ready" ELSE task[q]["resource"]
        /\ \A x \in Keys \ {"subscriber", "resource"} : ts[x] = task[q][x]
    BY CompletedAt DEF Keys
  <2>2. task'[q] = ts /\ order'[q] = "in_progress" /\ subscriber'[q] = TRUE
    BY DEF ConvertSubscriber
  <2>3. UNCHANGED <<quote, units, installation, resuming>>
    BY DEF ConvertSubscriber
  <2>4. InOrder(ts, "in_progress")
    <3> HIDE DEF ts
    <3> QED
      BY <2>1 DEF InOrder, StepInOrder, ConvertSubscriber, Keys
  <2>5. TasksInOrder(task[q], order[q])'
    BY <2>2, <2>4, Unfolded
  <2> HIDE DEF ts
  <2> QED
    BY <2>1, <2>2, <2>3, <2>5
       DEF OrderOK, InOrder, StepInOrder, TaskFollowsInstallation, ConvertSubscriber, Unlocked, Keys
<1>2. ASSUME NEW x \in Quotes \ {q}  PROVE OrderOK(x)'
  BY Untouched DEF ConvertSubscriber
<1>3. ServicesOK'
  BY Parts DEF ConvertSubscriber, ServicesOK
<1> QED
  BY <1>1, <1>2, <1>3 DEF OrderInvariant, ServicesOK

LEMMA ReserveOrder ==
  ASSUME TypeOK, OrderInvariant, NEW q \in Quotes, ReserveResource(q)
  PROVE  OrderInvariant'
<1> USE AtOrder DEF TypeOK, commercial, delivery, capacity, field, network
<1> DEFINE ts == Completed(task[q], "resource", "installation")
<1>0. ts \in TaskMap /\ SetTasks(q, ts)
  BY CompletedTyped DEF ReserveResource, Keys
<1>1. OrderOK(q)'
  <2>1. /\ ts["resource"] = "completed"
        /\ ts["installation"] =
             IF task[q]["installation"] = "pending" THEN "ready" ELSE task[q]["installation"]
        /\ \A x \in Keys \ {"resource", "installation"} : ts[x] = task[q][x]
    BY CompletedAt DEF Keys
  <2>2. /\ task'[q] = ts
        /\ order'[q] \in {order[q], "fallout", "in_progress"}
        /\ order[q] \in {"on_hold", "completed", "cancelled"} => order'[q] = order[q]
    BY <1>0, SetAt
  <2>3. UNCHANGED <<quote, subscriber, installation, resuming>> /\ units'[q] # 0
    BY CapacityIsPositive DEF ReserveResource
  <2>4. InOrder(ts, order'[q])
    <3> HIDE DEF ts
    <3> QED
      BY <2>1, <2>2 DEF InOrder, StepInOrder, ReserveResource, Keys
  <2>5. TasksInOrder(task[q], order[q])'
    BY <2>2, <2>4, Unfolded
  <2>6. subscriber[q] /\ task[q]["resource"] = "ready" /\ units[q] = 0 /\ resuming[q] = "no"
    BY DEF ReserveResource, Unlocked
  <2> HIDE DEF ts
  <2> QED
    BY <2>1, <2>2, <2>3, <2>5, <2>6
       DEF OrderOK, InOrder, StepInOrder, TaskFollowsInstallation, Keys
<1>2. ASSUME NEW x \in Quotes \ {q}  PROVE OrderOK(x)'
  <2>1. task'[x] = task[x] /\ order'[x] = order[x]
    BY <1>0, SetAt
  <2> QED
    BY <2>1, Untouched DEF ReserveResource
<1>3. ServicesOK'
  BY Parts DEF ReserveResource, ServicesOK
<1> QED
  BY <1>1, <1>2, <1>3 DEF OrderInvariant, ServicesOK

LEMMA InstallOrder ==
  ASSUME TypeOK, OrderInvariant, NEW q \in Quotes, CreateInstallation(q)
  PROVE  OrderInvariant'
<1> USE AtOrder DEF TypeOK, commercial, delivery, capacity, field, network
<1> DEFINE ts == [task[q] EXCEPT !["installation"] = "running"]
<1>0. ts \in TaskMap /\ SetTasks(q, ts)
  BY OneTaskTyped DEF CreateInstallation, Keys, TaskStatus
<1>1. OrderOK(q)'
  <2>1. ts["installation"] = "running" /\ \A x \in Keys \ {"installation"} : ts[x] = task[q][x]
    BY DEF Keys, TaskMap
  <2>2. /\ task'[q] = ts
        /\ order'[q] \in {order[q], "fallout", "in_progress"}
        /\ order[q] \in {"on_hold", "completed", "cancelled"} => order'[q] = order[q]
    BY <1>0, SetAt
  <2>3. UNCHANGED <<quote, subscriber, units, resuming>> /\ installation'[q] = "requested"
    BY DEF CreateInstallation
  <2>4. InOrder(ts, order'[q])
    <3> HIDE DEF ts
    <3> QED
      BY <2>1, <2>2 DEF InOrder, StepInOrder, CreateInstallation, Keys
  <2>5. TasksInOrder(task[q], order[q])'
    BY <2>2, <2>4, Unfolded
  <2>6. subscriber[q] /\ task[q]["installation"] = "ready" /\ installation[q] = "none" /\ resuming[q] = "no"
    BY DEF CreateInstallation, Unlocked
  <2> HIDE DEF ts
  <2> QED
    BY <2>1, <2>2, <2>3, <2>5, <2>6
       DEF OrderOK, InOrder, StepInOrder, TaskFollowsInstallation, Keys
<1>2. ASSUME NEW x \in Quotes \ {q}  PROVE OrderOK(x)'
  <2>1. task'[x] = task[x] /\ order'[x] = order[x]
    BY <1>0, SetAt
  <2>2. installation'[x] = installation[x]
    BY DEF CreateInstallation, Services
  <2> QED
    BY <2>1, <2>2, Untouched DEF CreateInstallation
<1>3. ServicesOK'
  BY Parts DEF CreateInstallation, ServicesOK
<1> QED
  BY <1>1, <1>2, <1>3 DEF OrderInvariant, ServicesOK

LEMMA EnqueueOrder ==
  ASSUME TypeOK, OrderInvariant, NEW q \in Quotes, NEW j \in Jobs, EnqueueActivation(q, j)
  PROVE  OrderInvariant'
<1> USE AtOrder DEF TypeOK, commercial, delivery, capacity, field, network
<1> DEFINE ts == [task[q] EXCEPT !["network"] = "running"]
<1>0. ts \in TaskMap /\ SetTasks(q, ts)
  BY OneTaskTyped DEF EnqueueActivation, Keys, TaskStatus
<1>1. OrderOK(q)'
  <2>1. ts["network"] = "running" /\ \A x \in Keys \ {"network"} : ts[x] = task[q][x]
    BY DEF Keys, TaskMap
  <2>2. /\ task'[q] = ts
        /\ order'[q] \in {order[q], "fallout", "in_progress"}
        /\ order[q] \in {"on_hold", "completed", "cancelled"} => order'[q] = order[q]
    BY <1>0, SetAt
  <2>3. UNCHANGED <<quote, subscriber, units, resuming, installation>>
    BY DEF EnqueueActivation
  <2>4. InOrder(ts, order'[q])
    <3> HIDE DEF ts
    <3> QED
      BY <2>1, <2>2 DEF InOrder, StepInOrder, EnqueueActivation, Keys
  <2>5. TasksInOrder(task[q], order[q])'
    BY <2>2, <2>4, Unfolded
  <2>6. task[q]["network"] = "ready" /\ installation[q] = "completed" /\ resuming[q] = "no"
    BY DEF EnqueueActivation, Unlocked
  <2> HIDE DEF ts
  <2> QED
    BY <2>1, <2>2, <2>3, <2>5, <2>6
       DEF OrderOK, InOrder, StepInOrder, TaskFollowsInstallation, Keys
<1>2. ASSUME NEW x \in Quotes \ {q}  PROVE OrderOK(x)'
  <2>1. task'[x] = task[x] /\ order'[x] = order[x]
    BY <1>0, SetAt
  <2> QED
    BY <2>1, Untouched DEF EnqueueActivation
<1>3. ServicesOK'
  BY Parts DEF EnqueueActivation, ServicesOK
<1> QED
  BY <1>1, <1>2, <1>3 DEF OrderInvariant, ServicesOK

LEMMA BillOrder ==
  ASSUME TypeOK, OrderInvariant, NEW q \in Quotes, PostFirstInvoice(q)
  PROVE  OrderInvariant'
<1> USE AtOrder DEF TypeOK, commercial, delivery, capacity, field, network
<1> DEFINE ts == [task[q] EXCEPT !["billing"] = "completed"]
<1>1. OrderOK(q)'
  <2>1. ts["billing"] = "completed" /\ \A x \in Keys \ {"billing"} : ts[x] = task[q][x]
    BY DEF Keys, TaskMap
  <2>2. task'[q] = ts /\ order'[q] = "completed"
    BY DEF PostFirstInvoice
  <2>3. UNCHANGED <<quote, subscriber, units, resuming, installation>>
    BY DEF PostFirstInvoice
  <2>4. InOrder(ts, "completed")
    <3> HIDE DEF ts
    <3> QED
      BY <2>1 DEF InOrder, StepInOrder, PostFirstInvoice, Keys
  <2>5. TasksInOrder(task[q], order[q])'
    BY <2>2, <2>4, Unfolded
  <2> HIDE DEF ts
  <2> QED
    BY <2>1, <2>2, <2>3, <2>5
       DEF OrderOK, InOrder, StepInOrder, TaskFollowsInstallation, PostFirstInvoice, Unlocked, Keys
<1>2. ASSUME NEW x \in Quotes \ {q}  PROVE OrderOK(x)'
  BY Untouched DEF PostFirstInvoice
<1>3. ServicesOK'
  BY Parts DEF PostFirstInvoice, ServicesOK
<1> QED
  BY <1>1, <1>2, <1>3 DEF OrderInvariant, ServicesOK

(* A hold, a resume and its commit change the order's status only. *)
LEMMA HoldOrder ==
  ASSUME TypeOK, OrderInvariant, NEW q \in Quotes,
         PlaceOnHold(q) \/ BeginResume(q) \/ CommitResume(q)
  PROVE  OrderInvariant'
<1> USE AtOrder DEF TypeOK, commercial, delivery, capacity, field, network
<1>1. UNCHANGED <<quote, subscriber, task, units, installation, service>>
  BY DEF PlaceOnHold, BeginResume, CommitResume
<1>2. /\ order[q] \notin {"none", "completed", "cancelled"}
      /\ order'[q] \in {"on_hold", "in_progress", "fallout"}
      /\ resuming'[q] # "no" => order'[q] = "on_hold"
  <2>1. CASE PlaceOnHold(q)
    BY <2>1 DEF PlaceOnHold, Unlocked
  <2>2. CASE BeginResume(q)
    BY <2>2 DEF BeginResume
  <2>3. CASE CommitResume(q)
    BY <2>3 DEF CommitResume, OrderOK
  <2> QED
    BY <2>1, <2>2, <2>3
<1>3. OrderOK(q)'
  <2>1. InOrder(task[q], order'[q])
    BY <1>2 DEF InOrder, StepInOrder
  <2>2. TasksInOrder(task[q], order[q])'
    BY <1>1, <2>1, Unfolded
  <2> QED
    BY <1>1, <1>2, <2>2 DEF OrderOK, InOrder, StepInOrder, TaskFollowsInstallation
<1>4. ASSUME NEW x \in Quotes \ {q}  PROVE OrderOK(x)'
  <2>1. order'[x] = order[x] /\ resuming'[x] = resuming[x]
    BY DEF PlaceOnHold, BeginResume, CommitResume
  <2> QED
    BY <1>1, <2>1, Untouched
<1>5. ServicesOK'
  BY <1>1, Parts DEF ServicesOK
<1> QED
  BY <1>3, <1>4, <1>5 DEF OrderInvariant, ServicesOK

LEMMA CancelledOrder ==
  ASSUME TypeOK, OrderInvariant, NEW q \in Quotes, CancelOrder(q)
  PROVE  OrderInvariant'
<1> USE AtOrder DEF TypeOK, commercial, delivery, capacity, field, network
<1>1. UNCHANGED <<quote, subscriber, units, resuming, installation, service>>
  BY DEF CancelOrder
<1>2. OrderOK(q)'
  <2>1. /\ task'[q]["commercial"] = "completed" /\ order'[q] = "cancelled"
        /\ \A k \in Keys \ {"commercial"} : task'[q][k] = "cancelled"
    BY DEF CancelOrder, Keys
  <2>2. /\ ~subscriber[q] /\ task[q]["resource"] # "completed" /\ order[q] # "none"
        /\ resuming[q] = "no"
    BY DEF CancelOrder, Unlocked, Keys
  <2>3. InOrder(task'[q], "cancelled")
    BY <2>1 DEF InOrder, StepInOrder, Keys
  <2>4. TasksInOrder(task[q], order[q])'
    BY <2>1, <2>3, Unfolded
  <2> QED
    BY <1>1, <2>1, <2>2, <2>4 DEF OrderOK, InOrder, StepInOrder, TaskFollowsInstallation, Keys
<1>3. ASSUME NEW x \in Quotes \ {q}  PROVE OrderOK(x)'
  BY <1>1, Untouched DEF CancelOrder
<1>4. ServicesOK'
  BY <1>1, Parts DEF ServicesOK
<1> QED
  BY <1>2, <1>3, <1>4 DEF OrderInvariant, ServicesOK

LEMMA RetriedOrder ==
  ASSUME TypeOK, OrderInvariant, NEW q \in Quotes, NEW k \in Keys, RetryTask(q, k)
  PROVE  OrderInvariant'
<1> USE AtOrder DEF TypeOK, commercial, delivery, capacity, field, network
<1> DEFINE ts == [task[q] EXCEPT ![k] = "ready"]
<1>0. ts \in TaskMap /\ SetTasks(q, ts)
  BY OneTaskTyped DEF RetryTask, TaskStatus
<1>1. UNCHANGED <<quote, subscriber, units, resuming, installation, service>>
  BY DEF RetryTask
<1>2. OrderOK(q)'
  <2>1. ts[k] = "ready" /\ \A x \in Keys \ {k} : ts[x] = task[q][x]
    BY DEF TaskMap
  <2>2. /\ task'[q] = ts
        /\ order'[q] \in {order[q], "fallout", "in_progress"}
        /\ order[q] \in {"on_hold", "completed", "cancelled"} => order'[q] = order[q]
    BY <1>0, SetAt
  <2>3. /\ \/ k = "installation" /\ task[q][k] = "blocked"
           \/ k = "network" /\ task[q][k] = "failed"
        /\ resuming[q] = "no"
    BY DEF RetryTask, Unlocked, InOrder, StepInOrder, Keys
  <2>4. InOrder(ts, order'[q])
    <3> HIDE DEF ts
    <3> QED
      BY <2>1, <2>2, <2>3 DEF InOrder, StepInOrder, Keys
  <2>5. TasksInOrder(task[q], order[q])'
    BY <2>2, <2>4, Unfolded
  <2> HIDE DEF ts
  <2> QED
    BY <1>1, <2>1, <2>2, <2>3, <2>5
       DEF OrderOK, InOrder, StepInOrder, TaskFollowsInstallation, Keys
<1>3. ASSUME NEW x \in Quotes \ {q}  PROVE OrderOK(x)'
  <2>1. task'[x] = task[x] /\ order'[x] = order[x]
    BY <1>0, SetAt
  <2> QED
    BY <1>1, <2>1, Untouched
<1>4. ServicesOK'
  BY <1>1, Parts DEF ServicesOK
<1> QED
  BY <1>2, <1>3, <1>4 DEF OrderInvariant, ServicesOK

(* The job's result is written into the network task and the one after it. *)
LEMMA FinishedOrder ==
  ASSUME TypeOK, OrderInvariant, NEW j \in Jobs, NEW ok \in BOOLEAN, FinishJob(j, ok)
  PROVE  OrderInvariant'
<1> USE AtOrder DEF TypeOK, commercial, delivery, capacity, field, network
<1>1. UNCHANGED <<quote, subscriber, units, resuming, installation, service>>
  BY DEF FinishJob
<1>2. ServicesOK'
  BY <1>1, Parts DEF ServicesOK
<1>3. CASE UNCHANGED <<task, order>>
  <2>1. ASSUME NEW x \in Quotes  PROVE OrderOK(x)'
    BY <1>1, <1>3, Untouched
  <2> QED
    BY <1>2, <2>1 DEF OrderInvariant, ServicesOK
<1>4. ASSUME NEW q \in Quotes, Awaits(q, j),
             SetTasks(q, IF ok THEN Completed(task[q], "network", "billing")
                         ELSE [task[q] EXCEPT !["network"] = "failed"])
      PROVE  OrderInvariant'
  <2> USE <1>4
  <2> DEFINE ts == IF ok THEN Completed(task[q], "network", "billing")
                   ELSE [task[q] EXCEPT !["network"] = "failed"]
  <2>1. /\ ts \in TaskMap
        /\ \/ /\ ts["network"] = "completed"
              /\ ts["billing"] = IF task[q]["billing"] = "pending" THEN "ready" ELSE task[q]["billing"]
           \/ ts["network"] = "failed" /\ ts["billing"] = task[q]["billing"]
        /\ \A x \in Keys \ {"network", "billing"} : ts[x] = task[q][x]
    <3>1. CASE ok
      BY <3>1, CompletedTyped, CompletedAt DEF Keys
    <3>2. CASE ~ok
      BY <3>2, OneTaskTyped DEF Keys, TaskStatus, TaskMap
    <3> QED
      BY <3>1, <3>2
  <2>2. /\ task'[q] = ts
        /\ order'[q] \in {order[q], "fallout", "in_progress"}
        /\ order[q] \in {"on_hold", "completed", "cancelled"} => order'[q] = order[q]
    BY <2>1, SetAt
  <2>3. task[q]["network"] = "running"
    BY DEF Awaits
  <2>4. InOrder(ts, order'[q])
    <3> HIDE DEF ts
    <3> QED
      BY <2>1, <2>2, <2>3 DEF InOrder, StepInOrder, Keys
  <2>5. OrderOK(q)'
    <3>1. TasksInOrder(task[q], order[q])'
      BY <2>2, <2>4, Unfolded
    <3> HIDE DEF ts
    <3> QED
      BY <1>1, <2>1, <2>2, <2>3, <3>1
         DEF OrderOK, InOrder, StepInOrder, TaskFollowsInstallation, Keys
  <2>6. ASSUME NEW x \in Quotes \ {q}  PROVE OrderOK(x)'
    <3>1. task'[x] = task[x] /\ order'[x] = order[x]
      BY <2>1, SetAt
    <3> QED
      BY <1>1, <3>1, Untouched
  <2> QED
    BY <1>2, <2>5, <2>6 DEF OrderInvariant, ServicesOK
<1> QED
  BY <1>3, <1>4 DEF FinishJob

(* What a move of the installation makes of the tasks of its order. *)
LEMMA FollowingAt ==
  ASSUME NEW ts \in TaskMap, NEW st, NEW o, NEW inst, InOrder(ts, o),
         TaskFollowsInstallation(ts["installation"], inst, o),
         <<inst, st>> \in InstallationMoves, ts["resource"] = "completed"
  PROVE  /\ TasksFollowing(ts, st) \in TaskMap
         /\ \A x \in Keys \ {"installation", "network"} : TasksFollowing(ts, st)[x] = ts[x]
         /\ TasksFollowing(ts, st)["network"] # ts["network"] =>
              ts["network"] = "pending" /\ TasksFollowing(ts, st)["network"] = "ready"
         /\ InOrder(TasksFollowing(ts, st), o)
         /\ TaskFollowsInstallation(TasksFollowing(ts, st)["installation"], st, o)
<1> DEFINE new == TasksFollowing(ts, st)
<1>1. new \in TaskMap
  BY FollowingTyped
<1>2. CASE st = "completed" /\ ts["installation"] = "running"
  <2>1. /\ new["installation"] = "completed"
        /\ new["network"] = IF ts["network"] = "pending" THEN "ready" ELSE ts["network"]
        /\ \A x \in Keys \ {"installation", "network"} : new[x] = ts[x]
    BY <1>2, CompletedAt DEF TasksFollowing, Keys
  <2> HIDE DEF new
  <2>2. InOrder(new, o)
    BY <1>2, <2>1 DEF InOrder, StepInOrder, Keys
  <2>3. TaskFollowsInstallation(new["installation"], st, o)
    BY <1>2, <2>1 DEF TaskFollowsInstallation
  <2> QED
    BY <1>1, <2>1, <2>2, <2>3 DEF new
<1>3. CASE ~(st = "completed" /\ ts["installation"] = "running")
  <2> DEFINE t == ts["installation"]
  <2>1. /\ new["installation"] =
             IF st = "blocked" /\ t \in {"ready", "running"} THEN "blocked"
             ELSE IF st = "scheduled" /\ t = "blocked" THEN "ready"
             ELSE IF st = "in_progress" /\ t = "ready" THEN "running"
             ELSE IF st = "cancelled" /\ t \in {"ready", "running", "blocked"} THEN "cancelled"
             ELSE t
        /\ \A x \in Keys \ {"installation"} : new[x] = ts[x]
    BY <1>3 DEF TasksFollowing, Keys, TaskMap
  <2> HIDE DEF new
  <2>2. \/ new["installation"] = t
        \/ /\ t \in {"ready", "running", "blocked"}
           /\ new["installation"] \in {"ready", "running", "blocked", "cancelled"}
    BY <2>1
  <2>3. /\ new["commercial"] = ts["commercial"] /\ new["subscriber"] = ts["subscriber"]
        /\ new["resource"] = ts["resource"] /\ new["network"] = ts["network"]
        /\ new["billing"] = ts["billing"]
    BY <2>1 DEF Keys
  <2>4. InOrder(new, o)
    BY <2>2, <2>3 DEF InOrder, StepInOrder
  <2>5. ts["installation"] \in {"ready", "running", "blocked", "completed", "cancelled"}
    BY DEF InOrder, StepInOrder, TaskMap, TaskStatus, Keys
  <2>6. TaskFollowsInstallation(new["installation"], st, o)
    BY <1>3, <2>1, <2>5 DEF TaskFollowsInstallation, InstallationMoves
  <2> QED
    BY <1>1, <2>1, <2>3, <2>4, <2>6 DEF new, Keys
<1> QED
  BY <1>2, <1>3

LEMMA MovedOrder ==
  ASSUME TypeOK, OrderInvariant, NEW s \in Services, NEW st, MoveInstallation(s, st),
         UNCHANGED <<quote, subscriber, resuming, units>>
  PROVE  OrderInvariant'
<1> USE AtOrder DEF TypeOK
<1>1. /\ <<installation[s], st>> \in InstallationMoves /\ installation'[s] = st
      /\ \A x \in Services \ {s} : installation'[x] = installation[x] /\ service'[x] = service[x]
      /\ \/ st = "completed" /\ service[s] = "pending_installation" /\ service'[s] = "active"
         \/ st # "completed" /\ service'[s] = service[s]
  BY DEF MoveInstallation
<1>2. ServicesOK'
  <2>1. installation[s] \notin {"none", "completed"} /\ st # "none"
    BY <1>1 DEF InstallationMoves
  <2> QED
    BY <1>1, <2>1, Parts DEF ServicesOK
<1>3. CASE s \in WalkIns /\ UNCHANGED <<task, order>>
  <2>1. ASSUME NEW x \in Quotes  PROVE OrderOK(x)'
    BY <1>1, <1>3, QuotesAreNotWalkIns, Untouched
  <2> QED
    BY <1>2, <2>1 DEF OrderInvariant, ServicesOK
<1>4. CASE s \in Quotes /\ SetTasks(s, TasksFollowing(task[s], st))
  <2> USE <1>4
  <2> DEFINE ts == TasksFollowing(task[s], st)
  <2>1. /\ installation[s] # "none" /\ st # "none"
        /\ task[s]["resource"] = "completed" /\ order[s] # "none"
    <3>1. installation[s] # "none" /\ st # "none"
      BY <1>1 DEF InstallationMoves
    <3> QED
      BY <3>1 DEF OrderOK, InOrder
  <2>2. /\ ts \in TaskMap
        /\ \A x \in Keys \ {"installation", "network"} : ts[x] = task[s][x]
        /\ InOrder(ts, order[s])
        /\ TaskFollowsInstallation(ts["installation"], st, order[s])
    <3>1. /\ task[s] \in TaskMap /\ InOrder(task[s], order[s])
          /\ TaskFollowsInstallation(task[s]["installation"], installation[s], order[s])
      BY DEF OrderOK
    <3> QED
      BY ONLY <1>1, <2>1, <3>1, FollowingAt
  <2> HIDE DEF ts
  <2>3. /\ task'[s] = ts
        /\ order'[s] \in {order[s], "fallout", "in_progress"}
        /\ order[s] \in {"on_hold", "completed", "cancelled"} => order'[s] = order[s]
        /\ \A x \in Quotes \ {s} : task'[x] = task[x] /\ order'[x] = order[x]
    BY <2>2, SetAt DEF ts
  <2>4. InOrder(ts, order'[s])
    BY <2>1, <2>2, <2>3 DEF InOrder, StepInOrder
  <2>5. TasksInOrder(task[s], order[s])'
    BY <2>3, <2>4, Unfolded
  <2>6. OrderOK(s)'
    BY <1>1, <2>1, <2>2, <2>3, <2>5 DEF OrderOK, TaskFollowsInstallation, Keys
  <2>7. ASSUME NEW x \in Quotes \ {s}  PROVE OrderOK(x)'
    BY <1>1, <2>3, Untouched
  <2> QED
    BY <1>2, <2>6, <2>7 DEF OrderInvariant, ServicesOK
<1> QED
  BY <1>3, <1>4 DEF MoveInstallation

(* The steps that touch no order. *)
LEMMA OtherSteps ==
  ASSUME TypeOK, OrderInvariant,
         \/ \E l \in Leads : CreateLead(l) \/ QualifyLead(l)
         \/ \E q \in Quotes : CreateQuote(q) \/ ApproveQuote(q)
         \/ \E s \in Services :
              \/ CreateServiceInstallation(s)
              \/ \E j \in Jobs :
                   \/ EnqueueNetworkAction(s, j)
                   \/ \E change \in DOMAIN ChangeFrom : ApplyChangeOrder(s, j, change)
  PROVE  OrderInvariant'
<1> USE AtOrder DEF TypeOK, commercial, delivery, capacity, field, network
<1>1. /\ UNCHANGED <<order, subscriber, task, resuming, units>>
      /\ \A q \in Quotes : (quote'[q] = "accepted") <=> (quote[q] = "accepted")
      /\ \A q \in Quotes : installation'[q] = installation[q]
  BY QuotesAreNotWalkIns
     DEF CreateLead, QualifyLead, CreateQuote, ApproveQuote, CreateServiceInstallation,
         EnqueueNetworkAction, ApplyChangeOrder, Services
<1>2. ASSUME NEW q \in Quotes  PROVE OrderOK(q)'
  BY <1>1 DEF OrderOK, TasksInOrder, TaskFollowsInstallation
<1>3. ServicesOK'
  <2>1. CASE UNCHANGED <<installation, service>>
    BY <2>1, Parts DEF ServicesOK
  <2>2. ASSUME NEW s \in Services, CreateServiceInstallation(s)  PROVE ServicesOK'
    BY <2>2, Parts DEF ServicesOK, CreateServiceInstallation
  <2>3. ASSUME NEW s \in Services, NEW j \in Jobs, NEW change \in DOMAIN ChangeFrom,
               ApplyChangeOrder(s, j, change)
        PROVE  ServicesOK'
    <3>1. /\ service[s] \in {"active", "suspended"}
          /\ service' = [service EXCEPT ![s] = ChangeTo[change]]
          /\ ChangeTo[change] \in {"active", "suspended", "terminated"}
          /\ UNCHANGED installation
      BY <2>3 DEF ApplyChangeOrder, ChangeFrom, ChangeTo
    <3> QED
      BY <3>1, Parts DEF ServicesOK
  <2> QED
    BY <2>1, <2>2, <2>3
       DEF CreateLead, QualifyLead, CreateQuote, ApproveQuote, EnqueueNetworkAction
<1> QED
  BY <1>2, <1>3 DEF OrderInvariant, ServicesOK

LEMMA NextOrder ==
  ASSUME TypeOK, OrderInvariant, [Next]_vars
  PROVE  OrderInvariant'
<1>1. CASE SalesStep
  BY <1>1, OtherSteps, AcceptOrder, ConvertOrder, ReserveOrder, InstallOrder, BillOrder,
     EnqueueOrder DEF SalesStep
<1>2. CASE CommandStep
  BY <1>2, HoldOrder, CancelledOrder, RetriedOrder DEF CommandStep
<1>3. CASE ServiceStep
  <2>1. ASSUME NEW s \in Services, TransitionInstallation(s)  PROVE OrderInvariant'
    BY <2>1, MovedOrder DEF TransitionInstallation, commercial, capacity
  <2> QED
    BY <1>3, <2>1, OtherSteps DEF ServiceStep
<1>4. ASSUME NEW j \in Jobs, JobStep(j)  PROVE OrderInvariant'
  BY <1>4, FinishedOrder DEF JobStep
<1>5. CASE UNCHANGED vars
  <2>1. UNCHANGED <<quote, order, subscriber, task, resuming, units, installation, service>>
    BY <1>5 DEF vars, commercial, delivery, capacity, field
  <2> QED
    BY <2>1 DEF OrderInvariant, OrderOK, TasksInOrder, TaskFollowsInstallation
<1> QED
  BY <1>1, <1>2, <1>3, <1>4, <1>5 DEF Next

(* What was delivered of an order is recorded once and in order, a cancelled
   order left nothing behind, and a service is in use exactly if its
   installation was completed: for any number of orders, with every dispatcher,
   command and job result in between. *)
THEOREM OrdersStayWhole == Spec => []OrderInvariant
<1>1. TypeOK /\ OrderInvariant /\ [Next]_vars => OrderInvariant'
  BY NextOrder
<1> QED
  BY <1>1, InitOrder, TypeCorrect, PTL DEF Spec

-----------------------------------------------------------------------------
(* The activation and its job *)

ActivationOK(t, j, q) ==
  /\ t \in {"none", "pending"} => j = NoJob
  /\ t \in {"running", "failed", "completed"} =>
       j \in Jobs /\ job[j].service = q /\ job[j].creates
  /\ t = "running" => job[j].state = "queued"
  /\ t = "failed" => job[j].state = "failed"
  /\ t = "completed" => job[j].state = "succeeded"

LEMMA Activations ==
  ActivationFollowsItsJob <=> \A q \in Quotes : ActivationOK(task[q]["network"], outbox[q], q)
BY DEF ActivationFollowsItsJob, ActivationOK

(* A step that leaves the network task alone, or makes it ready or cancelled,
   and no job but a fresh one. *)
LEMMA ActivationKept ==
  ASSUME ActivationFollowsItsJob, outbox' = outbox,
         NEW fresh, \A j \in Jobs \ {fresh} : job'[j] = job[j],
         fresh \in Jobs => job[fresh].state = "none",
         \A q \in Quotes : \/ task'[q]["network"] = task[q]["network"]
                           \/ task'[q]["network"] \in {"ready", "cancelled"}
                           \/ task[q]["network"] = "none" /\ task'[q]["network"] = "pending"
  PROVE  ActivationFollowsItsJob'
<1> SUFFICES ASSUME NEW q \in Quotes  PROVE ActivationOK(task[q]["network"], outbox[q], q)'
  BY DEF ActivationFollowsItsJob, ActivationOK
<1>1. ActivationOK(task[q]["network"], outbox[q], q)
  BY Activations
<1>2. CASE task'[q]["network"] = task[q]["network"]
  <2>1. CASE task[q]["network"] \in {"running", "failed", "completed"}
    <3>1. job'[outbox[q]] = job[outbox[q]]
      BY <1>1, <2>1 DEF ActivationOK
    <3> QED
      BY <1>1, <1>2, <2>1, <3>1 DEF ActivationOK
  <2>2. CASE task[q]["network"] \notin {"running", "failed", "completed"}
    BY <1>1, <1>2, <2>2 DEF ActivationOK
  <2> QED
    BY <2>1, <2>2
<1>3. CASE task'[q]["network"] # task[q]["network"]
  BY <1>1, <1>3 DEF ActivationOK
<1> QED
  BY <1>2, <1>3

LEMMA ActivationQueued ==
  ASSUME TypeOK, ActivationFollowsItsJob, NEW q \in Quotes, NEW j \in Jobs,
         EnqueueActivation(q, j)
  PROVE  ActivationFollowsItsJob'
<1> USE DEF TypeOK
<1> DEFINE request == [service |-> q, creates |-> TRUE, state |-> "queued"]
<1>1. /\ job[j].state = "none" /\ job' = [job EXCEPT ![j] = request]
      /\ outbox' = [outbox EXCEPT ![q] = j]
  BY DEF EnqueueActivation, Enqueue
<1>2. /\ task'[q]["network"] = "running"
      /\ \A x \in Quotes \ {q} : task'[x] = task[x]
  BY DEF EnqueueActivation, SetTasks, Keys
<1>3. ActivationOK(task[q]["network"], outbox[q], q)'
  <2>1. outbox'[q] = j /\ job'[j] = request
    BY <1>1
  <2>2. job'[j].service = q /\ job'[j].creates /\ job'[j].state = "queued"
    BY <2>1
  <2> QED
    BY <1>2, <2>1, <2>2 DEF ActivationOK
<1>4. ASSUME NEW x \in Quotes \ {q}  PROVE ActivationOK(task[x]["network"], outbox[x], x)'
  <2>1. outbox'[x] = outbox[x] /\ task'[x] = task[x] /\ ActivationOK(task[x]["network"], outbox[x], x)
    BY <1>1, <1>2, Activations
  <2>2. CASE task[x]["network"] \in {"running", "failed", "completed"}
    <3>1. job'[outbox[x]] = job[outbox[x]]
      BY <1>1, <2>1, <2>2 DEF ActivationOK
    <3> QED
      BY <2>1, <2>2, <3>1 DEF ActivationOK
  <2>3. CASE task[x]["network"] \notin {"running", "failed", "completed"}
    BY <2>1, <2>3 DEF ActivationOK
  <2> QED
    BY <2>2, <2>3
<1> QED
  BY <1>3, <1>4 DEF ActivationFollowsItsJob, ActivationOK

LEMMA ActivationFinished ==
  ASSUME TypeOK, ActivationFollowsItsJob, NEW j \in Jobs, NEW ok \in BOOLEAN, FinishJob(j, ok)
  PROVE  ActivationFollowsItsJob'
<1> USE DEF TypeOK
<1> DEFINE result == [service |-> job[j].service, creates |-> job[j].creates,
                      state |-> IF ok THEN "succeeded" ELSE "failed"]
<1>1. job[j].state = "queued" /\ job' = [job EXCEPT ![j] = result] /\ outbox' = outbox
  BY DEF FinishJob
<1>2. /\ job'[j].service = job[j].service /\ job'[j].creates = job[j].creates
      /\ job'[j].state = IF ok THEN "succeeded" ELSE "failed"
  <2>1. job'[j] = result
    BY <1>1
  <2> QED
    BY <2>1
<1>3. ASSUME NEW x \in Quotes, ~Awaits(x, j), task'[x] = task[x]
      PROVE  ActivationOK(task[x]["network"], outbox[x], x)'
  <2>1. ActivationOK(task[x]["network"], outbox[x], x)
    BY Activations
  <2>2. CASE task[x]["network"] \in {"running", "failed", "completed"}
    <3>1. outbox[x] # j /\ outbox[x] \in Jobs
      BY <1>1, <1>3, <2>1, <2>2 DEF ActivationOK, Awaits
    <3>2. job'[outbox[x]] = job[outbox[x]]
      BY <1>1, <3>1
    <3> QED
      BY <1>1, <1>3, <2>1, <2>2, <3>2 DEF ActivationOK
  <2>3. CASE task[x]["network"] \notin {"running", "failed", "completed"}
    BY <1>1, <1>3, <2>1, <2>3 DEF ActivationOK
  <2> QED
    BY <2>2, <2>3
<1>4. ASSUME NEW q \in Quotes, Awaits(q, j),
             SetTasks(q, IF ok THEN Completed(task[q], "network", "billing")
                         ELSE [task[q] EXCEPT !["network"] = "failed"])
      PROVE  ActivationFollowsItsJob'
  <2>1. /\ task'[q]["network"] = IF ok THEN "completed" ELSE "failed"
        /\ \A x \in Quotes \ {q} : task'[x] = task[x]
    BY <1>4 DEF SetTasks, Completed, Keys
  <2>2. ActivationOK(task[q]["network"], outbox[q], q)'
    BY <1>1, <1>2, <1>4, <2>1 DEF Awaits, ActivationOK
  <2>3. ASSUME NEW x \in Quotes \ {q}  PROVE ActivationOK(task[x]["network"], outbox[x], x)'
    BY <1>3, <1>4, <2>1 DEF Awaits
  <2> QED
    BY <2>2, <2>3 DEF ActivationFollowsItsJob, ActivationOK
<1>5. CASE UNCHANGED <<task, order>> /\ \A q \in Quotes : ~Awaits(q, j)
  <2>1. ASSUME NEW x \in Quotes  PROVE ActivationOK(task[x]["network"], outbox[x], x)'
    BY <1>3, <1>5
  <2> QED
    BY <2>1 DEF ActivationFollowsItsJob, ActivationOK
<1> QED
  BY <1>4, <1>5 DEF FinishJob

LEMMA InitActivation == Init => ActivationFollowsItsJob
BY DEF Init, ActivationFollowsItsJob, Keys

LEMMA SalesActivation ==
  ASSUME TypeOK, OrderInvariant, ActivationFollowsItsJob, SalesStep
  PROVE  ActivationFollowsItsJob'
<1> USE AtOrder DEF TypeOK, commercial, delivery, capacity, field, network
<1>1. CASE UNCHANGED <<task, outbox, job>>
  BY <1>1, NoJobIsNone, ActivationKept
<1>2. ASSUME NEW q \in Quotes, NEW ts \in TaskMap, task' = [task EXCEPT ![q] = ts],
             ts["network"] = task[q]["network"], UNCHANGED <<outbox, job>>
      PROVE  ActivationFollowsItsJob'
  BY <1>2, NoJobIsNone, ActivationKept
<1>3. ASSUME NEW q \in Quotes, AcceptQuote(q)  PROVE ActivationFollowsItsJob'
  <2>1. order[q] = "none"
    BY <1>3 DEF OrderOK, AcceptQuote
  <2>2. /\ UNCHANGED <<outbox, job>> /\ \A x \in Quotes \ {q} : task'[x] = task[x]
        /\ task[q]["network"] = "none" /\ task'[q]["network"] = "pending"
    BY <1>3, <2>1 DEF AcceptQuote, NewTasks, Keys, InOrder
  <2> QED
    BY <2>2, NoJobIsNone, ActivationKept
<1>4. ASSUME NEW q \in Quotes, ConvertSubscriber(q)  PROVE ActivationFollowsItsJob'
  <2>1. /\ Completed(task[q], "subscriber", "resource") \in TaskMap
        /\ Completed(task[q], "subscriber", "resource")["network"] = task[q]["network"]
    BY CompletedTyped, CompletedAt DEF Keys
  <2> QED
    BY <1>2, <1>4, <2>1 DEF ConvertSubscriber
<1>5. ASSUME NEW q \in Quotes, ReserveResource(q)  PROVE ActivationFollowsItsJob'
  <2>1. /\ Completed(task[q], "resource", "installation") \in TaskMap
        /\ Completed(task[q], "resource", "installation")["network"] = task[q]["network"]
    BY CompletedTyped, CompletedAt DEF Keys
  <2> QED
    BY <1>2, <1>5, <2>1 DEF ReserveResource, SetTasks
<1>6. ASSUME NEW q \in Quotes, CreateInstallation(q)  PROVE ActivationFollowsItsJob'
  <2>1. /\ [task[q] EXCEPT !["installation"] = "running"] \in TaskMap
        /\ [task[q] EXCEPT !["installation"] = "running"]["network"] = task[q]["network"]
    BY OneTaskTyped DEF Keys, TaskStatus, TaskMap
  <2> QED
    BY <1>2, <1>6, <2>1 DEF CreateInstallation, SetTasks
<1>7. ASSUME NEW q \in Quotes, PostFirstInvoice(q)  PROVE ActivationFollowsItsJob'
  <2>1. /\ [task[q] EXCEPT !["billing"] = "completed"] \in TaskMap
        /\ [task[q] EXCEPT !["billing"] = "completed"]["network"] = task[q]["network"]
    BY OneTaskTyped DEF Keys, TaskStatus, TaskMap
  <2> QED
    BY <1>2, <1>7, <2>1 DEF PostFirstInvoice
<1>8. ASSUME \/ \E l \in Leads : CreateLead(l) \/ QualifyLead(l)
             \/ \E q \in Quotes : CreateQuote(q) \/ ApproveQuote(q)
      PROVE  ActivationFollowsItsJob'
  BY <1>1, <1>8 DEF CreateLead, QualifyLead, CreateQuote, ApproveQuote
<1> QED
  BY <1>3, <1>4, <1>5, <1>6, <1>7, <1>8, ActivationQueued DEF SalesStep

LEMMA CommandActivation ==
  ASSUME TypeOK, OrderInvariant, ActivationFollowsItsJob, CommandStep
  PROVE  ActivationFollowsItsJob'
<1> USE AtOrder DEF TypeOK, commercial, delivery, capacity, field, network
<1>1. ASSUME NEW q \in Quotes, PlaceOnHold(q) \/ BeginResume(q) \/ CommitResume(q)
      PROVE  ActivationFollowsItsJob'
  <2>1. UNCHANGED <<task, outbox, job>>
    BY <1>1 DEF PlaceOnHold, BeginResume, CommitResume
  <2> QED
    BY <2>1, NoJobIsNone, ActivationKept
<1>2. ASSUME NEW q \in Quotes, CancelOrder(q)  PROVE ActivationFollowsItsJob'
  <2>1. /\ UNCHANGED <<outbox, job>> /\ task'[q]["network"] = "cancelled"
        /\ \A x \in Quotes \ {q} : task'[x] = task[x]
    BY <1>2 DEF CancelOrder, Keys
  <2> QED
    BY <2>1, NoJobIsNone, ActivationKept
<1>3. ASSUME NEW q \in Quotes, NEW k \in Keys, RetryTask(q, k)  PROVE ActivationFollowsItsJob'
  <2>1. /\ UNCHANGED <<outbox, job>> /\ \A x \in Quotes \ {q} : task'[x] = task[x]
        /\ task'[q] = [task[q] EXCEPT ![k] = "ready"]
    BY <1>3 DEF RetryTask, SetTasks
  <2>2. task'[q]["network"] \in {task[q]["network"], "ready"}
    BY <2>1 DEF Keys, TaskMap
  <2> QED
    BY <2>1, <2>2, NoJobIsNone, ActivationKept
<1> QED
  BY <1>1, <1>2, <1>3 DEF CommandStep

LEMMA ServiceActivation ==
  ASSUME TypeOK, OrderInvariant, ActivationFollowsItsJob, ServiceStep
  PROVE  ActivationFollowsItsJob'
<1> USE AtOrder DEF TypeOK, commercial, delivery, capacity, field, network
<1>1. ASSUME NEW s \in Services, CreateServiceInstallation(s)  PROVE ActivationFollowsItsJob'
  BY <1>1, NoJobIsNone, ActivationKept DEF CreateServiceInstallation
<1>2. ASSUME NEW s \in Services, TransitionInstallation(s)  PROVE ActivationFollowsItsJob'
  <2>1. PICK st : MoveInstallation(s, st)
    BY <1>2 DEF TransitionInstallation
  <2>2. UNCHANGED <<outbox, job>>
    BY <1>2 DEF TransitionInstallation
  <2>3. CASE s \in WalkIns /\ UNCHANGED <<task, order>>
    BY <2>2, <2>3, NoJobIsNone, ActivationKept
  <2>4. CASE s \in Quotes /\ SetTasks(s, TasksFollowing(task[s], st))
    <3>1. /\ task'[s] = TasksFollowing(task[s], st)
          /\ \A x \in Quotes \ {s} : task'[x] = task[x]
      BY <2>4 DEF SetTasks
    <3>2. task'[s]["network"] \in {task[s]["network"], "ready"}
      <4>1. task[s] \in TaskMap
        BY <2>4
      <4>2. CASE st = "completed" /\ task[s]["installation"] = "running"
        BY <3>1, <4>1, <4>2, CompletedAt DEF TasksFollowing, Keys
      <4>3. CASE ~(st = "completed" /\ task[s]["installation"] = "running")
        BY <3>1, <4>1, <4>3 DEF TasksFollowing, Keys, TaskMap
      <4> QED
        BY <4>2, <4>3
    <3> QED
      BY <2>2, <3>1, <3>2, NoJobIsNone, ActivationKept
  <2> QED
    BY <2>1, <2>3, <2>4 DEF MoveInstallation
<1>3. ASSUME NEW s \in Services, NEW j \in Jobs, NEW creates \in BOOLEAN, Enqueue(s, j, creates),
             UNCHANGED <<task, outbox>>
      PROVE  ActivationFollowsItsJob'
  <2>1. job[j].state = "none" /\ \A x \in Jobs \ {j} : job'[x] = job[x]
    BY <1>3 DEF Enqueue
  <2> QED
    BY <1>3, <2>1, ActivationKept
<1>4. ASSUME NEW s \in Services, NEW j \in Jobs,
             \/ EnqueueNetworkAction(s, j)
             \/ \E change \in DOMAIN ChangeFrom : ApplyChangeOrder(s, j, change)
      PROVE  ActivationFollowsItsJob'
  BY <1>3, <1>4 DEF EnqueueNetworkAction, ApplyChangeOrder
<1> QED
  BY <1>1, <1>2, <1>4 DEF ServiceStep

LEMMA NextActivation ==
  ASSUME TypeOK, OrderInvariant, ActivationFollowsItsJob, [Next]_vars
  PROVE  ActivationFollowsItsJob'
<1>1. CASE UNCHANGED vars
  BY <1>1, NoJobIsNone, ActivationKept DEF vars, delivery, network
<1>2. ASSUME NEW j \in Jobs, JobStep(j)  PROVE ActivationFollowsItsJob'
  BY <1>2, ActivationFinished DEF JobStep
<1> QED
  BY <1>1, <1>2, SalesActivation, CommandActivation, ServiceActivation DEF Next

(* An order's activation step is decided by the job it queued itself and by
   nothing else, however many activations of the service are in the queue. *)
THEOREM ActivationIsItsOwn == Spec => []ActivationFollowsItsJob
<1>1. TypeOK /\ OrderInvariant /\ ActivationFollowsItsJob /\ [Next]_vars
        => ActivationFollowsItsJob'
  BY NextActivation
<1> QED
  BY <1>1, InitActivation, TypeCorrect, OrdersStayWhole, PTL DEF Spec

-----------------------------------------------------------------------------
(* Capacity *)

LEMMA InitCapacity == Init => CapacityAccounted
<1> SUFFICES ASSUME Init PROVE CapacityAccounted
  OBVIOUS
<1>1. SumFunctionOnSet(units, Quotes) = 0
  BY SumOfZeros, QuotesAreFinite DEF Init
<1> QED
  BY <1>1, CapacityIsPositive DEF Init, CapacityAccounted, SumFunction

(* Only a reservation touches what is reserved. *)
LEMMA OnlyReservations ==
  ASSUME [Next]_vars
  PROVE  (\E q \in Quotes : ReserveResource(q)) \/ UNCHANGED capacity
<1>1. SalesStep => (\E q \in Quotes : ReserveResource(q)) \/ UNCHANGED capacity
  BY DEF SalesStep, CreateLead, QualifyLead, CreateQuote, ApproveQuote, AcceptQuote,
         ConvertSubscriber, CreateInstallation, PostFirstInvoice, EnqueueActivation
<1>2. CommandStep => UNCHANGED capacity
  BY DEF CommandStep, PlaceOnHold, BeginResume, CommitResume, CancelOrder, RetryTask
<1>3. ServiceStep => UNCHANGED capacity
  BY DEF ServiceStep, CreateServiceInstallation, TransitionInstallation, EnqueueNetworkAction,
         ApplyChangeOrder
<1>4. \A j \in Jobs : JobStep(j) => UNCHANGED capacity
  BY DEF JobStep, FinishJob
<1> QED
  BY <1>1, <1>2, <1>3, <1>4 DEF Next, vars

(* A reservation adds as much to the sum as to the counter. *)
LEMMA ReservationCounts ==
  ASSUME TypeOK, CapacityAccounted, NEW q \in Quotes, ReserveResource(q)
  PROVE  CapacityAccounted'
<1>1. PICK n \in 1..MaxUnits :
        /\ Capacity - reserved >= n
        /\ units' = [units EXCEPT ![q] = n]
        /\ reserved' = reserved + n
  BY DEF ReserveResource
<1>2. units[q] = 0
  BY DEF ReserveResource
<1>3. units \in [Quotes -> 0..MaxUnits] /\ reserved \in 0..Capacity
  BY DEF TypeOK
<1>4. /\ \A x \in Quotes : units[x] \in Int /\ units'[x] \in Int
      /\ \A x \in Quotes \ {q} : units'[x] = units[x]
      /\ units'[q] = n
  BY <1>1, <1>3, CapacityIsPositive
<1>5. SumFunctionOnSet(units', Quotes)
        = SumFunctionOnSet(units, Quotes) - units[q] + units'[q]
  BY <1>4, SumOfChanged, QuotesAreFinite
<1>6. SumFunctionOnSet(units, Quotes) = reserved /\ DOMAIN units' = Quotes
  BY <1>1, <1>3 DEF CapacityAccounted, SumFunction
<1>7. SumFunction(units') = SumFunctionOnSet(units', Quotes)
  BY <1>6 DEF SumFunction
<1> QED
  BY <1>1, <1>2, <1>3, <1>4, <1>5, <1>6, <1>7, CapacityIsPositive DEF CapacityAccounted

(* For any number of orders and any amount of capacity: what the resource
   counts as taken is what the orders hold, and no more than there is. *)
THEOREM CapacityIsNeverPromisedTwice == Spec => []CapacityAccounted
<1>1. TypeOK /\ CapacityAccounted /\ [Next]_vars => CapacityAccounted'
  <2> SUFFICES ASSUME TypeOK, CapacityAccounted, [Next]_vars PROVE CapacityAccounted'
    OBVIOUS
  <2>1. CASE UNCHANGED capacity
    BY <2>1 DEF capacity, CapacityAccounted
  <2> QED
    BY <2>1, OnlyReservations, ReservationCounts
<1> QED
  BY <1>1, InitCapacity, TypeCorrect, PTL DEF Spec

-----------------------------------------------------------------------------
(* The promise to the customer *)

DoneOf(ts) == {k \in Keys : ts[k] = "completed"}
FateOf(o) == IF o \in {"completed", "cancelled"} THEN o ELSE "open"

DoneNow == [q \in Quotes |-> DoneOf(task[q])]
FateNow == [q \in Quotes |-> FateOf(order[q])]

JourneySpecNow ==
  \E q \in Quotes :
    \/ /\ DoneOf(task[q]) = {} /\ FateOf(order[q]) = "open"
       /\ DoneNow' = [DoneNow EXCEPT ![q] = {"commercial"}]
       /\ UNCHANGED FateNow
    \/ /\ FateOf(order[q]) = "open" /\ DoneOf(task[q]) = {"commercial"}
       /\ FateNow' = [FateNow EXCEPT ![q] = "cancelled"]
       /\ UNCHANGED DoneNow
    \/ \E k \in Keys \ {"commercial"} :
         /\ FateOf(order[q]) = "open"
         /\ k \notin DoneOf(task[q]) /\ Before[k] \in DoneOf(task[q])
         /\ DoneNow' = [DoneNow EXCEPT ![q] = DoneOf(task[q]) \cup {k}]
         /\ FateNow' = [FateNow EXCEPT ![q] = IF k = "billing" THEN "completed" ELSE "open"]

LEMMA JourneyStep ==
  (JourneySpecNow \/ UNCHANGED <<DoneNow, FateNow>>) => [Journey!Next]_(Journey!vars)
<1>1. UNCHANGED <<DoneNow, FateNow>> => UNCHANGED Journey!vars
  BY DEF DoneNow, FateNow, DoneOf, FateOf, Journey!vars
<1>2. DOMAIN Journey!Before = Keys \ {"commercial"} /\ Journey!Before = Before
  BY DEF Journey!Before, Before, Keys
<1>3. JourneySpecNow => Journey!Next
  BY <1>2 DEF JourneySpecNow, Journey!Next, Journey!Accept, Journey!Deliver, Journey!Cancel,
              DoneNow, FateNow, DoneOf, FateOf
<1> QED
  BY <1>1, <1>3

Advances == JourneySpecNow \/ UNCHANGED <<DoneNow, FateNow>>

LEMMA Stutters ==
  ASSUME \A q \in Quotes : \A k \in Keys : task'[q][k] = "completed" <=> task[q][k] = "completed",
         \A q \in Quotes : FateOf(order'[q]) = FateOf(order[q])
  PROVE  Advances
<1>1. \A q \in Quotes : DoneOf(task'[q]) = DoneOf(task[q])
  BY DEF DoneOf
<1> QED
  BY <1>1 DEF Advances, DoneNow, FateNow

LEMMA Delivers ==
  ASSUME NEW q \in Quotes, NEW k \in Keys \ {"commercial"},
         FateOf(order[q]) = "open",
         task[q][k] # "completed", task[q][Before[k]] = "completed", task'[q][k] = "completed",
         \A x \in Keys \ {k} : task'[q][x] = "completed" <=> task[q][x] = "completed",
         FateOf(order'[q]) = IF k = "billing" THEN "completed" ELSE "open",
         \A x \in Quotes \ {q} : task'[x] = task[x] /\ order'[x] = order[x]
  PROVE  Advances
<1>1. DoneOf(task'[q]) = DoneOf(task[q]) \cup {k}
  BY DEF DoneOf
<1>2. DoneNow' = [DoneNow EXCEPT ![q] = DoneOf(task[q]) \cup {k}]
  BY <1>1 DEF DoneNow
<1>3. FateNow' = [FateNow EXCEPT ![q] = IF k = "billing" THEN "completed" ELSE "open"]
  BY DEF FateNow
<1>4. k \notin DoneOf(task[q]) /\ Before[k] \in DoneOf(task[q])
  BY DEF DoneOf, Before, Keys
<1> QED
  BY <1>2, <1>3, <1>4 DEF Advances, JourneySpecNow

LEMMA FateAt ==
  ASSUME NEW q \in Quotes, order'[q] \in {order[q], "fallout", "in_progress"},
         order[q] \in {"on_hold", "completed", "cancelled"} => order'[q] = order[q]
  PROVE  FateOf(order'[q]) = FateOf(order[q])
BY DEF FateOf

LEMMA SalesJourney ==
  ASSUME TypeOK, OrderInvariant, SalesStep
  PROVE  Advances
<1> USE AtOrder DEF TypeOK, commercial, delivery, capacity, field, network
<1>1. ASSUME NEW q \in Quotes, AcceptQuote(q)  PROVE Advances
  <2>1. order[q] = "none"
    BY <1>1 DEF OrderOK, AcceptQuote
  <2>2. DoneOf(task[q]) = {} /\ FateOf(order[q]) = "open"
    BY <2>1 DEF DoneOf, FateOf, InOrder, Keys
  <2>3. DoneOf(task'[q]) = {"commercial"} /\ FateOf(order'[q]) = "open"
    BY <1>1 DEF AcceptQuote, NewTasks, DoneOf, FateOf, Keys
  <2>4. \A x \in Quotes \ {q} : task'[x] = task[x] /\ order'[x] = order[x]
    BY <1>1 DEF AcceptQuote
  <2>5. DoneNow' = [DoneNow EXCEPT ![q] = {"commercial"}] /\ FateNow' = FateNow
    BY <2>2, <2>3, <2>4 DEF DoneNow, FateNow
  <2> QED
    BY <2>2, <2>5 DEF Advances, JourneySpecNow
<1>2. ASSUME NEW q \in Quotes, ConvertSubscriber(q)  PROVE Advances
  <2>1. /\ Completed(task[q], "subscriber", "resource")["subscriber"] = "completed"
        /\ Completed(task[q], "subscriber", "resource")["resource"] =
             IF task[q]["resource"] = "pending" THEN "ready" ELSE task[q]["resource"]
        /\ \A x \in Keys \ {"subscriber", "resource"} :
             Completed(task[q], "subscriber", "resource")[x] = task[q][x]
    BY CompletedAt DEF Keys
  <2>2. /\ task'[q] = Completed(task[q], "subscriber", "resource") /\ order'[q] = "in_progress"
        /\ \A x \in Quotes \ {q} : task'[x] = task[x] /\ order'[x] = order[x]
        /\ task[q]["subscriber"] = "ready" /\ order[q] \in {"accepted", "in_progress"}
    BY <1>2 DEF ConvertSubscriber
  <2>3. task[q]["commercial"] = "completed" /\ Before["subscriber"] = "commercial"
    BY <2>2 DEF InOrder, StepInOrder, Before
  <2> QED
    BY <2>1, <2>2, <2>3, Delivers DEF FateOf, Keys
<1>3. ASSUME NEW q \in Quotes, ReserveResource(q)  PROVE Advances
  <2>1. /\ Completed(task[q], "resource", "installation")["resource"] = "completed"
        /\ Completed(task[q], "resource", "installation")["installation"] =
             IF task[q]["installation"] = "pending" THEN "ready" ELSE task[q]["installation"]
        /\ \A x \in Keys \ {"resource", "installation"} :
             Completed(task[q], "resource", "installation")[x] = task[q][x]
        /\ Completed(task[q], "resource", "installation") \in TaskMap
    BY CompletedAt, CompletedTyped DEF Keys
  <2>2. /\ task'[q] = Completed(task[q], "resource", "installation")
        /\ FateOf(order'[q]) = FateOf(order[q])
        /\ \A x \in Quotes \ {q} : task'[x] = task[x] /\ order'[x] = order[x]
    BY <1>3, <2>1, SetAt, FateAt DEF ReserveResource
  <2>3. /\ task[q]["resource"] = "ready" /\ task[q]["subscriber"] = "completed"
        /\ Before["resource"] = "subscriber" /\ FateOf(order[q]) = "open"
    BY <1>3 DEF ReserveResource, OrderOK, InOrder, StepInOrder, Before, FateOf
  <2> QED
    BY <2>1, <2>2, <2>3, Delivers DEF Keys
<1>4. ASSUME NEW q \in Quotes, PostFirstInvoice(q)  PROVE Advances
  <2>1. /\ task'[q] = [task[q] EXCEPT !["billing"] = "completed"] /\ order'[q] = "completed"
        /\ \A x \in Quotes \ {q} : task'[x] = task[x] /\ order'[x] = order[x]
        /\ task[q]["billing"] = "ready" /\ task[q]["network"] = "completed"
    BY <1>4 DEF PostFirstInvoice
  <2>2. task'[q]["billing"] = "completed" /\ \A x \in Keys \ {"billing"} : task'[q][x] = task[q][x]
    BY <2>1 DEF Keys, TaskMap
  <2>3. FateOf(order[q]) = "open" /\ Before["billing"] = "network" /\ FateOf(order'[q]) = "completed"
    BY <2>1 DEF OrderOK, InOrder, StepInOrder, FateOf, Before
  <2> QED
    BY <2>1, <2>2, <2>3, Delivers DEF Keys
<1>5. ASSUME NEW q \in Quotes, NEW k \in {"installation", "network"},
             task[q][k] = "ready", SetTasks(q, [task[q] EXCEPT ![k] = "running"])
      PROVE  Advances
  <2>1. [task[q] EXCEPT ![k] = "running"] \in TaskMap
    BY OneTaskTyped DEF Keys, TaskStatus
  <2>2. /\ task'[q] = [task[q] EXCEPT ![k] = "running"]
        /\ FateOf(order'[q]) = FateOf(order[q])
        /\ \A x \in Quotes \ {q} : task'[x] = task[x] /\ order'[x] = order[x]
    BY <1>5, <2>1, SetAt, FateAt
  <2>3. \A x \in Keys : task'[q][x] = "completed" <=> task[q][x] = "completed"
    BY <1>5, <2>2 DEF Keys, TaskMap
  <2> QED
    BY <2>2, <2>3, Stutters
<1>6. ASSUME UNCHANGED <<task, order>>  PROVE Advances
  BY <1>6, Stutters
<1> QED
  BY <1>1, <1>2, <1>3, <1>4, <1>5, <1>6
     DEF SalesStep, CreateLead, QualifyLead, CreateQuote, ApproveQuote, CreateInstallation,
         EnqueueActivation

LEMMA CommandJourney ==
  ASSUME TypeOK, OrderInvariant, CommandStep
  PROVE  Advances
<1> USE AtOrder DEF TypeOK, commercial, delivery, capacity, field, network
<1>1. ASSUME NEW q \in Quotes, PlaceOnHold(q) \/ BeginResume(q) \/ CommitResume(q)
      PROVE  Advances
  <2>1. /\ UNCHANGED task /\ \A x \in Quotes \ {q} : order'[x] = order[x]
        /\ order[q] \notin {"completed", "cancelled"}
        /\ order'[q] \in {order[q], "on_hold", "in_progress", "fallout"}
    BY <1>1 DEF PlaceOnHold, BeginResume, CommitResume, OrderOK
  <2>2. FateOf(order'[q]) = FateOf(order[q])
    BY <2>1 DEF FateOf
  <2> QED
    BY <2>1, <2>2, Stutters
<1>2. ASSUME NEW q \in Quotes, CancelOrder(q)  PROVE Advances
  <2>1. /\ task'[q] = [k \in Keys |-> IF k = "commercial" THEN "completed" ELSE "cancelled"]
        /\ order'[q] = "cancelled"
        /\ \A x \in Quotes \ {q} : task'[x] = task[x] /\ order'[x] = order[x]
        /\ \A k \in Keys : task[q][k] = "completed" => k = "commercial"
        /\ order[q] \notin {"none", "completed", "cancelled"}
    BY <1>2 DEF CancelOrder
  <2>2. task[q]["commercial"] = "completed"
    BY <2>1 DEF InOrder
  <2>3. DoneOf(task[q]) = {"commercial"} /\ DoneOf(task'[q]) = {"commercial"}
    BY <2>1, <2>2 DEF DoneOf, Keys
  <2>4. FateOf(order[q]) = "open" /\ FateOf(order'[q]) = "cancelled"
    BY <2>1 DEF FateOf
  <2>5. \A x \in Quotes : DoneOf(task'[x]) = DoneOf(task[x])
    BY <2>1, <2>3
  <2>6. DoneNow' = DoneNow
    BY <2>5 DEF DoneNow
  <2>7. FateNow' = [FateNow EXCEPT ![q] = "cancelled"]
    BY <2>1, <2>4 DEF FateNow
  <2> QED
    BY <2>3, <2>4, <2>6, <2>7 DEF Advances, JourneySpecNow
<1>3. ASSUME NEW q \in Quotes, NEW k \in Keys, RetryTask(q, k)  PROVE Advances
  <2>1. [task[q] EXCEPT ![k] = "ready"] \in TaskMap
    BY OneTaskTyped DEF TaskStatus
  <2>2. /\ task'[q] = [task[q] EXCEPT ![k] = "ready"]
        /\ FateOf(order'[q]) = FateOf(order[q])
        /\ \A x \in Quotes \ {q} : task'[x] = task[x] /\ order'[x] = order[x]
        /\ task[q][k] # "completed"
    BY <1>3, <2>1, SetAt, FateAt DEF RetryTask
  <2>3. \A x \in Keys : task'[q][x] = "completed" <=> task[q][x] = "completed"
    BY <2>2 DEF TaskMap
  <2> QED
    BY <2>2, <2>3, Stutters
<1> QED
  BY <1>1, <1>2, <1>3 DEF CommandStep

LEMMA MoveJourney ==
  ASSUME TypeOK, OrderInvariant, NEW s \in Services, NEW st, MoveInstallation(s, st)
  PROVE  Advances
<1> USE AtOrder DEF TypeOK
<1>1. CASE UNCHANGED <<task, order>>
  BY <1>1, Stutters
<1>2. CASE s \in Quotes /\ SetTasks(s, TasksFollowing(task[s], st))
  <2> USE <1>2
  <2>1. /\ task'[s] = TasksFollowing(task[s], st)
        /\ FateOf(order'[s]) = FateOf(order[s])
        /\ \A x \in Quotes \ {s} : task'[x] = task[x] /\ order'[x] = order[x]
    BY SetAt, FateAt, FollowingTyped
  <2>2. CASE st = "completed" /\ task[s]["installation"] = "running"
    <3>1. /\ task'[s]["installation"] = "completed"
          /\ task'[s]["network"] =
               IF task[s]["network"] = "pending" THEN "ready" ELSE task[s]["network"]
          /\ \A x \in Keys \ {"installation", "network"} : task'[s][x] = task[s][x]
      BY <2>1, <2>2, CompletedAt DEF TasksFollowing, Keys
    <3>2. /\ task[s]["resource"] = "completed" /\ FateOf(order[s]) = "open"
          /\ Before["installation"] = "resource"
      BY <2>2 DEF InOrder, StepInOrder, OrderOK, FateOf, Before
    <3> QED
      BY <2>1, <2>2, <3>1, <3>2, Delivers DEF Keys
  <2>3. CASE ~(st = "completed" /\ task[s]["installation"] = "running")
    <3>1. \A x \in Keys : task'[s][x] = "completed" <=> task[s][x] = "completed"
      BY <2>1, <2>3 DEF TasksFollowing, TaskMap, Keys
    <3> QED
      BY <2>1, <3>1, Stutters
  <2> QED
    BY <2>2, <2>3
<1> QED
  BY <1>1, <1>2 DEF MoveInstallation

LEMMA JobJourney ==
  ASSUME TypeOK, OrderInvariant, NEW j \in Jobs, JobStep(j)
  PROVE  Advances
<1> USE AtOrder DEF TypeOK
<1> PICK ok \in BOOLEAN : FinishJob(j, ok)
  BY DEF JobStep
<1>1. CASE UNCHANGED <<task, order>>
  BY <1>1, Stutters
<1>2. ASSUME NEW q \in Quotes, Awaits(q, j),
             SetTasks(q, IF ok THEN Completed(task[q], "network", "billing")
                         ELSE [task[q] EXCEPT !["network"] = "failed"])
      PROVE  Advances
  <2>1. task[q]["network"] = "running"
    BY <1>2 DEF Awaits
  <2>2. CASE ok
    <3>1. /\ Completed(task[q], "network", "billing") \in TaskMap
          /\ Completed(task[q], "network", "billing")["network"] = "completed"
          /\ Completed(task[q], "network", "billing")["billing"] =
               IF task[q]["billing"] = "pending" THEN "ready" ELSE task[q]["billing"]
          /\ \A x \in Keys \ {"network", "billing"} :
               Completed(task[q], "network", "billing")[x] = task[q][x]
      BY CompletedTyped, CompletedAt DEF Keys
    <3>2. /\ task'[q] = Completed(task[q], "network", "billing")
          /\ FateOf(order'[q]) = FateOf(order[q])
          /\ \A x \in Quotes \ {q} : task'[x] = task[x] /\ order'[x] = order[x]
      BY <1>2, <2>2, <3>1, SetAt, FateAt
    <3>3. /\ task[q]["installation"] = "completed" /\ FateOf(order[q]) = "open"
          /\ Before["network"] = "installation"
      BY <2>1 DEF InOrder, StepInOrder, OrderOK, FateOf, Before
    <3> QED
      BY <2>1, <3>1, <3>2, <3>3, Delivers DEF Keys
  <2>3. CASE ~ok
    <3>1. [task[q] EXCEPT !["network"] = "failed"] \in TaskMap
      BY OneTaskTyped DEF Keys, TaskStatus
    <3>2. /\ task'[q] = [task[q] EXCEPT !["network"] = "failed"]
          /\ FateOf(order'[q]) = FateOf(order[q])
          /\ \A x \in Quotes \ {q} : task'[x] = task[x] /\ order'[x] = order[x]
      BY <1>2, <2>3, <3>1, SetAt, FateAt
    <3>3. \A x \in Keys : task'[q][x] = "completed" <=> task[q][x] = "completed"
      BY <2>1, <3>2 DEF TaskMap
    <3> QED
      BY <3>2, <3>3, Stutters
  <2> QED
    BY <2>2, <2>3
<1> QED
  BY <1>1, <1>2 DEF FinishJob

LEMMA NextJourney ==
  ASSUME TypeOK, OrderInvariant, [Next]_vars
  PROVE  [Journey!Next]_(Journey!vars)
<1>1. CASE UNCHANGED <<task, order>>
  BY <1>1, Stutters, JourneyStep DEF Advances
<1>2. CASE ServiceStep
  <2>1. ASSUME NEW s \in Services, TransitionInstallation(s)
        PROVE  [Journey!Next]_(Journey!vars)
    BY <2>1, MoveJourney, JourneyStep DEF TransitionInstallation, Advances
  <2> QED
    BY <1>1, <1>2, <2>1
       DEF ServiceStep, CreateServiceInstallation, EnqueueNetworkAction, ApplyChangeOrder, delivery
<1> QED
  BY <1>1, <1>2, SalesJourney, CommandJourney, JobJourney, JourneyStep
     DEF Next, Advances, vars, delivery

LEMMA InitJourney == Init => Journey!Init
BY DEF Init, Journey!Init, Keys

(* Every order of every behaviour of the code is delivered as it was promised:
   step by step, nothing undone, and ended once. *)
THEOREM OrdersKeepTheirJourney == Spec => KeepsJourney
<1>1. TypeOK /\ OrderInvariant /\ [Next]_vars => [Journey!Next]_(Journey!vars)
  BY NextJourney
<1> QED
  BY <1>1, InitJourney, TypeCorrect, OrdersStayWhole, PTL
     DEF Spec, KeepsJourney, Journey!Spec

-----------------------------------------------------------------------------
(* Field work: the order desk *)

LEMMA FieldMoveIsMove ==
  ASSUME NEW s \in Services, NEW st, FieldMove(s, st)
  PROVE  TransitionInstallation(s)
<1>1. st \in InstallationStatus
  BY DEF FieldMove, MoveInstallation, InstallationMoves, InstallationStatus
<1> QED
  BY <1>1 DEF FieldMove, TransitionInstallation

LEMMA FieldStepObeys ==
  ASSUME FieldTypeOK, FieldStep
  PROVE  [Next]_vars
<1> USE DEF FieldTypeOK, orders
<1>1. ASSUME NEW s \in Services, NEW st, FieldMove(s, st)  PROVE Next
  BY <1>1, FieldMoveIsMove DEF Next, ServiceStep
<1>2. ASSUME NEW s \in Services \cup {Nowhere}, NEW t, Appoint(s, t)  PROVE [Next]_vars
  BY <1>1, <1>2 DEF Appoint
<1>3. ASSUME NEW w \in WorkOrders, NEW st, MoveTarget(w, st)  PROVE [Next]_vars
  BY <1>1, <1>3 DEF MoveTarget
<1>4. ASSUME NEW w \in WorkOrders, AssignWorkOrder(w)  PROVE [Next]_vars
  BY <1>1, <1>4 DEF AssignWorkOrder
<1>5. ASSUME NEW w \in WorkOrders, NEW s \in Services \cup {Nowhere}, CreateWorkOrder(w, s)
      PROVE  [Next]_vars
  BY <1>2, <1>5 DEF CreateWorkOrder
<1>6. ASSUME NEW w \in WorkOrders, ScheduleWorkOrder(w)  PROVE [Next]_vars
  BY <1>2, <1>6 DEF ScheduleWorkOrder
<1>7. ASSUME NEW w \in WorkOrders,
             StartWorkOrder(w) \/ CompleteWorkOrder(w) \/ \E next \in WorkOrders : FailWorkOrder(w, next)
      PROVE  [Next]_vars
  BY <1>3, <1>7 DEF StartWorkOrder, CompleteWorkOrder, FailWorkOrder
<1> QED
  BY <1>4, <1>5, <1>6, <1>7
     DEF FieldStep, RegisterTechnician, UpdateTechnician, FindTechnician, RollBack,
         UnassignWorkOrder, CancelWorkOrder

-----------------------------------------------------------------------------
(* The board *)

LEMMA FieldInitTyped == FieldInit => FieldTypeOK
BY DEF FieldInit, FieldTypeOK

LEMMA FieldNextTyped ==
  ASSUME FieldTypeOK, [FieldNext]_<<orders, fieldVars>>
  PROVE  FieldTypeOK'
<1> USE DEF FieldTypeOK, board, fieldVars, Live, Closed
<1>1. CASE UNCHANGED fieldVars
  BY <1>1
<1>2. ASSUME NEW t \in Technicians, RegisterTechnician(t) \/ UpdateTechnician(t)
      PROVE  FieldTypeOK'
  BY <1>2 DEF RegisterTechnician, UpdateTechnician
<1>3. ASSUME NEW w \in WorkOrders, NEW t \in Technicians, FindTechnician(w, t)
      PROVE  FieldTypeOK'
  BY <1>3 DEF FindTechnician
<1>4. ASSUME NEW w \in WorkOrders, RollBack(w)  PROVE FieldTypeOK'
  BY <1>4 DEF RollBack
<1>5. ASSUME NEW w \in WorkOrders, NEW s \in Services \cup {Nowhere}, CreateWorkOrder(w, s)
      PROVE  FieldTypeOK'
  BY <1>5 DEF CreateWorkOrder
<1>6. ASSUME NEW w \in WorkOrders, ScheduleWorkOrder(w)  PROVE FieldTypeOK'
  BY <1>6 DEF ScheduleWorkOrder
<1>7. ASSUME NEW w \in WorkOrders, AssignWorkOrder(w)  PROVE FieldTypeOK'
  BY <1>7 DEF AssignWorkOrder
<1>8. ASSUME NEW w \in WorkOrders, UnassignWorkOrder(w) \/ CancelWorkOrder(w)  PROVE FieldTypeOK'
  BY <1>8 DEF UnassignWorkOrder, CancelWorkOrder
<1>9. ASSUME NEW w \in WorkOrders, StartWorkOrder(w) \/ CompleteWorkOrder(w)  PROVE FieldTypeOK'
  BY <1>9 DEF StartWorkOrder, CompleteWorkOrder
<1>10. ASSUME NEW w \in WorkOrders, NEW next \in WorkOrders, FailWorkOrder(w, next)
       PROVE  FieldTypeOK'
  BY <1>10 DEF FailWorkOrder
<1> QED
  BY <1>1, <1>2, <1>3, <1>4, <1>5, <1>6, <1>7, <1>8, <1>9, <1>10 DEF FieldNext, FieldStep

(* Field work is invisible to the order desk but for moves it could have made
   itself. *)
THEOREM FieldWorkObeysTheDesk == FieldSpec => ObeysOrderDesk
<1>1. FieldInit => Init
  BY DEF FieldInit
<1>2. FieldTypeOK /\ [FieldNext]_<<orders, fieldVars>> => [Next]_vars
  BY FieldStepObeys DEF FieldNext, orders
<1>3. FieldTypeOK /\ [FieldNext]_<<orders, fieldVars>> => FieldTypeOK'
  BY FieldNextTyped
<1> QED
  BY <1>1, <1>2, <1>3, FieldInitTyped, PTL DEF FieldSpec, ObeysOrderDesk, Spec

(* An installation that has an appointment keeps having had one. *)
LEMMA AppointmentsStay ==
  ASSUME TypeOK, OrderInvariant, [Next]_vars, NEW s \in Services,
         installation[s] \notin {"none", "requested"}
  PROVE  installation'[s] \notin {"none", "requested"}
<1> USE DEF TypeOK, commercial, delivery, capacity, field, network
<1>1. CASE UNCHANGED installation
  BY <1>1
<1>2. ASSUME NEW q \in Quotes, CreateInstallation(q)
      PROVE  installation'[s] \notin {"none", "requested"}
  BY <1>2 DEF CreateInstallation
<1>3. ASSUME NEW x \in Services, CreateServiceInstallation(x)
      PROVE  installation'[s] \notin {"none", "requested"}
  BY <1>3, Parts DEF CreateServiceInstallation, ServicesOK
<1>4. ASSUME NEW x \in Services, TransitionInstallation(x)
      PROVE  installation'[s] \notin {"none", "requested"}
  <2>1. PICK st : <<installation[x], st>> \in InstallationMoves
                  /\ installation' = [installation EXCEPT ![x] = st]
    BY <1>4 DEF TransitionInstallation, MoveInstallation
  <2>2. st \notin {"none", "requested"}
    BY <2>1 DEF InstallationMoves
  <2> QED
    BY <2>1, <2>2
<1>5. CASE SalesStep
  BY <1>1, <1>2, <1>5
     DEF SalesStep, CreateLead, QualifyLead, CreateQuote, ApproveQuote, AcceptQuote,
         ConvertSubscriber, ReserveResource, PostFirstInvoice, EnqueueActivation
<1>6. CASE CommandStep
  BY <1>1, <1>6 DEF CommandStep, PlaceOnHold, BeginResume, CommitResume, CancelOrder, RetryTask
<1>7. CASE ServiceStep
  BY <1>1, <1>3, <1>4, <1>7 DEF ServiceStep, EnqueueNetworkAction, ApplyChangeOrder
<1>8. ASSUME NEW j \in Jobs, JobStep(j)  PROVE installation'[s] \notin {"none", "requested"}
  BY <1>1, <1>8 DEF JobStep, FinishJob
<1>9. CASE UNCHANGED vars
  BY <1>1, <1>9 DEF vars
<1> QED
  BY <1>5, <1>6, <1>7, <1>8, <1>9 DEF Next

LEMMA InitBoard == FieldInit => Staffed /\ Appointed /\ AttendedOnce /\ RevisitsFollow
BY NowhereIsNoPlace
   DEF FieldInit, Staffed, Appointed, AttendedOnce, RevisitsFollow, Live, Closed

LEMMA StaffedStays ==
  ASSUME FieldTypeOK, Staffed, FieldStep
  PROVE  Staffed'
<1> USE NobodyIsNoTechnician DEF FieldTypeOK, Staffed, Closed, Live
<1>1. ASSUME NEW t \in Technicians, RegisterTechnician(t) \/ UpdateTechnician(t)
      PROVE  Staffed'
  <2>1. /\ UNCHANGED <<work, technician, found>>
        /\ \A x \in Technicians : roster[x] # "none" => roster'[x] # "none"
    BY <1>1 DEF RegisterTechnician, UpdateTechnician, board
  <2> QED
    BY <2>1
<1>2. ASSUME NEW w \in WorkOrders, NEW t \in Technicians, FindTechnician(w, t)
      PROVE  Staffed'
  BY <1>2 DEF FindTechnician, board
<1>3. ASSUME NEW w \in WorkOrders, RollBack(w)  PROVE Staffed'
  BY <1>3 DEF RollBack, board
<1>4. ASSUME NEW w \in WorkOrders, NEW s \in Services \cup {Nowhere}, CreateWorkOrder(w, s)
      PROVE  Staffed'
  <2>1. /\ UNCHANGED roster
        /\ technician' = [technician EXCEPT ![w] = found[w]]
        /\ found' = [found EXCEPT ![w] = Nobody]
        /\ \/ found[w] = Nobody /\ work' = [work EXCEPT ![w] = "open"]
           \/ work' = [work EXCEPT ![w] = IF found[w] = Nobody THEN "scheduled" ELSE "dispatched"]
    BY <1>4 DEF CreateWorkOrder
  <2> QED
    BY <2>1
<1>5. ASSUME NEW w \in WorkOrders, ScheduleWorkOrder(w)  PROVE Staffed'
  <2> DEFINE t == IF found[w] = Nobody THEN technician[w] ELSE found[w]
  <2>1. /\ UNCHANGED roster
        /\ technician' = [technician EXCEPT ![w] = t]
        /\ found' = [found EXCEPT ![w] = Nobody]
        /\ work' = [work EXCEPT ![w] = IF t = Nobody THEN "scheduled" ELSE "dispatched"]
    BY <1>5 DEF ScheduleWorkOrder
  <2> QED
    BY <2>1
<1>6. ASSUME NEW w \in WorkOrders, AssignWorkOrder(w)  PROVE Staffed'
  BY <1>6 DEF AssignWorkOrder
<1>7. ASSUME NEW w \in WorkOrders, UnassignWorkOrder(w)  PROVE Staffed'
  BY <1>7 DEF UnassignWorkOrder
<1>8. ASSUME NEW w \in WorkOrders, CancelWorkOrder(w)  PROVE Staffed'
  BY <1>8 DEF CancelWorkOrder
<1>9. ASSUME NEW w \in WorkOrders, StartWorkOrder(w) \/ CompleteWorkOrder(w)  PROVE Staffed'
  BY <1>9 DEF StartWorkOrder, CompleteWorkOrder
<1>10. ASSUME NEW w \in WorkOrders, NEW next \in WorkOrders, FailWorkOrder(w, next)
       PROVE  Staffed'
  BY <1>10 DEF FailWorkOrder
<1> QED
  BY <1>1, <1>2, <1>3, <1>4, <1>5, <1>6, <1>7, <1>8, <1>9, <1>10 DEF FieldStep

(* What a field command says of where its work order's installation is. *)
LEMMA AppointPlaces ==
  ASSUME TypeOK, NEW s \in Services \cup {Nowhere}, NEW t, Appoint(s, t), s # Nowhere
  PROVE  installation'[s] = "scheduled"
<1>1. CASE installation[s] = "scheduled" /\ UNCHANGED orders
  BY <1>1 DEF orders, vars, field
<1>2. CASE FieldMove(s, "scheduled")
  BY <1>2, NowhereIsNoPlace DEF FieldMove, MoveInstallation, TypeOK
<1> QED
  BY <1>1, <1>2 DEF Appoint

LEMMA AppointedStays ==
  ASSUME TypeOK, OrderInvariant, FieldTypeOK, Appointed, FieldStep
  PROVE  Appointed'
<1> USE DEF FieldTypeOK
<1>1. ASSUME NEW w \in WorkOrders, target'[w] = target[w],
             work'[w] \in {"scheduled", "dispatched", "on_site"},
             work[w] \in {"scheduled", "dispatched", "on_site"}, target[w] # Nowhere
      PROVE  installation'[target'[w]] \notin {"none", "requested"}
  <2>1. installation[target[w]] \notin {"none", "requested"} /\ target[w] \in Services
    BY <1>1 DEF Appointed
  <2> QED
    BY <1>1, <2>1, FieldStepObeys, AppointmentsStay
<1>2. ASSUME target' = target,
             \A w \in WorkOrders : work'[w] \in {"scheduled", "dispatched", "on_site"}
               => work[w] \in {"scheduled", "dispatched", "on_site"}
      PROVE  Appointed'
  BY <1>1, <1>2 DEF Appointed
<1>3. ASSUME NEW w \in WorkOrders, NEW s \in Services \cup {Nowhere}, CreateWorkOrder(w, s)
      PROVE  Appointed'
  <2>1. /\ target' = [target EXCEPT ![w] = s]
        /\ \A x \in WorkOrders \ {w} : work'[x] = work[x] /\ target'[x] = target[x]
        /\ work'[w] = "open" \/ Appoint(s, found[w])
    BY <1>3 DEF CreateWorkOrder
  <2>2. work'[w] \in {"scheduled", "dispatched", "on_site"} /\ s # Nowhere
          => installation'[s] = "scheduled"
    BY <2>1, AppointPlaces
  <2> QED
    BY <1>1, <2>1, <2>2 DEF Appointed
<1>4. ASSUME NEW w \in WorkOrders, ScheduleWorkOrder(w)  PROVE Appointed'
  <2>1. /\ target' = target /\ \A x \in WorkOrders \ {w} : work'[x] = work[x]
        /\ \E t : Appoint(target[w], t)
    BY <1>4 DEF ScheduleWorkOrder
  <2>2. target[w] # Nowhere => installation'[target[w]] = "scheduled"
    BY <2>1, AppointPlaces
  <2> QED
    BY <1>1, <2>1, <2>2 DEF Appointed
<1>5. ASSUME NEW w \in WorkOrders, NEW next \in WorkOrders, FailWorkOrder(w, next)
      PROVE  Appointed'
  <2>1. /\ target' = [target EXCEPT ![next] = target[w]] /\ work[w] # "none" /\ work[next] = "none"
        /\ work'[w] = "failed" /\ \A x \in WorkOrders \ {w, next} : work'[x] = work[x]
        /\ MoveTarget(w, "blocked")
    BY <1>5 DEF FailWorkOrder
  <2>2. target[w] # Nowhere => installation'[target[w]] = "blocked"
    BY <2>1 DEF MoveTarget, FieldMove, MoveInstallation, TypeOK
  <2> QED
    BY <1>1, <2>1, <2>2 DEF Appointed
<1>6. ASSUME NEW w \in WorkOrders,
             \/ AssignWorkOrder(w) \/ UnassignWorkOrder(w) \/ CancelWorkOrder(w)
             \/ StartWorkOrder(w) \/ CompleteWorkOrder(w)
      PROVE  Appointed'
  <2>1. /\ target' = target /\ \A x \in WorkOrders \ {w} : work'[x] = work[x]
        /\ work'[w] \in {"scheduled", "dispatched", "on_site"}
             => work[w] \in {"scheduled", "dispatched", "on_site"}
    BY <1>6
       DEF AssignWorkOrder, UnassignWorkOrder, CancelWorkOrder, StartWorkOrder, CompleteWorkOrder
  <2> QED
    BY <1>2, <2>1
<1>7. ASSUME UNCHANGED <<work, target>>  PROVE Appointed'
  BY <1>2, <1>7
<1> QED
  BY <1>3, <1>4, <1>5, <1>6, <1>7
     DEF FieldStep, RegisterTechnician, UpdateTechnician, FindTechnician, RollBack, board

LEMMA AttendedOnceStays ==
  ASSUME FieldTypeOK, AttendedOnce, FieldStep
  PROVE  AttendedOnce'
<1> USE NowhereIsNoPlace DEF FieldTypeOK, AttendedOnce, Live
<1>1. ASSUME NEW w \in WorkOrders, target' = target, \A x \in WorkOrders \ {w} : work'[x] = work[x],
             work'[w] \in Live => work[w] \in Live
      PROVE  AttendedOnce'
  BY <1>1
<1>2. ASSUME UNCHANGED <<work, target>>  PROVE AttendedOnce'
  BY <1>2
<1>3. ASSUME NEW w \in WorkOrders, NEW s \in Services \cup {Nowhere}, CreateWorkOrder(w, s)
      PROVE  AttendedOnce'
  <2>1. /\ target' = [target EXCEPT ![w] = s]
        /\ \A x \in WorkOrders \ {w} : work'[x] = work[x] /\ target'[x] = target[x]
        /\ s # Nowhere => \A x \in WorkOrders : ~(work[x] \in Live /\ target[x] = s)
    BY <1>3 DEF CreateWorkOrder, Unattended
  <2> QED
    BY <2>1
<1>4. ASSUME NEW w \in WorkOrders, NEW next \in WorkOrders, FailWorkOrder(w, next)
      PROVE  AttendedOnce'
  <2>1. /\ target' = [target EXCEPT ![next] = target[w]]
        /\ work[w] \in Live /\ work[next] = "none" /\ work'[w] = "failed"
        /\ \A x \in WorkOrders \ {w, next} : work'[x] = work[x]
    BY <1>4 DEF FailWorkOrder
  <2> QED
    BY <2>1
<1>5. ASSUME NEW w \in WorkOrders,
             \/ ScheduleWorkOrder(w) \/ AssignWorkOrder(w) \/ UnassignWorkOrder(w)
             \/ CancelWorkOrder(w) \/ StartWorkOrder(w) \/ CompleteWorkOrder(w)
      PROVE  AttendedOnce'
  <2>1. /\ target' = target /\ \A x \in WorkOrders \ {w} : work'[x] = work[x]
        /\ work'[w] \in Live => work[w] \in Live
    BY <1>5
       DEF ScheduleWorkOrder, AssignWorkOrder, UnassignWorkOrder, CancelWorkOrder,
           StartWorkOrder, CompleteWorkOrder
  <2> QED
    BY <1>1, <2>1
<1> QED
  BY <1>2, <1>3, <1>4, <1>5
     DEF FieldStep, RegisterTechnician, UpdateTechnician, FindTechnician, RollBack, board

LEMMA RevisitsFollowStays ==
  ASSUME FieldTypeOK, RevisitsFollow, FieldStep
  PROVE  RevisitsFollow'
<1> USE NowhereIsNoPlace DEF FieldTypeOK, RevisitsFollow
<1>1. ASSUME NEW w \in WorkOrders, UNCHANGED <<target, revisitOf>>,
             \A x \in WorkOrders \ {w} : work'[x] = work[x],
             work[w] # "none", work[w] # "failed", work'[w] # "none", work'[w] # "failed"
      PROVE  RevisitsFollow'
  BY <1>1
<1>2. ASSUME UNCHANGED <<work, target, revisitOf>>  PROVE RevisitsFollow'
  BY <1>2
<1>3. ASSUME NEW w \in WorkOrders, NEW s \in Services \cup {Nowhere}, CreateWorkOrder(w, s)
      PROVE  RevisitsFollow'
  <2>1. /\ target' = [target EXCEPT ![w] = s] /\ UNCHANGED revisitOf
        /\ \A x \in WorkOrders \ {w} : work'[x] = work[x] /\ target'[x] = target[x]
        /\ work[w] = "none" /\ work'[w] \in {"open", "scheduled", "dispatched"}
    BY <1>3 DEF CreateWorkOrder
  <2>2. revisitOf[w] = Nowhere /\ \A x \in WorkOrders : revisitOf[x] # w
    BY <2>1
  <2> QED
    BY <2>1, <2>2
<1>4. ASSUME NEW w \in WorkOrders, NEW next \in WorkOrders, FailWorkOrder(w, next)
      PROVE  RevisitsFollow'
  <2>1. /\ target' = [target EXCEPT ![next] = target[w]]
        /\ revisitOf' = [revisitOf EXCEPT ![next] = w]
        /\ work[w] \in {"dispatched", "on_site"} /\ work[next] = "none" /\ work'[w] = "failed"
        /\ work'[next] \in {"open", "scheduled"}
        /\ \A x \in WorkOrders \ {w, next} : work'[x] = work[x]
    BY <1>4 DEF FailWorkOrder
  <2>2. /\ revisitOf[next] = Nowhere /\ \A x \in WorkOrders : revisitOf[x] # w /\ revisitOf[x] # next
        /\ w # next
    BY <2>1
  <2>3. /\ revisitOf'[next] = w /\ target'[next] = target[w] /\ target'[w] = target[w]
        /\ \A x \in WorkOrders \ {next} : revisitOf'[x] = revisitOf[x] /\ target'[x] = target[x]
    BY <2>1, <2>2
  <2>4. \A x \in WorkOrders : work'[x] = "failed" <=> \E y \in WorkOrders : revisitOf'[y] = x
    BY <2>1, <2>2, <2>3
  <2>5. \A x \in WorkOrders : revisitOf'[x] # Nowhere => target'[x] = target'[revisitOf'[x]]
    BY <2>2, <2>3
  <2>6. \A x \in WorkOrders : work'[x] = "none" => revisitOf'[x] = Nowhere
    BY <2>1, <2>3
  <2>7. \A x, y \in WorkOrders : x # y /\ revisitOf'[x] = revisitOf'[y] => revisitOf'[x] = Nowhere
    BY <2>2, <2>3
  <2> QED
    BY <2>4, <2>5, <2>6, <2>7
<1>5. ASSUME NEW w \in WorkOrders,
             \/ ScheduleWorkOrder(w) \/ AssignWorkOrder(w) \/ UnassignWorkOrder(w)
             \/ CancelWorkOrder(w) \/ StartWorkOrder(w) \/ CompleteWorkOrder(w)
      PROVE  RevisitsFollow'
  <2>1. /\ UNCHANGED <<target, revisitOf>> /\ \A x \in WorkOrders \ {w} : work'[x] = work[x]
        /\ work[w] \notin {"none", "failed"} /\ work'[w] \notin {"none", "failed"}
    BY <1>5
       DEF ScheduleWorkOrder, AssignWorkOrder, UnassignWorkOrder, CancelWorkOrder,
           StartWorkOrder, CompleteWorkOrder
  <2> QED
    BY <1>1, <2>1
<1> QED
  BY <1>2, <1>3, <1>4, <1>5
     DEF FieldStep, RegisterTechnician, UpdateTechnician, FindTechnician, RollBack, board

LEMMA FieldInvariantStays ==
  ASSUME TypeOK, OrderInvariant, FieldInvariant, [FieldNext]_<<orders, fieldVars>>
  PROVE  FieldInvariant'
<1> USE DEF FieldInvariant
<1>1. FieldTypeOK'
  BY FieldNextTyped
<1>2. CASE FieldStep
  BY <1>1, <1>2, StaffedStays, AppointedStays, AttendedOnceStays, RevisitsFollowStays
<1>3. CASE [Next]_vars /\ UNCHANGED fieldVars
  <2>1. UNCHANGED <<work, target, technician, revisitOf, roster, found>>
    BY <1>3 DEF fieldVars, board
  <2>2. Staffed' /\ AttendedOnce' /\ RevisitsFollow'
    BY <2>1 DEF Staffed, AttendedOnce, RevisitsFollow
  <2>3. Appointed'
    BY <1>3, <2>1, AppointmentsStay DEF Appointed, FieldTypeOK
  <2> QED
    BY <1>1, <2>2, <2>3
<1> QED
  BY <1>2, <1>3 DEF FieldNext, orders

(* The order desk's invariants hold beside field work. *)
THEOREM OrdersStayWholeInTheField == FieldSpec => [](TypeOK /\ OrderInvariant)
BY FieldWorkObeysTheDesk, TypeCorrect, OrdersStayWhole, PTL DEF ObeysOrderDesk

(* Work under way is staffed and appointed, an installation is attended once,
   and failed work goes on in one revisit: for any number of work orders,
   technicians and installations. *)
THEOREM BoardIsInOrder == FieldSpec => []FieldInvariant
<1>1. FieldInit => FieldInvariant
  BY FieldInitTyped, InitBoard DEF FieldInvariant
<1>2. TypeOK /\ OrderInvariant /\ FieldInvariant /\ [FieldNext]_<<orders, fieldVars>>
        => FieldInvariant'
  BY FieldInvariantStays
<1> QED
  BY <1>1, <1>2, OrdersStayWholeInTheField, PTL DEF FieldSpec
===============================================================================
