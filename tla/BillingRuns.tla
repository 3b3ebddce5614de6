------------------------------ MODULE BillingRuns ------------------------------
(***************************************************************************)
(* Recurring billing: prepareRecurringInvoices with the run, the items and *)
(* the drafts it writes, and the run that the first invoice of an order    *)
(* opens for itself (postSalesOrderFirstInvoice).  Every request is one *)
(* transaction under the tenant's financial lock.                          *)
(*                                                                         *)
(* A scope is a branch or the whole tenant.  The guard against overlapping *)
(* runs reads operations_billing_runs as the table's owner, who is subject *)
(* to the row policies of the request: it sees the runs whose scope lies   *)
(* within the caller's.                                                    *)
(*                                                                         *)
(* The calendar is one month, so an anchor day is a day.  Amounts, usage,  *)
(* areas and routes are left out.  A call with a key that was used changes *)
(* nothing.                                                                *)
(***************************************************************************)
EXTENDS Naturals, FiniteSets

CONSTANTS
  Branches, Tenant,     \* scopes: branches, or the whole tenant
  Services,
  BranchOf, AnchorDay, ActivatedOn,   \* per service
  Newcomers,            \* services whose order waits for its first invoice
  Periods,              \* <<first day, day after the last>> that are asked for
  Keys, NoRun,          \* bound: idempotency keys, one per run
  MayChange             \* bound: <<service, "status" or a configuration it may get>>

Scopes == Branches \cup {Tenant}

ASSUME ServicesAssumption ==
  /\ Tenant \notin Branches
  /\ BranchOf \in [Services -> Branches]
  /\ AnchorDay \in [Services -> Nat] /\ ActivatedOn \in [Services -> Nat]
  /\ Newcomers \subseteq Services
ASSUME PeriodsAssumption == \A p \in Periods : p \in Nat \X Nat /\ p[1] < p[2]

VARIABLES
  runs,      \* operations_billing_runs by key
  outcome,   \* operations_billing_run_items: per run and service
  drafts,    \* operations_invoice_preparations
  active,    \* services with status active
  config,    \* per service: its plan, the plan's version, the legal policy
  awaiting   \* orders whose task first_billing is ready

billing == <<runs, outcome, drafts, active, config, awaiting>>

(* complete; the plan is inactive; no version or no legal policy is effective *)
Configs == {"complete", "inactive", "missing"}
Outcomes == {"none", "prepared", "skipped", "failed"}
Runs == [by : Scopes, period : Periods, scope : Scopes, source : Keys \cup {NoRun},
         status : {"succeeded", "failed"}]
ASSUME KeysAssumption == NoRun \notin Keys \cup Runs
Drafts == [service : Services, period : Periods, run : Keys, posted : BOOLEAN]

BillingTypeOK ==
  /\ runs \in [Keys -> Runs \cup {NoRun}]
  /\ outcome \in [Keys -> [Services -> Outcomes]]
  /\ drafts \subseteq Drafts
  /\ active \subseteq Services
  /\ config \in [Services -> Configs]
  /\ awaiting \subseteq Newcomers

BillingInit ==
  /\ runs = [k \in Keys |-> NoRun]
  /\ outcome = [k \in Keys |-> [s \in Services |-> "none"]]
  /\ drafts = {}
  /\ active = Services
  /\ config = [s \in Services |-> "complete"]
  /\ awaiting = Newcomers

Within(scope, s) == scope \in {Tenant, BranchOf[s]}
Overlap(p, q) == p[1] < q[2] /\ q[1] < p[2]
Draft(s, p, k, posted) == [service |-> s, period |-> p, run |-> k, posted |-> posted]
Drafted(s, p) == \E d \in drafts : d.service = s /\ d.period = p

-----------------------------------------------------------------------------
(* Runs *)

(* Variant: a run of another scope is no obstacle. *)
FreeInScope(caller, p) ==
  \A k \in Keys :
    runs[k] # NoRun /\ runs[k].scope = caller /\ runs[k].status # "failed"
      => ~Overlap(runs[k].period, p)

(* validate_billing_run_period, as far as the caller's row policies let it see. *)
Free(caller, p) ==
  \A k \in Keys :
    /\ runs[k] # NoRun
    /\ caller \in {Tenant, runs[k].scope}
    /\ runs[k].status # "failed"
    => ~Overlap(runs[k].period, p)

(* assertBillingRetrySource: a failed run of the same period and scope. *)
Retryable(k, p, scope) ==
  /\ runs[k] # NoRun
  /\ runs[k].status = "failed"
  /\ runs[k].period = p /\ runs[k].scope = scope
  /\ \E s \in Services : outcome[k][s] = "failed"

(* Variant: a retry takes every service again. *)
AllCandidates(p, scope, source) ==
  {s \in active : /\ Within(scope, s)
                  /\ AnchorDay[s] \in p[1]..(p[2] - 1)
                  /\ ActivatedOn[s] <= AnchorDay[s]}

(* The services that are due in the period; of a retry those that failed. *)
Candidates(p, scope, source) ==
  {s \in active : /\ Within(scope, s)
                  /\ AnchorDay[s] \in p[1]..(p[2] - 1)
                  /\ ActivatedOn[s] <= AnchorDay[s]
                  /\ source # NoRun => outcome[source][s] = "failed"}

(* A draft of the service and period is left alone, whoever wrote it. *)
Rated(s, p) ==
  IF Drafted(s, p) THEN "skipped" ELSE IF config[s] = "complete" THEN "prepared" ELSE "failed"

Prepare(caller, k, p, scope, source) ==
  LET due == Candidates(p, scope, source)
      result == [s \in Services |-> IF s \in due THEN Rated(s, p) ELSE "none"]
  IN
  /\ runs[k] = NoRun
  /\ caller \in {Tenant, scope}
  /\ source # NoRun => Retryable(source, p, scope)
  /\ Free(caller, p)
  /\ outcome' = [outcome EXCEPT ![k] = result]
  /\ drafts' = drafts \cup
       {Draft(s, p, k, FALSE) : s \in {t \in due : result[t] = "prepared"}}
  /\ runs' = [runs EXCEPT ![k] =
       [by |-> caller, period |-> p, scope |-> scope, source |-> source,
        status |-> IF \E s \in due : result[s] = "failed" THEN "failed" ELSE "succeeded"]]
  /\ UNCHANGED <<active, config, awaiting>>

(* The first invoice of an order: a run of its own, from the day of activation,
   whose draft is posted at once. *)
FirstBill(caller, k, s, p) ==
  /\ runs[k] = NoRun
  /\ caller \in {Tenant, BranchOf[s]}
  /\ s \in awaiting \cap active
  /\ config[s] # "missing"
  /\ p[1] = ActivatedOn[s]
  /\ Free(caller, p)
  /\ ~Drafted(s, p)
  /\ runs' = [runs EXCEPT ![k] = [by |-> caller, period |-> p, scope |-> BranchOf[s],
                                  source |-> NoRun, status |-> "succeeded"]]
  /\ drafts' = drafts \cup {Draft(s, p, k, TRUE)}
  /\ awaiting' = awaiting \ {s}
  /\ UNCHANGED <<outcome, active, config>>

-----------------------------------------------------------------------------
(* What else changes: the service's status, and its configuration *)

SwitchService(s) ==
  /\ <<s, "status">> \in MayChange
  /\ active' = IF s \in active THEN active \ {s} ELSE active \cup {s}
  /\ UNCHANGED <<runs, outcome, drafts, config, awaiting>>

Configure(s, value) ==
  /\ <<s, value>> \in MayChange
  /\ config' = [config EXCEPT ![s] = value]
  /\ UNCHANGED <<runs, outcome, drafts, active, awaiting>>

-----------------------------------------------------------------------------
(* Properties *)

(* A run is failed if and only if one of its items is. *)
StatusTold(k) == runs[k].status = "failed" <=> \E s \in Services : outcome[k][s] = "failed"

(* Prepared if and only if the run wrote the draft, skipped only when another run
   has drafted the same period; a retry touched nothing but failures of its source. *)
ItemTold(k, s) ==
  /\ outcome[k][s] = "prepared" <=> Draft(s, runs[k].period, k, FALSE) \in drafts
  /\ outcome[k][s] = "skipped" =>
       \E d \in drafts : d.service = s /\ d.period = runs[k].period /\ d.run # k
  /\ runs[k].source # NoRun /\ outcome[k][s] # "none" =>
       outcome[runs[k].source][s] = "failed"

(* repository.ts:318-440, requirements.md:88.  What a run tells of a service is
   what was done, and no service has two drafts of one period, however often runs
   were retried and by whom. *)
RunsTellTheTruth ==
  /\ \A k \in Keys : runs[k] # NoRun => StatusTold(k) /\ \A s \in Services : ItemTold(k, s)
  /\ \A d, e \in drafts : d.service = e.service /\ d.period = e.period => d = e

(* The one run is of the whole tenant, the other was asked for within a branch. *)
BilledUnseen(j, k) == runs[j].scope = Tenant /\ runs[k].by # Tenant

(* operations-implementation.md:39.  Runs of a tenant do not overlap, so nobody is
   billed twice for a day: except next to a run that failed for somebody else, or
   when a branch bills what a run of the whole tenant, which it cannot see, has
   billed. *)
BilledTwiceOnlyUnseen ==
  \A d, e \in drafts :
    d # e /\ d.service = e.service /\ Overlap(d.period, e.period) =>
      \/ "failed" \in {runs[d.run].status, runs[e.run].status}
      \/ BilledUnseen(d.run, e.run) \/ BilledUnseen(e.run, d.run)
===============================================================================
