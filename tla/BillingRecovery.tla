---------------------------- MODULE BillingRecovery ----------------------------
(***************************************************************************)
(* Billing runs with what follows a posted invoice: its payment, and the   *)
(* dunning cases that evaluateDunning opens, advances and resolves.  The   *)
(* only invoices of drafts are the first ones of orders, so an invoice is  *)
(* named by the service it is for.                                         *)
(*                                                                         *)
(* Dates are left out: an evaluation is for any day its caller names, so   *)
(* how far each invoice is overdue, under the policy of its posting day or *)
(* of its case, may be anything.                                           *)
(***************************************************************************)
EXTENDS BillingRuns

CONSTANT Amount   \* of an invoice

ASSUME AmountAssumption == Amount \in Nat \ {0}

VARIABLES
  owed,      \* what payments and credits leave of each invoice
  annulled,  \* invoices that were reversed
  cases      \* operations_dunning_cases by invoice

dunning == <<owed, annulled, cases>>
recoveryVars == <<billing, dunning>>

(* Stages by their rank: reminder, final notice, suspension review. *)
Stages == 1..3
Resolved == 4
NoCase == [stage |-> 0, outstanding |-> 0]

Invoiced == {d.service : d \in {e \in drafts : e.posted}}
Debt(s) == IF s \in annulled THEN 0 ELSE owed[s]

RecoveryTypeOK ==
  /\ BillingTypeOK
  /\ owed \in [Newcomers -> 0..Amount]
  /\ annulled \subseteq Newcomers
  /\ cases \in [Newcomers -> [stage : {0, Resolved} \cup Stages, outstanding : 0..Amount]]

RecoveryInit ==
  /\ BillingInit
  /\ owed = [s \in Newcomers |-> Amount]
  /\ annulled = {}
  /\ cases = [s \in Newcomers |-> NoCase]

-----------------------------------------------------------------------------
(* Money: allocations and credit notes, and their reversals *)

Settle(s, rest) ==
  /\ s \in Invoiced \ annulled
  /\ rest < owed[s]
  /\ owed' = [owed EXCEPT ![s] = rest]
  /\ UNCHANGED <<billing, annulled, cases>>

Release(s, rest) ==
  /\ s \in Invoiced \ annulled
  /\ rest > owed[s]
  /\ owed' = [owed EXCEPT ![s] = rest]
  /\ UNCHANGED <<billing, annulled, cases>>

(* An invoice is reversed once, when nothing is allocated to it any more. *)
ReverseBill(s) ==
  /\ s \in Invoiced \ annulled
  /\ owed[s] = Amount
  /\ annulled' = annulled \cup {s}
  /\ UNCHANGED <<billing, owed, cases>>

-----------------------------------------------------------------------------
(* evaluateDunning *)

Open(s) == cases[s].stage \in Stages

(* Invoices that are overdue on the day of the evaluation, and all open cases. *)
Overdue(scope, age) ==
  {s \in Invoiced :
     /\ Within(scope, s)
     /\ Open(s) \/ (Debt(s) > 0 /\ age[s] > 0)}

(* Variant: the case takes the stage of the day. *)
Restaged(s, age) ==
  IF Debt(s) = 0 THEN [stage |-> Resolved, outstanding |-> 0]
  ELSE [stage |-> IF age[s] > 0 THEN age[s] ELSE 1, outstanding |-> Debt(s)]

(* A case is opened, advanced, resolved, or told what is owed now. *)
Evaluated(s, age) ==
  IF Debt(s) = 0 THEN [stage |-> Resolved, outstanding |-> 0]
  ELSE [stage |-> IF age[s] > cases[s].stage THEN age[s] ELSE cases[s].stage,
        outstanding |-> Debt(s)]

(* One transaction: when the table refuses one case, a resolved one with a debt,
   the evaluation fails for all. *)
Evaluate(scope, age) ==
  /\ \A s \in Overdue(scope, age) : cases[s].stage # Resolved
  /\ cases' = [s \in Newcomers |->
       IF s \in Overdue(scope, age) THEN Evaluated(s, age) ELSE cases[s]]
  /\ UNCHANGED <<billing, owed, annulled>>

-----------------------------------------------------------------------------
RecoveryNext ==
  \/ \E caller, scope \in Scopes, k \in Keys, p \in Periods, source \in Keys \cup {NoRun} :
       Prepare(caller, k, p, scope, source) /\ UNCHANGED dunning
  \/ \E caller \in Scopes, k \in Keys, s \in Newcomers, p \in Periods :
       FirstBill(caller, k, s, p) /\ UNCHANGED dunning
  \/ \E s \in Services : SwitchService(s) /\ UNCHANGED dunning
  \/ \E s \in Services, value \in Configs : Configure(s, value) /\ UNCHANGED dunning
  \/ \E s \in Newcomers :
       \/ \E rest \in 0..Amount : Settle(s, rest) \/ Release(s, rest)
       \/ ReverseBill(s)
  \/ \E scope \in Scopes, age \in [Newcomers -> {0} \cup Stages] : Evaluate(scope, age)

RecoverySpec == RecoveryInit /\ [][RecoveryNext]_recoveryVars

-----------------------------------------------------------------------------
(* billing.ts:456-489, 202609021000:113-115.  A case never goes back, a closed one
   is never touched again, and whenever an evaluation changes a case, it then
   says what its invoice owes and is closed just when that is nothing, whatever
   was paid, credited or reversed since the last one. *)
CasesFollowTheDebt ==
  [][\A s \in Newcomers : cases'[s] # cases[s] =>
       /\ cases[s].stage # Resolved /\ cases'[s].stage >= cases[s].stage
       /\ cases'[s].outstanding = Debt(s)
       /\ cases'[s].stage = Resolved <=> Debt(s) = 0]_recoveryVars
===============================================================================
