---------------------------- MODULE FinanceLedger -----------------------------
(***************************************************************************)
(* The money of one tenant: invoices, receipts, allocations, deposits and  *)
(* credit notes, the guard rows that limit them, the journal every one of  *)
(* them is entered in, and the periods that are closed over it.  A         *)
(* request holds the tenant's accounting lock until it commits, so it is   *)
(* one step.  One currency and one customer: the governed invoices and the *)
(* deposits are all his.  A source is entered and reversed at most once,   *)
(* since a retry finds what is there and changes nothing.                  *)
(***************************************************************************)
EXTENDS Integers, FiniteSets, Functions

CONSTANTS
  Invoices, Payments, Allocations, Notes,  \* what can ever be entered
  Nothing,
  LastDay,    \* bounds the calendar
  MaxAmount   \* bounds the amount of a document

Documents == Invoices \cup Payments
Sources == Documents \cup Allocations \cup Notes
Days == 1..LastDay
Amounts == 1..MaxAmount

ASSUME SourcesAreDistinct ==
  /\ Invoices \cap Payments = {} /\ Allocations \cap Notes = {}
  /\ Documents \cap (Allocations \cup Notes) = {}
  /\ Nothing \notin Sources
ASSUME SourcesAreFinite == IsFiniteSet(Sources)
ASSUME BoundsArePositive == LastDay \in Nat \ {0} /\ MaxAmount \in Nat \ {0}

VARIABLES
  kind,        \* how a document came about
  amount,      \* amount_minor of a source
  invoiceOf, paymentOf,            \* what an allocation or a credit note is about
  allocated, credited,             \* finance_document_guards
  posted, reversed, corrected,     \* dates of a source's entries; 0 where there is none
  entry, mirror, correction,       \* their lines, debits less credits
  closed,      \* operations_accounting_periods, none of which is ever opened again
  today

links == <<invoiceOf, paymentOf>>
guards == <<allocated, credited>>
undoing == <<reversed, mirror>>
classifying == <<corrected, correction>>
vars == <<kind, amount, links, guards, posted, entry, undoing, classifying, closed, today>>

Accounts == {"receivable", "cash", "unapplied", "advances", "revenue",
             "receipts_pending", "invoices_pending"}
Lines == [Accounts -> Int]
Blank == [x \in Accounts |-> 0]
Transfer(n, debit, credit) ==
  [x \in Accounts |-> IF x = debit THEN n ELSE IF x = credit THEN -n ELSE 0]

Init ==
  /\ kind = [d \in Documents |-> "none"]
  /\ amount = [s \in Sources |-> 0]
  /\ invoiceOf = [s \in Allocations \cup Notes |-> Nothing]
  /\ paymentOf = [a \in Allocations |-> Nothing]
  /\ allocated = [d \in Documents |-> 0]
  /\ credited = [i \in Invoices |-> 0]
  /\ posted = [s \in Sources |-> 0]
  /\ reversed = [s \in Sources |-> 0]
  /\ corrected = [s \in Sources |-> 0]
  /\ entry = [s \in Sources |-> Blank]
  /\ mirror = [s \in Sources |-> Blank]
  /\ correction = [s \in Sources |-> Blank]
  /\ closed = {}
  /\ today = 1

Live(s) == posted[s] # 0 /\ reversed[s] = 0
Due(i) == amount[i] - allocated[i] - credited[i]

(* Variant: the last day of a period is still open. *)
OpenBeforeEnd(d) == \A p \in closed : d \notin p[1]..(p[2] - 1)

(* The date is not in a closed period. *)
OpenOn(d) == \A p \in closed : d \notin p[1]..p[2]

-----------------------------------------------------------------------------
(* Entering documents.  A request to the finance interface dates its        *)
(* document as it likes; collectors and the customer account use the clock. *)

Enter(s, n, d, lines) ==
  /\ posted[s] = 0 /\ OpenOn(d)
  /\ amount' = [amount EXCEPT ![s] = n]
  /\ posted' = [posted EXCEPT ![s] = d]
  /\ entry' = [entry EXCEPT ![s] = lines]

EnterDocument(s, k, n, d, lines) ==
  /\ Enter(s, n, d, lines)
  /\ kind' = [kind EXCEPT ![s] = k]
  /\ UNCHANGED <<links, guards, undoing, classifying, closed, today>>

(* A billing run knows what it bills; any other invoice waits for its revenue
   to be classified. *)
PostInvoice(i, k, n, d) ==
  EnterDocument(i, k, n, d,
    Transfer(n, "receivable", IF k = "governed" THEN "revenue" ELSE "invoices_pending"))

PostPayment(p, n, d) == EnterDocument(p, "raw", n, d, Transfer(n, "receipts_pending", "unapplied"))

ReceiveDeposit(p, n) == EnterDocument(p, "deposit", n, today, Transfer(n, "cash", "advances"))

-----------------------------------------------------------------------------
(* Allocations *)

(* Variant: credits of the invoice are forgotten. *)
AllocateUncredited(a, i, p, n) ==
  /\ Live(i) /\ Live(p)
  /\ allocated[i] + n <= amount[i] /\ allocated[p] + n <= amount[p]
  /\ allocated' = [allocated EXCEPT ![i] = allocated[i] + n, ![p] = allocated[p] + n]
  /\ invoiceOf' = [invoiceOf EXCEPT ![a] = i]
  /\ paymentOf' = [paymentOf EXCEPT ![a] = p]
  /\ UNCHANGED <<kind, credited, undoing, classifying, closed, today>>

(* Both guards move together, within what is left of both documents. *)
AllocateTo(a, i, p, n) ==
  /\ Live(i) /\ Live(p)
  /\ allocated[i] + n <= amount[i] /\ allocated[p] + n <= amount[p]
  /\ allocated[i] + n + credited[i] <= amount[i]
  /\ allocated' = [allocated EXCEPT ![i] = allocated[i] + n, ![p] = allocated[p] + n]
  /\ invoiceOf' = [invoiceOf EXCEPT ![a] = i]
  /\ paymentOf' = [paymentOf EXCEPT ![a] = p]
  /\ UNCHANGED <<kind, credited, undoing, classifying, closed, today>>

Allocate(a, i, p, n, d) ==
  /\ kind[p] # "deposit"
  /\ Enter(a, n, d, Transfer(n, "unapplied", "receivable"))
  /\ AllocateTo(a, i, p, n)

(* A deposit pays the invoices of its customer, through his account only. *)
ApplyDeposit(a, i, p, n) ==
  /\ kind[p] = "deposit" /\ kind[i] = "governed"
  /\ Enter(a, n, today, Transfer(n, "advances", "receivable"))
  /\ AllocateTo(a, i, p, n)

(* A collector's receipt is for all that is left of the invoice, no more and
   no less, and is spent on it in the same transaction. *)
CollectPayment(p, a, i) ==
  LET n == Due(i) IN
  /\ Live(i) /\ n > 0
  /\ posted[p] = 0 /\ posted[a] = 0 /\ OpenOn(today)
  /\ kind' = [kind EXCEPT ![p] = "collected"]
  /\ amount' = [amount EXCEPT ![p] = n, ![a] = n]
  /\ posted' = [posted EXCEPT ![p] = today, ![a] = today]
  /\ entry' = [entry EXCEPT ![p] = Transfer(n, "cash", "unapplied"),
                            ![a] = Transfer(n, "unapplied", "receivable")]
  /\ allocated' = [allocated EXCEPT ![i] = allocated[i] + n, ![p] = n]
  /\ invoiceOf' = [invoiceOf EXCEPT ![a] = i]
  /\ paymentOf' = [paymentOf EXCEPT ![a] = p]
  /\ UNCHANGED <<credited, undoing, classifying, closed, today>>

-----------------------------------------------------------------------------
(* Reversals *)

(* The customer account turns its own entry round. *)
Swap(s) == [x \in Accounts |-> -entry[s][x]]

(* A reversal undoes the entry of its source and what corrected it. *)
Undo(s) == [x \in Accounts |-> -(entry[s][x] + correction[s][x])]

Reverse(s, d, lines) ==
  /\ Live(s) /\ OpenOn(d)
  /\ reversed' = [reversed EXCEPT ![s] = d]
  /\ mirror' = [mirror EXCEPT ![s] = lines]
  /\ UNCHANGED <<kind, amount, links, posted, entry, classifying, closed, today>>

(* Variant: the payment keeps what was taken back from its invoice. *)
DeallocateInvoice(a) ==
  LET i == invoiceOf[a] IN
  /\ Live(i) /\ Live(paymentOf[a]) /\ allocated[i] >= amount[a]
  /\ allocated' = [allocated EXCEPT ![i] = allocated[i] - amount[a]]
  /\ UNCHANGED credited

(* The guards are taken back; their checks keep them from going below zero. *)
Deallocate(a) ==
  LET i == invoiceOf[a]
      p == paymentOf[a]
  IN /\ Live(i) /\ Live(p)
     /\ allocated[i] >= amount[a] /\ allocated[p] >= amount[a]
     /\ allocated' = [allocated EXCEPT ![i] = allocated[i] - amount[a],
                                       ![p] = allocated[p] - amount[a]]
     /\ UNCHANGED credited

ReverseAllocation(a, d) ==
  /\ posted[a] # 0 /\ kind[paymentOf[a]] # "deposit"
  /\ Reverse(a, d, Undo(a))
  /\ Deallocate(a)

ReverseApplication(a) ==
  /\ posted[a] # 0 /\ kind[paymentOf[a]] = "deposit"
  /\ Reverse(a, today, Swap(a))
  /\ Deallocate(a)

(* Nothing may still rest on the document, nor may it be undone before it
   was classified. *)
ReverseInvoice(i, d) ==
  /\ allocated[i] = 0 /\ credited[i] = 0 /\ corrected[i] <= d
  /\ Reverse(i, d, Undo(i))
  /\ UNCHANGED guards

ReversePayment(p, d) ==
  /\ allocated[p] = 0 /\ corrected[p] <= d /\ kind[p] # "deposit"
  /\ Reverse(p, d, Undo(p))
  /\ UNCHANGED guards

ReverseDeposit(p) ==
  /\ allocated[p] = 0 /\ kind[p] = "deposit"
  /\ Reverse(p, today, Swap(p))
  /\ UNCHANGED guards

-----------------------------------------------------------------------------
(* Credit notes *)

CreditNote(c, i, n) ==
  /\ kind[i] = "governed" /\ Live(i) /\ n <= Due(i)
  /\ Enter(c, n, today, Transfer(n, "revenue", "receivable"))
  /\ credited' = [credited EXCEPT ![i] = credited[i] + n]
  /\ invoiceOf' = [invoiceOf EXCEPT ![c] = i]
  /\ UNCHANGED <<kind, paymentOf, allocated, undoing, classifying, closed, today>>

ReverseCredit(c) ==
  LET i == invoiceOf[c] IN
  /\ posted[c] # 0 /\ Live(i) /\ credited[i] >= amount[c]
  /\ Reverse(c, today, Swap(c))
  /\ credited' = [credited EXCEPT ![i] = credited[i] - amount[c]]
  /\ UNCHANGED allocated

-----------------------------------------------------------------------------
(* Accounting *)

NeedsClassification(s) == s \in Documents /\ kind[s] = "raw"

(* A manual journal that clears what the source left pending.  Of the accounts
   an accountant may choose, one for receipts and one for invoices; manual
   journals that classify nothing are left out. *)
Classify(s, d) ==
  /\ NeedsClassification(s) /\ reversed[s] = 0 /\ corrected[s] = 0
  /\ posted[s] <= d /\ OpenOn(d)
  /\ corrected' = [corrected EXCEPT ![s] = d]
  /\ correction' = [correction EXCEPT ![s] =
       IF s \in Invoices THEN Transfer(amount[s], "invoices_pending", "revenue")
                         ELSE Transfer(amount[s], "cash", "receipts_pending")]
  /\ UNCHANGED <<kind, amount, links, guards, posted, entry, undoing, closed, today>>

HappenedBy(day, d) == day # 0 /\ day <= d

(* Variant: a reversal counts whatever its date. *)
Unresolved(s, d) ==
  /\ NeedsClassification(s) /\ HappenedBy(posted[s], d)
  /\ reversed[s] = 0 /\ ~ HappenedBy(corrected[s], d)

(* As the books stood at the end of day d. *)
Unclassified(s, d) ==
  /\ NeedsClassification(s) /\ HappenedBy(posted[s], d)
  /\ ~ HappenedBy(reversed[s], d)
  /\ ~ HappenedBy(corrected[s], d)

ClosePeriod(first, last) ==
  /\ first <= last
  /\ \A p \in closed : last < p[1] \/ p[2] < first
  /\ \A s \in Documents : ~ Unclassified(s, last)
  /\ closed' = closed \cup {<<first, last>>}
  /\ UNCHANGED <<kind, amount, links, guards, posted, entry, undoing, classifying, today>>

Tick ==
  /\ today < LastDay
  /\ today' = today + 1
  /\ UNCHANGED <<kind, amount, links, guards, posted, entry, undoing, classifying, closed>>

(* Balance of the account in the journal; the customer's statement, in which a
   deposit counts when it is received and not again when it is applied. *)
Counted == [s \in Sources |-> IF Live(s) THEN amount[s] ELSE 0]
Total(S) == SumFunctionOnSet(Counted, S)

Balance(x) == SumFunction([s \in Sources |-> entry[s][x] + mirror[s][x] + correction[s][x]])

Governed == {i \in Invoices : kind[i] = "governed"}
Deposits == {p \in Payments : kind[p] = "deposit"}
About(S, i) == {s \in S : invoiceOf[s] = i}
OutOf(p) == {a \in Allocations : paymentOf[a] = p}

Statement ==
  Total(Governed)
    - Total({a \in Allocations : invoiceOf[a] \in Governed /\ paymentOf[a] \notin Deposits})
    - Total(Notes) - Total(Deposits)

-----------------------------------------------------------------------------

Next ==
  \/ Tick
  \/ \E first, last \in Days : ClosePeriod(first, last)
  \/ \E i \in Invoices, d \in Days :
       ReverseInvoice(i, d) \/ \E k \in {"raw", "governed"}, n \in Amounts : PostInvoice(i, k, n, d)
  \/ \E p \in Payments, d \in Days : ReversePayment(p, d) \/ \E n \in Amounts : PostPayment(p, n, d)
  \/ \E p \in Payments : ReverseDeposit(p) \/ \E n \in Amounts : ReceiveDeposit(p, n)
  \/ \E s \in Documents, d \in Days : Classify(s, d)
  \/ \E a \in Allocations, i \in Invoices, p \in Payments :
       \/ CollectPayment(p, a, i)
       \/ \E n \in Amounts : ApplyDeposit(a, i, p, n) \/ \E d \in Days : Allocate(a, i, p, n, d)
  \/ \E a \in Allocations : ReverseApplication(a) \/ \E d \in Days : ReverseAllocation(a, d)
  \/ \E c \in Notes : ReverseCredit(c) \/ \E i \in Invoices, n \in Amounts : CreditNote(c, i, n)

Spec == Init /\ [][Next]_vars

-----------------------------------------------------------------------------
(* Properties *)

TypeOK ==
  /\ kind \in [Documents -> {"none", "raw", "governed", "collected", "deposit"}]
  /\ amount \in [Sources -> 0..MaxAmount]
  /\ invoiceOf \in [Allocations \cup Notes -> Invoices \cup {Nothing}]
  /\ paymentOf \in [Allocations -> Payments \cup {Nothing}]
  /\ allocated \in [Documents -> Nat] /\ credited \in [Invoices -> Nat]
  /\ posted \in [Sources -> 0..LastDay]
  /\ reversed \in [Sources -> 0..LastDay]
  /\ corrected \in [Sources -> 0..LastDay]
  /\ entry \in [Sources -> Lines] /\ mirror \in [Sources -> Lines]
  /\ correction \in [Sources -> Lines]
  /\ closed \subseteq Days \X Days
  /\ today \in Days

(* What is left of the live documents in S. *)
Left == [d \in Documents |->
          IF ~ Live(d) THEN 0 ELSE IF d \in Invoices THEN Due(d) ELSE amount[d] - allocated[d]]
LeftOf(S) == SumFunctionOnSet(Left, S)

(* The guards add up what is live of the allocations and the credits. *)
GuardsAgree ==
  /\ \A i \in Invoices :
       allocated[i] = Total(About(Allocations, i)) /\ credited[i] = Total(About(Notes, i))
  /\ \A p \in Payments : allocated[p] = Total(OutOf(p))

(* Five places record the same money and each is kept by another trigger: the
   guards agree with their allocations and credits, the control accounts of the
   journal are what the guards leave, and the statement shows the customer the
   same. *)
LedgerAgrees ==
  /\ GuardsAgree
  /\ Balance("receivable") = LeftOf(Invoices)
  /\ Balance("advances") = -LeftOf(Deposits)
  /\ Balance("unapplied") = -LeftOf(Payments \ Deposits)
  /\ Statement = LeftOf(Governed) - LeftOf(Deposits)

(* The entries of s come to a transfer while it is live, to nothing before and after. *)
Booked(s, debit, credit) ==
  [x \in Accounts |-> entry[s][x] + mirror[s][x] + correction[s][x]] =
    IF Live(s) THEN Transfer(amount[s], debit, credit) ELSE Blank

Pending(s) == NeedsClassification(s) /\ corrected[s] = 0
HeldAs(p) == IF kind[p] = "deposit" THEN "advances" ELSE "unapplied"

(* Whatever was corrected and reversed, and in whatever order: the entries of a
   live source add up to what it means, those of a reversed one to nothing. *)
SourcesInBooks ==
  /\ \A i \in Invoices :
       Booked(i, "receivable", IF Pending(i) THEN "invoices_pending" ELSE "revenue")
  /\ \A p \in Payments : Booked(p, IF Pending(p) THEN "receipts_pending" ELSE "cash", HeldAs(p))
  /\ \A a \in Allocations : posted[a] # 0 => Booked(a, HeldAs(paymentOf[a]), "receivable")
  /\ \A c \in Notes : Booked(c, "revenue", "receivable")

(* A closed period stays reconciled although sources can be reversed, and
   entered around it, after the close: none of its entries is pending at its
   end. *)
ClosedIsClassified ==
  \A p \in closed : \A s \in Documents :
    NeedsClassification(s) /\ posted[s] \in p[1]..p[2] =>
      HappenedBy(reversed[s], p[2]) \/ HappenedBy(corrected[s], p[2])

(* What a closed period says never changes: no step dates an entry into it. *)
SealedPeriods ==
  [][\A p \in closed : \A s \in Sources : \A d \in p[1]..p[2] :
       /\ posted'[s] = d <=> posted[s] = d
       /\ reversed'[s] = d <=> reversed[s] = d
       /\ corrected'[s] = d <=> corrected[s] = d]_vars

(* Allocations, credits, deposits and reversals in any order settle invoices
   with money that is there: nothing is paid twice, spent twice or voided
   while it counts for something else. *)
Settled == INSTANCE Settlement WITH
  state <- [d \in Documents |->
             IF posted[d] = 0 THEN "none" ELSE IF reversed[d] = 0 THEN "open" ELSE "void"],
  face <- [d \in Documents |-> amount[d]],
  left <- [d \in Documents |-> IF d \in Invoices THEN Due(d) ELSE amount[d] - allocated[d]]

MovesMoney == Settled!Spec
===============================================================================
