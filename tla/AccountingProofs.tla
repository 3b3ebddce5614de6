--------------------------- MODULE AccountingProofs ----------------------------
(***************************************************************************)
(* Proofs about the money of a tenant.  Of FinanceLedger: types, sealed    *)
(* and classified periods, what every source comes to in the books, that   *)
(* guards, journal and statement agree, and that the ledger moves money as *)
(* Settlement does.  Of BillingRecovery: only Prepare and FirstBill write  *)
(* runs and drafts, and only once per key; so what runs and drafts have to *)
(* do with each other is stated of a pair of runs and kept by adding one.  *)
(***************************************************************************)
EXTENDS FinanceLedger, BillingRecovery, SumTheorems, TLAPS

-----------------------------------------------------------------------------
(* The ledger: types *)

LEMMA UpdateTyped ==
  ASSUME NEW D, NEW S, NEW f \in [D -> S], NEW x, NEW y, NEW u, NEW v,
         x \in D => u \in S, y \in D => v \in S
  PROVE  /\ [f EXCEPT ![x] = u] \in [D -> S]
         /\ [f EXCEPT ![x] = u, ![y] = v] \in [D -> S]
OBVIOUS

LEMMA BlankTyped == Blank \in Lines
BY DEF Blank, Lines

LEMMA TransferTyped ==
  ASSUME NEW n \in Int, NEW x, NEW y
  PROVE  Transfer(n, x, y) \in Lines
BY DEF Transfer, Lines

LEMMA UndoTyped ==
  ASSUME TypeOK, NEW s \in Sources
  PROVE  Undo(s) \in Lines /\ Swap(s) \in Lines
<1>1. \A x \in Accounts : entry[s][x] \in Int /\ correction[s][x] \in Int
  BY DEF TypeOK, Lines
<1> QED
  BY <1>1 DEF Undo, Swap, Lines

LEMMA InitTyped == Init => TypeOK
BY BlankTyped, BoundsArePositive DEF Init, TypeOK, Days

LEMMA EnterTyped ==
  ASSUME TypeOK, NEW s \in Sources, NEW n \in Amounts, NEW d \in Days, NEW l \in Lines,
         Enter(s, n, d, l)
  PROVE  /\ amount' \in [Sources -> 0..MaxAmount]
         /\ posted' \in [Sources -> 0..LastDay]
         /\ entry' \in [Sources -> Lines]
BY BoundsArePositive DEF TypeOK, Enter, Amounts, Days

LEMMA ReverseTyped ==
  ASSUME TypeOK, NEW s \in Sources, NEW d \in Days, NEW l \in Lines, Reverse(s, d, l),
         allocated' \in [Documents -> Nat], credited' \in [Invoices -> Nat]
  PROVE  TypeOK'
BY BoundsArePositive DEF TypeOK, Reverse, Days, links, classifying

LEMMA EnterDocumentTyped ==
  ASSUME TypeOK, NEW s \in Documents, NEW n \in Amounts, NEW d \in Days, NEW x, NEW y,
         NEW k \in {"raw", "governed", "collected", "deposit"},
         EnterDocument(s, k, n, d, Transfer(n, x, y))
  PROVE  TypeOK'
<1>1. Transfer(n, x, y) \in Lines /\ s \in Sources
  BY TransferTyped, BoundsArePositive DEF Amounts, Sources
<1>2. /\ amount' \in [Sources -> 0..MaxAmount]
      /\ posted' \in [Sources -> 0..LastDay]
      /\ entry' \in [Sources -> Lines]
  BY <1>1, EnterTyped DEF EnterDocument
<1> QED
  BY <1>2 DEF TypeOK, EnterDocument, links, guards, undoing, classifying

LEMMA AllocateTyped ==
  ASSUME TypeOK, NEW a \in Allocations, NEW i \in Invoices, NEW p \in Payments,
         NEW n \in Amounts, NEW d \in Days, NEW x, NEW y,
         Enter(a, n, d, Transfer(n, x, y)), AllocateTo(a, i, p, n)
  PROVE  TypeOK'
<1>1. Transfer(n, x, y) \in Lines /\ a \in Sources
  BY TransferTyped, BoundsArePositive DEF Amounts, Sources
<1>2. /\ amount' \in [Sources -> 0..MaxAmount]
      /\ posted' \in [Sources -> 0..LastDay]
      /\ entry' \in [Sources -> Lines]
  BY <1>1, EnterTyped
<1>3. allocated' \in [Documents -> Nat]
  BY BoundsArePositive DEF TypeOK, AllocateTo, Amounts, Documents
<1>4. /\ invoiceOf' \in [Allocations \cup Notes -> Invoices \cup {Nothing}]
      /\ paymentOf' \in [Allocations -> Payments \cup {Nothing}]
  BY DEF TypeOK, AllocateTo
<1> QED
  BY <1>2, <1>3, <1>4 DEF TypeOK, AllocateTo, undoing, classifying

LEMMA CollectTyped ==
  ASSUME TypeOK, NEW p \in Payments, NEW a \in Allocations, NEW i \in Invoices,
         CollectPayment(p, a, i)
  PROVE  TypeOK'
<1> DEFINE n == Due(i)
<1>1. n \in 1..MaxAmount /\ n \in Nat
  BY BoundsArePositive DEF TypeOK, CollectPayment, Due, Sources, Documents
<1>2. \A x, y : Transfer(n, x, y) \in Lines
  BY <1>1, TransferTyped
<1> HIDE DEF n
<1>3. /\ amount' = [amount EXCEPT ![p] = n, ![a] = n]
      /\ posted' = [posted EXCEPT ![p] = today, ![a] = today]
      /\ allocated' = [allocated EXCEPT ![i] = allocated[i] + n, ![p] = n]
      /\ entry' = [entry EXCEPT ![p] = Transfer(n, "cash", "unapplied"),
                                ![a] = Transfer(n, "unapplied", "receivable")]
  BY DEF CollectPayment, n
<1>4. amount' \in [Sources -> 0..MaxAmount]
  <2>1. n \in 0..MaxAmount /\ amount \in [Sources -> 0..MaxAmount]
    BY <1>1, BoundsArePositive DEF TypeOK
  <2> QED
    BY ONLY <1>3, <2>1, UpdateTyped
<1>5. today \in 0..LastDay /\ posted' \in [Sources -> 0..LastDay]
  <2>1. today \in 0..LastDay
    BY BoundsArePositive DEF TypeOK, Days
  <2> QED
    BY <1>3, <2>1, UpdateTyped DEF TypeOK
<1>6. allocated' \in [Documents -> Nat]
  <2>1. allocated[i] + n \in Nat /\ allocated \in [Documents -> Nat]
    BY <1>1 DEF TypeOK, Documents
  <2> QED
    BY ONLY <1>1, <1>3, <2>1, UpdateTyped
<1>7. entry' \in [Sources -> Lines]
  BY <1>2, <1>3, UpdateTyped DEF TypeOK
<1> QED
  BY <1>4, <1>5, <1>6, <1>7 DEF TypeOK, CollectPayment, undoing, classifying

LEMMA DeallocateTyped ==
  ASSUME TypeOK, NEW a \in Allocations, Deallocate(a)
  PROVE  allocated' \in [Documents -> Nat] /\ credited' \in [Invoices -> Nat]
<1> DEFINE i == invoiceOf[a]
           p == paymentOf[a]
<1>1. amount[a] \in Nat /\ allocated \in [Documents -> Nat] /\ credited \in [Invoices -> Nat]
  BY BoundsArePositive DEF TypeOK, Sources
<1>2. /\ allocated' = [allocated EXCEPT ![i] = allocated[i] - amount[a],
                                         ![p] = allocated[p] - amount[a]]
      /\ allocated[i] >= amount[a] /\ allocated[p] >= amount[a] /\ credited' = credited
  BY DEF Deallocate
<1> HIDE DEF i, p
<1>3. (i \in Documents => allocated[i] - amount[a] \in Nat)
      /\ (p \in Documents => allocated[p] - amount[a] \in Nat)
  BY <1>1, <1>2
<1> QED
  BY <1>1, <1>2, <1>3, UpdateTyped

LEMMA NotesTyped ==
  ASSUME TypeOK, NEW c \in Notes,
         ReverseCredit(c) \/ \E i \in Invoices, n \in Amounts : CreditNote(c, i, n)
  PROVE  TypeOK'
<1>1. ASSUME ReverseCredit(c)  PROVE TypeOK'
  <2>1. c \in Sources /\ amount[c] \in Nat /\ today \in Days
    BY BoundsArePositive DEF TypeOK, Sources
  <2> DEFINE i == invoiceOf[c]
  <2>2. /\ credited' = [credited EXCEPT ![i] = credited[i] - amount[c]]
        /\ credited[i] >= amount[c] /\ allocated' = allocated
    BY <1>1 DEF ReverseCredit
  <2> HIDE DEF i
  <2>3. i \in Invoices => credited[i] - amount[c] \in Nat
    BY <2>1, <2>2 DEF TypeOK
  <2>4. allocated' \in [Documents -> Nat] /\ credited' \in [Invoices -> Nat]
    <3>1. credited \in [Invoices -> Nat] /\ allocated \in [Documents -> Nat]
      BY DEF TypeOK
    <3> QED
      BY ONLY <2>2, <2>3, <3>1, UpdateTyped
  <2> QED
    BY <1>1, <2>1, <2>4, UndoTyped, ReverseTyped DEF ReverseCredit
<1>2. ASSUME NEW i \in Invoices, NEW n \in Amounts, CreditNote(c, i, n)  PROVE TypeOK'
  <2>1. Transfer(n, "revenue", "receivable") \in Lines /\ c \in Sources /\ today \in Days
    BY TransferTyped, BoundsArePositive DEF Amounts, Sources, TypeOK
  <2>2. /\ amount' \in [Sources -> 0..MaxAmount]
        /\ posted' \in [Sources -> 0..LastDay]
        /\ entry' \in [Sources -> Lines]
    BY <1>2, <2>1, EnterTyped DEF CreditNote
  <2>3. credited' \in [Invoices -> Nat]
    BY <1>2, BoundsArePositive DEF TypeOK, CreditNote, Amounts
  <2> QED
    BY <1>2, <2>2, <2>3 DEF TypeOK, CreditNote, undoing, classifying
<1> QED
  BY <1>1, <1>2

LEMMA ReversalsTyped ==
  ASSUME TypeOK, NEW d \in Days,
         \/ \E i \in Invoices : ReverseInvoice(i, d)
         \/ \E p \in Payments : ReversePayment(p, d) \/ ReverseDeposit(p)
         \/ \E a \in Allocations : ReverseAllocation(a, d) \/ ReverseApplication(a)
  PROVE  TypeOK'
<1>1. today \in Days /\ allocated \in [Documents -> Nat] /\ credited \in [Invoices -> Nat]
  BY DEF TypeOK
<1>2. ASSUME NEW s \in Documents, NEW e \in Days, UNCHANGED guards,
             Reverse(s, e, Undo(s)) \/ Reverse(s, e, Swap(s))
      PROVE  TypeOK'
  <2>1. s \in Sources
    BY DEF Sources
  <2> QED
    BY <1>1, <1>2, <2>1, UndoTyped, ReverseTyped DEF guards
<1>3. ASSUME NEW a \in Allocations, NEW e \in Days, Deallocate(a),
             Reverse(a, e, Undo(a)) \/ Reverse(a, e, Swap(a))
      PROVE  TypeOK'
  <2>1. a \in Sources
    BY DEF Sources
  <2> QED
    BY <1>3, <2>1, UndoTyped, ReverseTyped, DeallocateTyped
<1> QED
  BY <1>1, <1>2, <1>3
     DEF ReverseInvoice, ReversePayment, ReverseDeposit, ReverseAllocation, ReverseApplication, Documents

LEMMA ClassifyTyped ==
  ASSUME TypeOK, NEW s \in Documents, NEW d \in Days, Classify(s, d)
  PROVE  TypeOK'
<1>1. amount[s] \in Int /\ s \in Sources
  BY BoundsArePositive DEF TypeOK, Sources
<1>2. correction' \in [Sources -> Lines]
  BY <1>1, TransferTyped DEF TypeOK, Classify
<1>3. corrected' \in [Sources -> 0..LastDay]
  <2>1. d \in 0..LastDay
    BY BoundsArePositive DEF Days
  <2> QED
    BY <2>1, UpdateTyped DEF TypeOK, Classify
<1> QED
  BY <1>2, <1>3 DEF TypeOK, Classify, links, guards, undoing

LEMMA CalendarTyped ==
  ASSUME TypeOK, Tick \/ \E first, last \in Days : ClosePeriod(first, last)
  PROVE  TypeOK'
<1> USE BoundsArePositive DEF TypeOK, links, guards, undoing, classifying, Days
<1>1. ASSUME NEW first \in Days, NEW last \in Days, ClosePeriod(first, last)  PROVE TypeOK'
  BY <1>1 DEF ClosePeriod
<1>2. CASE Tick
  BY <1>2 DEF Tick
<1> QED
  BY <1>1, <1>2

LEMMA NextTyped ==
  ASSUME TypeOK, [Next]_vars
  PROVE  TypeOK'
<1> USE BoundsArePositive
<1>1. today \in Days
  BY DEF TypeOK
<1>2. ASSUME NEW i \in Invoices, NEW d \in Days, NEW k \in {"raw", "governed"}, NEW n \in Amounts,
             PostInvoice(i, k, n, d)
      PROVE  TypeOK'
  BY <1>2, EnterDocumentTyped DEF PostInvoice, Documents
<1>3. ASSUME NEW p \in Payments, NEW d \in Days, NEW n \in Amounts,
             PostPayment(p, n, d) \/ ReceiveDeposit(p, n)
      PROVE  TypeOK'
  BY <1>1, <1>3, EnterDocumentTyped DEF PostPayment, ReceiveDeposit, Documents
<1>4. ASSUME NEW a \in Allocations, NEW i \in Invoices, NEW p \in Payments, NEW n \in Amounts,
             ApplyDeposit(a, i, p, n) \/ \E d \in Days : Allocate(a, i, p, n, d)
      PROVE  TypeOK'
  BY <1>1, <1>4, AllocateTyped DEF ApplyDeposit, Allocate
<1>5. CASE UNCHANGED vars
  BY <1>5 DEF TypeOK, vars, links, guards, undoing, classifying
<1> QED
  BY <1>1, <1>2, <1>3, <1>4, <1>5, CollectTyped, NotesTyped, ReversalsTyped, ClassifyTyped,
     CalendarTyped DEF Next

(* Every variable keeps its type; no guard goes below zero and no entry is
   dated outside the calendar. *)
THEOREM TypeCorrect == Spec => []TypeOK
<1> QED
  BY InitTyped, NextTyped, PTL DEF Spec

-----------------------------------------------------------------------------
(* Dates *)

(* Dates are given once, and to open days. *)
Stamped(old, new) ==
  \A s \in Sources : new[s] = old[s] \/ (old[s] = 0 /\ OpenOn(new[s]))

LEMMA SourcesStamped ==
  ASSUME TypeOK, Next
  PROVE  /\ Stamped(posted, posted')
         /\ Stamped(reversed, reversed')
         /\ Stamped(corrected, corrected')
         /\ \A d \in Documents : kind'[d] = kind[d] \/ posted[d] = 0
<1> DEFINE Dated ==
      /\ Stamped(posted, posted')
      /\ Stamped(reversed, reversed')
      /\ Stamped(corrected, corrected')
      /\ \A d \in Documents : kind'[d] = kind[d] \/ posted[d] = 0
<1> USE DEF TypeOK, Stamped
<1>1. ASSUME NEW s \in Documents, NEW k, NEW n, NEW d, NEW l, EnterDocument(s, k, n, d, l)
      PROVE  Dated
  BY <1>1 DEF EnterDocument, Enter, undoing, classifying, Sources
<1>2. ASSUME NEW s \in Sources, NEW n, NEW d, NEW l, Enter(s, n, d, l),
             UNCHANGED <<kind, undoing, classifying>>
      PROVE  Dated
  BY <1>2 DEF Enter, undoing, classifying
<1>3. ASSUME NEW s \in Sources, NEW d, NEW l, Reverse(s, d, l)
      PROVE  Dated
  BY <1>3 DEF Reverse, Live, classifying
<1>4. ASSUME NEW p \in Payments, NEW a \in Allocations, NEW i \in Invoices, CollectPayment(p, a, i)
      PROVE  Dated
  <2>1. /\ posted' = [posted EXCEPT ![p] = today, ![a] = today]
        /\ posted[p] = 0 /\ posted[a] = 0 /\ OpenOn(today)
        /\ kind' = [kind EXCEPT ![p] = "collected"]
        /\ reversed' = reversed /\ corrected' = corrected
    BY <1>4 DEF CollectPayment, undoing, classifying
  <2> QED
    BY <2>1
<1>5. ASSUME NEW s \in Documents, NEW d, Classify(s, d)
      PROVE  Dated
  BY <1>5 DEF Classify, undoing
<1>6. ASSUME UNCHANGED <<kind, posted, undoing, classifying>>
      PROVE  Dated
  BY <1>6 DEF undoing, classifying
<1> HIDE DEF TypeOK, Stamped, Dated
<1>7. Allocations \subseteq Sources /\ Notes \subseteq Sources /\ Documents \subseteq Sources
      /\ Invoices \subseteq Documents /\ Payments \subseteq Documents
  BY DEF Sources, Documents
<1>8. ASSUME NEW i \in Invoices, NEW d \in Days,
             ReverseInvoice(i, d) \/ \E k \in {"raw", "governed"}, n \in Amounts : PostInvoice(i, k, n, d)
      PROVE  Dated
  BY <1>1, <1>3, <1>7, <1>8 DEF ReverseInvoice, PostInvoice
<1>9. ASSUME NEW p \in Payments,
             \/ ReverseDeposit(p) \/ \E n \in Amounts : ReceiveDeposit(p, n)
             \/ \E d \in Days : ReversePayment(p, d) \/ \E n \in Amounts : PostPayment(p, n, d)
      PROVE  Dated
  BY <1>1, <1>3, <1>7, <1>9 DEF ReversePayment, ReverseDeposit, PostPayment, ReceiveDeposit
<1>10. ASSUME NEW a \in Allocations, NEW i \in Invoices, NEW p \in Payments, NEW n \in Amounts,
              ApplyDeposit(a, i, p, n) \/ \E d \in Days : Allocate(a, i, p, n, d)
       PROVE  Dated
  <2>1. a \in Sources /\ UNCHANGED <<kind, undoing, classifying>>
    BY <1>7, <1>10 DEF ApplyDeposit, Allocate, AllocateTo
  <2> QED
    BY <1>2, <1>10, <2>1 DEF ApplyDeposit, Allocate
<1>11. ASSUME NEW a \in Allocations, ReverseApplication(a) \/ \E d \in Days : ReverseAllocation(a, d)
       PROVE  Dated
  BY <1>3, <1>7, <1>11 DEF ReverseApplication, ReverseAllocation
<1>12. ASSUME NEW c \in Notes, ReverseCredit(c) \/ \E i \in Invoices, n \in Amounts : CreditNote(c, i, n)
       PROVE  Dated
  BY <1>2, <1>3, <1>7, <1>12 DEF ReverseCredit, CreditNote
<1>13. ASSUME NEW first \in Days, NEW last \in Days, ClosePeriod(first, last)  PROVE Dated
  BY <1>6, <1>13 DEF ClosePeriod
<1>14. ASSUME Tick  PROVE Dated
  <2>1. UNCHANGED <<kind, posted, undoing, classifying>>
    BY <1>14 DEF Tick
  <2> QED
    BY <1>6, <2>1
<1>15. Dated
  BY <1>4, <1>5, <1>8, <1>9, <1>10, <1>11, <1>12, <1>13, <1>14 DEF Next
<1> QED
  BY <1>15 DEF Dated

(* A day of a closed period is a day of the calendar. *)
LEMMA ClosedDays ==
  ASSUME TypeOK, NEW p \in closed, NEW d \in p[1]..p[2]
  PROVE  d # 0 /\ ~ OpenOn(d)
BY DEF TypeOK, Days, OpenOn

LEMMA StampSealed ==
  ASSUME TypeOK, NEW old, NEW new, Stamped(old, new),
         NEW p \in closed, NEW d \in p[1]..p[2], NEW s \in Sources
  PROVE  new[s] = d <=> old[s] = d
BY ClosedDays DEF Stamped

LEMMA NextSealed ==
  ASSUME TypeOK, [Next]_vars
  PROVE  [\A p \in closed : \A s \in Sources : \A d \in p[1]..p[2] :
            /\ posted'[s] = d <=> posted[s] = d
            /\ reversed'[s] = d <=> reversed[s] = d
            /\ corrected'[s] = d <=> corrected[s] = d]_vars
BY SourcesStamped, StampSealed

(* No step of any behaviour dates an entry into a closed period. *)
THEOREM PeriodsAreSealed == Spec => SealedPeriods
<1>1. TypeOK /\ [Next]_vars =>
        [\A p \in closed : \A s \in Sources : \A d \in p[1]..p[2] :
           /\ posted'[s] = d <=> posted[s] = d
           /\ reversed'[s] = d <=> reversed[s] = d
           /\ corrected'[s] = d <=> corrected[s] = d]_vars
  BY NextSealed
<1> QED
  BY <1>1, TypeCorrect, PTL DEF Spec, SealedPeriods

LEMMA HappenedStays ==
  ASSUME NEW old, NEW new, Stamped(old, new), NEW s \in Sources, NEW d, HappenedBy(old[s], d)
  PROVE  HappenedBy(new[s], d)
BY DEF Stamped, HappenedBy

LEMMA OldPeriodsClassified ==
  ASSUME TypeOK, ClosedIsClassified, Next, NEW p \in closed, NEW s \in Documents,
         NeedsClassification(s)', posted'[s] \in p[1]..p[2]
  PROVE  HappenedBy(reversed'[s], p[2]) \/ HappenedBy(corrected'[s], p[2])
<1>1. s \in Sources
  BY DEF Sources
<1>2. posted[s] = posted'[s] /\ posted[s] # 0
  BY <1>1, SourcesStamped, ClosedDays DEF Stamped
<1>3. NeedsClassification(s)
  BY <1>2, SourcesStamped DEF NeedsClassification
<1>4. HappenedBy(reversed[s], p[2]) \/ HappenedBy(corrected[s], p[2])
  BY <1>2, <1>3 DEF ClosedIsClassified
<1> QED
  BY <1>1, <1>4, SourcesStamped, HappenedStays

LEMMA NewPeriodClassified ==
  ASSUME TypeOK, NEW first \in Days, NEW last \in Days, ClosePeriod(first, last),
         NEW s \in Documents, NeedsClassification(s)', posted'[s] \in first..last
  PROVE  HappenedBy(reversed'[s], last) \/ HappenedBy(corrected'[s], last)
<1>1. /\ posted' = posted /\ reversed' = reversed /\ corrected' = corrected /\ kind' = kind
      /\ ~ Unclassified(s, last)
  BY DEF ClosePeriod, undoing, classifying
<1>2. posted[s] # 0 /\ posted[s] <= last
  BY <1>1 DEF Days
<1> QED
  BY <1>1, <1>2 DEF Unclassified, NeedsClassification, HappenedBy

LEMMA ClosesOnly ==
  ASSUME Next
  PROVE  closed' = closed \/ \E first, last \in Days : ClosePeriod(first, last)
BY DEF Next, Tick, ReverseInvoice, PostInvoice, ReversePayment, PostPayment, ReverseDeposit,
       ReceiveDeposit, Classify, CollectPayment, ApplyDeposit, Allocate, AllocateTo, Reverse,
       ReverseApplication, ReverseAllocation, ReverseCredit, CreditNote, EnterDocument

LEMMA NextClassified ==
  ASSUME TypeOK, ClosedIsClassified, [Next]_vars
  PROVE  ClosedIsClassified'
<1>1. CASE UNCHANGED vars
  BY <1>1 DEF vars, ClosedIsClassified, NeedsClassification, HappenedBy, undoing, classifying
<1>2. CASE Next
  <2>1. ASSUME NEW p \in closed', NEW s \in Documents,
               NeedsClassification(s)', posted'[s] \in p[1]..p[2]
        PROVE  HappenedBy(reversed'[s], p[2]) \/ HappenedBy(corrected'[s], p[2])
    <3>1. CASE p \in closed
      BY <1>2, <2>1, <3>1, OldPeriodsClassified
    <3>2. CASE p \notin closed
      <4>1. PICK first \in Days, last \in Days : ClosePeriod(first, last)
        BY <1>2, <2>1, <3>2, ClosesOnly
      <4>2. p = <<first, last>>
        BY <2>1, <3>2, <4>1 DEF ClosePeriod
      <4>3. p[1] = first /\ p[2] = last
        BY <4>2
      <4> QED
        BY <2>1, <4>1, <4>3, NewPeriodClassified
    <3> QED
      BY <3>1, <3>2
  <2> QED
    BY <2>1 DEF ClosedIsClassified, HappenedBy
<1> QED
  BY <1>1, <1>2

(* Nothing dated in a closed period is ever pending at its end. *)
THEOREM ClosedStaysClassified == Spec => []ClosedIsClassified
<1>1. Init => ClosedIsClassified
  BY DEF Init, ClosedIsClassified
<1>2. TypeOK /\ ClosedIsClassified /\ [Next]_vars => ClosedIsClassified'
  BY NextClassified
<1> QED
  BY <1>1, <1>2, TypeCorrect, PTL DEF Spec

-----------------------------------------------------------------------------
(* What the journal holds of a source *)

(* What s was entered as, and what a correction of it must say. *)
EntryOf(s) ==
  IF s \in Invoices
    THEN Transfer(amount[s], "receivable", IF kind[s] = "governed" THEN "revenue" ELSE "invoices_pending")
  ELSE IF s \in Payments
    THEN Transfer(amount[s], IF kind[s] = "raw" THEN "receipts_pending" ELSE "cash", HeldAs(s))
  ELSE IF s \in Allocations THEN Transfer(amount[s], HeldAs(paymentOf[s]), "receivable")
  ELSE Transfer(amount[s], "revenue", "receivable")

CorrectionOf(s) ==
  IF s \in Invoices THEN Transfer(amount[s], "invoices_pending", "revenue")
                    ELSE Transfer(amount[s], "cash", "receipts_pending")

(* An entry is there when it is dated, and says what its source is. *)
EntryOK(s) ==
  IF posted[s] = 0 THEN entry[s] = Blank /\ reversed[s] = 0 /\ corrected[s] = 0 /\ amount[s] = 0
                        /\ (s \in Documents => kind[s] = "none")
  ELSE /\ entry[s] = EntryOf(s)
       /\ s \in Invoices => kind[s] \in {"raw", "governed"}
       /\ s \in Payments => kind[s] \in {"raw", "collected", "deposit"}

LinkOK(s) ==
  posted[s] # 0 =>
    /\ s \in Allocations \cup Notes => invoiceOf[s] \in Invoices
    /\ s \in Allocations => paymentOf[s] \in Payments /\ posted[paymentOf[s]] # 0

MirrorOK(s) == IF reversed[s] = 0 THEN mirror[s] = Blank ELSE mirror[s] = Undo(s)

CorrectionOK(s) ==
  IF corrected[s] = 0 THEN correction[s] = Blank
  ELSE NeedsClassification(s) /\ correction[s] = CorrectionOf(s)

SourceOK(s) == EntryOK(s) /\ LinkOK(s) /\ MirrorOK(s) /\ CorrectionOK(s)

JournalOK == \A s \in Sources : SourceOK(s)

(* Nothing of s is touched. *)
Same(s) ==
  /\ amount'[s] = amount[s] /\ posted'[s] = posted[s] /\ reversed'[s] = reversed[s]
  /\ corrected'[s] = corrected[s] /\ entry'[s] = entry[s] /\ mirror'[s] = mirror[s]
  /\ correction'[s] = correction[s]
  /\ s \in Documents => kind'[s] = kind[s]
  /\ s \in Allocations \cup Notes => invoiceOf'[s] = invoiceOf[s]
  /\ s \in Allocations => paymentOf'[s] = paymentOf[s]

(* What is posted keeps its kind. *)
KindsKept == \A p \in Payments : posted[p] # 0 => kind'[p] = kind[p] /\ posted'[p] # 0

LEMMA DocumentsAreSources ==
  /\ Invoices \subseteq Documents /\ Payments \subseteq Documents /\ Documents \subseteq Sources
  /\ Allocations \subseteq Sources /\ Notes \subseteq Sources
  /\ \A s \in Documents : s \notin Allocations \cup Notes
  /\ \A s \in Allocations \cup Notes : s \notin Invoices /\ s \notin Payments /\ s \notin Documents
  /\ \A s \in Notes : s \notin Allocations
  /\ \A s \in Payments : s \notin Invoices
BY SourcesAreDistinct DEF Documents, Sources

LEMMA KeepsKinds ==
  ASSUME TypeOK, [Next]_vars
  PROVE  KindsKept
<1>1. CASE UNCHANGED vars
  BY <1>1 DEF vars, KindsKept
<1>2. CASE Next
  BY <1>2, SourcesStamped, DocumentsAreSources DEF KindsKept, Stamped
<1> QED
  BY <1>1, <1>2

LEMMA SameStaysOK ==
  ASSUME NEW s \in Sources, SourceOK(s), Same(s), KindsKept
  PROVE  SourceOK(s)'
<1> USE DocumentsAreSources DEF Same
<1>1. s \in Allocations /\ posted[s] # 0 => HeldAs(paymentOf[s])' = HeldAs(paymentOf[s])
  BY DEF SourceOK, LinkOK, KindsKept, HeldAs
<1>2. s \in Payments => HeldAs(s)' = HeldAs(s)
  BY DEF HeldAs
<1>3. posted[s] # 0 => EntryOf(s)' = EntryOf(s)
  BY <1>1, <1>2 DEF EntryOf, Transfer, Accounts
<1>4. EntryOK(s)'
  BY <1>3 DEF SourceOK, EntryOK
<1>5. LinkOK(s)'
  BY DEF SourceOK, LinkOK, KindsKept
<1>6. MirrorOK(s)'
  BY DEF SourceOK, MirrorOK, Undo
<1>7. CorrectionOK(s)'
  BY DEF SourceOK, CorrectionOK, CorrectionOf, NeedsClassification
<1> QED
  BY <1>4, <1>5, <1>6, <1>7 DEF SourceOK

LEMMA EnterDocumentOK ==
  ASSUME TypeOK, JournalOK, NEW s \in Documents, NEW k, NEW n, NEW d \in Days, NEW l,
         EnterDocument(s, k, n, d, l), KindsKept,
         EntryOf(s)' = l,
         s \in Invoices => k \in {"raw", "governed"},
         s \in Payments => k \in {"raw", "collected", "deposit"}
  PROVE  JournalOK'
<1> USE DocumentsAreSources DEF TypeOK
<1>1. /\ amount' = [amount EXCEPT ![s] = n] /\ posted' = [posted EXCEPT ![s] = d]
      /\ entry' = [entry EXCEPT ![s] = l] /\ kind' = [kind EXCEPT ![s] = k]
      /\ UNCHANGED <<invoiceOf, paymentOf, reversed, mirror, corrected, correction>>
      /\ posted[s] = 0
  BY DEF EnterDocument, Enter, links, undoing, classifying
<1>2. ASSUME NEW t \in Sources, t # s  PROVE SourceOK(t)'
  <2>1. Same(t)
    BY <1>1, <1>2 DEF Same
  <2> QED
    BY <2>1, SameStaysOK DEF JournalOK
<1>3. SourceOK(s)'
  <2>1. EntryOK(s) /\ MirrorOK(s) /\ CorrectionOK(s)
    BY DEF JournalOK, SourceOK
  <2>2. d # 0 /\ posted'[s] = d /\ entry'[s] = l /\ kind'[s] = k
    BY <1>1 DEF Days
  <2>3. EntryOK(s)'
    BY <2>2 DEF EntryOK
  <2>4. LinkOK(s)'
    BY DEF LinkOK
  <2>5. MirrorOK(s)' /\ CorrectionOK(s)'
    BY <1>1, <2>1 DEF EntryOK, MirrorOK, CorrectionOK
  <2> QED
    BY <2>3, <2>4, <2>5 DEF SourceOK
<1> QED
  BY <1>2, <1>3 DEF JournalOK

LEMMA ReverseOK ==
  ASSUME TypeOK, JournalOK, NEW s \in Sources, NEW d \in Days, NEW l, Reverse(s, d, l), KindsKept,
         l = Undo(s) \/ (l = Swap(s) /\ (s \in Documents => kind[s] # "raw"))
  PROVE  JournalOK'
<1> USE DEF TypeOK
<1>1. /\ reversed' = [reversed EXCEPT ![s] = d] /\ mirror' = [mirror EXCEPT ![s] = l]
      /\ UNCHANGED <<kind, amount, invoiceOf, paymentOf, posted, entry, corrected, correction>>
      /\ posted[s] # 0
  BY DEF Reverse, links, classifying, Live
<1>2. ASSUME NEW t \in Sources, t # s  PROVE SourceOK(t)'
  <2>1. Same(t)
    BY <1>1, <1>2 DEF Same
  <2> QED
    BY <2>1, SameStaysOK DEF JournalOK
<1>3. SourceOK(s)
  BY DEF JournalOK
<1>4. l = Undo(s)
  <2>1. ASSUME s \in Documents => kind[s] # "raw"  PROVE Swap(s) = Undo(s)
    <3>1. correction[s] = Blank
      BY <1>3, <2>1 DEF SourceOK, CorrectionOK, NeedsClassification
    <3>2. \A x \in Accounts : correction[s][x] = 0 /\ entry[s][x] \in Int
      BY <3>1 DEF Blank, Lines
    <3> QED
      BY <3>2 DEF Swap, Undo
  <2> QED
    BY <2>1
<1>5. MirrorOK(s)'
  <2>1. d # 0 /\ reversed'[s] = d /\ mirror'[s] = Undo(s)
    BY <1>1, <1>4 DEF Days
  <2>2. Undo(s)' = Undo(s)
    BY <1>1 DEF Undo
  <2> QED
    BY <2>1, <2>2 DEF MirrorOK
<1>6. EntryOK(s)'
  <2>1. EntryOf(s)' = EntryOf(s)
    BY <1>1 DEF EntryOf, HeldAs
  <2> QED
    BY <1>1, <1>3, <2>1 DEF EntryOK, SourceOK
<1>7. LinkOK(s)' /\ CorrectionOK(s)'
  BY <1>1, <1>3 DEF SourceOK, LinkOK, CorrectionOK, CorrectionOf, NeedsClassification
<1> QED
  BY <1>2, <1>5, <1>6, <1>7 DEF JournalOK, SourceOK

(* An allocation or a credit note, once it is entered. *)
LEMMA PaperOK ==
  ASSUME NEW s \in Allocations \cup Notes, EntryOK(s), MirrorOK(s), CorrectionOK(s),
         posted[s] = 0, posted'[s] # 0,
         UNCHANGED <<reversed, mirror, corrected, correction>>,
         entry'[s] = EntryOf(s)', invoiceOf'[s] \in Invoices,
         s \in Allocations => paymentOf'[s] \in Payments /\ posted'[paymentOf'[s]] # 0
  PROVE  SourceOK(s)'
<1> USE DocumentsAreSources
<1>1. EntryOK(s)'
  BY DEF EntryOK
<1>2. LinkOK(s)'
  BY DEF LinkOK
<1>3. MirrorOK(s)' /\ CorrectionOK(s)'
  BY DEF EntryOK, MirrorOK, CorrectionOK
<1> QED
  BY <1>1, <1>2, <1>3 DEF SourceOK

LEMMA AllocateOK ==
  ASSUME TypeOK, JournalOK, KindsKept, NEW a \in Allocations, NEW i \in Invoices, NEW p \in Payments,
         NEW n, NEW d \in Days, NEW x, x = HeldAs(p),
         Enter(a, n, d, Transfer(n, x, "receivable")), AllocateTo(a, i, p, n)
  PROVE  JournalOK'
<1> USE DocumentsAreSources DEF TypeOK
<1>1. /\ amount' = [amount EXCEPT ![a] = n] /\ posted' = [posted EXCEPT ![a] = d]
      /\ entry' = [entry EXCEPT ![a] = Transfer(n, x, "receivable")] /\ posted[a] = 0
  BY DEF Enter
<1>2. /\ UNCHANGED <<kind, reversed, mirror, corrected, correction>>
      /\ invoiceOf' = [invoiceOf EXCEPT ![a] = i] /\ paymentOf' = [paymentOf EXCEPT ![a] = p]
      /\ posted[p] # 0
  BY DEF AllocateTo, undoing, classifying, Live
<1>3. ASSUME NEW t \in Sources, t # a  PROVE SourceOK(t)'
  <2>1. Same(t)
    BY <1>1, <1>2, <1>3 DEF Same
  <2> QED
    BY <2>1, SameStaysOK DEF JournalOK
<1>4. SourceOK(a)'
  <2>1. EntryOK(a) /\ MirrorOK(a) /\ CorrectionOK(a)
    BY DEF JournalOK, SourceOK
  <2>2. /\ posted'[a] # 0 /\ posted'[p] # 0 /\ paymentOf'[a] = p /\ invoiceOf'[a] = i
        /\ amount'[a] = n /\ entry'[a] = Transfer(n, x, "receivable")
    BY <1>1, <1>2 DEF Days
  <2>3. HeldAs(p)' = x
    BY <1>2 DEF HeldAs
  <2>4. entry'[a] = EntryOf(a)'
    BY <2>2, <2>3 DEF EntryOf, HeldAs
  <2> QED
    BY <1>1, <1>2, <2>1, <2>2, <2>4, PaperOK
<1> QED
  BY <1>3, <1>4 DEF JournalOK

LEMMA CreditOK ==
  ASSUME TypeOK, JournalOK, KindsKept, NEW c \in Notes, NEW i \in Invoices, NEW n, CreditNote(c, i, n)
  PROVE  JournalOK'
<1> USE DocumentsAreSources DEF TypeOK
<1>1. /\ amount' = [amount EXCEPT ![c] = n] /\ posted' = [posted EXCEPT ![c] = today]
      /\ entry' = [entry EXCEPT ![c] = Transfer(n, "revenue", "receivable")] /\ posted[c] = 0
      /\ UNCHANGED <<kind, paymentOf, reversed, mirror, corrected, correction>>
      /\ invoiceOf' = [invoiceOf EXCEPT ![c] = i]
  BY DEF CreditNote, Enter, undoing, classifying
<1>2. ASSUME NEW t \in Sources, t # c  PROVE SourceOK(t)'
  <2>1. Same(t)
    BY <1>1, <1>2 DEF Same
  <2> QED
    BY <2>1, SameStaysOK DEF JournalOK
<1>3. SourceOK(c)'
  <2>1. EntryOK(c) /\ MirrorOK(c) /\ CorrectionOK(c)
    BY DEF JournalOK, SourceOK
  <2>2. /\ posted'[c] # 0 /\ invoiceOf'[c] = i /\ amount'[c] = n
        /\ entry'[c] = Transfer(n, "revenue", "receivable")
    BY <1>1 DEF Days
  <2>3. entry'[c] = EntryOf(c)'
    BY <2>2 DEF EntryOf
  <2> QED
    BY <1>1, <2>1, <2>2, <2>3, PaperOK
<1> QED
  BY <1>2, <1>3 DEF JournalOK

LEMMA ClassifyOK ==
  ASSUME TypeOK, JournalOK, KindsKept, NEW s \in Documents, NEW d \in Days, Classify(s, d)
  PROVE  JournalOK'
<1> USE DocumentsAreSources DEF TypeOK
<1>1. /\ corrected' = [corrected EXCEPT ![s] = d]
      /\ correction' = [correction EXCEPT ![s] = CorrectionOf(s)]
      /\ UNCHANGED <<kind, amount, invoiceOf, paymentOf, posted, entry, reversed, mirror>>
      /\ NeedsClassification(s) /\ reversed[s] = 0
  BY DEF Classify, CorrectionOf, links, undoing
<1>2. ASSUME NEW t \in Sources, t # s  PROVE SourceOK(t)'
  <2>1. Same(t)
    BY <1>1, <1>2 DEF Same
  <2> QED
    BY <2>1, SameStaysOK DEF JournalOK
<1>3. SourceOK(s)
  BY DEF JournalOK
<1>4. posted[s] # 0
  BY <1>1, <1>3 DEF SourceOK, EntryOK, NeedsClassification
<1>5. EntryOK(s)'
  <2>1. EntryOf(s)' = EntryOf(s)
    BY <1>1 DEF EntryOf, HeldAs
  <2> QED
    BY <1>1, <1>3, <1>4, <2>1 DEF SourceOK, EntryOK
<1>6. LinkOK(s)' /\ MirrorOK(s)'
  BY <1>1, <1>3 DEF SourceOK, LinkOK, MirrorOK
<1>7. CorrectionOK(s)'
  <2>1. /\ corrected'[s] # 0 /\ correction'[s] = CorrectionOf(s)
        /\ CorrectionOf(s)' = CorrectionOf(s) /\ NeedsClassification(s)'
    BY <1>1 DEF Days, CorrectionOf, NeedsClassification
  <2> QED
    BY <2>1 DEF CorrectionOK
<1> QED
  BY <1>2, <1>5, <1>6, <1>7 DEF JournalOK, SourceOK

LEMMA CollectOK ==
  ASSUME TypeOK, JournalOK, KindsKept, NEW p \in Payments, NEW a \in Allocations, NEW i \in Invoices,
         CollectPayment(p, a, i)
  PROVE  JournalOK'
<1> DEFINE n == Due(i)
<1> USE DocumentsAreSources DEF TypeOK
<1>1. /\ amount' = [amount EXCEPT ![p] = n, ![a] = n]
      /\ posted' = [posted EXCEPT ![p] = today, ![a] = today]
      /\ entry' = [entry EXCEPT ![p] = Transfer(n, "cash", "unapplied"),
                                ![a] = Transfer(n, "unapplied", "receivable")]
      /\ kind' = [kind EXCEPT ![p] = "collected"]
      /\ invoiceOf' = [invoiceOf EXCEPT ![a] = i] /\ paymentOf' = [paymentOf EXCEPT ![a] = p]
      /\ UNCHANGED <<reversed, mirror, corrected, correction>>
      /\ posted[p] = 0 /\ posted[a] = 0 /\ today # 0
  BY DEF CollectPayment, undoing, classifying, Days
<1> HIDE DEF n
<1>2. p # a
  OBVIOUS
<1>3. /\ amount'[p] = n /\ posted'[p] = today /\ kind'[p] = "collected"
      /\ entry'[p] = Transfer(n, "cash", "unapplied")
  BY <1>1, <1>2
<1>4. /\ amount'[a] = n /\ posted'[a] = today /\ invoiceOf'[a] = i /\ paymentOf'[a] = p
      /\ entry'[a] = Transfer(n, "unapplied", "receivable")
  BY <1>1
<1>5. ASSUME NEW t \in Sources, t # a, t # p  PROVE SourceOK(t)'
  <2>1. Same(t)
    BY <1>1, <1>5 DEF Same
  <2> QED
    BY <2>1, SameStaysOK DEF JournalOK
<1>6. HeldAs(p)' = "unapplied"
  BY <1>3 DEF HeldAs
<1>7. SourceOK(a)'
  <2>1. EntryOK(a) /\ MirrorOK(a) /\ CorrectionOK(a)
    BY DEF JournalOK, SourceOK
  <2>2. entry'[a] = EntryOf(a)'
    BY <1>4, <1>6 DEF EntryOf, HeldAs
  <2> QED
    BY <1>1, <1>3, <1>4, <2>1, <2>2, PaperOK
<1>8. SourceOK(p)'
  <2>1. EntryOK(p) /\ MirrorOK(p) /\ CorrectionOK(p)
    BY DEF JournalOK, SourceOK
  <2>2. entry'[p] = EntryOf(p)'
    BY <1>3, <1>6 DEF EntryOf
  <2>3. EntryOK(p)' /\ LinkOK(p)'
    BY <1>1, <1>3, <2>2 DEF EntryOK, LinkOK
  <2>4. MirrorOK(p)' /\ CorrectionOK(p)'
    BY <1>1, <2>1 DEF EntryOK, MirrorOK, CorrectionOK
  <2> QED
    BY <2>3, <2>4 DEF SourceOK
<1> QED
  BY <1>5, <1>7, <1>8 DEF JournalOK

LEMMA JournalInit == Init => JournalOK
<1> SUFFICES ASSUME Init, NEW s \in Sources  PROVE SourceOK(s)
  BY DEF JournalOK
<1> QED
  BY DEF Init, SourceOK, EntryOK, LinkOK, MirrorOK, CorrectionOK

LEMMA DocumentsJournal ==
  ASSUME TypeOK, JournalOK, KindsKept, NEW n \in Amounts, NEW d \in Days,
         \/ \E i \in Invoices, k \in {"raw", "governed"} : PostInvoice(i, k, n, d)
         \/ \E p \in Payments : PostPayment(p, n, d) \/ ReceiveDeposit(p, n)
  PROVE  JournalOK'
<1> USE DocumentsAreSources DEF TypeOK
<1>1. ASSUME NEW i \in Invoices, NEW k \in {"raw", "governed"}, PostInvoice(i, k, n, d)
      PROVE  JournalOK'
  <2> DEFINE l == Transfer(n, "receivable", IF k = "governed" THEN "revenue" ELSE "invoices_pending")
  <2>1. EnterDocument(i, k, n, d, l)
    BY <1>1 DEF PostInvoice
  <2>2. amount'[i] = n /\ kind'[i] = k
    BY <2>1 DEF EnterDocument, Enter
  <2>3. EntryOf(i)' = l
    BY <2>2 DEF EntryOf
  <2> HIDE DEF l
  <2> QED
    BY <2>1, <2>3, EnterDocumentOK
<1>2. ASSUME NEW p \in Payments, PostPayment(p, n, d)  PROVE JournalOK'
  <2>1. EnterDocument(p, "raw", n, d, Transfer(n, "receipts_pending", "unapplied"))
    BY <1>2 DEF PostPayment
  <2>2. amount'[p] = n /\ kind'[p] = "raw"
    BY <2>1 DEF EnterDocument, Enter
  <2>3. EntryOf(p)' = Transfer(n, "receipts_pending", "unapplied")
    BY <2>2 DEF EntryOf, HeldAs
  <2> QED
    BY <2>1, <2>3, EnterDocumentOK
<1>3. ASSUME NEW p \in Payments, ReceiveDeposit(p, n)  PROVE JournalOK'
  <2>1. EnterDocument(p, "deposit", n, today, Transfer(n, "cash", "advances"))
    BY <1>3 DEF ReceiveDeposit
  <2>2. amount'[p] = n /\ kind'[p] = "deposit"
    BY <2>1 DEF EnterDocument, Enter
  <2>3. EntryOf(p)' = Transfer(n, "cash", "advances")
    BY <2>2 DEF EntryOf, HeldAs
  <2> QED
    BY <2>1, <2>3, EnterDocumentOK
<1> QED
  BY <1>1, <1>2, <1>3

LEMMA ReversalsJournal ==
  ASSUME TypeOK, JournalOK, KindsKept, NEW d \in Days,
         \/ \E i \in Invoices : ReverseInvoice(i, d)
         \/ \E p \in Payments : ReversePayment(p, d) \/ ReverseDeposit(p)
         \/ \E a \in Allocations : ReverseAllocation(a, d) \/ ReverseApplication(a)
         \/ \E c \in Notes : ReverseCredit(c)
  PROVE  JournalOK'
<1>1. today \in Days
  BY DEF TypeOK
<1>2. ASSUME NEW s \in Sources, NEW e \in Days, Reverse(s, e, Undo(s))  PROVE JournalOK'
  BY <1>2, ReverseOK
<1>3. ASSUME NEW s \in Sources, NEW e \in Days, Reverse(s, e, Swap(s)),
             s \in Documents => kind[s] # "raw"
      PROVE  JournalOK'
  BY <1>3, ReverseOK
<1>4. ASSUME NEW i \in Invoices, ReverseInvoice(i, d)  PROVE JournalOK'
  BY <1>2, <1>4, DocumentsAreSources DEF ReverseInvoice
<1>5. ASSUME NEW p \in Payments, ReversePayment(p, d) \/ ReverseDeposit(p)  PROVE JournalOK'
  BY <1>1, <1>2, <1>3, <1>5, DocumentsAreSources DEF ReversePayment, ReverseDeposit
<1>6. ASSUME NEW a \in Allocations, ReverseAllocation(a, d) \/ ReverseApplication(a)
      PROVE  JournalOK'
  BY <1>1, <1>2, <1>3, <1>6, DocumentsAreSources DEF ReverseAllocation, ReverseApplication
<1>7. ASSUME NEW c \in Notes, ReverseCredit(c)  PROVE JournalOK'
  BY <1>1, <1>3, <1>7, DocumentsAreSources DEF ReverseCredit
<1> QED
  BY <1>4, <1>5, <1>6, <1>7

LEMMA AllocationsJournal ==
  ASSUME TypeOK, JournalOK, KindsKept,
         NEW a \in Allocations, NEW i \in Invoices, NEW p \in Payments, NEW n \in Amounts,
         ApplyDeposit(a, i, p, n) \/ \E d \in Days : Allocate(a, i, p, n, d)
  PROVE  JournalOK'
<1>1. CASE ApplyDeposit(a, i, p, n)
  <2>1. today \in Days /\ HeldAs(p) = "advances"
    BY <1>1 DEF TypeOK, ApplyDeposit, HeldAs
  <2> QED
    BY <1>1, <2>1, AllocateOK DEF ApplyDeposit
<1>2. ASSUME NEW d \in Days, Allocate(a, i, p, n, d)  PROVE JournalOK'
  <2>1. HeldAs(p) = "unapplied"
    BY <1>2 DEF Allocate, HeldAs
  <2> QED
    BY <1>2, <2>1, AllocateOK DEF Allocate
<1> QED
  BY <1>1, <1>2

LEMMA UntouchedJournal ==
  ASSUME JournalOK, KindsKept,
         UNCHANGED <<kind, amount, invoiceOf, paymentOf, posted, reversed, corrected, entry,
                     mirror, correction>>
  PROVE  JournalOK'
<1>1. \A s \in Sources : Same(s)
  BY DEF Same
<1> QED
  BY <1>1, SameStaysOK DEF JournalOK

LEMMA NextJournal ==
  ASSUME TypeOK, JournalOK, [Next]_vars
  PROVE  JournalOK'
<1>1. KindsKept
  BY KeepsKinds
<1>2. CASE UNCHANGED vars
  BY <1>1, <1>2, UntouchedJournal DEF vars, links, undoing, classifying
<1>3. CASE Tick \/ \E first, last \in Days : ClosePeriod(first, last)
  BY <1>1, <1>3, UntouchedJournal DEF Tick, ClosePeriod, links, undoing, classifying
<1>4. ASSUME NEW i \in Invoices, NEW d \in Days,
             ReverseInvoice(i, d) \/ \E k \in {"raw", "governed"}, n \in Amounts : PostInvoice(i, k, n, d)
      PROVE  JournalOK'
  BY <1>1, <1>4, DocumentsJournal, ReversalsJournal
<1>5. ASSUME NEW p \in Payments,
             \/ ReverseDeposit(p) \/ \E n \in Amounts : ReceiveDeposit(p, n)
             \/ \E d \in Days : ReversePayment(p, d) \/ \E n \in Amounts : PostPayment(p, n, d)
      PROVE  JournalOK'
  <2>1. today \in Days
    BY DEF TypeOK
  <2> QED
    BY <1>1, <1>5, <2>1, DocumentsJournal, ReversalsJournal
<1>6. ASSUME NEW s \in Documents, NEW d \in Days, Classify(s, d)  PROVE JournalOK'
  BY <1>1, <1>6, ClassifyOK
<1>7. ASSUME NEW a \in Allocations, NEW i \in Invoices, NEW p \in Payments,
             \/ CollectPayment(p, a, i)
             \/ \E n \in Amounts : ApplyDeposit(a, i, p, n) \/ \E d \in Days : Allocate(a, i, p, n, d)
      PROVE  JournalOK'
  BY <1>1, <1>7, CollectOK, AllocationsJournal
<1>8. ASSUME NEW a \in Allocations, ReverseApplication(a) \/ \E d \in Days : ReverseAllocation(a, d)
      PROVE  JournalOK'
  <2>1. today \in Days
    BY DEF TypeOK
  <2> QED
    BY <1>1, <1>8, <2>1, ReversalsJournal
<1>9. ASSUME NEW c \in Notes, ReverseCredit(c) \/ \E i \in Invoices, n \in Amounts : CreditNote(c, i, n)
      PROVE  JournalOK'
  <2>1. today \in Days
    BY DEF TypeOK
  <2> QED
    BY <1>1, <1>9, <2>1, ReversalsJournal, CreditOK
<1> QED
  BY <1>2, <1>3, <1>4, <1>5, <1>6, <1>7, <1>8, <1>9 DEF Next

LEMMA JournalKept == Spec => []JournalOK
<1> QED
  BY JournalInit, NextJournal, TypeCorrect, PTL DEF Spec

(* What entry, mirror and correction of a source come to. *)
LEMMA SumOfLines ==
  ASSUME TypeOK, NEW s \in Sources, SourceOK(s), NEW debit, NEW credit,
         posted[s] # 0 => \A x \in Accounts :
           entry[s][x] + correction[s][x] = Transfer(amount[s], debit, credit)[x]
  PROVE  Booked(s, debit, credit)
<1>1. \A x \in Accounts : entry[s][x] \in Int /\ correction[s][x] \in Int /\ mirror[s][x] \in Int
  BY DEF TypeOK, Lines
<1>2. CASE posted[s] = 0
  <2>1. \A x \in Accounts : entry[s][x] = 0 /\ correction[s][x] = 0 /\ mirror[s][x] = 0
    BY <1>2 DEF SourceOK, EntryOK, MirrorOK, CorrectionOK, Blank
  <2> QED
    BY <1>2, <2>1 DEF Booked, Live, Blank
<1>3. CASE posted[s] # 0 /\ reversed[s] = 0
  <2>1. \A x \in Accounts : mirror[s][x] = 0
    BY <1>3 DEF SourceOK, MirrorOK, Blank
  <2>2. \A x \in Accounts :
          entry[s][x] + mirror[s][x] + correction[s][x] = Transfer(amount[s], debit, credit)[x]
    BY <1>1, <1>3, <2>1
  <2> QED
    BY <1>3, <2>2 DEF Booked, Live, Transfer
<1>4. CASE posted[s] # 0 /\ reversed[s] # 0
  <2>1. \A x \in Accounts : mirror[s][x] = -(entry[s][x] + correction[s][x])
    BY <1>4 DEF SourceOK, MirrorOK, Undo
  <2>2. \A x \in Accounts : entry[s][x] + mirror[s][x] + correction[s][x] = 0
    BY <1>1, <2>1
  <2> QED
    BY <1>4, <2>2 DEF Booked, Live, Blank
<1> QED
  BY <1>2, <1>3, <1>4

LEMMA JournalBooks == TypeOK /\ JournalOK => SourcesInBooks
<1> SUFFICES ASSUME TypeOK, JournalOK  PROVE SourcesInBooks
  OBVIOUS
<1> USE DocumentsAreSources
<1>1. ASSUME NEW s \in Sources
      PROVE  SourceOK(s) /\ amount[s] \in Int
  BY BoundsArePositive DEF JournalOK, TypeOK
<1>2. ASSUME NEW s \in Sources, corrected[s] = 0 \/ ~ NeedsClassification(s)
      PROVE  \A x \in Accounts : correction[s][x] = 0
  BY <1>1, <1>2 DEF SourceOK, CorrectionOK, Blank
<1>3. ASSUME NEW i \in Invoices
      PROVE  Booked(i, "receivable", IF Pending(i) THEN "invoices_pending" ELSE "revenue")
  <2> DEFINE c == IF Pending(i) THEN "invoices_pending" ELSE "revenue"
  <2>1. ASSUME posted[i] # 0, NEW x \in Accounts
        PROVE  entry[i][x] + correction[i][x] = Transfer(amount[i], "receivable", c)[x]
    <3>1. /\ kind[i] \in {"raw", "governed"}
          /\ entry[i] = Transfer(amount[i], "receivable",
                          IF kind[i] = "governed" THEN "revenue" ELSE "invoices_pending")
      BY <1>1, <2>1 DEF SourceOK, EntryOK, EntryOf
    <3>2. CASE corrected[i] = 0 \/ ~ NeedsClassification(i)
      <4>1. correction[i][x] = 0 /\ entry[i][x] = Transfer(amount[i], "receivable", c)[x]
        BY <1>2, <3>1, <3>2 DEF Pending, NeedsClassification
      <4>2. Transfer(amount[i], "receivable", c)[x] \in Int
        BY <1>1 DEF Transfer
      <4> QED
        BY <4>1, <4>2
    <3>3. CASE corrected[i] # 0 /\ NeedsClassification(i)
      <4>1. /\ entry[i] = Transfer(amount[i], "receivable", "invoices_pending")
            /\ correction[i] = Transfer(amount[i], "invoices_pending", "revenue")
            /\ c = "revenue"
        BY <1>1, <3>1, <3>3 DEF SourceOK, CorrectionOK, CorrectionOf, NeedsClassification, Pending
      <4> HIDE DEF c
      <4> QED
        BY <1>1, <4>1 DEF Transfer
    <3> QED
      BY <3>2, <3>3
  <2> HIDE DEF c
  <2>2. Booked(i, "receivable", c)
    BY <1>1, <2>1, SumOfLines
  <2> QED
    BY <2>2 DEF c
<1>4. ASSUME NEW p \in Payments
      PROVE  Booked(p, IF Pending(p) THEN "receipts_pending" ELSE "cash", HeldAs(p))
  <2> DEFINE c == IF Pending(p) THEN "receipts_pending" ELSE "cash"
  <2>1. ASSUME posted[p] # 0, NEW x \in Accounts
        PROVE  entry[p][x] + correction[p][x] = Transfer(amount[p], c, HeldAs(p))[x]
    <3>1. entry[p] = Transfer(amount[p], IF kind[p] = "raw" THEN "receipts_pending" ELSE "cash",
                              HeldAs(p))
      BY <1>1, <2>1 DEF SourceOK, EntryOK, EntryOf
    <3>2. CASE corrected[p] = 0 \/ ~ NeedsClassification(p)
      <4>1. correction[p][x] = 0 /\ entry[p][x] = Transfer(amount[p], c, HeldAs(p))[x]
        BY <1>2, <3>1, <3>2 DEF Pending, NeedsClassification
      <4>2. Transfer(amount[p], c, HeldAs(p))[x] \in Int
        BY <1>1 DEF Transfer
      <4> QED
        BY <4>1, <4>2
    <3>3. CASE corrected[p] # 0 /\ NeedsClassification(p)
      <4>1. /\ entry[p] = Transfer(amount[p], "receipts_pending", "unapplied")
            /\ correction[p] = Transfer(amount[p], "cash", "receipts_pending")
            /\ c = "cash" /\ HeldAs(p) = "unapplied"
        BY <1>1, <3>1, <3>3
           DEF SourceOK, CorrectionOK, CorrectionOf, NeedsClassification, Pending, HeldAs
      <4> HIDE DEF c
      <4> QED
        BY <1>1, <4>1 DEF Transfer
    <3> QED
      BY <3>2, <3>3
  <2> HIDE DEF c
  <2>2. Booked(p, c, HeldAs(p))
    BY <1>1, <2>1, SumOfLines
  <2> QED
    BY <2>2 DEF c
<1>5. ASSUME NEW s \in Allocations \cup Notes, NEW c, NEW d,
             posted[s] # 0 => entry[s] = Transfer(amount[s], c, d)
      PROVE  Booked(s, c, d)
  <2>1. \A x \in Accounts : correction[s][x] = 0
    BY <1>2 DEF NeedsClassification
  <2>2. \A x \in Accounts : Transfer(amount[s], c, d)[x] \in Int
    BY <1>1 DEF Transfer
  <2> QED
    BY <1>1, <1>5, <2>1, <2>2, SumOfLines
<1>6. \A a \in Allocations : posted[a] # 0 => Booked(a, HeldAs(paymentOf[a]), "receivable")
  <2>1. ASSUME NEW a \in Allocations, posted[a] # 0
        PROVE  entry[a] = Transfer(amount[a], HeldAs(paymentOf[a]), "receivable")
    BY <1>1, <2>1 DEF SourceOK, EntryOK, EntryOf
  <2> QED
    BY <1>5, <2>1
<1>7. \A c \in Notes : Booked(c, "revenue", "receivable")
  <2>1. ASSUME NEW c \in Notes, posted[c] # 0
        PROVE  entry[c] = Transfer(amount[c], "revenue", "receivable")
    BY <1>1, <2>1 DEF SourceOK, EntryOK, EntryOf
  <2> QED
    BY <1>5, <2>1
<1> QED
  BY <1>3, <1>4, <1>6, <1>7 DEF SourcesInBooks

(* Whatever is corrected and reversed, and in whatever order, the entries of a
   live source add up to what it means and those of a reversed one to nothing. *)
THEOREM BooksAreInOrder == Spec => []SourcesInBooks
<1> QED
  BY JournalKept, JournalBooks, TypeCorrect, PTL

-----------------------------------------------------------------------------
(* The ledger moves money as Settlement does *)

Standing(d) == IF posted[d] = 0 THEN "none" ELSE IF reversed[d] = 0 THEN "open" ELSE "void"
Rest(d) == IF d \in Invoices THEN Due(d) ELSE amount[d] - allocated[d]

Kept(D) ==
  \A d \in D : Standing(d)' = Standing(d) /\ amount'[d] = amount[d] /\ Rest(d)' = Rest(d)

(* The guards never exceed their documents, and what is entered is worth
   something. *)
MoneyOK ==
  /\ \A s \in Sources : posted[s] # 0 => amount[s] \in Amounts
  /\ \A i \in Invoices : allocated[i] + credited[i] <= amount[i]
  /\ \A p \in Payments : allocated[p] <= amount[p]

Moves == MoneyOK' /\ [Settled!Next]_(Settled!vars)

LEMMA Stutters ==
  ASSUME Kept(Documents)
  PROVE  UNCHANGED Settled!vars
BY DEF Kept, Standing, Rest, Settled!vars

LEMMA Issues ==
  ASSUME NEW d \in Documents, NEW n \in Amounts, Standing(d) = "none", Standing(d)' = "open",
         amount'[d] = n, Rest(d)' = n, Kept(Documents \ {d})
  PROVE  Settled!Next
<1>1. Settled!Issue(d, n)
  BY DEF Settled!Issue, Kept, Standing, Rest
<1> QED
  BY <1>1 DEF Settled!Next, Settled!Documents, Documents

LEMMA Voids ==
  ASSUME NEW d \in Documents, Standing(d) = "open", Standing(d)' = "void",
         amount'[d] = amount[d], Rest(d)' = Rest(d), Rest(d) = amount[d], Kept(Documents \ {d})
  PROVE  Settled!Next
<1>1. Settled!Void(d)
  BY DEF Settled!Void, Kept, Standing, Rest
<1> QED
  BY <1>1 DEF Settled!Next, Settled!Documents, Documents

LEMMA Forgives ==
  ASSUME NEW i \in Invoices, NEW n \in Amounts, Standing(i) = "open", Standing(i)' = "open",
         n <= Rest(i), Rest(i)' = Rest(i) - n, amount'[i] = amount[i], Kept(Documents \ {i})
  PROVE  Settled!Next
<1>1. Settled!Forgive(i, n)
  BY DEF Settled!Forgive, Settled!Change, Kept, Standing, Rest, Documents
<1> QED
  BY <1>1 DEF Settled!Next

LEMMA Restores ==
  ASSUME NEW i \in Invoices, NEW n \in Amounts, Standing(i) = "open", Standing(i)' = "open",
         Rest(i) + n <= amount[i], Rest(i)' = Rest(i) + n, amount'[i] = amount[i],
         Kept(Documents \ {i})
  PROVE  Settled!Next
<1>1. Settled!Restore(i, n)
  BY DEF Settled!Restore, Settled!Change, Kept, Standing, Rest, Documents
<1> QED
  BY <1>1 DEF Settled!Next

LEMMA Settles ==
  ASSUME NEW i \in Invoices, NEW p \in Payments, NEW n \in Amounts,
         Standing(i) = "open", Standing(p) = "open", Standing(i)' = "open", Standing(p)' = "open",
         amount'[i] = amount[i], amount'[p] = amount[p], n <= Rest(i), n <= Rest(p),
         Rest(i)' = Rest(i) - n, Rest(p)' = Rest(p) - n, Kept(Documents \ {i, p})
  PROVE  Settled!Next
<1>1. Settled!Settle(i, p, n)
  BY SourcesAreDistinct DEF Settled!Settle, Kept, Standing, Rest, Documents
<1> QED
  BY <1>1 DEF Settled!Next

LEMMA Unsettles ==
  ASSUME NEW i \in Invoices, NEW p \in Payments, NEW n \in Amounts,
         Standing(i) = "open", Standing(p) = "open", Standing(i)' = "open", Standing(p)' = "open",
         amount'[i] = amount[i], amount'[p] = amount[p],
         Rest(i) + n <= amount[i], Rest(p) + n <= amount[p],
         Rest(i)' = Rest(i) + n, Rest(p)' = Rest(p) + n, Kept(Documents \ {i, p})
  PROVE  Settled!Next
<1>1. Settled!Unsettle(i, p, n)
  BY SourcesAreDistinct DEF Settled!Unsettle, Kept, Standing, Rest, Documents
<1> QED
  BY <1>1 DEF Settled!Next

LEMMA PaysOff ==
  ASSUME NEW i \in Invoices, NEW p \in Payments,
         Standing(i) = "open", Standing(i)' = "open", Standing(p) = "none", Standing(p)' = "open",
         amount'[i] = amount[i], amount'[p] = Rest(i), Rest(i) > 0,
         Rest(i)' = 0, Rest(p)' = Rest(p), Kept(Documents \ {i, p})
  PROVE  Settled!Next
<1>1. Settled!PayOff(i, p)
  BY SourcesAreDistinct DEF Settled!PayOff, Kept, Standing, Rest, Documents
<1> QED
  BY <1>1 DEF Settled!Next

(* What is left of documents whose money is not touched. *)
LEMMA KeptThen ==
  ASSUME NEW D \in SUBSET Documents,
         \A d \in D : /\ posted'[d] = posted[d] /\ reversed'[d] = reversed[d]
                      /\ amount'[d] = amount[d] /\ allocated'[d] = allocated[d]
                      /\ d \in Invoices => credited'[d] = credited[d]
  PROVE  Kept(D)
BY DEF Kept, Standing, Rest, Due

LEMMA MoneyTyped ==
  ASSUME TypeOK
  PROVE  /\ \A s \in Sources : amount[s] \in Nat /\ posted[s] \in Nat /\ reversed[s] \in Nat
         /\ \A d \in Documents : allocated[d] \in Nat
         /\ \A i \in Invoices : credited[i] \in Nat
BY BoundsArePositive DEF TypeOK

(* Nothing rests on a document that is not there. *)
LEMMA NothingYet ==
  ASSUME TypeOK, JournalOK, MoneyOK, NEW d \in Documents, posted[d] = 0
  PROVE  /\ amount[d] = 0 /\ reversed[d] = 0 /\ allocated[d] = 0 /\ Standing(d) = "none"
         /\ d \in Invoices => credited[d] = 0
<1>1. amount[d] = 0 /\ reversed[d] = 0
  BY DocumentsAreSources DEF JournalOK, SourceOK, EntryOK
<1> QED
  BY <1>1, MoneyTyped, DocumentsAreSources DEF MoneyOK, Documents, Standing

LEMMA EnterDocumentMoves ==
  ASSUME TypeOK, JournalOK, MoneyOK, NEW s \in Documents, NEW k, NEW n \in Amounts, NEW d \in Days,
         NEW l, EnterDocument(s, k, n, d, l)
  PROVE  Moves
<1> USE DocumentsAreSources
<1>1. /\ amount' = [amount EXCEPT ![s] = n] /\ posted' = [posted EXCEPT ![s] = d]
      /\ reversed' = reversed /\ allocated' = allocated /\ credited' = credited
      /\ posted[s] = 0 /\ n \in Nat /\ n >= 1 /\ d # 0
  BY DEF EnterDocument, Enter, guards, undoing, Amounts, Days
<1>2. amount'[s] = n /\ posted'[s] = d /\ \A t \in Sources \ {s} : amount'[t] = amount[t] /\ posted'[t] = posted[t]
  BY <1>1 DEF TypeOK
<1>3. MoneyOK'
  BY <1>1, <1>2, NothingYet, MoneyTyped DEF MoneyOK
<1>4. Standing(s) = "none" /\ Standing(s)' = "open" /\ Rest(s)' = n
  BY <1>1, <1>2, NothingYet, MoneyTyped DEF Standing, Rest, Due
<1>5. Kept(Documents \ {s})
  BY <1>1, <1>2, KeptThen
<1> QED
  BY <1>2, <1>3, <1>4, <1>5, Issues DEF Moves

LEMMA AllocateMoves ==
  ASSUME TypeOK, JournalOK, MoneyOK, NEW a \in Allocations, NEW i \in Invoices, NEW p \in Payments,
         NEW n \in Amounts, NEW d, NEW l, Enter(a, n, d, l), AllocateTo(a, i, p, n)
  PROVE  Moves
<1> USE DocumentsAreSources
<1>1. /\ amount' = [amount EXCEPT ![a] = n] /\ posted' = [posted EXCEPT ![a] = d]
      /\ allocated' = [allocated EXCEPT ![i] = allocated[i] + n, ![p] = allocated[p] + n]
      /\ reversed' = reversed /\ credited' = credited
      /\ Live(i) /\ Live(p)
      /\ allocated[p] + n <= amount[p] /\ allocated[i] + n + credited[i] <= amount[i]
  BY DEF Enter, AllocateTo, undoing
<1>2. /\ amount'[a] = n
      /\ \A t \in Sources \ {a} : amount'[t] = amount[t] /\ posted'[t] = posted[t]
      /\ allocated'[i] = allocated[i] + n /\ allocated'[p] = allocated[p] + n
      /\ \A t \in Documents \ {i, p} : allocated'[t] = allocated[t]
  BY <1>1 DEF TypeOK
<1>3. n \in Nat
  BY DEF Amounts
<1>4. MoneyOK'
  BY <1>1, <1>2, <1>3, MoneyTyped DEF MoneyOK
<1>5. /\ Standing(i) = "open" /\ Standing(i)' = "open" /\ Standing(p) = "open" /\ Standing(p)' = "open"
      /\ amount'[i] = amount[i] /\ amount'[p] = amount[p]
  BY <1>1, <1>2 DEF Standing, Live
<1>6. /\ n <= Rest(i) /\ Rest(i)' = Rest(i) - n
      /\ n <= Rest(p) /\ Rest(p)' = Rest(p) - n
  BY <1>1, <1>2, <1>3, <1>5, MoneyTyped DEF Rest, Due
<1>7. Kept(Documents \ {i, p})
  BY <1>1, <1>2, KeptThen
<1> QED
  BY <1>4, <1>5, <1>6, <1>7, Settles DEF Moves

LEMMA CollectMoves ==
  ASSUME TypeOK, JournalOK, MoneyOK, NEW p \in Payments, NEW a \in Allocations, NEW i \in Invoices,
         CollectPayment(p, a, i)
  PROVE  Moves
<1> DEFINE n == Due(i)
<1> USE DocumentsAreSources
<1>1. /\ amount' = [amount EXCEPT ![p] = n, ![a] = n]
      /\ posted' = [posted EXCEPT ![p] = today, ![a] = today]
      /\ allocated' = [allocated EXCEPT ![i] = allocated[i] + n, ![p] = n]
      /\ reversed' = reversed /\ credited' = credited
      /\ Live(i) /\ n > 0 /\ posted[p] = 0 /\ posted[a] = 0 /\ today # 0
  BY DEF CollectPayment, undoing, TypeOK, Days
<1>2. n = amount[i] - allocated[i] - credited[i] /\ n = Rest(i) /\ n \in Int
  BY MoneyTyped DEF Due, Rest
<1> HIDE DEF n
<1>3. n \in Amounts
  BY <1>1, <1>2, MoneyTyped, BoundsArePositive DEF Amounts, TypeOK
<1>4. p # i /\ p # a /\ i # a
  OBVIOUS
<1>5. /\ amount'[p] = n /\ amount'[a] = n /\ amount'[i] = amount[i]
      /\ posted'[p] = today /\ posted'[i] = posted[i]
      /\ \A t \in Sources \ {p, a} : amount'[t] = amount[t] /\ posted'[t] = posted[t]
      /\ allocated'[i] = allocated[i] + n /\ allocated'[p] = n
      /\ \A t \in Documents \ {i, p} : allocated'[t] = allocated[t]
  BY <1>1, <1>4 DEF TypeOK
<1>6. MoneyOK'
  <2>1. \A s \in Sources : posted'[s] # 0 => amount'[s] \in Amounts
    BY <1>3, <1>5 DEF MoneyOK
  <2>2. ASSUME NEW t \in Invoices  PROVE allocated'[t] + credited'[t] <= amount'[t]
    <3>1. amount'[t] = amount[t] /\ credited'[t] = credited[t]
      BY <1>1, <1>5
    <3>2. CASE t = i
      BY <1>2, <1>5, <3>1, <3>2, MoneyTyped
    <3>3. CASE t # i
      BY <1>5, <3>1, <3>3 DEF MoneyOK
    <3> QED
      BY <3>2, <3>3
  <2>3. \A t \in Payments : allocated'[t] <= amount'[t]
    BY <1>2, <1>5 DEF MoneyOK
  <2> QED
    BY <2>1, <2>2, <2>3 DEF MoneyOK
<1>7. /\ Standing(i) = "open" /\ Standing(i)' = "open" /\ Standing(p) = "none" /\ Standing(p)' = "open"
  BY <1>1, <1>5, NothingYet DEF Standing, Live
<1>8. Rest(i)' = 0
  BY <1>1, <1>2, <1>5, MoneyTyped DEF Rest, Due
<1>9. Rest(p)' = Rest(p)
  <2>1. amount[p] = 0 /\ allocated[p] = 0
    BY <1>1, NothingYet
  <2> QED
    BY <1>2, <1>5, <2>1 DEF Rest
<1>10. Kept(Documents \ {i, p})
  BY <1>1, <1>5, KeptThen
<1>11. Rest(i) > 0 /\ amount'[p] = Rest(i)
  BY <1>1, <1>2, <1>5
<1> QED
  BY <1>5, <1>6, <1>7, <1>8, <1>9, <1>10, <1>11, PaysOff DEF Moves

LEMMA VoidMoves ==
  ASSUME TypeOK, MoneyOK, NEW s \in Documents, NEW d \in Days, NEW l,
         Reverse(s, d, l), UNCHANGED guards, Rest(s) = amount[s]
  PROVE  Moves
<1> USE DocumentsAreSources
<1>1. /\ reversed' = [reversed EXCEPT ![s] = d] /\ Live(s) /\ d # 0
      /\ UNCHANGED <<amount, posted, allocated, credited>>
  BY DEF Reverse, guards, Days
<1>2. reversed'[s] = d /\ \A t \in Sources \ {s} : reversed'[t] = reversed[t]
  BY <1>1 DEF TypeOK
<1>3. MoneyOK'
  BY <1>1 DEF MoneyOK
<1>4. Standing(s) = "open" /\ Standing(s)' = "void" /\ Rest(s)' = Rest(s) /\ amount'[s] = amount[s]
  BY <1>1, <1>2 DEF Standing, Live, Rest, Due
<1>5. Kept(Documents \ {s})
  BY <1>1, <1>2, KeptThen
<1> QED
  BY <1>3, <1>4, <1>5, Voids DEF Moves

LEMMA DeallocateMoves ==
  ASSUME TypeOK, JournalOK, MoneyOK, NEW a \in Allocations, NEW d, NEW l,
         Reverse(a, d, l), Deallocate(a)
  PROVE  Moves
<1> USE DocumentsAreSources
<1>0. invoiceOf[a] \in Invoices /\ paymentOf[a] \in Payments /\ amount[a] \in Amounts
  BY DEF Reverse, JournalOK, SourceOK, LinkOK, Live, MoneyOK
<1> PICK i \in Invoices, p \in Payments, n \in Amounts :
      i = invoiceOf[a] /\ p = paymentOf[a] /\ n = amount[a]
  BY <1>0
<1>1. /\ reversed' = [reversed EXCEPT ![a] = d]
      /\ allocated' = [allocated EXCEPT ![i] = allocated[i] - n, ![p] = allocated[p] - n]
      /\ UNCHANGED <<amount, posted, credited>>
      /\ Live(a) /\ Live(i) /\ Live(p) /\ allocated[i] >= n /\ allocated[p] >= n
  BY DEF Reverse, Deallocate
<1>2. n \in Nat
  BY DEF Amounts
<1>3. /\ \A t \in Documents : reversed'[t] = reversed[t]
      /\ allocated'[i] = allocated[i] - n /\ allocated'[p] = allocated[p] - n
      /\ \A t \in Documents \ {i, p} : allocated'[t] = allocated[t]
  BY <1>1, <1>2 DEF TypeOK
<1>4. MoneyOK'
  <2>1. \A t \in Documents : allocated'[t] <= allocated[t] /\ allocated'[t] \in Int
    <3>1. ASSUME NEW t \in {i, p}  PROVE allocated'[t] <= allocated[t] /\ allocated'[t] \in Int
      <4>1. t \in Documents /\ allocated[t] \in Nat /\ allocated'[t] = allocated[t] - n
        BY <1>3, MoneyTyped
      <4> QED
        BY ONLY <1>2, <4>1
    <3>2. ASSUME NEW t \in Documents \ {i, p}  PROVE allocated'[t] <= allocated[t] /\ allocated'[t] \in Int
      BY <1>3, <3>2, MoneyTyped
    <3> QED
      BY <3>1, <3>2
  <2>2. \A t \in Invoices : allocated'[t] + credited[t] <= amount[t]
    BY <2>1, MoneyTyped DEF MoneyOK
  <2>3. \A t \in Payments : allocated'[t] <= amount[t]
    BY <2>1, MoneyTyped DEF MoneyOK
  <2> QED
    BY <1>1, <2>2, <2>3 DEF MoneyOK
<1>5. /\ Standing(i) = "open" /\ Standing(i)' = "open" /\ Standing(p) = "open" /\ Standing(p)' = "open"
      /\ amount'[i] = amount[i] /\ amount'[p] = amount[p]
  BY <1>1, <1>2, <1>3 DEF Standing, Live
<1>6. /\ Rest(i) + n <= amount[i] /\ Rest(i)' = Rest(i) + n
      /\ Rest(p) + n <= amount[p] /\ Rest(p)' = Rest(p) + n
  BY <1>1, <1>2, <1>3, MoneyTyped DEF Rest, Due
<1>7. Kept(Documents \ {i, p})
  BY <1>1, <1>3, KeptThen
<1> QED
  BY <1>4, <1>5, <1>6, <1>7, Unsettles DEF Moves

LEMMA CreditMoves ==
  ASSUME TypeOK, JournalOK, MoneyOK, NEW c \in Notes, NEW i \in Invoices, NEW n \in Amounts,
         CreditNote(c, i, n)
  PROVE  Moves
<1> USE DocumentsAreSources
<1>1. /\ amount' = [amount EXCEPT ![c] = n] /\ posted' = [posted EXCEPT ![c] = today]
      /\ credited' = [credited EXCEPT ![i] = credited[i] + n]
      /\ reversed' = reversed /\ allocated' = allocated
      /\ Live(i) /\ n <= Due(i) /\ n \in Nat
  BY DEF CreditNote, Enter, undoing, Amounts
<1>2. /\ amount'[c] = n
      /\ \A t \in Sources \ {c} : amount'[t] = amount[t] /\ posted'[t] = posted[t]
      /\ credited'[i] = credited[i] + n
      /\ \A t \in Invoices \ {i} : credited'[t] = credited[t]
  BY <1>1 DEF TypeOK
<1>3. MoneyOK'
  BY <1>1, <1>2, MoneyTyped DEF MoneyOK, Due
<1>4. Standing(i) = "open" /\ Standing(i)' = "open" /\ amount'[i] = amount[i]
  BY <1>1, <1>2 DEF Standing, Live
<1>5. n <= Rest(i) /\ Rest(i)' = Rest(i) - n
  BY <1>1, <1>2, MoneyTyped DEF Rest, Due
<1>6. Kept(Documents \ {i})
  BY <1>1, <1>2, KeptThen
<1> QED
  BY <1>3, <1>4, <1>5, <1>6, Forgives DEF Moves

LEMMA ReverseCreditMoves ==
  ASSUME TypeOK, JournalOK, MoneyOK, NEW c \in Notes, ReverseCredit(c)
  PROVE  Moves
<1> USE DocumentsAreSources
<1>0. invoiceOf[c] \in Invoices /\ amount[c] \in Amounts
  BY DEF ReverseCredit, JournalOK, SourceOK, LinkOK, Live, MoneyOK
<1> PICK i \in Invoices, n \in Amounts : i = invoiceOf[c] /\ n = amount[c]
  BY <1>0
<1>1. /\ reversed' = [reversed EXCEPT ![c] = today]
      /\ credited' = [credited EXCEPT ![i] = credited[i] - n]
      /\ UNCHANGED <<amount, posted, allocated>>
      /\ Live(c) /\ Live(i) /\ credited[i] >= n
  BY DEF ReverseCredit, Reverse
<1>2. n \in Nat
  BY DEF Amounts
<1>3. /\ \A t \in Documents : reversed'[t] = reversed[t]
      /\ credited'[i] = credited[i] - n
      /\ \A t \in Invoices \ {i} : credited'[t] = credited[t]
  BY <1>1, <1>2 DEF TypeOK
<1>4. MoneyOK'
  BY <1>1, <1>2, <1>3, MoneyTyped DEF MoneyOK
<1>5. Standing(i) = "open" /\ Standing(i)' = "open" /\ amount'[i] = amount[i]
  BY <1>1, <1>2, <1>3 DEF Standing, Live
<1>6. Rest(i) + n <= amount[i] /\ Rest(i)' = Rest(i) + n
  BY <1>1, <1>2, <1>3, MoneyTyped DEF Rest, Due
<1>7. Kept(Documents \ {i})
  BY <1>1, <1>3, KeptThen
<1> QED
  BY <1>4, <1>5, <1>6, <1>7, Restores DEF Moves

LEMMA NothingMoves ==
  ASSUME MoneyOK, UNCHANGED <<amount, posted, reversed, allocated, credited>>
  PROVE  Moves
<1>1. MoneyOK'
  BY DEF MoneyOK
<1>2. Kept(Documents)
  BY KeptThen
<1> QED
  BY <1>1, <1>2, Stutters DEF Moves

LEMMA NextMoves ==
  ASSUME TypeOK, JournalOK, MoneyOK, [Next]_vars
  PROVE  Moves
<1> USE DocumentsAreSources
<1>0. today \in Days
  BY DEF TypeOK
<1>1. CASE UNCHANGED vars
  BY <1>1, NothingMoves DEF vars, guards, undoing
<1>2. CASE Tick \/ \E first, last \in Days : ClosePeriod(first, last)
  BY <1>2, NothingMoves DEF Tick, ClosePeriod, guards, undoing
<1>3. ASSUME NEW s \in Documents, NEW d \in Days, Classify(s, d)  PROVE Moves
  BY <1>3, NothingMoves DEF Classify, guards, undoing
<1>4. ASSUME NEW i \in Invoices, NEW d \in Days, ReverseInvoice(i, d)  PROVE Moves
  <2>1. Rest(i) = amount[i]
    BY <1>4, MoneyTyped DEF ReverseInvoice, Rest, Due
  <2> QED
    BY <1>4, <2>1, VoidMoves DEF ReverseInvoice
<1>5. ASSUME NEW p \in Payments, NEW d \in Days, ReversePayment(p, d) \/ ReverseDeposit(p)
      PROVE  Moves
  <2>1. Rest(p) = amount[p]
    BY <1>5, MoneyTyped DEF ReversePayment, ReverseDeposit, Rest
  <2> QED
    BY <1>0, <1>5, <2>1, VoidMoves DEF ReversePayment, ReverseDeposit
<1>6. ASSUME NEW i \in Invoices, NEW d \in Days, NEW k \in {"raw", "governed"}, NEW n \in Amounts,
             PostInvoice(i, k, n, d)
      PROVE  Moves
  BY <1>6, EnterDocumentMoves DEF PostInvoice
<1>7. ASSUME NEW p \in Payments, NEW d \in Days, NEW n \in Amounts,
             PostPayment(p, n, d) \/ ReceiveDeposit(p, n)
      PROVE  Moves
  BY <1>0, <1>7, EnterDocumentMoves DEF PostPayment, ReceiveDeposit
<1>8. ASSUME NEW a \in Allocations, NEW i \in Invoices, NEW p \in Payments, NEW n \in Amounts,
             ApplyDeposit(a, i, p, n) \/ \E d \in Days : Allocate(a, i, p, n, d)
      PROVE  Moves
  BY <1>8, AllocateMoves DEF ApplyDeposit, Allocate
<1>9. ASSUME NEW a \in Allocations, ReverseApplication(a) \/ \E d \in Days : ReverseAllocation(a, d)
      PROVE  Moves
  BY <1>9, DeallocateMoves DEF ReverseApplication, ReverseAllocation
<1> QED
  BY <1>0, <1>1, <1>2, <1>3, <1>4, <1>5, <1>6, <1>7, <1>8, <1>9, CollectMoves, CreditMoves,
     ReverseCreditMoves DEF Next

LEMMA InitMoney == Init => MoneyOK /\ Settled!Init
<1> SUFFICES ASSUME Init  PROVE MoneyOK /\ Settled!Init
  OBVIOUS
<1>1. MoneyOK
  BY DocumentsAreSources DEF Init, MoneyOK
<1>2. \A d \in Documents : posted[d] = 0 /\ amount[d] = 0 /\ allocated[d] = 0
  BY DocumentsAreSources DEF Init
<1>3. \A i \in Invoices : credited[i] = 0
  BY DEF Init
<1> QED
  BY <1>1, <1>2, <1>3 DEF Settled!Init, Settled!Documents, Documents, Due

(* In every behaviour of the code, allocations, credits, deposits and reversals
   settle invoices with money that is there: nothing is paid or spent twice,
   and no document is voided while money rests on it. *)
THEOREM MoneyIsMoved == Spec => MovesMoney
<1>1. TypeOK /\ JournalOK /\ MoneyOK /\ [Next]_vars => MoneyOK' /\ [Settled!Next]_(Settled!vars)
  BY NextMoves DEF Moves
<1> QED
  BY <1>1, InitMoney, TypeCorrect, JournalKept, PTL DEF Spec, MovesMoney, Settled!Spec

-----------------------------------------------------------------------------
(* The guards add up *)

LEMMA CountedTyped ==
  ASSUME TypeOK
  PROVE  \A s \in Sources : Counted[s] \in Int
BY BoundsArePositive DEF TypeOK, Counted

LEMMA CountedThenTyped ==
  ASSUME TypeOK'
  PROVE  \A s \in Sources : Counted'[s] \in Int
BY BoundsArePositive DEF TypeOK, Counted

LEMMA PapersAreFinite ==
  /\ IsFiniteSet(Invoices) /\ IsFiniteSet(Payments)
  /\ IsFiniteSet(Allocations) /\ IsFiniteSet(Notes)
BY SourcesAreFinite, DocumentsAreSources, FS_Subset

(* What its source counts for after a step that leaves it alone. *)
LEMMA CountedStays ==
  ASSUME NEW s \in Sources,
         amount'[s] = amount[s], posted'[s] = posted[s], reversed'[s] = reversed[s]
  PROVE  Counted'[s] = Counted[s]
BY DEF Counted, Live

LEMMA GuardsUntouched ==
  ASSUME GuardsAgree, UNCHANGED <<links, guards>>,
         \A s \in Allocations \cup Notes : Counted'[s] = Counted[s]
  PROVE  GuardsAgree'
<1>1. UNCHANGED <<invoiceOf, paymentOf, allocated, credited>>
  BY DEF links, guards
<1>2. ASSUME NEW S, S \subseteq Allocations \/ S \subseteq Notes
      PROVE  SumFunctionOnSet(Counted', S) = SumFunctionOnSet(Counted, S)
  <2>1. IsFiniteSet(S) /\ \A s \in S : Counted'[s] = Counted[s]
    BY <1>2, PapersAreFinite, FS_Subset
  <2> QED
    BY <2>1, SumOfSame
<1> QED
  BY <1>1, <1>2 DEF GuardsAgree, Total, About, Linked, OutOf

(* Of the papers only allocation a, of p to i, comes to count or no longer
   counts, and the guards of its two documents move by as much. *)
Recounted(a, i, p) ==
  /\ \A s \in (Allocations \cup Notes) \ {a} :
       Counted'[s] = Counted[s] /\ invoiceOf'[s] = invoiceOf[s]
  /\ \A s \in Allocations \ {a} : paymentOf'[s] = paymentOf[s]
  /\ Counted[a] = 0 \/ (invoiceOf[a] = i /\ paymentOf[a] = p)
  /\ Counted'[a] = 0 \/ (invoiceOf'[a] = i /\ paymentOf'[a] = p)
  /\ UNCHANGED credited
  /\ \A d \in Documents :
       allocated'[d] = allocated[d] + IF d \in {i, p} THEN Counted'[a] - Counted[a] ELSE 0

LEMMA AllocationCounts ==
  ASSUME TypeOK, TypeOK', GuardsAgree,
         NEW a \in Allocations, NEW i \in Invoices, NEW p \in Payments, Recounted(a, i, p)
  PROVE  GuardsAgree'
<1> USE DocumentsAreSources, PapersAreFinite DEF Recounted
<1>1. \A s \in Allocations : Counted[s] \in Int /\ Counted'[s] \in Int
  BY CountedTyped, CountedThenTyped
<1>2. ASSUME NEW j \in Invoices
      PROVE  allocated'[j] = SumFunctionOnSet(Counted', Linked(Allocations, invoiceOf', j))
  <2>1. SumFunctionOnSet(Counted', Linked(Allocations, invoiceOf', j))
          = SumFunctionOnSet(Counted, Linked(Allocations, invoiceOf, j))
              + IF j = i THEN Counted'[a] - Counted[a] ELSE 0
    <3>1. OneCounts(Allocations, a, i, Counted, invoiceOf, Counted', invoiceOf')
      BY <1>1 DEF OneCounts
    <3> QED
      BY <3>1, SumOfLinked
  <2>2. allocated[j] = SumFunctionOnSet(Counted, Linked(Allocations, invoiceOf, j))
    BY DEF GuardsAgree, Total, About, Linked
  <2>3. j \in {i, p} <=> j = i
    OBVIOUS
  <2> QED
    BY <2>1, <2>2, <2>3
<1>3. ASSUME NEW q \in Payments
      PROVE  allocated'[q] = SumFunctionOnSet(Counted', Linked(Allocations, paymentOf', q))
  <2>1. SumFunctionOnSet(Counted', Linked(Allocations, paymentOf', q))
          = SumFunctionOnSet(Counted, Linked(Allocations, paymentOf, q))
              + IF q = p THEN Counted'[a] - Counted[a] ELSE 0
    <3>1. OneCounts(Allocations, a, p, Counted, paymentOf, Counted', paymentOf')
      BY <1>1 DEF OneCounts
    <3> QED
      BY <3>1, SumOfLinked
  <2>2. allocated[q] = SumFunctionOnSet(Counted, Linked(Allocations, paymentOf, q))
    BY DEF GuardsAgree, Total, OutOf, Linked
  <2>3. q \in {i, p} <=> q = p
    OBVIOUS
  <2> QED
    BY <2>1, <2>2, <2>3
<1>4. ASSUME NEW j \in Invoices
      PROVE  credited'[j] = SumFunctionOnSet(Counted', Linked(Notes, invoiceOf', j))
  <2>1. Linked(Notes, invoiceOf', j) = Linked(Notes, invoiceOf, j)
    BY DEF Linked
  <2>2. SumFunctionOnSet(Counted', Linked(Notes, invoiceOf, j))
          = SumFunctionOnSet(Counted, Linked(Notes, invoiceOf, j))
    <3>1. IsFiniteSet(Linked(Notes, invoiceOf, j))
      BY FS_Subset DEF Linked
    <3>2. \A s \in Linked(Notes, invoiceOf, j) : Counted'[s] = Counted[s]
      BY DEF Linked
    <3> QED
      BY <3>1, <3>2, SumOfSame
  <2> QED
    BY <2>1, <2>2 DEF GuardsAgree, Total, About, Linked
<1> QED
  BY <1>2, <1>3, <1>4 DEF GuardsAgree, Total, About, Linked, OutOf

(* So does a credit note. *)
LEMMA NoteCounts ==
  ASSUME TypeOK, TypeOK', GuardsAgree, NEW c \in Notes, NEW i \in Invoices,
         \A s \in (Allocations \cup Notes) \ {c} :
           Counted'[s] = Counted[s] /\ invoiceOf'[s] = invoiceOf[s],
         Counted[c] = 0 \/ invoiceOf[c] = i,
         Counted'[c] = 0 \/ invoiceOf'[c] = i,
         UNCHANGED <<paymentOf, allocated>>,
         \A j \in Invoices :
           credited'[j] = credited[j] + IF j = i THEN Counted'[c] - Counted[c] ELSE 0
  PROVE  GuardsAgree'
<1> USE DocumentsAreSources, PapersAreFinite
<1>1. \A s \in Notes : Counted[s] \in Int /\ Counted'[s] \in Int
  BY CountedTyped, CountedThenTyped
<1>2. ASSUME NEW j \in Invoices
      PROVE  credited'[j] = SumFunctionOnSet(Counted', Linked(Notes, invoiceOf', j))
  <2>1. SumFunctionOnSet(Counted', Linked(Notes, invoiceOf', j))
          = SumFunctionOnSet(Counted, Linked(Notes, invoiceOf, j))
              + IF j = i THEN Counted'[c] - Counted[c] ELSE 0
    <3>1. OneCounts(Notes, c, i, Counted, invoiceOf, Counted', invoiceOf')
      BY <1>1 DEF OneCounts
    <3> QED
      BY <3>1, SumOfLinked
  <2>2. credited[j] = SumFunctionOnSet(Counted, Linked(Notes, invoiceOf, j))
    BY DEF GuardsAgree, Total, About, Linked
  <2> QED
    BY <2>1, <2>2
<1>3. ASSUME NEW S \in SUBSET Allocations
      PROVE  SumFunctionOnSet(Counted', S) = SumFunctionOnSet(Counted, S)
  <2>1. IsFiniteSet(S) /\ \A s \in S : Counted'[s] = Counted[s]
    BY FS_Subset
  <2> QED
    BY <2>1, SumOfSame
<1>4. /\ \A j \in Invoices : Linked(Allocations, invoiceOf', j) = Linked(Allocations, invoiceOf, j)
      /\ paymentOf' = paymentOf /\ allocated' = allocated
  BY DEF Linked
<1>5. \A j \in Invoices : allocated'[j] = SumFunctionOnSet(Counted', Linked(Allocations, invoiceOf', j))
  BY <1>3, <1>4 DEF GuardsAgree, Total, About, Linked
<1>6. \A q \in Payments : allocated'[q] = SumFunctionOnSet(Counted', Linked(Allocations, paymentOf', q))
  BY <1>3, <1>4 DEF GuardsAgree, Total, OutOf, Linked
<1> QED
  BY <1>2, <1>5, <1>6 DEF GuardsAgree, Total, About, Linked, OutOf

(* What the journal does not say of the guards: nothing rests on what is not
   live, and credits and the use of deposits are of governed invoices. *)
GuardsRest ==
  /\ \A d \in Documents : ~ Live(d) => allocated[d] = 0
  /\ \A i \in Invoices : ~ Live(i) => credited[i] = 0
  /\ \A a \in Allocations : posted[a] # 0 /\ kind[paymentOf[a]] = "deposit"
                              => kind[invoiceOf[a]] = "governed"
  /\ \A c \in Notes : posted[c] # 0 => kind[invoiceOf[c]] = "governed"

(* A paper that is not posted, and one that is entered. *)
LEMMA NotCounted ==
  ASSUME JournalOK, NEW s \in Sources, posted[s] = 0
  PROVE  Counted[s] = 0 /\ reversed[s] = 0
BY DEF JournalOK, SourceOK, EntryOK, Counted, Live

LEMMA DocumentGuards ==
  ASSUME TypeOK, GuardsAgree, NEW d \in Documents, UNCHANGED <<links, guards>>,
         \A s \in Sources \ {d} :
           amount'[s] = amount[s] /\ posted'[s] = posted[s] /\ reversed'[s] = reversed[s]
  PROVE  GuardsAgree'
<1>1. \A s \in Allocations \cup Notes : Counted'[s] = Counted[s]
  BY DocumentsAreSources, CountedStays
<1> QED
  BY <1>1, GuardsUntouched

LEMMA AllocateGuards ==
  ASSUME TypeOK, TypeOK', JournalOK, GuardsAgree,
         NEW a \in Allocations, NEW i \in Invoices, NEW p \in Payments,
         NEW n \in Amounts, NEW d \in Days, NEW l, Enter(a, n, d, l), AllocateTo(a, i, p, n)
  PROVE  GuardsAgree'
<1> USE DocumentsAreSources
<1>1. /\ amount' = [amount EXCEPT ![a] = n] /\ posted' = [posted EXCEPT ![a] = d]
      /\ allocated' = [allocated EXCEPT ![i] = allocated[i] + n, ![p] = allocated[p] + n]
      /\ invoiceOf' = [invoiceOf EXCEPT ![a] = i] /\ paymentOf' = [paymentOf EXCEPT ![a] = p]
      /\ reversed' = reversed /\ credited' = credited /\ posted[a] = 0
  BY DEF Enter, AllocateTo, undoing
<1>2. /\ amount'[a] = n /\ posted'[a] = d /\ invoiceOf'[a] = i /\ paymentOf'[a] = p
      /\ \A s \in Sources \ {a} : amount'[s] = amount[s] /\ posted'[s] = posted[s]
      /\ \A s \in (Allocations \cup Notes) \ {a} : invoiceOf'[s] = invoiceOf[s]
      /\ \A s \in Allocations \ {a} : paymentOf'[s] = paymentOf[s]
  BY <1>1 DEF TypeOK
<1>3. n \in Nat /\ d # 0 /\ d \in Nat
  BY DEF Amounts, Days
<1>4. Counted[a] = 0 /\ Counted'[a] = n
  BY <1>1, <1>2, <1>3, NotCounted DEF Counted, Live
<1>5. \A s \in (Allocations \cup Notes) \ {a} : Counted'[s] = Counted[s]
  BY <1>1, <1>2, CountedStays
<1>6. \A e \in Documents :
        allocated'[e] = allocated[e] + IF e \in {i, p} THEN Counted'[a] - Counted[a] ELSE 0
  BY <1>1, <1>3, <1>4 DEF TypeOK
<1>7. Recounted(a, i, p)
  BY <1>1, <1>2, <1>4, <1>5, <1>6 DEF Recounted
<1> QED
  BY <1>7, AllocationCounts

LEMMA CollectGuards ==
  ASSUME TypeOK, TypeOK', JournalOK, GuardsAgree, GuardsRest,
         NEW p \in Payments, NEW a \in Allocations, NEW i \in Invoices, CollectPayment(p, a, i)
  PROVE  GuardsAgree'
<1> DEFINE n == Due(i)
<1> USE DocumentsAreSources
<1>1. /\ amount' = [amount EXCEPT ![p] = n, ![a] = n]
      /\ posted' = [posted EXCEPT ![p] = today, ![a] = today]
      /\ allocated' = [allocated EXCEPT ![i] = allocated[i] + n, ![p] = n]
      /\ invoiceOf' = [invoiceOf EXCEPT ![a] = i] /\ paymentOf' = [paymentOf EXCEPT ![a] = p]
      /\ reversed' = reversed /\ credited' = credited /\ posted[a] = 0 /\ posted[p] = 0
  BY DEF CollectPayment, undoing
<1>2. n \in Int /\ today # 0
  BY DocumentsAreSources, BoundsArePositive DEF TypeOK, Due, Days
<1> HIDE DEF n
<1>3. /\ amount'[a] = n /\ posted'[a] = today /\ invoiceOf'[a] = i /\ paymentOf'[a] = p
      /\ \A s \in Sources \ {a, p} : amount'[s] = amount[s] /\ posted'[s] = posted[s]
      /\ \A s \in (Allocations \cup Notes) \ {a} : invoiceOf'[s] = invoiceOf[s]
      /\ \A s \in Allocations \ {a} : paymentOf'[s] = paymentOf[s]
  BY <1>1 DEF TypeOK
<1>4. Counted[a] = 0 /\ Counted'[a] = n /\ allocated[p] = 0
  BY <1>1, <1>2, <1>3, NotCounted DEF Counted, Live, GuardsRest
<1>5. \A s \in (Allocations \cup Notes) \ {a} : Counted'[s] = Counted[s]
  BY <1>1, <1>3, CountedStays
<1>6. \A e \in Documents :
        allocated'[e] = allocated[e] + IF e \in {i, p} THEN Counted'[a] - Counted[a] ELSE 0
  BY <1>1, <1>2, <1>4 DEF TypeOK
<1>7. Recounted(a, i, p)
  BY <1>1, <1>3, <1>4, <1>5, <1>6 DEF Recounted
<1> QED
  BY <1>7, AllocationCounts

LEMMA DeallocateGuards ==
  ASSUME TypeOK, TypeOK', JournalOK, GuardsAgree,
         NEW a \in Allocations, posted[a] # 0, NEW d \in Days, NEW l, Reverse(a, d, l), Deallocate(a)
  PROVE  GuardsAgree'
<1> DEFINE i == invoiceOf[a]
           p == paymentOf[a]
<1> USE DocumentsAreSources
<1>1. i \in Invoices /\ p \in Payments
  BY DEF JournalOK, SourceOK, LinkOK
<1>2. /\ reversed' = [reversed EXCEPT ![a] = d] /\ UNCHANGED <<amount, posted, invoiceOf, paymentOf, credited>>
      /\ allocated' = [allocated EXCEPT ![i] = allocated[i] - amount[a], ![p] = allocated[p] - amount[a]]
      /\ Live(a)
  BY DEF Reverse, Deallocate, links
<1> HIDE DEF i, p
<1>3. d # 0 /\ reversed'[a] = d /\ \A s \in Sources \ {a} : reversed'[s] = reversed[s]
  BY <1>2 DEF TypeOK, Days
<1>4. Counted[a] = amount[a] /\ Counted'[a] = 0 /\ amount[a] \in Int
  BY <1>2, <1>3, BoundsArePositive DEF Counted, Live, TypeOK
<1>5. \A s \in (Allocations \cup Notes) \ {a} : Counted'[s] = Counted[s]
  BY <1>2, <1>3, CountedStays
<1>6. \A e \in Documents :
        allocated'[e] = allocated[e] + IF e \in {i, p} THEN Counted'[a] - Counted[a] ELSE 0
  BY <1>1, <1>2, <1>4 DEF TypeOK
<1>7. invoiceOf[a] = i /\ paymentOf[a] = p
  BY DEF i, p
<1>8. Recounted(a, i, p)
  BY <1>1, <1>2, <1>4, <1>5, <1>6, <1>7 DEF Recounted
<1> QED
  BY <1>1, <1>8, AllocationCounts

LEMMA CreditGuards ==
  ASSUME TypeOK, TypeOK', JournalOK, GuardsAgree,
         NEW c \in Notes, NEW i \in Invoices, NEW n \in Amounts, CreditNote(c, i, n)
  PROVE  GuardsAgree'
<1> USE DocumentsAreSources
<1>1. /\ amount' = [amount EXCEPT ![c] = n] /\ posted' = [posted EXCEPT ![c] = today]
      /\ credited' = [credited EXCEPT ![i] = credited[i] + n]
      /\ invoiceOf' = [invoiceOf EXCEPT ![c] = i] /\ UNCHANGED <<paymentOf, allocated, reversed>>
      /\ posted[c] = 0
  BY DEF CreditNote, Enter, undoing
<1>2. n \in Nat /\ today # 0
  BY DEF TypeOK, Amounts, Days
<1>3. /\ amount'[c] = n /\ posted'[c] = today /\ invoiceOf'[c] = i
      /\ \A s \in Sources \ {c} : amount'[s] = amount[s] /\ posted'[s] = posted[s]
      /\ \A s \in (Allocations \cup Notes) \ {c} : invoiceOf'[s] = invoiceOf[s]
  BY <1>1 DEF TypeOK
<1>4. Counted[c] = 0 /\ Counted'[c] = n
  BY <1>1, <1>2, <1>3, NotCounted DEF Counted, Live
<1>5. \A s \in (Allocations \cup Notes) \ {c} : Counted'[s] = Counted[s]
  BY <1>1, <1>3, CountedStays
<1>6. \A j \in Invoices :
        credited'[j] = credited[j] + IF j = i THEN Counted'[c] - Counted[c] ELSE 0
  BY <1>1, <1>2, <1>4 DEF TypeOK
<1> QED
  BY <1>1, <1>3, <1>4, <1>5, <1>6, NoteCounts

LEMMA ReverseCreditGuards ==
  ASSUME TypeOK, TypeOK', JournalOK, GuardsAgree, NEW c \in Notes, ReverseCredit(c)
  PROVE  GuardsAgree'
<1> DEFINE i == invoiceOf[c]
<1> USE DocumentsAreSources
<1>1. i \in Invoices
  BY DEF JournalOK, SourceOK, LinkOK, ReverseCredit
<1>2. /\ reversed' = [reversed EXCEPT ![c] = today]
      /\ UNCHANGED <<amount, posted, invoiceOf, paymentOf, allocated>>
      /\ credited' = [credited EXCEPT ![i] = credited[i] - amount[c]]
      /\ Live(c)
  BY DEF ReverseCredit, Reverse, links
<1> HIDE DEF i
<1>3. today # 0 /\ reversed'[c] = today /\ \A s \in Sources \ {c} : reversed'[s] = reversed[s]
  BY <1>2 DEF TypeOK, Days
<1>4. Counted[c] = amount[c] /\ Counted'[c] = 0 /\ amount[c] \in Int
  BY <1>2, <1>3, BoundsArePositive DEF Counted, Live, TypeOK
<1>5. \A s \in (Allocations \cup Notes) \ {c} : Counted'[s] = Counted[s]
  BY <1>2, <1>3, CountedStays
<1>6. \A j \in Invoices :
        credited'[j] = credited[j] + IF j = i THEN Counted'[c] - Counted[c] ELSE 0
  BY <1>1, <1>2, <1>4 DEF TypeOK
<1>7. invoiceOf[c] = i
  BY DEF i
<1> QED
  BY <1>1, <1>2, <1>4, <1>5, <1>6, <1>7, NoteCounts

LEMMA NextGuards ==
  ASSUME TypeOK, TypeOK', JournalOK, GuardsAgree, GuardsRest, [Next]_vars
  PROVE  GuardsAgree'
<1> USE DocumentsAreSources
<1>0. today \in Days
  BY DEF TypeOK
<1>1. ASSUME UNCHANGED <<amount, posted, reversed, links, guards>>  PROVE GuardsAgree'
  <2>1. \A s \in Allocations \cup Notes : Counted'[s] = Counted[s]
    BY <1>1, CountedStays
  <2> QED
    BY <1>1, <2>1, GuardsUntouched
<1>2. CASE UNCHANGED vars
  BY <1>1, <1>2 DEF vars, undoing
<1>3. CASE Tick \/ \E first, last \in Days : ClosePeriod(first, last)
  BY <1>1, <1>3 DEF Tick, ClosePeriod, undoing
<1>4. ASSUME NEW s \in Documents, NEW d \in Days, Classify(s, d)  PROVE GuardsAgree'
  BY <1>1, <1>4 DEF Classify, undoing
<1>5. ASSUME NEW s \in Documents, NEW d, NEW l, Reverse(s, d, l), UNCHANGED guards
      PROVE  GuardsAgree'
  BY <1>5, DocumentGuards DEF Reverse, TypeOK
<1>6. ASSUME NEW s \in Documents, NEW k, NEW n, NEW d, NEW l, EnterDocument(s, k, n, d, l)
      PROVE  GuardsAgree'
  BY <1>6, DocumentGuards DEF EnterDocument, Enter, undoing, TypeOK
<1>7. ASSUME NEW i \in Invoices, NEW d \in Days, ReverseInvoice(i, d)  PROVE GuardsAgree'
  BY <1>5, <1>7 DEF ReverseInvoice
<1>8. ASSUME NEW p \in Payments, NEW d \in Days, ReversePayment(p, d) \/ ReverseDeposit(p)
      PROVE  GuardsAgree'
  BY <1>5, <1>8 DEF ReversePayment, ReverseDeposit
<1>9. ASSUME NEW i \in Invoices, NEW d \in Days, NEW k \in {"raw", "governed"}, NEW n \in Amounts,
             PostInvoice(i, k, n, d)
      PROVE  GuardsAgree'
  BY <1>6, <1>9 DEF PostInvoice
<1>10. ASSUME NEW p \in Payments, NEW d \in Days, NEW n \in Amounts,
              PostPayment(p, n, d) \/ ReceiveDeposit(p, n)
       PROVE  GuardsAgree'
  BY <1>6, <1>10 DEF PostPayment, ReceiveDeposit
<1>11. ASSUME NEW a \in Allocations, NEW i \in Invoices, NEW p \in Payments, NEW n \in Amounts,
              ApplyDeposit(a, i, p, n) \/ \E d \in Days : Allocate(a, i, p, n, d)
       PROVE  GuardsAgree'
  BY <1>0, <1>11, AllocateGuards DEF ApplyDeposit, Allocate
<1>12. ASSUME NEW a \in Allocations, ReverseApplication(a) \/ \E d \in Days : ReverseAllocation(a, d)
       PROVE  GuardsAgree'
  BY <1>0, <1>12, DeallocateGuards DEF ReverseApplication, ReverseAllocation
<1> QED
  BY <1>0, <1>2, <1>3, <1>4, <1>7, <1>8, <1>9, <1>10, <1>11, <1>12, CollectGuards, CreditGuards,
     ReverseCreditGuards DEF Next

(* What has a kind is entered, and keeps it. *)
LEMMA KindStays ==
  ASSUME TypeOK, JournalOK, [Next]_vars, NEW d \in Documents, kind[d] # "none" \/ posted[d] # 0
  PROVE  posted[d] # 0 /\ kind'[d] = kind[d]
<1>1. posted[d] # 0
  BY DocumentsAreSources DEF JournalOK, SourceOK, EntryOK
<1>2. ASSUME NEW s \in Documents, NEW k, NEW n, NEW day, NEW l, EnterDocument(s, k, n, day, l)
      PROVE  kind'[d] = kind[d]
  BY <1>1, <1>2 DEF EnterDocument, Enter, TypeOK
<1>3. ASSUME NEW p \in Payments, NEW a \in Allocations, NEW i \in Invoices, CollectPayment(p, a, i)
      PROVE  kind'[d] = kind[d]
  BY <1>1, <1>3 DEF CollectPayment, TypeOK
<1>4. \/ UNCHANGED kind
      \/ \E s \in Documents : \E k, n, day, l : EnterDocument(s, k, n, day, l)
      \/ \E p \in Payments, a \in Allocations, i \in Invoices : CollectPayment(p, a, i)
  BY DocumentsAreSources
     DEF Next, vars, Tick, ClosePeriod, ReverseInvoice, PostInvoice, ReversePayment, PostPayment,
         ReverseDeposit, ReceiveDeposit, Classify, ApplyDeposit, Allocate, AllocateTo,
         ReverseApplication, ReverseAllocation, Reverse, ReverseCredit, CreditNote
<1> QED
  BY <1>1, <1>2, <1>3, <1>4

(* Of a posted paper nothing is relinked. *)
LEMMA LinksStay ==
  ASSUME TypeOK, [Next]_vars, NEW s \in Allocations \cup Notes, posted[s] # 0
  PROVE  /\ invoiceOf'[s] = invoiceOf[s]
         /\ s \in Allocations => paymentOf'[s] = paymentOf[s]
<1> USE DocumentsAreSources
<1>1. ASSUME NEW a \in Allocations, NEW i, NEW p, posted[a] = 0,
             invoiceOf' = [invoiceOf EXCEPT ![a] = i], paymentOf' = [paymentOf EXCEPT ![a] = p]
      PROVE  invoiceOf'[s] = invoiceOf[s] /\ (s \in Allocations => paymentOf'[s] = paymentOf[s])
  BY <1>1 DEF TypeOK
<1>2. ASSUME NEW c \in Notes, NEW i, posted[c] = 0, invoiceOf' = [invoiceOf EXCEPT ![c] = i],
             UNCHANGED paymentOf
      PROVE  invoiceOf'[s] = invoiceOf[s] /\ (s \in Allocations => paymentOf'[s] = paymentOf[s])
  BY <1>2 DEF TypeOK
<1>3. \/ UNCHANGED links
      \/ \E a \in Allocations : \E i, p : /\ posted[a] = 0 /\ invoiceOf' = [invoiceOf EXCEPT ![a] = i]
                                          /\ paymentOf' = [paymentOf EXCEPT ![a] = p]
      \/ \E c \in Notes : \E i : /\ posted[c] = 0 /\ invoiceOf' = [invoiceOf EXCEPT ![c] = i]
                                 /\ UNCHANGED paymentOf
  <2>1. \/ UNCHANGED vars \/ Tick \/ \E first, last \in Days : ClosePeriod(first, last)
        \/ \E x \in Documents, d \in Days : Classify(x, d)
        => UNCHANGED links
    BY DEF vars, Tick, ClosePeriod, Classify
  <2>2. ASSUME NEW x, NEW k, NEW n, NEW d, NEW l, EnterDocument(x, k, n, d, l) \/ Reverse(x, d, l)
        PROVE  UNCHANGED links
    BY <2>2 DEF EnterDocument, Reverse
  <2>3. ASSUME NEW a \in Allocations, NEW i \in Invoices, NEW p \in Payments,
               \/ CollectPayment(p, a, i)
               \/ \E n \in Amounts : ApplyDeposit(a, i, p, n) \/ \E d \in Days : Allocate(a, i, p, n, d)
        PROVE  /\ posted[a] = 0 /\ invoiceOf' = [invoiceOf EXCEPT ![a] = i]
               /\ paymentOf' = [paymentOf EXCEPT ![a] = p]
    BY <2>3 DEF CollectPayment, ApplyDeposit, Allocate, AllocateTo, Enter
  <2>4. ASSUME NEW c \in Notes, NEW i \in Invoices, NEW n \in Amounts, CreditNote(c, i, n)
        PROVE  posted[c] = 0 /\ invoiceOf' = [invoiceOf EXCEPT ![c] = i] /\ UNCHANGED paymentOf
    BY <2>4 DEF CreditNote, Enter
  <2>5. ASSUME NEW i \in Invoices, NEW d \in Days,
               ReverseInvoice(i, d) \/ \E k \in {"raw", "governed"}, n \in Amounts : PostInvoice(i, k, n, d)
        PROVE  UNCHANGED links
    BY <2>2, <2>5 DEF ReverseInvoice, PostInvoice
  <2>6. ASSUME NEW p \in Payments,
               \/ ReverseDeposit(p) \/ \E n \in Amounts : ReceiveDeposit(p, n)
               \/ \E d \in Days : ReversePayment(p, d) \/ \E n \in Amounts : PostPayment(p, n, d)
        PROVE  UNCHANGED links
    BY <2>2, <2>6 DEF ReversePayment, PostPayment, ReverseDeposit, ReceiveDeposit
  <2>7. ASSUME NEW a \in Allocations, ReverseApplication(a) \/ \E d \in Days : ReverseAllocation(a, d)
        PROVE  UNCHANGED links
    BY <2>2, <2>7 DEF ReverseApplication, ReverseAllocation
  <2>8. ASSUME NEW c \in Notes, ReverseCredit(c) PROVE UNCHANGED links
    BY <2>2, <2>8 DEF ReverseCredit
  <2> QED
    BY <2>1, <2>3, <2>4, <2>5, <2>6, <2>7, <2>8 DEF Next
<1> QED
  BY <1>1, <1>2, <1>3 DEF links

(* A paper that is entered pays or forgives as it may. *)
LEMMA PaperEntered ==
  ASSUME TypeOK, JournalOK, [Next]_vars, NEW s \in Allocations \cup Notes, posted[s] = 0, posted'[s] # 0
  PROVE  /\ s \in Allocations /\ kind'[paymentOf'[s]] = "deposit" => kind'[invoiceOf'[s]] = "governed"
         /\ s \in Notes => kind'[invoiceOf'[s]] = "governed"
<1> USE DocumentsAreSources
<1>1. ASSUME NEW a \in Allocations, NEW i \in Invoices, NEW p \in Payments, NEW n, NEW d,
             ApplyDeposit(a, i, p, n) \/ Allocate(a, i, p, n, d)
      PROVE  /\ s = a
             /\ kind'[paymentOf'[s]] = "deposit" => kind'[invoiceOf'[s]] = "governed"
  BY <1>1 DEF ApplyDeposit, Allocate, AllocateTo, Enter, TypeOK
<1>2. ASSUME NEW a \in Allocations, NEW i \in Invoices, NEW p \in Payments, CollectPayment(p, a, i)
      PROVE  s = a /\ kind'[paymentOf'[s]] = "collected"
  BY <1>2 DEF CollectPayment, TypeOK
<1>3. ASSUME NEW c \in Notes, NEW i \in Invoices, NEW n, CreditNote(c, i, n)
      PROVE  s = c /\ kind'[invoiceOf'[s]] = "governed"
  BY <1>3 DEF CreditNote, Enter, TypeOK
<1>4. ASSUME NEW e \in Documents, NEW k, NEW n, NEW day, NEW l, EnterDocument(e, k, n, day, l)
      PROVE  FALSE
  BY <1>4 DEF EnterDocument, Enter, TypeOK
<1>5. \/ \E e \in Documents : \E k, n, day, l : EnterDocument(e, k, n, day, l)
      \/ \E a \in Allocations, i \in Invoices, p \in Payments :
           \/ CollectPayment(p, a, i)
           \/ \E n, d : ApplyDeposit(a, i, p, n) \/ Allocate(a, i, p, n, d)
      \/ \E c \in Notes, i \in Invoices : \E n : CreditNote(c, i, n)
  BY DEF Next, vars, Tick, ClosePeriod, ReverseInvoice, PostInvoice, ReversePayment, PostPayment,
         ReverseDeposit, ReceiveDeposit, Classify,
         ReverseApplication, ReverseAllocation, Reverse, ReverseCredit
<1> QED
  BY <1>1, <1>2, <1>3, <1>4, <1>5

(* Guards move only on live documents, and what is voided has none. *)
LEMMA NothingRests ==
  ASSUME TypeOK, JournalOK, GuardsRest, [Next]_vars
  PROVE  /\ \A d \in Documents : ~ Live(d)' => allocated'[d] = 0
         /\ \A i \in Invoices : ~ Live(i)' => credited'[i] = 0
<1> DEFINE Rests(d) == ~ Live(d)' => allocated'[d] = 0 /\ (d \in Invoices => credited'[d] = 0)
<1> SUFFICES ASSUME NEW d \in Documents PROVE Rests(d)
  BY DocumentsAreSources
<1> USE DocumentsAreSources
<1>0. today \in Days /\ 0 \notin Days /\ (posted[d] = 0 => reversed[d] = 0)
  BY DEF TypeOK, Days, JournalOK, SourceOK, EntryOK
<1>1. ASSUME UNCHANGED <<posted, reversed, guards>>  PROVE Rests(d)
  BY <1>1 DEF Live, GuardsRest, guards
<1>2. ASSUME UNCHANGED <<posted, reversed>>, Live(d)  PROVE Rests(d)
  BY <1>2 DEF Live
<1>3. CASE UNCHANGED vars \/ Tick \/ \E first, last \in Days : ClosePeriod(first, last)
  BY <1>1, <1>3 DEF vars, undoing, Tick, ClosePeriod
<1>4. ASSUME NEW s \in Documents, NEW day \in Days, Classify(s, day)  PROVE Rests(d)
  BY <1>1, <1>4 DEF Classify, undoing
<1>5. ASSUME NEW s \in Documents, NEW day, NEW l, Reverse(s, day, l), UNCHANGED guards,
             allocated[s] = 0, s \in Invoices => credited[s] = 0
      PROVE  Rests(d)
  BY <1>5 DEF Reverse, TypeOK, Live, GuardsRest, guards
<1>6. ASSUME NEW s \in Documents, NEW k, NEW n, NEW day \in Days, NEW l, EnterDocument(s, k, n, day, l)
      PROVE  Rests(d)
  BY <1>0, <1>6 DEF EnterDocument, Enter, TypeOK, Live, GuardsRest, guards, undoing
<1>7. ASSUME NEW i \in Invoices, NEW day \in Days, ReverseInvoice(i, day)  PROVE Rests(d)
  BY <1>5, <1>7 DEF ReverseInvoice
<1>8. ASSUME NEW p \in Payments, NEW day \in Days, ReversePayment(p, day) \/ ReverseDeposit(p)
      PROVE  Rests(d)
  BY <1>5, <1>8 DEF ReversePayment, ReverseDeposit
<1>9. ASSUME NEW i \in Invoices, NEW day \in Days, NEW k \in {"raw", "governed"}, NEW n \in Amounts,
             PostInvoice(i, k, n, day)
      PROVE  Rests(d)
  BY <1>6, <1>9 DEF PostInvoice
<1>10. ASSUME NEW p \in Payments, NEW day \in Days, NEW n \in Amounts,
              PostPayment(p, n, day) \/ ReceiveDeposit(p, n)
       PROVE  Rests(d)
  BY <1>0, <1>6, <1>10 DEF PostPayment, ReceiveDeposit
<1>11. ASSUME NEW a \in Allocations, NEW i \in Invoices, NEW p \in Payments, NEW n, NEW day \in Days,
              NEW l, Enter(a, n, day, l), AllocateTo(a, i, p, n)
       PROVE  Rests(d)
  BY <1>11 DEF Enter, AllocateTo, TypeOK, Live, GuardsRest, undoing
<1>12. ASSUME NEW a \in Allocations, NEW i \in Invoices, NEW p \in Payments, NEW n \in Amounts,
              ApplyDeposit(a, i, p, n) \/ \E day \in Days : Allocate(a, i, p, n, day)
       PROVE  Rests(d)
  BY <1>0, <1>11, <1>12 DEF ApplyDeposit, Allocate
<1>13. ASSUME NEW p \in Payments, NEW a \in Allocations, NEW i \in Invoices, CollectPayment(p, a, i)
       PROVE  Rests(d)
  BY <1>0, <1>13 DEF CollectPayment, TypeOK, Live, GuardsRest, undoing
<1>14. ASSUME NEW a \in Allocations, NEW day, NEW l, posted[a] # 0, Reverse(a, day, l), Deallocate(a)
       PROVE  Rests(d)
  BY <1>14 DEF Reverse, Deallocate, TypeOK, Live, GuardsRest
<1>15. ASSUME NEW a \in Allocations, ReverseApplication(a) \/ \E day \in Days : ReverseAllocation(a, day)
       PROVE  Rests(d)
  BY <1>14, <1>15 DEF ReverseApplication, ReverseAllocation
<1>16. ASSUME NEW c \in Notes, NEW i \in Invoices, NEW n, CreditNote(c, i, n)
       PROVE  Rests(d)
  BY <1>16 DEF CreditNote, Enter, TypeOK, Live, GuardsRest, undoing
<1>17. ASSUME NEW c \in Notes, ReverseCredit(c)
       PROVE  Rests(d)
  BY <1>17 DEF ReverseCredit, Reverse, TypeOK, Live, GuardsRest
<1> HIDE DEF Rests
<1> QED
  BY <1>0, <1>3, <1>4, <1>7, <1>8, <1>9, <1>10, <1>12, <1>13, <1>15, <1>16, <1>17 DEF Next

LEMMA NextRests ==
  ASSUME TypeOK, JournalOK, GuardsRest, [Next]_vars
  PROVE  GuardsRest'
<1> USE DocumentsAreSources
<1>1. ASSUME NEW a \in Allocations, posted'[a] # 0, kind'[paymentOf'[a]] = "deposit"
      PROVE  kind'[invoiceOf'[a]] = "governed"
  <2>1. CASE posted[a] = 0
    BY <1>1, <2>1, PaperEntered
  <2>2. CASE posted[a] # 0
    <3>1. paymentOf[a] \in Payments /\ posted[paymentOf[a]] # 0 /\ invoiceOf[a] \in Invoices
      BY <2>2 DEF JournalOK, SourceOK, LinkOK
    <3>2. invoiceOf'[a] = invoiceOf[a] /\ paymentOf'[a] = paymentOf[a]
      BY <2>2, LinksStay
    <3>3. kind'[paymentOf[a]] = kind[paymentOf[a]]
      BY <3>1, KindStays
    <3>4. kind[invoiceOf[a]] = "governed"
      BY <1>1, <2>2, <3>2, <3>3 DEF GuardsRest
    <3>5. kind'[invoiceOf[a]] = kind[invoiceOf[a]]
      BY <3>1, <3>4, KindStays
    <3> QED
      BY <3>2, <3>4, <3>5
  <2> QED
    BY <2>1, <2>2
<1>2. ASSUME NEW c \in Notes, posted'[c] # 0  PROVE kind'[invoiceOf'[c]] = "governed"
  <2>1. CASE posted[c] = 0
    BY <1>2, <2>1, PaperEntered
  <2>2. CASE posted[c] # 0
    <3>1. invoiceOf[c] \in Invoices /\ invoiceOf'[c] = invoiceOf[c] /\ kind[invoiceOf[c]] = "governed"
      BY <2>2, LinksStay DEF JournalOK, SourceOK, LinkOK, GuardsRest
    <3>2. kind'[invoiceOf[c]] = kind[invoiceOf[c]]
      BY <3>1, KindStays
    <3> QED
      BY <3>1, <3>2
  <2> QED
    BY <2>1, <2>2
<1> QED
  BY <1>1, <1>2, NothingRests DEF GuardsRest

LEMMA InitGuards == Init => GuardsAgree /\ GuardsRest
<1> SUFFICES ASSUME Init  PROVE GuardsAgree /\ GuardsRest
  OBVIOUS
<1>1. \A s \in Sources : Counted[s] = 0
  BY DEF Init, Counted, Live
<1>2. ASSUME NEW S, S \subseteq Sources  PROVE Total(S) = 0
  BY <1>1, <1>2, SourcesAreFinite, FS_Subset, SumOfZeros DEF Total
<1>3. \A i \in Invoices : About(Allocations, i) \subseteq Sources /\ About(Notes, i) \subseteq Sources
  BY DocumentsAreSources DEF About
<1>4. \A p \in Payments : OutOf(p) \subseteq Sources
  BY DocumentsAreSources DEF OutOf
<1> QED
  BY <1>2, <1>3, <1>4, DocumentsAreSources DEF Init, GuardsAgree, GuardsRest

(* The guards agree with what they guard, for any number of documents. *)
LEMMA GuardsKept == Spec => [](TypeOK /\ JournalOK /\ GuardsAgree /\ GuardsRest)
<1>1. TypeOK /\ TypeOK' /\ JournalOK /\ GuardsAgree /\ GuardsRest /\ [Next]_vars
        => GuardsAgree' /\ GuardsRest'
  BY NextGuards, NextRests
<1> QED
  BY <1>1, InitGuards, TypeCorrect, JournalKept, PTL DEF Spec

-----------------------------------------------------------------------------
(* The ledger agrees *)

LineOf(x) == [s \in Sources |-> entry[s][x] + mirror[s][x] + correction[s][x]]

LEMMA LinesTyped ==
  ASSUME TypeOK, NEW x \in Accounts
  PROVE  /\ \A s \in Sources : LineOf(x)[s] \in Int
         /\ Balance(x) = SumFunctionOnSet(LineOf(x), Sources)
<1>1. \A s \in Sources : entry[s][x] \in Int /\ mirror[s][x] \in Int /\ correction[s][x] \in Int
  BY DEF TypeOK, Lines
<1> QED
  BY <1>1 DEF LineOf, Balance, SumFunction

LEMMA BookedLine ==
  ASSUME NEW s \in Sources, NEW debit, NEW credit, Booked(s, debit, credit), NEW x \in Accounts
  PROVE  LineOf(x)[s] = IF ~ Live(s) THEN 0 ELSE IF x = debit THEN amount[s]
                        ELSE IF x = credit THEN -amount[s] ELSE 0
<1>1. LineOf(x)[s] = [y \in Accounts |-> entry[s][y] + mirror[s][y] + correction[s][y]][x]
  BY DEF LineOf
<1>2. LineOf(x)[s] = (IF Live(s) THEN Transfer(amount[s], debit, credit) ELSE Blank)[x]
  BY <1>1 DEF Booked
<1> QED
  BY <1>2 DEF Transfer, Blank

Control == {"receivable", "advances", "unapplied"}

(* What each kind of source comes to in the three control accounts. *)
LEMMA ControlLines ==
  ASSUME TypeOK, JournalOK, SourcesInBooks
  PROVE  /\ \A i \in Invoices : /\ LineOf("receivable")[i] = Counted[i]
                                /\ LineOf("advances")[i] = 0 /\ LineOf("unapplied")[i] = 0
         /\ \A p \in Payments :
              /\ LineOf("receivable")[p] = 0
              /\ LineOf("advances")[p] = IF p \in Deposits THEN -Counted[p] ELSE 0
              /\ LineOf("unapplied")[p] = IF p \in Deposits THEN 0 ELSE -Counted[p]
         /\ \A a \in Allocations :
              /\ LineOf("receivable")[a] = -Counted[a]
              /\ LineOf("advances")[a] = IF paymentOf[a] \in Deposits THEN Counted[a] ELSE 0
              /\ LineOf("unapplied")[a] = IF paymentOf[a] \in Payments \ Deposits THEN Counted[a] ELSE 0
         /\ \A c \in Notes : /\ LineOf("receivable")[c] = -Counted[c]
                             /\ LineOf("advances")[c] = 0 /\ LineOf("unapplied")[c] = 0
<1> USE DocumentsAreSources
<1>0. Control \subseteq Accounts
  BY DEF Control, Accounts
<1>1. ASSUME NEW i \in Invoices
      PROVE  /\ LineOf("receivable")[i] = Counted[i]
             /\ LineOf("advances")[i] = 0 /\ LineOf("unapplied")[i] = 0
  <2>1. PICK c \in {"invoices_pending", "revenue"} : Booked(i, "receivable", c)
    BY DEF SourcesInBooks
  <2> QED
    BY <1>0, <2>1, BookedLine DEF Control, Counted
<1>2. ASSUME NEW p \in Payments
      PROVE  /\ LineOf("receivable")[p] = 0
             /\ LineOf("advances")[p] = IF p \in Deposits THEN -Counted[p] ELSE 0
             /\ LineOf("unapplied")[p] = IF p \in Deposits THEN 0 ELSE -Counted[p]
  <2>1. PICK d \in {"receipts_pending", "cash"} : Booked(p, d, HeldAs(p))
    BY DEF SourcesInBooks
  <2> QED
    BY <1>0, <2>1, BookedLine DEF Control, Counted, HeldAs, Deposits
<1>3. ASSUME NEW a \in Allocations
      PROVE  /\ LineOf("receivable")[a] = -Counted[a]
             /\ LineOf("advances")[a] = IF paymentOf[a] \in Deposits THEN Counted[a] ELSE 0
             /\ LineOf("unapplied")[a] = IF paymentOf[a] \in Payments \ Deposits THEN Counted[a] ELSE 0
  <2>1. CASE posted[a] = 0
    <3>1. entry[a] = Blank /\ mirror[a] = Blank /\ correction[a] = Blank /\ Counted[a] = 0
      BY <2>1, NotCounted DEF JournalOK, SourceOK, EntryOK, MirrorOK, CorrectionOK
    <3>2. \A x \in Control : LineOf(x)[a] = 0
      BY <1>0, <3>1 DEF LineOf, Blank
    <3> QED
      BY <3>1, <3>2 DEF Control
  <2>2. CASE posted[a] # 0
    <3>1. Booked(a, HeldAs(paymentOf[a]), "receivable") /\ paymentOf[a] \in Payments
      BY <2>2 DEF SourcesInBooks, JournalOK, SourceOK, LinkOK
    <3> QED
      BY <1>0, <3>1, BookedLine DEF Control, Counted, HeldAs, Deposits
  <2> QED
    BY <2>1, <2>2
<1>4. ASSUME NEW c \in Notes
      PROVE  /\ LineOf("receivable")[c] = -Counted[c]
             /\ LineOf("advances")[c] = 0 /\ LineOf("unapplied")[c] = 0
  <2>1. Booked(c, "revenue", "receivable")
    BY DEF SourcesInBooks
  <2> QED
    BY <1>0, <2>1, BookedLine DEF Control, Counted
<1> QED
  BY <1>1, <1>2, <1>3, <1>4

LEMMA SumOverSources ==
  ASSUME NEW f, \A s \in Sources : f[s] \in Int
  PROVE  SumFunctionOnSet(f, Sources)
           = SumFunctionOnSet(f, Invoices) + SumFunctionOnSet(f, Payments)
             + SumFunctionOnSet(f, Allocations) + SumFunctionOnSet(f, Notes)
<1> USE PapersAreFinite
<1>1. SumFunctionOnSet(f, Invoices \cup Payments)
        = SumFunctionOnSet(f, Invoices) + SumFunctionOnSet(f, Payments)
  BY SumOfUnion, SourcesAreDistinct DEF Sources, Documents
<1>2. SumFunctionOnSet(f, (Invoices \cup Payments) \cup Allocations)
        = SumFunctionOnSet(f, Invoices \cup Payments) + SumFunctionOnSet(f, Allocations)
  <2>1. IsFiniteSet(Invoices \cup Payments)
    BY FS_Union
  <2>2. (Invoices \cup Payments) \cap Allocations = {}
    BY SourcesAreDistinct DEF Documents
  <2> QED
    BY <2>1, <2>2, SumOfUnion DEF Sources, Documents
<1>3. SumFunctionOnSet(f, ((Invoices \cup Payments) \cup Allocations) \cup Notes)
        = SumFunctionOnSet(f, (Invoices \cup Payments) \cup Allocations) + SumFunctionOnSet(f, Notes)
  <2>1. IsFiniteSet((Invoices \cup Payments) \cup Allocations)
    BY FS_Union
  <2>2. ((Invoices \cup Payments) \cup Allocations) \cap Notes = {}
    BY SourcesAreDistinct DEF Documents
  <2> QED
    BY <2>1, <2>2, SumOfUnion DEF Sources, Documents
<1>4. Sources = ((Invoices \cup Payments) \cup Allocations) \cup Notes
  BY DEF Sources, Documents
<1> QED
  BY <1>1, <1>2, <1>3, <1>4

(* What is left of invoices is what they count less their allocations and credits. *)
LEMMA LeftOfInvoices ==
  ASSUME TypeOK, GuardsAgree, GuardsRest, NEW D, D \subseteq Invoices
  PROVE  LeftOf(D) = Total(D) - Total(LinkedInto(Allocations, invoiceOf, D))
                              - Total(LinkedInto(Notes, invoiceOf, D))
<1> USE DocumentsAreSources, PapersAreFinite
<1> DEFINE A == [i \in D |-> SumFunctionOnSet(Counted, Linked(Allocations, invoiceOf, i))]
           C == [i \in D |-> SumFunctionOnSet(Counted, Linked(Notes, invoiceOf, i))]
           G == [i \in D |-> A[i] + C[i]]
<1>1. IsFiniteSet(D)
  BY FS_Subset
<1>2. \A s \in Sources : Counted[s] \in Int
  BY CountedTyped
<1>3. \A i \in D : A[i] = allocated[i] /\ C[i] = credited[i]
  BY DEF GuardsAgree, Total, About, Linked
<1>4. \A i \in D : /\ A[i] \in Int /\ C[i] \in Int /\ G[i] = A[i] + C[i] /\ G[i] \in Int
                   /\ Left[i] \in Int /\ Counted[i] = Left[i] + G[i]
  <2> HIDE DEF A, C
  <2>1. ASSUME NEW i \in D  PROVE G[i] = allocated[i] + credited[i] /\ amount[i] \in Int
                                   /\ allocated[i] \in Int /\ credited[i] \in Int
    BY <1>3, BoundsArePositive DEF TypeOK
  <2>2. ASSUME NEW i \in D
        PROVE  /\ Left[i] = IF Live(i) THEN amount[i] - allocated[i] - credited[i] ELSE 0
               /\ Counted[i] = IF Live(i) THEN amount[i] ELSE 0
    BY DEF Left, Counted, Due
  <2>3. \A i \in D : ~ Live(i) => allocated[i] = 0 /\ credited[i] = 0
    BY DEF GuardsRest
  <2>4. \A i \in D : G[i] = A[i] + C[i]
    OBVIOUS
  <2> HIDE DEF G
  <2> SUFFICES ASSUME NEW i \in D
               PROVE  /\ A[i] \in Int /\ C[i] \in Int /\ G[i] = A[i] + C[i] /\ G[i] \in Int
                      /\ Left[i] \in Int /\ Counted[i] = Left[i] + G[i]
    OBVIOUS
  <2>5. A[i] = allocated[i] /\ C[i] = credited[i] /\ G[i] = allocated[i] + credited[i]
    BY <1>3, <2>4
  <2>6. CASE Live(i)
    <3>1. Left[i] = amount[i] - allocated[i] - credited[i] /\ Counted[i] = amount[i]
      BY <2>2, <2>6
    <3> QED
      BY <2>1, <2>5, <3>1
  <2>7. CASE ~ Live(i)
    <3>1. Left[i] = 0 /\ Counted[i] = 0 /\ allocated[i] = 0 /\ credited[i] = 0
      BY <2>2, <2>3, <2>7
    <3> QED
      BY <2>5, <3>1
  <2> QED
    BY <2>6, <2>7
<1>5. SumFunctionOnSet(A, D) = SumFunctionOnSet(Counted, LinkedInto(Allocations, invoiceOf, D))
  BY <1>1, <1>2, SumByTarget
<1>6. SumFunctionOnSet(C, D) = SumFunctionOnSet(Counted, LinkedInto(Notes, invoiceOf, D))
  BY <1>1, <1>2, SumByTarget
<1> HIDE DEF A, C, G
<1>7. SumFunctionOnSet(G, D) = SumFunctionOnSet(A, D) + SumFunctionOnSet(C, D)
  BY <1>1, <1>4, SumOfSums
<1>8. SumFunctionOnSet(Counted, D) = SumFunctionOnSet(Left, D) + SumFunctionOnSet(G, D)
  BY <1>1, <1>4, SumOfSums
<1>9. /\ SumFunctionOnSet(Left, D) \in Int
      /\ SumFunctionOnSet(A, D) \in Int /\ SumFunctionOnSet(C, D) \in Int
  BY <1>1, <1>4, SumIsInt
<1> QED
  BY <1>5, <1>6, <1>7, <1>8, <1>9 DEF LeftOf, Total

(* What is left of receipts is what they count less what was spent of them. *)
LEMMA LeftOfPayments ==
  ASSUME TypeOK, GuardsAgree, GuardsRest, NEW D, D \subseteq Payments
  PROVE  LeftOf(D) = Total(D) - Total(LinkedInto(Allocations, paymentOf, D))
<1> USE DocumentsAreSources, PapersAreFinite
<1> DEFINE A == [p \in D |-> SumFunctionOnSet(Counted, Linked(Allocations, paymentOf, p))]
<1>1. IsFiniteSet(D)
  BY FS_Subset
<1>2. \A s \in Sources : Counted[s] \in Int
  BY CountedTyped
<1>3. \A p \in D : A[p] = allocated[p]
  BY DEF GuardsAgree, Total, OutOf, Linked
<1>4. \A p \in D : A[p] \in Int /\ Left[p] \in Int /\ Counted[p] = Left[p] + A[p]
  <2> HIDE DEF A
  <2>1. ASSUME NEW p \in D  PROVE amount[p] \in Int /\ allocated[p] \in Int
    BY BoundsArePositive DEF TypeOK
  <2> QED
    BY <1>2, <1>3, <2>1 DEF Left, Counted, GuardsRest
<1>5. SumFunctionOnSet(A, D) = SumFunctionOnSet(Counted, LinkedInto(Allocations, paymentOf, D))
  BY <1>1, <1>2, SumByTarget
<1> HIDE DEF A
<1>6. SumFunctionOnSet(Counted, D) = SumFunctionOnSet(Left, D) + SumFunctionOnSet(A, D)
  BY <1>1, <1>4, SumOfSums
<1>7. SumFunctionOnSet(Left, D) \in Int /\ SumFunctionOnSet(A, D) \in Int
  BY <1>1, <1>4, SumIsInt
<1> QED
  BY <1>5, <1>6, <1>7 DEF LeftOf, Total

(* Only sources that count make up a total. *)
LEMMA TotalOfPart ==
  ASSUME TypeOK, NEW S, S \subseteq Sources, NEW T, T \subseteq S, \A s \in S \ T : Counted[s] = 0
  PROVE  Total(S) = Total(T)
<1>1. IsFiniteSet(S)
  BY SourcesAreFinite, FS_Subset
<1>2. \A s \in T : Counted[s] \in Int
  BY CountedTyped
<1> QED
  BY <1>1, <1>2, SumOfPart DEF Total

LEMMA TotalTyped ==
  ASSUME TypeOK, NEW S, S \subseteq Sources
  PROVE  Total(S) \in Int
<1>1. IsFiniteSet(S)
  BY SourcesAreFinite, FS_Subset
<1> QED
  BY <1>1, CountedTyped, SumIsInt DEF Total

(* What is live was entered about an invoice and, if an allocation, out of a receipt. *)
LEMMA CountedIsLinked ==
  ASSUME TypeOK, JournalOK
  PROVE  /\ \A s \in Allocations \cup Notes : invoiceOf[s] \notin Invoices => Counted[s] = 0
         /\ \A a \in Allocations : paymentOf[a] \notin Payments => Counted[a] = 0
<1> USE DocumentsAreSources
<1>1. ASSUME NEW s \in Sources  PROVE posted[s] = 0 => Counted[s] = 0
  BY <1>1, NotCounted
<1>2. \A s \in Sources : LinkOK(s)
  BY DEF JournalOK, SourceOK
<1> QED
  BY <1>1, <1>2 DEF LinkOK

LEMMA LineTotal ==
  ASSUME TypeOK, NEW x \in Accounts
  PROVE  Balance(x) = SumFunctionOnSet(LineOf(x), Invoices) + SumFunctionOnSet(LineOf(x), Payments)
                      + SumFunctionOnSet(LineOf(x), Allocations) + SumFunctionOnSet(LineOf(x), Notes)
  BY LinesTyped, SumOverSources

LEMMA ReceivableAgrees ==
  ASSUME TypeOK, JournalOK, SourcesInBooks, GuardsAgree, GuardsRest
  PROVE  Balance("receivable") = LeftOf(Invoices)
<1> USE DocumentsAreSources, PapersAreFinite
<1> DEFINE f == LineOf("receivable")
<1>0. \A s \in Sources : Counted[s] \in Int
  BY CountedTyped
<1>1. /\ \A i \in Invoices : f[i] = Counted[i]
      /\ \A p \in Payments : f[p] = 0
      /\ \A s \in Allocations \cup Notes : f[s] = -Counted[s]
  BY ControlLines
<1>2. Balance("receivable") = SumFunctionOnSet(f, Invoices) + SumFunctionOnSet(f, Payments)
                              + SumFunctionOnSet(f, Allocations) + SumFunctionOnSet(f, Notes)
  BY LineTotal DEF Accounts
<1> HIDE DEF f
<1>3. SumFunctionOnSet(f, Invoices) = Total(Invoices)
  BY <1>1, SumOfSame DEF Total
<1>4. SumFunctionOnSet(f, Payments) = 0
  BY <1>1, SumOfZeros
<1>5. SumFunctionOnSet(f, Allocations) = -Total(Allocations)
  BY <1>0, <1>1, SumOfNegated DEF Total
<1>6. SumFunctionOnSet(f, Notes) = -Total(Notes)
  BY <1>0, <1>1, SumOfNegated DEF Total
<1>7. Total(Allocations) = Total(LinkedInto(Allocations, invoiceOf, Invoices))
  BY CountedIsLinked, TotalOfPart DEF LinkedInto
<1>8. Total(Notes) = Total(LinkedInto(Notes, invoiceOf, Invoices))
  BY CountedIsLinked, TotalOfPart DEF LinkedInto
<1>9. LeftOf(Invoices) = Total(Invoices) - Total(LinkedInto(Allocations, invoiceOf, Invoices))
                         - Total(LinkedInto(Notes, invoiceOf, Invoices))
  BY LeftOfInvoices
<1>10. Total(Invoices) \in Int /\ Total(Allocations) \in Int /\ Total(Notes) \in Int
  BY TotalTyped
<1> QED
  BY <1>2, <1>3, <1>4, <1>5, <1>6, <1>7, <1>8, <1>9, <1>10

(* An account in which receipts of one sort are held until they are spent. *)
LEMMA HeldAgrees ==
  ASSUME TypeOK, JournalOK, GuardsAgree, GuardsRest, NEW x \in Accounts, NEW D, D \subseteq Payments,
         \A i \in Invoices : LineOf(x)[i] = 0,
         \A p \in Payments : LineOf(x)[p] = IF p \in D THEN -Counted[p] ELSE 0,
         \A a \in Allocations : LineOf(x)[a] = IF paymentOf[a] \in D THEN Counted[a] ELSE 0,
         \A c \in Notes : LineOf(x)[c] = 0
  PROVE  Balance(x) = -LeftOf(D)
<1> USE DocumentsAreSources, PapersAreFinite
<1> DEFINE f == LineOf(x)
           g == [p \in Payments |-> IF p \in D THEN Counted[p] ELSE 0]
           spent == LinkedInto(Allocations, paymentOf, D)
<1>0. \A s \in Sources : Counted[s] \in Int
  BY CountedTyped
<1>1. Balance(x) = SumFunctionOnSet(f, Invoices) + SumFunctionOnSet(f, Payments)
                   + SumFunctionOnSet(f, Allocations) + SumFunctionOnSet(f, Notes)
  BY LineTotal
<1>2. SumFunctionOnSet(f, Invoices) = 0 /\ SumFunctionOnSet(f, Notes) = 0
  BY SumOfZeros
<1>3. SumFunctionOnSet(f, Payments) = -Total(D)
  <2>1. \A p \in Payments : g[p] \in Int /\ f[p] = -g[p]
    BY <1>0
  <2>2. \A p \in D : Counted[p] \in Int /\ g[p] = Counted[p]
    BY <1>0
  <2>3. \A p \in Payments \ D : g[p] = 0
    OBVIOUS
  <2> HIDE DEF f, g
  <2>4. SumFunctionOnSet(f, Payments) = -SumFunctionOnSet(g, Payments)
    BY <2>1, SumOfNegated
  <2>5. SumFunctionOnSet(g, Payments) = SumFunctionOnSet(Counted, D)
    BY <2>2, <2>3, SumOfPart
  <2> QED
    BY <2>4, <2>5 DEF Total
<1>4. SumFunctionOnSet(f, Allocations) = Total(spent)
  <2>1. \A a \in spent : Counted[a] \in Int /\ f[a] = Counted[a]
    BY <1>0 DEF LinkedInto
  <2>2. \A a \in Allocations \ spent : f[a] = 0
    BY DEF LinkedInto
  <2>3. spent \subseteq Allocations
    BY DEF LinkedInto
  <2> HIDE DEF f, spent
  <2> QED
    BY <2>1, <2>2, <2>3, SumOfPart DEF Total
<1>5. LeftOf(D) = Total(D) - Total(spent)
  BY LeftOfPayments
<1>6. Total(D) \in Int /\ Total(spent) \in Int
  BY TotalTyped DEF LinkedInto
<1> HIDE DEF f, spent
<1> QED
  BY <1>1, <1>2, <1>3, <1>4, <1>5, <1>6

LEMMA StatementAgrees ==
  ASSUME TypeOK, JournalOK, GuardsAgree, GuardsRest
  PROVE  Statement = LeftOf(Governed) - LeftOf(Deposits)
<1> USE DocumentsAreSources, PapersAreFinite
<1> DEFINE received == {a \in Allocations : invoiceOf[a] \in Governed /\ paymentOf[a] \notin Deposits}
           applied == {a \in Allocations : invoiceOf[a] \in Governed /\ paymentOf[a] \in Deposits}
           paid == LinkedInto(Allocations, invoiceOf, Governed)
           spent == LinkedInto(Allocations, paymentOf, Deposits)
           noted == LinkedInto(Notes, invoiceOf, Governed)
<1>1. Governed \subseteq Invoices /\ Deposits \subseteq Payments
  BY DEF Governed, Deposits
<1>2. Total(paid) = Total(received) + Total(applied)
  <2>1. /\ paid = received \cup applied /\ received \cap applied = {}
        /\ received \subseteq Allocations /\ applied \subseteq Allocations
    BY DEF LinkedInto
  <2>2. IsFiniteSet(received) /\ IsFiniteSet(applied)
    BY <2>1, FS_Subset
  <2>3. \A a \in received \cup applied : Counted[a] \in Int
    BY <2>1, CountedTyped
  <2> HIDE DEF received, applied, paid
  <2> QED
    BY <2>1, <2>2, <2>3, SumOfUnion DEF Total
<1>3. Total(spent) = Total(applied)
  <2>1. applied \subseteq spent /\ spent \subseteq Sources
    BY DEF LinkedInto
  <2>2. ASSUME NEW a \in spent \ applied  PROVE Counted[a] = 0
    <3>1. a \in Allocations /\ paymentOf[a] \in Deposits /\ invoiceOf[a] \notin Governed
      BY <2>2 DEF LinkedInto
    <3>2. posted[a] # 0 => kind[invoiceOf[a]] = "governed"
      BY <3>1 DEF GuardsRest, Deposits
    <3>3. CASE invoiceOf[a] \notin Invoices
      BY <3>1, <3>3, CountedIsLinked
    <3>4. CASE posted[a] = 0
      BY <3>1, <3>4, NotCounted
    <3> QED
      BY <3>1, <3>2, <3>3, <3>4 DEF Governed
  <2> HIDE DEF applied, spent
  <2> QED
    BY <2>1, <2>2, TotalOfPart
<1>4. Total(Notes) = Total(noted)
  <2>1. noted \subseteq Notes
    BY DEF LinkedInto
  <2>2. ASSUME NEW c \in Notes \ noted  PROVE Counted[c] = 0
    <3>1. invoiceOf[c] \notin Governed
      BY DEF LinkedInto
    <3>2. CASE invoiceOf[c] \notin Invoices
      BY <3>2, CountedIsLinked
    <3>3. CASE posted[c] = 0
      BY <3>3, NotCounted
    <3> QED
      BY <3>1, <3>2, <3>3 DEF Governed, GuardsRest
  <2> HIDE DEF noted
  <2> QED
    BY <2>1, <2>2, TotalOfPart
<1>5. LeftOf(Governed) = Total(Governed) - Total(paid) - Total(noted)
  BY <1>1, LeftOfInvoices
<1>6. LeftOf(Deposits) = Total(Deposits) - Total(spent)
  BY <1>1, LeftOfPayments
<1>7. /\ Total(Governed) \in Int /\ Total(Deposits) \in Int /\ Total(received) \in Int
      /\ Total(applied) \in Int /\ Total(noted) \in Int
  BY <1>1, TotalTyped DEF LinkedInto
<1>8. Statement = Total(Governed) - Total(received) - Total(Notes) - Total(Deposits)
  BY DEF Statement
<1> HIDE DEF received, applied, paid, spent, noted
<1> QED
  BY <1>2, <1>3, <1>4, <1>5, <1>6, <1>7, <1>8

(* finance.ts, accounting.ts, customer-accounts.ts: the guard rows, the control
   accounts of the journal and the customer's statement say the same about what is
   left of the invoices and the receipts, whatever was entered, allocated, credited,
   classified and reversed, in any order. *)
THEOREM LedgerAlwaysAgrees == Spec => []LedgerAgrees
<1>1. ASSUME TypeOK, JournalOK, GuardsAgree, GuardsRest
      PROVE  LedgerAgrees
  <2>1. SourcesInBooks
    BY <1>1, JournalBooks
  <2>2. Balance("receivable") = LeftOf(Invoices)
    BY <1>1, <2>1, ReceivableAgrees
  <2>3. Deposits \subseteq Payments /\ Payments \ Deposits \subseteq Payments
    BY DEF Deposits
  <2>4. "advances" \in Accounts /\ "unapplied" \in Accounts
    BY DEF Accounts
  <2>5. Balance("advances") = -LeftOf(Deposits)
    BY <1>1, <2>1, <2>3, <2>4, ControlLines, HeldAgrees
  <2>6. Balance("unapplied") = -LeftOf(Payments \ Deposits)
    BY <1>1, <2>1, <2>3, <2>4, ControlLines, HeldAgrees
  <2>7. Statement = LeftOf(Governed) - LeftOf(Deposits)
    BY <1>1, StatementAgrees
  <2> QED
    BY <1>1, <2>2, <2>5, <2>6, <2>7 DEF LedgerAgrees
<1> QED
  BY <1>1, GuardsKept, PTL

-----------------------------------------------------------------------------
(* Billing: types *)

LEMMA PrepareTyped ==
  ASSUME BillingTypeOK,
         NEW caller \in Scopes, NEW scope \in Scopes, NEW k \in Keys,
         NEW p \in Periods, NEW source \in Keys \cup {NoRun},
         Prepare(caller, k, p, scope, source)
  PROVE  BillingTypeOK'
<1> DEFINE due == Candidates(p, scope, source)
           result == [s \in Services |-> IF s \in due THEN Rated(s, p) ELSE "none"]
           run == [by |-> caller, period |-> p, scope |-> scope, source |-> source,
                   status |-> IF \E s \in due : result[s] = "failed"
                              THEN "failed" ELSE "succeeded"]
<1>1. result \in [Services -> Outcomes]
  BY DEF Rated, Outcomes
<1>2. run \in Runs
  BY DEF Runs
<1>3. due \subseteq Services
  BY DEF Candidates, BillingTypeOK
<1>4. \A s \in due : Draft(s, p, k, FALSE) \in Drafts
  BY <1>3 DEF Draft, Drafts
<1>5. /\ runs' = [runs EXCEPT ![k] = run]
      /\ outcome' = [outcome EXCEPT ![k] = result]
      /\ drafts' = drafts \cup {Draft(s, p, k, FALSE) : s \in {t \in due : result[t] = "prepared"}}
      /\ UNCHANGED <<active, config, awaiting>>
  BY DEF Prepare
<1> HIDE DEF due, result, run
<1> QED
  BY <1>1, <1>2, <1>4, <1>5 DEF BillingTypeOK

LEMMA FirstBillTyped ==
  ASSUME BillingTypeOK,
         NEW caller \in Scopes, NEW k \in Keys, NEW s \in Newcomers, NEW p \in Periods,
         FirstBill(caller, k, s, p)
  PROVE  BillingTypeOK'
<1> DEFINE run == [by |-> caller, period |-> p, scope |-> BranchOf[s],
                   source |-> NoRun, status |-> "succeeded"]
<1>1. s \in Services /\ BranchOf[s] \in Scopes
  BY ServicesAssumption DEF Scopes
<1>2. run \in Runs /\ Draft(s, p, k, TRUE) \in Drafts
  BY <1>1 DEF Runs, Draft, Drafts
<1>3. /\ runs' = [runs EXCEPT ![k] = run]
      /\ drafts' = drafts \cup {Draft(s, p, k, TRUE)}
      /\ awaiting' = awaiting \ {s}
      /\ UNCHANGED <<outcome, active, config>>
  BY DEF FirstBill
<1> HIDE DEF run
<1> QED
  BY <1>2, <1>3 DEF BillingTypeOK

LEMMA RecoveryNextTyped == RecoveryTypeOK /\ [RecoveryNext]_recoveryVars => RecoveryTypeOK'
<1> SUFFICES ASSUME RecoveryTypeOK, [RecoveryNext]_recoveryVars PROVE RecoveryTypeOK'
  OBVIOUS
<1> USE AmountAssumption
<1>1. ASSUME NEW caller \in Scopes, NEW scope \in Scopes, NEW k \in Keys, NEW p \in Periods,
             NEW source \in Keys \cup {NoRun},
             Prepare(caller, k, p, scope, source), UNCHANGED dunning
      PROVE  RecoveryTypeOK'
  BY <1>1, PrepareTyped DEF RecoveryTypeOK, dunning
<1>2. ASSUME NEW caller \in Scopes, NEW k \in Keys, NEW s \in Newcomers, NEW p \in Periods,
             FirstBill(caller, k, s, p), UNCHANGED dunning
      PROVE  RecoveryTypeOK'
  BY <1>2, FirstBillTyped DEF RecoveryTypeOK, dunning
<1>3. ASSUME NEW s \in Services, SwitchService(s), UNCHANGED dunning
      PROVE  RecoveryTypeOK'
  BY <1>3 DEF RecoveryTypeOK, BillingTypeOK, SwitchService, dunning
<1>4. ASSUME NEW s \in Services, NEW value \in Configs, Configure(s, value), UNCHANGED dunning
      PROVE  RecoveryTypeOK'
  BY <1>4 DEF RecoveryTypeOK, BillingTypeOK, Configure, dunning
<1>5. ASSUME NEW s \in Newcomers, NEW rest \in 0..Amount, Settle(s, rest) \/ Release(s, rest)
      PROVE  RecoveryTypeOK'
  BY <1>5 DEF RecoveryTypeOK, BillingTypeOK, Settle, Release, billing
<1>6. ASSUME NEW s \in Newcomers, ReverseBill(s)
      PROVE  RecoveryTypeOK'
  BY <1>6 DEF RecoveryTypeOK, BillingTypeOK, ReverseBill, billing
<1>7. ASSUME NEW scope \in Scopes, NEW age \in [Newcomers -> {0} \cup Stages],
             Evaluate(scope, age)
      PROVE  RecoveryTypeOK'
  <2>1. ASSUME NEW s \in Newcomers, cases[s].stage # Resolved
        PROVE  Evaluated(s, age) \in [stage : {0, Resolved} \cup Stages, outstanding : 0..Amount]
    BY <2>1 DEF RecoveryTypeOK, Evaluated, Debt, Stages, Resolved
  <2>2. cases' = [s \in Newcomers |->
           IF s \in Overdue(scope, age) THEN Evaluated(s, age) ELSE cases[s]]
    BY <1>7 DEF Evaluate
  <2>3. \A s \in Newcomers : s \in Overdue(scope, age) => cases[s].stage # Resolved
    BY <1>7 DEF Evaluate
  <2>4. cases' \in [Newcomers -> [stage : {0, Resolved} \cup Stages, outstanding : 0..Amount]]
    BY <2>1, <2>2, <2>3 DEF RecoveryTypeOK
  <2> QED
    BY <1>7, <2>4 DEF RecoveryTypeOK, BillingTypeOK, Evaluate, billing
<1>8. CASE UNCHANGED recoveryVars
  BY <1>8 DEF RecoveryTypeOK, BillingTypeOK, recoveryVars, billing, dunning
<1> QED
  BY <1>1, <1>2, <1>3, <1>4, <1>5, <1>6, <1>7, <1>8 DEF RecoveryNext

LEMMA RecoveryInitTyped == RecoveryInit => RecoveryTypeOK
  BY ServicesAssumption, AmountAssumption
     DEF RecoveryInit, RecoveryTypeOK, BillingInit, BillingTypeOK, Outcomes, Configs, NoCase, Stages

(* Every variable keeps its type, for any services, branches and periods. *)
THEOREM RecoveryTypeCorrect == RecoverySpec => []RecoveryTypeOK
<1> QED
  BY RecoveryInitTyped, RecoveryNextTyped, PTL DEF RecoverySpec

-----------------------------------------------------------------------------
(* Cases *)

LEMMA OnlyEvaluationsTouchCases ==
  ASSUME [RecoveryNext]_recoveryVars, cases' # cases
  PROVE  \E scope \in Scopes, age \in [Newcomers -> {0} \cup Stages] : Evaluate(scope, age)
<1>1. ~UNCHANGED dunning /\ ~UNCHANGED recoveryVars
  BY DEF dunning, recoveryVars
<1>2. \A s \in Newcomers, rest \in 0..Amount : ~Settle(s, rest) /\ ~Release(s, rest)
  BY DEF Settle, Release
<1>3. \A s \in Newcomers : ~ReverseBill(s)
  BY DEF ReverseBill
<1> QED
  BY <1>1, <1>2, <1>3, Zenon DEF RecoveryNext

(* billing.ts:456-489.  A case only advances, is settled once, and says after
   each evaluation what its invoice owes. *)
THEOREM CasesOnlyAdvance == RecoverySpec => CasesFollowTheDebt
<1> DEFINE Followed(s) ==
      cases'[s] # cases[s] =>
        /\ cases[s].stage # Resolved /\ cases'[s].stage >= cases[s].stage
        /\ cases'[s].outstanding = Debt(s)
        /\ cases'[s].stage = Resolved <=> Debt(s) = 0
<1>1. ASSUME RecoveryTypeOK, [RecoveryNext]_recoveryVars, NEW s \in Newcomers, cases'[s] # cases[s]
      PROVE  Followed(s)
  <2>1. PICK scope \in Scopes, age \in [Newcomers -> {0} \cup Stages] : Evaluate(scope, age)
    BY <1>1, OnlyEvaluationsTouchCases
  <2>2. cases'[s] = Evaluated(s, age) /\ s \in Overdue(scope, age) /\ cases[s].stage # Resolved
    BY <1>1, <2>1 DEF Evaluate
  <2>3. cases[s].stage \in {0} \cup Stages /\ age[s] \in {0} \cup Stages
    BY <1>1, <2>2 DEF RecoveryTypeOK
  <2>4. cases[s].stage = 0 /\ Debt(s) # 0 => age[s] \in Stages
    BY <2>2, <2>3 DEF Overdue, Open, Stages
  <2> QED
    BY <2>2, <2>3, <2>4 DEF Evaluated, Stages, Resolved
<1>2. RecoveryTypeOK /\ [RecoveryNext]_recoveryVars => [\A s \in Newcomers : Followed(s)]_recoveryVars
  BY <1>1
<1> QED
  BY <1>2, RecoveryTypeCorrect, PTL DEF RecoverySpec, CasesFollowTheDebt

-----------------------------------------------------------------------------
(* Runs and drafts *)

(* Runs, once made, have their drafts and sources on record; keys that are not
   used have no items. *)
Recorded ==
  /\ \A k \in Keys : runs[k] = NoRun => \A s \in Services : outcome[k][s] = "none"
  /\ \A k \in Keys : runs[k] # NoRun /\ runs[k].source # NoRun => runs[runs[k].source] # NoRun
  /\ \A d \in drafts : /\ runs[d.run] # NoRun
                      /\ runs[d.run].period = d.period
                      /\ Within(runs[d.run].scope, d.service)

(* Two runs that did not fail lie apart, are of two branches, or the one could not
   see the other. *)
RunsApart ==
  \A j, k \in Keys :
    /\ j # k /\ runs[j] # NoRun /\ runs[k] # NoRun
    /\ runs[j].status # "failed" /\ runs[k].status # "failed"
    /\ Overlap(runs[j].period, runs[k].period)
    => \/ BilledUnseen(j, k) \/ BilledUnseen(k, j)
       \/ runs[j].scope # Tenant /\ runs[k].scope # Tenant /\ runs[j].scope # runs[k].scope

BillingInvariant == RecoveryTypeOK /\ Recorded /\ RunsTellTheTruth /\ RunsApart

(* What Prepare and FirstBill have in common: one run is added, with its items and
   its drafts. *)
Opens(k, run, result, new) ==
  /\ runs[k] = NoRun
  /\ runs' = [runs EXCEPT ![k] = run]
  /\ outcome' = [outcome EXCEPT ![k] = result]
  /\ drafts' = drafts \cup new
  /\ run \in Runs /\ result \in [Services -> Outcomes] /\ new \subseteq Drafts
  /\ Free(run.by, run.period) /\ run.by \in {Tenant, run.scope}
  /\ \A d \in new : /\ d.run = k /\ d.period = run.period
                   /\ Within(run.scope, d.service) /\ ~Drafted(d.service, d.period)
  /\ \A d, e \in new : d.service = e.service => d = e
  /\ run.status = "failed" <=> \E s \in Services : result[s] = "failed"
  /\ \A s \in Services : result[s] = "prepared" <=> Draft(s, run.period, k, FALSE) \in new
  /\ \A s \in Services : result[s] = "skipped" => Drafted(s, run.period)
  /\ run.source # NoRun =>
       /\ runs[run.source] # NoRun
       /\ \A s \in Services : result[s] # "none" => outcome[run.source][s] = "failed"

LEMMA PrepareOpens ==
  ASSUME RecoveryTypeOK,
         NEW caller \in Scopes, NEW scope \in Scopes, NEW k \in Keys,
         NEW p \in Periods, NEW source \in Keys \cup {NoRun},
         Prepare(caller, k, p, scope, source)
  PROVE  \E run, result, new : Opens(k, run, result, new)
<1> DEFINE due == Candidates(p, scope, source)
           result == [s \in Services |-> IF s \in due THEN Rated(s, p) ELSE "none"]
           new == {Draft(s, p, k, FALSE) : s \in {t \in due : result[t] = "prepared"}}
           run == [by |-> caller, period |-> p, scope |-> scope, source |-> source,
                   status |-> IF \E s \in due : result[s] = "failed"
                              THEN "failed" ELSE "succeeded"]
<1>1. /\ runs[k] = NoRun
      /\ runs' = [runs EXCEPT ![k] = run]
      /\ outcome' = [outcome EXCEPT ![k] = result]
      /\ drafts' = drafts \cup new
      /\ Free(caller, p) /\ caller \in {Tenant, scope}
      /\ source # NoRun => Retryable(source, p, scope)
  BY DEF Prepare
<1>2. due \subseteq Services /\ (\A s \in due : Within(scope, s))
  BY DEF Candidates, RecoveryTypeOK, BillingTypeOK
<1>3. /\ result \in [Services -> Outcomes]
      /\ \A s \in Services : result[s] # "none" => s \in due
      /\ \A s \in Services : result[s] = "prepared" => ~Drafted(s, p)
      /\ \A s \in Services : result[s] = "skipped" => Drafted(s, p)
  BY DEF Rated, Outcomes
<1>4. run \in Runs /\ run.by = caller /\ run.period = p /\ run.scope = scope /\ run.source = source
  BY DEF Runs
<1>5. run.status = "failed" <=> \E s \in Services : result[s] = "failed"
  BY <1>2, <1>3
<1>6. source # NoRun =>
        runs[source] # NoRun /\ \A s \in Services : result[s] # "none" => outcome[source][s] = "failed"
  BY <1>1, <1>3 DEF Retryable, Candidates
<1>7. /\ new \subseteq Drafts
      /\ \A d \in new : /\ d.run = k /\ d.period = p
                       /\ d.service \in due /\ result[d.service] = "prepared"
      /\ \A d, e \in new : d.service = e.service => d = e
  <2>1. \A d \in new : \E s \in due : result[s] = "prepared" /\ d = Draft(s, p, k, FALSE)
    OBVIOUS
  <2> HIDE DEF new, result, due
  <2>2. \A d \in new : d \in Drafts /\ d.run = k /\ d.period = p
                     /\ d.service \in due /\ result[d.service] = "prepared"
                     /\ d = Draft(d.service, p, k, FALSE)
    <3>1. ASSUME NEW s \in due
          PROVE  /\ Draft(s, p, k, FALSE) \in Drafts /\ Draft(s, p, k, FALSE).run = k
                 /\ Draft(s, p, k, FALSE).period = p /\ Draft(s, p, k, FALSE).service = s
      BY <1>2 DEF Draft, Drafts
    <3>2. TAKE d \in new
    <3>3. PICK s \in due : result[s] = "prepared" /\ d = Draft(s, p, k, FALSE)
      BY <2>1
    <3>4. d.service = s
      BY <3>1, <3>3
    <3> QED
      BY <3>1, <3>3, <3>4
  <2>3. \A d, e \in new : d.service = e.service => d = e
    BY <2>2
  <2> QED
    BY <2>2, <2>3
<1>8. \A s \in Services : result[s] = "prepared" <=> Draft(s, p, k, FALSE) \in new
  <2>1. \A s \in Services : result[s] = "prepared" => Draft(s, p, k, FALSE) \in new
    BY <1>3
  <2>2. \A s \in Services : Draft(s, p, k, FALSE).service = s
    BY DEF Draft
  <2> HIDE DEF new, result, due
  <2> QED
    BY <1>7, <2>1, <2>2
<1> HIDE DEF due, result, new, run
<1>9. Opens(k, run, result, new)
  BY <1>1, <1>2, <1>3, <1>4, <1>5, <1>6, <1>7, <1>8 DEF Opens
<1> QED
  BY <1>9

LEMMA FirstBillOpens ==
  ASSUME RecoveryTypeOK, Recorded,
         NEW caller \in Scopes, NEW k \in Keys, NEW s \in Newcomers, NEW p \in Periods,
         FirstBill(caller, k, s, p)
  PROVE  \E run, result, new : Opens(k, run, result, new)
<1> DEFINE run == [by |-> caller, period |-> p, scope |-> BranchOf[s],
                   source |-> NoRun, status |-> "succeeded"]
           new == {Draft(s, p, k, TRUE)}
<1>1. s \in Services /\ BranchOf[s] \in Scopes
  BY ServicesAssumption DEF Scopes
<1>2. /\ run \in Runs /\ run.by = caller /\ run.period = p /\ run.scope = BranchOf[s]
      /\ run.source = NoRun /\ run.status # "failed"
  BY <1>1 DEF Runs
<1>3. /\ runs[k] = NoRun /\ runs' = [runs EXCEPT ![k] = run]
      /\ drafts' = drafts \cup new /\ outcome' = outcome
      /\ Free(caller, p) /\ caller \in {Tenant, BranchOf[s]}
      /\ ~Drafted(s, p)
  BY DEF FirstBill
<1>4. /\ outcome' = [outcome EXCEPT ![k] = outcome[k]]
      /\ outcome[k] \in [Services -> Outcomes]
      /\ \A t \in Services : outcome[k][t] = "none"
  BY <1>3 DEF Recorded, RecoveryTypeOK, BillingTypeOK
<1>5. /\ new \subseteq Drafts
      /\ \A d \in new : d.run = k /\ d.period = p /\ d.service = s /\ d.posted
      /\ \A d, e \in new : d = e
      /\ Within(BranchOf[s], s)
  BY <1>1 DEF Draft, Drafts, Within
<1>6. \A t \in Services : Draft(t, p, k, FALSE) \notin new
  BY <1>5 DEF Draft
<1> HIDE DEF run, new
<1>7. Opens(k, run, outcome[k], new)
  BY <1>2, <1>3, <1>4, <1>5, <1>6 DEF Opens
<1> QED
  BY <1>7

(* A step opens one run, or leaves runs, items and drafts alone. *)
LEMMA StepShape ==
  ASSUME RecoveryTypeOK, Recorded, [RecoveryNext]_recoveryVars
  PROVE  \/ UNCHANGED <<runs, outcome, drafts>>
         \/ \E k \in Keys : \E run, result, new : Opens(k, run, result, new)
<1>1. ASSUME NEW caller \in Scopes, NEW scope \in Scopes, NEW k \in Keys, NEW p \in Periods,
             NEW source \in Keys \cup {NoRun}, Prepare(caller, k, p, scope, source)
      PROVE  \E run, result, new : Opens(k, run, result, new)
  BY <1>1, PrepareOpens
<1>2. ASSUME NEW caller \in Scopes, NEW k \in Keys, NEW s \in Newcomers, NEW p \in Periods,
             FirstBill(caller, k, s, p)
      PROVE  \E run, result, new : Opens(k, run, result, new)
  BY <1>2, FirstBillOpens
<1>3. ASSUME \/ \E s \in Services : SwitchService(s)
             \/ \E s \in Services, value \in Configs : Configure(s, value)
             \/ \E s \in Newcomers :
                  \/ \E rest \in 0..Amount : Settle(s, rest) \/ Release(s, rest)
                  \/ ReverseBill(s)
             \/ \E scope \in Scopes, age \in [Newcomers -> {0} \cup Stages] : Evaluate(scope, age)
             \/ UNCHANGED recoveryVars
      PROVE  UNCHANGED <<runs, outcome, drafts>>
  BY <1>3 DEF SwitchService, Configure, Settle, Release, ReverseBill, Evaluate, recoveryVars, billing
<1> QED
  BY <1>1, <1>2, <1>3, Zenon DEF RecoveryNext

LEMMA OpensRecorded ==
  ASSUME RecoveryTypeOK, Recorded, NEW k \in Keys, NEW run, NEW result, NEW new,
         Opens(k, run, result, new)
  PROVE  Recorded'
<1> USE DEF RecoveryTypeOK, BillingTypeOK
<1>1. /\ runs'[k] = run /\ run # NoRun /\ outcome'[k] = result
      /\ \A j \in Keys \ {k} : runs'[j] = runs[j] /\ outcome'[j] = outcome[j]
  BY KeysAssumption DEF Opens
<1>2. \A j \in Keys : runs[j] # NoRun => j # k /\ runs'[j] = runs[j]
  BY <1>1 DEF Opens
<1>3. \A j \in Keys : runs'[j] # NoRun /\ runs'[j].source # NoRun => runs'[runs'[j].source] # NoRun
  <2>1. TAKE j \in Keys
  <2>2. CASE j = k
    <3>1. run.source # NoRun => run.source \in Keys /\ runs[run.source] # NoRun
      BY DEF Opens, Runs
    <3> QED
      BY <1>1, <1>2, <2>2, <3>1
  <2>3. CASE j # k
    <3>1. runs[j] # NoRun => runs[j].source \in Keys \cup {NoRun}
      BY DEF Runs
    <3> QED
      BY <1>1, <1>2, <2>3, <3>1 DEF Recorded
  <2> QED
    BY <2>2, <2>3
<1>4. \A d \in drafts' : /\ runs'[d.run] # NoRun /\ runs'[d.run].period = d.period
                        /\ Within(runs'[d.run].scope, d.service)
  <2>1. \A d \in drafts : d.run \in Keys
    BY DEF Drafts
  <2> QED
    BY <1>1, <1>2, <2>1 DEF Opens, Recorded
<1> QED
  BY <1>1, <1>3, <1>4 DEF Recorded, Within

LEMMA OpensTruthful ==
  ASSUME RecoveryTypeOK, Recorded, RunsTellTheTruth, NEW k \in Keys, NEW run, NEW result, NEW new,
         Opens(k, run, result, new)
  PROVE  RunsTellTheTruth'
<1>1. /\ runs'[k] = run /\ run # NoRun /\ outcome'[k] = result
      /\ \A j \in Keys \ {k} : runs'[j] = runs[j] /\ outcome'[j] = outcome[j]
  BY KeysAssumption DEF Opens, RecoveryTypeOK, BillingTypeOK
<1>2. \A d \in drafts : d.run \in Keys /\ d.run # k
  BY DEF RecoveryTypeOK, BillingTypeOK, Drafts, Recorded, Opens
<1>3. ASSUME NEW j \in Keys, j # k, runs'[j] # NoRun
      PROVE  StatusTold(j)' /\ \A s \in Services : ItemTold(j, s)'
  <2>1. runs'[j] = runs[j] /\ outcome'[j] = outcome[j]
    BY <1>1, <1>3
  <2>2. StatusTold(j) /\ \A s \in Services : ItemTold(j, s)
    BY <1>3, <2>1 DEF RunsTellTheTruth
  <2>3. StatusTold(j)'
    BY <2>1, <2>2 DEF StatusTold
  <2>4. runs[j].source # NoRun => outcome'[runs[j].source] = outcome[runs[j].source]
    BY <1>1, <1>3, <2>1 DEF RecoveryTypeOK, BillingTypeOK, Runs, Recorded, Opens
  <2>5. \A s \in Services : Draft(s, runs[j].period, j, FALSE) \in drafts'
                             => Draft(s, runs[j].period, j, FALSE) \in drafts
    BY <1>3 DEF Opens, Draft
  <2>6. drafts \subseteq drafts'
    BY DEF Opens
  <2>7. ASSUME NEW s \in Services PROVE ItemTold(j, s)'
    <3>1. ItemTold(j, s)
      BY <2>2
    <3>2. outcome[j][s] = "prepared" <=> Draft(s, runs[j].period, j, FALSE) \in drafts'
      BY <2>5, <2>6, <3>1 DEF ItemTold
    <3>3. outcome[j][s] = "skipped" =>
            \E d \in drafts' : d.service = s /\ d.period = runs[j].period /\ d.run # j
      BY <2>6, <3>1 DEF ItemTold
    <3>4. runs[j].source # NoRun /\ outcome[j][s] # "none" =>
            outcome'[runs[j].source][s] = "failed"
      BY <2>4, <3>1 DEF ItemTold
    <3> QED
      BY <2>1, <3>2, <3>3, <3>4 DEF ItemTold
  <2> QED
    BY <2>3, <2>7
<1>4. StatusTold(k)'
  BY <1>1 DEF StatusTold, Opens
<1>5. ASSUME NEW s \in Services PROVE ItemTold(k, s)'
  <2>1. run.source # NoRun => outcome'[run.source] = outcome[run.source]
    BY <1>1 DEF Opens, Runs
  <2>2. Draft(s, run.period, k, FALSE) \notin drafts
    BY <1>2 DEF Draft
  <2>3. result[s] = "prepared" <=> Draft(s, run.period, k, FALSE) \in drafts'
    BY <2>2 DEF Opens
  <2>4. result[s] = "skipped" =>
          \E d \in drafts' : d.service = s /\ d.period = run.period /\ d.run # k
    BY <1>2 DEF Opens, Drafted
  <2>5. run.source # NoRun /\ result[s] # "none" => outcome'[run.source][s] = "failed"
    BY <2>1 DEF Opens
  <2> QED
    BY <1>1, <2>3, <2>4, <2>5 DEF ItemTold
<1>6. \A d, e \in drafts' : d.service = e.service /\ d.period = e.period => d = e
  BY DEF RunsTellTheTruth, Opens, Drafted
<1> QED
  BY <1>3, <1>4, <1>5, <1>6 DEF RunsTellTheTruth

LEMMA OpensApart ==
  ASSUME RecoveryTypeOK, RunsApart, NEW k \in Keys, NEW run, NEW result, NEW new,
         Opens(k, run, result, new)
  PROVE  RunsApart'
<1>1. runs'[k] = run /\ \A j \in Keys \ {k} : runs'[j] = runs[j]
  BY DEF Opens, RecoveryTypeOK, BillingTypeOK
<1>2. ASSUME NEW j \in Keys \ {k}, runs[j] # NoRun, runs[j].status # "failed",
             Overlap(runs[j].period, run.period)
      PROVE  /\ run.by # Tenant /\ run.scope = run.by /\ runs[j].scope # run.scope
  BY <1>2 DEF Opens, Free
<1>3. \A j \in Keys : Overlap(runs'[j].period, run.period) <=> Overlap(run.period, runs'[j].period)
  BY DEF Overlap
<1> QED
  BY <1>1, <1>2, <1>3 DEF RunsApart, BilledUnseen

LEMMA InvariantStays ==
  BillingInvariant /\ [RecoveryNext]_recoveryVars => BillingInvariant'
<1> SUFFICES ASSUME BillingInvariant, [RecoveryNext]_recoveryVars PROVE BillingInvariant'
  OBVIOUS
<1>1. RecoveryTypeOK'
  BY RecoveryNextTyped DEF BillingInvariant
<1>2. CASE UNCHANGED <<runs, outcome, drafts>>
  <2>1. Recorded'
    BY <1>2 DEF BillingInvariant, Recorded
  <2>2. RunsTellTheTruth'
    <3>1. \A k \in Keys : StatusTold(k) => StatusTold(k)'
      BY <1>2 DEF StatusTold
    <3>2. \A k \in Keys : \A s \in Services : ItemTold(k, s) => ItemTold(k, s)'
      BY <1>2 DEF ItemTold
    <3> QED
      BY <1>2, <3>1, <3>2 DEF BillingInvariant, RunsTellTheTruth
  <2>3. RunsApart'
    BY <1>2 DEF BillingInvariant, RunsApart, BilledUnseen
  <2> QED
    BY <1>1, <2>1, <2>2, <2>3 DEF BillingInvariant
<1>3. ASSUME NEW k \in Keys, NEW run, NEW result, NEW new, Opens(k, run, result, new)
      PROVE  BillingInvariant'
  BY <1>1, <1>3, OpensRecorded, OpensTruthful, OpensApart DEF BillingInvariant
<1> QED
  BY <1>2, <1>3, StepShape DEF BillingInvariant

LEMMA InvariantHolds == RecoverySpec => []BillingInvariant
<1>1. RecoveryInit => BillingInvariant
  <2> SUFFICES ASSUME RecoveryInit PROVE BillingInvariant
    OBVIOUS
  <2>1. RecoveryTypeOK
    BY RecoveryInitTyped
  <2>2. /\ \A k \in Keys : runs[k] = NoRun /\ \A s \in Services : outcome[k][s] = "none"
        /\ drafts = {}
    BY DEF RecoveryInit, BillingInit
  <2> QED
    BY <2>1, <2>2 DEF BillingInvariant, Recorded, RunsTellTheTruth, RunsApart
<1> QED
  BY <1>1, InvariantStays, PTL DEF RecoverySpec

(* repository.ts:318-440.  However often runs are retried, and by whom, the items
   of a run agree with the drafts, and no service has two drafts of one period. *)
THEOREM ItemsAgreeWithDrafts == RecoverySpec => []RunsTellTheTruth
<1>1. BillingInvariant => RunsTellTheTruth
  BY DEF BillingInvariant
<1> QED
  BY <1>1, InvariantHolds, PTL

(* 202608112200:1379.  A service is drafted for two overlapping periods only next to
   a failed run, or by a branch that cannot see a run of the whole tenant. *)
THEOREM OverlapsAreUnseen == RecoverySpec => []BilledTwiceOnlyUnseen
<1>1. BillingInvariant => BilledTwiceOnlyUnseen
  <2> SUFFICES ASSUME BillingInvariant, NEW d \in drafts, NEW e \in drafts,
                      d # e, d.service = e.service, Overlap(d.period, e.period),
                      runs[d.run].status # "failed", runs[e.run].status # "failed"
               PROVE  BilledUnseen(d.run, e.run) \/ BilledUnseen(e.run, d.run)
    BY Zenon DEF BilledTwiceOnlyUnseen
  <2>1. d.run \in Keys /\ e.run \in Keys
    BY DEF BillingInvariant, RecoveryTypeOK, BillingTypeOK, Drafts
  <2>2. /\ runs[d.run] # NoRun /\ runs[d.run].period = d.period
        /\ runs[e.run] # NoRun /\ runs[e.run].period = e.period
        /\ Within(runs[d.run].scope, d.service) /\ Within(runs[e.run].scope, d.service)
    BY DEF BillingInvariant, Recorded
  <2>3. d.run # e.run
    BY <2>2 DEF BillingInvariant, RunsTellTheTruth
  <2> QED
    BY <2>1, <2>2, <2>3 DEF BillingInvariant, RunsApart, Within
<1> QED
  BY <1>1, InvariantHolds, PTL
================================================================================
