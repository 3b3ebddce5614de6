----------------------------- MODULE StockControl -----------------------------
(***************************************************************************)
(* Bulk stock: a quantity per item and place, holds on part of it, counts   *)
(* of a place, and the account that values all inventory.  A command locks  *)
(* the rows it writes, so it is one step; an exact retry changes nothing.   *)
(* Installations that stock is held for are only recorded.  The account is  *)
(* one of each currency; a movement keeps the currency its command takes.   *)
(***************************************************************************)
EXTENDS Premises

CONSTANTS
  Holds, Counts,  \* bound how many reservations and counts are ever made
  MaxQuantity,    \* bounds the quantity a command names
  MaxOnHand,      \* bounds what is on a shelf
  MaxLosses       \* bounds what goes missing

Quantities == 1..MaxQuantity
Nothing == -1     \* in place of a quantity: not listed, or not counted yet

ASSUME HoldsAreFinite == IsFiniteSet(Holds)
ASSUME StockIsBounded == MaxQuantity \in Nat /\ MaxOnHand \in Nat /\ MaxLosses \in Nat

VARIABLES
  rows,       \* the shelves with a row in operations_stock_balances
  onHand, reserved,
  hold,       \* operations_stock_reservations
  count,      \* operations_stock_counts with their lines
  frozen,     \* .currency of a count and the unit_cost_minor of its lines
  inventory,  \* what the balances of accounts 1300 and 1310 owe to an item
  missing,    \* how much less than on hand is really there
  losses,
  trust,      \* of a count: nothing it covers moved, something did, or it is of no use
  steady      \* the items always valued alike, and in the currency they leave in

balances == <<rows, onHand, reserved>>
stockVars == <<balances, hold, count, frozen, inventory, missing, losses, trust>>

Resolved(k, st) == [status |-> st, on |-> k.on, quantity |-> k.quantity]
NoHold == [status |-> "none", on |-> Nowhere, quantity |-> 0]
NoLines == [i \in Items |-> Nothing]
NotFrozen == [currency |-> "USD", at |-> [i \in Items |-> 0]]
NoCount == [status |-> "none", place |-> Nowhere, believed |-> NoLines, found |-> NoLines]
Ended(k, st) ==
  [status |-> st, place |-> k.place, believed |-> k.believed, found |-> k.found]

StockTypeOK ==
  /\ rows \subseteq Shelves
  /\ onHand \in [Shelves -> Nat]
  /\ reserved \in [Shelves -> Nat]
  /\ hold \in [Holds -> [status : {"none", "held", "released", "consumed"},
                         on : Shelves \cup {Nowhere}, quantity : Nat]]
  /\ count \in [Counts -> [status : {"none", "open", "closed", "cancelled"},
                           place : Places \cup {Nowhere},
                           believed : [Items -> Nat \cup {Nothing}],
                           found : [Items -> Nat \cup {Nothing}]]]
  /\ frozen \in [Counts -> [currency : Currencies, at : [Items -> Nat]]]
  /\ inventory \in [Items -> [Currencies -> Int]]
  /\ missing \in [Shelves -> Int]
  /\ losses \in 0..MaxLosses
  /\ trust \in [Counts -> {"still", "moved", "spoiled"}]

StockInit ==
  /\ rows = {}
  /\ onHand = [s \in Shelves |-> 0]
  /\ reserved = [s \in Shelves |-> 0]
  /\ hold = [h \in Holds |-> NoHold]
  /\ count = [c \in Counts |-> NoCount]
  /\ frozen = [c \in Counts |-> NotFrozen]
  /\ inventory = [i \in Items |-> [c \in Currencies |-> 0]]
  /\ missing = [s \in Shelves |-> 0]
  /\ losses = 0
  /\ trust = [c \in Counts |-> "still"]
  /\ steady = Items

-----------------------------------------------------------------------------
(* What a count covers: a bin, or a warehouse with all its bins. *)

Covers(p, s) == p \in {s[2], WarehouseOf[s[2]]}
Covered(p, i) == {s \in Shelves : s[1] = i /\ Covers(p, s)}
Present(p, i) == SumFunctionOnSet(onHand, Covered(p, i)) - SumFunctionOnSet(missing, Covered(p, i))

OpenCounts == {c \in Counts : count[c].status = "open"}
Listed(c) == {i \in Items : count[c].believed[i] # Nothing}

(* Variant: the difference from what is on hand by now. *)
VarianceNow(c, i) == count[c].found[i] - SumFunctionOnSet(onHand, Covered(count[c].place, i))

Variance(c, i) == count[c].found[i] - count[c].believed[i]

(* What becomes of the open counts when the goods or the books of S change. *)
Mark(S, what) ==
  trust' = [c \in Counts |->
    IF c \in OpenCounts /\ trust[c] # "spoiled" /\ \E s \in S : Covers(count[c].place, s)
      THEN what ELSE trust[c]]

(* Goods are carried to or from the shelves in S: they are really there. *)
Carry(S, delta) ==
  /\ \A s \in S : onHand[s] + delta[s] >= missing[s]
  /\ Mark(S, "moved")
  /\ UNCHANGED missing

-----------------------------------------------------------------------------
(* Movements *)

(* Variant: only what is on hand is looked at. *)
ApplyUnreserved(S, delta) ==
  /\ \A s \in S : onHand[s] + delta[s] \in 0..MaxOnHand
  /\ rows' = rows \cup S
  /\ onHand' = [s \in Shelves |-> IF s \in S THEN onHand[s] + delta[s] ELSE onHand[s]]

(* apply_stock_delta on each of the shelves in S: what is held stays. *)
ApplyDelta(S, delta) ==
  /\ \A s \in S : onHand[s] + delta[s] \in reserved'[s]..MaxOnHand
  /\ rows' = rows \cup S
  /\ onHand' = [s \in Shelves |-> IF s \in S THEN onHand[s] + delta[s] ELSE onHand[s]]

(* post_inventory_journal, the share of one item: nothing is posted for 0. *)
Post(i, c, amount) == inventory' = [inventory EXCEPT ![i][c] = @ + amount]

Bulk(i) == Known(i) /\ ~ serialized[i]

TransferStock(i, p, q, n) ==
  LET from == <<i, p>>
      to == <<i, q>> IN
  /\ Bulk(i) /\ p # q /\ Exists(p) /\ Usable(q)
  /\ UNCHANGED reserved
  /\ LET delta == [s \in {from, to} |-> IF s = from THEN -n ELSE n] IN
       ApplyDelta({from, to}, delta) /\ Carry({from, to}, delta)
  /\ UNCHANGED <<hold, count, frozen, inventory, losses, steady>>

(* Goods were found or thrown away, or the books alone are put right, in a
   currency that whoever does it names. *)
AdjustStock(i, p, d, cur) ==
  LET s == <<i, p>> IN
  /\ Bulk(i) /\ Exists(p)
  /\ UNCHANGED reserved
  /\ ApplyDelta({s}, [x \in {s} |-> d])
  /\ Post(i, cur, d * cost[i][cur])
  /\ steady' = IF cur = Own(i) THEN steady ELSE steady \ {i}
  /\ \/ Carry({s}, [x \in {s} |-> d])
     \/ d = - missing[s] /\ missing' = [missing EXCEPT ![s] = 0] /\ Mark({s}, "spoiled")
  /\ UNCHANGED <<hold, count, frozen, losses>>

(* Something breaks or disappears and nobody books it. *)
Lose(s) ==
  /\ losses < MaxLosses
  /\ onHand[s] > missing[s]
  /\ missing' = [missing EXCEPT ![s] = @ + 1]
  /\ losses' = losses + 1
  /\ trust' = [c \in Counts |->
       IF c \in OpenCounts /\ Covers(count[c].place, s) /\ count[c].found[s[1]] # Nothing
         THEN "spoiled" ELSE trust[c]]
  /\ UNCHANGED <<balances, hold, count, frozen, inventory, steady>>

-----------------------------------------------------------------------------
(* Reservations *)

ReserveStock(h, i, p, n) ==
  LET s == <<i, p>> IN
  /\ Bulk(i) /\ Exists(p)
  /\ hold[h].status = "none"
  /\ s \in rows /\ reserved[s] + n <= onHand[s]
  /\ reserved' = [reserved EXCEPT ![s] = @ + n]
  /\ hold' = [hold EXCEPT ![h] = [status |-> "held", on |-> s, quantity |-> n]]
  /\ UNCHANGED <<rows, onHand, count, frozen, inventory, missing, losses, trust, steady>>

(* apply_reservation_delta, with the whole quantity of the hold. *)
LetGo(h) ==
  /\ hold[h].status = "held"
  /\ reserved[hold[h].on] >= hold[h].quantity
  /\ reserved' = [reserved EXCEPT ![hold[h].on] = @ - hold[h].quantity]

ReleaseReservation(h) ==
  /\ LetGo(h)
  /\ hold' = [hold EXCEPT ![h] = Resolved(@, "released")]
  /\ UNCHANGED <<rows, onHand, count, frozen, inventory, missing, losses, trust, steady>>

(* Variant: all that was held is booked as used. *)
ConsumeWhole(h, n) ==
  LET s == hold[h].on IN
  /\ n <= hold[h].quantity
  /\ LetGo(h)
  /\ ApplyDelta({s}, [x \in {s} |-> -n])
  /\ hold' = [hold EXCEPT ![h] = Resolved(@, "consumed")]
  /\ Post(s[1], Own(s[1]), - hold[h].quantity * cost[s[1]][Own(s[1])])
  /\ Carry({s}, [x \in {s} |-> -n])
  /\ UNCHANGED <<count, frozen, losses, steady>>

(* What was held and not used is free again. *)
ConsumeReservation(h, n) ==
  LET s == hold[h].on IN
  /\ n <= hold[h].quantity
  /\ LetGo(h)
  /\ ApplyDelta({s}, [x \in {s} |-> -n])
  /\ hold' = [hold EXCEPT ![h] = Resolved(@, "consumed")]
  /\ Post(s[1], Own(s[1]), - n * cost[s[1]][Own(s[1])])
  /\ Carry({s}, [x \in {s} |-> -n])
  /\ UNCHANGED <<count, frozen, losses, steady>>

-----------------------------------------------------------------------------
(* Counts *)

(* One count per place, each item once: a warehouse where an item lies in two
   places cannot be counted as a whole. *)
OpenCount(c, p, cur) ==
  LET seen == {s \in rows : Covers(p, s)} IN
  /\ Exists(p)
  /\ count[c].status = "none"
  /\ \A d \in OpenCounts : count[d].place # p
  /\ \A s, t \in seen : s[1] = t[1] => s = t
  /\ count' = [count EXCEPT ![c] =
       [status |-> "open", place |-> p, found |-> NoLines,
        believed |-> [i \in Items |-> IF \E s \in seen : s[1] = i
                                        THEN onHand[CHOOSE s \in seen : s[1] = i]
                                        ELSE Nothing]]]
  /\ frozen' = [frozen EXCEPT ![c] =
       [currency |-> cur, at |-> [i \in Items |-> IF \E s \in seen : s[1] = i
                                                    THEN cost[i][cur] ELSE 0]]]
  /\ UNCHANGED <<balances, hold, inventory, missing, losses, trust, steady>>

RecordCount(c, f) ==
  LET k == count[c] IN
  /\ k.status = "open"
  /\ count' = [count EXCEPT ![c] =
       [status |-> "open", place |-> k.place, believed |-> k.believed,
        found |-> [i \in Items |-> IF i \in DOMAIN f THEN f[i] ELSE k.found[i]]]]
  /\ trust' = [trust EXCEPT ![c] =
       IF @ = "still" /\ \A i \in DOMAIN f : f[i] = Present(k.place, i) THEN @ ELSE "spoiled"]
  /\ UNCHANGED <<balances, hold, frozen, inventory, missing, losses, steady>>

CancelCount(c) ==
  /\ count[c].status = "open"
  /\ count' = [count EXCEPT ![c] = Ended(@, "cancelled")]
  /\ UNCHANGED <<balances, hold, frozen, inventory, missing, losses, trust, steady>>

(* The differences are booked at the place of the count, wherever the goods of
   a line are, and at the costs of when it was opened.  Other counts that cover
   the place have theirs to come. *)
CloseCount(c) ==
  LET p == count[c].place
      cur == frozen[c].currency
      differing == {i \in Listed(c) : Variance(c, i) # 0}
      S == {<<i, p>> : i \in differing} IN
  /\ count[c].status = "open"
  /\ \A i \in Listed(c) : count[c].found[i] # Nothing
  /\ UNCHANGED reserved
  /\ ApplyDelta(S, [s \in S |-> Variance(c, s[1])])
  /\ missing' = [s \in Shelves |-> IF s \in S THEN missing[s] + Variance(c, s[1]) ELSE missing[s]]
  /\ inventory' = [i \in Items |-> IF i \in differing
                                     THEN [inventory[i] EXCEPT ![cur] =
                                             @ + Variance(c, i) * frozen[c].at[i]]
                                     ELSE inventory[i]]
  /\ steady' = {i \in steady : i \in differing => cur = Own(i)}
  /\ count' = [count EXCEPT ![c] = Ended(@, "closed")]
  /\ trust' = [d \in Counts |->
       IF d \in OpenCounts \ {c} /\ \E s \in S : Covers(count[d].place, s)
         THEN "spoiled" ELSE trust[d]]
  /\ UNCHANGED <<hold, frozen, losses>>

StockStep ==
  \/ \E i \in Items, p, q \in Places, n \in Quantities :
       TransferStock(i, p, q, n)
  \/ \E i \in Items, p \in Places, n \in Quantities :
       \/ \E cur \in Currencies : AdjustStock(i, p, n, cur) \/ AdjustStock(i, p, -n, cur)
       \/ \E h \in Holds : ReserveStock(h, i, p, n)
  \/ \E s \in Shelves : Lose(s)
  \/ \E h \in Holds : ReleaseReservation(h) \/ \E n \in Quantities : ConsumeReservation(h, n)
  \/ \E c \in Counts :
       \/ \E p \in Places, cur \in Currencies : OpenCount(c, p, cur)
       \/ \E L \in (SUBSET Listed(c)) \ {{}} : \E f \in [L -> 0..MaxOnHand] : RecordCount(c, f)
       \/ CancelCount(c)
       \/ CloseCount(c)
===============================================================================
