--------------------------- MODULE WarehouseProofs ----------------------------
(***************************************************************************)
(* Proofs about Warehouse: types, that what is reserved stays on hand and   *)
(* is what the holds add up to, that orders and quotes are booked once,     *)
(* that equipment keeps to the repair desk's specification, what closing a  *)
(* count puts right, and that the inventory account is worth what there is  *)
(* of an item while what it leaves at stays.                                *)
(***************************************************************************)
EXTENDS Warehouse, SumTheorems, TLAPS

-----------------------------------------------------------------------------
(* Types *)

LEMMA UpdateTyped ==
  ASSUME NEW D, NEW S, NEW f \in [D -> S], NEW x, NEW v, x \in D => v \in S
  PROVE  [f EXCEPT ![x] = v] \in [D -> S]
OBVIOUS

LEMMA InitTyped == Init => TypeOK
<1> SUFFICES ASSUME Init PROVE TypeOK
  OBVIOUS
<1>1. RegisterTypeOK
  BY DEF Init, RegisterInit, RegisterTypeOK, Standings
<1>2. StockTypeOK
  <2>1. NoHold \in [status : {"none", "held", "released", "consumed"},
                    on : Shelves \cup {Nowhere}, quantity : Nat]
    BY DEF NoHold
  <2>2. NoCount \in [status : {"none", "open", "closed", "cancelled"},
                     place : Places \cup {Nowhere},
                     believed : [Items -> Nat \cup {Nothing}],
                     found : [Items -> Nat \cup {Nothing}]]
    BY DEF NoCount, NoLines
  <2>3. NotFrozen \in [currency : Currencies, at : [Items -> Nat]]
    BY DEF NotFrozen, Currencies
  <2> QED
    BY <2>1, <2>2, <2>3, StockIsBounded DEF Init, StockInit, StockTypeOK
<1>3. EquipmentTypeOK
  BY DEF Init, EquipmentInit, EquipmentTypeOK
<1>4. ProcurementTypeOK
  BY DEF Init, ProcurementInit, ProcurementTypeOK, NoLine, Currencies
<1> QED
  BY <1>1, <1>2, <1>3, <1>4 DEF Init, TypeOK, StockInit

LEMMA RegisterTyped ==
  ASSUME RegisterTypeOK, RegisterStep
  PROVE  RegisterTypeOK'
<1> USE DEF RegisterTypeOK, Standings
<1>1. ASSUME NEW v \in Vendors, CreateVendor(v) PROVE RegisterTypeOK'
  BY <1>1 DEF CreateVendor
<1>2. ASSUME NEW i \in Items, NEW flag \in BOOLEAN, NEW k \in UnitCosts, CreateItem(i, flag, k)
      PROVE  RegisterTypeOK'
  BY <1>2, UpdateTyped, CostsAreNatural DEF CreateItem
<1>3. ASSUME NEW i \in Items, NEW flag \in BOOLEAN, NEW st \in Standings, NEW k \in UnitCosts,
             UpdateItem(i, flag, st, k)
      PROVE  RegisterTypeOK'
  BY <1>3, UpdateTyped, CostsAreNatural DEF UpdateItem
<1>4. ASSUME NEW p \in Places, CreatePlace(p) PROVE RegisterTypeOK'
  BY <1>4, UpdateTyped DEF CreatePlace
<1>5. ASSUME NEW p \in Places, NEW st \in Standings, UpdatePlace(p, st) PROVE RegisterTypeOK'
  BY <1>5, UpdateTyped DEF UpdatePlace
<1> QED
  BY <1>1, <1>2, <1>3, <1>4, <1>5 DEF RegisterStep

LEMMA OwnTyped ==
  ASSUME RegisterTypeOK, NEW i \in Items
  PROVE  /\ Own(i) \in Currencies
         /\ \A c \in Currencies : cost[i][c] \in Nat /\ Standard(i, c) \in Nat
<1>1. Own(i) \in Currencies
  BY DEF Own, Currencies
<1>2. ASSUME NEW c \in Currencies PROVE cost[i][c] \in Nat
  BY DEF RegisterTypeOK
<1> QED
  BY <1>1, <1>2 DEF Standard

LEMMA PostTyped ==
  ASSUME StockTypeOK, NEW i \in Items, NEW c \in Currencies, NEW amount \in Int, Post(i, c, amount)
  PROVE  inventory' \in [Items -> [Currencies -> Int]]
<1>1. inventory[i] \in [Currencies -> Int] /\ inventory[i][c] + amount \in Int
  BY DEF StockTypeOK
<1>2. [inventory[i] EXCEPT ![c] = @ + amount] \in [Currencies -> Int]
  BY <1>1
<1>3. inventory' = [inventory EXCEPT ![i] = [inventory[i] EXCEPT ![c] = @ + amount]]
  BY DEF Post, StockTypeOK
<1> QED
  BY <1>2, <1>3 DEF StockTypeOK

LEMMA DeltaTyped ==
  ASSUME StockTypeOK, reserved' \in [Shelves -> Nat],
         NEW S \in SUBSET Shelves, NEW d \in [S -> Int], ApplyDelta(S, d)
  PROVE  /\ rows' \subseteq Shelves
         /\ onHand' \in [Shelves -> Nat]
<1>1. ASSUME NEW s \in S PROVE onHand[s] + d[s] \in Nat
  BY StockIsBounded DEF StockTypeOK, ApplyDelta
<1> QED
  BY <1>1 DEF StockTypeOK, ApplyDelta

LEMMA MarkTyped ==
  ASSUME StockTypeOK, NEW S, NEW what \in {"moved", "spoiled"}, Mark(S, what)
  PROVE  trust' \in [Counts -> {"still", "moved", "spoiled"}]
BY DEF StockTypeOK, Mark

LEMMA EndedTyped ==
  ASSUME StockTypeOK, NEW c \in Counts, NEW st \in {"closed", "cancelled"},
         count' = [count EXCEPT ![c] = Ended(@, st)]
  PROVE  count' \in [Counts -> [status : {"none", "open", "closed", "cancelled"},
                               place : Places \cup {Nowhere},
                               believed : [Items -> Nat \cup {Nothing}],
                               found : [Items -> Nat \cup {Nothing}]]]
BY DEF StockTypeOK, Ended

LEMMA ResolvedTyped ==
  ASSUME StockTypeOK, NEW h \in Holds, NEW st \in {"released", "consumed"},
         hold' = [hold EXCEPT ![h] = Resolved(@, st)]
  PROVE  hold' \in [Holds -> [status : {"none", "held", "released", "consumed"},
                             on : Shelves \cup {Nowhere}, quantity : Nat]]
BY DEF StockTypeOK, Resolved

LEMMA MovesTyped ==
  ASSUME StockTypeOK, RegisterTypeOK, NEW i \in Items, NEW p \in Places
  PROVE  /\ \A q \in Places, n \in Quantities : TransferStock(i, p, q, n) => StockTypeOK'
         /\ \A d \in Int, cur \in Currencies : AdjustStock(i, p, d, cur) => StockTypeOK'
<1>1. ASSUME NEW q \in Places, NEW n \in Quantities, TransferStock(i, p, q, n)
      PROVE  StockTypeOK'
  <2> DEFINE S == {<<i, p>>, <<i, q>>}
             delta == [s \in S |-> IF s = <<i, p>> THEN -n ELSE n]
  <2>1. /\ S \in SUBSET Shelves /\ delta \in [S -> Int]
        /\ ApplyDelta(S, delta) /\ Mark(S, "moved") /\ UNCHANGED missing
    BY <1>1, StockIsBounded DEF TransferStock, Shelves, Quantities, Carry
  <2>2. reserved' \in [Shelves -> Nat] /\ UNCHANGED <<hold, count, frozen, inventory, losses>>
    BY <1>1 DEF TransferStock, StockTypeOK
  <2> HIDE DEF S, delta
  <2>3. rows' \subseteq Shelves /\ onHand' \in [Shelves -> Nat]
    BY <2>1, <2>2, DeltaTyped
  <2>4. trust' \in [Counts -> {"still", "moved", "spoiled"}]
    BY <2>1, MarkTyped
  <2> QED
    BY <2>1, <2>2, <2>3, <2>4 DEF StockTypeOK
<1>2. ASSUME NEW d \in Int, NEW cur \in Currencies, AdjustStock(i, p, d, cur)
      PROVE  StockTypeOK'
  <2> DEFINE S == {<<i, p>>}
             delta == [x \in S |-> d]
  <2>1. S \in SUBSET Shelves /\ delta \in [S -> Int] /\ ApplyDelta(S, delta)
    BY <1>2 DEF AdjustStock, Shelves
  <2>2. reserved' \in [Shelves -> Nat] /\ UNCHANGED <<hold, count, frozen, losses>>
    BY <1>2 DEF AdjustStock, StockTypeOK
  <2>3. \/ UNCHANGED missing /\ Mark(S, "moved")
        \/ missing' = [missing EXCEPT ![<<i, p>>] = 0] /\ Mark(S, "spoiled")
    BY <1>2 DEF AdjustStock, Carry
  <2>7. missing' \in [Shelves -> Int]
    <3>1. missing \in [Shelves -> Int]
      BY DEF StockTypeOK
    <3> HIDE DEF S
    <3> QED
      BY <2>3, <3>1, UpdateTyped
  <2>4. inventory' \in [Items -> [Currencies -> Int]]
    <3>1. d * cost[i][cur] \in Int
      BY OwnTyped
    <3> QED
      BY <1>2, <3>1, PostTyped DEF AdjustStock
  <2> HIDE DEF S, delta
  <2>5. rows' \subseteq Shelves /\ onHand' \in [Shelves -> Nat]
    BY <2>1, <2>2, DeltaTyped
  <2>6. trust' \in [Counts -> {"still", "moved", "spoiled"}]
    BY <2>3, MarkTyped
  <2> QED
    BY <2>2, <2>7, <2>4, <2>5, <2>6 DEF StockTypeOK
<1> QED
  BY <1>1, <1>2

LEMMA LoseTyped ==
  ASSUME StockTypeOK, NEW s \in Shelves, Lose(s)
  PROVE  StockTypeOK'
<1>1. /\ missing' \in [Shelves -> Int] /\ losses' \in 0..MaxLosses
      /\ trust' \in [Counts -> {"still", "moved", "spoiled"}]
      /\ UNCHANGED <<balances, hold, count, frozen, inventory>>
  BY StockIsBounded DEF Lose, StockTypeOK
<1> QED
  BY <1>1 DEF StockTypeOK, balances

LEMMA LetGoTyped ==
  ASSUME StockTypeOK, NEW h \in Holds, LetGo(h), hold[h].on \in Shelves
  PROVE  reserved' \in [Shelves -> Nat]
BY DEF LetGo, StockTypeOK

LEMMA ReserveTyped ==
  ASSUME StockTypeOK, NEW h \in Holds, NEW i \in Items, NEW p \in Places, NEW n \in Quantities,
         ReserveStock(h, i, p, n)
  PROVE  StockTypeOK'
<1>1. <<i, p>> \in Shelves /\ n \in Nat
  BY StockIsBounded DEF Shelves, Quantities
<1>2. reserved' \in [Shelves -> Nat]
  BY <1>1 DEF ReserveStock, StockTypeOK
<1>3. hold' \in [Holds -> [status : {"none", "held", "released", "consumed"},
                          on : Shelves \cup {Nowhere}, quantity : Nat]]
  BY <1>1, UpdateTyped DEF ReserveStock, StockTypeOK
<1> QED
  BY <1>2, <1>3 DEF ReserveStock, StockTypeOK

(* What is held is held on a shelf, and an open count is of a place. *)
HoldsOnShelves == \A h \in Holds : hold[h].status = "held" => hold[h].on \in Shelves
CountsOfPlaces == \A c \in Counts : count[c].status = "open" => count[c].place \in Places

LEMMA HoldsTyped ==
  ASSUME StockTypeOK, HoldsOnShelves, RegisterTypeOK, NEW h \in Holds
  PROVE  /\ ReleaseReservation(h) => StockTypeOK'
         /\ \A n \in Quantities : ConsumeReservation(h, n) => StockTypeOK'
<1>1. ASSUME ReleaseReservation(h) PROVE StockTypeOK'
  <2>1. reserved' \in [Shelves -> Nat]
    BY <1>1, LetGoTyped DEF ReleaseReservation, HoldsOnShelves, LetGo
  <2>2. hold' \in [Holds -> [status : {"none", "held", "released", "consumed"},
                            on : Shelves \cup {Nowhere}, quantity : Nat]]
    BY <1>1, ResolvedTyped DEF ReleaseReservation
  <2> QED
    BY <1>1, <2>1, <2>2 DEF ReleaseReservation, StockTypeOK
<1>2. ASSUME NEW n \in Quantities, ConsumeReservation(h, n) PROVE StockTypeOK'
  <2> DEFINE s == hold[h].on
             S == {s}
             delta == [x \in S |-> -n]
  <2>1. s \in Shelves /\ LetGo(h)
    BY <1>2 DEF ConsumeReservation, HoldsOnShelves, LetGo
  <2>2. reserved' \in [Shelves -> Nat]
    BY <2>1, LetGoTyped
  <2>3. hold' \in [Holds -> [status : {"none", "held", "released", "consumed"},
                            on : Shelves \cup {Nowhere}, quantity : Nat]]
    BY <1>2, ResolvedTyped DEF ConsumeReservation
  <2>4. S \in SUBSET Shelves /\ delta \in [S -> Int]
    BY <2>1, StockIsBounded DEF Quantities
  <2>5. ApplyDelta(S, delta) /\ Mark(S, "moved") /\ UNCHANGED <<missing, count, frozen, losses>>
    BY <1>2 DEF ConsumeReservation, Carry
  <2>6. inventory' \in [Items -> [Currencies -> Int]]
    <3>1. s[1] \in Items
      BY <2>1 DEF Shelves
    <3>2. n \in Nat
      BY StockIsBounded DEF Quantities
    <3>3. - n * cost[s[1]][Own(s[1])] \in Int
      BY <3>1, <3>2, OwnTyped
    <3> QED
      BY <1>2, <3>1, <3>3, OwnTyped, PostTyped DEF ConsumeReservation
  <2> HIDE DEF S, delta
  <2>7. rows' \subseteq Shelves /\ onHand' \in [Shelves -> Nat]
    BY <2>2, <2>4, <2>5, DeltaTyped
  <2>8. trust' \in [Counts -> {"still", "moved", "spoiled"}]
    BY <2>5, MarkTyped
  <2> QED
    BY <2>2, <2>3, <2>5, <2>6, <2>7, <2>8 DEF StockTypeOK
<1> QED
  BY <1>1, <1>2

LEMMA CountsTyped ==
  ASSUME StockTypeOK, CountsOfPlaces, RegisterTypeOK, NEW c \in Counts
  PROVE  /\ \A p \in Places, cur \in Currencies : OpenCount(c, p, cur) => StockTypeOK'
         /\ \A L \in SUBSET Listed(c) : \A f \in [L -> 0..MaxOnHand] :
              RecordCount(c, f) => StockTypeOK'
         /\ CancelCount(c) => StockTypeOK'
         /\ CloseCount(c) => StockTypeOK'
<1> DEFINE T == [status : {"none", "open", "closed", "cancelled"},
                 place : Places \cup {Nowhere},
                 believed : [Items -> Nat \cup {Nothing}],
                 found : [Items -> Nat \cup {Nothing}]]
<1>0. count \in [Counts -> T] /\ count[c] \in T
  BY DEF StockTypeOK
<1>1. ASSUME NEW p \in Places, NEW cur \in Currencies, OpenCount(c, p, cur) PROVE StockTypeOK'
  <2> DEFINE seen == {s \in rows : Covers(p, s)}
             B == [i \in Items |-> IF \E s \in seen : s[1] = i
                                     THEN onHand[CHOOSE s \in seen : s[1] = i]
                                     ELSE Nothing]
  <2>1. B \in [Items -> Nat \cup {Nothing}]
    BY DEF StockTypeOK
  <2>2. count' = [count EXCEPT ![c] = [status |-> "open", place |-> p,
                                       believed |-> B, found |-> NoLines]]
    BY <1>1 DEF OpenCount
  <2>3. NoLines \in [Items -> Nat \cup {Nothing}]
    BY DEF NoLines
  <2> HIDE DEF B
  <2>4. count' \in [Counts -> T]
    BY <1>0, <2>1, <2>2, <2>3
  <2>5. frozen' \in [Counts -> [currency : Currencies, at : [Items -> Nat]]]
    <3> DEFINE A == [i \in Items |-> IF \E s \in seen : s[1] = i THEN cost[i][cur] ELSE 0]
    <3>1. A \in [Items -> Nat]
      BY OwnTyped
    <3>2. frozen' = [frozen EXCEPT ![c] = [currency |-> cur, at |-> A]]
      BY <1>1 DEF OpenCount
    <3> HIDE DEF A
    <3> QED
      BY <3>1, <3>2 DEF StockTypeOK
  <2> QED
    BY <1>1, <2>4, <2>5 DEF OpenCount, StockTypeOK, balances
<1>2. ASSUME NEW L \in SUBSET Listed(c), NEW f \in [L -> 0..MaxOnHand], RecordCount(c, f)
      PROVE  StockTypeOK'
  <2> DEFINE F == [i \in Items |-> IF i \in DOMAIN f THEN f[i] ELSE count[c].found[i]]
  <2>1. F \in [Items -> Nat \cup {Nothing}]
    BY <1>0, StockIsBounded
  <2>2. count' = [count EXCEPT ![c] = [status |-> "open", place |-> count[c].place,
                                       believed |-> count[c].believed, found |-> F]]
    BY <1>2 DEF RecordCount
  <2> HIDE DEF F
  <2>3. count' \in [Counts -> T]
    BY <1>0, <2>1, <2>2
  <2>4. trust' \in [Counts -> {"still", "moved", "spoiled"}]
    BY <1>2 DEF RecordCount, StockTypeOK
  <2> QED
    BY <1>2, <2>3, <2>4 DEF RecordCount, StockTypeOK, balances
<1>3. ASSUME CancelCount(c) PROVE StockTypeOK'
  <2>1. count' \in [Counts -> T]
    BY <1>3, EndedTyped DEF CancelCount
  <2> QED
    BY <1>3, <2>1 DEF CancelCount, StockTypeOK, balances
<1>4. ASSUME CloseCount(c) PROVE StockTypeOK'
  <2> DEFINE p == count[c].place
             D == {i \in Listed(c) : Variance(c, i) # 0}
             S == {<<i, p>> : i \in D}
             delta == [s \in S |-> Variance(c, s[1])]
  <2>1. p \in Places /\ \A i \in Listed(c) : Variance(c, i) \in Int
    BY <1>0, <1>4 DEF CloseCount, CountsOfPlaces, Listed, Variance, Nothing
  <2>2. S \in SUBSET Shelves /\ delta \in [S -> Int]
    BY <2>1 DEF Shelves, Listed
  <2>3. ApplyDelta(S, delta) /\ UNCHANGED <<reserved, hold, frozen, losses>>
    BY <1>4 DEF CloseCount
  <2>4. count' \in [Counts -> T]
    BY <1>4, EndedTyped DEF CloseCount
  <2>5. trust' \in [Counts -> {"still", "moved", "spoiled"}]
    BY <1>4 DEF CloseCount, StockTypeOK
  <2>6. inventory' \in [Items -> [Currencies -> Int]]
    <3> DEFINE cur == frozen[c].currency
    <3>1. cur \in Currencies /\ \A i \in Items : frozen[c].at[i] \in Nat /\ inventory[i] \in [Currencies -> Int]
      BY DEF StockTypeOK
    <3>2. inventory' = [i \in Items |-> IF i \in D
                          THEN [inventory[i] EXCEPT ![cur] = @ + Variance(c, i) * frozen[c].at[i]]
                          ELSE inventory[i]]
      BY <1>4 DEF CloseCount
    <3>3. ASSUME NEW i \in D
          PROVE  [inventory[i] EXCEPT ![cur] = @ + Variance(c, i) * frozen[c].at[i]] \in [Currencies -> Int]
      <4>1. i \in Items /\ Variance(c, i) \in Int
        BY <2>1 DEF Listed
      <4>2. inventory[i][cur] + Variance(c, i) * frozen[c].at[i] \in Int
        BY <3>1, <4>1
      <4> QED
        BY <3>1, <4>1, <4>2
    <3> HIDE DEF D, cur
    <3> QED
      BY <3>1, <3>2, <3>3
  <2>7. missing' \in [Shelves -> Int]
    <3>1. missing' = [s \in Shelves |-> IF s \in S THEN missing[s] + Variance(c, s[1])
                                                   ELSE missing[s]]
      BY <1>4 DEF CloseCount
    <3>2. \A s \in S : Variance(c, s[1]) \in Int
      BY <2>1
    <3> HIDE DEF S
    <3> QED
      BY <3>1, <3>2 DEF StockTypeOK
  <2> HIDE DEF S, delta
  <2>8. rows' \subseteq Shelves /\ onHand' \in [Shelves -> Nat]
    BY <2>2, <2>3, DeltaTyped DEF StockTypeOK
  <2> QED
    BY <2>3, <2>4, <2>5, <2>6, <2>7, <2>8 DEF StockTypeOK
<1> QED
  BY <1>1, <1>2, <1>3, <1>4

LEMMA StockTyped ==
  ASSUME StockTypeOK, HoldsOnShelves, CountsOfPlaces, RegisterTypeOK, StockStep
  PROVE  StockTypeOK'
<1>1. ASSUME NEW i \in Items, NEW p \in Places, NEW q \in Places, NEW n \in Quantities,
             TransferStock(i, p, q, n)
      PROVE  StockTypeOK'
  BY <1>1, MovesTyped
<1>2. ASSUME NEW i \in Items, NEW p \in Places, NEW n \in Quantities,
             \/ \E cur \in Currencies : AdjustStock(i, p, n, cur) \/ AdjustStock(i, p, -n, cur)
             \/ \E h \in Holds : ReserveStock(h, i, p, n)
      PROVE  StockTypeOK'
  BY <1>2, MovesTyped, ReserveTyped, StockIsBounded DEF Quantities
<1>3. ASSUME NEW s \in Shelves, Lose(s) PROVE StockTypeOK'
  BY <1>3, LoseTyped
<1>4. ASSUME NEW h \in Holds,
             ReleaseReservation(h) \/ \E n \in Quantities : ConsumeReservation(h, n)
      PROVE  StockTypeOK'
  BY <1>4, HoldsTyped
<1>5. ASSUME NEW c \in Counts,
             \/ \E p \in Places, cur \in Currencies : OpenCount(c, p, cur)
             \/ \E L \in (SUBSET Listed(c)) \ {{}} : \E f \in [L -> 0..MaxOnHand] :
                  RecordCount(c, f)
             \/ CancelCount(c)
             \/ CloseCount(c)
      PROVE  StockTypeOK'
  BY <1>5, CountsTyped
<1> QED
  BY <1>1, <1>2, <1>3, <1>4, <1>5 DEF StockStep

(* ... and both stay so. *)
LEMMA StockReferences ==
  ASSUME StockTypeOK, HoldsOnShelves, CountsOfPlaces, StockStep
  PROVE  HoldsOnShelves' /\ CountsOfPlaces'
<1> USE DEF StockTypeOK, HoldsOnShelves, CountsOfPlaces
<1>1. ASSUME UNCHANGED hold PROVE HoldsOnShelves'
  BY <1>1
<1>2. ASSUME UNCHANGED count PROVE CountsOfPlaces'
  BY <1>2
<1>3. ASSUME NEW i \in Items, NEW p \in Places, NEW q \in Places, NEW n \in Quantities,
             TransferStock(i, p, q, n)
      PROVE  UNCHANGED <<hold, count>>
  BY <1>3 DEF TransferStock
<1>4. ASSUME NEW i \in Items, NEW p \in Places, NEW n \in Int, NEW cur \in Currencies,
             AdjustStock(i, p, n, cur)
      PROVE  UNCHANGED <<hold, count>>
  BY <1>4 DEF AdjustStock
<1>5. ASSUME NEW i \in Items, NEW p \in Places, NEW n \in Quantities, NEW h \in Holds,
             ReserveStock(h, i, p, n)
      PROVE  HoldsOnShelves' /\ UNCHANGED count
  <2>1. \A k \in Holds : k # h => hold'[k] = hold[k]
    BY <1>5 DEF ReserveStock
  <2>2. hold'[h].on = <<i, p>> /\ <<i, p>> \in Shelves
    BY <1>5 DEF ReserveStock, Shelves
  <2> QED
    BY <1>5, <2>1, <2>2 DEF ReserveStock
<1>6. ASSUME NEW s \in Shelves, Lose(s) PROVE UNCHANGED <<hold, count>>
  BY <1>6 DEF Lose
<1>7. ASSUME NEW h \in Holds, NEW st \in {"released", "consumed"},
             hold' = [hold EXCEPT ![h] = Resolved(@, st)]
      PROVE  HoldsOnShelves'
  <2>1. \A k \in Holds : k # h => hold'[k] = hold[k]
    BY <1>7
  <2>2. hold'[h].status = st
    BY <1>7 DEF Resolved
  <2> QED
    BY <2>1, <2>2
<1>8. ASSUME NEW h \in Holds,
             ReleaseReservation(h) \/ \E n \in Quantities : ConsumeReservation(h, n)
      PROVE  HoldsOnShelves' /\ UNCHANGED count
  BY <1>7, <1>8 DEF ReleaseReservation, ConsumeReservation
<1>9. ASSUME NEW c \in Counts, NEW p \in Places, NEW cur \in Currencies, OpenCount(c, p, cur)
      PROVE  CountsOfPlaces' /\ UNCHANGED hold
  <2>1. \A d \in Counts : d # c => count'[d] = count[d]
    BY <1>9 DEF OpenCount
  <2>2. count'[c].place = p
    BY <1>9 DEF OpenCount
  <2> QED
    BY <1>9, <2>1, <2>2 DEF OpenCount
<1>10. ASSUME NEW c \in Counts, NEW f, RecordCount(c, f)
       PROVE  CountsOfPlaces' /\ UNCHANGED hold
  <2>1. \A d \in Counts : d # c => count'[d] = count[d]
    BY <1>10 DEF RecordCount
  <2>2. count'[c].place = count[c].place /\ count[c].status = "open"
    BY <1>10 DEF RecordCount
  <2> QED
    BY <1>10, <2>1, <2>2 DEF RecordCount
<1>11. ASSUME NEW c \in Counts, CancelCount(c) \/ CloseCount(c)
       PROVE  CountsOfPlaces' /\ UNCHANGED hold
  <2>1. PICK st \in {"closed", "cancelled"} : count' = [count EXCEPT ![c] = Ended(@, st)]
    BY <1>11 DEF CancelCount, CloseCount
  <2>2. \A d \in Counts : d # c => count'[d] = count[d]
    BY <2>1
  <2>3. count'[c].status = st
    BY <2>1 DEF Ended
  <2>4. UNCHANGED hold
    BY <1>11 DEF CancelCount, CloseCount, balances
  <2> QED
    BY <2>2, <2>3, <2>4
<1>12. \A n \in Quantities : n \in Int /\ -n \in Int
  BY StockIsBounded DEF Quantities
<1> HIDE DEF StockTypeOK, HoldsOnShelves, CountsOfPlaces
<1> QED
  BY <1>1, <1>2, <1>3, <1>4, <1>5, <1>6, <1>8, <1>9, <1>10, <1>11, <1>12 DEF StockStep

LEMMA EquipmentTyped ==
  ASSUME EquipmentTypeOK, NEW k \in Cases, repair[k] # "none" => device[k] \in Units
  PROVE  /\ \A u \in Units, withVendor \in BOOLEAN : OpenCase(k, u, withVendor) => EquipmentTypeOK'
         /\ SendToVendor(k) \/ CloseCase(k) => EquipmentTypeOK'
         /\ ReceiveRepaired(k) => EquipmentTypeOK'
         /\ \A u \in Units : ReceiveReplacement(k, u) => EquipmentTypeOK'
         /\ Scrap(k) => EquipmentTypeOK'
<1> USE DEF EquipmentTypeOK, custody
<1>1. ASSUME NEW u \in Units, NEW withVendor \in BOOLEAN, OpenCase(k, u, withVendor)
      PROVE  EquipmentTypeOK'
  BY <1>1 DEF OpenCase
<1>2. ASSUME SendToVendor(k) \/ CloseCase(k) PROVE EquipmentTypeOK'
  BY <1>2 DEF SendToVendor, CloseCase
<1>3. ASSUME ReceiveRepaired(k) PROVE EquipmentTypeOK'
  BY <1>3 DEF ReceiveRepaired
<1>4. ASSUME NEW u \in Units, ReceiveReplacement(k, u) PROVE EquipmentTypeOK'
  BY <1>4 DEF ReceiveReplacement
<1>5. ASSUME Scrap(k) PROVE EquipmentTypeOK'
  BY <1>5 DEF Scrap
<1> HIDE DEF EquipmentTypeOK, custody
<1> QED
  BY <1>1, <1>2, <1>3, <1>4, <1>5

LEMMA LinesTyped ==
  ASSUME NEW N \in SUBSET (Nat \ {0}), NEW l \in LinesIn(N)
  PROVE  l \in [Items -> Nat] /\ l # NoLine
<1>1. l \in [Items -> N \cup {0}] /\ l # NoLine
  BY DEF LinesIn
<1>2. ASSUME NEW i \in Items PROVE l[i] \in Nat
  <2>1. l[i] \in N \cup {0}
    BY <1>1
  <2>2. CASE l[i] \in N
    BY <2>2
  <2>3. CASE l[i] = 0
    BY <2>3
  <2> QED
    BY <2>1, <2>2, <2>3
<1> QED
  BY <1>1, <1>2

LEMMA DraftTyped ==
  ASSUME ProcurementTypeOK, NEW o \in Orders, NEW w \in Warehouses \cup {Nowhere},
         NEW cur \in Currencies, NEW l \in [Items -> Nat], NEW P \in [Items -> Nat],
         Draft(o, w, cur, l, P)
  PROVE  /\ order' \in [Orders -> {"none", "draft", "approved", "partially_received", "received"}]
         /\ dock' \in [Orders -> Warehouses \cup {Nowhere}]
         /\ currency' \in [Orders -> Currencies]
         /\ ordered' \in [Orders -> [Items -> Nat]]
         /\ price' \in [Orders -> [Items -> Nat]]
         /\ UNCHANGED <<arrived, payable>>
BY UpdateTyped DEF ProcurementTypeOK, Draft

LEMMA BuyingTyped ==
  ASSUME ProcurementTypeOK, LinesAreNatural, BuyingStep
  PROVE  ProcurementTypeOK'
<1> USE DEF ProcurementTypeOK
<1>1. ASSUME NEW r \in Requests, NEW w \in Warehouses, NEW lines \in LinesIn(Sizes),
             CreateQuoteRequest(r, w, lines)
      PROVE  ProcurementTypeOK'
  <2>1. lines \in [Items -> Nat]
    BY LinesAreNatural, LinesTyped
  <2> QED
    BY <1>1, <2>1, UpdateTyped DEF CreateQuoteRequest, ordering
<1>2. ASSUME NEW r \in Requests, NEW v \in Vendors, NEW prices \in LinesIn(Prices),
             NEW cur \in Currencies, RecordQuote(r, v, prices, cur)
      PROVE  ProcurementTypeOK'
  <2>1. prices \in [Items -> Nat]
    BY LinesAreNatural, LinesTyped
  <2> QED
    BY <1>2, <2>1 DEF RecordQuote, ordering
<1>3. ASSUME NEW r \in Requests, NEW v \in Vendors, NEW o \in Orders, AwardQuote(r, v, o)
      PROVE  ProcurementTypeOK'
  <2> DEFINE l == [i \in Items |-> IF i \in LinesOf(bid[r][v]) THEN wanted[r][i] ELSE 0]
  <2>1. l \in [Items -> Nat] /\ bid[r][v] \in [Items -> Nat] /\ bidIn[r][v] \in Currencies
    OBVIOUS
  <2>2. Draft(o, sendTo[r], bidIn[r][v], l, bid[r][v]) /\ UNCHANGED <<wanted, sendTo, bid, bidIn>>
    BY <1>3 DEF AwardQuote
  <2> HIDE DEF l
  <2>3. /\ order' \in [Orders -> {"none", "draft", "approved", "partially_received", "received"}]
        /\ dock' \in [Orders -> Warehouses \cup {Nowhere}]
        /\ currency' \in [Orders -> Currencies]
        /\ ordered' \in [Orders -> [Items -> Nat]]
        /\ price' \in [Orders -> [Items -> Nat]]
        /\ UNCHANGED <<arrived, payable>>
    BY <2>1, <2>2, DraftTyped
  <2>4. /\ request' \in [Requests -> {"none", "open", "awarded", "cancelled"}]
        /\ orderOf' \in [Requests -> Orders \cup {Nowhere}]
        /\ quote' \in [Requests -> [Vendors -> {"none", "received", "awarded", "rejected"}]]
    BY <1>3 DEF AwardQuote
  <2> QED
    BY <2>2, <2>3, <2>4
<1>4. ASSUME NEW r \in Requests, CancelQuoteRequest(r) PROVE ProcurementTypeOK'
  BY <1>4, UpdateTyped DEF CancelQuoteRequest, ordering
<1>5. ASSUME NEW o \in Orders, NEW w \in Warehouses, NEW cur \in Currencies,
             NEW lines \in LinesIn(Sizes), NEW prices \in LinesIn(Prices),
             CreateOrder(o, w, cur, lines, prices)
      PROVE  ProcurementTypeOK'
  <2>1. lines \in [Items -> Nat] /\ prices \in [Items -> Nat]
    BY LinesAreNatural, LinesTyped
  <2>2. Draft(o, w, cur, lines, prices) /\ UNCHANGED sourcing
    BY <1>5 DEF CreateOrder
  <2> QED
    BY <2>1, <2>2, DraftTyped DEF sourcing
<1>6. ASSUME NEW o \in Orders, ApproveOrder(o) PROVE ProcurementTypeOK'
  BY <1>6, UpdateTyped DEF ApproveOrder, sourcing
<1> QED
  BY <1>1, <1>2, <1>3, <1>4, <1>5, <1>6 DEF BuyingStep

LEMMA ArriveTyped ==
  ASSUME ProcurementTypeOK, NEW o \in Orders, NEW taken \in [Items -> Nat], Arrive(o, taken)
  PROVE  ProcurementTypeOK'
<1> USE DEF ProcurementTypeOK
<1>1. /\ [i \in Items |-> arrived[o][i] + taken[i]] \in [Items -> Nat]
      /\ [i \in Items |-> payable[o][i] + taken[i] * price[o][i]] \in [Items -> Nat]
  <2>1. ASSUME NEW i \in Items
        PROVE  arrived[o][i] \in Nat /\ payable[o][i] \in Nat /\ price[o][i] \in Nat /\ taken[i] \in Nat
    OBVIOUS
  <2>2. ASSUME NEW i \in Items
        PROVE  arrived[o][i] + taken[i] \in Nat /\ payable[o][i] + taken[i] * price[o][i] \in Nat
    <3>1. \A a, b, c, d \in Nat : a + b \in Nat /\ c + b * d \in Nat
      <4>1. \A b, d \in Nat : b * d \in Nat
        OBVIOUS
      <4>2. \A a, b \in Nat : a + b \in Nat
        OBVIOUS
      <4> QED
        BY <4>1, <4>2
    <3> QED
      BY <2>1, <3>1
  <2> QED
    BY <2>2
<1>2. arrived' \in [Orders -> [Items -> Nat]] /\ payable' \in [Orders -> [Items -> Nat]]
  BY <1>1 DEF Arrive
<1>3. order' \in [Orders -> {"none", "draft", "approved", "partially_received", "received"}]
  BY DEF Arrive
<1> QED
  BY <1>2, <1>3 DEF Arrive, sourcing

-----------------------------------------------------------------------------
(* What a receipt takes of every item: pieces, or the units it enters. *)
Taken(goods, U) ==
  [i \in Items |-> IF serialized[i] THEN Cardinality({u \in U : ModelOf[u] = i}) ELSE goods[i]]

LEMMA TakenTyped ==
  ASSUME NEW goods \in [Items -> 0..MaxOnHand], NEW U \in SUBSET Units
  PROVE  Taken(goods, U) \in [Items -> Nat]
<1>1. ASSUME NEW i \in Items PROVE Cardinality({u \in U : ModelOf[u] = i}) \in Nat
  BY UnitsAreFinite, FS_Subset, FS_CardinalityType
<1> QED
  BY <1>1, StockIsBounded DEF Taken

LEMMA ReceiveTyped ==
  ASSUME TypeOK, NEW o \in Orders, NEW p \in Places, NEW goods \in [Items -> 0..MaxOnHand],
         NEW U \in SUBSET Units, ReceiveOrder(o, p, goods, U)
  PROVE  TypeOK'
<1> DEFINE taken == Taken(goods, U)
           S == {<<i, p>> : i \in {j \in Items : ~ serialized[j] /\ taken[j] # 0}}
           delta == [s \in S |-> taken[s[1]]]
<1>1. /\ taken \in [Items -> Nat]
      /\ S \in SUBSET Shelves /\ delta \in [S -> Int]
  BY TakenTyped DEF Shelves
<1>2. /\ Arrive(o, taken)
      /\ ApplyDelta(S, delta) /\ Mark(S, "moved")
      /\ UNCHANGED <<register, reserved, missing, hold, count, frozen, losses, steady>>
      /\ inventory' = [i \in Items |->
           [inventory[i] EXCEPT ![currency[o]] = @ + taken[i] * price[o][i]]]
  BY DEF ReceiveOrder, Taken, Carry
<1>3. StockTypeOK /\ ProcurementTypeOK /\ EquipmentTypeOK /\ RegisterTypeOK
  BY DEF TypeOK
<1>4. inventory' \in [Items -> [Currencies -> Int]]
  <2>1. currency[o] \in Currencies
    BY <1>3 DEF ProcurementTypeOK
  <2>2. ASSUME NEW i \in Items
        PROVE  [inventory[i] EXCEPT ![currency[o]] = @ + taken[i] * price[o][i]] \in [Currencies -> Int]
    <3>1. inventory[i] \in [Currencies -> Int] /\ taken[i] \in Nat /\ price[o][i] \in Nat
      BY <1>1, <1>3 DEF StockTypeOK, ProcurementTypeOK
    <3>2. inventory[i][currency[o]] + taken[i] * price[o][i] \in Int
      BY <2>1, <3>1
    <3> QED
      BY <2>1, <3>1, <3>2
  <2> QED
    BY <1>2, <2>2
<1>5. EquipmentTypeOK'
  <2>1. unit' \in [Units -> {"none", "in_stock", "issued", "installed", "returned", "rma", "scrapped"}]
    BY <1>3 DEF ReceiveOrder, EquipmentTypeOK
  <2>2. location' \in [Units -> Warehouses \cup {Nowhere}]
    BY <1>3 DEF ReceiveOrder, EquipmentTypeOK, ProcurementTypeOK
  <2>3. UNCHANGED <<work, underWay, desk>>
    BY DEF ReceiveOrder
  <2> QED
    BY <1>3, <2>1, <2>2, <2>3 DEF EquipmentTypeOK, desk
<1>6. boughtOn' \in [Units -> Orders \cup {Nowhere}]
  BY DEF ReceiveOrder, TypeOK
<1> HIDE DEF taken, S, delta
<1>7. rows' \subseteq Shelves /\ onHand' \in [Shelves -> Nat]
  BY <1>1, <1>2, <1>3, DeltaTyped DEF StockTypeOK
<1>8. trust' \in [Counts -> {"still", "moved", "spoiled"}]
  BY <1>2, <1>3, MarkTyped
<1>9. StockTypeOK'
  BY <1>2, <1>3, <1>4, <1>7, <1>8 DEF StockTypeOK
<1>10. ProcurementTypeOK'
  BY <1>1, <1>2, <1>3, ArriveTyped
<1>11. RegisterTypeOK'
  BY <1>2, <1>3 DEF RegisterTypeOK, register
<1> QED
  BY <1>2, <1>5, <1>6, <1>9, <1>10, <1>11 DEF TypeOK

-----------------------------------------------------------------------------
(* What every step keeps true of references: what is held is held on a shelf, *)
(* a count is of a place, and a case is about a device that was entered.      *)
CasesHaveDevices ==
  \A k \in Cases : repair[k] # "none" => device[k] \in Units /\ unit[device[k]] # "none"

TypedAndLinked == TypeOK /\ HoldsOnShelves /\ CountsOfPlaces /\ CasesHaveDevices

LEMMA EquipmentReferences ==
  ASSUME EquipmentTypeOK, CasesHaveDevices, EquipmentStep \/ \E k \in Cases : Scrap(k)
  PROVE  EquipmentTypeOK' /\ CasesHaveDevices'
<1> USE DEF EquipmentTypeOK, CasesHaveDevices
<1>1. ASSUME UNCHANGED desk, NEW u \in Units, unit[u] # "none",
             NEW st \in {"issued", "installed", "returned", "rma"},
             unit' = [unit EXCEPT ![u] = st]
      PROVE  CasesHaveDevices'
  BY <1>1 DEF desk
<1>2. ASSUME NEW j \in FieldJobs, FieldWork(j) PROVE CasesHaveDevices'
  BY <1>2 DEF FieldWork, custody, desk
<1>3. ASSUME NEW u \in Units, \/ \E j \in FieldJobs : Issue(u, j)
                              \/ Install(u) \/ SetAside(u) \/ \E w \in Warehouses : Return(u, w)
      PROVE  CasesHaveDevices'
  <2>1. UNCHANGED desk /\ unit[u] # "none"
    BY <1>3 DEF Issue, Install, SetAside, Return, OnShelf, Out
  <2>2. \E st \in {"issued", "installed", "returned", "rma"} : unit' = [unit EXCEPT ![u] = st]
    BY <1>3 DEF Issue, Install, SetAside, Return
  <2> QED
    BY <1>1, <2>1, <2>2
<1>4. ASSUME NEW k \in Cases, NEW u \in Units, NEW withVendor \in BOOLEAN,
             OpenCase(k, u, withVendor)
      PROVE  CasesHaveDevices'
  BY <1>4 DEF OpenCase, OnShelf
<1>5. ASSUME NEW k \in Cases, SendToVendor(k) \/ CloseCase(k) PROVE CasesHaveDevices'
  BY <1>5 DEF SendToVendor, CloseCase, custody
<1>6. ASSUME NEW k \in Cases, ReceiveRepaired(k) PROVE CasesHaveDevices'
  BY <1>6 DEF ReceiveRepaired
<1>7. ASSUME NEW k \in Cases, NEW u \in Units, ReceiveReplacement(k, u) PROVE CasesHaveDevices'
  BY <1>7 DEF ReceiveReplacement
<1>8. ASSUME NEW k \in Cases, Scrap(k) PROVE CasesHaveDevices'
  BY <1>8 DEF Scrap, AtDesk
<1>9. \A k \in Cases : repair[k] # "none" => device[k] \in Units
  OBVIOUS
<1> HIDE DEF EquipmentTypeOK, CasesHaveDevices
<1>10. CASE \E j \in FieldJobs : FieldWork(j) \/ \E u \in Units : Issue(u, j)
  <2>1. EquipmentTypeOK'
    BY <1>10 DEF FieldWork, Issue, EquipmentTypeOK, custody, desk
  <2> QED
    BY <1>2, <1>3, <1>10, <2>1
<1>11. ASSUME NEW u \in Units, Install(u) \/ SetAside(u) \/ \E w \in Warehouses : Return(u, w)
       PROVE  EquipmentTypeOK' /\ CasesHaveDevices'
  <2>1. EquipmentTypeOK'
    BY <1>11 DEF Install, SetAside, Return, EquipmentTypeOK, desk
  <2> QED
    BY <1>3, <1>11, <2>1
<1>12. ASSUME NEW k \in Cases,
              \/ \E u \in Units, withVendor \in BOOLEAN : OpenCase(k, u, withVendor)
              \/ SendToVendor(k) \/ ReceiveRepaired(k)
              \/ \E u \in Units : ReceiveReplacement(k, u)
              \/ Scrap(k) \/ CloseCase(k)
       PROVE  EquipmentTypeOK' /\ CasesHaveDevices'
  BY <1>4, <1>5, <1>6, <1>7, <1>8, <1>9, <1>12, EquipmentTyped
<1> QED
  BY <1>10, <1>11, <1>12 DEF EquipmentStep

(* No item is ever taken to be steady again. *)
LEMMA SteadyShrinks ==
  ASSUME [Next]_vars
  PROVE  steady' \subseteq steady
<1>1. CASE RegisterStep
  BY <1>1 DEF RegisterStep, CreateVendor, CreateItem, UpdateItem, CreatePlace, UpdatePlace
<1>2. CASE StockStep
  <2>1. \A i, p, d, cur : AdjustStock(i, p, d, cur) => steady' \subseteq steady
    BY DEF AdjustStock
  <2>2. \A c : CloseCount(c) => steady' \subseteq steady
    BY DEF CloseCount
  <2>3. /\ \A i, p, q, n : TransferStock(i, p, q, n) => UNCHANGED steady
        /\ \A s : Lose(s) => UNCHANGED steady
        /\ \A h, i, p, n : ReserveStock(h, i, p, n) => UNCHANGED steady
        /\ \A h : ReleaseReservation(h) => UNCHANGED steady
        /\ \A h, n : ConsumeReservation(h, n) => UNCHANGED steady
        /\ \A c, p, cur : OpenCount(c, p, cur) => UNCHANGED steady
        /\ \A c, f : RecordCount(c, f) => UNCHANGED steady
        /\ \A c : CancelCount(c) => UNCHANGED steady
    BY DEF TransferStock, Lose, ReserveStock, ReleaseReservation, ConsumeReservation, OpenCount,
           RecordCount, CancelCount
  <2> QED
    BY <1>2, <2>1, <2>2, <2>3 DEF StockStep
<1>3. ASSUME NEW o \in Orders, NEW p \in Places, NEW goods, NEW U, ReceiveOrder(o, p, goods, U)
      PROVE  steady' \subseteq steady
  BY <1>3 DEF ReceiveOrder
<1>4. ASSUME NEW k \in Cases, ScrapAsset(k) PROVE steady' \subseteq steady
  BY <1>4 DEF ScrapAsset
<1> QED
  BY <1>1, <1>2, <1>3, <1>4 DEF Next, vars

LEMMA InitLinked == Init => TypedAndLinked
BY InitTyped DEF Init, TypedAndLinked, HoldsOnShelves, CountsOfPlaces, CasesHaveDevices,
   StockInit, EquipmentInit, NoHold, NoCount

LEMMA NextLinked ==
  ASSUME TypedAndLinked, [Next]_vars
  PROVE  TypedAndLinked'
<1>0. /\ RegisterTypeOK /\ StockTypeOK /\ EquipmentTypeOK /\ ProcurementTypeOK
      /\ boughtOn \in [Units -> Orders \cup {Nowhere}]
      /\ HoldsOnShelves /\ CountsOfPlaces /\ CasesHaveDevices
      /\ steady' \subseteq Items
  BY SteadyShrinks DEF TypedAndLinked, TypeOK
<1>1. ASSUME UNCHANGED register PROVE RegisterTypeOK'
  BY <1>0, <1>1 DEF RegisterTypeOK, register
<1>2. ASSUME UNCHANGED stockVars PROVE StockTypeOK' /\ HoldsOnShelves' /\ CountsOfPlaces'
  BY <1>0, <1>2 DEF StockTypeOK, HoldsOnShelves, CountsOfPlaces, stockVars, balances
<1>3. ASSUME UNCHANGED equipmentVars PROVE EquipmentTypeOK' /\ CasesHaveDevices'
  BY <1>0, <1>3 DEF EquipmentTypeOK, CasesHaveDevices, equipmentVars, custody, desk
<1>4. ASSUME UNCHANGED buyingVars PROVE ProcurementTypeOK'
  BY <1>0, <1>4 DEF ProcurementTypeOK, buyingVars, sourcing, ordering
<1>5. ASSUME UNCHANGED boughtOn PROVE boughtOn' \in [Units -> Orders \cup {Nowhere}]
  BY <1>0, <1>5
<1>6. CASE RegisterStep /\ UNCHANGED <<stockVars, equipmentVars, buyingVars, boughtOn>>
  BY <1>0, <1>2, <1>3, <1>4, <1>5, <1>6, RegisterTyped DEF TypedAndLinked, TypeOK
<1>7. CASE StockStep /\ UNCHANGED <<register, equipmentVars, buyingVars, boughtOn>>
  BY <1>0, <1>1, <1>3, <1>4, <1>5, <1>7, StockTyped, StockReferences
  DEF TypedAndLinked, TypeOK
<1>8. CASE EquipmentStep /\ UNCHANGED <<register, stockVars, buyingVars, boughtOn>>
  BY <1>0, <1>1, <1>2, <1>4, <1>5, <1>8, EquipmentReferences DEF TypedAndLinked, TypeOK
<1>9. CASE BuyingStep /\ UNCHANGED <<register, stockVars, equipmentVars, boughtOn>>
  BY <1>0, <1>1, <1>2, <1>3, <1>5, <1>9, BuyingTyped, LinesAreNatural DEF TypedAndLinked, TypeOK
<1>10. ASSUME NEW o \in Orders, NEW p \in Places, NEW goods \in [Items -> 0..MaxOnHand],
              NEW U \in SUBSET Units, ReceiveOrder(o, p, goods, U)
       PROVE  TypedAndLinked'
  <2>1. TypeOK'
    BY <1>10, ReceiveTyped DEF TypedAndLinked
  <2>2. HoldsOnShelves' /\ CountsOfPlaces'
    BY <1>0, <1>10 DEF ReceiveOrder, HoldsOnShelves, CountsOfPlaces
  <2>3. CasesHaveDevices'
    BY <1>0, <1>10 DEF ReceiveOrder, CasesHaveDevices, EquipmentTypeOK, desk
  <2> QED
    BY <2>1, <2>2, <2>3 DEF TypedAndLinked
<1>11. ASSUME NEW k \in Cases, ScrapAsset(k) PROVE TypedAndLinked'
  <2>1. EquipmentTypeOK' /\ CasesHaveDevices'
    BY <1>0, <1>11, EquipmentReferences DEF ScrapAsset
  <2>2. inventory' \in [Items -> [Currencies -> Int]]
    <3> DEFINE i == ModelOf[device[k]]
    <3>1. i \in Items
      BY <1>0, <1>11, UnitsHaveModels DEF ScrapAsset, Scrap, AtDesk, CasesHaveDevices
    <3>2. Post(i, Own(i), - cost[i][Own(i)])
      BY <1>11 DEF ScrapAsset
    <3> HIDE DEF i
    <3>3. Own(i) \in Currencies /\ - cost[i][Own(i)] \in Int
      BY <1>0, <3>1, OwnTyped
    <3> QED
      BY <1>0, <3>1, <3>2, <3>3, PostTyped
  <2>3. StockTypeOK' /\ HoldsOnShelves' /\ CountsOfPlaces'
    BY <1>0, <1>11, <2>2 DEF ScrapAsset, StockTypeOK, HoldsOnShelves, CountsOfPlaces, balances
  <2> QED
    BY <1>0, <1>1, <1>4, <1>5, <1>11, <2>1, <2>3 DEF ScrapAsset, TypedAndLinked, TypeOK
<1>12. CASE UNCHANGED vars
  BY <1>0, <1>1, <1>2, <1>3, <1>4, <1>5, <1>12 DEF TypedAndLinked, TypeOK, vars
<1> QED
  BY <1>6, <1>7, <1>8, <1>9, <1>10, <1>11, <1>12 DEF Next

(* Every variable of the warehouses keeps its type, whatever the commands. *)
THEOREM TypeCorrect == Spec => []TypeOK
<1>1. TypedAndLinked => TypeOK
  BY DEF TypedAndLinked
<1> QED
  BY <1>1, InitLinked, NextLinked, PTL DEF Spec

-----------------------------------------------------------------------------
(* What is reserved is on hand *)

LEMMA DeltaReserved ==
  ASSUME StockTypeOK, ReservedIsThere, NEW S \in SUBSET Shelves, NEW d \in [S -> Int],
         reserved' \in [Shelves -> Nat], \A s \in Shelves \ S : reserved'[s] = reserved[s],
         ApplyDelta(S, d)
  PROVE  ReservedIsThere'
<1> SUFFICES ASSUME NEW s \in Shelves PROVE reserved'[s] <= onHand'[s]
  BY DEF ReservedIsThere
<1>1. CASE s \in S
  <2>1. onHand'[s] = onHand[s] + d[s] /\ onHand[s] + d[s] \in reserved'[s]..MaxOnHand
    BY <1>1 DEF ApplyDelta
  <2> QED
    BY <2>1, StockIsBounded
<1>2. CASE s \notin S
  BY <1>2 DEF ApplyDelta, ReservedIsThere
<1> QED
  BY <1>1, <1>2

LEMMA StockReserved ==
  ASSUME StockTypeOK, HoldsOnShelves, CountsOfPlaces, ReservedIsThere, StockStep
  PROVE  ReservedIsThere'
<1>0. ASSUME UNCHANGED balances PROVE ReservedIsThere'
  BY <1>0 DEF ReservedIsThere, balances
<1>1. ASSUME NEW i \in Items, NEW p \in Places, NEW q \in Places, NEW n \in Quantities,
             TransferStock(i, p, q, n)
      PROVE  ReservedIsThere'
  <2> DEFINE S == {<<i, p>>, <<i, q>>}
             delta == [s \in S |-> IF s = <<i, p>> THEN -n ELSE n]
  <2>1. S \in SUBSET Shelves /\ delta \in [S -> Int] /\ ApplyDelta(S, delta)
    BY <1>1, StockIsBounded DEF TransferStock, Shelves, Quantities
  <2>2. UNCHANGED reserved /\ reserved' \in [Shelves -> Nat]
    BY <1>1 DEF TransferStock, StockTypeOK
  <2> HIDE DEF S, delta
  <2> QED
    BY <2>1, <2>2, DeltaReserved
<1>2. ASSUME NEW i \in Items, NEW p \in Places, NEW d \in Int, NEW cur \in Currencies,
             AdjustStock(i, p, d, cur)
      PROVE  ReservedIsThere'
  <2> DEFINE S == {<<i, p>>}
             delta == [x \in S |-> d]
  <2>1. S \in SUBSET Shelves /\ delta \in [S -> Int] /\ ApplyDelta(S, delta)
    BY <1>2 DEF AdjustStock, Shelves
  <2>2. UNCHANGED reserved /\ reserved' \in [Shelves -> Nat]
    BY <1>2 DEF AdjustStock, StockTypeOK
  <2> HIDE DEF S, delta
  <2> QED
    BY <2>1, <2>2, DeltaReserved
<1>3. ASSUME NEW i \in Items, NEW p \in Places, NEW n \in Quantities, NEW h \in Holds,
             ReserveStock(h, i, p, n)
      PROVE  ReservedIsThere'
  BY <1>3, StockIsBounded DEF ReserveStock, StockTypeOK, ReservedIsThere, Quantities
<1>4. ASSUME NEW h \in Holds, LetGo(h), UNCHANGED onHand PROVE ReservedIsThere'
  <2>1. hold[h].on \in Shelves /\ hold[h].quantity \in Nat
    BY <1>4 DEF LetGo, HoldsOnShelves, StockTypeOK
  <2> QED
    BY <1>4, <2>1 DEF LetGo, StockTypeOK, ReservedIsThere
<1>5. ASSUME NEW h \in Holds, NEW n \in Quantities, ConsumeReservation(h, n)
      PROVE  ReservedIsThere'
  <2> DEFINE S == {hold[h].on}
             delta == [x \in S |-> -n]
  <2>1. hold[h].on \in Shelves /\ LetGo(h)
    BY <1>5 DEF ConsumeReservation, LetGo, HoldsOnShelves
  <2>2. S \in SUBSET Shelves /\ delta \in [S -> Int] /\ ApplyDelta(S, delta)
    BY <1>5, <2>1, StockIsBounded DEF ConsumeReservation, Quantities
  <2>3. reserved' \in [Shelves -> Nat]
    BY <2>1, LetGoTyped
  <2>4. \A s \in Shelves \ S : reserved'[s] = reserved[s]
    BY <2>1 DEF LetGo, StockTypeOK
  <2> HIDE DEF S, delta
  <2> QED
    BY <2>2, <2>3, <2>4, DeltaReserved
<1>6. ASSUME NEW c \in Counts, CloseCount(c) PROVE ReservedIsThere'
  <2> DEFINE p == count[c].place
             D == {i \in Listed(c) : Variance(c, i) # 0}
             S == {<<i, p>> : i \in D}
             delta == [s \in S |-> Variance(c, s[1])]
  <2>1. p \in Places /\ \A i \in Listed(c) : Variance(c, i) \in Int
    BY <1>6 DEF StockTypeOK, CloseCount, CountsOfPlaces, Listed, Variance, Nothing
  <2>2. S \in SUBSET Shelves /\ delta \in [S -> Int] /\ ApplyDelta(S, delta)
    BY <1>6, <2>1 DEF CloseCount, Shelves, Listed
  <2>3. UNCHANGED reserved /\ reserved' \in [Shelves -> Nat]
    BY <1>6 DEF CloseCount, StockTypeOK
  <2> HIDE DEF S, delta
  <2> QED
    BY <2>2, <2>3, DeltaReserved
<1>7. ASSUME NEW s \in Shelves, Lose(s) PROVE UNCHANGED balances
  BY <1>7 DEF Lose
<1>8. ASSUME NEW h \in Holds, ReleaseReservation(h) PROVE LetGo(h) /\ UNCHANGED onHand
  BY <1>8 DEF ReleaseReservation
<1>9. ASSUME NEW c \in Counts,
             \/ \E p \in Places, cur \in Currencies : OpenCount(c, p, cur)
             \/ \E L \in (SUBSET Listed(c)) \ {{}} : \E f \in [L -> 0..MaxOnHand] :
                  RecordCount(c, f)
             \/ CancelCount(c)
      PROVE  UNCHANGED balances
  BY <1>9 DEF OpenCount, RecordCount, CancelCount
<1>10. \A n \in Quantities : n \in Int /\ -n \in Int
  BY StockIsBounded DEF Quantities
<1> QED
  BY <1>0, <1>1, <1>2, <1>3, <1>4, <1>5, <1>6, <1>7, <1>8, <1>9, <1>10 DEF StockStep

LEMMA NextReserved ==
  ASSUME TypedAndLinked, ReservedIsThere, [Next]_vars
  PROVE  ReservedIsThere'
<1>0. StockTypeOK /\ HoldsOnShelves /\ CountsOfPlaces
  BY DEF TypedAndLinked, TypeOK
<1>1. ASSUME UNCHANGED balances PROVE ReservedIsThere'
  BY <1>1 DEF ReservedIsThere, balances
<1>2. CASE StockStep
  BY <1>0, <1>2, StockReserved
<1>3. ASSUME NEW o \in Orders, NEW p \in Places, NEW goods \in [Items -> 0..MaxOnHand],
             NEW U \in SUBSET Units, ReceiveOrder(o, p, goods, U)
      PROVE  ReservedIsThere'
  <2> DEFINE S == {<<i, p>> : i \in {j \in Items : ~ serialized[j] /\ Taken(goods, U)[j] # 0}}
             delta == [s \in S |-> Taken(goods, U)[s[1]]]
  <2>1. S \in SUBSET Shelves /\ delta \in [S -> Int]
    BY TakenTyped DEF Shelves
  <2>2. ApplyDelta(S, delta) /\ UNCHANGED reserved
    BY <1>3 DEF ReceiveOrder, Taken
  <2>3. reserved' \in [Shelves -> Nat]
    BY <1>0, <2>2 DEF StockTypeOK
  <2> HIDE DEF S, delta
  <2> QED
    BY <1>0, <2>1, <2>2, <2>3, DeltaReserved
<1>4. ASSUME NEW k \in Cases, ScrapAsset(k) PROVE UNCHANGED balances
  BY <1>4 DEF ScrapAsset
<1> QED
  BY <1>1, <1>2, <1>3, <1>4 DEF Next, vars, stockVars

(* What reservations keep for a job is on the shelf, whatever is moved, used, *)
(* adjusted, received or counted (apply_stock_delta).                         *)
THEOREM HeldStockStays == Spec => []ReservedIsThere
<1>1. Init => ReservedIsThere
  BY DEF Init, StockInit, ReservedIsThere
<1> QED
  BY <1>1, InitLinked, NextLinked, NextReserved, PTL DEF Spec

-----------------------------------------------------------------------------
(* What is reserved is what is held *)

HeldOn == [h \in Holds |-> hold[h].on]
HoldsAddUp == \A s \in Shelves : reserved[s] = SumFunctionOnSet(Held, Linked(Holds, HeldOn, s))

LEMMA HeldTyped ==
  ASSUME StockTypeOK
  PROVE  \A h \in Holds : Held[h] \in Nat
BY DEF StockTypeOK, Held

LEMMA HeldThenTyped ==
  ASSUME StockTypeOK'
  PROVE  \A h \in Holds : Held'[h] \in Nat
BY DEF StockTypeOK, Held

LEMMA HoldsStay ==
  ASSUME HoldsAddUp, UNCHANGED <<hold, reserved>>
  PROVE  HoldsAddUp'
<1>1. Held' = Held /\ HeldOn' = HeldOn
  BY DEF Held, HeldOn
<1> QED
  BY <1>1 DEF HoldsAddUp

(* One hold comes or goes, on shelf t. *)
LEMMA OneHoldChanges ==
  ASSUME StockTypeOK, StockTypeOK', HoldsAddUp, NEW h \in Holds, NEW t \in Shelves,
         \A k \in Holds \ {h} : hold'[k] = hold[k],
         hold[h].on = t \/ Held[h] = 0, hold'[h].on = t \/ Held'[h] = 0,
         reserved' = [reserved EXCEPT ![t] = @ + Held'[h] - Held[h]]
  PROVE  HoldsAddUp'
<1>1. OneCounts(Holds, h, t, Held, HeldOn, Held', HeldOn')
  <2>1. \A k \in Holds \ {h} : Held'[k] = Held[k] /\ HeldOn'[k] = HeldOn[k]
    BY DEF Held, HeldOn
  <2>2. \A k \in Holds : Held[k] \in Int /\ Held'[k] \in Int
    BY HeldTyped, HeldThenTyped
  <2>3. HeldOn[h] = hold[h].on /\ HeldOn'[h] = hold'[h].on
    BY DEF HeldOn
  <2> QED
    BY <2>1, <2>2, <2>3, HoldsAreFinite DEF OneCounts
<1> SUFFICES ASSUME NEW s \in Shelves
             PROVE  reserved'[s] = SumFunctionOnSet(Held', Linked(Holds, HeldOn', s))
  BY DEF HoldsAddUp
<1>2. SumFunctionOnSet(Held', Linked(Holds, HeldOn', s))
        = SumFunctionOnSet(Held, Linked(Holds, HeldOn, s)) + (IF s = t THEN Held'[h] - Held[h] ELSE 0)
  BY <1>1, SumOfLinked
<1>3. reserved[s] = SumFunctionOnSet(Held, Linked(Holds, HeldOn, s)) /\ reserved[s] \in Nat
  BY DEF HoldsAddUp, StockTypeOK
<1>4. reserved'[s] = reserved[s] + (IF s = t THEN Held'[h] - Held[h] ELSE 0)
  <2>1. Held[h] \in Nat /\ Held'[h] \in Nat
    BY HeldTyped, HeldThenTyped
  <2> QED
    BY <1>3, <2>1 DEF StockTypeOK
<1> QED
  BY <1>2, <1>3, <1>4

LEMMA LetGoAddsUp ==
  ASSUME StockTypeOK, StockTypeOK', HoldsOnShelves, HoldsAddUp, NEW h \in Holds, LetGo(h),
         NEW st \in {"released", "consumed"}, hold' = [hold EXCEPT ![h] = Resolved(@, st)]
  PROVE  HoldsAddUp'
<1>1. hold[h].on \in Shelves /\ hold[h].status = "held" /\ hold[h].quantity \in Nat
  BY DEF LetGo, HoldsOnShelves, StockTypeOK
<1>2. Held[h] = hold[h].quantity
  BY <1>1 DEF Held
<1>3. \A k \in Holds \ {h} : hold'[k] = hold[k]
  BY DEF StockTypeOK
<1>4. hold'[h].status = st
  BY DEF StockTypeOK, Resolved
<1>5. Held'[h] = 0
  BY <1>4 DEF Held
<1>6. reserved' = [reserved EXCEPT ![hold[h].on] = @ + Held'[h] - Held[h]]
  <2>1. reserved' = [reserved EXCEPT ![hold[h].on] = @ - hold[h].quantity]
    BY DEF LetGo
  <2>2. reserved[hold[h].on] \in Nat
    BY <1>1 DEF StockTypeOK
  <2>3. reserved[hold[h].on] - hold[h].quantity = reserved[hold[h].on] + Held'[h] - Held[h]
    BY <1>1, <1>2, <1>5, <2>2
  <2> QED
    BY <2>1, <2>3
<1> QED
  BY <1>1, <1>3, <1>5, <1>6, OneHoldChanges

LEMMA ReserveAddsUp ==
  ASSUME StockTypeOK, StockTypeOK', HoldsAddUp, NEW h \in Holds, NEW i \in Items, NEW p \in Places,
         NEW n \in Quantities, ReserveStock(h, i, p, n)
  PROVE  HoldsAddUp'
<1>1. <<i, p>> \in Shelves /\ n \in Nat
  BY StockIsBounded DEF Shelves, Quantities
<1>2. Held[h] = 0
  BY DEF ReserveStock, Held
<1>3. \A k \in Holds \ {h} : hold'[k] = hold[k]
  BY DEF ReserveStock, StockTypeOK
<1>4. hold'[h] = [status |-> "held", on |-> <<i, p>>, quantity |-> n]
  BY DEF ReserveStock, StockTypeOK
<1>5. Held'[h] = n /\ hold'[h].on = <<i, p>>
  BY <1>4 DEF Held
<1>6. reserved' = [reserved EXCEPT ![<<i, p>>] = @ + Held'[h] - Held[h]]
  <2>1. reserved' = [reserved EXCEPT ![<<i, p>>] = @ + n]
    BY DEF ReserveStock
  <2>2. reserved[<<i, p>>] \in Nat
    BY <1>1 DEF StockTypeOK
  <2>3. reserved[<<i, p>>] + n = reserved[<<i, p>>] + Held'[h] - Held[h]
    BY <1>1, <1>2, <1>5, <2>2
  <2> QED
    BY <2>1, <2>3
<1> QED
  BY <1>1, <1>2, <1>3, <1>5, <1>6, OneHoldChanges

LEMMA NextAddsUp ==
  ASSUME TypedAndLinked, TypedAndLinked', HoldsAddUp, [Next]_vars
  PROVE  HoldsAddUp'
<1>0. StockTypeOK /\ StockTypeOK' /\ HoldsOnShelves
  BY DEF TypedAndLinked, TypeOK
<1>1. ASSUME NEW h \in Holds,
             \/ ReleaseReservation(h) \/ \E n \in Quantities : ConsumeReservation(h, n)
             \/ \E i \in Items, p \in Places, n \in Quantities : ReserveStock(h, i, p, n)
      PROVE  HoldsAddUp'
  BY <1>0, <1>1, LetGoAddsUp, ReserveAddsUp DEF ReleaseReservation, ConsumeReservation
<1>2. ASSUME StockStep,
             \A h \in Holds :
               /\ ~ ReleaseReservation(h) /\ \A n \in Quantities : ~ ConsumeReservation(h, n)
               /\ \A i \in Items, p \in Places, n \in Quantities : ~ ReserveStock(h, i, p, n)
      PROVE  UNCHANGED <<hold, reserved>>
  <2>1. \A i, p, q, n : TransferStock(i, p, q, n) => UNCHANGED <<hold, reserved>>
    BY DEF TransferStock
  <2>2. \A i, p, d, cur : AdjustStock(i, p, d, cur) => UNCHANGED <<hold, reserved>>
    BY DEF AdjustStock
  <2>3. \A s : Lose(s) => UNCHANGED <<hold, reserved>>
    BY DEF Lose, balances
  <2>4. \A c, p, cur : OpenCount(c, p, cur) => UNCHANGED <<hold, reserved>>
    BY DEF OpenCount, balances
  <2>5. \A c, f : RecordCount(c, f) => UNCHANGED <<hold, reserved>>
    BY DEF RecordCount, balances
  <2>6. \A c : CancelCount(c) \/ CloseCount(c) => UNCHANGED <<hold, reserved>>
    BY DEF CancelCount, CloseCount, balances
  <2> QED
    BY <1>2, <2>1, <2>2, <2>3, <2>4, <2>5, <2>6 DEF StockStep
<1>3. CASE UNCHANGED <<hold, reserved>>
  BY <1>3, HoldsStay
<1>4. ASSUME NEW o \in Orders, NEW p \in Places, NEW goods, NEW U, ReceiveOrder(o, p, goods, U)
      PROVE  UNCHANGED <<hold, reserved>>
  BY <1>4 DEF ReceiveOrder
<1>5. ASSUME NEW k \in Cases, ScrapAsset(k) PROVE UNCHANGED <<hold, reserved>>
  BY <1>5 DEF ScrapAsset, balances
<1>6. UNCHANGED stockVars => UNCHANGED <<hold, reserved>>
  BY DEF stockVars, balances
<1> QED
  BY <1>1, <1>2, <1>3, <1>4, <1>5, <1>6 DEF Next, vars

LEMMA InitAddsUp == Init => HoldsAddUp
<1> SUFFICES ASSUME Init, NEW s \in Shelves
             PROVE  reserved[s] = SumFunctionOnSet(Held, Linked(Holds, HeldOn, s))
  BY DEF HoldsAddUp
<1>1. \A h \in Linked(Holds, HeldOn, s) : Held[h] = 0
  BY DEF Init, StockInit, NoHold, Held, Linked
<1>2. IsFiniteSet(Linked(Holds, HeldOn, s))
  BY HoldsAreFinite, FS_Subset DEF Linked
<1> QED
  BY <1>1, <1>2, SumOfZeros DEF Init, StockInit

(* What is reserved on a shelf is there and is what live holds are of it, whatever
   is reserved, released, used, moved, received and counted
   (apply_reservation_delta, apply_stock_delta). *)
THEOREM HoldsStayCovered == Spec => []HoldsAreCovered
<1>1. TypedAndLinked /\ TypedAndLinked' /\ HoldsAddUp /\ [Next]_vars => HoldsAddUp'
  BY NextAddsUp
<1>2. TypedAndLinked /\ [Next]_vars => TypedAndLinked'
  BY NextLinked
<1>3. ReservedIsThere /\ HoldsAddUp => HoldsAreCovered
  <2>1. \A s \in Shelves : Linked(Holds, HeldOn, s) = {h \in Holds : hold[h].on = s}
    BY DEF Linked, HeldOn
  <2> QED
    BY <2>1 DEF HoldsAddUp, HoldsAreCovered
<1> QED
  BY <1>1, <1>2, <1>3, InitLinked, InitAddsUp, HeldStockStays, PTL DEF Spec

-----------------------------------------------------------------------------
(* The repair desk *)

(* What is being repaired is at the desk, in one case. *)
DeskInOrder ==
  \A k \in Cases : repair[k] \in AtDesk =>
    /\ unit[device[k]] = "rma"
    /\ \A c \in Cases \ {k} : repair[c] \in AtDesk => device[c] # device[k]

LEMMA EquipmentKeepsDesk ==
  ASSUME EquipmentTypeOK, CasesHaveDevices, DeskInOrder, EquipmentStep \/ \E k \in Cases : Scrap(k)
  PROVE  DeskInOrder'
<1> USE DEF EquipmentTypeOK, DeskInOrder, AtDesk
<1>1. ASSUME NEW j \in FieldJobs, FieldWork(j) PROVE DeskInOrder'
  BY <1>1 DEF FieldWork, custody, desk
<1>2. ASSUME UNCHANGED <<repair, device>>, NEW u \in Units, unit[u] # "rma", NEW st,
             unit' = [unit EXCEPT ![u] = st]
      PROVE  DeskInOrder'
  BY <1>2
<1>3. ASSUME NEW u \in Units, \/ \E j \in FieldJobs : Issue(u, j)
                              \/ Install(u) \/ SetAside(u) \/ \E w \in Warehouses : Return(u, w)
      PROVE  DeskInOrder'
  <2>1. UNCHANGED <<repair, device>> /\ unit[u] # "rma"
    BY <1>3 DEF Issue, Install, SetAside, Return, OnShelf, Out, desk
  <2>2. \E st : unit' = [unit EXCEPT ![u] = st]
    BY <1>3 DEF Issue, Install, SetAside, Return
  <2> QED
    BY <1>2, <2>1, <2>2
<1>4. ASSUME NEW k \in Cases, NEW u \in Units, NEW withVendor \in BOOLEAN,
             OpenCase(k, u, withVendor)
      PROVE  DeskInOrder'
  <2>1. \A c \in Cases : repair[c] \in AtDesk => device[c] # u
    BY <1>4 DEF OpenCase, OnShelf
  <2>2. /\ repair' = [repair EXCEPT ![k] = "open"] /\ device' = [device EXCEPT ![k] = u]
        /\ unit' = [unit EXCEPT ![u] = "rma"]
    BY <1>4 DEF OpenCase
  <2>3. \A c \in Cases \ {k} : repair'[c] = repair[c] /\ device'[c] = device[c]
    BY <2>2
  <2>4. repair'[k] = "open" /\ device'[k] = u /\ unit'[u] = "rma"
    BY <2>2
  <2>5. \A c \in Cases \ {k} : repair[c] \in AtDesk => unit'[device[c]] = unit[device[c]]
    BY <2>1, <2>2
  <2> QED
    BY <2>1, <2>3, <2>4, <2>5
<1>5. ASSUME NEW k \in Cases, SendToVendor(k) \/ CloseCase(k) PROVE DeskInOrder'
  <2>1. UNCHANGED <<unit, device>> /\ \A c \in Cases : repair'[c] \in AtDesk => repair[c] \in AtDesk
    BY <1>5 DEF SendToVendor, CloseCase, custody
  <2> QED
    BY <2>1
<1>6. ASSUME NEW k \in Cases, repair[k] \in AtDesk, NEW st \in {"repaired", "replaced", "scrapped"},
             repair' = [repair EXCEPT ![k] = st], UNCHANGED device,
             \A c \in Cases : repair[c] \in AtDesk /\ device[c] # device[k] =>
               unit'[device[c]] = unit[device[c]]
      PROVE  DeskInOrder'
  <2>1. \A c \in Cases : repair'[c] \in AtDesk => c # k /\ repair[c] \in AtDesk
    BY <1>6
  <2> QED
    BY <1>6, <2>1
<1>7. ASSUME NEW k \in Cases, ReceiveRepaired(k) PROVE DeskInOrder'
  BY <1>6, <1>7 DEF ReceiveRepaired
<1>8. ASSUME NEW k \in Cases, NEW u \in Units, ReceiveReplacement(k, u) PROVE DeskInOrder'
  <2>1. \A c \in Cases : repair[c] \in AtDesk /\ device[c] # device[k] =>
          unit'[device[c]] = unit[device[c]]
    BY <1>8 DEF ReceiveReplacement, CasesHaveDevices
  <2> QED
    BY <1>6, <1>8, <2>1 DEF ReceiveReplacement
<1>9. ASSUME NEW k \in Cases, Scrap(k) PROVE DeskInOrder'
  BY <1>6, <1>9 DEF Scrap
<1> HIDE DEF EquipmentTypeOK, DeskInOrder, AtDesk
<1> QED
  BY <1>1, <1>3, <1>4, <1>5, <1>7, <1>8, <1>9 DEF EquipmentStep

LEMMA NextKeepsDesk ==
  ASSUME TypedAndLinked, DeskInOrder, [Next]_vars
  PROVE  DeskInOrder'
<1>0. EquipmentTypeOK /\ CasesHaveDevices
  BY DEF TypedAndLinked, TypeOK
<1>1. CASE UNCHANGED equipmentVars
  BY <1>1 DEF DeskInOrder, equipmentVars, custody, desk
<1>2. CASE EquipmentStep \/ \E k \in Cases : Scrap(k)
  BY <1>0, <1>2, EquipmentKeepsDesk
<1>3. ASSUME NEW o \in Orders, NEW p \in Places, NEW goods \in [Items -> 0..MaxOnHand],
             NEW U \in SUBSET Units, ReceiveOrder(o, p, goods, U)
      PROVE  DeskInOrder'
  <2>1. UNCHANGED <<repair, device>> /\ \A u \in Units : unit[u] # "none" => unit'[u] = unit[u]
    BY <1>3 DEF ReceiveOrder, desk
  <2> QED
    BY <1>0, <2>1 DEF DeskInOrder, CasesHaveDevices, AtDesk
<1> QED
  BY <1>1, <1>2, <1>3 DEF Next, ScrapAsset, vars

LEMMA PlaceCases ==
  /\ PlaceOf("none") = "none"
  /\ \A st \in OnShelf : PlaceOf(st) = "shelf"
  /\ \A st \in Out : PlaceOf(st) = "out"
  /\ PlaceOf("rma") = "desk" /\ PlaceOf("scrapped") = "gone"
BY DEF PlaceOf, OnShelf, Out

LEMMA MoveMaps ==
  ASSUME EquipmentTypeOK, NEW u \in Units, NEW st, unit' = [unit EXCEPT ![u] = st]
  PROVE  Desk!Move(u, PlaceOf(unit[u]), PlaceOf(st))
BY DEF EquipmentTypeOK, Desk!Move, Whereabouts

LEMMA ConcernsStay ==
  ASSUME UNCHANGED <<repair, device>>
  PROVE  UNCHANGED Concerns
BY DEF Concerns, Concern

(* Concern of case k becomes `a`, and the other cases stay. *)
LEMMA ConcernMaps ==
  ASSUME EquipmentTypeOK, NEW k \in Cases, NEW st, NEW a,
         repair' = [repair EXCEPT ![k] = st],
         \A c \in Cases \ {k} : device'[c] = device[c],
         Concern(k)' = a
  PROVE  Concerns' = [Concerns EXCEPT ![k] = a]
<1>1. \A c \in Cases \ {k} : Concern(c)' = Concern(c)
  BY DEF Concern, EquipmentTypeOK
<1> HIDE DEF Concern
<1> QED
  BY <1>1 DEF Concerns

LEMMA CustodyMaps ==
  ASSUME EquipmentTypeOK, NEW u \in Units,
         \/ \E j \in FieldJobs : Issue(u, j)
         \/ Install(u) \/ SetAside(u) \/ \E w \in Warehouses : Return(u, w)
  PROVE  Desk!Carry(u) \/ UNCHANGED <<Whereabouts, Concerns>>
<1> DEFINE Goes(from, to) ==
      /\ PlaceOf(unit[u]) = from
      /\ \E st : unit' = [unit EXCEPT ![u] = st] /\ PlaceOf(st) = to
<1>1. UNCHANGED Concerns
  BY ConcernsStay DEF Issue, Install, SetAside, Return, desk
<1>2. ASSUME NEW from, NEW to, Goes(from, to) PROVE Desk!Move(u, from, to)
  BY <1>2, MoveMaps
<1>3. CASE \E j \in FieldJobs : Issue(u, j)
  <2>1. Goes("shelf", "out")
    <3>1. unit[u] \in OnShelf /\ unit' = [unit EXCEPT ![u] = "issued"] /\ "issued" \in Out
      BY <1>3 DEF Issue, Out
    <3> QED
      BY <3>1, PlaceCases
  <2> QED
    BY <1>1, <1>2, <2>1 DEF Desk!Carry
<1>4. CASE Install(u)
  <2>1. PlaceOf(unit[u]) = PlaceOf("installed") /\ unit' = [unit EXCEPT ![u] = "installed"]
    BY <1>4, PlaceCases DEF Install, Out
  <2>2. UNCHANGED Whereabouts
    BY <2>1 DEF Whereabouts, EquipmentTypeOK
  <2> QED
    BY <1>1, <2>2
<1>5. CASE SetAside(u)
  <2>1. Goes("shelf", "desk")
    <3>1. unit[u] \in OnShelf /\ unit' = [unit EXCEPT ![u] = "rma"]
      BY <1>5 DEF SetAside, OnShelf
    <3> QED
      BY <3>1, PlaceCases
  <2> QED
    BY <1>1, <1>2, <2>1 DEF Desk!Carry
<1>6. CASE \E w \in Warehouses : Return(u, w)
  <2>1. Goes("out", "shelf")
    <3>1. unit[u] \in Out /\ unit' = [unit EXCEPT ![u] = "returned"] /\ "returned" \in OnShelf
      BY <1>6 DEF Return, OnShelf
    <3> QED
      BY <3>1, PlaceCases
  <2> QED
    BY <1>1, <1>2, <2>1 DEF Desk!Carry
<1> QED
  BY <1>3, <1>4, <1>5, <1>6

LEMMA OpenCaseMaps ==
  ASSUME EquipmentTypeOK, NEW k \in Cases, NEW u \in Units, NEW withVendor \in BOOLEAN,
         OpenCase(k, u, withVendor)
  PROVE  Desk!Submit(k, u)
<1>1. Desk!Move(u, "shelf", "desk")
  <2>1. unit[u] \in OnShelf /\ unit' = [unit EXCEPT ![u] = "rma"]
    BY DEF OpenCase
  <2> QED
    BY <2>1, MoveMaps, PlaceCases
<1>2. Concerns[k] = Nowhere
  BY DEF OpenCase, Concerns, Concern
<1>3. Concerns' = [Concerns EXCEPT ![k] = u]
  <2>1. /\ repair' = [repair EXCEPT ![k] = "open"] /\ device' = [device EXCEPT ![k] = u]
    BY DEF OpenCase
  <2>2. \A c \in Cases \ {k} : device'[c] = device[c]
    BY <2>1 DEF EquipmentTypeOK
  <2>3. Concern(k)' = u
    BY <2>1 DEF Concern, AtDesk, EquipmentTypeOK
  <2> QED
    BY <2>1, <2>2, <2>3, ConcernMaps
<1> QED
  BY <1>1, <1>2, <1>3 DEF Desk!Submit

LEMMA SettleMaps ==
  ASSUME EquipmentTypeOK, CasesHaveDevices, DeskInOrder, NEW k \in Cases, repair[k] \in AtDesk,
         NEW st \in {"repaired", "replaced", "scrapped"},
         repair' = [repair EXCEPT ![k] = st], UNCHANGED device
  PROVE  /\ Concerns[k] = device[k] /\ device[k] \in Units
         /\ \A c \in Cases \ {k} : Concerns[c] # device[k]
         /\ Concerns' = [Concerns EXCEPT ![k] = "settled"]
         /\ Whereabouts[device[k]] = "desk"
<1>1. device[k] \in Units /\ Concerns[k] = device[k]
  BY DEF CasesHaveDevices, AtDesk, Concerns, Concern
<1>2. ASSUME NEW c \in Cases \ {k} PROVE Concerns[c] # device[k]
  <2>1. repair[c] \in AtDesk => device[c] # device[k]
    BY DEF DeskInOrder
  <2>2. device[k] # Nowhere /\ device[k] # "settled"
    BY <1>1, NowhereIsNotOurs, SettledIsNoUnit
  <2> QED
    BY <2>1, <2>2 DEF Concerns, Concern
<1>3. Concern(k)' = "settled"
  BY DEF Concern, AtDesk, EquipmentTypeOK
<1>4. Concerns' = [Concerns EXCEPT ![k] = "settled"]
  BY <1>3, ConcernMaps
<1>5. Whereabouts[device[k]] = "desk"
  BY <1>1, PlaceCases DEF DeskInOrder, Whereabouts
<1> QED
  BY <1>1, <1>2, <1>4, <1>5

LEMMA EquipmentMaps ==
  ASSUME EquipmentTypeOK, CasesHaveDevices, DeskInOrder, EquipmentStep \/ \E k \in Cases : Scrap(k)
  PROVE  Desk!Next \/ UNCHANGED <<Whereabouts, Concerns>>
<1>1. ASSUME NEW j \in FieldJobs, FieldWork(j) PROVE UNCHANGED <<Whereabouts, Concerns>>
  BY <1>1 DEF FieldWork, Whereabouts, Concerns, Concern, custody, desk
<1>2. ASSUME NEW u \in Units,
             \/ \E j \in FieldJobs : Issue(u, j)
             \/ Install(u) \/ SetAside(u) \/ \E w \in Warehouses : Return(u, w)
      PROVE  Desk!Next \/ UNCHANGED <<Whereabouts, Concerns>>
  BY <1>2, CustodyMaps DEF Desk!Next
<1>3. ASSUME NEW k \in Cases, NEW u \in Units, NEW withVendor \in BOOLEAN,
             OpenCase(k, u, withVendor)
      PROVE  Desk!Next
  BY <1>3, OpenCaseMaps DEF Desk!Next
<1>4. ASSUME NEW k \in Cases, SendToVendor(k) \/ CloseCase(k)
      PROVE  UNCHANGED <<Whereabouts, Concerns>>
  <2>1. UNCHANGED <<unit, device>> /\ \A c \in Cases : Concern(c)' = Concern(c)
    BY <1>4 DEF SendToVendor, CloseCase, custody, Concern, AtDesk, EquipmentTypeOK
  <2> QED
    BY <2>1 DEF Whereabouts, Concerns
<1>5. ASSUME NEW k \in Cases, ReceiveRepaired(k) PROVE Desk!Next
  <2>1. repair[k] \in AtDesk /\ repair' = [repair EXCEPT ![k] = "repaired"] /\ UNCHANGED device
    BY <1>5 DEF ReceiveRepaired, AtDesk
  <2>2. device[k] \in Units
    BY <2>1 DEF CasesHaveDevices, AtDesk
  <2>3. Whereabouts' = [Whereabouts EXCEPT ![device[k]] = "shelf"]
    <3>1. unit' = [unit EXCEPT ![device[k]] = "in_stock"] /\ PlaceOf("in_stock") = "shelf"
      BY <1>5, PlaceCases DEF ReceiveRepaired, OnShelf
    <3> QED
      BY <2>2, <3>1, MoveMaps DEF Desk!Move
  <2>4. Desk!Settle(k, device[k])
    BY <2>1, <2>3, SettleMaps DEF Desk!Settle
  <2> QED
    BY <2>2, <2>4 DEF Desk!Next
<1>6. ASSUME NEW k \in Cases, Scrap(k) PROVE Desk!Next
  <2>1. repair[k] \in AtDesk /\ repair' = [repair EXCEPT ![k] = "scrapped"] /\ UNCHANGED device
    BY <1>6 DEF Scrap
  <2>2. device[k] \in Units
    BY <2>1 DEF CasesHaveDevices, AtDesk
  <2>3. Whereabouts' = [Whereabouts EXCEPT ![device[k]] = "gone"]
    <3>1. unit' = [unit EXCEPT ![device[k]] = "scrapped"] /\ PlaceOf("scrapped") = "gone"
      BY <1>6, PlaceCases DEF Scrap
    <3> QED
      BY <2>2, <3>1, MoveMaps DEF Desk!Move
  <2>4. Desk!Settle(k, device[k])
    BY <2>1, <2>3, SettleMaps DEF Desk!Settle
  <2> QED
    BY <2>2, <2>4 DEF Desk!Next
<1>7. ASSUME NEW k \in Cases, NEW u \in Units, ReceiveReplacement(k, u) PROVE Desk!Next
  <2>1. repair[k] \in AtDesk /\ repair' = [repair EXCEPT ![k] = "replaced"] /\ UNCHANGED device
    BY <1>7 DEF ReceiveReplacement, AtDesk
  <2>2. device[k] \in Units
    BY <2>1 DEF CasesHaveDevices, AtDesk
  <2>3. Whereabouts[u] = "none"
    BY <1>7, PlaceCases DEF ReceiveReplacement, Whereabouts
  <2>4. Whereabouts' = [x \in Units |-> IF x = u THEN "shelf"
                                       ELSE IF x = device[k] THEN "gone" ELSE Whereabouts[x]]
    <3>1. unit' = [x \in Units |-> IF x = u THEN "in_stock"
                                   ELSE IF x = device[k] THEN "scrapped" ELSE unit[x]]
      BY <1>7 DEF ReceiveReplacement
    <3>2. PlaceOf("in_stock") = "shelf" /\ PlaceOf("scrapped") = "gone"
      BY PlaceCases DEF OnShelf
    <3> QED
      BY <3>1, <3>2 DEF Whereabouts
  <2>5. Desk!Settle(k, device[k])
    <3>1. /\ Concerns[k] = device[k]
          /\ \A c \in Cases \ {k} : Concerns[c] # device[k]
          /\ Concerns' = [Concerns EXCEPT ![k] = "settled"]
          /\ Whereabouts[device[k]] = "desk"
      BY <2>1, SettleMaps
    <3> QED
      BY <2>3, <2>4, <3>1 DEF Desk!Settle
  <2> QED
    BY <2>2, <2>5 DEF Desk!Next
<1> QED
  BY <1>1, <1>2, <1>3, <1>4, <1>5, <1>6, <1>7 DEF EquipmentStep

LEMMA ReceiptMaps ==
  ASSUME TypeOK, NEW o \in Orders, NEW p \in Places, NEW goods, NEW U \in SUBSET Units,
         ReceiveOrder(o, p, goods, U)
  PROVE  Desk!Enter(U)
<1>1. unit' = [u \in Units |-> IF u \in U THEN "in_stock" ELSE unit[u]]
      /\ (\A u \in U : unit[u] = "none") /\ UNCHANGED <<repair, device>>
  BY DEF ReceiveOrder, desk
<1>2. UNCHANGED Concerns
  BY <1>1, ConcernsStay
<1>3. PlaceOf("none") = "none" /\ PlaceOf("in_stock") = "shelf"
  BY PlaceCases DEF OnShelf
<1> QED
  BY <1>1, <1>2, <1>3 DEF Desk!Enter, Whereabouts

LEMMA InitMaps == Init => Desk!Init /\ DeskInOrder
<1> SUFFICES ASSUME Init PROVE Desk!Init /\ DeskInOrder
  OBVIOUS
<1>1. /\ unit = [u \in Units |-> "none"] /\ repair = [k \in Cases |-> "none"]
  BY DEF Init, EquipmentInit
<1> QED
  BY <1>1, PlaceCases DEF Desk!Init, DeskInOrder, AtDesk, Whereabouts, Concerns, Concern

LEMMA NextMaps ==
  ASSUME TypedAndLinked, DeskInOrder, [Next]_vars
  PROVE  [Desk!Next]_<<Whereabouts, Concerns>>
<1>0. TypeOK /\ EquipmentTypeOK /\ CasesHaveDevices
  BY DEF TypedAndLinked, TypeOK
<1>1. CASE UNCHANGED equipmentVars
  BY <1>1 DEF equipmentVars, custody, desk, Whereabouts, Concerns, Concern
<1>2. CASE EquipmentStep \/ \E k \in Cases : Scrap(k)
  BY <1>0, <1>2, EquipmentMaps
<1>3. ASSUME NEW o \in Orders, NEW p \in Places, NEW goods \in [Items -> 0..MaxOnHand],
             NEW U \in SUBSET Units, ReceiveOrder(o, p, goods, U)
      PROVE  Desk!Next
  BY <1>0, <1>3, ReceiptMaps DEF Desk!Next
<1> QED
  BY <1>1, <1>2, <1>3 DEF Next, ScrapAsset, vars

(* Equipment is in one place at a time, a repair case settles its device once, *)
(* and what is written off never comes back (execute_inventory_custody,        *)
(* execute_rma_command).                                                       *)
THEOREM EquipmentKeepsCustody == Spec => KeepsCustody
<1> QED
  BY InitLinked, NextLinked, NextKeepsDesk, InitMaps, NextMaps, PTL
  DEF Spec, KeepsCustody, Desk!Spec

-----------------------------------------------------------------------------
(* Orders and quotes *)

Bought(o, i) == {u \in Units : ModelOf[u] = i /\ boughtOn[u] = o}

(* One order. *)
OrderInOrder(o) ==
  /\ \A i \in Items :
       /\ arrived[o][i] <= ordered[o][i]
       /\ payable[o][i] = arrived[o][i] * price[o][i]
       /\ serialized[i] => Cardinality(Bought(o, i)) = arrived[o][i]
  /\ order[o] = "received" <=> arrived[o] # NoLine /\ arrived[o] = ordered[o]
  /\ order[o] \in {"none", "draft", "approved"} => arrived[o] = NoLine

(* One request. *)
RequestInOrder(r) ==
  /\ request[r] = "awarded" <=> orderOf[r] # Nowhere
  /\ request[r] # "awarded" => \A v \in Vendors : quote[r][v] \in {"none", "received"}
  /\ request[r] = "awarded" =>
       \E v \in Vendors :
         /\ quote[r][v] = "awarded"
         /\ price[orderOf[r]] = bid[r][v] /\ currency[orderOf[r]] = bidIn[r][v]
         /\ \A x \in Vendors \ {v} : quote[r][x] \in {"none", "rejected"}
  /\ orderOf[r] # Nowhere => order[orderOf[r]] # "none"
  /\ \A x \in Requests \ {r} : orderOf[r] = orderOf[x] => orderOf[r] = Nowhere

(* What is wanted, ordered or entered is in the catalog. *)
InCatalog ==
  /\ \A r \in Requests, i \in Items : wanted[r][i] # 0 => Known(i)
  /\ \A o \in Orders, i \in Items : ordered[o][i] # 0 => Known(i)
  /\ \A u \in Units : unit[u] # "none" => Known(ModelOf[u])

NewUnitsUnbought == \A u \in Units : unit[u] = "none" => boughtOn[u] = Nowhere

BuyingInOrder ==
  /\ InCatalog /\ NewUnitsUnbought
  /\ \A o \in Orders : OrderInOrder(o)
  /\ \A r \in Requests : RequestInOrder(r)

LEMMA BuyingIsBookedOnce == BuyingInOrder => OrdersBookedOnce
<1> SUFFICES ASSUME BuyingInOrder PROVE OrdersBookedOnce
  OBVIOUS
<1>1. ASSUME NEW o \in Orders, NEW i \in Items
      PROVE  Bought(o, i) = {u \in UnitsOf(i) : boughtOn[u] = o}
  BY NowhereIsNoOrder DEF BuyingInOrder, NewUnitsUnbought, Bought, UnitsOf
<1>2. ASSUME NEW o \in Orders
      PROVE  /\ \A i \in Items :
                  /\ arrived[o][i] <= ordered[o][i]
                  /\ payable[o][i] = arrived[o][i] * price[o][i]
             /\ order[o] = "received" <=> arrived[o] # NoLine /\ arrived[o] = ordered[o]
             /\ order[o] \in {"none", "draft", "approved"} => arrived[o] = NoLine
             /\ \A i \in Items : serialized[i] =>
                  Cardinality({u \in UnitsOf(i) : boughtOn[u] = o}) = arrived[o][i]
  BY <1>1 DEF BuyingInOrder, OrderInOrder
<1>3. ASSUME NEW r \in Requests
      PROVE  /\ request[r] = "awarded" <=> orderOf[r] # Nowhere
             /\ request[r] = "awarded" =>
                  \E v \in Vendors :
                    /\ quote[r][v] = "awarded"
                    /\ price[orderOf[r]] = bid[r][v] /\ currency[orderOf[r]] = bidIn[r][v]
                    /\ \A x \in Vendors \ {v} : quote[r][x] \in {"none", "rejected"}
             /\ \A x \in Requests \ {r} : orderOf[r] = orderOf[x] => orderOf[r] = Nowhere
  BY DEF BuyingInOrder, RequestInOrder
<1> QED
  BY <1>2, <1>3 DEF OrdersBookedOnce

LEMMA BoughtInit ==
  ASSUME NEW o \in Orders, NEW i \in Items, boughtOn = [u \in Units |-> Nowhere]
  PROVE  Cardinality(Bought(o, i)) = 0
<1>1. Bought(o, i) = {}
  BY NowhereIsNoOrder DEF Bought
<1> QED
  BY <1>1, FS_EmptySet

LEMMA InitBuying == Init => BuyingInOrder
<1> SUFFICES ASSUME Init PROVE BuyingInOrder
  OBVIOUS
<1> USE DEF Init, ProcurementInit, EquipmentInit, RegisterInit, NoLine
<1>1. InCatalog /\ NewUnitsUnbought
  BY DEF InCatalog, NewUnitsUnbought
<1>2. ASSUME NEW o \in Orders PROVE OrderInOrder(o)
  BY BoughtInit DEF OrderInOrder
<1>3. ASSUME NEW r \in Requests PROVE RequestInOrder(r)
  BY DEF RequestInOrder
<1> QED
  BY <1>1, <1>2, <1>3 DEF BuyingInOrder

LEMMA RegisterBuying ==
  ASSUME TypeOK, BuyingInOrder, RegisterStep, UNCHANGED <<equipmentVars, buyingVars, boughtOn>>
  PROVE  BuyingInOrder'
<1> USE DEF equipmentVars, custody, buyingVars, sourcing, ordering
<1> DEFINE CatalogKept == \A i \in Items : catalog[i] # "none" => catalog'[i] # "none"
           Unused(i) == /\ \A u \in Units : boughtOn[u] # Nowhere => ModelOf[u] # i
                        /\ \A o \in Orders : ordered[o][i] = 0
           FlagsKept == \A i \in Items : serialized'[i] => serialized[i] \/ Unused(i)
<1>1. CatalogKept /\ FlagsKept
  <2>1. ASSUME NEW v \in Vendors, CreateVendor(v) PROVE UNCHANGED <<catalog, serialized>>
    BY <2>1 DEF CreateVendor
  <2>2. ASSUME NEW i \in Items, NEW flag \in BOOLEAN, NEW k \in UnitCosts, CreateItem(i, flag, k)
        PROVE  CatalogKept /\ FlagsKept
    <3>1. /\ catalog' = [catalog EXCEPT ![i] = "active"] /\ ~ Known(i)
          /\ \A j \in Items \ {i} : serialized'[j] <=> serialized[j]
      BY <2>2 DEF CreateItem, Known, TypeOK, RegisterTypeOK
    <3>2. /\ \A u \in Units : unit[u] # "none" => ModelOf[u] # i
          /\ \A o \in Orders : ordered[o][i] = 0
      BY <3>1 DEF BuyingInOrder, InCatalog
    <3>3. \A u \in Units : boughtOn[u] # Nowhere => unit[u] # "none"
      BY DEF BuyingInOrder, NewUnitsUnbought
    <3> QED
      BY <3>1, <3>2, <3>3 DEF TypeOK, RegisterTypeOK
  <2>3. ASSUME NEW i \in Items, NEW flag \in BOOLEAN, NEW st \in Standings,
               NEW k \in UnitCosts, UpdateItem(i, flag, st, k)
        PROVE  CatalogKept /\ FlagsKept
    <3>1. /\ \A j \in Items : catalog[j] # "none" => catalog'[j] # "none"
          /\ \A j \in Items \ {i} : serialized'[j] <=> serialized[j]
          /\ serialized'[i] <=> flag
      BY <2>3 DEF UpdateItem, TypeOK, RegisterTypeOK
    <3>2. (flag <=> serialized[i]) \/ (UnitsOf(i) = {} /\ OrdersFor(i) = {})
      BY <2>3 DEF UpdateItem
    <3>3. \A u \in Units : boughtOn[u] # Nowhere => unit[u] # "none"
      BY DEF BuyingInOrder, NewUnitsUnbought
    <3>4. UnitsOf(i) = {} => \A u \in Units : boughtOn[u] # Nowhere => ModelOf[u] # i
      BY <3>3 DEF UnitsOf
    <3>5. OrdersFor(i) = {} => \A o \in Orders : ordered[o][i] = 0
      BY DEF OrdersFor
    <3> QED
      BY <3>1, <3>2, <3>4, <3>5
  <2>4. ASSUME NEW p \in Places, CreatePlace(p) \/ \E st \in Standings : UpdatePlace(p, st)
        PROVE  UNCHANGED <<catalog, serialized>>
    BY <2>4 DEF CreatePlace, UpdatePlace
  <2> QED
    BY <2>1, <2>2, <2>3, <2>4 DEF RegisterStep
<1>2. InCatalog' /\ NewUnitsUnbought'
  BY <1>1, UnitsHaveModels DEF BuyingInOrder, InCatalog, NewUnitsUnbought, Known
<1>3. ASSUME NEW o \in Orders PROVE OrderInOrder(o)'
  <2>1. ASSUME NEW i \in Items, serialized'[i] PROVE Cardinality(Bought(o, i)') = arrived[o][i]
    <3>1. Bought(o, i)' = Bought(o, i)
      BY DEF Bought
    <3>2. CASE serialized[i]
      BY <3>1, <3>2 DEF BuyingInOrder, OrderInOrder
    <3>3. CASE ~ serialized[i]
      <4>1. Bought(o, i) = {} /\ ordered[o][i] = 0
        BY <1>1, <2>1, <3>3, NowhereIsNoOrder DEF Bought
      <4>2. arrived[o][i] \in Nat /\ arrived[o][i] <= 0
        BY <4>1 DEF TypeOK, ProcurementTypeOK, BuyingInOrder, OrderInOrder
      <4> QED
        BY <3>1, <4>1, <4>2, FS_EmptySet
    <3> QED
      BY <3>2, <3>3
  <2> QED
    BY <2>1 DEF BuyingInOrder, OrderInOrder
<1>4. ASSUME NEW r \in Requests PROVE RequestInOrder(r)'
  BY DEF BuyingInOrder, RequestInOrder
<1> QED
  BY <1>2, <1>3, <1>4 DEF BuyingInOrder

(* Of the equipment only what is entered matters, and a replacement is of the *)
(* model of the device it replaces.                                           *)
LEMMA EquipmentBuying ==
  ASSUME EquipmentTypeOK, CasesHaveDevices, BuyingInOrder,
         EquipmentStep \/ \E k \in Cases : Scrap(k),
         UNCHANGED <<register, buyingVars, boughtOn>>
  PROVE  BuyingInOrder'
<1> USE DEF register, buyingVars, sourcing, ordering
<1>1. /\ \A u \in Units : unit'[u] = "none" => unit[u] = "none"
      /\ \A u \in Units : unit[u] = "none" /\ unit'[u] # "none" =>
           \E d \in Units : unit[d] # "none" /\ ModelOf[u] = ModelOf[d]
  <2> USE DEF EquipmentTypeOK
  <2>1. ASSUME NEW j \in FieldJobs, FieldWork(j) PROVE UNCHANGED unit
    BY <2>1 DEF FieldWork, custody
  <2>2. ASSUME NEW u \in Units, unit[u] # "none",
               NEW st \in {"issued", "installed", "returned", "rma", "in_stock", "scrapped"},
               unit' = [unit EXCEPT ![u] = st]
        PROVE  \A x \in Units : unit'[x] = "none" <=> unit[x] = "none"
    BY <2>2
  <2>3. ASSUME NEW u \in Units,
               \/ \E j \in FieldJobs : Issue(u, j)
               \/ Install(u) \/ SetAside(u) \/ \E w \in Warehouses : Return(u, w)
               \/ \E k \in Cases, withVendor \in BOOLEAN : OpenCase(k, u, withVendor)
        PROVE  \A x \in Units : unit'[x] = "none" <=> unit[x] = "none"
    <3>1. unit[u] # "none"
      BY <2>3 DEF Issue, Install, SetAside, Return, OpenCase, OnShelf, Out
    <3>2. \E st \in {"issued", "installed", "returned", "rma"} : unit' = [unit EXCEPT ![u] = st]
      BY <2>3 DEF Issue, Install, SetAside, Return, OpenCase
    <3> QED
      BY <2>2, <3>1, <3>2
  <2>4. ASSUME NEW k \in Cases, SendToVendor(k) \/ CloseCase(k) PROVE UNCHANGED unit
    BY <2>4 DEF SendToVendor, CloseCase, custody
  <2>5. ASSUME NEW k \in Cases, ReceiveRepaired(k) \/ Scrap(k)
        PROVE  \A x \in Units : unit'[x] = "none" <=> unit[x] = "none"
    <3>1. device[k] \in Units /\ unit[device[k]] # "none"
      BY <2>5 DEF ReceiveRepaired, Scrap, AtDesk, CasesHaveDevices
    <3>2. \E st \in {"in_stock", "scrapped"} : unit' = [unit EXCEPT ![device[k]] = st]
      BY <2>5 DEF ReceiveRepaired, Scrap
    <3> QED
      BY <2>2, <3>1, <3>2
  <2>6. ASSUME NEW k \in Cases, NEW u \in Units, ReceiveReplacement(k, u) PROVE <1>1
    <3>1. device[k] \in Units /\ unit[device[k]] # "none" /\ ModelOf[u] = ModelOf[device[k]]
      BY <2>6 DEF ReceiveReplacement, CasesHaveDevices
    <3>2. unit' = [x \in Units |-> IF x = u THEN "in_stock"
                                   ELSE IF x = device[k] THEN "scrapped" ELSE unit[x]]
      BY <2>6 DEF ReceiveReplacement
    <3> QED
      BY <3>1, <3>2
  <2> HIDE DEF EquipmentTypeOK
  <2> QED
    BY <2>1, <2>3, <2>4, <2>5, <2>6 DEF EquipmentStep
<1>2. InCatalog' /\ NewUnitsUnbought'
  BY <1>1 DEF BuyingInOrder, InCatalog, NewUnitsUnbought, Known
<1>3. ASSUME NEW o \in Orders PROVE OrderInOrder(o)'
  BY DEF BuyingInOrder, OrderInOrder, Bought
<1>4. ASSUME NEW r \in Requests PROVE RequestInOrder(r)'
  BY DEF BuyingInOrder, RequestInOrder
<1> QED
  BY <1>2, <1>3, <1>4 DEF BuyingInOrder

(* A new order: its lines are in the catalog, and nothing of it has arrived. *)
LEMMA DraftBuying ==
  ASSUME TypeOK, BuyingInOrder, NEW o \in Orders,
         NEW w \in Warehouses \cup {Nowhere}, NEW cur \in Currencies,
         NEW l \in [Items -> Nat], NEW P \in [Items -> Nat], Draft(o, w, cur, l, P),
         \A i \in Items : l[i] # 0 => Known(i),
         UNCHANGED <<register, custody, boughtOn>>
  PROVE  /\ order[o] = "none"
         /\ \A x \in Orders : OrderInOrder(x)'
         /\ \A x \in Orders, i \in Items : ordered'[x][i] # 0 => Known(i)'
         /\ \A x \in Orders : x # o => price'[x] = price[x] /\ currency'[x] = currency[x]
         /\ \A x \in Orders : order[x] # "none" => order'[x] # "none"
         /\ order'[o] # "none" /\ price'[o] = P /\ currency'[o] = cur
<1> USE DEF TypeOK, ProcurementTypeOK
<1>1. /\ order[o] = "none" /\ order'[o] = "draft" /\ ordered'[o] = l /\ price'[o] = P
      /\ currency'[o] = cur
      /\ \A x \in Orders \ {o} :
           /\ order'[x] = order[x] /\ ordered'[x] = ordered[x] /\ price'[x] = price[x]
           /\ currency'[x] = currency[x]
      /\ UNCHANGED <<arrived, payable>>
  BY DEF Draft
<1>2. ASSUME NEW x \in Orders \ {o} PROVE OrderInOrder(x)'
  <2>1. OrderInOrder(x)
    BY DEF BuyingInOrder
  <2>2. /\ order'[x] = order[x] /\ ordered'[x] = ordered[x] /\ price'[x] = price[x]
        /\ arrived'[x] = arrived[x] /\ payable'[x] = payable[x] /\ UNCHANGED <<serialized, boughtOn>>
    BY <1>1 DEF register
  <2> QED
    BY ONLY <2>1, <2>2 DEF OrderInOrder, Bought
<1>3. OrderInOrder(o)'
  <2>1. arrived[o] = NoLine /\ order[o] # "received"
    BY <1>1 DEF BuyingInOrder, OrderInOrder
  <2>2. \A i \in Items : payable[o][i] = 0
    <3>1. ASSUME NEW i \in Items PROVE payable[o][i] = 0 * price[o][i] /\ price[o][i] \in Nat
      BY <2>1 DEF BuyingInOrder, OrderInOrder, NoLine
    <3> QED
      BY <3>1
  <2>3. ASSUME NEW i \in Items
        PROVE  /\ arrived[o][i] <= l[i] /\ payable[o][i] = arrived[o][i] * P[i]
               /\ serialized[i] => Cardinality(Bought(o, i)) = arrived[o][i]
    BY <2>1, <2>2 DEF NoLine, BuyingInOrder, OrderInOrder
  <2> QED
    BY <1>1, <2>1, <2>3 DEF OrderInOrder, Bought, register
<1>4. ASSUME NEW x \in Orders, NEW i \in Items, ordered'[x][i] # 0 PROVE Known(i)'
  <2>1. Known(i)
    <3>1. CASE x = o
      BY <1>1, <1>4, <3>1
    <3>2. CASE x # o
      BY <1>1, <1>4, <3>2 DEF BuyingInOrder, InCatalog
    <3> QED
      BY <3>1, <3>2
  <2> QED
    BY <2>1 DEF Known, register
<1> QED
  BY <1>1, <1>2, <1>3, <1>4

LEMMA QuotesBuying ==
  ASSUME TypeOK, BuyingInOrder, NEW r \in Requests, UNCHANGED <<register, custody, boughtOn>>
  PROVE  /\ \A w \in Warehouses, lines \in LinesIn(Sizes) :
              CreateQuoteRequest(r, w, lines) => BuyingInOrder'
         /\ \A v \in Vendors, prices \in LinesIn(Prices), cur \in Currencies :
              RecordQuote(r, v, prices, cur) => BuyingInOrder'
         /\ CancelQuoteRequest(r) => BuyingInOrder'
<1> USE DEF TypeOK, ProcurementTypeOK
<1>0. ASSUME UNCHANGED ordering
      PROVE  /\ NewUnitsUnbought' /\ \A o \in Orders : OrderInOrder(o)'
             /\ (\A q \in Requests, i \in Items : wanted'[q][i] # 0 => Known(i)) => InCatalog'
  <2>1. NewUnitsUnbought'
    BY DEF BuyingInOrder, NewUnitsUnbought, custody
  <2>2. ASSUME NEW o \in Orders PROVE OrderInOrder(o)'
    <3>1. OrderInOrder(o) /\ UNCHANGED <<order, ordered, price, arrived, payable, serialized, boughtOn>>
      BY <1>0 DEF BuyingInOrder, ordering, register
    <3> QED
      BY ONLY <3>1 DEF OrderInOrder, Bought
  <2>3. ASSUME \A q \in Requests, i \in Items : wanted'[q][i] # 0 => Known(i) PROVE InCatalog'
    BY <1>0, <2>3 DEF BuyingInOrder, InCatalog, Known, ordering, register, custody
  <2> QED
    BY <2>1, <2>2, <2>3
<1>1. ASSUME NEW q \in Requests, UNCHANGED <<price, currency, order, orderOf>>,
             request'[q] = request[q], bid'[q] = bid[q], bidIn'[q] = bidIn[q], quote'[q] = quote[q]
      PROVE  RequestInOrder(q)'
  BY <1>1 DEF BuyingInOrder, RequestInOrder
<1>2. ASSUME NEW w \in Warehouses, NEW lines \in LinesIn(Sizes), CreateQuoteRequest(r, w, lines)
      PROVE  BuyingInOrder'
  <2>1. /\ \A q \in Requests \ {r} : request'[q] = request[q] /\ wanted'[q] = wanted[q]
        /\ request[r] = "none" /\ request'[r] = "open" /\ wanted'[r] = lines
        /\ UNCHANGED <<quote, bid, bidIn, orderOf, ordering>>
        /\ \A i \in LinesOf(lines) : catalog[i] = "active"
    BY <1>2 DEF CreateQuoteRequest
  <2>2. ASSUME NEW q \in Requests, NEW i \in Items, wanted'[q][i] # 0 PROVE Known(i)
    <3>1. CASE q = r
      BY <2>1, <2>2, <3>1 DEF LinesOf, Known
    <3>2. CASE q # r
      BY <2>1, <2>2, <3>2 DEF BuyingInOrder, InCatalog
    <3> QED
      BY <3>1, <3>2
  <2>3. ASSUME NEW q \in Requests \ {r} PROVE RequestInOrder(q)'
    BY <1>1, <2>1 DEF ordering
  <2>4. RequestInOrder(r)'
    BY <2>1 DEF BuyingInOrder, RequestInOrder, ordering
  <2> QED
    BY <1>0, <2>1, <2>2, <2>3, <2>4 DEF BuyingInOrder
<1>3. ASSUME NEW v \in Vendors, NEW prices \in LinesIn(Prices), NEW cur \in Currencies,
             RecordQuote(r, v, prices, cur)
      PROVE  BuyingInOrder'
  <2>1. /\ \A q \in Requests \ {r} : quote'[q] = quote[q] /\ bid'[q] = bid[q] /\ bidIn'[q] = bidIn[q]
        /\ request[r] = "open" /\ quote'[r] = [quote[r] EXCEPT ![v] = "received"]
        /\ UNCHANGED <<request, wanted, orderOf, ordering>>
    BY <1>3 DEF RecordQuote
  <2>2. \A q \in Requests, i \in Items : wanted'[q][i] # 0 => Known(i)
    BY <2>1 DEF BuyingInOrder, InCatalog
  <2>3. ASSUME NEW q \in Requests \ {r} PROVE RequestInOrder(q)'
    BY <1>1, <2>1 DEF ordering
  <2>4. RequestInOrder(r)'
    <3>1. RequestInOrder(r) /\ orderOf[r] = Nowhere
      BY <2>1 DEF BuyingInOrder, RequestInOrder
    <3>2. \A x \in Vendors : quote'[r][x] \in {"none", "received"}
      BY <2>1, <3>1 DEF RequestInOrder
    <3> QED
      BY <2>1, <3>1, <3>2 DEF RequestInOrder, ordering
  <2> QED
    BY <1>0, <2>1, <2>2, <2>3, <2>4 DEF BuyingInOrder
<1>4. ASSUME CancelQuoteRequest(r) PROVE BuyingInOrder'
  <2>1. /\ \A q \in Requests \ {r} : request'[q] = request[q]
        /\ request[r] = "open" /\ request'[r] = "cancelled"
        /\ UNCHANGED <<quote, bid, bidIn, wanted, orderOf, ordering>>
    BY <1>4 DEF CancelQuoteRequest
  <2>2. \A q \in Requests, i \in Items : wanted'[q][i] # 0 => Known(i)
    BY <2>1 DEF BuyingInOrder, InCatalog
  <2>3. ASSUME NEW q \in Requests \ {r} PROVE RequestInOrder(q)'
    BY <1>1, <2>1 DEF ordering
  <2>4. RequestInOrder(r)'
    BY <2>1 DEF BuyingInOrder, RequestInOrder, ordering
  <2> QED
    BY <1>0, <2>1, <2>2, <2>3, <2>4 DEF BuyingInOrder
<1> QED
  BY <1>2, <1>3, <1>4

LEMMA AwardBuying ==
  ASSUME TypeOK, BuyingInOrder, NEW r \in Requests, NEW v \in Vendors, NEW o \in Orders,
         AwardQuote(r, v, o), UNCHANGED <<register, custody, boughtOn>>
  PROVE  BuyingInOrder'
<1> USE DEF TypeOK, ProcurementTypeOK
<1> DEFINE l == [i \in Items |-> IF i \in LinesOf(bid[r][v]) THEN wanted[r][i] ELSE 0]
<1>1. /\ l \in [Items -> Nat] /\ bid[r][v] \in [Items -> Nat] /\ bidIn[r][v] \in Currencies
      /\ Draft(o, sendTo[r], bidIn[r][v], l, bid[r][v])
  BY DEF AwardQuote
<1>2. \A i \in Items : l[i] # 0 => Known(i)
  BY DEF BuyingInOrder, InCatalog
<1> HIDE DEF l
<1>3. /\ order[o] = "none"
      /\ \A x \in Orders : OrderInOrder(x)'
      /\ \A x \in Orders, i \in Items : ordered'[x][i] # 0 => Known(i)'
      /\ \A x \in Orders : x # o => price'[x] = price[x] /\ currency'[x] = currency[x]
      /\ \A x \in Orders : order[x] # "none" => order'[x] # "none"
      /\ order'[o] # "none" /\ price'[o] = bid[r][v] /\ currency'[o] = bidIn[r][v]
  <2>1. PICK w, cur, m, P : w = sendTo[r] /\ cur = bidIn[r][v] /\ m = l /\ P = bid[r][v]
    OBVIOUS
  <2>2. /\ Draft(o, w, cur, m, P) /\ w \in Warehouses \cup {Nowhere} /\ cur \in Currencies
        /\ m \in [Items -> Nat] /\ P \in [Items -> Nat] /\ \A i \in Items : m[i] # 0 => Known(i)
    BY <1>1, <1>2, <2>1
  <2> HIDE DEF TypeOK, ProcurementTypeOK
  <2>3. /\ order[o] = "none"
        /\ \A x \in Orders : OrderInOrder(x)'
        /\ \A x \in Orders, i \in Items : ordered'[x][i] # 0 => Known(i)'
        /\ \A x \in Orders : x # o => price'[x] = price[x] /\ currency'[x] = currency[x]
        /\ \A x \in Orders : order[x] # "none" => order'[x] # "none"
        /\ order'[o] # "none" /\ price'[o] = P /\ currency'[o] = cur
    BY ONLY <2>2, TypeOK, BuyingInOrder, UNCHANGED <<register, custody, boughtOn>>, DraftBuying, ZenonT(60)
  <2> QED
    BY ONLY <2>1, <2>3
<1>4. /\ request[r] = "open" /\ quote[r][v] = "received"
      /\ \A q \in Requests \ {r} : /\ request'[q] = request[q] /\ orderOf'[q] = orderOf[q]
                                    /\ quote'[q] = quote[q]
      /\ request'[r] = "awarded" /\ orderOf'[r] = o
      /\ quote'[r] = [x \in Vendors |-> IF x = v THEN "awarded"
                        ELSE IF quote[r][x] = "received" THEN "rejected" ELSE quote[r][x]]
      /\ UNCHANGED <<wanted, sendTo, bid, bidIn>>
  BY DEF AwardQuote
<1>5. InCatalog' /\ NewUnitsUnbought'
  BY <1>3, <1>4 DEF BuyingInOrder, InCatalog, NewUnitsUnbought, Known, register, custody
<1>6. \A q \in Requests : orderOf[q] # o
  BY <1>3, NowhereIsNoOrder DEF BuyingInOrder, RequestInOrder
<1>7. ASSUME NEW q \in Requests \ {r} PROVE RequestInOrder(q)'
  <2>1. RequestInOrder(q) /\ orderOf[q] \in Orders \cup {Nowhere} /\ orderOf[q] # o
    BY <1>6 DEF BuyingInOrder
  <2>2. orderOf[q] # Nowhere => /\ price'[orderOf[q]] = price[orderOf[q]]
                                /\ currency'[orderOf[q]] = currency[orderOf[q]]
                                /\ order'[orderOf[q]] # "none"
    BY <1>3, <2>1 DEF RequestInOrder
  <2>3. request[q] = "awarded" => orderOf[q] # Nowhere
    BY <2>1 DEF RequestInOrder
  <2>4. \A x \in Requests \ {q} : orderOf'[q] = orderOf'[x] => orderOf'[q] = Nowhere
    BY <1>4, <2>1 DEF RequestInOrder
  <2>5. /\ request'[q] = request[q] /\ orderOf'[q] = orderOf[q] /\ quote'[q] = quote[q]
        /\ bid'[q] = bid[q] /\ bidIn'[q] = bidIn[q]
    BY <1>4
  <2> QED
    BY ONLY <2>1, <2>2, <2>3, <2>4, <2>5 DEF RequestInOrder
<1>8. RequestInOrder(r)'
  <2>1. \A x \in Vendors \ {v} : quote'[r][x] \in {"none", "rejected"}
    <3>1. \A x \in Vendors : quote[r][x] \in {"none", "received"}
      <4>1. RequestInOrder(r) /\ request[r] = "open"
        BY <1>4 DEF BuyingInOrder
      <4> QED
        BY ONLY <4>1 DEF RequestInOrder
    <3> QED
      BY <1>4, <3>1
  <2>2. \A x \in Requests \ {r} : orderOf'[x] # o
    BY <1>4, <1>6
  <2>3. quote'[r][v] = "awarded" /\ price'[o] = bid'[r][v] /\ currency'[o] = bidIn'[r][v] /\ o # Nowhere
    BY <1>3, <1>4, NowhereIsNoOrder
  <2>4. request'[r] = "awarded" /\ orderOf'[r] = o /\ order'[o] # "none"
    BY <1>3, <1>4
  <2> QED
    BY ONLY <2>1, <2>2, <2>3, <2>4 DEF RequestInOrder
<1> QED
  BY <1>3, <1>5, <1>7, <1>8 DEF BuyingInOrder

LEMMA OrdersBuying ==
  ASSUME TypeOK, LinesAreNatural, BuyingInOrder, NEW o \in Orders,
         UNCHANGED <<register, custody, boughtOn>>
  PROVE  /\ \A w \in Warehouses, cur \in Currencies, lines \in LinesIn(Sizes), prices \in LinesIn(Prices) :
              CreateOrder(o, w, cur, lines, prices) => BuyingInOrder'
         /\ ApproveOrder(o) => BuyingInOrder'
<1> USE DEF TypeOK, ProcurementTypeOK
<1>1. ASSUME NEW w \in Warehouses, NEW cur \in Currencies, NEW lines \in LinesIn(Sizes),
             NEW prices \in LinesIn(Prices), CreateOrder(o, w, cur, lines, prices)
      PROVE  BuyingInOrder'
  <2>1. lines \in [Items -> Nat] /\ prices \in [Items -> Nat]
    BY LinesAreNatural, LinesTyped
  <2>2. /\ Draft(o, w, cur, lines, prices) /\ UNCHANGED sourcing
        /\ \A i \in Items : lines[i] # 0 => Known(i)
    BY <1>1 DEF CreateOrder, LinesOf, Known
  <2>3. /\ order[o] = "none"
        /\ \A x \in Orders : OrderInOrder(x)'
        /\ \A x \in Orders, i \in Items : ordered'[x][i] # 0 => Known(i)'
        /\ \A x \in Orders : x # o => price'[x] = price[x] /\ currency'[x] = currency[x]
        /\ \A x \in Orders : order[x] # "none" => order'[x] # "none"
    BY <2>1, <2>2, DraftBuying
  <2>4. InCatalog' /\ NewUnitsUnbought'
    BY <2>2, <2>3 DEF BuyingInOrder, InCatalog, NewUnitsUnbought, Known, register, custody, sourcing
  <2>5. ASSUME NEW q \in Requests PROVE RequestInOrder(q)'
    <3>1. RequestInOrder(q) /\ orderOf[q] \in Orders \cup {Nowhere}
      BY DEF BuyingInOrder
    <3>2. orderOf[q] # Nowhere => /\ price'[orderOf[q]] = price[orderOf[q]]
                                  /\ currency'[orderOf[q]] = currency[orderOf[q]]
                                  /\ order'[orderOf[q]] # "none"
      BY <2>3, <3>1 DEF RequestInOrder
    <3>3. UNCHANGED <<request, quote, bid, bidIn, orderOf>>
      BY <2>2 DEF sourcing
    <3> QED
      BY ONLY <3>1, <3>2, <3>3 DEF RequestInOrder
  <2> QED
    BY <2>3, <2>4, <2>5 DEF BuyingInOrder
<1>2. ASSUME ApproveOrder(o) PROVE BuyingInOrder'
  <2>1. /\ order[o] = "draft" /\ order' = [order EXCEPT ![o] = "approved"]
        /\ UNCHANGED <<sourcing, dock, currency, ordered, price, arrived, payable>>
    BY <1>2 DEF ApproveOrder
  <2>2. InCatalog' /\ NewUnitsUnbought'
    BY <2>1 DEF BuyingInOrder, InCatalog, NewUnitsUnbought, Known, register, custody, sourcing
  <2>3. ASSUME NEW x \in Orders PROVE OrderInOrder(x)'
    <3>1. OrderInOrder(x) /\ (order'[x] = order[x] \/ (order[x] = "draft" /\ order'[x] = "approved"))
      BY <2>1 DEF BuyingInOrder
    <3> QED
      BY <2>1, <3>1 DEF OrderInOrder, Bought, register
  <2>4. ASSUME NEW q \in Requests PROVE RequestInOrder(q)'
    BY <2>1 DEF BuyingInOrder, RequestInOrder, sourcing
  <2> QED
    BY <2>2, <2>3, <2>4 DEF BuyingInOrder
<1> QED
  BY <1>1, <1>2

(* The units of a receipt add to what was bought on the order. *)
LEMMA BoughtGrows ==
  ASSUME TypeOK, NewUnitsUnbought, NEW o \in Orders, NEW U \in SUBSET Units, NEW i \in Items,
         \A u \in U : unit[u] = "none",
         boughtOn' = [u \in Units |-> IF u \in U THEN o ELSE boughtOn[u]]
  PROVE  /\ Cardinality(Bought(o, i)') =
              Cardinality(Bought(o, i)) + Cardinality({u \in U : ModelOf[u] = i})
         /\ \A x \in Orders \ {o} : Bought(x, i)' = Bought(x, i)
<1> DEFINE new == {u \in U : ModelOf[u] = i}
<1>1. \A u \in U : boughtOn[u] = Nowhere
  BY DEF NewUnitsUnbought
<1>2. Bought(o, i)' = Bought(o, i) \cup new /\ Bought(o, i) \cap new = {}
  BY <1>1, NowhereIsNoOrder DEF Bought
<1>3. IsFiniteSet(Bought(o, i)) /\ IsFiniteSet(new)
  BY UnitsAreFinite, FS_Subset DEF Bought
<1>4. /\ Cardinality(Bought(o, i)) \in Nat /\ Cardinality(new) \in Nat
      /\ Cardinality({}) = 0
  BY <1>3, FS_CardinalityType, FS_EmptySet
<1>5. Cardinality(Bought(o, i)') =
        Cardinality(Bought(o, i)) + Cardinality(new) - Cardinality(Bought(o, i) \cap new)
  BY <1>2, <1>3, FS_Union
<1>6. Cardinality(Bought(o, i)') = Cardinality(Bought(o, i)) + Cardinality(new)
  <2>1. Cardinality(Bought(o, i) \cap new) = 0
    BY <1>2, <1>4
  <2> HIDE DEF new
  <2> QED
    BY <1>4, <1>5, <2>1
<1>7. ASSUME NEW x \in Orders \ {o} PROVE Bought(x, i)' = Bought(x, i)
  BY <1>1, NowhereIsNoOrder DEF Bought
<1> QED
  BY <1>6, <1>7

LEMMA ReceiptBuying ==
  ASSUME TypeOK, BuyingInOrder, NEW o \in Orders, NEW p \in Places,
         NEW goods \in [Items -> 0..MaxOnHand], NEW U \in SUBSET Units,
         ReceiveOrder(o, p, goods, U)
  PROVE  BuyingInOrder'
<1> USE DEF TypeOK, ProcurementTypeOK
<1> DEFINE taken == Taken(goods, U)
<1>1. taken \in [Items -> Nat] /\ taken # NoLine /\ Arrive(o, taken)
  BY TakenTyped DEF ReceiveOrder, Taken
<1>2. /\ \A u \in U : unit[u] = "none" /\ serialized[ModelOf[u]]
      /\ unit' = [u \in Units |-> IF u \in U THEN "in_stock" ELSE unit[u]]
      /\ boughtOn' = [u \in Units |-> IF u \in U THEN o ELSE boughtOn[u]]
      /\ UNCHANGED register
  BY DEF ReceiveOrder
<1>3. \A i \in Items : serialized[i] => taken[i] = Cardinality({u \in U : ModelOf[u] = i})
  BY DEF Taken
<1> HIDE DEF taken
<1>4. /\ order[o] \in Receivable
      /\ \A i \in Items : taken[i] <= ordered[o][i] - arrived[o][i]
      /\ \A x \in Orders \ {o} : /\ arrived'[x] = arrived[x] /\ order'[x] = order[x]
                                  /\ payable'[x] = payable[x]
      /\ arrived'[o] = [i \in Items |-> arrived[o][i] + taken[i]]
      /\ payable'[o] = [i \in Items |-> payable[o][i] + taken[i] * price[o][i]]
      /\ order'[o] = IF arrived'[o] = ordered[o] THEN "received" ELSE "partially_received"
      /\ UNCHANGED <<sourcing, currency, ordered, price>>
  BY <1>1 DEF Arrive
<1>5. \A x \in Orders : order[x] # "none" => order'[x] # "none"
  BY <1>4
<1>6. ASSUME NEW u \in U PROVE Known(ModelOf[u])
  <2> DEFINE i == ModelOf[u]
  <2>1. u \in Units /\ i \in Items /\ serialized[i]
    BY <1>2, UnitsHaveModels
  <2>2. Cardinality({x \in U : ModelOf[x] = i}) # 0
    BY UnitsAreFinite, FS_Subset, FS_EmptySet
  <2>3. taken[i] # 0
    BY <1>3, <2>1, <2>2
  <2>4. ordered[o][i] # 0
    <3>1. arrived[o][i] \in Nat /\ ordered[o][i] \in Nat /\ taken[i] \in Nat
      BY <1>1, <2>1
    <3>2. taken[i] <= ordered[o][i] - arrived[o][i]
      BY <1>4, <2>1
    <3> QED
      BY ONLY <2>3, <3>1, <3>2
  <2> QED
    BY <2>1, <2>4 DEF BuyingInOrder, InCatalog
<1>7. InCatalog'
  BY <1>2, <1>4, <1>6 DEF BuyingInOrder, InCatalog, Known, register, sourcing
<1>8. NewUnitsUnbought'
  BY <1>2 DEF BuyingInOrder, NewUnitsUnbought
<1>9. ASSUME NEW i \in Items
      PROVE  /\ Cardinality(Bought(o, i)') =
                  Cardinality(Bought(o, i)) + Cardinality({u \in U : ModelOf[u] = i})
             /\ \A x \in Orders \ {o} : Bought(x, i)' = Bought(x, i)
  BY <1>2, BoughtGrows DEF BuyingInOrder
<1>10. ASSUME NEW x \in Orders \ {o} PROVE OrderInOrder(x)'
  <2>1. OrderInOrder(x)
    BY DEF BuyingInOrder
  <2>2. /\ order'[x] = order[x] /\ ordered'[x] = ordered[x] /\ price'[x] = price[x]
        /\ arrived'[x] = arrived[x] /\ payable'[x] = payable[x] /\ UNCHANGED serialized
        /\ \A i \in Items : Bought(x, i)' = Bought(x, i)
    BY <1>2, <1>4, <1>9 DEF register
  <2> QED
    BY ONLY <2>1, <2>2 DEF OrderInOrder
<1>11. OrderInOrder(o)'
  <2>1. ASSUME NEW i \in Items
        PROVE  /\ arrived'[o][i] <= ordered'[o][i]
               /\ payable'[o][i] = arrived'[o][i] * price'[o][i]
               /\ serialized'[i] => Cardinality(Bought(o, i)') = arrived'[o][i]
    <3>1. /\ arrived[o][i] \in Nat /\ taken[i] \in Nat /\ price[o][i] \in Nat
          /\ ordered[o][i] \in Nat
          /\ payable[o][i] = arrived[o][i] * price[o][i]
          /\ serialized[i] => Cardinality(Bought(o, i)) = arrived[o][i]
      BY <1>1 DEF BuyingInOrder, OrderInOrder
    <3>2. /\ arrived'[o][i] = arrived[o][i] + taken[i] /\ taken[i] <= ordered[o][i] - arrived[o][i]
          /\ payable'[o][i] = payable[o][i] + taken[i] * price[o][i]
          /\ ordered'[o][i] = ordered[o][i] /\ price'[o][i] = price[o][i]
          /\ serialized'[i] <=> serialized[i]
      BY <1>2, <1>4 DEF register
    <3>3. serialized[i] => Cardinality(Bought(o, i)') = Cardinality(Bought(o, i)) + taken[i]
      BY <1>3, <1>9
    <3>4. \A a, t, c \in Nat : a * c + t * c = (a + t) * c
      OBVIOUS
    <3>5. payable'[o][i] = arrived'[o][i] * price'[o][i]
      BY <3>1, <3>2, <3>4
    <3>6. arrived'[o][i] <= ordered'[o][i]
      BY ONLY <3>1, <3>2
    <3> QED
      BY <3>1, <3>2, <3>3, <3>5, <3>6
  <2>2. arrived'[o] # NoLine
    <3>1. PICK i \in Items : taken[i] # 0
      BY <1>1 DEF NoLine
    <3>2. arrived[o][i] + taken[i] # 0
      BY <1>1, <3>1
    <3> QED
      BY <1>4, <3>2 DEF NoLine
  <2>3. /\ order'[o] = "received" <=> arrived'[o] = ordered'[o]
        /\ order'[o] \notin {"none", "draft", "approved"}
    BY <1>4
  <2> QED
    BY <2>1, <2>2, <2>3 DEF OrderInOrder
<1>12. ASSUME NEW q \in Requests PROVE RequestInOrder(q)'
  <2>1. RequestInOrder(q) /\ orderOf[q] \in Orders \cup {Nowhere}
    BY DEF BuyingInOrder
  <2>2. UNCHANGED <<request, quote, bid, bidIn, orderOf, price, currency>>
    BY <1>4 DEF sourcing
  <2>3. orderOf[q] # Nowhere => order'[orderOf[q]] # "none"
    BY <1>5, <2>1 DEF RequestInOrder
  <2> QED
    BY ONLY <2>1, <2>2, <2>3 DEF RequestInOrder
<1> QED
  BY <1>7, <1>8, <1>10, <1>11, <1>12 DEF BuyingInOrder

LEMMA NextBuying ==
  ASSUME TypedAndLinked, BuyingInOrder, [Next]_vars
  PROVE  BuyingInOrder'
<1>0. TypeOK /\ EquipmentTypeOK /\ CasesHaveDevices
  BY DEF TypedAndLinked, TypeOK
<1>1. CASE RegisterStep /\ UNCHANGED <<stockVars, equipmentVars, buyingVars, boughtOn>>
  BY <1>0, <1>1, RegisterBuying
<1>2. ASSUME UNCHANGED <<register, equipmentVars, buyingVars, boughtOn>> PROVE BuyingInOrder'
  <2>1. UNCHANGED <<catalog, serialized, unit, boughtOn, request, wanted, quote, bid, bidIn,
                    orderOf, order, currency, ordered, price, arrived, payable>>
    BY <1>2 DEF register, equipmentVars, custody, buyingVars, sourcing, ordering
  <2>2. InCatalog' /\ NewUnitsUnbought'
    BY <2>1 DEF BuyingInOrder, InCatalog, NewUnitsUnbought, Known
  <2>3. ASSUME NEW o \in Orders PROVE OrderInOrder(o)'
    BY <2>1 DEF BuyingInOrder, OrderInOrder, Bought
  <2>4. ASSUME NEW r \in Requests PROVE RequestInOrder(r)'
    BY <2>1 DEF BuyingInOrder, RequestInOrder
  <2> QED
    BY <2>2, <2>3, <2>4 DEF BuyingInOrder
<1>3. CASE (EquipmentStep \/ \E k \in Cases : Scrap(k)) /\ UNCHANGED <<register, buyingVars, boughtOn>>
  BY <1>0, <1>3, EquipmentBuying
<1>4. CASE BuyingStep /\ UNCHANGED <<register, stockVars, equipmentVars, boughtOn>>
  <2>1. UNCHANGED <<register, custody, boughtOn>>
    BY <1>4 DEF equipmentVars
  <2>2. ASSUME NEW r \in Requests,
               \/ \E w \in Warehouses, lines \in LinesIn(Sizes) : CreateQuoteRequest(r, w, lines)
               \/ \E v \in Vendors, prices \in LinesIn(Prices), cur \in Currencies :
                    RecordQuote(r, v, prices, cur)
               \/ CancelQuoteRequest(r)
        PROVE  BuyingInOrder'
    BY <1>0, <2>1, <2>2, QuotesBuying
  <2>3. ASSUME NEW r \in Requests, NEW v \in Vendors, NEW o \in Orders, AwardQuote(r, v, o)
        PROVE  BuyingInOrder'
    BY <1>0, <2>1, <2>3, AwardBuying
  <2>4. ASSUME NEW o \in Orders,
               \/ \E w \in Warehouses, cur \in Currencies :
                    \E lines \in LinesIn(Sizes), prices \in LinesIn(Prices) :
                      CreateOrder(o, w, cur, lines, prices)
               \/ ApproveOrder(o)
        PROVE  BuyingInOrder'
    BY <1>0, <2>1, <2>4, LinesAreNatural, OrdersBuying
  <2> QED
    BY <1>4, <2>2, <2>3, <2>4 DEF BuyingStep
<1>5. ASSUME NEW o \in Orders, NEW p \in Places, NEW goods \in [Items -> 0..MaxOnHand],
             NEW U \in SUBSET Units, ReceiveOrder(o, p, goods, U)
      PROVE  BuyingInOrder'
  BY <1>0, <1>5, ReceiptBuying
<1> QED
  BY <1>1, <1>2, <1>3, <1>4, <1>5 DEF Next, ScrapAsset, vars

(* No more arrives than was ordered, what is owed is what arrived, equipment   *)
(* is what arrived of it, and an awarded request became one order at the       *)
(* prices and in the currency of the chosen quote (receive_purchase_order,     *)
(* award_quote).                                                               *)
THEOREM BookedOnce == Spec => []OrdersBookedOnce
<1> QED
  BY InitLinked, NextLinked, InitBuying, NextBuying, BuyingIsBookedOnce, PTL DEF Spec
-----------------------------------------------------------------------------
(* What counts find *)

(* Only shelves with a row have stock. *)
EmptyWithoutRow == \A s \in Shelves \ rows : onHand[s] = 0

(* What a count goes by for item i: while nothing moved it is what is on hand, and what was
   found since falls short of it by what is missing. *)
CountOK(c, i) ==
  /\ trust[c] = "still" =>
       count[c].believed[i] = SumFunctionOnSet(onHand, Covered(count[c].place, i))
  /\ trust[c] # "spoiled" /\ count[c].found[i] # Nothing =>
       count[c].found[i]
         = count[c].believed[i] - SumFunctionOnSet(missing, Covered(count[c].place, i))

CountsInOrder == \A c \in OpenCounts : \A i \in Listed(c) : CountOK(c, i)

LEMMA CoveredIs ==
  ASSUME NEW p, NEW i \in Items
  PROVE  /\ IsFiniteSet(Covered(p, i))
         /\ Covered(p, i) = {s \in Shelves : s[1] = i /\ Covers(p, s)}
<1>1. IsFiniteSet(Shelves)
  BY RegisterIsFinite, FS_Product DEF Shelves
<1> QED
  BY <1>1, FS_Subset DEF Covered

LEMMA SumsTyped ==
  ASSUME StockTypeOK, NEW p, NEW i \in Items
  PROVE  /\ SumFunctionOnSet(onHand, Covered(p, i)) \in Int
         /\ SumFunctionOnSet(missing, Covered(p, i)) \in Int
<1>1. \A s \in Covered(p, i) : onHand[s] \in Int /\ missing[s] \in Int
  BY CoveredIs DEF StockTypeOK
<1> QED
  BY <1>1, CoveredIs, SumIsInt

LEMMA LinesAreTyped ==
  ASSUME StockTypeOK, NEW c \in Counts, NEW i \in Listed(c)
  PROVE  /\ i \in Items /\ count[c].believed[i] \in Nat
         /\ count[c].found[i] # Nothing => count[c].found[i] \in Nat
BY DEF StockTypeOK, Listed

(* A line stays in order when the count is spoiled, or nothing it covers moved unnoticed and
   what is missing is as it was when its item was found. *)
LEMMA LineKept ==
  ASSUME NEW c \in Counts, NEW i \in Items, CountOK(c, i), count'[c] = count[c],
         \/ trust'[c] = "spoiled"
         \/ /\ trust[c] # "spoiled"
            /\ trust'[c] = "still" =>
                 /\ trust[c] = "still"
                 /\ \A s \in Covered(count[c].place, i) : onHand'[s] = onHand[s]
            /\ \/ count[c].found[i] = Nothing
               \/ \A s \in Covered(count[c].place, i) : missing'[s] = missing[s]
  PROVE  CountOK(c, i)'
<1> DEFINE C == Covered(count[c].place, i)
<1>1. IsFiniteSet(C) /\ Covered(count[c].place, i)' = C
  BY CoveredIs DEF Covered, Covers
<1>2. CASE trust'[c] = "spoiled"
  BY <1>2 DEF CountOK
<1>3. CASE trust'[c] # "spoiled"
  <2>1. trust'[c] = "still" => SumFunctionOnSet(onHand', C) = SumFunctionOnSet(onHand, C)
    BY <1>1, <1>3, SumOfSame
  <2>2. count[c].found[i] # Nothing => SumFunctionOnSet(missing', C) = SumFunctionOnSet(missing, C)
    BY <1>1, <1>3, SumOfSame
  <2> HIDE DEF C
  <2>3. /\ trust'[c] = "still" => count'[c].believed[i] = SumFunctionOnSet(onHand', C)
        /\ count'[c].found[i] # Nothing =>
             count'[c].found[i] = count'[c].believed[i] - SumFunctionOnSet(missing', C)
    BY <1>3, <2>1, <2>2 DEF CountOK, C
  <2> QED
    BY <1>1, <2>3 DEF CountOK
<1> QED
  BY <1>2, <1>3

(* Where goods or books change, the counts that cover it are marked. *)
LEMMA MarkedInOrder ==
  ASSUME StockTypeOK, CountsInOrder, NEW S, NEW what \in {"moved", "spoiled"}, Mark(S, what),
         UNCHANGED count, \A s \in Shelves \ S : onHand'[s] = onHand[s],
         what = "moved" => UNCHANGED missing,
         \A s \in Shelves \ S : missing'[s] = missing[s]
  PROVE  CountsInOrder'
<1> SUFFICES ASSUME NEW c \in OpenCounts, NEW i \in Listed(c) PROVE CountOK(c, i)'
  BY DEF CountsInOrder, OpenCounts, Listed
<1> DEFINE p == count[c].place
<1>1. c \in Counts /\ i \in Items /\ CountOK(c, i) /\ trust[c] \in {"still", "moved", "spoiled"}
  BY DEF OpenCounts, Listed, CountsInOrder, StockTypeOK
<1>2. trust'[c] = IF trust[c] # "spoiled" /\ \E s \in S : Covers(p, s) THEN what ELSE trust[c]
  BY <1>1 DEF Mark
<1>3. \A s \in Covered(p, i) : s \in Shelves /\ Covers(p, s)
  BY DEF Covered
<1>4. CASE trust[c] = "spoiled"
  BY <1>1, <1>2, <1>4, LineKept
<1>5. CASE trust[c] # "spoiled" /\ \E s \in S : Covers(p, s)
  <2>1. trust'[c] = what
    BY <1>2, <1>5
  <2>2. what = "moved" => \A s \in Covered(p, i) : missing'[s] = missing[s]
    OBVIOUS
  <2> QED
    BY <1>1, <1>5, <2>1, <2>2, LineKept
<1>6. CASE trust[c] # "spoiled" /\ ~ \E s \in S : Covers(p, s)
  <2>1. \A s \in Covered(p, i) : s \in Shelves \ S
    BY <1>3, <1>6
  <2>2. trust'[c] = trust[c]
    BY <1>2, <1>6
  <2> QED
    BY <1>1, <1>6, <2>1, <2>2, LineKept
<1> QED
  BY <1>4, <1>5, <1>6

LEMMA CountsStay ==
  ASSUME CountsInOrder, UNCHANGED <<count, trust, onHand, missing>>
  PROVE  CountsInOrder'
<1> SUFFICES ASSUME NEW c \in OpenCounts, NEW i \in Listed(c) PROVE CountOK(c, i)'
  BY DEF CountsInOrder, OpenCounts, Listed
<1>1. CountOK(c, i) /\ \A q, j : Covered(q, j)' = Covered(q, j)
  BY DEF CountsInOrder, Covered, Covers
<1> QED
  BY <1>1 DEF CountOK

LEMMA LoseInOrder ==
  ASSUME StockTypeOK, CountsInOrder, NEW s \in Shelves, Lose(s)
  PROVE  CountsInOrder'
<1>0. UNCHANGED <<count, onHand>> /\ missing' = [missing EXCEPT ![s] = @ + 1]
  BY DEF Lose, balances
<1> SUFFICES ASSUME NEW c \in OpenCounts, NEW i \in Listed(c) PROVE CountOK(c, i)'
  BY <1>0 DEF CountsInOrder, OpenCounts, Listed
<1>1. c \in Counts /\ i \in Items /\ CountOK(c, i) /\ trust[c] \in {"still", "moved", "spoiled"}
  BY DEF OpenCounts, Listed, CountsInOrder, StockTypeOK
<1>2. trust'[c] = IF Covers(count[c].place, s) /\ count[c].found[s[1]] # Nothing
                    THEN "spoiled" ELSE trust[c]
  BY <1>1 DEF Lose
<1>3. \A t \in Covered(count[c].place, i) : t \in Shelves /\ t[1] = i /\ Covers(count[c].place, t)
  BY DEF Covered
<1>4. CASE trust'[c] = "spoiled"
  BY <1>0, <1>1, <1>4, LineKept
<1>5. CASE trust'[c] # "spoiled" /\ count[c].found[i] = Nothing
  BY <1>0, <1>1, <1>2, <1>5, LineKept
<1>6. CASE trust'[c] # "spoiled" /\ count[c].found[i] # Nothing
  <2>1. s \notin Covered(count[c].place, i)
    BY <1>2, <1>3, <1>6
  <2>2. \A t \in Covered(count[c].place, i) : missing'[t] = missing[t]
    BY <1>0, <1>3, <2>1 DEF StockTypeOK
  <2> QED
    BY <1>0, <1>1, <1>2, <1>6, <2>2, LineKept
<1> QED
  BY <1>4, <1>5, <1>6

(* A count is opened with what is on hand where its items are. *)
LEMMA OpenInOrder ==
  ASSUME StockTypeOK, CountsInOrder, EmptyWithoutRow, NEW c \in Counts, NEW p \in Places,
         NEW cur \in Currencies, OpenCount(c, p, cur)
  PROVE  CountsInOrder'
<1> DEFINE seen == {s \in rows : Covers(p, s)}
           B == [i \in Items |-> IF \E s \in seen : s[1] = i
                                   THEN onHand[CHOOSE s \in seen : s[1] = i] ELSE Nothing]
<1>1. /\ UNCHANGED <<onHand, missing, trust>>
      /\ \A s, t \in seen : s[1] = t[1] => s = t
      /\ count' = [count EXCEPT ![c] = [status |-> "open", place |-> p, found |-> NoLines,
                                        believed |-> B]]
  BY DEF OpenCount, balances
<1>2. ASSUME NEW d \in OpenCounts', d # c, NEW i \in Listed(d)' PROVE CountOK(d, i)'
  <2>1. d \in Counts /\ count'[d] = count[d]
    BY <1>1, <1>2 DEF OpenCounts, StockTypeOK
  <2>2. d \in OpenCounts /\ i \in Listed(d) /\ i \in Items
    BY <2>1 DEF OpenCounts, Listed
  <2>3. CountOK(d, i) /\ trust[d] \in {"still", "moved", "spoiled"}
    BY <2>1, <2>2 DEF CountsInOrder, StockTypeOK
  <2> QED
    BY <1>1, <2>1, <2>2, <2>3, LineKept
<1>3. ASSUME NEW i \in Listed(c)' PROVE CountOK(c, i)'
  <2>1. /\ count'[c].place = p /\ count'[c].found = NoLines /\ count'[c].believed = B
    BY <1>1 DEF StockTypeOK
  <2>2. i \in Items /\ B[i] # Nothing /\ count'[c].found[i] = Nothing
    BY <2>1 DEF Listed, NoLines
  <2>3. PICK s \in seen : s[1] = i
    BY <2>2
  <2>4. B[i] = onHand[s]
    <3>1. \A t \in seen : t[1] = i => t = s
      BY <1>1, <2>3
    <3>2. (CHOOSE t \in seen : t[1] = i) = s
      BY <2>3, <3>1
    <3> QED
      BY <2>2, <2>3, <3>2
  <2>5. s \in Covered(p, i)
    BY <2>3 DEF Covered, StockTypeOK
  <2>6. \A t \in Covered(p, i) \ {s} : onHand[t] = 0
    <3>1. \A t \in Covered(p, i) : t \in Shelves /\ t[1] = i /\ (t \in rows => t \in seen)
      BY DEF Covered
    <3> QED
      BY <1>1, <2>3, <3>1 DEF EmptyWithoutRow
  <2>7. SumFunctionOnSet(onHand, Covered(p, i)) = onHand[s]
    <3>1. onHand[s] \in Int
      BY <2>5 DEF Covered, StockTypeOK
    <3> QED
      BY <2>2, <2>5, <2>6, <3>1, CoveredIs, SumOfOne
  <2>8. Covered(p, i)' = Covered(p, i)
    BY DEF Covered, Covers
  <2> HIDE DEF B, seen
  <2> QED
    BY <1>1, <2>1, <2>2, <2>4, <2>7, <2>8 DEF CountOK
<1> QED
  BY <1>2, <1>3 DEF CountsInOrder

LEMMA RecordInOrder ==
  ASSUME StockTypeOK, CountsInOrder, NEW c \in Counts, NEW L \in SUBSET Listed(c),
         NEW f \in [L -> 0..MaxOnHand], RecordCount(c, f)
  PROVE  CountsInOrder'
<1>1. /\ UNCHANGED <<onHand, missing>>
      /\ count' = [count EXCEPT ![c] =
           [status |-> "open", place |-> count[c].place, believed |-> count[c].believed,
            found |-> [i \in Items |-> IF i \in L THEN f[i] ELSE count[c].found[i]]]]
      /\ trust' = [trust EXCEPT ![c] =
           IF @ = "still" /\ \A i \in L : f[i] = Present(count[c].place, i) THEN @ ELSE "spoiled"]
      /\ c \in OpenCounts
  BY DEF RecordCount, balances, OpenCounts
<1>2. ASSUME NEW d \in OpenCounts', d # c, NEW i \in Listed(d)' PROVE CountOK(d, i)'
  <2>1. d \in Counts /\ count'[d] = count[d] /\ trust'[d] = trust[d]
    BY <1>1, <1>2 DEF OpenCounts, StockTypeOK
  <2>2. d \in OpenCounts /\ i \in Listed(d) /\ i \in Items
    BY <2>1 DEF OpenCounts, Listed
  <2>3. CountOK(d, i) /\ trust[d] \in {"still", "moved", "spoiled"}
    BY <2>1, <2>2 DEF CountsInOrder, StockTypeOK
  <2> QED
    BY <1>1, <2>1, <2>2, <2>3, LineKept
<1>3. ASSUME NEW i \in Listed(c)' PROVE CountOK(c, i)'
  <2>1. PICK p : p = count[c].place
    OBVIOUS
  <2>2. /\ count'[c].place = p /\ count'[c].believed = count[c].believed
        /\ \A j \in Items : count'[c].found[j] = IF j \in L THEN f[j] ELSE count[c].found[j]
    BY <1>1, <2>1 DEF StockTypeOK
  <2>3. i \in Items /\ i \in Listed(c) /\ CountOK(c, i)
    BY <1>1, <2>2 DEF Listed, CountsInOrder
  <2>4. /\ Covered(p, i)' = Covered(p, i)
        /\ SumFunctionOnSet(onHand, Covered(p, i)) \in Int
        /\ SumFunctionOnSet(missing, Covered(p, i)) \in Int
    BY <2>3, SumsTyped DEF Covered, Covers
  <2>5. CASE trust'[c] = "spoiled"
    BY <2>5 DEF CountOK
  <2>6. CASE trust'[c] # "spoiled"
    <3>1. /\ trust[c] = "still"
          /\ \A j \in L : f[j] = Present(p, j)
      BY <1>1, <2>1, <2>6 DEF StockTypeOK
    <3>2. count[c].believed[i] = SumFunctionOnSet(onHand, Covered(p, i))
      BY <2>1, <2>3, <3>1 DEF CountOK
    <3>3. CASE i \in L
      <4>1. count'[c].found[i]
              = SumFunctionOnSet(onHand, Covered(p, i)) - SumFunctionOnSet(missing, Covered(p, i))
        BY <2>2, <2>3, <3>1, <3>3 DEF Present
      <4> QED
        BY <1>1, <2>2, <2>4, <3>2, <4>1 DEF CountOK
    <3>4. CASE i \notin L
      <4>1. count'[c].found[i] = count[c].found[i]
        BY <2>2, <2>3, <3>4
      <4> QED
        BY <1>1, <2>1, <2>2, <2>3, <2>4, <3>1, <3>2, <4>1 DEF CountOK
    <3> QED
      BY <3>3, <3>4
  <2> QED
    BY <2>5, <2>6
<1> QED
  BY <1>2, <1>3 DEF CountsInOrder

LEMMA CancelInOrder ==
  ASSUME StockTypeOK, CountsInOrder, NEW c \in Counts, CancelCount(c)
  PROVE  CountsInOrder'
<1>1. /\ UNCHANGED <<onHand, missing, trust>>
      /\ count' = [count EXCEPT ![c] = Ended(@, "cancelled")]
  BY DEF CancelCount, balances
<1> SUFFICES ASSUME NEW d \in OpenCounts', NEW i \in Listed(d)' PROVE CountOK(d, i)'
  BY DEF CountsInOrder
<1>2. d # c
  BY <1>1 DEF OpenCounts, StockTypeOK, Ended
<1>3. d \in Counts /\ count'[d] = count[d]
  BY <1>1, <1>2 DEF OpenCounts, StockTypeOK
<1>4. d \in OpenCounts /\ i \in Listed(d) /\ i \in Items
  BY <1>3 DEF OpenCounts, Listed
<1>5. CountOK(d, i) /\ trust[d] \in {"still", "moved", "spoiled"}
  BY <1>3, <1>4 DEF CountsInOrder, StockTypeOK
<1> QED
  BY <1>1, <1>3, <1>4, <1>5, LineKept

(* Booking what a count found spoils the counts that cover the place it is booked at. *)
LEMMA CloseInOrder ==
  ASSUME StockTypeOK, CountsInOrder, NEW c \in Counts, CloseCount(c)
  PROVE  CountsInOrder'
<1>1. PICK S : S = {<<i, count[c].place>> : i \in {j \in Listed(c) : Variance(c, j) # 0}}
  OBVIOUS
<1>2. /\ count' = [count EXCEPT ![c] = Ended(@, "closed")]
      /\ trust' = [d \in Counts |->
           IF d \in OpenCounts \ {c} /\ \E s \in S : Covers(count[d].place, s)
             THEN "spoiled" ELSE trust[d]]
      /\ \A s \in Shelves \ S : missing'[s] = missing[s] /\ onHand'[s] = onHand[s]
  BY <1>1 DEF CloseCount, ApplyDelta
<1> SUFFICES ASSUME NEW d \in OpenCounts', NEW i \in Listed(d)' PROVE CountOK(d, i)'
  BY DEF CountsInOrder
<1>3. d # c
  BY <1>2 DEF OpenCounts, StockTypeOK, Ended
<1>4. d \in Counts /\ count'[d] = count[d]
  BY <1>2, <1>3 DEF OpenCounts, StockTypeOK
<1>5. d \in OpenCounts /\ i \in Listed(d) /\ i \in Items
  BY <1>4 DEF OpenCounts, Listed
<1>6. CountOK(d, i) /\ trust[d] \in {"still", "moved", "spoiled"}
  BY <1>4, <1>5 DEF CountsInOrder, StockTypeOK
<1>7. trust'[d] = IF \E s \in S : Covers(count[d].place, s) THEN "spoiled" ELSE trust[d]
  BY <1>2, <1>3, <1>4, <1>5
<1>8. CASE trust'[d] = "spoiled"
  BY <1>4, <1>5, <1>6, <1>8, LineKept
<1>9. CASE trust'[d] # "spoiled"
  <2>1. \A t \in Covered(count[d].place, i) : t \in Shelves \ S
    BY <1>7, <1>9 DEF Covered
  <2> QED
    BY <1>2, <1>4, <1>5, <1>6, <1>7, <1>9, <2>1, LineKept
<1> QED
  BY <1>8, <1>9

LEMMA MovesInOrder ==
  ASSUME StockTypeOK, HoldsOnShelves, CountsInOrder,
         \/ \E i \in Items, p, q \in Places, n \in Quantities : TransferStock(i, p, q, n)
         \/ \E i \in Items, p \in Places, d \in Int, cur \in Currencies : AdjustStock(i, p, d, cur)
         \/ \E h \in Holds, n \in Quantities : ConsumeReservation(h, n)
  PROVE  CountsInOrder'
<1>1. ASSUME NEW S, NEW f, ApplyDelta(S, f), Carry(S, f), UNCHANGED count PROVE CountsInOrder'
  <2>1. \A s \in Shelves \ S : onHand'[s] = onHand[s]
    BY <1>1 DEF ApplyDelta
  <2>2. Mark(S, "moved") /\ UNCHANGED missing
    BY <1>1 DEF Carry
  <2> QED
    BY <1>1, <2>1, <2>2, MarkedInOrder
<1>2. ASSUME NEW i \in Items, NEW p \in Places, NEW q \in Places, NEW n \in Quantities,
             TransferStock(i, p, q, n)
      PROVE  CountsInOrder'
  BY <1>1, <1>2 DEF TransferStock
<1>3. ASSUME NEW i \in Items, NEW p \in Places, NEW d \in Int,
             NEW cur \in Currencies, AdjustStock(i, p, d, cur)
      PROVE  CountsInOrder'
  <2>1. /\ ApplyDelta({<<i, p>>}, [x \in {<<i, p>>} |-> d]) /\ UNCHANGED count
        /\ \/ Carry({<<i, p>>}, [x \in {<<i, p>>} |-> d])
           \/ missing' = [missing EXCEPT ![<<i, p>>] = 0] /\ Mark({<<i, p>>}, "spoiled")
    BY <1>3 DEF AdjustStock
  <2>2. CASE missing' = [missing EXCEPT ![<<i, p>>] = 0] /\ Mark({<<i, p>>}, "spoiled")
    <3>1. \A s \in Shelves \ {<<i, p>>} : onHand'[s] = onHand[s] /\ missing'[s] = missing[s]
      BY <2>1, <2>2 DEF ApplyDelta, StockTypeOK
    <3> QED
      BY <2>1, <2>2, <3>1, MarkedInOrder
  <2> QED
    BY <1>1, <2>1, <2>2
<1>4. ASSUME NEW h \in Holds, NEW n \in Quantities, ConsumeReservation(h, n) PROVE CountsInOrder'
  BY <1>1, <1>4 DEF ConsumeReservation
<1> QED
  BY <1>2, <1>3, <1>4

(* A shelf gets its row with its first goods. *)
LEMMA DeltaKeepsRows ==
  ASSUME EmptyWithoutRow, NEW S, NEW f, ApplyDelta(S, f)
  PROVE  EmptyWithoutRow'
<1>1. /\ rows' = rows \cup S
      /\ \A s \in Shelves \ S : onHand'[s] = onHand[s]
  BY DEF ApplyDelta
<1> QED
  BY <1>1 DEF EmptyWithoutRow, Shelves

LEMMA StockCounts ==
  ASSUME StockTypeOK, HoldsOnShelves, EmptyWithoutRow, CountsInOrder, StockStep
  PROVE  EmptyWithoutRow' /\ CountsInOrder'
<1>1. ASSUME UNCHANGED <<rows, onHand>> PROVE EmptyWithoutRow'
  BY <1>1 DEF EmptyWithoutRow, Shelves
<1>2. ASSUME NEW i \in Items, NEW p \in Places, NEW q \in Places, NEW n \in Quantities,
             TransferStock(i, p, q, n)
      PROVE  EmptyWithoutRow' /\ CountsInOrder'
  <2>1. EmptyWithoutRow'
    BY <1>2, DeltaKeepsRows DEF TransferStock
  <2>2. CountsInOrder'
    BY <1>2, MovesInOrder
  <2> QED
    BY <2>1, <2>2
<1>3. ASSUME NEW i \in Items, NEW p \in Places, NEW d \in Int,
             NEW cur \in Currencies, AdjustStock(i, p, d, cur)
      PROVE  EmptyWithoutRow' /\ CountsInOrder'
  <2>1. EmptyWithoutRow'
    BY <1>3, DeltaKeepsRows DEF AdjustStock
  <2>2. CountsInOrder'
    BY <1>3, MovesInOrder
  <2> QED
    BY <2>1, <2>2
<1>4. ASSUME NEW h \in Holds, NEW i \in Items, NEW p \in Places, NEW n \in Quantities,
             ReserveStock(h, i, p, n)
      PROVE  EmptyWithoutRow' /\ CountsInOrder'
  <2>1. UNCHANGED <<rows, onHand, count, missing, trust>>
    BY <1>4 DEF ReserveStock
  <2> QED
    BY <1>1, <2>1, CountsStay
<1>5. ASSUME NEW s \in Shelves, Lose(s) PROVE EmptyWithoutRow' /\ CountsInOrder'
  <2>1. UNCHANGED <<rows, onHand>>
    BY <1>5 DEF Lose, balances
  <2> QED
    BY <1>1, <1>5, <2>1, LoseInOrder
<1>6. ASSUME NEW h \in Holds, ReleaseReservation(h) PROVE EmptyWithoutRow' /\ CountsInOrder'
  <2>1. UNCHANGED <<rows, onHand, count, missing, trust>>
    BY <1>6 DEF ReleaseReservation
  <2> QED
    BY <1>1, <2>1, CountsStay
<1>7. ASSUME NEW h \in Holds, NEW n \in Quantities, ConsumeReservation(h, n)
      PROVE  EmptyWithoutRow' /\ CountsInOrder'
  <2>1. EmptyWithoutRow'
    BY <1>7, DeltaKeepsRows DEF ConsumeReservation
  <2>2. CountsInOrder'
    BY <1>7, MovesInOrder
  <2> QED
    BY <2>1, <2>2
<1>8. ASSUME NEW c \in Counts, NEW p \in Places, NEW cur \in Currencies, OpenCount(c, p, cur)
      PROVE  EmptyWithoutRow' /\ CountsInOrder'
  <2>1. UNCHANGED <<rows, onHand>>
    BY <1>8 DEF OpenCount, balances
  <2> QED
    BY <1>1, <1>8, <2>1, OpenInOrder
<1>9. ASSUME NEW c \in Counts, NEW L \in (SUBSET Listed(c)) \ {{}}, NEW f \in [L -> 0..MaxOnHand],
             RecordCount(c, f)
      PROVE  EmptyWithoutRow' /\ CountsInOrder'
  <2>1. UNCHANGED <<rows, onHand>>
    BY <1>9 DEF RecordCount, balances
  <2>2. L \in SUBSET Listed(c)
    OBVIOUS
  <2>3. CountsInOrder'
    BY <1>9, <2>2, RecordInOrder
  <2> QED
    BY <1>1, <2>1, <2>3
<1>10. ASSUME NEW c \in Counts, CancelCount(c) PROVE EmptyWithoutRow' /\ CountsInOrder'
  <2>1. UNCHANGED <<rows, onHand>>
    BY <1>10 DEF CancelCount, balances
  <2> QED
    BY <1>1, <1>10, <2>1, CancelInOrder
<1>11. ASSUME NEW c \in Counts, CloseCount(c) PROVE EmptyWithoutRow' /\ CountsInOrder'
  <2>1. EmptyWithoutRow'
    BY <1>11, DeltaKeepsRows DEF CloseCount
  <2> QED
    BY <1>11, <2>1, CloseInOrder
<1>12. \A n \in Quantities : n \in Int /\ -n \in Int
  BY StockIsBounded DEF Quantities
<1> QED
  BY <1>2, <1>3, <1>4, <1>5, <1>6, <1>7, <1>8, <1>9, <1>10, <1>11, <1>12 DEF StockStep

LEMMA NextCounts ==
  ASSUME TypedAndLinked, EmptyWithoutRow, CountsInOrder, [Next]_vars
  PROVE  EmptyWithoutRow' /\ CountsInOrder'
<1>0. StockTypeOK /\ HoldsOnShelves
  BY DEF TypedAndLinked, TypeOK
<1>1. ASSUME UNCHANGED <<rows, onHand, count, missing, trust>>
      PROVE  EmptyWithoutRow' /\ CountsInOrder'
  <2>1. EmptyWithoutRow'
    BY <1>1 DEF EmptyWithoutRow, Shelves
  <2> QED
    BY <1>1, <2>1, CountsStay
<1>2. CASE UNCHANGED stockVars
  BY <1>1, <1>2 DEF stockVars, balances
<1>3. CASE StockStep
  BY <1>0, <1>3, StockCounts
<1>4. ASSUME NEW o \in Orders, NEW p \in Places, NEW goods \in [Items -> 0..MaxOnHand],
             NEW U \in SUBSET Units, ReceiveOrder(o, p, goods, U)
      PROVE  EmptyWithoutRow' /\ CountsInOrder'
  <2>1. PICK S, f : ApplyDelta(S, f) /\ Carry(S, f)
    BY <1>4 DEF ReceiveOrder
  <2>2. UNCHANGED count
    BY <1>4 DEF ReceiveOrder
  <2>3. /\ \A s \in Shelves \ S : onHand'[s] = onHand[s]
        /\ Mark(S, "moved") /\ UNCHANGED missing
    BY <2>1 DEF ApplyDelta, Carry
  <2> QED
    BY <1>0, <2>1, <2>2, <2>3, DeltaKeepsRows, MarkedInOrder
<1>5. ASSUME NEW k \in Cases, ScrapAsset(k) PROVE EmptyWithoutRow' /\ CountsInOrder'
  <2>1. UNCHANGED <<rows, onHand, count, missing, trust>>
    BY <1>5 DEF ScrapAsset, balances
  <2> QED
    BY <1>1, <2>1
<1>6. CASE UNCHANGED vars
  BY <1>2, <1>6 DEF vars
<1> QED
  BY <1>2, <1>3, <1>4, <1>5, <1>6 DEF Next

(* What closing a count books is what is missing where it counted. *)
LEMMA CloseSettles ==
  ASSUME StockTypeOK, CountsOfPlaces, CountsInOrder, NEW c \in Counts, CloseCount(c),
         trust[c] # "spoiled", NEW i \in Listed(c)
  PROVE  SumFunctionOnSet(missing', Covered(count[c].place, i)) = 0
<1> DEFINE p == count[c].place
           s0 == <<i, p>>
           C == Covered(p, i)
           v == Variance(c, i)
           S == {<<j, p>> : j \in {k \in Listed(c) : Variance(c, k) # 0}}
<1>1. /\ c \in OpenCounts /\ count[c].found[i] # Nothing
      /\ missing' = [s \in Shelves |-> IF s \in S THEN missing[s] + Variance(c, s[1]) ELSE missing[s]]
  BY DEF CloseCount, OpenCounts
<1>2. i \in Items /\ p \in Places /\ s0 \in C /\ IsFiniteSet(C)
  <2>1. i \in Items /\ p \in Places
    BY <1>1 DEF Listed, OpenCounts, CountsOfPlaces
  <2> QED
    BY <2>1, CoveredIs DEF Covered, Covers, Shelves
<1>3. /\ count[c].found[i] = count[c].believed[i] - SumFunctionOnSet(missing, C)
      /\ count[c].believed[i] \in Int /\ count[c].found[i] \in Int
      /\ SumFunctionOnSet(missing, C) \in Int
  <2>1. CountOK(c, i)
    BY <1>1 DEF CountsInOrder
  <2>2. count[c].believed[i] \in Nat /\ count[c].found[i] \in Nat
    BY <1>1, LinesAreTyped
  <2>3. SumFunctionOnSet(missing, C) \in Int
    BY <1>2, SumsTyped
  <2> QED
    BY <1>1, <2>1, <2>2, <2>3 DEF CountOK
<1>4. v = - SumFunctionOnSet(missing, C) /\ v \in Int
  <2> HIDE DEF C
  <2> QED
    BY <1>3 DEF Variance
<1>5. \A t \in C : t \in Shelves /\ t[1] = i /\ missing[t] \in Int
  BY DEF Covered, StockTypeOK
<1>6. \A t \in C \ {s0} : missing'[t] = missing[t]
  <2>1. \A t \in C \ {s0} : t \notin S
    BY <1>5
  <2> HIDE DEF S, C, s0
  <2> QED
    BY <1>1, <1>5, <2>1
<1>7. missing'[s0] = missing[s0] + v
  <2>1. s0 \in S <=> v # 0
    OBVIOUS
  <2>2. s0 \in Shelves /\ s0[1] = i /\ missing[s0] \in Int
    BY <1>2, <1>5
  <2>3. missing'[s0] = IF s0 \in S THEN missing[s0] + Variance(c, s0[1]) ELSE missing[s0]
    BY <1>1, <2>2
  <2>4. missing'[s0] = IF v # 0 THEN missing[s0] + v ELSE missing[s0]
    BY <2>1, <2>2, <2>3
  <2> HIDE DEF v, s0
  <2> QED
    BY <2>2, <2>4
<1> HIDE DEF v, s0, C, S
<1>8. SumFunctionOnSet(missing', C) = SumFunctionOnSet(missing, C) - missing[s0] + missing'[s0]
  <2>1. \A t \in C : missing[t] \in Int /\ missing'[t] \in Int
    BY <1>4, <1>5, <1>6, <1>7
  <2> QED
    BY <1>2, <1>6, <2>1, SumOfChanged
<1>9. SumFunctionOnSet(missing', C) = 0
  BY <1>2, <1>3, <1>4, <1>5, <1>7, <1>8
<1> QED
  BY <1>9 DEF C

(* Only closing a count closes it. *)
LEMMA OnlyClosing ==
  ASSUME StockTypeOK, [Next]_vars, NEW c \in Counts,
         count[c].status = "open", count'[c].status = "closed"
  PROVE  CloseCount(c)
<1>1. count' # count
  OBVIOUS
<1>2. StockStep
  <2>1. ~ UNCHANGED stockVars
    BY <1>1 DEF stockVars
  <2>2. \A o, p, goods, U : ~ ReceiveOrder(o, p, goods, U)
    BY <1>1 DEF ReceiveOrder
  <2>3. \A k : ~ ScrapAsset(k)
    BY <1>1 DEF ScrapAsset
  <2> QED
    BY <2>1, <2>2, <2>3 DEF Next, vars
<1>3. PICK d \in Counts :
        \/ \E p \in Places, cur \in Currencies : OpenCount(d, p, cur)
        \/ \E L \in (SUBSET Listed(d)) \ {{}} : \E f \in [L -> 0..MaxOnHand] : RecordCount(d, f)
        \/ CancelCount(d)
        \/ CloseCount(d)
  <2>1. \A i, p, q, n : ~ TransferStock(i, p, q, n)
    BY <1>1 DEF TransferStock
  <2>2. \A i, p, n, cur : ~ AdjustStock(i, p, n, cur)
    BY <1>1 DEF AdjustStock
  <2>3. \A h, i, p, n : ~ ReserveStock(h, i, p, n)
    BY <1>1 DEF ReserveStock
  <2>4. \A s : ~ Lose(s)
    BY <1>1 DEF Lose
  <2>5. \A h : ~ ReleaseReservation(h) /\ \A n : ~ ConsumeReservation(h, n)
    BY <1>1 DEF ReleaseReservation, ConsumeReservation
  <2> QED
    BY <1>2, <2>1, <2>2, <2>3, <2>4, <2>5 DEF StockStep
<1>4. PICK k : count' = [count EXCEPT ![d] = k]
  BY <1>3 DEF OpenCount, RecordCount, CancelCount, CloseCount
<1>5. d = c /\ k.status = "closed"
  BY <1>4 DEF StockTypeOK
<1>6. ASSUME NEW p, NEW cur, OpenCount(d, p, cur) PROVE FALSE
  BY <1>5, <1>6 DEF OpenCount
<1>7. ASSUME NEW L, NEW f, RecordCount(d, f) PROVE FALSE
  BY <1>5, <1>7 DEF RecordCount, StockTypeOK
<1>8. ASSUME CancelCount(d) PROVE FALSE
  BY <1>5, <1>8 DEF CancelCount, StockTypeOK, Ended
<1> QED
  BY <1>3, <1>5, <1>6, <1>7, <1>8

LEMMA InitCounts == Init => EmptyWithoutRow /\ CountsInOrder
BY DEF Init, StockInit, EmptyWithoutRow, CountsInOrder, OpenCounts, NoCount

(* A count that nothing spoiled puts right, when it is closed, all that is missing of each item
   it lists, though goods were moved, used and received in the meantime (close_count). *)
THEOREM CountsSettle == Spec => CountsCorrect
<1>1. TypedAndLinked /\ EmptyWithoutRow /\ CountsInOrder /\ [Next]_vars
        => EmptyWithoutRow' /\ CountsInOrder'
  BY NextCounts
<1>2. TypedAndLinked /\ CountsInOrder /\ [Next]_vars
        => [\A c \in Counts :
              count[c].status = "open" /\ count'[c].status = "closed" /\ trust[c] # "spoiled" =>
                \A i \in Listed(c) : SumFunctionOnSet(missing', Covered(count[c].place, i)) = 0]_vars
  BY OnlyClosing, CloseSettles DEF TypedAndLinked, TypeOK
<1>3. TypedAndLinked /\ [Next]_vars => TypedAndLinked'
  BY NextLinked
<1> QED
  BY <1>1, <1>2, <1>3, InitLinked, InitCounts, PTL DEF Spec, CountsCorrect
-----------------------------------------------------------------------------
(* What costs apply *)

(* Only what is in the catalog is on a shelf or counted, ... *)
StockOfKnown ==
  /\ \A s \in rows : Known(s[1])
  /\ \A c \in OpenCounts : \A i \in Listed(c) : Known(i)

(* ... and an open count that is in the currency an item leaves in froze its cost, as long as
   that is not changed. *)
FrozenAsIs ==
  \A c \in OpenCounts : \A i \in Listed(c) \cap steady :
    frozen[c].currency = Own(i) => frozen[c].at[i] = cost[i][Own(i)]

LEMMA StandardStays ==
  ASSUME UNCHANGED cost
  PROVE  \A i, c : Own(i)' = Own(i) /\ Standard(i, c)' = Standard(i, c)
BY DEF Own, Standard

(* What an item is valued at in each currency says what it leaves at. *)
LEMMA StandardSays ==
  ASSUME RegisterTypeOK, RegisterTypeOK', NEW i \in Items,
         \A c \in Currencies : Standard(i, c)' = Standard(i, c)
  PROVE  Own(i)' = Own(i) /\ cost'[i][Own(i)] = cost[i][Own(i)]
<1>1. "USD" \in Currencies /\ "LBP" \in Currencies
  BY DEF Currencies
<1>2. cost[i]["USD"] \in Nat /\ cost'[i]["USD"] \in Nat
  BY <1>1 DEF RegisterTypeOK
<1>3. cost'[i]["USD"] = cost[i]["USD"]
  <2>1. Standard(i, "USD")' = Standard(i, "USD")
    BY <1>1
  <2> QED
    BY <1>2, <2>1 DEF Standard, Own
<1>4. cost[i]["USD"] > 0 \/ cost'[i]["LBP"] = cost[i]["LBP"]
  <2>1. Standard(i, "LBP")' = Standard(i, "LBP")
    BY <1>1
  <2> QED
    BY <1>2, <1>3, <2>1 DEF Standard, Own
<1> QED
  BY <1>2, <1>3, <1>4 DEF Own

LEMMA KnownStays ==
  ASSUME RegisterStep \/ UNCHANGED register, NEW i \in Items, Known(i), RegisterTypeOK
  PROVE  Known(i)'
<1>1. ASSUME NEW j, NEW flag, NEW k, CreateItem(j, flag, k) PROVE Known(i)'
  BY <1>1 DEF CreateItem, Known, RegisterTypeOK
<1>2. ASSUME NEW j, NEW flag, NEW st, NEW k, UpdateItem(j, flag, st, k) PROVE Known(i)'
  BY <1>2 DEF UpdateItem, Known, RegisterTypeOK
<1>3. ASSUME \/ \E v : CreateVendor(v)
             \/ \E p : CreatePlace(p) \/ \E st : UpdatePlace(p, st)
             \/ UNCHANGED register
      PROVE  Known(i)'
  BY <1>3 DEF CreateVendor, CreatePlace, UpdatePlace, register, Known
<1> QED
  BY <1>1, <1>2, <1>3 DEF RegisterStep

(* What is listed stays what it was, or is what a new count finds on the shelves. *)
LEMMA ListedAre ==
  ASSUME StockTypeOK, StockStep, NEW c \in OpenCounts', NEW i \in Listed(c)'
  PROVE  \/ /\ c \in OpenCounts /\ i \in Listed(c) /\ frozen'[c] = frozen[c]
         \/ /\ \E s \in rows : s[1] = i
            /\ frozen'[c].at[i] = cost[i][frozen'[c].currency]
<1> DEFINE As == c \in OpenCounts /\ i \in Listed(c) /\ frozen'[c] = frozen[c]
           New == /\ \E s \in rows : s[1] = i
                  /\ frozen'[c].at[i] = cost[i][frozen'[c].currency]
<1>0. c \in Counts /\ i \in Items /\ count'[c].status = "open" /\ count'[c].believed[i] # Nothing
  BY DEF OpenCounts, Listed
<1>1. ASSUME count'[c] = count[c], frozen'[c] = frozen[c] PROVE As
  BY <1>0, <1>1 DEF OpenCounts, Listed
<1>2. ASSUME NEW d \in Counts, NEW p, NEW cur, OpenCount(d, p, cur) PROVE As \/ New
  <2> DEFINE seen == {s \in rows : Covers(p, s)}
             B == [j \in Items |-> IF \E s \in seen : s[1] = j
                                     THEN onHand[CHOOSE s \in seen : s[1] = j] ELSE Nothing]
             F == [j \in Items |-> IF \E s \in seen : s[1] = j THEN cost[j][cur] ELSE 0]
  <2>1. /\ count' = [count EXCEPT ![d] = [status |-> "open", place |-> p, found |-> NoLines,
                                          believed |-> B]]
        /\ frozen' = [frozen EXCEPT ![d] = [currency |-> cur, at |-> F]]
    BY <1>2 DEF OpenCount
  <2>2. CASE c # d
    BY <1>1, <2>1, <2>2 DEF StockTypeOK
  <2>3. CASE c = d
    <3>1. count'[c].believed = B /\ frozen'[c].at = F /\ frozen'[c].currency = cur
      BY <2>1, <2>3 DEF StockTypeOK
    <3>2. B[i] # Nothing
      BY <1>0, <3>1
    <3>3. \E s \in seen : s[1] = i
      BY <1>0, <3>2
    <3>4. F[i] = cost[i][cur]
      BY <1>0, <3>3
    <3> HIDE DEF B, F
    <3> QED
      BY <3>1, <3>3, <3>4
  <2> QED
    BY <2>2, <2>3
<1>3. ASSUME NEW d \in Counts, NEW f, RecordCount(d, f) PROVE As
  <2>1. frozen' = frozen /\ count[d].status = "open"
    BY <1>3 DEF RecordCount
  <2>2. /\ \A e \in Counts \ {d} : count'[e] = count[e]
        /\ count'[d].believed = count[d].believed
    BY <1>3 DEF RecordCount, StockTypeOK
  <2> QED
    BY <1>0, <2>1, <2>2 DEF OpenCounts, Listed
<1>4. ASSUME NEW d \in Counts, CancelCount(d) \/ CloseCount(d) PROVE As
  <2>1. PICK st \in {"cancelled", "closed"} : count' = [count EXCEPT ![d] = Ended(@, st)]
    BY <1>4 DEF CancelCount, CloseCount
  <2>2. frozen' = frozen
    BY <1>4 DEF CancelCount, CloseCount
  <2>3. c # d
    BY <1>0, <2>1 DEF StockTypeOK, Ended
  <2> QED
    BY <1>1, <2>1, <2>2, <2>3 DEF StockTypeOK
<1>5. ASSUME UNCHANGED <<count, frozen>> PROVE As
  BY <1>1, <1>5
<1>6. /\ \A j, p, q, n : TransferStock(j, p, q, n) => UNCHANGED <<count, frozen>>
      /\ \A j, p, d, cur : AdjustStock(j, p, d, cur) => UNCHANGED <<count, frozen>>
      /\ \A s : Lose(s) => UNCHANGED <<count, frozen>>
      /\ \A h, j, p, n : ReserveStock(h, j, p, n) => UNCHANGED <<count, frozen>>
      /\ \A h : ReleaseReservation(h) => UNCHANGED <<count, frozen>>
      /\ \A h, n : ConsumeReservation(h, n) => UNCHANGED <<count, frozen>>
  BY DEF TransferStock, AdjustStock, Lose, ReserveStock, ReleaseReservation, ConsumeReservation
<1> HIDE DEF As, New
<1>7. As \/ New
  BY <1>2, <1>3, <1>4, <1>5, <1>6 DEF StockStep
<1> QED
  BY <1>7 DEF As, New

(* Rows are added for items of the catalog only. *)
LEMMA RowsAre ==
  ASSUME TypedAndLinked, ReservedIsThere, EmptyWithoutRow, StockOfKnown, StockStep,
         NEW s \in rows'
  PROVE  Known(s[1])
<1>0. StockTypeOK /\ HoldsOnShelves /\ \A x \in rows : Known(x[1])
  BY DEF TypedAndLinked, TypeOK, StockOfKnown
<1>1. ASSUME UNCHANGED rows PROVE Known(s[1])
  BY <1>0, <1>1
<1>2. ASSUME NEW i, NEW p, NEW q, NEW n, TransferStock(i, p, q, n) PROVE Known(s[1])
  BY <1>0, <1>2 DEF TransferStock, ApplyDelta, Bulk
<1>3. ASSUME NEW i, NEW p, NEW d, NEW cur, AdjustStock(i, p, d, cur) PROVE Known(s[1])
  BY <1>0, <1>3 DEF AdjustStock, ApplyDelta, Bulk
<1>4. ASSUME NEW h \in Holds, NEW n \in Quantities, ConsumeReservation(h, n) PROVE Known(s[1])
  <2>1. PICK x : x = hold[h].on
    OBVIOUS
  <2>2. /\ hold[h].status = "held" /\ reserved[x] >= hold[h].quantity /\ n <= hold[h].quantity
        /\ rows' = rows \cup {x}
    BY <1>4, <2>1 DEF ConsumeReservation, LetGo, ApplyDelta
  <2>3. x \in Shelves /\ n \in Nat /\ n > 0 /\ hold[h].quantity \in Nat
    BY <1>0, <2>1, <2>2, StockIsBounded DEF HoldsOnShelves, Quantities, StockTypeOK
  <2>4. reserved[x] \in Nat /\ onHand[x] \in Nat /\ reserved[x] <= onHand[x]
    BY <1>0, <2>3 DEF StockTypeOK, ReservedIsThere
  <2>5. onHand[x] # 0
    BY <2>2, <2>3, <2>4
  <2>6. x \in rows
    BY <2>3, <2>5 DEF EmptyWithoutRow
  <2> QED
    BY <1>0, <2>2, <2>6
<1>5. ASSUME NEW c \in Counts, CloseCount(c) PROVE Known(s[1])
  <2>1. c \in OpenCounts
    BY <1>5 DEF CloseCount, OpenCounts
  <2>2. s \in rows \/ \E i \in Listed(c) : s = <<i, count[c].place>>
    BY <1>5 DEF CloseCount, ApplyDelta
  <2> QED
    BY <1>0, <2>1, <2>2 DEF StockOfKnown
<1>6. /\ \A x : Lose(x) => UNCHANGED rows
      /\ \A h, i, p, n : ReserveStock(h, i, p, n) => UNCHANGED rows
      /\ \A h : ReleaseReservation(h) => UNCHANGED rows
      /\ \A c, p, cur : OpenCount(c, p, cur) => UNCHANGED rows
      /\ \A c, f : RecordCount(c, f) => UNCHANGED rows
      /\ \A c : CancelCount(c) => UNCHANGED rows
  BY DEF Lose, ReserveStock, ReleaseReservation, OpenCount, RecordCount, CancelCount, balances
<1> QED
  BY <1>1, <1>2, <1>3, <1>4, <1>5, <1>6 DEF StockStep

LEMMA NextKnown ==
  ASSUME TypedAndLinked, TypedAndLinked', ReservedIsThere, EmptyWithoutRow, BuyingInOrder,
         StockOfKnown, FrozenAsIs, [Next]_vars
  PROVE  StockOfKnown' /\ FrozenAsIs'
<1>0. RegisterTypeOK /\ RegisterTypeOK' /\ StockTypeOK /\ steady' \subseteq steady
  BY SteadyShrinks DEF TypedAndLinked, TypeOK
<1>1. ASSUME UNCHANGED <<rows, count, frozen>>, RegisterStep \/ UNCHANGED register
      PROVE  StockOfKnown'
  <2>1. OpenCounts' = OpenCounts /\ \A c : Listed(c)' = Listed(c)
    BY <1>1 DEF OpenCounts, Listed
  <2>2. \A s \in rows : s[1] \in Items
    BY <1>0 DEF StockTypeOK, Shelves
  <2>3. \A c \in OpenCounts : Listed(c) \subseteq Items
    BY DEF Listed
  <2>4. \A i \in Items : Known(i) => Known(i)'
    BY <1>0, <1>1, KnownStays
  <2> QED
    BY <1>1, <2>1, <2>2, <2>3, <2>4 DEF StockOfKnown
<1>2. ASSUME UNCHANGED <<count, frozen, cost>> PROVE FrozenAsIs'
  <2>1. OpenCounts' = OpenCounts /\ \A c : Listed(c)' = Listed(c)
    BY <1>2 DEF OpenCounts, Listed
  <2>2. \A i : Own(i)' = Own(i)
    BY <1>2, StandardStays
  <2> QED
    BY <1>0, <1>2, <2>1, <2>2 DEF FrozenAsIs
<1>3. CASE RegisterStep /\ UNCHANGED <<stockVars, equipmentVars, buyingVars, boughtOn>>
  <2>1. StockOfKnown'
    BY <1>1, <1>3 DEF stockVars, balances
  <2>2. UNCHANGED <<count, frozen>>
    BY <1>3 DEF stockVars
  <2>3. \A c \in OpenCounts : \A i \in Listed(c) \cap steady' :
          Own(i)' = Own(i) /\ cost'[i][Own(i)] = cost[i][Own(i)]
    <3> SUFFICES ASSUME NEW c \in OpenCounts, NEW i \in Listed(c) \cap steady'
                 PROVE  Own(i)' = Own(i) /\ cost'[i][Own(i)] = cost[i][Own(i)]
      OBVIOUS
    <3>1. i \in Items /\ Known(i)
      BY DEF Listed, StockOfKnown
    <3>2. ASSUME cost'[i] = cost[i]
          PROVE  Own(i)' = Own(i) /\ cost'[i][Own(i)] = cost[i][Own(i)]
      BY <3>2 DEF Own
    <3>3. ASSUME NEW j \in Items, NEW flag, NEW k, CreateItem(j, flag, k) PROVE cost'[i] = cost[i]
      BY <1>0, <3>1, <3>3 DEF CreateItem, Known, RegisterTypeOK
    <3>4. ASSUME NEW j \in Items, NEW flag, NEW st, NEW k, UpdateItem(j, flag, st, k)
          PROVE  Own(i)' = Own(i) /\ cost'[i][Own(i)] = cost[i][Own(i)]
      <4>1. \A e \in Currencies : Standard(i, e)' = Standard(i, e)
        BY <3>4 DEF UpdateItem
      <4> QED
        BY <1>0, <3>1, <4>1, StandardSays
    <3>5. ASSUME \/ \E v : CreateVendor(v)
                 \/ \E p : CreatePlace(p) \/ \E st : UpdatePlace(p, st)
          PROVE  cost'[i] = cost[i]
      BY <3>5 DEF CreateVendor, CreatePlace, UpdatePlace
    <3> QED
      BY <1>3, <3>2, <3>3, <3>4, <3>5 DEF RegisterStep
  <2>4. FrozenAsIs'
    <3>1. OpenCounts' = OpenCounts /\ \A c : Listed(c)' = Listed(c)
      BY <2>2 DEF OpenCounts, Listed
    <3> QED
      BY <1>0, <2>2, <2>3, <3>1 DEF FrozenAsIs
  <2> QED
    BY <2>1, <2>4
<1>4. CASE StockStep /\ UNCHANGED <<register, equipmentVars, buyingVars, boughtOn>>
  <2>1. UNCHANGED <<catalog, cost>> /\ \A i : Known(i)' = Known(i) /\ Own(i)' = Own(i)
    BY <1>4 DEF register, Known, Own
  <2>2. \A s \in rows' : Known(s[1])'
    BY <1>4, <2>1, RowsAre
  <2>3. ASSUME NEW c \in OpenCounts', NEW i \in Listed(c)'
        PROVE  /\ Known(i)'
               /\ i \in steady' /\ frozen'[c].currency = Own(i)' => frozen'[c].at[i] = cost'[i][Own(i)']
    <3>1. CASE c \in OpenCounts /\ i \in Listed(c) /\ frozen'[c] = frozen[c]
      BY <1>0, <2>1, <3>1 DEF StockOfKnown, FrozenAsIs
    <3>2. CASE /\ \E s \in rows : s[1] = i
               /\ frozen'[c].at[i] = cost[i][frozen'[c].currency]
      BY <2>1, <3>2 DEF StockOfKnown
    <3> QED
      BY <1>0, <1>4, <3>1, <3>2, ListedAre
  <2> QED
    BY <2>2, <2>3 DEF StockOfKnown, FrozenAsIs
<1>5. CASE UNCHANGED <<register, stockVars, steady>>
  BY <1>1, <1>2, <1>5 DEF register, stockVars, balances
<1>6. ASSUME NEW o \in Orders, NEW p \in Places, NEW goods \in [Items -> 0..MaxOnHand],
             NEW U \in SUBSET Units, ReceiveOrder(o, p, goods, U)
      PROVE  StockOfKnown' /\ FrozenAsIs'
  <2>1. UNCHANGED <<catalog, cost, count, frozen>> /\ \A i : Known(i)' = Known(i)
    BY <1>6 DEF ReceiveOrder, register, Known
  <2>2. ASSUME NEW s \in rows' \ rows PROVE Known(s[1])
    <3>1. Taken(goods, U) \in [Items -> Nat]
      BY TakenTyped
    <3>2. s[1] \in Items /\ Taken(goods, U)[s[1]] # 0
      <4> DEFINE S == {<<j, p>> : j \in {x \in Items : ~ serialized[x] /\ Taken(goods, U)[x] # 0}}
      <4>1. rows' = rows \cup S
        BY <1>6 DEF ReceiveOrder, ApplyDelta, Taken
      <4>2. s \in S
        BY <2>2, <4>1
      <4> QED
        BY <4>2
    <3>3. Taken(goods, U)[s[1]] <= ordered[o][s[1]] - arrived[o][s[1]]
      BY <1>6, <3>2 DEF ReceiveOrder, Arrive, Taken
    <3>4. ordered[o][s[1]] \in Nat /\ arrived[o][s[1]] \in Nat
      BY <3>2 DEF TypedAndLinked, TypeOK, ProcurementTypeOK
    <3>5. ordered[o][s[1]] # 0
      BY <3>1, <3>2, <3>3, <3>4
    <3> QED
      BY <3>2, <3>5 DEF BuyingInOrder, InCatalog
  <2>3. OpenCounts' = OpenCounts /\ \A c : Listed(c)' = Listed(c)
    BY <2>1 DEF OpenCounts, Listed
  <2> QED
    BY <1>2, <2>1, <2>2, <2>3 DEF StockOfKnown
<1>7. ASSUME NEW k \in Cases, ScrapAsset(k) PROVE StockOfKnown' /\ FrozenAsIs'
  <2>1. UNCHANGED <<register, cost, rows, count, frozen>>
    BY <1>7 DEF ScrapAsset, register, balances
  <2> QED
    BY <1>1, <1>2, <2>1
<1> QED
  BY <1>3, <1>4, <1>5, <1>6, <1>7 DEF Next, vars

LEMMA InitKnown == Init => StockOfKnown /\ FrozenAsIs
BY DEF Init, StockInit, NoCount, StockOfKnown, FrozenAsIs, OpenCounts
-----------------------------------------------------------------------------
(* What the inventory account says *)

BooksOf(i, c) ==
  inventory[i][c] = Standard(i, c) * (SumFunction(Pieces(i)) + Cardinality(Living(i)))
                      + SumFunction(Premium(i, c))

LEMMA ProductsTyped == \A a, b \in Int : a * b \in Int
OBVIOUS

LEMMA PiecesTyped ==
  ASSUME StockTypeOK, NEW i \in Items
  PROVE  /\ \A p \in Places : <<i, p>> \in Shelves /\ Pieces(i)[p] = onHand[<<i, p>>]
                              /\ Pieces(i)[p] \in Int
         /\ SumFunction(Pieces(i)) = SumFunctionOnSet(Pieces(i), Places)
         /\ SumFunction(Pieces(i)) \in Int
<1>1. \A p \in Places : <<i, p>> \in Shelves /\ onHand[<<i, p>>] \in Nat
  BY DEF Shelves, StockTypeOK
<1>2. SumFunction(Pieces(i)) = SumFunctionOnSet(Pieces(i), Places)
  BY DEF SumFunction, Pieces
<1>3. \A p \in Places : Pieces(i)[p] = onHand[<<i, p>>] /\ Pieces(i)[p] \in Int
  BY <1>1 DEF Pieces
<1> QED
  BY <1>1, <1>2, <1>3, RegisterIsFinite, SumIsInt

LEMMA PremiumTyped ==
  ASSUME RegisterTypeOK, ProcurementTypeOK, NEW i \in Items, NEW c \in Currencies
  PROVE  /\ \A o \in Orders :
              /\ Premium(i, c)[o] = arrived[o][i] * (Paid(o, i, c) - Standard(i, c))
              /\ arrived[o][i] \in Nat /\ Paid(o, i, c) \in Nat /\ Premium(i, c)[o] \in Int
         /\ SumFunction(Premium(i, c)) = SumFunctionOnSet(Premium(i, c), Orders)
         /\ SumFunction(Premium(i, c)) \in Int
<1>1. ASSUME NEW o \in Orders
      PROVE  arrived[o][i] \in Nat /\ Paid(o, i, c) \in Nat /\ Paid(o, i, c) - Standard(i, c) \in Int
  <2>1. arrived[o][i] \in Nat /\ price[o][i] \in Nat /\ Standard(i, c) \in Nat
    BY OwnTyped DEF ProcurementTypeOK
  <2> QED
    BY <2>1 DEF Paid
<1>2. SumFunction(Premium(i, c)) = SumFunctionOnSet(Premium(i, c), Orders)
  BY DEF SumFunction, Premium
<1>3. \A o \in Orders : Premium(i, c)[o] = arrived[o][i] * (Paid(o, i, c) - Standard(i, c))
  BY DEF Premium
<1>4. \A o \in Orders : Premium(i, c)[o] \in Int
  BY <1>1, <1>3, ProductsTyped
<1> QED
  BY <1>1, <1>2, <1>3, <1>4, OrdersAreFinite, SumIsInt

LEMMA LivingTyped ==
  ASSUME NEW i \in Items
  PROVE  IsFiniteSet(Living(i)) /\ Cardinality(Living(i)) \in Nat
<1>1. IsFiniteSet(Living(i))
  BY UnitsAreFinite, FS_Subset DEF Living, UnitsOf
<1> QED
  BY <1>1, FS_CardinalityType

(* What of item i comes and goes is booked at standard cost, what was paid beyond it in
   full. *)
LEMMA BooksMove ==
  ASSUME RegisterTypeOK, StockTypeOK, ProcurementTypeOK, NEW i \in Items, NEW c \in Currencies,
         BooksOf(i, c), Standard(i, c)' = Standard(i, c),
         NEW pieces \in Int, NEW living \in Int, NEW premium \in Int,
         SumFunction(Pieces(i)') = SumFunction(Pieces(i)) + pieces,
         Cardinality(Living(i)') = Cardinality(Living(i)) + living,
         SumFunction(Premium(i, c)') = SumFunction(Premium(i, c)) + premium,
         inventory'[i][c] = inventory[i][c] + Standard(i, c) * (pieces + living) + premium
  PROVE  BooksOf(i, c)'
<1> DEFINE k == Standard(i, c)
           P == SumFunction(Pieces(i))
           L == Cardinality(Living(i))
           Q == SumFunction(Premium(i, c))
<1>1. k \in Int /\ P \in Int /\ L \in Int /\ Q \in Int
  BY OwnTyped, PiecesTyped, PremiumTyped, LivingTyped
<1>2. inventory[i][c] = k * (P + L) + Q
  BY DEF BooksOf
<1>3. \A a, x, y \in Int : a * (x + y) = a * x + a * y
  OBVIOUS
<1>4. P + L \in Int /\ pieces + living \in Int
  BY <1>1
<1>5. k * ((P + L) + (pieces + living)) = k * (P + L) + k * (pieces + living)
  BY <1>1, <1>3, <1>4
<1>6. (P + L) + (pieces + living) = (P + pieces) + (L + living)
  BY <1>1
<1>7. k * (P + L) \in Int /\ k * (pieces + living) \in Int
  BY <1>1, <1>4, ProductsTyped
<1>8. inventory'[i][c] = k * (P + L) + Q + k * (pieces + living) + premium
  BY <1>2
<1>9. BooksOf(i, c)' <=> inventory'[i][c] = k * ((P + pieces) + (L + living)) + (Q + premium)
  BY DEF BooksOf
<1> HIDE DEF k, P, L, Q
<1>10. inventory'[i][c] = k * ((P + pieces) + (L + living)) + (Q + premium)
  BY <1>1, <1>5, <1>6, <1>7, <1>8
<1> QED
  BY <1>9, <1>10

LEMMA PiecesStay ==
  ASSUME NEW i \in Items, \A p \in Places : onHand'[<<i, p>>] = onHand[<<i, p>>]
  PROVE  SumFunction(Pieces(i)') = SumFunction(Pieces(i))
<1>1. Pieces(i)' = Pieces(i)
  BY DEF Pieces
<1> QED
  BY <1>1

LEMMA PiecesChange ==
  ASSUME StockTypeOK, StockTypeOK', NEW i \in Items, NEW p \in Places, NEW d \in Int,
         onHand'[<<i, p>>] = onHand[<<i, p>>] + d,
         \A q \in Places \ {p} : onHand'[<<i, q>>] = onHand[<<i, q>>]
  PROVE  SumFunction(Pieces(i)') = SumFunction(Pieces(i)) + d
<1>1. \A q \in Places : /\ Pieces(i)[q] = onHand[<<i, q>>] /\ Pieces(i)[q] \in Int
                        /\ Pieces(i)'[q] = onHand'[<<i, q>>] /\ Pieces(i)'[q] \in Int
  <2>1. \A q \in Places : Pieces(i)[q] = onHand[<<i, q>>] /\ Pieces(i)'[q] = onHand'[<<i, q>>]
    BY DEF Pieces
  <2>2. \A q \in Places : onHand[<<i, q>>] \in Nat /\ onHand'[<<i, q>>] \in Nat
    BY DEF Shelves, StockTypeOK
  <2> QED
    BY <2>1, <2>2
<1>2. \A q \in Places \ {p} : Pieces(i)'[q] = Pieces(i)[q]
  BY <1>1
<1>3. SumFunctionOnSet(Pieces(i)', Places)
        = SumFunctionOnSet(Pieces(i), Places) - Pieces(i)[p] + Pieces(i)'[p]
  <2>1. PICK f, g : f = Pieces(i) /\ g = Pieces(i)'
    OBVIOUS
  <2>2. /\ \A q \in Places : f[q] \in Int /\ g[q] \in Int
        /\ \A q \in Places \ {p} : g[q] = f[q]
    BY <1>1, <1>2, <2>1
  <2>3. SumFunctionOnSet(g, Places) = SumFunctionOnSet(f, Places) - f[p] + g[p]
    BY <2>2, RegisterIsFinite, SumOfChanged
  <2> QED
    BY <2>1, <2>3
<1>4. /\ SumFunction(Pieces(i)) = SumFunctionOnSet(Pieces(i), Places)
      /\ SumFunction(Pieces(i)') = SumFunctionOnSet(Pieces(i)', Places)
  BY DEF SumFunction, Pieces
<1>5. Pieces(i)'[p] = Pieces(i)[p] + d /\ Pieces(i)[p] \in Int
  BY <1>1
<1>6. SumFunctionOnSet(Pieces(i), Places) \in Int
  BY <1>1, RegisterIsFinite, SumIsInt
<1> QED
  BY <1>3, <1>4, <1>5, <1>6

(* What is taken from one place is put in another. *)
LEMMA PiecesMove ==
  ASSUME StockTypeOK, StockTypeOK', NEW i \in Items, NEW p \in Places, NEW q \in Places, p # q,
         NEW n \in Int, onHand'[<<i, p>>] = onHand[<<i, p>>] - n,
         onHand'[<<i, q>>] = onHand[<<i, q>>] + n,
         \A r \in Places \ {p, q} : onHand'[<<i, r>>] = onHand[<<i, r>>]
  PROVE  SumFunction(Pieces(i)') = SumFunction(Pieces(i))
<1> DEFINE between == [Pieces(i) EXCEPT ![p] = @ - n]
<1>1. \A r \in Places : /\ Pieces(i)[r] = onHand[<<i, r>>] /\ Pieces(i)[r] \in Int
                        /\ Pieces(i)'[r] = onHand'[<<i, r>>] /\ Pieces(i)'[r] \in Int
  <2>1. \A r \in Places : Pieces(i)[r] = onHand[<<i, r>>] /\ Pieces(i)'[r] = onHand'[<<i, r>>]
    BY DEF Pieces
  <2>2. \A r \in Places : onHand[<<i, r>>] \in Nat /\ onHand'[<<i, r>>] \in Nat
    BY DEF Shelves, StockTypeOK
  <2> QED
    BY <2>1, <2>2
<1>2. /\ between[p] = Pieces(i)[p] - n
      /\ \A r \in Places \ {p} : between[r] = Pieces(i)[r]
  BY DEF Pieces
<1> HIDE DEF between
<1>3. /\ \A r \in Places : between[r] \in Int
      /\ \A r \in Places \ {q} : Pieces(i)'[r] = between[r]
      /\ Pieces(i)'[q] = between[q] + n
  <2>1. PICK f, g : f = Pieces(i) /\ g = Pieces(i)'
    OBVIOUS
  <2>2. /\ \A r \in Places : f[r] \in Int
        /\ g[p] = f[p] - n /\ g[q] = f[q] + n
        /\ \A r \in Places \ {p, q} : g[r] = f[r]
    BY <1>1, <2>1
  <2>3. between[p] = f[p] - n /\ \A r \in Places \ {p} : between[r] = f[r]
    BY <1>2, <2>1
  <2> QED
    BY <2>1, <2>2, <2>3
<1>4. SumFunctionOnSet(between, Places) = SumFunctionOnSet(Pieces(i), Places) - Pieces(i)[p] + between[p]
  BY <1>1, <1>2, <1>3, RegisterIsFinite, SumOfChanged
<1>5. SumFunctionOnSet(Pieces(i)', Places) = SumFunctionOnSet(between, Places) - between[q] + Pieces(i)'[q]
  BY <1>1, <1>3, RegisterIsFinite, SumOfChanged
<1>6. /\ SumFunction(Pieces(i)) = SumFunctionOnSet(Pieces(i), Places)
      /\ SumFunction(Pieces(i)') = SumFunctionOnSet(Pieces(i)', Places)
  BY DEF SumFunction, Pieces
<1>7. SumFunctionOnSet(Pieces(i), Places) \in Int /\ SumFunctionOnSet(between, Places) \in Int
  BY <1>1, <1>3, RegisterIsFinite, SumIsInt
<1> QED
  BY <1>1, <1>2, <1>3, <1>4, <1>5, <1>6, <1>7

(* Equipment and orders as before. *)
LEMMA OthersStay ==
  ASSUME UNCHANGED <<cost, unit, arrived, price, currency>>, NEW i \in Items, NEW c \in Currencies
  PROVE  /\ Standard(i, c)' = Standard(i, c)
         /\ Living(i)' = Living(i)
         /\ Premium(i, c)' = Premium(i, c)
<1>1. Standard(i, c)' = Standard(i, c)
  BY StandardStays
<1> QED
  BY <1>1 DEF Living, UnitsOf, Premium, Paid

(* Bulk stock is booked with what it costs. *)
LEMMA StockBooks ==
  ASSUME RegisterTypeOK, StockTypeOK, ProcurementTypeOK,
         NEW i \in Items, NEW c \in Currencies, BooksOf(i, c),
         UNCHANGED <<cost, unit, arrived, price, currency>>, NEW d \in Int,
         SumFunction(Pieces(i)') = SumFunction(Pieces(i)) + d,
         inventory'[i][c] = inventory[i][c] + d * Standard(i, c)
  PROVE  BooksOf(i, c)'
<1>1. /\ Cardinality(Living(i)') = Cardinality(Living(i)) + 0
      /\ SumFunction(Premium(i, c)') = SumFunction(Premium(i, c)) + 0
  BY OthersStay, LivingTyped, PremiumTyped
<1>2. inventory'[i][c] = inventory[i][c] + Standard(i, c) * (d + 0) + 0
  <2>1. Standard(i, c) \in Int /\ inventory[i][c] \in Int
    BY OwnTyped DEF StockTypeOK
  <2>2. \A a, b \in Int : a * b = b * a
    OBVIOUS
  <2>3. d * Standard(i, c) = Standard(i, c) * (d + 0) /\ Standard(i, c) * (d + 0) \in Int
    BY <2>1, <2>2, ProductsTyped
  <2> QED
    BY <2>1, <2>3
<1>3. d \in Int /\ 0 \in Int /\ Standard(i, c)' = Standard(i, c)
  BY OthersStay
<1> QED
  BY <1>1, <1>2, <1>3, BooksMove

LEMMA BooksStay ==
  ASSUME NEW i \in Items, NEW c \in Currencies, BooksOf(i, c),
         UNCHANGED <<cost, unit, arrived, price, currency>>, inventory'[i] = inventory[i],
         \A p \in Places : onHand'[<<i, p>>] = onHand[<<i, p>>]
  PROVE  BooksOf(i, c)'
<1>1. /\ Pieces(i)' = Pieces(i) /\ Standard(i, c)' = Standard(i, c)
      /\ Living(i)' = Living(i) /\ Premium(i, c)' = Premium(i, c)
  BY OthersStay DEF Pieces
<1> QED
  BY <1>1 DEF BooksOf

(* What is posted for d pieces in the currency they leave in is their standard cost. *)
LEMMA PostMoves ==
  ASSUME RegisterTypeOK, StockTypeOK, NEW i \in Items, NEW d \in Int,
         Post(i, Own(i), d * cost[i][Own(i)])
  PROVE  /\ \A j \in Items \ {i} : inventory'[j] = inventory[j]
         /\ \A c \in Currencies : inventory'[i][c] = inventory[i][c] + d * Standard(i, c)
<1>1. PICK own \in Currencies, k \in Nat : own = Own(i) /\ k = cost[i][own]
  BY OwnTyped
<1>2. /\ inventory' = [inventory EXCEPT ![i] = [inventory[i] EXCEPT ![own] = @ + d * k]]
      /\ inventory[i] \in [Currencies -> Int]
  BY <1>1 DEF Post, StockTypeOK
<1>3. \A j \in Items \ {i} : inventory'[j] = inventory[j]
  BY <1>2 DEF StockTypeOK
<1>4. inventory'[i] = [inventory[i] EXCEPT ![own] = @ + d * k]
  BY <1>2 DEF StockTypeOK
<1>5. ASSUME NEW c \in Currencies PROVE inventory'[i][c] = inventory[i][c] + d * Standard(i, c)
  <2>1. CASE c = own
    <3>1. Standard(i, c) = k
      BY <1>1, <2>1 DEF Standard
    <3> QED
      BY <1>2, <1>4, <2>1, <3>1
  <2>2. CASE c # own
    <3>1. Standard(i, c) = 0
      BY <1>1, <2>2 DEF Standard
    <3>2. inventory'[i][c] = inventory[i][c] /\ inventory[i][c] \in Int /\ d * 0 = 0
      BY <1>2, <1>4, <2>2
    <3> QED
      BY <3>1, <3>2
  <2> QED
    BY <2>1, <2>2
<1> QED
  BY <1>3, <1>5

(* The books of one item: what a change of one of its shelves does to them. *)
LEMMA OneShelfBooks ==
  ASSUME RegisterTypeOK, StockTypeOK, StockTypeOK', ProcurementTypeOK,
         UNCHANGED <<cost, unit, arrived, price, currency>>,
         NEW i \in Items, NEW p \in Places, NEW d \in Int,
         onHand' = [s \in Shelves |-> IF s = <<i, p>> THEN onHand[s] + d ELSE onHand[s]],
         Post(i, Own(i), d * cost[i][Own(i)]),
         NEW j \in Items, NEW c \in Currencies, BooksOf(j, c)
  PROVE  BooksOf(j, c)'
<1>1. /\ \A x \in Items \ {i} : inventory'[x] = inventory[x]
      /\ inventory'[i][c] = inventory[i][c] + d * Standard(i, c)
  BY PostMoves
<1>2. CASE j = i
  <2>1. /\ onHand'[<<i, p>>] = onHand[<<i, p>>] + d
        /\ \A q \in Places \ {p} : onHand'[<<i, q>>] = onHand[<<i, q>>]
    BY DEF Shelves
  <2>2. SumFunction(Pieces(i)') = SumFunction(Pieces(i)) + d
    BY <2>1, PiecesChange
  <2>3. BooksOf(i, c)
    BY <1>2
  <2>4. BooksOf(i, c)'
    BY <1>1, <2>2, <2>3, StockBooks
  <2> QED
    BY <1>2, <2>4
<1>3. CASE j # i
  <2>1. inventory'[j] = inventory[j] /\ \A q \in Places : onHand'[<<j, q>>] = onHand[<<j, q>>]
    BY <1>1, <1>3 DEF Shelves
  <2> QED
    BY <2>1, BooksStay
<1> QED
  BY <1>2, <1>3

LEMMA StockStepBooks ==
  ASSUME TypedAndLinked, TypedAndLinked', FrozenAsIs, BooksFollowStock, StockStep,
         steady' \subseteq steady, UNCHANGED <<register, equipmentVars, buyingVars>>
  PROVE  BooksFollowStock'
<1>0. /\ RegisterTypeOK /\ StockTypeOK /\ StockTypeOK' /\ ProcurementTypeOK
      /\ HoldsOnShelves /\ CountsOfPlaces /\ steady \subseteq Items
      /\ UNCHANGED <<cost, unit, arrived, price, currency>>
  BY DEF TypedAndLinked, TypeOK, register, equipmentVars, custody, buyingVars, ordering
<1> SUFFICES ASSUME NEW j \in steady', NEW e \in Currencies PROVE BooksOf(j, e)'
  BY DEF BooksFollowStock, BooksOf
<1>1. j \in steady /\ j \in Items /\ BooksOf(j, e)
  BY <1>0 DEF BooksFollowStock, BooksOf
<1>2. ASSUME UNCHANGED <<onHand, inventory>> PROVE BooksOf(j, e)'
  <2>1. inventory'[j] = inventory[j] /\ \A p \in Places : onHand'[<<j, p>>] = onHand[<<j, p>>]
    BY <1>2
  <2> QED
    BY <1>0, <1>1, <2>1, BooksStay
<1>3. ASSUME NEW i \in Items, NEW p \in Places, NEW q \in Places, NEW n \in Quantities,
             TransferStock(i, p, q, n)
      PROVE  BooksOf(j, e)'
  <2>0. n \in Int /\ p # q
    BY <1>3, StockIsBounded DEF TransferStock, Quantities
  <2>1. /\ onHand' = [s \in Shelves |->
                        IF s \in {<<i, p>>, <<i, q>>}
                          THEN onHand[s] + (IF s = <<i, p>> THEN -n ELSE n) ELSE onHand[s]]
        /\ UNCHANGED inventory
    BY <1>3 DEF TransferStock, ApplyDelta
  <2>2. CASE j = i
    <3>1. /\ onHand'[<<i, p>>] = onHand[<<i, p>>] - n
          /\ onHand'[<<i, q>>] = onHand[<<i, q>>] + n
          /\ \A r \in Places \ {p, q} : onHand'[<<i, r>>] = onHand[<<i, r>>]
      <4>1. <<i, p>> \in Shelves /\ <<i, q>> \in Shelves /\ <<i, p>> # <<i, q>>
        BY <2>0 DEF Shelves
      <4>2. onHand[<<i, p>>] \in Nat
        BY <1>0, <4>1 DEF StockTypeOK
      <4> QED
        BY <2>0, <2>1, <4>1, <4>2 DEF Shelves
    <3>2. SumFunction(Pieces(i)') = SumFunction(Pieces(i))
      BY <1>0, <2>0, <3>1, PiecesMove
    <3>3. SumFunction(Pieces(i)') = SumFunction(Pieces(i)) + 0
      BY <1>0, <3>2, PiecesTyped
    <3>4. inventory'[i][e] = inventory[i][e] + 0 * Standard(i, e)
      <4>1. Standard(i, e) \in Nat /\ inventory[i][e] \in Int
        BY <1>0, OwnTyped DEF StockTypeOK
      <4> QED
        BY <2>1, <4>1
    <3>5. 0 \in Int /\ BooksOf(i, e)
      BY <1>1, <2>2
    <3>6. BooksOf(i, e)'
      BY <1>0, <3>3, <3>4, <3>5, StockBooks
    <3> QED
      BY <2>2, <3>6
  <2>3. CASE j # i
    <3>1. inventory'[j] = inventory[j] /\ \A r \in Places : onHand'[<<j, r>>] = onHand[<<j, r>>]
      BY <1>1, <2>1, <2>3 DEF Shelves
    <3> QED
      BY <1>0, <1>1, <3>1, BooksStay
  <2> QED
    BY <2>2, <2>3
<1>4. ASSUME NEW i \in Items, NEW p \in Places, NEW d \in Int, NEW cur \in Currencies,
             AdjustStock(i, p, d, cur)
      PROVE  BooksOf(j, e)'
  <2>1. /\ onHand' = [s \in Shelves |-> IF s = <<i, p>> THEN onHand[s] + d ELSE onHand[s]]
        /\ Post(i, cur, d * cost[i][cur])
        /\ steady' = IF cur = Own(i) THEN steady ELSE steady \ {i}
    BY <1>4 DEF AdjustStock, ApplyDelta
  <2>2. CASE cur = Own(i)
    <3>1. Post(i, Own(i), d * cost[i][Own(i)])
      BY <2>1, <2>2
    <3> QED
      BY <1>0, <1>1, <2>1, <3>1, OneShelfBooks
  <2>3. CASE cur # Own(i)
    <3>1. j # i
      BY <2>1, <2>3
    <3>2. inventory'[j] = inventory[j] /\ \A q \in Places : onHand'[<<j, q>>] = onHand[<<j, q>>]
      BY <1>0, <2>1, <3>1 DEF Post, Shelves, StockTypeOK
    <3> QED
      BY <1>0, <1>1, <3>2, BooksStay
  <2> QED
    BY <2>2, <2>3
<1>5. ASSUME NEW h \in Holds, NEW n \in Quantities, ConsumeReservation(h, n)
      PROVE  BooksOf(j, e)'
  <2>1. PICK i \in Items, p \in Places : hold[h].on = <<i, p>>
    BY <1>0, <1>5 DEF ConsumeReservation, LetGo, HoldsOnShelves, Shelves
  <2>2. n \in Int /\ -n \in Int
    BY StockIsBounded DEF Quantities
  <2>3. onHand' = [s \in Shelves |-> IF s = <<i, p>> THEN onHand[s] + (-n) ELSE onHand[s]]
    BY <1>5, <2>1 DEF ConsumeReservation, ApplyDelta
  <2>4. Post(i, Own(i), (-n) * cost[i][Own(i)])
    <3>1. Post(i, Own(i), - n * cost[i][Own(i)])
      BY <1>5, <2>1 DEF ConsumeReservation
    <3>2. cost[i][Own(i)] \in Int
      BY <1>0, OwnTyped
    <3>3. \A a, b \in Int : - a * b = (-a) * b
      OBVIOUS
    <3> QED
      BY <2>2, <3>1, <3>2, <3>3
  <2> QED
    BY <1>0, <1>1, <2>2, <2>3, <2>4, OneShelfBooks
<1>6. ASSUME NEW c \in Counts, CloseCount(c) PROVE BooksOf(j, e)'
  <2> DEFINE p == count[c].place
             cur == frozen[c].currency
             D == {i \in Listed(c) : Variance(c, i) # 0}
             S == {<<i, p>> : i \in D}
  <2>1. /\ p \in Places /\ D \subseteq Items /\ \A i \in D : Variance(c, i) \in Int
        /\ c \in OpenCounts /\ cur \in Currencies
    BY <1>0, <1>6 DEF StockTypeOK, CloseCount, CountsOfPlaces, Listed, Variance, Nothing, OpenCounts
  <2>2. /\ onHand' = [s \in Shelves |->
                        IF s \in S THEN onHand[s] + [t \in S |-> Variance(c, t[1])][s] ELSE onHand[s]]
        /\ inventory' = [i \in Items |-> IF i \in D THEN [inventory[i] EXCEPT ![cur] =
                                                           @ + Variance(c, i) * frozen[c].at[i]]
                                                    ELSE inventory[i]]
        /\ j \in D => cur = Own(j)
    BY <1>6 DEF CloseCount, ApplyDelta
  <2>3. CASE j \in D
    <3>1. /\ onHand'[<<j, p>>] = onHand[<<j, p>>] + Variance(c, j)
          /\ \A q \in Places \ {p} : onHand'[<<j, q>>] = onHand[<<j, q>>]
      BY <2>1, <2>2, <2>3 DEF Shelves
    <3>2. j \in Listed(c) /\ Variance(c, j) \in Int
      BY <2>1, <2>3
    <3>3. inventory'[j] = [inventory[j] EXCEPT ![cur] = @ + Variance(c, j) * frozen[c].at[j]]
      BY <1>1, <2>2, <2>3
    <3>4. frozen[c].at[j] = cost[j][cur]
      BY <1>1, <2>1, <2>2, <2>3, <3>2 DEF FrozenAsIs
    <3>5. /\ Standard(j, e) = IF e = cur THEN frozen[c].at[j] ELSE 0
          /\ Standard(j, e) \in Nat
          /\ inventory[j] \in [Currencies -> Int]
      BY <1>0, <1>1, <2>2, <2>3, <3>4, OwnTyped DEF Standard, StockTypeOK
    <3> HIDE DEF p, D, S, cur
    <3>6. inventory'[j][e] = inventory[j][e] + Variance(c, j) * Standard(j, e)
      <4>1. CASE e = cur
        BY <3>3, <3>5, <4>1
      <4>2. CASE e # cur
        <5>1. inventory'[j][e] = inventory[j][e] /\ inventory[j][e] \in Int /\ Standard(j, e) = 0
          BY <3>3, <3>5, <4>2
        <5>2. Variance(c, j) * 0 = 0
          BY <3>2
        <5> QED
          BY <5>1, <5>2
      <4> QED
        BY <4>1, <4>2
    <3>7. SumFunction(Pieces(j)') = SumFunction(Pieces(j)) + Variance(c, j)
      BY <1>0, <1>1, <2>1, <3>1, <3>2, PiecesChange
    <3> QED
      BY <1>0, <1>1, <3>2, <3>6, <3>7, StockBooks
  <2>4. CASE j \notin D
    <3>1. inventory'[j] = inventory[j] /\ \A q \in Places : onHand'[<<j, q>>] = onHand[<<j, q>>]
      BY <1>1, <2>2, <2>4 DEF Shelves
    <3> QED
      BY <1>0, <1>1, <3>1, BooksStay
  <2> QED
    BY <2>3, <2>4
<1>7. ASSUME NEW s, Lose(s) PROVE UNCHANGED <<onHand, inventory>>
  BY <1>7 DEF Lose, balances
<1>8. ASSUME NEW h \in Holds,
             \/ ReleaseReservation(h)
             \/ \E i \in Items, p \in Places, n \in Quantities : ReserveStock(h, i, p, n)
      PROVE  UNCHANGED <<onHand, inventory>>
  BY <1>8 DEF ReleaseReservation, ReserveStock
<1>9. ASSUME NEW c \in Counts, \/ \E p, cur : OpenCount(c, p, cur)
                               \/ \E f : RecordCount(c, f)
                               \/ CancelCount(c)
      PROVE  UNCHANGED <<onHand, inventory>>
  BY <1>9 DEF OpenCount, RecordCount, CancelCount, balances
<1>10. \A n \in Quantities : n \in Int /\ -n \in Int
  BY StockIsBounded DEF Quantities
<1> QED
  BY <1>2, <1>3, <1>4, <1>5, <1>6, <1>7, <1>8, <1>9, <1>10 DEF StockStep

(* A unit is the tenant's from its entry until it is scrapped. *)
Alive(u) == unit[u] \notin {"none", "scrapped"}

LEMMA LivingAre == \A i \in Items : Living(i) = {u \in Units : ModelOf[u] = i /\ Alive(u)}
BY DEF Living, UnitsOf, Alive

LEMMA LivingStay ==
  ASSUME \A u \in Units : Alive(u)' <=> Alive(u), NEW i \in Items
  PROVE  Living(i)' = Living(i)
BY DEF Living, UnitsOf, Alive

LEMMA UnitStaysAlive ==
  ASSUME EquipmentTypeOK, NEW u \in Units, NEW st \in {"issued", "installed", "returned", "rma", "in_stock"},
         unit[u] \notin {"none", "scrapped"}, unit' = [unit EXCEPT ![u] = st]
  PROVE  \A x \in Units : Alive(x)' <=> Alive(x)
BY DEF EquipmentTypeOK, Alive

(* Custody and the repair desk change how many units are alive only where one is scrapped. *)
LEMMA EquipmentKeepsLiving ==
  ASSUME EquipmentTypeOK, CasesHaveDevices, DeskInOrder, EquipmentStep, NEW i \in Items
  PROVE  Cardinality(Living(i)') = Cardinality(Living(i))
<1>1. ASSUME \A u \in Units : Alive(u)' <=> Alive(u)
      PROVE  Cardinality(Living(i)') = Cardinality(Living(i))
  BY <1>1, LivingStay
<1>2. ASSUME UNCHANGED unit PROVE \A u \in Units : Alive(u)' <=> Alive(u)
  BY <1>2 DEF Alive
<1>3. ASSUME NEW j \in FieldJobs, FieldWork(j) PROVE UNCHANGED unit
  BY <1>3 DEF FieldWork, custody
<1>4. ASSUME NEW u \in Units,
             \/ \E j \in FieldJobs : Issue(u, j)
             \/ Install(u) \/ SetAside(u) \/ \E w \in Warehouses : Return(u, w)
             \/ \E k \in Cases, withVendor \in BOOLEAN : OpenCase(k, u, withVendor)
      PROVE  \A x \in Units : Alive(x)' <=> Alive(x)
  <2>1. unit[u] \notin {"none", "scrapped"}
    BY <1>4 DEF Issue, Install, SetAside, Return, OpenCase, OnShelf, Out
  <2>2. \E st \in {"issued", "installed", "returned", "rma"} : unit' = [unit EXCEPT ![u] = st]
    BY <1>4 DEF Issue, Install, SetAside, Return, OpenCase
  <2> QED
    BY <2>1, <2>2, UnitStaysAlive
<1>5. ASSUME NEW k \in Cases, SendToVendor(k) \/ CloseCase(k) PROVE UNCHANGED unit
  BY <1>5 DEF SendToVendor, CloseCase, custody
<1>6. ASSUME NEW k \in Cases, repair[k] = "sent_to_vendor"
      PROVE  device[k] \in Units /\ unit[device[k]] = "rma"
  BY <1>6 DEF CasesHaveDevices, DeskInOrder, AtDesk
<1>7. ASSUME NEW k \in Cases, ReceiveRepaired(k) PROVE \A x \in Units : Alive(x)' <=> Alive(x)
  <2>1. device[k] \in Units /\ unit[device[k]] \notin {"none", "scrapped"}
    BY <1>6, <1>7 DEF ReceiveRepaired
  <2>2. unit' = [unit EXCEPT ![device[k]] = "in_stock"]
    BY <1>7 DEF ReceiveRepaired
  <2> QED
    BY <2>1, <2>2, UnitStaysAlive
<1>8. ASSUME NEW k \in Cases, NEW u \in Units, ReceiveReplacement(k, u)
      PROVE  Cardinality(Living(i)') = Cardinality(Living(i))
  <2>1. PICK d \in Units : /\ d = device[k] /\ unit[d] = "rma" /\ unit[u] = "none"
                           /\ d # u /\ ModelOf[u] = ModelOf[d]
    BY <1>6, <1>8 DEF ReceiveReplacement
  <2>2. unit' = [x \in Units |-> IF x = u THEN "in_stock"
                                 ELSE IF x = d THEN "scrapped" ELSE unit[x]]
    BY <1>8, <2>1 DEF ReceiveReplacement
  <2>3. /\ Alive(d) /\ ~ Alive(u) /\ ~ Alive(d)' /\ Alive(u)'
        /\ \A x \in Units \ {d, u} : Alive(x)' <=> Alive(x)
    BY <2>1, <2>2 DEF Alive
  <2>4. CASE ModelOf[u] # i
    <3>1. Living(i)' = Living(i)
      BY <2>1, <2>3, <2>4 DEF Living, UnitsOf, Alive
    <3> QED
      BY <3>1
  <2>5. CASE ModelOf[u] = i
    <3>1. /\ d \in Living(i) /\ u \notin Living(i)
          /\ Living(i)' = (Living(i) \ {d}) \cup {u}
      BY <2>1, <2>3, <2>5 DEF Living, UnitsOf, Alive
    <3>2. IsFiniteSet(Living(i)) /\ Cardinality(Living(i)) \in Nat
      BY LivingTyped
    <3>3. IsFiniteSet(Living(i) \ {d}) /\ Cardinality(Living(i) \ {d}) = Cardinality(Living(i)) - 1
      BY <3>1, <3>2, FS_RemoveElement
    <3>4. Cardinality((Living(i) \ {d}) \cup {u}) = Cardinality(Living(i) \ {d}) + 1
      BY <3>1, <3>3, FS_AddElement
    <3> QED
      BY <3>1, <3>2, <3>3, <3>4
  <2> QED
    BY <2>4, <2>5
<1> QED
  BY <1>1, <1>2, <1>3, <1>4, <1>5, <1>7, <1>8 DEF EquipmentStep

LEMMA EquipmentBooks ==
  ASSUME TypedAndLinked, DeskInOrder, EquipmentStep, UNCHANGED <<register, stockVars, buyingVars>>,
         NEW i \in Items, NEW c \in Currencies, BooksOf(i, c)
  PROVE  BooksOf(i, c)'
<1>1. Cardinality(Living(i)') = Cardinality(Living(i))
  BY EquipmentKeepsLiving DEF TypedAndLinked, TypeOK
<1>2. Standard(i, c)' = Standard(i, c)
  BY StandardStays DEF register
<1>3. Pieces(i)' = Pieces(i) /\ Premium(i, c)' = Premium(i, c) /\ inventory' = inventory
  BY <1>2 DEF Pieces, Premium, Paid, stockVars, balances, buyingVars, ordering
<1> QED
  BY <1>1, <1>2, <1>3 DEF BooksOf

(* What is scrapped is written off. *)
LEMMA ScrapBooks ==
  ASSUME TypedAndLinked, DeskInOrder, NEW k \in Cases, ScrapAsset(k),
         NEW j \in Items, NEW c \in Currencies, BooksOf(j, c)
  PROVE  BooksOf(j, c)'
<1>0. RegisterTypeOK /\ StockTypeOK /\ EquipmentTypeOK /\ ProcurementTypeOK /\ CasesHaveDevices
  BY DEF TypedAndLinked, TypeOK
<1>1. repair[k] \in AtDesk /\ unit' = [unit EXCEPT ![device[k]] = "scrapped"]
  BY DEF ScrapAsset, Scrap
<1>2. PICK d \in Units : d = device[k] /\ unit[d] = "rma"
  BY <1>0, <1>1 DEF CasesHaveDevices, DeskInOrder, AtDesk
<1>3. PICK m \in Items : m = ModelOf[d]
  BY <1>2, UnitsHaveModels
<1>4. /\ \A x \in Items \ {m} : inventory'[x] = inventory[x]
      /\ inventory'[m][c] = inventory[m][c] + (-1) * Standard(m, c)
  <2>1. Post(m, Own(m), - cost[m][Own(m)])
    BY <1>2, <1>3 DEF ScrapAsset
  <2>2. - cost[m][Own(m)] = (-1) * cost[m][Own(m)] /\ -1 \in Int
    BY <1>0, <1>3, OwnTyped
  <2>3. Post(m, Own(m), (-1) * cost[m][Own(m)])
    BY <2>1, <2>2
  <2> QED
    BY <1>0, <2>2, <2>3, PostMoves
<1>5. Standard(j, c)' = Standard(j, c)
  BY StandardStays DEF ScrapAsset, register
<1>6. Pieces(j)' = Pieces(j) /\ Premium(j, c)' = Premium(j, c)
  BY <1>5 DEF ScrapAsset, balances, buyingVars, ordering, Pieces, Premium, Paid
<1>7. Alive(d) /\ ~ Alive(d)' /\ \A x \in Units \ {d} : Alive(x)' <=> Alive(x)
  BY <1>0, <1>1, <1>2 DEF Alive, EquipmentTypeOK
<1>8. CASE j = m
  <2>1. d \in Living(j) /\ Living(j)' = Living(j) \ {d}
    BY <1>2, <1>3, <1>7, <1>8 DEF Living, UnitsOf, Alive
  <2>2. Cardinality(Living(j)') = Cardinality(Living(j)) + (-1)
    <3>1. IsFiniteSet(Living(j)) /\ Cardinality(Living(j)) \in Nat
      BY LivingTyped
    <3>2. Cardinality(Living(j) \ {d}) = Cardinality(Living(j)) - 1
      BY <2>1, <3>1, FS_RemoveElement
    <3> QED
      BY <2>1, <3>1, <3>2
  <2>3. /\ SumFunction(Pieces(j)') = SumFunction(Pieces(j)) + 0
        /\ SumFunction(Premium(j, c)') = SumFunction(Premium(j, c)) + 0
    BY <1>0, <1>6, PiecesTyped, PremiumTyped
  <2>4. inventory'[j][c] = inventory[j][c] + Standard(j, c) * (0 + (-1)) + 0
    <3>1. inventory[j][c] \in Int /\ Standard(j, c) \in Int
      BY <1>0, OwnTyped DEF StockTypeOK
    <3>2. inventory'[j][c] = inventory[j][c] + (-1) * Standard(j, c)
      BY <1>4, <1>8
    <3> QED
      BY <3>1, <3>2
  <2>5. 0 \in Int /\ -1 \in Int
    OBVIOUS
  <2> QED
    BY <1>0, <1>5, <2>2, <2>3, <2>4, <2>5, BooksMove
<1>9. CASE j # m
  <2>1. Living(j)' = Living(j)
    BY <1>2, <1>3, <1>7, <1>9 DEF Living, UnitsOf, Alive
  <2>2. inventory'[j] = inventory[j]
    BY <1>4, <1>9
  <2> QED
    BY <1>5, <1>6, <2>1, <2>2 DEF BooksOf
<1> QED
  BY <1>8, <1>9

(* Nothing of a new order has arrived, so what it is to cost counts for nothing yet. *)
LEMMA BuyingBooks ==
  ASSUME TypedAndLinked, TypedAndLinked', BuyingInOrder, BuyingStep,
         UNCHANGED <<register, stockVars, equipmentVars>>,
         NEW i \in Items, NEW c \in Currencies, BooksOf(i, c)
  PROVE  BooksOf(i, c)'
<1>0. RegisterTypeOK /\ RegisterTypeOK' /\ ProcurementTypeOK /\ ProcurementTypeOK'
  BY DEF TypedAndLinked, TypeOK
<1>1. /\ UNCHANGED arrived
      /\ \A o \in Orders : \/ price'[o] = price[o] /\ currency'[o] = currency[o]
                           \/ arrived[o] = NoLine
  <2>1. ASSUME NEW o \in Orders, NEW w, NEW cur, NEW l, NEW P, Draft(o, w, cur, l, P)
        PROVE  /\ UNCHANGED arrived
               /\ \A x \in Orders : \/ price'[x] = price[x] /\ currency'[x] = currency[x]
                                    \/ arrived[x] = NoLine
    <3>1. arrived[o] = NoLine
      BY <2>1 DEF Draft, BuyingInOrder, OrderInOrder
    <3>2. /\ UNCHANGED arrived
          /\ \A x \in Orders \ {o} : price'[x] = price[x] /\ currency'[x] = currency[x]
      BY <1>0, <2>1 DEF Draft, ProcurementTypeOK
    <3> QED
      BY <3>1, <3>2
  <2>2. ASSUME NEW r \in Requests,
               \/ \E w \in Warehouses, lines \in LinesIn(Sizes) : CreateQuoteRequest(r, w, lines)
               \/ \E v \in Vendors : \E prices \in LinesIn(Prices), cur \in Currencies :
                    RecordQuote(r, v, prices, cur)
               \/ CancelQuoteRequest(r)
        PROVE  UNCHANGED <<arrived, price, currency>>
    BY <2>2 DEF CreateQuoteRequest, RecordQuote, CancelQuoteRequest, ordering
  <2>3. ASSUME NEW r \in Requests, NEW v \in Vendors, NEW o \in Orders, AwardQuote(r, v, o)
        PROVE  \E w, cur, l, P : Draft(o, w, cur, l, P)
    BY <2>3 DEF AwardQuote
  <2>4. ASSUME NEW o \in Orders, NEW w, NEW cur, NEW lines, NEW prices,
               CreateOrder(o, w, cur, lines, prices)
        PROVE  Draft(o, w, cur, lines, prices)
    BY <2>4 DEF CreateOrder
  <2>5. ASSUME NEW o \in Orders, ApproveOrder(o) PROVE UNCHANGED <<arrived, price, currency>>
    BY <2>5 DEF ApproveOrder
  <2> QED
    BY <2>1, <2>2, <2>3, <2>4, <2>5 DEF BuyingStep
<1>2. Standard(i, c)' = Standard(i, c)
  BY StandardStays DEF register
<1>3. Premium(i, c)' = Premium(i, c)
  <2>1. ASSUME NEW o \in Orders
        PROVE  arrived'[o][i] * (Paid(o, i, c)' - Standard(i, c))
                 = arrived[o][i] * (Paid(o, i, c) - Standard(i, c))
    <3>1. CASE price'[o] = price[o] /\ currency'[o] = currency[o]
      BY <1>1, <3>1 DEF Paid
    <3>2. CASE arrived[o] = NoLine
      <4>1. arrived[o][i] = 0 /\ arrived'[o][i] = 0
        BY <1>1, <3>2 DEF NoLine
      <4>2. Paid(o, i, c) - Standard(i, c) \in Int /\ Paid(o, i, c)' - Standard(i, c) \in Int
        <5>1. price[o][i] \in Nat /\ price'[o][i] \in Nat /\ Standard(i, c) \in Nat
          BY <1>0, OwnTyped DEF ProcurementTypeOK
        <5> QED
          BY <5>1 DEF Paid
      <4>3. \A a \in Int : 0 * a = 0
        OBVIOUS
      <4> QED
        BY <4>1, <4>2, <4>3
    <3> QED
      BY <1>1, <3>1, <3>2
  <2> QED
    BY <1>2, <2>1 DEF Premium
<1>4. Pieces(i)' = Pieces(i) /\ Living(i)' = Living(i) /\ inventory' = inventory
  BY DEF Pieces, Living, UnitsOf, stockVars, balances, equipmentVars, custody
<1> QED
  BY <1>2, <1>3, <1>4 DEF BooksOf

(* What arrives is on hand or a unit of the tenant's, at standard cost, and what it cost
   beyond that counts with its order. *)
LEMMA ReceiptBooks ==
  ASSUME TypedAndLinked, TypedAndLinked', NEW o \in Orders, NEW p \in Places,
         NEW goods \in [Items -> 0..MaxOnHand], NEW U \in SUBSET Units,
         ReceiveOrder(o, p, goods, U), NEW i \in Items, NEW c \in Currencies, BooksOf(i, c)
  PROVE  BooksOf(i, c)'
<1> DEFINE taken == Taken(goods, U)
           n == taken[i]
           k == Standard(i, c)
           paid == Paid(o, i, c)
           pieces == IF serialized[i] THEN 0 ELSE n
           living == IF serialized[i] THEN n ELSE 0
           premium == n * (paid - k)
<1>0. /\ RegisterTypeOK /\ StockTypeOK /\ StockTypeOK'
      /\ ProcurementTypeOK /\ ProcurementTypeOK' /\ Standard(i, c)' = Standard(i, c)
  BY StandardStays DEF TypedAndLinked, TypeOK, ReceiveOrder, register
<1>1. taken \in [Items -> Nat] /\ n \in Nat /\ k \in Nat /\ paid \in Nat
  <2>1. taken \in [Items -> Nat]
    BY TakenTyped
  <2>2. k \in Nat
    BY <1>0, OwnTyped
  <2>3. paid \in Nat
    BY <1>0 DEF ProcurementTypeOK, Paid
  <2> HIDE DEF taken, k, paid
  <2> QED
    BY <2>1, <2>2, <2>3
<1>2. pieces \in Int /\ living \in Int /\ paid - k \in Int /\ premium \in Int
  <2>1. paid - k \in Int
    BY <1>1
  <2> QED
    BY <1>1, <2>1, ProductsTyped
<1>3. SumFunction(Pieces(i)') = SumFunction(Pieces(i)) + pieces
  <2> DEFINE S == {<<j, p>> : j \in {x \in Items : ~ serialized[x] /\ taken[x] # 0}}
  <2>1. onHand' = [s \in Shelves |-> IF s \in S THEN onHand[s] + [t \in S |-> taken[t[1]]][s]
                                     ELSE onHand[s]]
    BY DEF ReceiveOrder, ApplyDelta, Taken
  <2>2. /\ <<i, p>> \in S <=> ~ serialized[i] /\ n # 0
        /\ \A q \in Places \ {p} : <<i, q>> \notin S
        /\ \A s \in S : [t \in S |-> taken[t[1]]][s] = taken[s[1]]
    OBVIOUS
  <2>3. onHand[<<i, p>>] \in Nat /\ <<i, p>> \in Shelves
    BY <1>0 DEF StockTypeOK, Shelves
  <2> HIDE DEF S, taken
  <2>4. \A q \in Places \ {p} : onHand'[<<i, q>>] = onHand[<<i, q>>]
    BY <2>1, <2>2 DEF Shelves
  <2>5. onHand'[<<i, p>>] = onHand[<<i, p>>] + pieces
    BY <1>1, <2>1, <2>2, <2>3
  <2> HIDE DEF pieces
  <2> QED
    BY <1>0, <1>2, <2>4, <2>5, PiecesChange
<1>4. Cardinality(Living(i)') = Cardinality(Living(i)) + living
  <2> DEFINE new == {u \in U : ModelOf[u] = i}
  <2>1. /\ \A u \in U : unit[u] = "none" /\ serialized[ModelOf[u]]
        /\ unit' = [u \in Units |-> IF u \in U THEN "in_stock" ELSE unit[u]]
    BY DEF ReceiveOrder
  <2>2. \A u \in U : ~ Alive(u) /\ Alive(u)'
    BY <2>1 DEF Alive
  <2>3. \A u \in Units \ U : Alive(u)' <=> Alive(u)
    BY <2>1 DEF Alive
  <2>4. /\ Living(i)' = Living(i) \cup new
        /\ Living(i) \cap new = {}
    BY <2>2, <2>3 DEF Living, UnitsOf, Alive
  <2>5. Cardinality(new) = living
    <3>1. CASE serialized[i]
      BY <3>1 DEF Taken
    <3>2. CASE ~ serialized[i]
      <4>1. new = {}
        BY <2>1, <3>2
      <4> HIDE DEF new
      <4> QED
        BY <3>2, <4>1, FS_EmptySet
    <3> QED
      BY <3>1, <3>2
  <2>6. IsFiniteSet(new) /\ IsFiniteSet(Living(i)) /\ Cardinality(Living(i)) \in Nat
        /\ Cardinality({}) = 0
    BY UnitsAreFinite, FS_Subset, LivingTyped, FS_EmptySet
  <2> HIDE DEF new, living
  <2>7. Cardinality(Living(i) \cup new)
          = Cardinality(Living(i)) + Cardinality(new) - Cardinality(Living(i) \cap new)
    BY <2>6, FS_Union
  <2>8. Cardinality(Living(i)') = Cardinality(Living(i) \cup new)
        /\ Cardinality(Living(i) \cap new) = 0
    BY <2>4, <2>6
  <2> QED
    BY <1>2, <2>5, <2>6, <2>7, <2>8
<1>5. SumFunction(Premium(i, c)') = SumFunction(Premium(i, c)) + premium
  <2>1. /\ arrived' = [arrived EXCEPT ![o] = [j \in Items |-> arrived[o][j] + taken[j]]]
        /\ UNCHANGED <<price, currency>>
    BY DEF ReceiveOrder, Arrive, Taken
  <2> HIDE DEF taken
  <2>2. arrived'[o][i] = arrived[o][i] + n /\ \A x \in Orders \ {o} : arrived'[x] = arrived[x]
    BY <1>0, <2>1 DEF ProcurementTypeOK
  <2>3. \A x \in Orders : /\ Premium(i, c)[x] = arrived[x][i] * (Paid(x, i, c) - k)
                          /\ Premium(i, c)'[x] = arrived'[x][i] * (Paid(x, i, c) - k)
    BY <1>0, <2>1 DEF Premium, Paid
  <2> HIDE DEF k
  <2>4. /\ \A x \in Orders : Premium(i, c)[x] \in Int /\ arrived[x][i] \in Nat
        /\ SumFunction(Premium(i, c)) = SumFunctionOnSet(Premium(i, c), Orders)
        /\ SumFunction(Premium(i, c)) \in Int
    BY <1>0, PremiumTyped
  <2>5. SumFunction(Premium(i, c)') = SumFunctionOnSet(Premium(i, c)', Orders)
    BY DEF SumFunction, Premium
  <2>6. Premium(i, c)'[o] = Premium(i, c)[o] + premium
    <3>1. \A a, b, x \in Int : (a + b) * x = a * x + b * x
      OBVIOUS
    <3>2. arrived[o][i] \in Int /\ n \in Int
      BY <1>1, <2>4
    <3> QED
      BY <1>2, <2>2, <2>3, <3>1, <3>2
  <2>7. \A x \in Orders \ {o} : Premium(i, c)'[x] = Premium(i, c)[x]
    BY <2>2, <2>3
  <2> HIDE DEF premium
  <2>8. \A x \in Orders : Premium(i, c)[x] \in Int /\ Premium(i, c)'[x] \in Int
    BY <1>2, <2>4, <2>6, <2>7
  <2>9. SumFunctionOnSet(Premium(i, c)', Orders)
          = SumFunctionOnSet(Premium(i, c), Orders) - Premium(i, c)[o] + Premium(i, c)'[o]
    BY <2>7, <2>8, OrdersAreFinite, SumOfChanged
  <2> QED
    BY <1>2, <2>4, <2>5, <2>6, <2>8, <2>9
<1>6. inventory'[i][c] = inventory[i][c] + k * (pieces + living) + premium
  <2>1. inventory'[i][c] = inventory[i][c] + n * paid /\ inventory[i][c] \in Int
    <3>1. inventory' = [j \in Items |->
             [inventory[j] EXCEPT ![currency[o]] = @ + taken[j] * price[o][j]]]
      BY DEF ReceiveOrder, Taken
    <3>2. /\ inventory[i] \in [Currencies -> Int] /\ currency[o] \in Currencies
          /\ paid = IF c = currency[o] THEN price[o][i] ELSE 0
      BY <1>0 DEF StockTypeOK, ProcurementTypeOK, Paid
    <3> HIDE DEF taken, paid
    <3>3. inventory'[i] = [inventory[i] EXCEPT ![currency[o]] = @ + n * price[o][i]]
      BY <3>1
    <3>4. CASE c = currency[o]
      BY <3>2, <3>3, <3>4
    <3>5. CASE c # currency[o]
      <4>1. inventory'[i][c] = inventory[i][c] /\ inventory[i][c] \in Int /\ paid = 0
        BY <3>2, <3>3, <3>5
      <4>2. n * 0 = 0
        BY <1>1
      <4> QED
        BY <4>1, <4>2
    <3> QED
      BY <3>4, <3>5
  <2>3. pieces + living = n
    BY <1>1
  <2> HIDE DEF pieces, living, n, k, paid, taken
  <2>4. \A a, b, d \in Nat : a * b = d * a + a * (b - d)
    <3>1. \A a, b, d \in Int : a * (b - d) = a * b - d * a
      OBVIOUS
    <3>2. \A a, b, d \in Int : a * b \in Int /\ d * a \in Int
      BY ProductsTyped
    <3> QED
      BY <3>1, <3>2
  <2>5. n * paid = k * n + premium /\ k * n \in Int
    BY <1>1, <2>4, ProductsTyped
  <2> HIDE DEF premium
  <2> QED
    BY <1>2, <2>1, <2>3, <2>5
<1> HIDE DEF pieces, living, premium
<1> QED
  BY <1>0, <1>2, <1>3, <1>4, <1>5, <1>6, BooksMove

(* Of an item that is not in the catalog yet there is nothing. *)
LEMMA NothingUnknown ==
  ASSUME TypedAndLinked, EmptyWithoutRow, StockOfKnown, BuyingInOrder,
         NEW i \in Items, ~ Known(i), NEW c \in Currencies
  PROVE  /\ SumFunction(Pieces(i)) = 0
         /\ Cardinality(Living(i)) = 0
         /\ \A o \in Orders : arrived[o][i] = 0
<1>0. StockTypeOK /\ ProcurementTypeOK
  BY DEF TypedAndLinked, TypeOK
<1>1. SumFunction(Pieces(i)) = 0
  <2>1. \A p \in Places : <<i, p>> \in Shelves \ rows
    BY DEF StockOfKnown, Shelves
  <2>2. \A p \in Places : Pieces(i)[p] = 0
    BY <2>1 DEF Pieces, EmptyWithoutRow
  <2> QED
    BY <2>2, RegisterIsFinite, SumOfZeros DEF SumFunction, Pieces
<1>2. Cardinality(Living(i)) = 0
  <2>1. Living(i) = {}
    BY DEF BuyingInOrder, InCatalog, Living, UnitsOf
  <2> QED
    BY <2>1, FS_EmptySet
<1>3. ASSUME NEW o \in Orders PROVE arrived[o][i] = 0
  <2>1. ordered[o][i] = 0 /\ arrived[o][i] <= ordered[o][i]
    BY DEF BuyingInOrder, InCatalog, OrderInOrder
  <2> QED
    BY <1>0, <2>1 DEF ProcurementTypeOK
<1> QED
  BY <1>1, <1>2, <1>3

LEMMA NothingIsWorthNothing ==
  ASSUME RegisterTypeOK, ProcurementTypeOK, NEW i \in Items, NEW c \in Currencies,
         SumFunction(Pieces(i)) = 0, Cardinality(Living(i)) = 0,
         \A o \in Orders : arrived[o][i] = 0
  PROVE  BooksOf(i, c) <=> inventory[i][c] = 0
<1>1. \A a \in Int : 0 * a = 0 /\ a * (0 + 0) = 0
  OBVIOUS
<1>2. ASSUME NEW o \in Orders PROVE Premium(i, c)[o] = 0
  <2>1. Premium(i, c)[o] = 0 * (Paid(o, i, c) - Standard(i, c))
    BY PremiumTyped
  <2>2. Paid(o, i, c) - Standard(i, c) \in Int
    BY PremiumTyped, OwnTyped
  <2> QED
    BY <1>1, <2>1, <2>2
<1>3. SumFunction(Premium(i, c)) = 0
  BY <1>2, PremiumTyped, OrdersAreFinite, SumOfZeros
<1>4. Standard(i, c) * (0 + 0) = 0
  BY <1>1, OwnTyped
<1> QED
  BY <1>3, <1>4 DEF BooksOf

(* A cost is set while there is nothing of the item, or it is no longer steady. *)
LEMMA RegisterBooks ==
  ASSUME TypedAndLinked, TypedAndLinked', EmptyWithoutRow, StockOfKnown, BuyingInOrder,
         RegisterStep, UNCHANGED <<stockVars, equipmentVars, buyingVars>>,
         NEW i \in steady', i \in steady, NEW c \in Currencies, BooksOf(i, c)
  PROVE  BooksOf(i, c)'
<1>0. /\ RegisterTypeOK /\ RegisterTypeOK' /\ ProcurementTypeOK /\ ProcurementTypeOK'
      /\ i \in Items
  BY DEF TypedAndLinked, TypeOK
<1>1. /\ Pieces(i)' = Pieces(i) /\ Living(i)' = Living(i) /\ UNCHANGED <<inventory, arrived>>
      /\ \A o : Paid(o, i, c)' = Paid(o, i, c)
  BY DEF Pieces, Living, UnitsOf, Paid, stockVars, balances, equipmentVars, custody, buyingVars,
         ordering
<1>2. ASSUME Standard(i, c)' = Standard(i, c) PROVE BooksOf(i, c)'
  <2>1. Premium(i, c)' = Premium(i, c)
    BY <1>1, <1>2 DEF Premium
  <2> QED
    BY <1>1, <1>2, <2>1 DEF BooksOf
<1>3. ASSUME cost'[i] = cost[i] PROVE Standard(i, c)' = Standard(i, c)
  BY <1>3 DEF Standard, Own
<1>4. ASSUME NEW j \in Items, NEW flag, NEW k, CreateItem(j, flag, k) PROVE BooksOf(i, c)'
  <2>1. CASE j # i
    <3>1. cost'[i] = cost[i]
      BY <1>0, <1>4, <2>1 DEF CreateItem, RegisterTypeOK
    <3> QED
      BY <1>2, <1>3, <3>1
  <2>2. CASE j = i
    <3>1. ~ Known(i)
      BY <1>4, <2>2 DEF CreateItem, Known
    <3>2. /\ SumFunction(Pieces(i)) = 0 /\ Cardinality(Living(i)) = 0
          /\ \A o \in Orders : arrived[o][i] = 0
      BY <1>0, <3>1, NothingUnknown
    <3>3. inventory[i][c] = 0
      BY <1>0, <3>2, NothingIsWorthNothing
    <3>4. ASSUME NEW o \in Orders PROVE Premium(i, c)'[o] = 0
      <4>1. Premium(i, c)'[o] = arrived'[o][i] * (Paid(o, i, c)' - Standard(i, c)')
        BY DEF Premium
      <4>2. arrived'[o][i] = 0 /\ Paid(o, i, c)' \in Int
        BY <1>0, <1>1, <3>2, PremiumTyped
      <4>3. Standard(i, c)' \in Int
        BY <1>0 DEF RegisterTypeOK, Standard
      <4>4. Paid(o, i, c)' - Standard(i, c)' \in Int /\ \A a \in Int : 0 * a = 0
        BY <4>2, <4>3
      <4> QED
        BY <4>1, <4>2, <4>4
    <3>5. SumFunction(Premium(i, c)') = 0
      <4>1. SumFunction(Premium(i, c)') = SumFunctionOnSet(Premium(i, c)', Orders)
        BY DEF SumFunction, Premium
      <4> QED
        BY <3>4, <4>1, OrdersAreFinite, SumOfZeros
    <3>6. Standard(i, c)' * (0 + 0) = 0
      <4>1. Standard(i, c)' \in Int
        BY <1>0 DEF RegisterTypeOK, Standard
      <4> QED
        BY <4>1
    <3> QED
      BY <1>1, <3>2, <3>3, <3>5, <3>6 DEF BooksOf
  <2> QED
    BY <2>1, <2>2
<1>5. ASSUME NEW j \in Items, NEW flag, NEW st, NEW k, UpdateItem(j, flag, st, k)
      PROVE  BooksOf(i, c)'
  BY <1>2, <1>5 DEF UpdateItem
<1>6. ASSUME \/ \E v : CreateVendor(v)
             \/ \E p : CreatePlace(p) \/ \E st : UpdatePlace(p, st)
      PROVE  BooksOf(i, c)'
  BY <1>2, <1>3, <1>6 DEF CreateVendor, CreatePlace, UpdatePlace
<1> QED
  BY <1>4, <1>5, <1>6 DEF RegisterStep

LEMMA NextBooks ==
  ASSUME TypedAndLinked, TypedAndLinked', DeskInOrder, BuyingInOrder, EmptyWithoutRow, StockOfKnown,
         FrozenAsIs, BooksFollowStock, [Next]_vars
  PROVE  BooksFollowStock'
<1>0. steady' \subseteq steady /\ steady \subseteq Items
  BY SteadyShrinks DEF TypedAndLinked, TypeOK
<1> SUFFICES ASSUME NEW i \in steady', NEW c \in Currencies PROVE BooksOf(i, c)'
  BY DEF BooksFollowStock, BooksOf
<1>1. i \in steady /\ i \in Items /\ BooksOf(i, c)
  BY <1>0 DEF BooksFollowStock, BooksOf
<1>2. CASE RegisterStep /\ UNCHANGED <<stockVars, equipmentVars, buyingVars, boughtOn>>
  BY <1>1, <1>2, RegisterBooks
<1>3. CASE StockStep /\ UNCHANGED <<register, equipmentVars, buyingVars, boughtOn>>
  <2>1. BooksFollowStock'
    BY <1>0, <1>3, StockStepBooks
  <2> QED
    BY <2>1 DEF BooksFollowStock, BooksOf
<1>4. CASE EquipmentStep /\ UNCHANGED <<register, stockVars, steady, buyingVars, boughtOn>>
  BY <1>1, <1>4, EquipmentBooks
<1>5. CASE BuyingStep /\ UNCHANGED <<register, stockVars, steady, equipmentVars, boughtOn>>
  BY <1>1, <1>5, BuyingBooks
<1>6. ASSUME NEW o \in Orders, NEW p \in Places, NEW goods \in [Items -> 0..MaxOnHand],
             NEW U \in SUBSET Units, ReceiveOrder(o, p, goods, U)
      PROVE  BooksOf(i, c)'
  BY <1>1, <1>6, ReceiptBooks
<1>7. ASSUME NEW k \in Cases, ScrapAsset(k) PROVE BooksOf(i, c)'
  BY <1>1, <1>7, ScrapBooks
<1>8. CASE UNCHANGED vars
  <2>1. /\ UNCHANGED <<cost, unit, arrived, price, currency, inventory, onHand>>
    BY <1>8 DEF vars, register, stockVars, balances, equipmentVars, custody, buyingVars, ordering
  <2> QED
    BY <1>1, <2>1, BooksStay
<1> QED
  BY <1>2, <1>3, <1>4, <1>5, <1>6, <1>7, <1>8 DEF Next

LEMMA InitBooks == Init => BooksFollowStock
<1> SUFFICES ASSUME Init, NEW i \in Items, NEW c \in Currencies PROVE BooksOf(i, c)
  BY DEF BooksFollowStock, BooksOf, Init, StockInit
<1>1. RegisterTypeOK /\ ProcurementTypeOK
  BY InitTyped DEF TypeOK
<1>2. SumFunction(Pieces(i)) = 0
  <2>1. \A p \in Places : Pieces(i)[p] = 0
    BY DEF Init, StockInit, Pieces, Shelves
  <2> QED
    BY <2>1, RegisterIsFinite, SumOfZeros DEF SumFunction, Pieces
<1>3. Cardinality(Living(i)) = 0
  <2>1. Living(i) = {}
    BY DEF Init, EquipmentInit, Living, UnitsOf
  <2> QED
    BY <2>1, FS_EmptySet
<1>4. \A o \in Orders : arrived[o][i] = 0
  BY DEF Init, ProcurementInit, NoLine
<1>5. inventory[i][c] = 0
  BY DEF Init, StockInit
<1> QED
  BY <1>1, <1>2, <1>3, <1>4, <1>5, NothingIsWorthNothing

(* In each currency the inventory account of an item is worth what is on the shelves and in the
   tenant's hands at the cost it leaves at, and what was paid beyond it, whatever is received,
   at whatever price and in whatever currency, moved, used, counted, repaired, replaced and
   scrapped (post_inventory_journal and its callers).  So it is with every item of which what
   it leaves at never changed once it was made, and which nobody adjusted, or counted a
   difference of, in the other currency, whatever was done to other items. *)
THEOREM BooksAlwaysFollowStock == Spec => []BooksFollowStock
<1> DEFINE Inv == /\ TypedAndLinked /\ DeskInOrder /\ BuyingInOrder
                  /\ ReservedIsThere /\ EmptyWithoutRow /\ CountsInOrder
                  /\ StockOfKnown /\ FrozenAsIs /\ BooksFollowStock
<1>1. Init => Inv
  <2>1. Init => ReservedIsThere
    BY DEF Init, StockInit, ReservedIsThere
  <2> QED
    BY <2>1, InitLinked, InitMaps, InitBuying, InitCounts, InitKnown, InitBooks
<1>2. Inv /\ [Next]_vars => Inv'
  <2> SUFFICES ASSUME Inv, [Next]_vars PROVE Inv'
    OBVIOUS
  <2>1. TypedAndLinked'
    BY NextLinked
  <2>2. DeskInOrder' /\ BuyingInOrder' /\ ReservedIsThere'
    BY NextKeepsDesk, NextBuying, NextReserved
  <2>3. EmptyWithoutRow' /\ CountsInOrder'
    BY NextCounts
  <2>4. StockOfKnown' /\ FrozenAsIs'
    BY <2>1, NextKnown
  <2>5. BooksFollowStock'
    BY <2>1, NextBooks
  <2> QED
    BY <2>1, <2>2, <2>3, <2>4, <2>5
<1>3. Inv => BooksFollowStock
  OBVIOUS
<1> QED
  BY <1>1, <1>2, <1>3, PTL DEF Spec
===============================================================================
