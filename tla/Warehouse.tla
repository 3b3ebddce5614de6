------------------------------ MODULE Warehouse -------------------------------
(***************************************************************************)
(* The warehouses of one tenant: the register, bulk stock, serialized       *)
(* equipment and buying together, with the commands that concern several    *)
(* of them.                                                                 *)
(***************************************************************************)
EXTENDS StockControl, EquipmentCustody, Procurement

ASSUME SettledIsNoUnit == "settled" \notin Units

VARIABLE boughtOn   \* operations_serialized_assets.purchase_order_id

vars == <<register, stockVars, steady, equipmentVars, buyingVars, boughtOn>>

TypeOK ==
  /\ RegisterTypeOK
  /\ StockTypeOK
  /\ EquipmentTypeOK
  /\ ProcurementTypeOK
  /\ boughtOn \in [Units -> Orders \cup {Nowhere}]
  /\ steady \subseteq Items

Init ==
  /\ RegisterInit
  /\ StockInit
  /\ EquipmentInit
  /\ ProcurementInit
  /\ boughtOn = [u \in Units |-> Nowhere]

-----------------------------------------------------------------------------
(* The register *)

CreateVendor(v) ==
  /\ v \notin vendors
  /\ vendors' = vendors \cup {v}
  /\ UNCHANGED <<catalog, serialized, cost, premises, steady>>

CreateItem(i, flag, k) ==
  /\ catalog[i] = "none"
  /\ catalog' = [catalog EXCEPT ![i] = "active"]
  /\ serialized' = [serialized EXCEPT ![i] = flag]
  /\ cost' = [cost EXCEPT ![i] = k]
  /\ UNCHANGED <<premises, vendors, steady>>

UnitsOf(i) == {u \in Units : unit[u] # "none" /\ ModelOf[u] = i}
OrdersFor(i) == {o \in Orders : ordered[o][i] # 0}
NotYetReceived == {o \in Orders : order[o] \in {"draft", "approved"}}

(* Bulk stock does not keep an item from becoming serialized, nor an order
   that has partly arrived from its being retired.  Nothing at all keeps its
   cost, and nothing is revalued. *)
UpdateItem(i, flag, standing, k) ==
  /\ catalog[i] # "none" /\ standing # "none"
  /\ flag # serialized[i] => UnitsOf(i) = {} /\ OrdersFor(i) = {}
  /\ standing = "closed" => OrdersFor(i) \cap NotYetReceived = {}
  /\ catalog' = [catalog EXCEPT ![i] = standing]
  /\ serialized' = [serialized EXCEPT ![i] = flag]
  /\ cost' = [cost EXCEPT ![i] = k]
  /\ steady' = {x \in steady : \A c \in Currencies : Standard(x, c)' = Standard(x, c)}
  /\ UNCHANGED <<premises, vendors>>

CreatePlace(p) ==
  /\ premises[p] = "none"
  /\ p \in Bins => Open(WarehouseOf[p])
  /\ premises' = [premises EXCEPT ![p] = "active"]
  /\ UNCHANGED <<catalog, serialized, cost, vendors, steady>>

(* Equipment keeps a warehouse open and bulk stock does not; nothing keeps a
   bin open. *)
UpdatePlace(p, standing) ==
  /\ Exists(p) /\ standing # "none"
  /\ p \in Warehouses /\ standing = "closed" =>
       /\ \A u \in Units : location[u] = p => unit[u] \notin OnShelf
       /\ \A o \in NotYetReceived : dock[o] # p
  /\ premises' = [premises EXCEPT ![p] = standing]
  /\ UNCHANGED <<catalog, serialized, cost, vendors, steady>>

RegisterStep ==
  \/ \E v \in Vendors : CreateVendor(v)
  \/ \E i \in Items, flag \in BOOLEAN, k \in UnitCosts :
       CreateItem(i, flag, k) \/ \E st \in Standings : UpdateItem(i, flag, st, k)
  \/ \E p \in Places : CreatePlace(p) \/ \E st \in Standings : UpdatePlace(p, st)

-----------------------------------------------------------------------------
(* Commands that change several parts *)

(* Bulk goods go to a bin, or to no bin even of a warehouse that has closed;
   the units in U are entered. *)
ReceiveOrder(o, p, goods, U) ==
  LET taken == [i \in Items |-> IF serialized[i] THEN Cardinality({u \in U : ModelOf[u] = i})
                                                 ELSE goods[i]]
      S == {<<i, p>> : i \in {j \in Items : ~ serialized[j] /\ taken[j] # 0}} IN
  /\ p = dock[o] \/ (Open(p) /\ WarehouseOf[p] = dock[o])
  /\ \A u \in U : unit[u] = "none" /\ serialized[ModelOf[u]]
  /\ \A i \in Items : serialized[i] => goods[i] = 0
  /\ taken # NoLine
  /\ Arrive(o, taken)
  /\ unit' = [u \in Units |-> IF u \in U THEN "in_stock" ELSE unit[u]]
  /\ location' = [u \in Units |-> IF u \in U THEN dock[o] ELSE location[u]]
  /\ boughtOn' = [u \in Units |-> IF u \in U THEN o ELSE boughtOn[u]]
  /\ UNCHANGED reserved
  /\ ApplyDelta(S, [s \in S |-> taken[s[1]]]) /\ Carry(S, [s \in S |-> taken[s[1]]])
  /\ inventory' = [i \in Items |-> [inventory[i] EXCEPT ![currency[o]] = @ + taken[i] * price[o][i]]]
  /\ UNCHANGED <<register, hold, count, frozen, losses, steady, work, underWay, desk>>

ScrapAsset(k) ==
  /\ Scrap(k)
  /\ LET i == ModelOf[device[k]] IN Post(i, Own(i), - cost[i][Own(i)])
  /\ UNCHANGED <<register, balances, hold, count, frozen, missing, losses, trust, steady,
                 buyingVars, boughtOn>>

Next ==
  \/ RegisterStep /\ UNCHANGED <<stockVars, equipmentVars, buyingVars, boughtOn>>
  \/ StockStep /\ UNCHANGED <<register, equipmentVars, buyingVars, boughtOn>>
  \/ EquipmentStep /\ UNCHANGED <<register, stockVars, steady, buyingVars, boughtOn>>
  \/ BuyingStep /\ UNCHANGED <<register, stockVars, steady, equipmentVars, boughtOn>>
  \/ \E o \in Orders, p \in Places, goods \in [Items -> 0..MaxOnHand], U \in SUBSET Units :
       ReceiveOrder(o, p, goods, U)
  \/ \E k \in Cases : ScrapAsset(k)

Spec == Init /\ [][Next]_vars

-----------------------------------------------------------------------------
(* Properties *)

(* What is reserved on a shelf is what live reservations hold there, and it is
   there: a job's materials cannot be moved, used, adjusted or counted away
   (apply_stock_delta, apply_reservation_delta). *)
ReservedIsThere == \A s \in Shelves : reserved[s] <= onHand[s]

Held == [h \in Holds |-> IF hold[h].status = "held" THEN hold[h].quantity ELSE 0]

HoldsAreCovered ==
  /\ ReservedIsThere
  /\ \A s \in Shelves :
       reserved[s] = SumFunctionOnSet(Held, {h \in Holds : hold[h].on = s})

(* The inventory accounts value what the tenant has of an item: what is on hand
   and every unit not scrapped at the cost it will leave at, and what its orders
   paid above or below that for what arrived (post_inventory_journal and its
   callers).  Not of an item whose cost was changed, which revalues nothing, nor
   of one that was adjusted or counted in another currency than it leaves in. *)
Living(i) == {u \in UnitsOf(i) : unit[u] # "scrapped"}
Pieces(i) == [p \in Places |-> onHand[<<i, p>>]]
Paid(o, i, c) == IF c = currency[o] THEN price[o][i] ELSE 0
Premium(i, c) == [o \in Orders |-> arrived[o][i] * (Paid(o, i, c) - Standard(i, c))]

BooksFollowStock ==
  \A i \in steady, c \in Currencies :
    inventory[i][c] = Standard(i, c) * (SumFunction(Pieces(i)) + Cardinality(Living(i)))
                        + SumFunction(Premium(i, c))

(* A count that was made while nothing it covers moved, and by which nothing
   got lost afterwards, leaves on hand what is there, whatever is moved,
   received or used between the counting and the close (close_count). *)
CountsCorrect ==
  [][\A c \in Counts :
       count[c].status = "open" /\ count'[c].status = "closed" /\ trust[c] # "spoiled" =>
         \A i \in Listed(c) : SumFunctionOnSet(missing', Covered(count[c].place, i)) = 0]_vars

(* Of every order no more arrives than was ordered, what is owed is what
   arrived, it is received when all has, its equipment is what arrived of it,
   and an awarded request became one order, at the prices and in the currency of
   the chosen quote (receive_purchase_order, award_quote). *)
OrdersBookedOnce ==
  /\ \A o \in Orders :
       /\ \A i \in Items :
            /\ arrived[o][i] <= ordered[o][i]
            /\ payable[o][i] = arrived[o][i] * price[o][i]
       /\ order[o] = "received" <=> arrived[o] # NoLine /\ arrived[o] = ordered[o]
       /\ order[o] \in {"none", "draft", "approved"} => arrived[o] = NoLine
       /\ \A i \in Items : serialized[i] =>
            Cardinality({u \in UnitsOf(i) : boughtOn[u] = o}) = arrived[o][i]
  /\ \A r \in Requests :
       /\ request[r] = "awarded" <=> orderOf[r] # Nowhere
       /\ request[r] = "awarded" =>
            \E v \in Vendors :
              /\ quote[r][v] = "awarded"
              /\ price[orderOf[r]] = bid[r][v] /\ currency[orderOf[r]] = bidIn[r][v]
              /\ \A x \in Vendors \ {v} : quote[r][x] \in {"none", "rejected"}
       /\ \A x \in Requests \ {r} : orderOf[r] = orderOf[x] => orderOf[r] = Nowhere

(* The repair desk and custody keep to RepairDesk. *)
PlaceOf(st) ==
  CASE st = "none" -> "none" [] st \in OnShelf -> "shelf" [] st \in Out -> "out"
    [] st = "rma" -> "desk" [] st = "scrapped" -> "gone"

Concern(k) ==
  IF repair[k] = "none" THEN Nowhere ELSE IF repair[k] \in AtDesk THEN device[k] ELSE "settled"

Whereabouts == [u \in Units |-> PlaceOf(unit[u])]
Concerns == [k \in Cases |-> Concern(k)]

Desk == INSTANCE RepairDesk WITH
  place <- Whereabouts, about <- Concerns, Unused <- Nowhere, Settled <- "settled"

KeepsCustody == Desk!Spec
===============================================================================
