----------------------------- MODULE MCWarehouse ------------------------------
(* Small instances of Warehouse for TLC. *)
EXTENDS Warehouse, TLC

CONSTANTS cable, cpe, w1, b1

TheItems == {cable, cpe}
BinInFirst == [p \in Places |-> w1]
InDollars == [c \in Currencies |-> IF c = "USD" THEN 1 ELSE 0]
InPounds == [c \in Currencies |-> IF c = "USD" THEN 0 ELSE 2]
Either == {InDollars, InPounds}
AllRouters == [u \in Units |-> cpe]

Alike == Permutations(Units)

-----------------------------------------------------------------------------
(* What is explored: any one concern at a time, on premises that an
   administrator set up one entry after the other, or anything small while the
   register or its costs change.  Cables cost dollars and routers pounds, all
   else is in dollars, except where costs are the concern.  What is numbered is
   used in order. *)

SettingUp ==
  LET done == <<catalog[cable], catalog[cpe], premises[w1], premises[b1]>> IN
  /\ ~ serialized[cable] \/ catalog[cable] = "none"
  /\ serialized[cpe]
  /\ \A n \in 1..4 : done[n] # "closed"
  /\ \A n \in 1..3 : done[n + 1] # "none" => done[n] = "active"
  /\ vendors # {} => premises[b1] = "active"

InOrder(N, Used(_)) == \A n \in N : Used(n) => \A m \in N : m < n => Used(m)
Orderly ==
  /\ InOrder(Holds, LAMBDA h : hold[h].status # "none")
  /\ InOrder(Counts, LAMBDA c : count[c].status # "none")
  /\ InOrder(Cases, LAMBDA k : repair[k] # "none")
  /\ InOrder(Requests, LAMBDA r : request[r] # "none")
  /\ InOrder(Vendors, LAMBDA v : v \in vendors)

NoHolding == \A h \in Holds : hold[h].status = "none"
NoCounting == \A c \in Counts : count[c].status = "none"
NoBulk == rows = {}
NoRequests == \A r \in Requests : request[r] = "none"
NoOrders == \A o \in Orders : order[o] = "none"
NoUnits == \A u \in Units : unit[u] = "none"
NoCases == \A k \in Cases : repair[k] = "none"
NothingArrived == \A o \in Orders : order[o] \in {"none", "draft"}
NothingOut == underWay = {} /\ \A u \in Units : unit[u] \in {"none", "in_stock"}
NoWork == NoBulk /\ NoCounting /\ NoRequests /\ NoOrders /\ NoUnits /\ underWay = {}
Priced ==
  /\ steady = Items
  /\ \A i \in Items : Known(i) => cost[i] = IF i = cable THEN InDollars ELSE InPounds
AllInDollars ==
  /\ \A c \in Counts : frozen[c].currency = "USD"
  /\ \A o \in Orders : currency[o] = "USD"
  /\ \A r \in Requests, v \in Vendors : bidIn[r][v] = "USD"

Ready == SettingUp /\ vendors = Vendors /\ \A p \in Places : <<cpe, p>> \notin rows

Stocking == Ready /\ NoRequests /\ NoOrders /\ underWay = {}
Holding == Stocking /\ NoCounting
Few == SumFunction(onHand) <= 2
Counting == Stocking /\ NoHolding /\ count[2].status = "none" /\ Few
Overlapping == /\ Stocking /\ NoHolding /\ losses = 0 /\ SumFunction(onHand) <= 1
               /\ \A c \in Counts : count[c].status # "cancelled" /\ \A i \in Items : count[c].found[i] <= 1
Mixing == /\ Stocking /\ losses = 0 /\ Few
          /\ hold[2].status = "none" /\ count[2].status = "none" /\ count[1].status # "cancelled"

Buying == Ready /\ NoHolding /\ NoCounting /\ NoCases /\ NothingOut /\ losses = 0
SecondUnpriced == \A v \in Vendors : quote[2][v] = "none"
Awarded == \A o \in Orders : order[o] # "none" => \E r \in Requests : orderOf[r] = o
Quoting == Buying /\ NoBulk /\ NothingArrived /\ SecondUnpriced /\ Awarded
Receiving == Buying /\ NoRequests
Awarding == /\ Buying /\ request[2] = "none" /\ quote[1][2] = "none" /\ Awarded
            /\ \A i \in Items : bid[1][1][i] # 1
            /\ NoOrders => NoBulk

Repairing == /\ Ready /\ NoBulk /\ NoCounting /\ NoRequests
             /\ \A o \in Orders : ordered[o][cable] = 0 /\ price[o][cpe] <= 1

Administering == /\ NoCounting /\ NoHolding /\ NoCases /\ NoRequests /\ losses = 0 /\ 2 \notin vendors
                 /\ NoBulk \/ NoOrders
                 /\ serialized[cpe]
                 /\ \A u, v \in Units : unit[u] # "none" /\ unit[v] # "none" => u = v
                 /\ SumFunction(onHand) <= 1
                 /\ \A o \in Orders : Cardinality(LinesOf(ordered[o])) <= 1 /\ \A i \in Items : price[o][i] <= 1

Costing ==
  /\ Ready /\ NoRequests /\ NoCases /\ NoUnits /\ underWay = {} /\ losses = 0
  /\ cost[cpe] = InPounds /\ cpe \in steady
  /\ hold[2].status = "none" /\ count[2].status = "none" /\ SumFunction(onHand) <= 1
  /\ NoHolding \/ NoCounting
  /\ NoOrders \/ (NoHolding /\ NoCounting)
  /\ cable \in steady \/ (NoOrders /\ NoCounting /\ \A c \in Currencies : inventory[cable][c] \in -2..2)

OneConcern ==
  /\ Orderly
  /\ \/ /\ Priced /\ AllInDollars
        /\ \/ SettingUp /\ NoWork
           \/ Holding \/ Counting \/ Overlapping \/ Mixing
           \/ Quoting \/ Receiving \/ Awarding \/ Repairing \/ Administering
     \/ Costing
===============================================================================
