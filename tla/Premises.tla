------------------------------- MODULE Premises -------------------------------
(***************************************************************************)
(* The register of a tenant's catalog, warehouses, bins and vendors, which  *)
(* warehouse commands read.  Stock that is in no bin is at the warehouse    *)
(* itself, so a place is a warehouse or a bin.  Names, branches and the     *)
(* primary warehouse decide nothing here and are left out.  A catalog item  *)
(* has a cost in each currency, which may be 0 and may change at any time.  *)
(***************************************************************************)
EXTENDS Integers, FiniteSets, Functions

CONSTANTS
  Items, Warehouses, Bins, Vendors,
  WarehouseOf,    \* of every place
  UnitCosts,      \* what an item may be given to cost, in each currency
  Nowhere

Currencies == {"USD", "LBP"}
Places == Warehouses \cup Bins
Shelves == Items \X Places

ASSUME RegisterIsFinite == IsFiniteSet(Items) /\ IsFiniteSet(Places)
ASSUME PlacesAreDistinct == Warehouses \cap Bins = {}
ASSUME PlacesAreInWarehouses ==
  /\ WarehouseOf \in [Places -> Warehouses]
  /\ \A w \in Warehouses : WarehouseOf[w] = w
ASSUME CostsAreNatural == UnitCosts \subseteq [Currencies -> Nat]
ASSUME NowhereIsNoPlace == Nowhere \notin Places \cup Shelves

VARIABLES
  catalog,     \* operations_inventory_items.active
  serialized,  \* .serialized_flag
  cost,        \* .unit_cost_minor_usd, .unit_cost_minor_lbp
  premises,    \* operations_warehouses.active, operations_warehouse_bins.active
  vendors      \* operations_procurement_vendors, which nothing deactivates

register == <<catalog, serialized, cost, premises, vendors>>

Standings == {"none", "active", "closed"}

RegisterTypeOK ==
  /\ catalog \in [Items -> Standings]
  /\ serialized \in [Items -> BOOLEAN]
  /\ cost \in [Items -> [Currencies -> Nat]]
  /\ premises \in [Places -> Standings]
  /\ vendors \in SUBSET Vendors

RegisterInit ==
  /\ catalog = [i \in Items |-> "none"]
  /\ serialized = [i \in Items |-> TRUE]
  /\ cost = [i \in Items |-> [c \in Currencies |-> 0]]
  /\ premises = [p \in Places |-> "none"]
  /\ vendors = {}

Known(i) == catalog[i] # "none"
Exists(p) == premises[p] # "none"
Open(p) == premises[p] = "active"

(* What leaves is valued in dollars if the item has a cost in dollars. *)
Own(i) == IF cost[i]["USD"] > 0 THEN "USD" ELSE "LBP"
Standard(i, c) == IF c = Own(i) THEN cost[i][c] ELSE 0

(* A place goods may be moved to. *)
Usable(p) == Open(p) /\ Open(WarehouseOf[p])
===============================================================================
