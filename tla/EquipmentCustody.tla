--------------------------- MODULE EquipmentCustody ---------------------------
(***************************************************************************)
(* Serialized equipment: where every unit is, for which field work it is    *)
(* out, and the repair cases it goes through.  A unit stands for its serial *)
(* number, which is entered at most once.  Who is custodian follows from    *)
(* the field work.  A command names the version it read, so it is one step. *)
(***************************************************************************)
EXTENDS Premises

CONSTANTS
  Units,    \* serial numbers
  ModelOf,  \* the item a unit is entered as
  Cases,    \* bounds how many repair cases are ever opened
  FieldJobs \* installations

ASSUME UnitsAreFinite == IsFiniteSet(Units)
ASSUME UnitsHaveModels == ModelOf \in [Units -> Items]
ASSUME NowhereIsNotOurs == Nowhere \notin Units \cup FieldJobs

VARIABLES
  unit,        \* operations_serialized_assets.status
  location,    \* .warehouse_id
  work,        \* .current_installation_id
  underWay,    \* installations that are scheduled, in progress or ready
  repair,      \* operations_rma_cases.status
  device,      \* .asset_id
  depot,       \* .warehouse_id
  shippable,   \* the cases that name a vendor
  replacement  \* .replacement_asset_id

custody == <<unit, location, work>>
desk == <<repair, device, depot, shippable, replacement>>
equipmentVars == <<custody, underWay, desk>>

EquipmentTypeOK ==
  /\ unit \in [Units -> {"none", "in_stock", "issued", "installed", "returned", "rma", "scrapped"}]
  /\ location \in [Units -> Warehouses \cup {Nowhere}]
  /\ work \in [Units -> FieldJobs \cup {Nowhere}]
  /\ underWay \in SUBSET FieldJobs
  /\ repair \in [Cases ->
       {"none", "open", "sent_to_vendor", "repaired", "replaced", "scrapped", "closed"}]
  /\ device \in [Cases -> Units \cup {Nowhere}]
  /\ depot \in [Cases -> Warehouses \cup {Nowhere}]
  /\ shippable \in SUBSET Cases
  /\ replacement \in [Cases -> Units \cup {Nowhere}]

EquipmentInit ==
  /\ unit = [u \in Units |-> "none"]
  /\ location = [u \in Units |-> Nowhere]
  /\ work = [u \in Units |-> Nowhere]
  /\ underWay = {}
  /\ repair = [k \in Cases |-> "none"]
  /\ device = [k \in Cases |-> Nowhere]
  /\ depot = [k \in Cases |-> Nowhere]
  /\ shippable = {}
  /\ replacement = [k \in Cases |-> Nowhere]

OnShelf == {"in_stock", "returned"}
Out == {"issued", "installed"}

-----------------------------------------------------------------------------
(* Custody *)

(* Field work starts, ends or is cancelled, whoever has equipment for it. *)
FieldWork(j) ==
  /\ underWay' = IF j \in underWay THEN underWay \ {j} ELSE underWay \cup {j}
  /\ UNCHANGED <<custody, desk>>

Issue(u, j) ==
  /\ unit[u] \in OnShelf
  /\ j \in underWay
  /\ unit' = [unit EXCEPT ![u] = "issued"]
  /\ location' = [location EXCEPT ![u] = Nowhere]
  /\ work' = [work EXCEPT ![u] = j]
  /\ UNCHANGED <<underWay, desk>>

Install(u) ==
  /\ unit[u] = "issued" /\ work[u] # Nowhere
  /\ unit' = [unit EXCEPT ![u] = "installed"]
  /\ UNCHANGED <<location, work, underWay, desk>>

Return(u, w) ==
  /\ unit[u] \in Out
  /\ Open(w)
  /\ unit' = [unit EXCEPT ![u] = "returned"]
  /\ location' = [location EXCEPT ![u] = w]
  /\ work' = [work EXCEPT ![u] = Nowhere]
  /\ UNCHANGED <<underWay, desk>>

(* No case is opened, and none can be opened any more. *)
SetAside(u) ==
  /\ unit[u] = "returned"
  /\ unit' = [unit EXCEPT ![u] = "rma"]
  /\ UNCHANGED <<location, work, underWay, desk>>

-----------------------------------------------------------------------------
(* Repair cases *)

AtDesk == {"open", "sent_to_vendor"}
Unclosed == {"open", "sent_to_vendor", "repaired", "replaced"}

(* Variant: a case that is not closed yet does not count. *)
OpenSecondCase(k, u, withVendor) ==
  /\ repair[k] = "none" /\ (withVendor => vendors # {})
  /\ unit[u] \in OnShelf \cup {"rma"} /\ location[u] # Nowhere
  /\ repair' = [repair EXCEPT ![k] = "open"]
  /\ device' = [device EXCEPT ![k] = u]
  /\ depot' = [depot EXCEPT ![k] = location[u]]
  /\ shippable' = IF withVendor THEN shippable \cup {k} ELSE shippable
  /\ unit' = [unit EXCEPT ![u] = "rma"]
  /\ UNCHANGED <<location, work, underWay, replacement>>

OpenCase(k, u, withVendor) ==
  /\ repair[k] = "none" /\ (withVendor => vendors # {})
  /\ unit[u] \in OnShelf /\ location[u] # Nowhere
  /\ \A c \in Cases : repair[c] \in Unclosed => device[c] # u
  /\ repair' = [repair EXCEPT ![k] = "open"]
  /\ device' = [device EXCEPT ![k] = u]
  /\ depot' = [depot EXCEPT ![k] = location[u]]
  /\ shippable' = IF withVendor THEN shippable \cup {k} ELSE shippable
  /\ unit' = [unit EXCEPT ![u] = "rma"]
  /\ UNCHANGED <<location, work, underWay, replacement>>

SendToVendor(k) ==
  /\ repair[k] = "open" /\ k \in shippable
  /\ repair' = [repair EXCEPT ![k] = "sent_to_vendor"]
  /\ UNCHANGED <<custody, underWay, device, depot, shippable, replacement>>

(* What the device is at that moment is not looked at. *)
ReceiveRepaired(k) ==
  /\ repair[k] = "sent_to_vendor"
  /\ repair' = [repair EXCEPT ![k] = "repaired"]
  /\ unit' = [unit EXCEPT ![device[k]] = "in_stock"]
  /\ location' = [location EXCEPT ![device[k]] = depot[k]]
  /\ UNCHANGED <<work, underWay, device, depot, shippable, replacement>>

(* Another unit of the same model, in stock where the device was. *)
ReceiveReplacement(k, u) ==
  /\ repair[k] = "sent_to_vendor"
  /\ unit[u] = "none" /\ ModelOf[u] = ModelOf[device[k]]
  /\ repair' = [repair EXCEPT ![k] = "replaced"]
  /\ replacement' = [replacement EXCEPT ![k] = u]
  /\ unit' = [x \in Units |-> IF x = u THEN "in_stock"
                              ELSE IF x = device[k] THEN "scrapped" ELSE unit[x]]
  /\ location' = [location EXCEPT ![u] = depot[k]]
  /\ UNCHANGED <<work, underWay, device, depot, shippable>>

(* The value of the device is written off with it: see ScrapAsset. *)
Scrap(k) ==
  /\ repair[k] \in AtDesk
  /\ repair' = [repair EXCEPT ![k] = "scrapped"]
  /\ unit' = [unit EXCEPT ![device[k]] = "scrapped"]
  /\ UNCHANGED <<location, work, underWay, device, depot, shippable, replacement>>

CloseCase(k) ==
  /\ repair[k] \in {"repaired", "replaced", "scrapped"}
  /\ repair' = [repair EXCEPT ![k] = "closed"]
  /\ UNCHANGED <<custody, underWay, device, depot, shippable, replacement>>

EquipmentStep ==
  \/ \E j \in FieldJobs : FieldWork(j) \/ \E u \in Units : Issue(u, j)
  \/ \E u \in Units :
       \/ Install(u)
       \/ \E w \in Warehouses : Return(u, w)
       \/ SetAside(u)
       \/ \E k \in Cases, withVendor \in BOOLEAN : OpenCase(k, u, withVendor)
  \/ \E k \in Cases :
       \/ SendToVendor(k)
       \/ ReceiveRepaired(k)
       \/ \E u \in Units : ReceiveReplacement(k, u)
       \/ CloseCase(k)
===============================================================================
