SPECIFICATION Spec
CONSTANTS
  cable = cable  cpe = cpe  w1 = w1   b1 = b1
  Items <- TheItems
  Warehouses = {w1}
  Bins = {b1}
  Vendors = {1, 2}
  WarehouseOf <- BinInFirst
  UnitCosts <- Either
  Nowhere = Nowhere
  Holds = {1, 2}
  Counts = {1, 2}
  MaxQuantity = 2
  MaxOnHand = 2
  MaxLosses = 1
  Units = {u1, u2, u3}
  ModelOf <- AllRouters
  Cases = {1, 2}
  FieldJobs = {j1}
  Requests = {1, 2}
  Orders = {o1}
  Sizes = {2}
  Prices = {1, 3}
INVARIANTS HoldsAreCovered BooksFollowStock OrdersBookedOnce
PROPERTIES CountsCorrect KeepsCustody
CONSTRAINT OneConcern
SYMMETRY Alike
CHECK_DEADLOCK FALSE
