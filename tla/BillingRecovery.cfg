\* Three runs of two overlapping periods, by three callers; one first invoice and its case.
SPECIFICATION RecoverySpec
CONSTANTS
  old = old  new = new
  north = north  south = south
  Branches = {north, south}
  Tenant = Tenant
  Services = {old, new}
  BranchOf <- TheBranches
  AnchorDay <- TheAnchors
  ActivatedOn <- TheActivations
  Newcomers = {new}
  Periods <- TwoPeriods
  Keys = {k1, k2, k3}
  NoRun = NoRun
  MayChange <- Changes
  Amount = 2
SYMMETRY Symmetric
INVARIANTS RunsTellTheTruth BilledTwiceOnlyUnseen
PROPERTIES CasesFollowTheDebt
CHECK_DEADLOCK FALSE
