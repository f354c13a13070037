SPECIFICATION BranchSpec
CONSTANTS
  l1 = l1
  l2 = l2
  l3 = l3
  Lots = {l1, l2, l3}
  Placeholder = PH
  Number <- MCNumber
  Expiry <- MCExpiry
  Held = {l1}
  Consumers = {c1, c2}
  Needs = {1, 2}
  LastDate = 2
  MaxArrivals = 3
  MaxSales = 2
  NoTxn = NoTxn
  NoLot = NoLot
SYMMETRY Symmetry
CHECK_DEADLOCK FALSE
INVARIANTS PlanIsFefo
PROPERTIES KnownLotsAreTold
