SPECIFICATION Spec
CONSTANTS
  Transfers = {t1}
  Receipts = {r1}
  People = {p1, p2, p3}
  Workers = {w1, w2}
  Quantities = {2}
  Lines <- JudgedLines
  Tolerances <- Both
  Opening = 2
  Expiry = 1
  LastDay = 1
  MaxRevision = 2
  MaxCrashes = 0
  MasterData = TRUE
  NoTransfer = NoTransfer
  NoReceipt = NoReceipt
  NoWorker = NoWorker
  Nobody = Nobody
SYMMETRY Symmetry
CHECK_DEADLOCK FALSE
INVARIANTS LossIsApproved
PROPERTIES ApprovedAsSeen
