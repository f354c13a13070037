SPECIFICATION Spec
CONSTANTS
  Transfers = {t1, t2}
  Receipts = {r1, r2}
  People = {p1}
  Workers = {w1, w2}
  Quantities = {2}
  Lines <- JourneyLines
  Tolerances <- OnlyLax
  Opening = 3
  Expiry = 2
  LastDay = 2
  MaxRevision = 1
  MaxCrashes = 1
  MasterData = FALSE
  NoTransfer = NoTransfer
  NoReceipt = NoReceipt
  NoWorker = NoWorker
  Nobody = Nobody
SYMMETRY Symmetry
CHECK_DEADLOCK FALSE
INVARIANTS TypeOK InTransitIsOwned OneReceiptPosts
PROPERTIES ImplementsTransferJourney
