SPECIFICATION Spec
CONSTANTS
  OrderLines = {l1, l2}
  l1 = l1
  l2 = l2
  Receipts = {r1, r2}
  People = {p1, p2}
  Workers = {w1, w2}
  Orderings <- TwoOrOne
  Deliveries <- Shipments
  Variances <- HalfOrNothing
  Thresholds = {3, 4}
  MaxRevision = 2
  MaxEvents = 1
  NoLimit = NoLimit
  NoReceipt = NoReceipt
  NoWorker = NoWorker
  Nobody = Nobody
SYMMETRY Symmetry
CHECK_DEADLOCK FALSE
INVARIANTS NeverOverReceived BooksAgree NothingBoughtUnapproved FindingsApproved
PROPERTIES CleanWhenPosted SubmittedAsSeen ImplementsOrderReceiving
