SPECIFICATION Spec
CONSTANTS
  Requisitions = {q1}
  Transfers = {t1, t2}
  Workers = {w1, w2}
  Quantities = {1, 2}
  MaxRevision = 2
  NoRequisition = NoRequisition
SYMMETRY Symmetry
VIEW View
INVARIANTS NothingSentTwice CancelledIsUnserved
CHECK_DEADLOCK FALSE
