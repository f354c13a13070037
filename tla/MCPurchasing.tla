----------------------------- MODULE MCPurchasing -----------------------------
(* Instances of Purchasing: an order of two lines, and up to two receipts.   *)
EXTENDS Purchasing, TLC

CONSTANTS l1, l2

Asked(a, b) == [l \in OrderLines |-> IF l = l1 THEN a ELSE b]

\* Of one of each, every delivery below brings too much.
TwoOrOne == {Asked(2, 2), Asked(1, 1)}

Arrival(counted, rejected, state, reason) ==
  [counted |-> counted, rejected |-> rejected, state |-> state, reason |-> reason]

None == Arrival(0, 0, "fine", FALSE)
Two == Arrival(2, 0, "fine", TRUE)
PartBack == Arrival(2, 1, "fine", TRUE)

\* All of the first item, and all of both with half of the first sent back:
\* each is what was ordered until the other has come.
Shipments == {Asked(Two, None), Asked(PartBack, Two)}

\* No limit at all for the second item; half as much again for the first.
HalfOrNothing == {Asked(50, NoLimit), Asked(0, NoLimit)}

Symmetry == Permutations(Receipts) \cup Permutations(Workers) \cup Permutations(People)
=============================================================================
