---------------------------- MODULE OrderReceiving ----------------------------
(***************************************************************************)
(* What purchasing is promised about one purchase order (ADR-0007 and the  *)
(* comments of purchase-order-rules.ts): goods come in against it only     *)
(* once it is approved; what has been accepted of a line only grows; an    *)
(* order is closed for good by being rejected or cancelled, which happens  *)
(* only before anything was accepted, or by being received, which happens  *)
(* only when every line has come, less what its tolerance forgives.        *)
(***************************************************************************)
EXTENDS Naturals

CONSTANT OrderLines

VARIABLES
  stage,  \* where the order stands
  stock,  \* what stock has of each line
  least   \* the least that completes each line, in hundredths

vars == <<stage, stock, least>>

Init == stage = "asked" /\ stock = [l \in OrderLines |-> 0]

\* The lines are changed until they are agreed on, and never again.
Ask == stage = "asked" /\ UNCHANGED <<stage, stock>>

Agree == stage = "asked" /\ stage' = "open" /\ UNCHANGED <<stock, least>>

Close ==
  /\ stage \in {"asked", "open"} /\ \A l \in OrderLines : stock[l] = 0
  /\ stage' = "closed"
  /\ UNCHANGED <<stock, least>>

\* Nothing accepted leaves the order as it was.
Receive ==
  /\ stage \in {"open", "receiving"}
  /\ stock' \in [OrderLines -> Nat]
  /\ \A l \in OrderLines : stock'[l] >= stock[l]
  /\ \/ stage' = "complete" /\ \A l \in OrderLines : stock'[l] * 100 >= least[l]
     \/ stage' = "receiving" /\ \E l \in OrderLines : stock'[l] > 0
  /\ UNCHANGED least

Next == Ask \/ Agree \/ Close \/ Receive

Spec == Init /\ [][Next]_vars
=============================================================================
