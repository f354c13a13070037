--------------------------- MODULE TransferJourney ---------------------------
(***************************************************************************)
(* What the company is promised about the stock of one transfer            *)
(* (ADR-0007, ADR-0028): it leaves its origin once, whole, and comes out   *)
(* of transit once, whole: either received, every quantity accepted,       *)
(* returned or written off, or turned back to the origin by a reversal.    *)
(***************************************************************************)
EXTENDS Naturals

CONSTANTS Transfers, Quantities

VARIABLES
  stage,  \* where the transfer stands
  left,   \* what left the origin with it, net of what came back
  road,   \* what of it is in transit
  kept    \* what of it the destination has

vars == <<stage, left, road, kept>>

Init ==
  /\ stage = [t \in Transfers |-> "planned"]
  /\ left = [t \in Transfers |-> 0]
  /\ road = [t \in Transfers |-> 0]
  /\ kept = [t \in Transfers |-> 0]

Become(t, from, to) == stage[t] = from /\ stage' = [stage EXCEPT ![t] = to]

Cancel(t) == Become(t, "planned", "cancelled") /\ UNCHANGED <<left, road, kept>>

Dispatch(t) ==
  /\ Become(t, "planned", "dispatched")
  /\ \E q \in Quantities :
       left' = [left EXCEPT ![t] = q] /\ road' = [road EXCEPT ![t] = q]
  /\ UNCHANGED kept

\* Nothing stays in transit; what is neither kept nor returned is lost, which
\* is what left less what was kept.
Receive(t) ==
  /\ Become(t, "dispatched", "received")
  /\ \E accepted, returned \in 0 .. road[t] :
       /\ accepted + returned <= road[t]
       /\ kept' = [kept EXCEPT ![t] = accepted]
       /\ left' = [left EXCEPT ![t] = @ - returned]
  /\ road' = [road EXCEPT ![t] = 0]

TurnBack(t) ==
  /\ Become(t, "dispatched", "reversed")
  /\ left' = [left EXCEPT ![t] = 0]
  /\ road' = [road EXCEPT ![t] = 0]
  /\ UNCHANGED kept

Next == \E t \in Transfers : Cancel(t) \/ Dispatch(t) \/ Receive(t) \/ TurnBack(t)

Spec == Init /\ [][Next]_vars
=============================================================================
