---------------------------- MODULE SaleLifecycle ----------------------------
(***************************************************************************)
(* What the company is promised about one POS sale (ADR-0030): it is known *)
(* once, may be held for a person when it comes in, may fail and be tried  *)
(* again as often as people ask, and takes stock once.                     *)
(***************************************************************************)
EXTENDS Naturals

CONSTANT Events  \* idempotency keys

VARIABLES
  life,   \* where the sale stands
  taken   \* how many times its ingredients were taken from stock

vars == <<life, taken>>

Init ==
  /\ life = [e \in Events |-> "unknown"]
  /\ taken = [e \in Events |-> 0]

Become(e, from, to) == life[e] \in from /\ life' = [life EXCEPT ![e] = to]

Receive(e) == Become(e, {"unknown"}, "received") /\ UNCHANGED taken

Hold(e) == Become(e, {"received"}, "held") /\ UNCHANGED taken

Fail(e) == Become(e, {"received", "asked"}, "failed") /\ UNCHANGED taken

Ask(e) == Become(e, {"held", "failed"}, "asked") /\ UNCHANGED taken

Consume(e) ==
  /\ Become(e, {"received", "asked"}, "consumed")
  /\ taken' = [taken EXCEPT ![e] = @ + 1]

Next == \E e \in Events : Receive(e) \/ Hold(e) \/ Fail(e) \/ Ask(e) \/ Consume(e)

Spec == Init /\ [][Next]_vars
=============================================================================
