----------------------------- MODULE MCTransfers -----------------------------
(* Small instances of Transfers for TLC.                                   *)
EXTENDS Transfers, TLC

Line(received, accepted, returned, writtenOff, damaged) ==
  [received |-> received, accepted |-> accepted, returned |-> returned,
   writtenOff |-> writtenOff, temperature |-> "cold", damaged |-> damaged, reason |-> TRUE]

AllAccepted == Line(2, 2, 0, 0, FALSE)
OneReturned == Line(2, 1, 1, 0, FALSE)
OneLost == Line(2, 1, 0, 1, FALSE)
OneMissing == Line(1, 1, 0, 0, FALSE)
TooManyBack == Line(2, 1, 2, 0, FALSE)
Warm == [AllAccepted EXCEPT !.temperature = "warm"]
NotMeasured == [AllAccepted EXCEPT !.temperature = "none"]

JourneyLines == {OneReturned, OneMissing}
JudgedLines == {AllAccepted, OneLost, Warm, NotMeasured, TooManyBack}

Lax == [variance |-> 1, temperature |-> FALSE]
Tight == [variance |-> 0, temperature |-> TRUE]
OnlyLax == {Lax}
Both == {Lax, Tight}

Symmetry ==
  Permutations(Transfers) \cup Permutations(Receipts) \cup Permutations(People)
    \cup Permutations(Workers)
=============================================================================
