--------------------------- MODULE MCRequisitions ---------------------------
(* A small instance of Requisitions for TLC.                               *)
EXTENDS Requisitions, TLC

\* Nothing else tells the transfers or the workers apart.
Symmetry == Permutations(Transfers) \cup Permutations(Workers)

\* No step and no property goes by what a transfer planned once it has left or
\* is cancelled, by what is still on the road or was kept of it, or by what of
\* a transfer that serves nothing was beyond what was outstanding.
View ==
  <<inUse, requisitions, of, picked, stage, pc, req,
    [t \in Transfers |-> <<TakesUp(t), Within(t)>>]>>
=============================================================================
