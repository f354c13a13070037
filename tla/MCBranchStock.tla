---------------------------- MODULE MCBranchStock ----------------------------
(* Small instances of BranchStock for TLC.                                 *)
EXTENDS BranchStock, TLC

CONSTANTS l1, l2, l3

\* Two lots expire on the same day, a third lasts.
MCNumber == (l1 :> 2) @@ (l2 :> 1) @@ (l3 :> 3)
MCExpiry == (l1 :> 1) @@ (l2 :> 1) @@ (l3 :> 2)

Symmetry == Permutations(Consumers)
=============================================================================
