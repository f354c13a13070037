------------------------------ MODULE MCPosting ------------------------------
(* Small instances of Posting for TLC.                                     *)
EXTENDS Posting, TLC

\* One lot at three places, in lock order: the plant, in transit, a branch.
MCKeys == {"plant", "transit", "branch"}
MCRank == [k \in MCKeys |-> CASE k = "plant" -> 1 [] k = "transit" -> 2 [] k = "branch" -> 3]
MCStrict == {"plant", "transit"}

Net(p, i, b) == [k \in MCKeys |->
  CASE k = "plant" -> p [] k = "transit" -> i [] k = "branch" -> b]

\* A goods receipt of one unit and the dispatch of one unit or two: with two
\* units at the plant, two dispatches insert the same in-transit row, or ask
\* for more than there is.
PlantMovements == {Net(1, 0, 0), Net(-1, 1, 0), Net(-2, 2, 0)}
TwoAtPlant == Net(2, 0, 0)
Empty == Net(0, 0, 0)

\* Two branches' worth of the same lot, none of it there before: documents
\* that insert both rows, and documents that insert the second.
BranchArrivals == {Net(1, 0, 1), Net(0, 0, 1)}

NoMoves == {}
Releases == {<<"draft", "released">>, <<"released", "cancelled">>}

Symmetry == Permutations(Txns) \cup Permutations(Documents) \cup Permutations(Reversals)
=============================================================================
