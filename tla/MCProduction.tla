---------------------------- MODULE MCProduction ----------------------------
(* Small instances of Production for TLC.                                  *)
EXTENDS Production, TLC

\* Chickens of two lots are cut into breast and leg, breast into strips.
MCShelfLife == [chicken |-> 3, breast |-> 2, leg |-> 1, strip |-> 3]

C1 == <<"ob1", "chicken">>
C2 == <<"ob2", "chicken">>

MCOpeningLots == {C1, C2}
MCOpeningCost == C1 :> 4 @@ C2 :> 5
MCOpeningExpiry == C1 :> 2 @@ C2 :> 3

\* Lots sort by document, then by line.
MCNumber ==
  LET documents == <<"ob1", "ob2", "o1", "o2">>
      lines == <<"chicken", "breast", "leg", "strip">>
      At(seq, x) == CHOOSE i \in DOMAIN seq : seq[i] = x
  IN [l \in MCOpeningLots \cup {"o1", "o2"} \X DOMAIN MCShelfLife |->
        10 * At(documents, l[1]) + At(lines, l[2])]

One(item) == <<[item |-> item, quantity |-> 1]>>

MCRecipes ==
  [cut |-> {[inputs |-> One("chicken"), outputs |-> [breast |-> 2, leg |-> 1]],
            [inputs |-> One("chicken"), outputs |-> [breast |-> 3]]},
   slice |-> {[inputs |-> One("breast"), outputs |-> [strip |-> 3]]}]

Stocked == C1 :> 1 @@ C2 :> 1
Empty == C1 :> 0 @@ C2 :> 0

\* A plant without stock where cutting gets its versions, and one with stock
\* on the last day, where BOMs no longer change.
MCBeginnings ==
  LET From(day, r) == [from |-> day, recipe |-> r]
      whole == CHOOSE r \in MCRecipes["cut"] : "leg" \notin DOMAIN r.outputs
      parts == CHOOSE r \in MCRecipes["cut"] : "leg" \in DOMAIN r.outputs
      slice == CHOOSE r \in MCRecipes["slice"] : TRUE
  IN {[today |-> 1, held |-> Empty, versions |-> [cut |-> <<>>, slice |-> <<>>]],
      [today |-> 2, held |-> Stocked,
       versions |-> [cut |-> <<From(1, whole), From(2, parts)>>, slice |-> <<From(1, slice)>>]]}

MCMaxVersions == [cut |-> 2, slice |-> 0]

=============================================================================
