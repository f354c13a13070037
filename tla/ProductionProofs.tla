-------------------------- MODULE ProductionProofs --------------------------
(***************************************************************************)
(* Proofs about module Production, for any recipes, any number of orders   *)
(* and workers, any lots, days and quantities.                             *)
(***************************************************************************)
EXTENDS Production, SumTheorems, SequenceTheorems

AnyRecipe == UNION {Recipes[b] : b \in Boms}

Version == [from : Days, recipe : AnyRecipe]

\* Functions from some of the items.
OfItems(V) == UNION {[S -> V] : S \in SUBSET Items}

OrderRecords ==
  [status : {"none", "draft", "released", "cancelled", "posted", "reversed"},
   revision : Nat, date : Nat, bom : Boms \cup {NoBom}, version : Nat, planned : Nat,
   inputs : Seq([item : Items, quantity : Int]), ratios : OfItems(Nat \ {0}),
   picks : [Lots -> Nat], actual : OfItems(Nat), rounding : Int]

Asked ==
  [kind : {"none", "plan", "add", "correct"}, day : Nat, order : Orders \cup {NoOrder},
   revision : Nat, bom : Boms \cup {NoBom}, version : Nat, date : Nat, planned : Nat,
   recipe : AnyRecipe \cup {<<>>}]

Types ==
  /\ today \in Nat
  /\ versions \in [Boms -> Seq(Version)]
  /\ order \in [Orders -> OrderRecords]
  /\ cost \in [Lots -> Int] /\ expiry \in [Lots -> Nat] /\ held \in [Lots -> Nat]
  /\ rows \in SUBSET Lots
  /\ pc \in [Workers -> {"idle", "write"}]
  /\ req \in [Workers -> Asked]
  /\ carried \in Int

\* An order that has posted, reversed since or not.
HasPosted(o) == order[o].status \in {"posted", "reversed"}

\* What was asked, and, while its day lasts, what was read of the BOM is still
\* so: nobody adds a version to a day that has one, or corrects one that has
\* begun.
RequestInv(w) ==
  LET r == req[w] IN
  pc[w] = "write" =>
    /\ r.day <= today /\ r.bom \in Boms /\ r.recipe \in Recipes[r.bom]
    /\ r.kind = "plan" => r.order \in Orders
    /\ r.kind = "add" => r.date \in Days
    /\ r.kind = "correct" => r.version \in DOMAIN versions[r.bom]
    /\ r.kind = "plan" /\ r.day = today /\ r.date <= today /\ r.bom \notin overnight =>
         /\ r.version = InEffect(versions[r.bom], r.date)
         /\ r.version \in DOMAIN versions[r.bom]
         /\ r.recipe = versions[r.bom][r.version].recipe

PlanInv(o) ==
  LET b == order[o].bom IN
  order[o].status # "none" =>
    /\ order[o].date <= today /\ b \in Boms
    /\ SumFunction(order[o].ratios) = RatioTotal
    /\ {o, b} \cap overnight = {} =>
         /\ order[o].version = InEffect(versions[b], order[o].date)
         /\ order[o].version \in DOMAIN versions[b]
         /\ order[o].ratios = versions[b][order[o].version].recipe.outputs
         /\ order[o].inputs = PlannedInputs(versions[b][order[o].version].recipe, order[o].planned)

VersionInv ==
  /\ \A b \in Boms : \A n \in DOMAIN versions[b] : versions[b][n].recipe \in Recipes[b]
  /\ \A w \in Workers : RequestInv(w)
  /\ \A o \in Orders : PlanInv(o)

\* Lots have a row once they are held; an order's lots have one once it has
\* posted, and only then; what an order takes has a row.
RowsInv ==
  /\ \A l \in Lots : held[l] > 0 => l \in rows
  /\ \A l \in rows \cap OutputLots : HasPosted(l[1])
  /\ \A o \in Orders : \A l \in Lots : order[o].picks[l] > 0 => l \in rows
  /\ \A o \in Orders : HasPosted(o) => DOMAIN order[o].actual = DOMAIN order[o].ratios

\* Each link is of an order that has posted, and says what it took.
LinksInv ==
  \A g \in genealogy :
    /\ g.order \in Orders /\ HasPosted(g.order)
    /\ g.output \in Outputs(g.order)
    /\ g.input \in Lots /\ order[g.order].picks[g.input] > 0

\* What an order that stands moves, and what they move together.
MovedBy(o) == [l \in Lots |-> IF Standing(o) THEN Entries(o)[l] ELSE 0]

Net(l) == SumFunctionOnSet([o \in Orders |-> MovedBy(o)[l]], Orders)

\* A lot that nobody brought stock into holds no more than the orders that
\* stand left of it.
NetInv == \A l \in OutputLots \ raised : held[l] <= Net(l)

\* What an order moved is worth as much as its rounding, at today's costs.
WorthInv ==
  \A o \in Orders : HasPosted(o) =>
    RatioTotal * SumFunctionOnSet([l \in Lots |-> Entries(o)[l] * cost[l]], Lots)
      + order[o].rounding = 0

Inv ==
  /\ Types /\ VersionInv /\ RowsInv /\ LinksInv
  /\ NothingOutlivesItsInputs /\ NetInv /\ WorthInv /\ ValueConserved

------------------------------------------------------------------------------
(* The operators *)

LEMMA Finite ==
  IsFiniteSet(Orders) /\ IsFiniteSet(Items) /\ IsFiniteSet(Lots) /\ IsFiniteSet(OutputLots)
BY ProductionAssumption, FS_Product, FS_Union DEF Lots, OutputLots

LEMMA Rounds == \A a \in Int, b \in Nat \ {0} : RoundHalfUp(a, b) \in Int
<1>. SUFFICES ASSUME NEW a \in Int, NEW b \in Nat \ {0} PROVE RoundHalfUp(a, b) \in Int
  OBVIOUS
<1>1. 2 * a + b \in Int /\ 2 * b \in Int /\ 2 * b > 0
  OBVIOUS
<1>2. \A x, y \in Int : y > 0 => x \div y \in Int
  OBVIOUS
<1>. QED
  BY <1>1, <1>2 DEF RoundHalfUp

\* The least of a set of natural numbers.
LEMMA Smallest == \A S \in SUBSET Nat : S # {} => Min(S) \in S /\ \A x \in S : Min(S) <= x
<1>. SUFFICES ASSUME NEW S \in SUBSET Nat, S # {} PROVE \E x \in S : \A y \in S : x <= y
  BY DEF Min
<1>1. PICK s \in S : TRUE
  OBVIOUS
<1>. DEFINE T == S \cap 0 .. s
            f == [x \in T |-> s - x]
<1>2. IsFiniteSet(T) /\ s \in T
  <2>1. IsFiniteSet(0 .. s) /\ T \subseteq 0 .. s
    BY FS_Interval
  <2>2. s \in Nat /\ s \in 0 .. s
    OBVIOUS
  <2>. QED
    BY <2>1, <2>2, FS_Subset
<1>3. \A x \in T : f[x] \in Nat /\ x \in Nat /\ x \in S /\ f[x] = s - x
  OBVIOUS
<1>4. \A y \in S : y \in T \/ s <= y
  OBVIOUS
<1>. HIDE DEF T, f
<1>5. PICK m \in T : \A x \in T : f[x] <= f[m]
  BY <1>2, <1>3, GreatestExists
<1>6. \A x \in T : m <= x
  BY <1>3, <1>5
<1>. QED
  BY <1>2, <1>3, <1>4, <1>6

\* What FEFO takes of a lot: some of what it holds, or nothing.
LEMMA Clipped ==
  ASSUME NEW a \in Nat, NEW b \in Int
  PROVE  /\ Max({0, Min({a, b})}) \in Nat
         /\ Max({0, Min({a, b})}) > 0 => a > 0
<1>1. Min({a, b}) \in {a, b} /\ Min({a, b}) <= a
  <2>1. \E x \in {a, b} : \A y \in {a, b} : x <= y
    <3>1. CASE a <= b
      BY <3>1
    <3>2. CASE b <= a
      BY <3>2
    <3>. QED
      BY <3>1, <3>2
  <2>. QED
    BY <2>1 DEF Min
<1>. DEFINE m == Min({a, b})
<1>2. m \in Int /\ m <= a
  BY <1>1
<1>. HIDE DEF m
<1>3. Max({0, m}) \in {0, m} /\ Max({0, m}) >= 0
  <2>1. \E x \in {0, m} : \A y \in {0, m} : x >= y
    <3>1. CASE m <= 0
      BY <1>2, <3>1
    <3>2. CASE m >= 0
      BY <1>2, <3>2
    <3>. QED
      BY <1>2, <3>1, <3>2
  <2>. QED
    BY <2>1 DEF Max
<1>4. Max({0, m}) \in Nat /\ (Max({0, m}) > 0 => a > 0)
  BY <1>2, <1>3
<1>. QED
  BY <1>4 DEF m

\* The version in force is one of those that have started.
LEMMA InEffectStarted ==
  ASSUME NEW vs \in Seq(Version), NEW day \in Int
  PROVE  IF \E n \in DOMAIN vs : vs[n].from <= day
           THEN InEffect(vs, day) \in DOMAIN vs /\ vs[InEffect(vs, day)].from <= day
           ELSE InEffect(vs, day) = 0
<1>. DEFINE S == {n \in DOMAIN vs : vs[n].from <= day}
            f == [n \in DOMAIN vs |-> vs[n].from]
<1>1. CASE S = {}
  BY <1>1 DEF InEffect
<1>2. CASE S # {}
  <2>1. IsFiniteSet(S) /\ \A n \in S : f[n] \in Nat
    <3>1. DOMAIN vs = 1 .. Len(vs) /\ Len(vs) \in Nat
      OBVIOUS
    <3>2. IsFiniteSet(DOMAIN vs)
      BY <3>1, FS_Interval
    <3>3. IsFiniteSet(S)
      BY <3>2, FS_Subset
    <3>4. \A n \in DOMAIN vs : vs[n].from \in Nat
      <4>1. \A n \in DOMAIN vs : vs[n] \in Version
        OBVIOUS
      <4>. QED
        BY <4>1 DEF Version, Days
    <3>. QED
      BY <3>3, <3>4
  <2>. HIDE DEF f
  <2>2. \E m \in S : \A n \in S : f[n] <= f[m]
    BY <1>2, <2>1, GreatestExists
  <2>3. \E m \in S : \A n \in S : vs[n].from <= vs[m].from
    BY <2>2 DEF f
  <2>. QED
    BY <1>2, <2>3 DEF InEffect
<1>. QED
  BY <1>1, <1>2

\* It depends on nothing but the days of the versions that have started.
LEMMA InEffectSame ==
  ASSUME NEW us, NEW vs, NEW day,
         {n \in DOMAIN us : us[n].from <= day} = {n \in DOMAIN vs : vs[n].from <= day},
         \A n \in DOMAIN vs : vs[n].from <= day => us[n].from = vs[n].from
  PROVE  InEffect(us, day) = InEffect(vs, day)
<1>. DEFINE S == {n \in DOMAIN vs : vs[n].from <= day}
            T == {n \in DOMAIN us : us[n].from <= day}
            one == CHOOSE n \in S : \A m \in S : vs[m].from <= vs[n].from
            other == CHOOSE n \in T : \A m \in T : us[m].from <= us[n].from
<1>1. T = S /\ \A n \in S : us[n].from = vs[n].from
  OBVIOUS
<1>2. InEffect(vs, day) = IF S = {} THEN 0 ELSE one
  BY DEF InEffect
<1>3. InEffect(us, day) = IF T = {} THEN 0 ELSE other
  BY DEF InEffect
<1>. HIDE DEF S, T
<1>4. other = CHOOSE n \in S : \A m \in S : us[m].from <= us[n].from
  BY <1>1
<1>5. \A n \in S : (\A m \in S : us[m].from <= us[n].from) <=> (\A m \in S : vs[m].from <= vs[n].from)
  BY <1>1
<1>6. other = one
  BY <1>4, <1>5
<1>. HIDE DEF one, other
<1>. QED
  BY <1>1, <1>2, <1>3, <1>6

\* The two forms of a sum.
LEMMA FunctionSum ==
  ASSUME NEW S, IsFiniteSet(S), NEW f, DOMAIN f = S, \A x \in S : f[x] \in Int
  PROVE  SumFunction(f) \in Int /\ SumFunction(f) = SumFunctionOnSet(f, S)
BY SumInt DEF SumFunction

LEMMA FunctionIsSeq ==
  ASSUME NEW S, NEW n \in Nat, NEW f \in [1 .. n -> S]
  PROVE  f \in Seq(S)
<1>1. f = [i \in 1 .. n |-> f[i]] /\ \A i \in 1 .. n : f[i] \in S
  OBVIOUS
<1>. QED
  BY <1>1, SeqDef, Zenon

LEMMA RecipeFacts ==
  ASSUME NEW b \in Boms, NEW r \in Recipes[b]
  PROVE  /\ r \in AnyRecipe
         /\ r.inputs \in Seq([item : Items, quantity : Nat \ {0}]) /\ r.inputs # <<>>
         /\ r.outputs \in OfItems(Nat \ {0}) /\ SumFunction(r.outputs) = RatioTotal
<1>1. r \in AnyRecipe
  BY DEF AnyRecipe
<1>2. PICK outputs \in SUBSET Items : r.outputs \in [outputs -> Nat \ {0}]
  BY ProductionAssumption
<1>3. r.outputs \in OfItems(Nat \ {0})
  BY <1>2 DEF OfItems
<1>. QED
  BY <1>1, <1>3, ProductionAssumption

\* Planned inputs are lines of items and quantities.
LEMMA PlannedLines ==
  ASSUME NEW b \in Boms, NEW r \in Recipes[b], NEW planned \in Nat
  PROVE  PlannedInputs(r, planned) \in Seq([item : Items, quantity : Int])
<1>. DEFINE n == Len(r.inputs)
            L == [item : Items, quantity : Nat \ {0}]
<1>1. r.inputs \in Seq(L) /\ r.inputs # <<>>
  BY RecipeFacts
<1>2. n \in Nat /\ n > 0 /\ DOMAIN r.inputs = 1 .. n
  BY <1>1
<1>3. \A i \in 1 .. n : r.inputs[i] \in L
  BY <1>1, ElementOfSeq
<1>4. \A i \in 1 .. n : r.inputs[i].item \in Items /\ r.inputs[i].quantity \in Nat \ {0}
  BY <1>3
<1>5. r.inputs[1].quantity \in Nat \ {0}
  BY <1>2, <1>4
<1>6. \A i \in 1 .. n : RoundHalfUp(r.inputs[i].quantity * planned, r.inputs[1].quantity) \in Int
  <2>1. \A i \in 1 .. n : r.inputs[i].quantity * planned \in Int
    BY <1>4
  <2>. QED
    BY <1>5, <2>1, Rounds
<1>. HIDE DEF n
<1>7. PlannedInputs(r, planned) \in [1 .. n -> [item : Items, quantity : Int]]
  BY <1>2, <1>4, <1>6 DEF PlannedInputs
<1>. QED
  BY <1>2, <1>7, FunctionIsSeq

\* What the records of orders hold.
LEMMA TheirTypes ==
  ASSUME Types, NEW o \in Orders
  PROVE  /\ order[o] \in OrderRecords
         /\ order[o].picks \in [Lots -> Nat]
         /\ DOMAIN order[o].ratios \subseteq Items /\ \A i \in DOMAIN order[o].ratios : order[o].ratios[i] \in Nat \ {0}
         /\ DOMAIN order[o].actual \subseteq Items /\ \A i \in DOMAIN order[o].actual : order[o].actual[i] \in Nat
         /\ IsFiniteSet(DOMAIN order[o].ratios)
<1>1. order[o] \in OrderRecords
  BY DEF Types
<1>2. /\ order[o].picks \in [Lots -> Nat]
      /\ order[o].ratios \in OfItems(Nat \ {0}) /\ order[o].actual \in OfItems(Nat)
  BY <1>1 DEF OrderRecords
<1>3. \A V, f : f \in OfItems(V) => DOMAIN f \subseteq Items /\ \A i \in DOMAIN f : f[i] \in V
  BY DEF OfItems
<1>4. IsFiniteSet(DOMAIN order[o].ratios)
  BY <1>2, <1>3, Finite, FS_Subset
<1>. QED
  BY <1>1, <1>2, <1>3, <1>4

\* An order's lots are its own, one for each of its outputs.
LEMMA OwnLots ==
  ASSUME Types, NEW o \in Orders
  PROVE  /\ Outputs(o) \subseteq OutputLots /\ OutputLots \subseteq Lots
         /\ \A l \in Outputs(o) : l[1] = o /\ Item(l) \in DOMAIN order[o].ratios /\ l = <<o, Item(l)>>
         /\ \A l \in OutputLots : l[1] \in Orders /\ (l[1] = o /\ Item(l) \in DOMAIN order[o].ratios => l \in Outputs(o))
         /\ \A i \in DOMAIN order[o].ratios : <<o, i>> \in Outputs(o) /\ Item(<<o, i>>) = i
BY TheirTypes DEF Outputs, OutputLots, Lots, Item

\* What an order moves, in its own lots and in others.
LEMMA EntriesMove ==
  ASSUME Types, NEW o \in Orders, DOMAIN order[o].actual = DOMAIN order[o].ratios
  PROVE  /\ Entries(o) \in [Lots -> Int]
         /\ \A l \in Lots \ Outputs(o) : Entries(o)[l] = 0 - order[o].picks[l]
         /\ \A l \in Outputs(o) : Entries(o)[l] = order[o].actual[Item(l)] - order[o].picks[l]
<1>1. /\ \A l \in Outputs(o) : l \in Lots /\ order[o].actual[Item(l)] \in Nat
      /\ \A l \in Lots : order[o].picks[l] \in Nat
  BY OwnLots, TheirTypes
<1>. QED
  BY <1>1 DEF Entries

\* FEFO takes from lots that hold something, and no more than a number of it.
LEMMA FefoTakes ==
  ASSUME Types, NEW item, NEW quantity \in Int, NEW day \in Nat, NEW l \in Lots
  PROVE  /\ FefoPick(item, quantity, day)[l] \in Nat
         /\ FefoPick(item, quantity, day)[l] > 0 => held[l] > 0
<1>. DEFINE lots == {k \in Lots : Item(k) = item /\ held[k] > 0 /\ expiry[k] >= day}
            first == {k \in lots : FefoOrder(k, l)}
            before == [k \in first |-> held[k]]
            pick == Max({0, Min({held[l], quantity - SumFunction(before)})})
<1>1. FefoPick(item, quantity, day)[l] = IF l \in lots THEN pick ELSE 0
  BY DEF FefoPick
<1>2. SumFunction(before) \in Int
  <2>1. IsFiniteSet(first)
    BY Finite, FS_Subset
  <2>2. DOMAIN before = first /\ \A k \in first : before[k] \in Int
    BY DEF Types
  <2>. HIDE DEF before, first
  <2>. QED
    BY <2>1, <2>2, FunctionSum
<1>3. held[l] \in Nat
  BY DEF Types
<1>. HIDE DEF before
<1>4. quantity - SumFunction(before) \in Int
  BY <1>2
<1>5. pick \in Nat /\ (pick > 0 => held[l] > 0)
  BY <1>3, <1>4, Clipped
<1>. HIDE DEF pick
<1>. QED
  BY <1>1, <1>5

\* What a release suggests is of lots that hold something.
LEMMA SuggestionsHeld ==
  ASSUME Types, NEW o \in Orders
  PROVE  /\ SuggestedPicks(o) \in [Lots -> Nat]
         /\ \A l \in Lots : SuggestedPicks(o)[l] > 0 => held[l] > 0
<1>. DEFINE inputs == order[o].inputs
            take(l) == [i \in DOMAIN inputs |->
                         FefoPick(inputs[i].item, inputs[i].quantity, order[o].date)[l]]
<1>1. inputs \in Seq([item : Items, quantity : Int]) /\ order[o].date \in Nat
  BY TheirTypes DEF OrderRecords
<1>2. DOMAIN inputs = 1 .. Len(inputs) /\ Len(inputs) \in Nat
  BY <1>1, LenProperties
<1>3. \A i \in DOMAIN inputs : inputs[i] \in [item : Items, quantity : Int]
  BY <1>1, <1>2, ElementOfSeq
<1>4. IsFiniteSet(DOMAIN inputs) /\ \A i \in DOMAIN inputs : inputs[i].quantity \in Int
  <2>1. IsFiniteSet(DOMAIN inputs)
    BY <1>2, FS_Interval
  <2>. HIDE DEF inputs
  <2>2. \A i \in DOMAIN inputs : inputs[i].quantity \in Int
    BY <1>3
  <2>. QED
    BY <2>1, <2>2
<1>5. ASSUME NEW l \in Lots
      PROVE  SumFunction(take(l)) \in Nat /\ (SumFunction(take(l)) > 0 => held[l] > 0)
  <2>. DEFINE f == take(l)
  <2>1. DOMAIN f = DOMAIN inputs
        /\ \A i \in DOMAIN inputs : f[i] \in Nat /\ (held[l] > 0 \/ f[i] = 0)
    BY <1>1, <1>4, FefoTakes DEF Types
  <2>. HIDE DEF f
  <2>2. SumFunction(f) = SumFunctionOnSet(f, DOMAIN inputs)
    BY <2>1 DEF SumFunction
  <2>3. SumFunctionOnSet(f, DOMAIN inputs) \in Nat
    BY <1>4, <2>1, SumNat
  <2>4. held[l] > 0 \/ SumFunctionOnSet(f, DOMAIN inputs) = 0
    BY <1>4, <2>1, SumZero
  <2>5. SumFunction(f) \in Nat /\ (SumFunction(f) > 0 => held[l] > 0)
    BY <2>2, <2>3, <2>4
  <2>. QED
    BY <2>5 DEF f
<1>6. SuggestedPicks(o) = [l \in Lots |-> SumFunction(take(l))]
  BY DEF SuggestedPicks
<1>. HIDE DEF take
<1>. QED
  BY <1>5, <1>6

------------------------------------------------------------------------------
(* What is written has its type *)

\* An order that is not there yet, and an idle request.
LEMMA Blank ==
  /\ \A V : <<>> \in OfItems(V)
  /\ NoPicks \in [Lots -> Nat]
  /\ NoOrderYet \in OrderRecords /\ Idle \in Asked
<1>1. \A V : <<>> \in OfItems(V)
  <2>1. \A V : <<>> \in [{} -> V]
    OBVIOUS
  <2>. QED
    BY <2>1 DEF OfItems
<1>2. NoPicks \in [Lots -> Nat]
  BY DEF NoPicks
<1>3. NoOrderYet \in OrderRecords
  <2>1. <<>> \in OfItems(Nat \ {0}) /\ <<>> \in OfItems(Nat)
    BY <1>1
  <2>2. <<>> \in Seq([item : Items, quantity : Int])
    BY EmptySeq
  <2>. HIDE DEF NoPicks
  <2>. QED
    BY <1>2, <2>1, <2>2 DEF NoOrderYet, OrderRecords
<1>4. Idle \in Asked
  BY DEF Idle, Asked
<1>. QED
  BY <1>1, <1>2, <1>3, <1>4

\* The order a plan writes.
LEMMA PlanWritten ==
  ASSUME NEW r \in Asked, r.bom \in Boms, r.recipe \in Recipes[r.bom]
  PROVE  /\ WritePlan(r) \in OrderRecords
         /\ WritePlan(r).status = "draft" /\ WritePlan(r).picks = NoPicks
         /\ WritePlan(r).date = r.date /\ WritePlan(r).bom = r.bom
         /\ WritePlan(r).version = r.version /\ WritePlan(r).planned = r.planned
         /\ WritePlan(r).inputs = PlannedInputs(r.recipe, r.planned)
         /\ WritePlan(r).ratios = r.recipe.outputs
<1>. DEFINE inputs == PlannedInputs(r.recipe, r.planned)
            ratios == r.recipe.outputs
<1>1. inputs \in Seq([item : Items, quantity : Int]) /\ ratios \in OfItems(Nat \ {0})
  BY PlannedLines, RecipeFacts DEF Asked
<1>2. /\ r.revision + 1 \in Nat /\ r.date \in Nat /\ r.version \in Nat /\ r.planned \in Nat
      /\ NoPicks \in [Lots -> Nat] /\ <<>> \in OfItems(Nat)
  BY Blank DEF Asked
<1>3. WritePlan(r) = [status |-> "draft", revision |-> r.revision + 1, date |-> r.date,
                      bom |-> r.bom, version |-> r.version, planned |-> r.planned,
                      inputs |-> inputs, ratios |-> ratios, picks |-> NoPicks,
                      actual |-> <<>>, rounding |-> 0]
  BY DEF WritePlan
<1>. HIDE DEF inputs, ratios
<1>4. WritePlan(r) \in OrderRecords
  BY <1>1, <1>2, <1>3 DEF OrderRecords
<1>5. /\ WritePlan(r).status = "draft" /\ WritePlan(r).picks = NoPicks
      /\ WritePlan(r).date = r.date /\ WritePlan(r).bom = r.bom
      /\ WritePlan(r).version = r.version /\ WritePlan(r).planned = r.planned
      /\ WritePlan(r).inputs = inputs
      /\ WritePlan(r).ratios = ratios
  BY <1>3
<1>. QED
  BY <1>4, <1>5 DEF inputs, ratios

------------------------------------------------------------------------------
(* Steps that move no stock: those of orders that have not posted *)

\* What the stock is part of stays, if the orders that have posted do.
LEMMA QuietStep ==
  ASSUME Types, RowsInv, LinksInv, NothingOutlivesItsInputs, NetInv, WorthInv, ValueConserved,
         UNCHANGED <<stock, others>>, order' \in [Orders -> OrderRecords],
         \A o \in Orders : HasPosted(o)' <=> HasPosted(o),
         \A o \in Orders : HasPosted(o) => order'[o] = order[o],
         \A o \in Orders : \A l \in Lots : order'[o].picks[l] > 0 => l \in rows
  PROVE  RowsInv' /\ LinksInv' /\ NothingOutlivesItsInputs' /\ NetInv' /\ WorthInv' /\ ValueConserved'
<1>0. /\ cost' = cost /\ expiry' = expiry /\ held' = held /\ rows' = rows
      /\ genealogy' = genealogy /\ raised' = raised /\ carried' = carried
  BY DEF stock, others
<1>1. \A o \in Orders : HasPosted(o) => Outputs(o)' = Outputs(o) /\ Entries(o)' = Entries(o)
  BY DEF Outputs, Entries
<1>2. \A o \in Orders : Standing(o)' <=> Standing(o)
  BY DEF Standing, HasPosted
<1>3. \A o \in Orders : Standing(o) => HasPosted(o)
  BY DEF Standing, HasPosted
<1>4. RowsInv'
  <2>1. \A l \in Lots : held'[l] > 0 => l \in rows'
    BY <1>0 DEF RowsInv
  <2>2. \A l \in rows' \cap OutputLots : HasPosted(l[1])'
    BY <1>0, OwnLots DEF RowsInv, OutputLots
  <2>3. \A o \in Orders : HasPosted(o)' => DOMAIN order'[o].actual = DOMAIN order'[o].ratios
    BY DEF RowsInv
  <2>. QED
    BY <1>0, <2>1, <2>2, <2>3 DEF RowsInv
<1>5. LinksInv'
  <2>. SUFFICES ASSUME NEW g \in genealogy
                PROVE  /\ g.order \in Orders /\ HasPosted(g.order)'
                       /\ g.output \in Outputs(g.order)'
                       /\ g.input \in Lots /\ order'[g.order].picks[g.input] > 0
    BY <1>0 DEF LinksInv
  <2>. QED
    BY <1>1 DEF LinksInv
<1>6. NothingOutlivesItsInputs'
  BY <1>0 DEF NothingOutlivesItsInputs, LinksInv
<1>7. \A o \in Orders : MovedBy(o)' = MovedBy(o)
  BY <1>1, <1>2, <1>3 DEF MovedBy
<1>8. \A l \in Lots : Net(l)' = Net(l)
  <2>. SUFFICES ASSUME NEW l \in Lots PROVE Net(l)' = Net(l)
    OBVIOUS
  <2>1. [o \in Orders |-> MovedBy(o)'[l]] = [o \in Orders |-> MovedBy(o)[l]]
    BY <1>7
  <2>. QED
    BY <2>1 DEF Net
<1>9. NetInv'
  BY <1>0, <1>8 DEF NetInv, Lots
<1>10. WorthInv'
  <2>. SUFFICES ASSUME NEW o \in Orders, HasPosted(o)
                PROVE  RatioTotal * SumFunctionOnSet([l \in Lots |-> Entries(o)'[l] * cost[l]], Lots)
                         + order'[o].rounding = 0
    BY <1>0 DEF WorthInv
  <2>1. order'[o] = order[o] /\ Entries(o)' = Entries(o)
    BY <1>1
  <2>2. [l \in Lots |-> Entries(o)'[l] * cost[l]] = [l \in Lots |-> Entries(o)[l] * cost[l]]
    BY <2>1
  <2>. QED
    BY <2>1, <2>2 DEF WorthInv
<1>11. ValueConserved'
  <2>1. {p \in Orders : Standing(p)'} = {p \in Orders : Standing(p)}
    BY <1>2
  <2>2. [o \in {p \in Orders : Standing(p)'} |-> order'[o].rounding]
          = [o \in {p \in Orders : Standing(p)} |-> order[o].rounding]
    BY <1>3, <2>1
  <2>. QED
    BY <1>0, <2>2 DEF ValueConserved
<1>. QED
  BY <1>4, <1>5, <1>6, <1>9, <1>10, <1>11

\* Plans follow their versions as long as neither is touched.
LEMMA PlansKept ==
  ASSUME VersionInv, UNCHANGED <<today, versions, pc, req, overnight>>,
         \A o \in Orders : order'[o].status # "none" =>
           /\ order[o].status # "none"
           /\ order'[o].date = order[o].date /\ order'[o].bom = order[o].bom
           /\ order'[o].version = order[o].version /\ order'[o].planned = order[o].planned
           /\ order'[o].inputs = order[o].inputs /\ order'[o].ratios = order[o].ratios
  PROVE  VersionInv'
<1>1. \A b \in Boms : \A n \in DOMAIN versions'[b] : versions'[b][n].recipe \in Recipes[b]
  BY DEF VersionInv
<1>2. \A w \in Workers : RequestInv(w)'
  BY DEF VersionInv, RequestInv
<1>3. \A o \in Orders : PlanInv(o)'
  <2>. SUFFICES ASSUME NEW o \in Orders, order'[o].status # "none" PROVE PlanInv(o)'
    BY DEF PlanInv
  <2>1. PlanInv(o)
    BY DEF VersionInv
  <2>. QED
    BY <2>1 DEF PlanInv
<1>. QED
  BY <1>1, <1>2, <1>3 DEF VersionInv

\* A step of one order, before it has posted.
LEMMA OpenStep ==
  ASSUME Inv, NEW o \in Orders, NEW x \in OrderRecords,
         order[o].status \in {"draft", "released"}, x.status \in {"released", "cancelled"},
         x.date = order[o].date, x.bom = order[o].bom, x.version = order[o].version,
         x.planned = order[o].planned, x.inputs = order[o].inputs, x.ratios = order[o].ratios,
         \A l \in Lots : x.picks[l] > 0 => l \in rows,
         order' = [order EXCEPT ![o] = x],
         UNCHANGED <<today, versions, pc, req, overnight, stock, others>>
  PROVE  Inv'
<1>1. Types /\ VersionInv /\ RowsInv /\ LinksInv
      /\ NothingOutlivesItsInputs /\ NetInv /\ WorthInv /\ ValueConserved
  BY DEF Inv
<1>2. order' \in [Orders -> OrderRecords] /\ order'[o] = x
      /\ \A p \in Orders \ {o} : order'[p] = order[p]
  BY <1>1 DEF Types
<1>3. Types'
  BY <1>1, <1>2 DEF Types, stock, others
<1>4. VersionInv'
  BY <1>1, <1>2, PlansKept
<1>5. ~HasPosted(o) /\ ~HasPosted(o)' /\ \A p \in Orders \ {o} : HasPosted(p)' <=> HasPosted(p)
  BY <1>2 DEF HasPosted
<1>6. \A p \in Orders : \A l \in Lots : order'[p].picks[l] > 0 => l \in rows
  BY <1>1, <1>2 DEF RowsInv
<1>7. RowsInv' /\ LinksInv' /\ NothingOutlivesItsInputs' /\ NetInv' /\ WorthInv' /\ ValueConserved'
  <2>1. \A p \in Orders : (HasPosted(p)' <=> HasPosted(p)) /\ (HasPosted(p) => order'[p] = order[p])
    BY <1>2, <1>5
  <2>2. UNCHANGED <<stock, others>>
    OBVIOUS
  <2>. QED
    BY <1>1, <1>2, <1>6, <2>1, <2>2, QuietStep
<1>. QED
  BY <1>3, <1>4, <1>7 DEF Inv

LEMMA ReleaseInv == ASSUME Inv, NEW o \in Orders, Release(o) PROVE Inv'
<1>. DEFINE x == [Moved(o, "released") EXCEPT !.picks = SuggestedPicks(o)]
<1>1. Types /\ RowsInv
  BY DEF Inv
<1>2. order[o] \in OrderRecords
  BY <1>1, TheirTypes
<1>3. SuggestedPicks(o) \in [Lots -> Nat] /\ \A l \in Lots : SuggestedPicks(o)[l] > 0 => held[l] > 0
  BY <1>1, SuggestionsHeld
<1>4. /\ order[o].status = "draft" /\ order' = [order EXCEPT ![o] = x]
      /\ UNCHANGED <<today, versions, pc, req, overnight, stock, others>>
  BY DEF Release, Step
<1>5. /\ x \in OrderRecords /\ x.status = "released" /\ x.picks = SuggestedPicks(o)
      /\ x.date = order[o].date /\ x.bom = order[o].bom /\ x.version = order[o].version
      /\ x.planned = order[o].planned /\ x.inputs = order[o].inputs /\ x.ratios = order[o].ratios
  BY <1>2, <1>3 DEF OrderRecords, Moved
<1>. HIDE DEF x
<1>6. \A l \in Lots : x.picks[l] > 0 => l \in rows
  BY <1>1, <1>3, <1>5 DEF RowsInv
<1>. QED
  BY <1>4, <1>5, <1>6, OpenStep

LEMMA RecordPicksInv == ASSUME Inv, NEW o \in Orders, RecordPicks(o) PROVE Inv'
<1>1. Types /\ RowsInv
  BY DEF Inv
<1>2. order[o] \in OrderRecords
  BY <1>1, TheirTypes
<1>3. PICK lots \in SUBSET {l \in Lots : MayPick(o, l)} : \E taken \in [lots -> Taken] :
        Step(o, {"released"},
             [Moved(o, "released") EXCEPT !.picks = [l \in Lots |-> IF l \in lots THEN taken[l] ELSE 0]])
        /\ UNCHANGED <<stock, others>>
  BY DEF RecordPicks
<1>4. PICK taken \in [lots -> Taken] :
        Step(o, {"released"},
             [Moved(o, "released") EXCEPT !.picks = [l \in Lots |-> IF l \in lots THEN taken[l] ELSE 0]])
        /\ UNCHANGED <<stock, others>>
  BY <1>3
<1>. DEFINE picks == [l \in Lots |-> IF l \in lots THEN taken[l] ELSE 0]
            x == [Moved(o, "released") EXCEPT !.picks = picks]
<1>5. picks \in [Lots -> Nat] /\ \A l \in Lots : picks[l] > 0 => l \in rows
  <2>1. Taken \subseteq Nat
    BY ProductionAssumption
  <2>2. \A l \in lots : taken[l] \in Nat /\ l \in rows
    BY <2>1 DEF MayPick
  <2>. QED
    BY <2>2
<1>6. /\ order[o].status = "released" /\ order' = [order EXCEPT ![o] = x]
      /\ UNCHANGED <<today, versions, pc, req, overnight, stock, others>>
  BY <1>4 DEF Step
<1>. HIDE DEF picks
<1>7. /\ x \in OrderRecords /\ x.status = "released" /\ x.picks = picks
      /\ x.date = order[o].date /\ x.bom = order[o].bom /\ x.version = order[o].version
      /\ x.planned = order[o].planned /\ x.inputs = order[o].inputs /\ x.ratios = order[o].ratios
  BY <1>2, <1>5 DEF OrderRecords, Moved
<1>. HIDE DEF x
<1>. QED
  BY <1>5, <1>6, <1>7, OpenStep

LEMMA RecordActualsInv == ASSUME Inv, NEW o \in Orders, RecordActuals(o) PROVE Inv'
<1>1. Types /\ RowsInv
  BY DEF Inv
<1>2. order[o] \in OrderRecords
  BY <1>1, TheirTypes
<1>3. PICK outputs \in SUBSET DOMAIN order[o].ratios : \E actual \in [outputs -> Yields] :
        Step(o, {"released"}, [Moved(o, "released") EXCEPT !.actual = actual])
        /\ UNCHANGED <<stock, others>>
  BY DEF RecordActuals
<1>4. PICK actual \in [outputs -> Yields] :
        Step(o, {"released"}, [Moved(o, "released") EXCEPT !.actual = actual])
        /\ UNCHANGED <<stock, others>>
  BY <1>3
<1>. DEFINE x == [Moved(o, "released") EXCEPT !.actual = actual]
<1>5. actual \in OfItems(Nat)
  <2>1. Yields \subseteq Nat /\ outputs \in SUBSET Items
    BY <1>1, TheirTypes, ProductionAssumption
  <2>2. actual \in [outputs -> Nat]
    BY <2>1
  <2>. QED
    BY <2>1, <2>2 DEF OfItems
<1>6. /\ order[o].status = "released" /\ order' = [order EXCEPT ![o] = x]
      /\ UNCHANGED <<today, versions, pc, req, overnight, stock, others>>
  BY <1>4 DEF Step
<1>7. /\ x \in OrderRecords /\ x.status = "released" /\ x.picks = order[o].picks
      /\ x.date = order[o].date /\ x.bom = order[o].bom /\ x.version = order[o].version
      /\ x.planned = order[o].planned /\ x.inputs = order[o].inputs /\ x.ratios = order[o].ratios
  BY <1>2, <1>5 DEF OrderRecords, Moved
<1>. HIDE DEF x
<1>8. \A l \in Lots : x.picks[l] > 0 => l \in rows
  BY <1>1, <1>7 DEF RowsInv
<1>. QED
  BY <1>6, <1>7, <1>8, OpenStep

LEMMA CancelInv == ASSUME Inv, NEW o \in Orders, Cancel(o) PROVE Inv'
<1>. DEFINE x == Moved(o, "cancelled")
<1>1. Types /\ RowsInv
  BY DEF Inv
<1>2. order[o] \in OrderRecords
  BY <1>1, TheirTypes
<1>3. /\ order[o].status \in {"draft", "released"} /\ order' = [order EXCEPT ![o] = x]
      /\ UNCHANGED <<today, versions, pc, req, overnight, stock, others>>
  BY DEF Cancel, Step
<1>4. /\ x \in OrderRecords /\ x.status = "cancelled" /\ x.picks = order[o].picks
      /\ x.date = order[o].date /\ x.bom = order[o].bom /\ x.version = order[o].version
      /\ x.planned = order[o].planned /\ x.inputs = order[o].inputs /\ x.ratios = order[o].ratios
  BY <1>2 DEF OrderRecords, Moved
<1>. HIDE DEF x
<1>5. \A l \in Lots : x.picks[l] > 0 => l \in rows
  BY <1>1, <1>4 DEF RowsInv
<1>. QED
  BY <1>3, <1>4, <1>5, OpenStep

------------------------------------------------------------------------------
(* Requests *)

\* A step of a request that writes no order moves no stock.
LEMMA OrdersUntouched ==
  ASSUME Inv, UNCHANGED <<order, stock, others>>
  PROVE  RowsInv' /\ LinksInv' /\ NothingOutlivesItsInputs' /\ NetInv' /\ WorthInv' /\ ValueConserved'
<1>1. Types /\ RowsInv /\ LinksInv
      /\ NothingOutlivesItsInputs /\ NetInv /\ WorthInv /\ ValueConserved
  BY DEF Inv
<1>2. /\ order' \in [Orders -> OrderRecords] /\ UNCHANGED <<stock, others>>
      /\ \A o \in Orders : (HasPosted(o)' <=> HasPosted(o)) /\ order'[o] = order[o]
  BY <1>1 DEF Types, HasPosted
<1>3. \A o \in Orders : \A l \in Lots : order'[o].picks[l] > 0 => l \in rows
  BY <1>1 DEF RowsInv
<1>. QED
  BY <1>1, <1>2, <1>3, QuietStep

\* A request begins, having read what it says it has.
LEMMA Begun ==
  ASSUME Inv, NEW w \in Workers, NEW r \in Asked, Begin(w, r),
         r.day <= today, r.bom \in Boms, r.recipe \in Recipes[r.bom],
         r.kind = "plan" => r.order \in Orders,
         r.kind = "add" => r.date \in Days,
         r.kind = "correct" => r.version \in DOMAIN versions[r.bom],
         r.kind = "plan" =>
           /\ r.version = InEffect(versions[r.bom], r.date)
           /\ r.version \in DOMAIN versions[r.bom]
           /\ r.recipe = versions[r.bom][r.version].recipe
  PROVE  Inv'
<1>1. Types /\ VersionInv
  BY DEF Inv
<1>2. /\ pc' = [pc EXCEPT ![w] = "write"] /\ req' = [req EXCEPT ![w] = r]
      /\ UNCHANGED <<today, versions, order, stock, overnight, others>>
  BY DEF Begin
<1>3. req'[w] = r /\ \A v \in Workers \ {w} : req'[v] = req[v] /\ pc'[v] = pc[v]
  BY <1>1, <1>2 DEF Types
<1>4. Types'
  BY <1>1, <1>2 DEF Types, stock, others
<1>5. \A v \in Workers : RequestInv(v)'
  <2>. SUFFICES ASSUME NEW v \in Workers PROVE RequestInv(v)'
    OBVIOUS
  <2>1. CASE v = w
    BY <1>2, <1>3, <2>1 DEF RequestInv
  <2>2. CASE v # w
    <3>1. RequestInv(v) /\ req'[v] = req[v] /\ pc'[v] = pc[v]
      BY <1>1, <1>3, <2>2 DEF VersionInv
    <3>. QED
      BY <1>2, <3>1 DEF RequestInv
  <2>. QED
    BY <2>1, <2>2
<1>6. VersionInv'
  <2>1. \A b \in Boms : \A n \in DOMAIN versions'[b] : versions'[b][n].recipe \in Recipes[b]
    BY <1>1, <1>2 DEF VersionInv
  <2>2. \A o \in Orders : PlanInv(o)'
    BY <1>1, <1>2 DEF VersionInv, PlanInv
  <2>. QED
    BY <1>5, <2>1, <2>2 DEF VersionInv
<1>7. UNCHANGED <<order, stock, others>>
  BY <1>2
<1>. QED
  BY <1>4, <1>6, <1>7, OrdersUntouched DEF Inv

LEMMA AskForPlanInv == ASSUME Inv, NEW w \in Workers, AskForPlan(w) PROVE Inv'
<1>1. Types /\ VersionInv
  BY DEF Inv
<1>2. PICK o \in Orders, b \in Boms, date \in Days, q \in Planned :
        /\ InEffect(versions[b], date) # 0
        /\ Begin(w, PlanFrom([Idle EXCEPT !.kind = "plan", !.day = today, !.order = o, !.bom = b,
                                !.revision = order[o].revision, !.date = date, !.planned = q]))
  BY DEF AskForPlan
<1>. DEFINE n == InEffect(versions[b], date)
            recipe == versions[b][n].recipe
            x == [Idle EXCEPT !.kind = "plan", !.day = today, !.order = o, !.bom = b,
                    !.revision = order[o].revision, !.date = date, !.planned = q]
            r == PlanFrom(x)
<1>3. versions[b] \in Seq(Version) /\ today \in Nat /\ order[o].revision \in Nat
  <2>1. order[o] \in OrderRecords
    BY <1>1 DEF Types
  <2>. QED
    BY <1>1, <2>1 DEF Types, OrderRecords
<1>4. date \in Nat /\ q \in Nat
  BY ProductionAssumption DEF Days
<1>5. n \in DOMAIN versions[b] /\ n \in Nat
  <2>1. n \in DOMAIN versions[b]
    BY <1>2, <1>3, <1>4, InEffectStarted
  <2>. QED
    BY <1>3, <2>1
<1>6. recipe \in Recipes[b] /\ recipe \in AnyRecipe
  BY <1>1, <1>5 DEF VersionInv, AnyRecipe
<1>7. x \in Asked /\ x.day = today /\ x.bom = b /\ x.kind = "plan" /\ x.order = o /\ x.date = date
  BY <1>3, <1>4, Blank DEF Asked
<1>. HIDE DEF x
<1>8. r = [x EXCEPT !.version = n, !.recipe = recipe]
  BY <1>7 DEF PlanFrom
<1>. HIDE DEF n, recipe, r
<1>9. /\ r \in Asked /\ r.day = today /\ r.bom = b /\ r.recipe = recipe /\ r.kind = "plan"
      /\ r.order = o /\ r.version = n /\ r.date = date
  BY <1>5, <1>6, <1>7, <1>8 DEF Asked
<1>10. n = InEffect(versions[b], date) /\ recipe = versions[b][n].recipe
  BY DEF n, recipe
<1>11. r.day <= today
  BY <1>3, <1>9
<1>12. Begin(w, r)
  BY <1>2 DEF r, x
<1>. QED
  BY <1>5, <1>6, <1>9, <1>10, <1>11, <1>12, Begun

LEMMA AskForVersionInv == ASSUME Inv, NEW w \in Workers, AskForVersion(w) PROVE Inv'
<1>1. Types /\ VersionInv
  BY DEF Inv
<1>2. PICK b \in Boms : \E recipe \in Recipes[b] :
        \/ \E from \in Days :
             Begin(w, [Idle EXCEPT !.kind = "add", !.day = today, !.bom = b, !.date = from,
                                   !.recipe = recipe])
        \/ \E n \in DOMAIN versions[b] :
             Begin(w, [Idle EXCEPT !.kind = "correct", !.day = today, !.bom = b, !.version = n,
                                   !.recipe = recipe])
  BY DEF AskForVersion
<1>3. PICK recipe \in Recipes[b] :
        \/ \E from \in Days :
             Begin(w, [Idle EXCEPT !.kind = "add", !.day = today, !.bom = b, !.date = from,
                                   !.recipe = recipe])
        \/ \E n \in DOMAIN versions[b] :
             Begin(w, [Idle EXCEPT !.kind = "correct", !.day = today, !.bom = b, !.version = n,
                                   !.recipe = recipe])
  BY <1>2
<1>4. recipe \in AnyRecipe /\ today \in Nat /\ versions[b] \in Seq(Version)
  BY <1>1 DEF AnyRecipe, Types
<1>5. ASSUME NEW from \in Days,
             Begin(w, [Idle EXCEPT !.kind = "add", !.day = today, !.bom = b, !.date = from,
                                   !.recipe = recipe])
      PROVE  Inv'
  <2>. DEFINE r == [Idle EXCEPT !.kind = "add", !.day = today, !.bom = b, !.date = from,
                                !.recipe = recipe]
  <2>1. Begin(w, r)
    BY <1>5
  <2>2. from \in Nat
    BY DEF Days
  <2>3. r \in Asked
    BY <1>4, <2>2, Blank DEF Asked
  <2>4. r.day = today /\ r.bom = b /\ r.recipe = recipe /\ r.kind = "add" /\ r.date = from
    BY Blank DEF Asked
  <2>. HIDE DEF r
  <2>5. r.day <= today
    BY <1>4, <2>4
  <2>. QED
    BY <2>1, <2>3, <2>4, <2>5, Begun
<1>6. ASSUME NEW n \in DOMAIN versions[b],
             Begin(w, [Idle EXCEPT !.kind = "correct", !.day = today, !.bom = b, !.version = n,
                                   !.recipe = recipe])
      PROVE  Inv'
  <2>. DEFINE r == [Idle EXCEPT !.kind = "correct", !.day = today, !.bom = b, !.version = n,
                                !.recipe = recipe]
  <2>1. Begin(w, r)
    BY <1>6
  <2>2. n \in Nat
    BY <1>4
  <2>3. r \in Asked
    BY <1>4, <2>2, Blank DEF Asked
  <2>4. r.day = today /\ r.bom = b /\ r.recipe = recipe /\ r.kind = "correct" /\ r.version = n
    BY Blank DEF Asked
  <2>. HIDE DEF r
  <2>5. r.day <= today
    BY <1>4, <2>4
  <2>. QED
    BY <2>1, <2>3, <2>4, <2>5, Begun
<1>. QED
  BY <1>3, <1>5, <1>6

LEMMA GiveUpInv == ASSUME Inv, NEW w \in Workers, GiveUp(w) PROVE Inv'
<1>1. Types /\ VersionInv
  BY DEF Inv
<1>2. /\ pc' = [pc EXCEPT ![w] = "idle"] /\ req' = [req EXCEPT ![w] = Idle]
      /\ UNCHANGED <<today, versions, order, stock, overnight, others>>
  BY DEF GiveUp
<1>3. pc'[w] = "idle" /\ \A v \in Workers \ {w} : req'[v] = req[v] /\ pc'[v] = pc[v]
  BY <1>1, <1>2 DEF Types
<1>4. Types'
  BY <1>1, <1>2, Blank DEF Types, stock, others
<1>5. \A v \in Workers : RequestInv(v)'
  <2>. SUFFICES ASSUME NEW v \in Workers, pc'[v] = "write" PROVE RequestInv(v)'
    BY DEF RequestInv
  <2>1. RequestInv(v) /\ req'[v] = req[v] /\ pc'[v] = pc[v]
    BY <1>1, <1>3 DEF VersionInv
  <2>. QED
    BY <1>2, <2>1 DEF RequestInv
<1>6. VersionInv'
  <2>1. \A b \in Boms : \A n \in DOMAIN versions'[b] : versions'[b][n].recipe \in Recipes[b]
    BY <1>1, <1>2 DEF VersionInv
  <2>2. \A o \in Orders : PlanInv(o)'
    BY <1>1, <1>2 DEF VersionInv, PlanInv
  <2>. QED
    BY <1>5, <2>1, <2>2 DEF VersionInv
<1>7. UNCHANGED <<order, stock, others>>
  BY <1>2
<1>. QED
  BY <1>4, <1>6, <1>7, OrdersUntouched DEF Inv

\* A day later, no request that has read is of today.
LEMMA NextDayInv == ASSUME Inv, NextDay PROVE Inv'
<1>1. Types /\ VersionInv
  BY DEF Inv
<1>2. today' = today + 1 /\ UNCHANGED <<versions, order, stock, pc, req, overnight, others>>
  BY DEF NextDay
<1>3. Types'
  BY <1>1, <1>2 DEF Types, stock, others
<1>4. \A w \in Workers : RequestInv(w)'
  <2>. SUFFICES ASSUME NEW w \in Workers, pc[w] = "write" PROVE RequestInv(w)'
    BY <1>2 DEF RequestInv
  <2>1. RequestInv(w) /\ today \in Nat /\ req[w].day \in Nat
    BY <1>1 DEF VersionInv, Types, Asked
  <2>2. req'[w].day <= today' /\ req'[w].day # today'
    BY <1>2, <2>1 DEF RequestInv
  <2>. QED
    BY <1>2, <2>1, <2>2 DEF RequestInv
<1>5. \A o \in Orders : PlanInv(o)'
  <2>. SUFFICES ASSUME NEW o \in Orders, order[o].status # "none" PROVE PlanInv(o)'
    BY <1>2 DEF PlanInv
  <2>1. PlanInv(o) /\ today \in Nat /\ order[o].date \in Nat
    BY <1>1 DEF VersionInv, Types, OrderRecords
  <2>2. order'[o].date <= today'
    BY <1>2, <2>1 DEF PlanInv
  <2>. QED
    BY <1>2, <2>1, <2>2 DEF PlanInv
<1>6. VersionInv'
  BY <1>1, <1>2, <1>4, <1>5 DEF VersionInv
<1>7. UNCHANGED <<order, stock, others>>
  BY <1>2
<1>. QED
  BY <1>3, <1>6, <1>7, OrdersUntouched DEF Inv

\* The plan written is that of the version in force, as long as the day the
\* request began on lasts: then nothing it read has changed.
LEMMA PlanWrittenInv ==
  ASSUME Inv, NEW w \in Workers, pc[w] = "write", req[w].kind = "plan", req[w].date <= today,
         order[req[w].order].status \in {"none", "draft"},
         order' = [order EXCEPT ![req[w].order] = WritePlan(req[w])], UNCHANGED versions,
         Answered(w, req[w].order)
  PROVE  Inv'
<1>. SUFFICES ASSUME NEW r, r = req[w], NEW o, o = r.order PROVE Inv'
  OBVIOUS
<1>. DEFINE x == WritePlan(r)
<1>1. Types /\ VersionInv /\ RowsInv /\ LinksInv
      /\ NothingOutlivesItsInputs /\ NetInv /\ WorthInv /\ ValueConserved
  BY DEF Inv
<1>2. /\ pc' = [pc EXCEPT ![w] = "idle"] /\ req' = [req EXCEPT ![w] = Idle]
      /\ overnight' = IF r.day < today THEN overnight \cup {o} ELSE overnight
      /\ UNCHANGED <<today, stock, others>>
  BY DEF Answered
<1>3. RequestInv(w) /\ r \in Asked /\ today \in Nat
  BY <1>1 DEF VersionInv, Types
<1>4. /\ o \in Orders /\ r.day <= today /\ r.bom \in Boms /\ r.recipe \in Recipes[r.bom]
      /\ r.day \in Nat /\ r.date \in Nat
      /\ r.day = today /\ r.bom \notin overnight =>
           /\ r.version = InEffect(versions[r.bom], r.date)
           /\ r.version \in DOMAIN versions[r.bom]
           /\ r.recipe = versions[r.bom][r.version].recipe
  <2>1. r.day \in Nat /\ r.date \in Nat
    BY <1>3 DEF Asked
  <2>. QED
    BY <1>3, <2>1 DEF RequestInv
<1>5. /\ x \in OrderRecords /\ x.status = "draft" /\ x.picks = NoPicks
      /\ x.date = r.date /\ x.bom = r.bom /\ x.version = r.version /\ x.planned = r.planned
      /\ x.inputs = PlannedInputs(r.recipe, r.planned) /\ x.ratios = r.recipe.outputs
  BY <1>3, <1>4, PlanWritten
<1>6. SumFunction(r.recipe.outputs) = RatioTotal
  BY <1>4, RecipeFacts
<1>. HIDE DEF x
<1>7. order' \in [Orders -> OrderRecords] /\ order'[o] = x
      /\ \A p \in Orders \ {o} : order'[p] = order[p]
  BY <1>1, <1>4, <1>5 DEF Types, x
<1>8. Types'
  BY <1>1, <1>2, <1>7, Blank DEF Types, stock, others
<1>9. \A v \in Workers : RequestInv(v)'
  <2>. SUFFICES ASSUME NEW v \in Workers, pc'[v] = "write" PROVE RequestInv(v)'
    BY DEF RequestInv
  <2>1. v # w
    BY <1>1, <1>2 DEF Types
  <2>2. RequestInv(v) /\ req'[v] = req[v] /\ pc'[v] = pc[v]
    BY <1>1, <1>2, <2>1 DEF VersionInv, Types
  <2>3. overnight \subseteq overnight'
    BY <1>2
  <2>. QED
    BY <1>2, <2>2, <2>3 DEF RequestInv
<1>10. \A p \in Orders : PlanInv(p)'
  <2>. SUFFICES ASSUME NEW p \in Orders, order'[p].status # "none" PROVE PlanInv(p)'
    BY DEF PlanInv
  <2>1. overnight \subseteq overnight'
    BY <1>2
  <2>2. CASE p = o
    <3>1. o \notin overnight' => r.day = today
      BY <1>2, <1>3, <1>4
    <3>2. {o, r.bom} \cap overnight' = {} => r.day = today /\ r.bom \notin overnight
      BY <2>1, <3>1
    <3>3. /\ order'[p] = x /\ x.date <= today' /\ x.bom \in Boms
          /\ SumFunction(x.ratios) = RatioTotal
      BY <1>2, <1>4, <1>5, <1>6, <1>7, <2>2
    <3>4. ASSUME {p, x.bom} \cap overnight' = {}
          PROVE  /\ x.version = InEffect(versions'[x.bom], x.date)
                 /\ x.version \in DOMAIN versions'[x.bom]
                 /\ x.ratios = versions'[x.bom][x.version].recipe.outputs
                 /\ x.inputs = PlannedInputs(versions'[x.bom][x.version].recipe, x.planned)
      BY <1>4, <1>5, <2>2, <3>2, <3>4
    <3>. QED
      BY <3>3, <3>4 DEF PlanInv
  <2>3. CASE p # o
    <3>1. PlanInv(p) /\ order'[p] = order[p]
      BY <1>1, <1>7, <2>3 DEF VersionInv
    <3>. QED
      BY <1>2, <2>1, <3>1 DEF PlanInv
  <2>. QED
    BY <2>2, <2>3
<1>11. VersionInv'
  BY <1>1, <1>2, <1>9, <1>10 DEF VersionInv
<1>12. RowsInv' /\ LinksInv' /\ NothingOutlivesItsInputs' /\ NetInv' /\ WorthInv' /\ ValueConserved'
  <2>1. ~HasPosted(o) /\ ~HasPosted(o)'
    BY <1>4, <1>5, <1>7 DEF HasPosted
  <2>2. \A p \in Orders : (HasPosted(p)' <=> HasPosted(p)) /\ (HasPosted(p) => order'[p] = order[p])
    <3>. SUFFICES ASSUME NEW p \in Orders
                  PROVE  (HasPosted(p)' <=> HasPosted(p)) /\ (HasPosted(p) => order'[p] = order[p])
      OBVIOUS
    <3>1. CASE p = o
      BY <2>1, <3>1
    <3>2. CASE p # o
      BY <1>7, <3>2 DEF HasPosted
    <3>. QED
      BY <3>1, <3>2
  <2>3. \A p \in Orders : \A l \in Lots : order'[p].picks[l] > 0 => l \in rows
    BY <1>1, <1>5, <1>7 DEF RowsInv, NoPicks
  <2>4. UNCHANGED <<stock, others>>
    BY <1>2
  <2>. QED
    BY <1>1, <1>7, <2>2, <2>3, <2>4, QuietStep
<1>. QED
  BY <1>8, <1>11, <1>12 DEF Inv

LEMMA CreateOrderInv == ASSUME Inv, NEW w \in Workers, CreateOrder(w) PROVE Inv'
BY PlanWrittenInv DEF CreateOrder

LEMMA UpdateOrderInv == ASSUME Inv, NEW w \in Workers, UpdateOrder(w) PROVE Inv'
BY PlanWrittenInv DEF UpdateOrder

\* Versions may be written as long as, on the day the request began on, they
\* leave alone what is in force up to then.
LEMMA VersionsWrittenInv ==
  ASSUME Inv, NEW w \in Workers, NEW b \in Boms, NEW us \in Seq(Version),
         \A n \in DOMAIN us : us[n].recipe \in Recipes[b],
         DOMAIN versions[b] \subseteq DOMAIN us,
         b \notin overnight' =>
           \A date \in Nat : date <= today /\ InEffect(versions[b], date) \in DOMAIN versions[b] =>
             /\ InEffect(us, date) = InEffect(versions[b], date)
             /\ us[InEffect(us, date)].recipe = versions[b][InEffect(us, date)].recipe,
         versions' = [versions EXCEPT ![b] = us], UNCHANGED order, Answered(w, b)
  PROVE  Inv'
<1>1. Types /\ VersionInv
  BY DEF Inv
<1>2. /\ pc' = [pc EXCEPT ![w] = "idle"] /\ req' = [req EXCEPT ![w] = Idle]
      /\ overnight \subseteq overnight' /\ UNCHANGED <<today, order, stock, others>>
  BY DEF Answered
<1>3. versions'[b] = us /\ \A m \in Boms \ {b} : versions'[m] = versions[m]
  BY <1>1 DEF Types
<1>4. Types'
  BY <1>1, <1>2, Blank DEF Types, stock, others
<1>5. ASSUME NEW m \in Boms, m \notin overnight', NEW date \in Nat, date <= today,
             InEffect(versions[m], date) \in DOMAIN versions[m]
      PROVE  /\ InEffect(versions'[m], date) = InEffect(versions[m], date)
             /\ InEffect(versions[m], date) \in DOMAIN versions'[m]
             /\ versions'[m][InEffect(versions[m], date)].recipe
                  = versions[m][InEffect(versions[m], date)].recipe
  <2>1. CASE m = b
    BY <1>3, <1>5, <2>1
  <2>2. CASE m # b
    BY <1>3, <1>5, <2>2
  <2>. QED
    BY <2>1, <2>2
<1>6. \A v \in Workers : RequestInv(v)'
  <2>. SUFFICES ASSUME NEW v \in Workers, pc'[v] = "write" PROVE RequestInv(v)'
    BY DEF RequestInv
  <2>1. v # w /\ pc'[v] = pc[v] /\ req'[v] = req[v]
    BY <1>1, <1>2 DEF Types
  <2>. SUFFICES ASSUME NEW r, r = req[v]
                PROVE
                  /\ r.day <= today /\ r.bom \in Boms /\ r.recipe \in Recipes[r.bom]
                  /\ r.kind = "plan" => r.order \in Orders
                  /\ r.kind = "add" => r.date \in Days
                  /\ r.kind = "correct" => r.version \in DOMAIN versions'[r.bom]
                  /\ r.kind = "plan" /\ r.day = today /\ r.date <= today /\ r.bom \notin overnight' =>
                       /\ r.version = InEffect(versions'[r.bom], r.date)
                       /\ r.version \in DOMAIN versions'[r.bom]
                       /\ r.recipe = versions'[r.bom][r.version].recipe
    BY <1>2, <2>1 DEF RequestInv
  <2>2. /\ RequestInv(v) /\ pc[v] = "write" /\ r \in Asked
    BY <1>1, <2>1 DEF VersionInv, Types
  <2>3. /\ r.day <= today /\ r.bom \in Boms /\ r.recipe \in Recipes[r.bom]
        /\ r.kind = "plan" => r.order \in Orders
        /\ r.kind = "add" => r.date \in Days
        /\ r.kind = "correct" => r.version \in DOMAIN versions[r.bom]
        /\ r.kind = "plan" /\ r.day = today /\ r.date <= today /\ r.bom \notin overnight =>
             /\ r.version = InEffect(versions[r.bom], r.date)
             /\ r.version \in DOMAIN versions[r.bom]
             /\ r.recipe = versions[r.bom][r.version].recipe
    BY <2>2 DEF RequestInv
  <2>4. r.kind = "correct" => r.version \in DOMAIN versions'[r.bom]
    BY <1>3, <2>3
  <2>5. r.date \in Nat
    BY <2>2 DEF Asked
  <2>6. r.kind = "plan" /\ r.day = today /\ r.date <= today /\ r.bom \notin overnight' =>
          /\ r.version = InEffect(versions'[r.bom], r.date)
          /\ r.version \in DOMAIN versions'[r.bom]
          /\ r.recipe = versions'[r.bom][r.version].recipe
    BY <1>2, <1>5, <2>3, <2>5
  <2>. QED
    BY <2>3, <2>4, <2>6
<1>7. \A o \in Orders : PlanInv(o)'
  <2>. SUFFICES ASSUME NEW o \in Orders, order[o].status # "none", NEW x, x = order[o]
                PROVE
                  /\ x.date <= today /\ x.bom \in Boms
                  /\ SumFunction(x.ratios) = RatioTotal
                  /\ {o, x.bom} \cap overnight' = {} =>
                       /\ x.version = InEffect(versions'[x.bom], x.date)
                       /\ x.version \in DOMAIN versions'[x.bom]
                       /\ x.ratios = versions'[x.bom][x.version].recipe.outputs
                       /\ x.inputs = PlannedInputs(versions'[x.bom][x.version].recipe, x.planned)
    BY <1>2 DEF PlanInv
  <2>1. /\ x.date <= today /\ x.bom \in Boms
        /\ SumFunction(x.ratios) = RatioTotal
        /\ {o, x.bom} \cap overnight = {} =>
             /\ x.version = InEffect(versions[x.bom], x.date)
             /\ x.version \in DOMAIN versions[x.bom]
             /\ x.ratios = versions[x.bom][x.version].recipe.outputs
             /\ x.inputs = PlannedInputs(versions[x.bom][x.version].recipe, x.planned)
    BY <1>1 DEF VersionInv, PlanInv
  <2>2. x.date \in Nat
    BY <1>1 DEF Types, OrderRecords
  <2>3. {o, x.bom} \cap overnight' = {} => {o, x.bom} \cap overnight = {} /\ x.bom \notin overnight'
    BY <1>2
  <2>. QED
    BY <1>5, <2>1, <2>2, <2>3
<1>8. VersionInv'
  <2>1. \A m \in Boms : \A n \in DOMAIN versions'[m] : versions'[m][n].recipe \in Recipes[m]
    BY <1>1, <1>3 DEF VersionInv
  <2>. QED
    BY <1>6, <1>7, <2>1 DEF VersionInv
<1>9. UNCHANGED <<order, stock, others>>
  BY <1>2
<1>. QED
  BY <1>4, <1>8, <1>9, OrdersUntouched DEF Inv

\* A version added starts after the day the request began on, when one is in
\* force by then.
LEMMA WriteVersionInv == ASSUME Inv, NEW w \in Workers, WriteVersion(w) PROVE Inv'
<1>. SUFFICES ASSUME NEW r, r = req[w], NEW b, b = r.bom, NEW vs, vs = versions[b] PROVE Inv'
  OBVIOUS
<1>. DEFINE v == [from |-> r.date, recipe |-> r.recipe]
            us == Append(vs, v)
<1>1. Types /\ VersionInv
  BY DEF Inv
<1>2. /\ pc[w] = "write" /\ r.kind = "add" /\ MayStart(vs, r.date, r.day)
      /\ versions' = [versions EXCEPT ![b] = us] /\ UNCHANGED order /\ Answered(w, b)
  BY <1>1 DEF WriteVersion, Types
<1>3. RequestInv(w) /\ r \in Asked /\ today \in Nat
  BY <1>1 DEF VersionInv, Types
<1>4. /\ b \in Boms /\ r.day <= today /\ r.recipe \in Recipes[b] /\ r.date \in Days
      /\ r.day \in Nat /\ r.date \in Nat
  <2>1. r.day \in Nat /\ r.date \in Nat
    BY <1>3 DEF Asked
  <2>. QED
    BY <1>2, <1>3, <2>1 DEF RequestInv
<1>5. vs \in Seq(Version) /\ v \in Version /\ \A n \in DOMAIN vs : vs[n].recipe \in Recipes[b]
  BY <1>1, <1>4, RecipeFacts DEF VersionInv, Types, Version
<1>6. /\ us \in Seq(Version) /\ Len(us) = Len(vs) + 1 /\ Len(vs) \in Nat
      /\ \A n \in 1 .. Len(vs) : us[n] = vs[n]
      /\ us[Len(vs) + 1] = v
      /\ DOMAIN vs = 1 .. Len(vs) /\ DOMAIN us = 1 .. Len(vs) + 1
  <2>. HIDE DEF v
  <2>1. us \in Seq(Version) /\ Len(us) = Len(vs) + 1 /\ Len(vs) \in Nat
        /\ \A n \in 1 .. Len(vs) : us[n] = vs[n]
        /\ us[Len(vs) + 1] = v
    BY <1>5, AppendProperties
  <2>. QED
    BY <1>5, <2>1, LenProperties
<1>. HIDE DEF us
<1>7. \A n \in DOMAIN us : us[n].recipe \in Recipes[b]
  <2>. SUFFICES ASSUME NEW n \in DOMAIN us PROVE us[n].recipe \in Recipes[b]
    OBVIOUS
  <2>1. CASE n \in 1 .. Len(vs)
    BY <1>5, <1>6, <2>1
  <2>2. CASE n = Len(vs) + 1
    BY <1>4, <1>6, <2>2
  <2>. QED
    BY <1>6, <2>1, <2>2
<1>8. ASSUME b \notin overnight', NEW date \in Nat, date <= today, InEffect(vs, date) \in DOMAIN vs
      PROVE  /\ InEffect(us, date) = InEffect(vs, date)
             /\ us[InEffect(us, date)].recipe = vs[InEffect(us, date)].recipe
  <2>1. r.day = today
    BY <1>2, <1>3, <1>4, <1>8 DEF Answered
  <2>2. \E n \in DOMAIN vs : vs[n].from <= date
    <3>1. InEffect(vs, date) # 0
      BY <1>6, <1>8
    <3>. QED
      BY <1>5, <3>1, InEffectStarted
  <2>3. InEffect(vs, today) # 0
    <3>1. PICK n \in DOMAIN vs : vs[n].from <= date
      BY <2>2
    <3>2. vs[n].from \in Int
      <4>1. vs[n] \in Version
        BY <1>5, <1>6, <3>1, ElementOfSeq
      <4>. QED
        BY <4>1 DEF Version, Days
    <3>3. vs[n].from <= today
      BY <1>3, <1>8, <3>1, <3>2
    <3>4. InEffect(vs, today) \in DOMAIN vs
      BY <1>3, <1>5, <3>3, InEffectStarted
    <3>. QED
      BY <1>6, <3>4
  <2>4. r.date > today
    BY <1>2, <1>3, <1>4, <2>1, <2>3 DEF MayStart
  <2>5. ~(us[Len(vs) + 1].from <= date)
    BY <1>3, <1>4, <1>6, <1>8, <2>4
  <2>6. /\ {n \in DOMAIN us : us[n].from <= date} = {n \in DOMAIN vs : vs[n].from <= date}
        /\ \A n \in DOMAIN vs : vs[n].from <= date => us[n].from = vs[n].from
    BY <1>6, <2>5
  <2>7. InEffect(us, date) = InEffect(vs, date)
    BY <2>6, InEffectSame
  <2>. QED
    BY <1>6, <1>8, <2>7
<1>9. b \notin overnight' =>
        \A date \in Nat : date <= today /\ InEffect(versions[b], date) \in DOMAIN versions[b] =>
          /\ InEffect(us, date) = InEffect(versions[b], date)
          /\ us[InEffect(us, date)].recipe = versions[b][InEffect(us, date)].recipe
  BY <1>8
<1>10. DOMAIN versions[b] \subseteq DOMAIN us
  BY <1>6
<1>. QED
  BY <1>2, <1>4, <1>6, <1>7, <1>9, <1>10, VersionsWrittenInv

\* A version corrected has not started by the day the request began on.
LEMMA CorrectVersionInv == ASSUME Inv, NEW w \in Workers, CorrectVersion(w) PROVE Inv'
<1>. SUFFICES ASSUME NEW r, r = req[w], NEW b, b = r.bom, NEW vs, vs = versions[b] PROVE Inv'
  OBVIOUS
<1>. DEFINE k == r.version
            us == [vs EXCEPT ![k].recipe = r.recipe]
<1>1. Types /\ VersionInv
  BY DEF Inv
<1>2. /\ pc[w] = "write" /\ r.kind = "correct" /\ ~(vs[k].from <= r.day)
      /\ versions' = [versions EXCEPT ![b] = us] /\ UNCHANGED order /\ Answered(w, b)
  BY <1>1 DEF CorrectVersion, HasTakenEffect, Types
<1>3. RequestInv(w) /\ r \in Asked /\ today \in Nat
  BY <1>1 DEF VersionInv, Types
<1>4. /\ b \in Boms /\ r.day <= today /\ r.recipe \in Recipes[b] /\ k \in DOMAIN vs
      /\ r.day \in Nat
  <2>1. r.day \in Nat
    BY <1>3 DEF Asked
  <2>. QED
    BY <1>2, <1>3, <2>1 DEF RequestInv
<1>5. vs \in Seq(Version) /\ \A n \in DOMAIN vs : vs[n].recipe \in Recipes[b]
  BY <1>1, <1>4 DEF VersionInv, Types
<1>6. Len(vs) \in Nat /\ DOMAIN vs = 1 .. Len(vs) /\ \A n \in DOMAIN vs : vs[n] \in Version
  BY <1>5, LenProperties, ElementOfSeq
<1>7. /\ DOMAIN us = DOMAIN vs /\ \A n \in DOMAIN vs \ {k} : us[n] = vs[n]
      /\ us[k] = [vs[k] EXCEPT !.recipe = r.recipe]
  BY <1>4, <1>6
<1>8. us[k] \in Version /\ us[k].from = vs[k].from /\ us[k].recipe = r.recipe
  <2>1. vs[k] \in Version /\ r.recipe \in AnyRecipe
    BY <1>4, <1>6, RecipeFacts
  <2>. QED
    BY <1>7, <2>1 DEF Version
<1>. HIDE DEF us
<1>9. us \in Seq(Version) /\ \A n \in DOMAIN us : us[n].recipe \in Recipes[b] /\ us[n].from = vs[n].from
  <2>1. \A n \in DOMAIN us : us[n] \in Version /\ us[n].recipe \in Recipes[b] /\ us[n].from = vs[n].from
    <3>. SUFFICES ASSUME NEW n \in DOMAIN us
                  PROVE  us[n] \in Version /\ us[n].recipe \in Recipes[b] /\ us[n].from = vs[n].from
      OBVIOUS
    <3>1. CASE n = k
      BY <1>4, <1>8, <3>1
    <3>2. CASE n # k
      BY <1>5, <1>6, <1>7, <3>2
    <3>. QED
      BY <3>1, <3>2
  <2>2. us = [n \in 1 .. Len(vs) |-> us[n]]
    BY <1>6, <1>7 DEF us
  <2>3. us \in [1 .. Len(vs) -> Version]
    BY <1>6, <1>7, <2>1, <2>2
  <2>4. us \in Seq(Version)
    BY <1>6, <2>3, FunctionIsSeq
  <2>. QED
    BY <2>1, <2>4
<1>10. ASSUME b \notin overnight', NEW date \in Nat, date <= today, InEffect(vs, date) \in DOMAIN vs
      PROVE  /\ InEffect(us, date) = InEffect(vs, date)
             /\ us[InEffect(us, date)].recipe = vs[InEffect(us, date)].recipe
  <2>1. r.day = today
    BY <1>2, <1>3, <1>4, <1>10 DEF Answered
  <2>2. InEffect(us, date) = InEffect(vs, date)
    <3>1. /\ {n \in DOMAIN us : us[n].from <= date} = {n \in DOMAIN vs : vs[n].from <= date}
          /\ \A n \in DOMAIN vs : vs[n].from <= date => us[n].from = vs[n].from
      BY <1>7, <1>9
    <3>. QED
      BY <3>1, InEffectSame
  <2>3. vs[InEffect(vs, date)].from <= date
    <3>1. InEffect(vs, date) # 0
      BY <1>6, <1>10
    <3>. QED
      BY <1>5, <3>1, InEffectStarted
  <2>4. InEffect(vs, date) # k
    <3>1. vs[k].from \in Int
      BY <1>4, <1>6 DEF Version, Days
    <3>. QED
      BY <1>2, <1>3, <1>10, <2>1, <2>3, <3>1
  <2>. QED
    BY <1>7, <1>10, <2>2, <2>4
<1>11. b \notin overnight' =>
        \A date \in Nat : date <= today /\ InEffect(versions[b], date) \in DOMAIN versions[b] =>
          /\ InEffect(us, date) = InEffect(versions[b], date)
          /\ us[InEffect(us, date)].recipe = versions[b][InEffect(us, date)].recipe
  BY <1>10
<1>12. DOMAIN versions[b] \subseteq DOMAIN us
  BY <1>7
<1>. QED
  BY <1>2, <1>4, <1>9, <1>11, <1>12, VersionsWrittenInv

------------------------------------------------------------------------------
(* Stock *)

\* What orders move are integers.
LEMMA MovedTypes ==
  ASSUME Types, RowsInv, NEW o \in Orders
  PROVE  /\ HasPosted(o) => Entries(o) \in [Lots -> Int]
         /\ Standing(o) => HasPosted(o)
         /\ MovedBy(o) \in [Lots -> Int]
<1>1. HasPosted(o) => Entries(o) \in [Lots -> Int]
  BY EntriesMove DEF RowsInv
<1>2. Standing(o) => HasPosted(o)
  BY DEF Standing, HasPosted
<1>. HIDE DEF Entries
<1>. QED
  BY <1>1, <1>2 DEF MovedBy

LEMMA NetIsInt == ASSUME Types, RowsInv, NEW l \in Lots PROVE Net(l) \in Int
<1>. DEFINE f == [o \in Orders |-> MovedBy(o)[l]]
<1>1. \A o \in Orders : f[o] \in Int
  BY MovedTypes
<1>. HIDE DEF f
<1>2. SumFunctionOnSet(f, Orders) \in Int
  BY <1>1, Finite, SumInt
<1>. QED
  BY <1>2 DEF Net, f

LEMMA Distributes == \A t, s, x \in Int : t * s \in Int /\ t * (s + x) = t * s + t * x /\ t * (s - x) = t * s - t * x
OBVIOUS

\* Both sides of the account grow by the same.
LEMMA BothGrow ==
  ASSUME NEW t \in Int, NEW s \in Int, NEW r \in Int, NEW c \in Int, NEW x \in Int,
         t * s + r = t * c
  PROVE  t * (s + x) + r = t * (c + x)
<1>1. t * (s + x) = t * s + t * x /\ t * (c + x) = t * c + t * x
  BY Distributes
<1>2. t * s \in Int /\ t * c \in Int /\ t * x \in Int
  BY Distributes
<1>. QED
  BY <1>1, <1>2

\* What the lots are worth, and the roundings of the orders that stand, as sums
\* over all lots and all orders.
Worth(l) == held[l] * cost[l]

Rounded(o) == IF Standing(o) THEN order[o].rounding ELSE 0

ValueIsTheSum ==
  /\ \A l \in Lots : Worth(l) \in Int
  /\ \A o \in Orders : Rounded(o) \in Int
  /\ SumFunctionOnSet([l \in Lots |-> Worth(l)], Lots) \in Int
  /\ SumFunctionOnSet([o \in Orders |-> Rounded(o)], Orders) \in Int
  /\ ValueConserved <=>
       RatioTotal * SumFunctionOnSet([l \in Lots |-> Worth(l)], Lots)
         + SumFunctionOnSet([o \in Orders |-> Rounded(o)], Orders) = RatioTotal * carried

LEMMA ValueIsSum == Types => ValueIsTheSum
<1>. SUFFICES ASSUME Types PROVE ValueIsTheSum
  OBVIOUS
<1>. DEFINE f == [l \in Lots |-> Worth(l)]
            g == [o \in Orders |-> Rounded(o)]
            Posted == {p \in Orders : Standing(p)}
            h == [o \in Posted |-> order[o].rounding]
<1>1. \A l \in Lots : Worth(l) \in Int
  <2>1. \A l \in Lots : held[l] \in Int /\ cost[l] \in Int
    BY DEF Types
  <2>2. \A x, y \in Int : x * y \in Int
    OBVIOUS
  <2>. QED
    BY <2>1, <2>2 DEF Worth
<1>2. \A o \in Orders : order[o].rounding \in Int
  BY DEF Types, OrderRecords
<1>3. \A o \in Orders : Rounded(o) \in Int
  BY <1>2 DEF Rounded
<1>4. SumFunction(f) = SumFunctionOnSet(f, Lots) /\ \A l \in Lots : f[l] \in Int
  BY <1>1 DEF SumFunction
<1>5. /\ Posted \in SUBSET Orders /\ DOMAIN h = Posted /\ \A o \in Orders : g[o] \in Int
      /\ \A o \in Posted : g[o] = h[o]
      /\ \A o \in Orders \ Posted : g[o] = 0
  BY <1>2, <1>3 DEF Rounded
<1>6. SumFunction([l \in Lots |-> held[l] * cost[l]]) = SumFunction(f)
  BY DEF Worth
<1>7. ValueConserved <=> RatioTotal * SumFunction(f) + SumFunction(h) = RatioTotal * carried
  BY <1>6 DEF ValueConserved
<1>. HIDE DEF f, g, h, Posted
<1>8. SumFunctionOnSet(f, Lots) \in Int /\ SumFunctionOnSet(g, Orders) \in Int
  BY <1>4, <1>5, Finite, SumInt
<1>9. SumFunction(h) = SumFunctionOnSet(g, Orders)
  BY <1>5, Finite, SumFiltered
<1>10. /\ SumFunctionOnSet(f, Lots) \in Int
       /\ SumFunctionOnSet(g, Orders) \in Int
       /\ ValueConserved <=>
            RatioTotal * SumFunctionOnSet(f, Lots) + SumFunctionOnSet(g, Orders) = RatioTotal * carried
  BY <1>4, <1>7, <1>8, <1>9
<1>. QED
  BY <1>1, <1>3, <1>10 DEF f, g, ValueIsTheSum

LEMMA ElsewhereInv == ASSUME Inv, NEW l \in Lots, Elsewhere(l) PROVE Inv'
<1>1. Types /\ VersionInv /\ RowsInv /\ LinksInv
      /\ NothingOutlivesItsInputs /\ NetInv /\ WorthInv /\ ValueConserved
  BY DEF Inv
<1>2. PICK d \in {-1, 1} :
        /\ held' \in [Lots -> Nat]
        /\ held'[l] = held[l] + d /\ \A k \in Lots \ {l} : held'[k] = held[k]
        /\ carried' = carried + d * cost[l]
        /\ raised \subseteq raised' /\ (d = 1 => l \in raised')
  <2>1. held[l] \in Nat /\ cost[l] \in Int /\ carried \in Int
    BY <1>1 DEF Types
  <2>2. CASE held[l] > 0 /\ held' = [held EXCEPT ![l] = @ - 1]
             /\ carried' = carried - cost[l] /\ UNCHANGED raised
    <3>1. held[l] - 1 = held[l] + (-1) /\ held[l] - 1 \in Nat /\ carried - cost[l] = carried + (-1) * cost[l]
      BY <2>1, <2>2
    <3>2. held' \in [Lots -> Nat]
          /\ held'[l] = held[l] - 1 /\ \A k \in Lots \ {l} : held'[k] = held[k]
      BY <1>1, <2>2, <3>1 DEF Types
    <3>. QED
      BY <2>2, <3>1, <3>2
  <2>3. CASE held' = [held EXCEPT ![l] = @ + 1]
             /\ carried' = carried + cost[l] /\ raised' = raised \cup {l}
    <3>1. held[l] + 1 \in Nat /\ carried + cost[l] = carried + 1 * cost[l]
      BY <2>1
    <3>2. held' \in [Lots -> Nat]
          /\ held'[l] = held[l] + 1 /\ \A k \in Lots \ {l} : held'[k] = held[k]
      BY <1>1, <2>3, <3>1 DEF Types
    <3>. QED
      BY <2>3, <3>1, <3>2
  <2>. QED
    BY <2>2, <2>3 DEF Elsewhere
<1>3. l \in rows /\ UNCHANGED <<today, versions, order, cost, expiry, rows, genealogy, pc, req, overnight>>
  BY DEF Elsewhere
<1>4. held'[l] = held[l] + d /\ \A k \in Lots \ {l} : held'[k] = held[k]
  BY <1>2
<1>5. Types'
  <2>1. carried' \in Int
    BY <1>1, <1>2 DEF Types
  <2>. QED
    BY <1>1, <1>2, <1>3, <2>1 DEF Types
<1>6. VersionInv'
  BY <1>1, <1>3, PlansKept
<1>7. \A o \in Orders : (HasPosted(o)' <=> HasPosted(o)) /\ (Standing(o)' <=> Standing(o))
        /\ Outputs(o)' = Outputs(o) /\ Entries(o)' = Entries(o) /\ MovedBy(o)' = MovedBy(o)
  <2>. SUFFICES ASSUME NEW o \in Orders
                PROVE  (HasPosted(o)' <=> HasPosted(o)) /\ (Standing(o)' <=> Standing(o))
                       /\ Outputs(o)' = Outputs(o) /\ Entries(o)' = Entries(o) /\ MovedBy(o)' = MovedBy(o)
    OBVIOUS
  <2>1. (HasPosted(o)' <=> HasPosted(o)) /\ (Standing(o)' <=> Standing(o))
    BY <1>3 DEF HasPosted, Standing
  <2>2. Outputs(o)' = Outputs(o)
    BY <1>3 DEF Outputs
  <2>3. Entries(o)' = Entries(o)
    BY <1>3, <2>2 DEF Entries
  <2>4. MovedBy(o)' = MovedBy(o)
    BY <2>1, <2>3 DEF MovedBy
  <2>. QED
    BY <2>1, <2>2, <2>3, <2>4
<1>8. RowsInv'
  <2>1. \A k \in Lots : held'[k] > 0 => k \in rows'
    BY <1>1, <1>3, <1>4 DEF RowsInv
  <2>2. \A k \in rows' \cap OutputLots : HasPosted(k[1])'
    BY <1>1, <1>3 DEF RowsInv, HasPosted
  <2>3. \A o \in Orders : \A k \in Lots : order'[o].picks[k] > 0 => k \in rows'
    BY <1>1, <1>3 DEF RowsInv
  <2>4. \A o \in Orders : HasPosted(o)' => DOMAIN order'[o].actual = DOMAIN order'[o].ratios
    BY <1>1, <1>3, <1>7 DEF RowsInv
  <2>. QED
    BY <2>1, <2>2, <2>3, <2>4 DEF RowsInv
<1>9. LinksInv'
  <2>. SUFFICES ASSUME NEW g \in genealogy
                PROVE  /\ g.order \in Orders /\ HasPosted(g.order)'
                       /\ g.output \in Outputs(g.order)'
                       /\ g.input \in Lots /\ order'[g.order].picks[g.input] > 0
    BY <1>3 DEF LinksInv
  <2>. QED
    BY <1>1, <1>3, <1>7 DEF LinksInv
<1>10. NothingOutlivesItsInputs'
  BY <1>1, <1>3 DEF NothingOutlivesItsInputs
<1>11. NetInv'
  <2>. SUFFICES ASSUME NEW k \in OutputLots \ raised' PROVE held'[k] <= Net(k)'
    BY DEF NetInv
  <2>1. Net(k)' = Net(k)
    <3>1. [o \in Orders |-> MovedBy(o)'[k]] = [o \in Orders |-> MovedBy(o)[k]]
      BY <1>7
    <3>. QED
      BY <3>1 DEF Net
  <2>2. k \in Lots /\ held[k] <= Net(k) /\ Net(k) \in Int /\ held[k] \in Nat
    BY <1>1, <1>2, NetIsInt DEF NetInv, Lots, Types
  <2>3. held'[k] <= held[k]
    BY <1>2, <1>4, <2>2
  <2>4. held'[k] \in Nat
    BY <1>5, <2>2 DEF Types
  <2>. QED
    BY <2>1, <2>2, <2>3, <2>4
<1>12. WorthInv'
  <2>. SUFFICES ASSUME NEW o \in Orders, HasPosted(o)
                PROVE  RatioTotal * SumFunctionOnSet([k \in Lots |-> Entries(o)'[k] * cost[k]], Lots)
                         + order[o].rounding = 0
    BY <1>3, <1>7 DEF WorthInv
  <2>1. [k \in Lots |-> Entries(o)'[k] * cost[k]] = [k \in Lots |-> Entries(o)[k] * cost[k]]
    BY <1>7
  <2>. QED
    BY <1>1, <2>1 DEF WorthInv
<1>13. ValueConserved'
  <2>. DEFINE f == [k \in Lots |-> Worth(k)]
              h == [k \in Lots |-> Worth(k)']
              R == SumFunctionOnSet([o \in Orders |-> Rounded(o)], Orders)
  <2>0. ValueIsTheSum /\ ValueIsTheSum'
    BY <1>1, <1>5, ValueIsSum, PTL
  <2>1. \A k \in Lots : f[k] \in Int /\ h[k] \in Int
    BY <2>0 DEF ValueIsTheSum
  <2>2. \A k \in Lots \ {l} : h[k] = f[k]
    BY <1>3, <1>4 DEF Worth
  <2>3. h[l] - f[l] = d * cost[l]
    <3>1. h[l] = (held[l] + d) * cost[l] /\ f[l] = held[l] * cost[l]
      BY <1>3, <1>4 DEF Worth
    <3>2. held[l] \in Int /\ cost[l] \in Int /\ d \in Int
      BY <1>1 DEF Types
    <3>3. \A x, y, z \in Int : (x + y) * z - x * z = y * z
      OBVIOUS
    <3>. QED
      BY <3>1, <3>2, <3>3
  <2>. HIDE DEF f, h
  <2>4. SumFunctionOnSet(h, Lots) = SumFunctionOnSet(f, Lots) + d * cost[l]
    BY <2>1, <2>2, <2>3, Finite, SumChange
  <2>5. RatioTotal * SumFunctionOnSet(f, Lots) + R = RatioTotal * carried
        /\ SumFunctionOnSet(f, Lots) \in Int /\ R \in Int
    BY <1>1, <2>0 DEF f, ValueIsTheSum
  <2>6. SumFunctionOnSet([o \in Orders |-> Rounded(o)'], Orders) = R
    <3>1. [o \in Orders |-> Rounded(o)'] = [o \in Orders |-> Rounded(o)]
      BY <1>3, <1>7 DEF Rounded
    <3>. QED
      BY <3>1
  <2>7. RatioTotal * SumFunctionOnSet(h, Lots) + R = RatioTotal * carried'
    <3>. HIDE DEF R
    <3>. DEFINE x == d * cost[l]
                s == SumFunctionOnSet(f, Lots)
    <3>1. RatioTotal \in Int /\ carried \in Int /\ x \in Int
      BY <1>1, ProductionAssumption DEF Types
    <3>. HIDE DEF x
    <3>2. RatioTotal * s + R = RatioTotal * carried /\ s \in Int /\ R \in Int
      BY <2>5
    <3>. HIDE DEF s
    <3>3. RatioTotal * (s + x) + R = RatioTotal * (carried + x)
      BY <3>1, <3>2, BothGrow
    <3>. QED
      BY <1>2, <2>4, <3>3 DEF s, x
  <2>. QED
    BY <2>0, <2>6, <2>7 DEF h, ValueIsTheSum
<1>. QED
  BY <1>5, <1>6, <1>8, <1>9, <1>10, <1>11, <1>12, <1>13 DEF Inv

------------------------------------------------------------------------------
(* Posting *)

\* The values and costs of an order that can be posted, and its input value as
\* a sum over all lots.
LEMMA CostTypes ==
  ASSUME Types, NEW o \in Orders,
         DOMAIN order[o].actual = DOMAIN order[o].ratios,
         \A i \in DOMAIN order[o].actual : order[o].actual[i] > 0
  PROVE  /\ InputValue(order[o].picks) \in Int
         /\ InputValue(order[o].picks)
              = SumFunctionOnSet([l \in Lots |-> order[o].picks[l] * cost[l]], Lots)
         /\ \A i \in DOMAIN order[o].ratios :
              UnitCost(o, i) \in Int /\ RoundingDifference(o, i) \in Int
<1>. SUFFICES ASSUME NEW picks, picks = order[o].picks
              PROVE  /\ InputValue(picks) \in Int
                     /\ InputValue(picks) = SumFunctionOnSet([l \in Lots |-> picks[l] * cost[l]], Lots)
                     /\ \A i \in DOMAIN order[o].ratios :
                          UnitCost(o, i) \in Int /\ RoundingDifference(o, i) \in Int
  OBVIOUS
<1>. DEFINE P == Picked(picks)
            f == [l \in P |-> picks[l] * cost[l]]
            g == [l \in Lots |-> picks[l] * cost[l]]
<1>1. picks \in [Lots -> Nat] /\ \A l \in Lots : picks[l] \in Nat /\ cost[l] \in Int
  BY TheirTypes DEF Types
<1>2. \A l \in Lots : picks[l] * cost[l] \in Int
  BY <1>1, Distributes
<1>3. P \in SUBSET Lots /\ \A l \in Lots \ P : picks[l] = 0
  BY <1>1 DEF Picked
<1>4. \A l \in Lots \ P : picks[l] * cost[l] = 0
  BY <1>1, <1>3
<1>5. /\ DOMAIN f = P
      /\ \A l \in Lots : g[l] \in Int
      /\ \A l \in P : g[l] = f[l]
      /\ \A l \in Lots \ P : g[l] = 0
  BY <1>2, <1>3, <1>4
<1>6. InputValue(picks) = SumFunction(f)
  BY DEF InputValue
<1>. HIDE DEF P, f, g
<1>7. SumFunction(f) = SumFunctionOnSet(g, Lots) /\ SumFunctionOnSet(g, Lots) \in Int
  BY <1>3, <1>5, Finite, SumFiltered, SumInt
<1>8. InputValue(picks) \in Int
  BY <1>6, <1>7
<1>9. ASSUME NEW i \in DOMAIN order[o].ratios
      PROVE  UnitCost(o, i) \in Int /\ RoundingDifference(o, i) \in Int
  <2>. DEFINE a == RatioTotal * order[o].actual[i]
              v == AllocatedValue(o, i)
  <2>1. order[o].ratios[i] \in Nat /\ order[o].actual[i] \in Nat \ {0} /\ RatioTotal \in Nat \ {0}
    BY <1>9, TheirTypes, ProductionAssumption
  <2>2. a \in Nat \ {0}
    <3>1. \A x, y \in Nat \ {0} : x * y \in Nat \ {0}
      OBVIOUS
    <3>. QED
      BY <2>1, <3>1
  <2>3. v \in Int
    BY <1>8, <2>1, Distributes DEF AllocatedValue
  <2>4. UnitCost(o, i) = RoundHalfUp(v, a) /\ RoundingDifference(o, i) = v - a * UnitCost(o, i)
    BY DEF UnitCost, RoundingDifference
  <2>. HIDE DEF a, v
  <2>5. UnitCost(o, i) \in Int
    BY <2>2, <2>3, <2>4, Rounds
  <2>. QED
    BY <2>2, <2>3, <2>4, <2>5, Distributes
<1>10. InputValue(picks) = SumFunctionOnSet(g, Lots)
  BY <1>6, <1>7
<1>. QED
  BY <1>8, <1>9, <1>10 DEF g

\* The rounding of an order is what its outputs are worth less than its inputs.
LEMMA RoundingIs ==
  ASSUME Types, NEW o \in Orders,
         DOMAIN order[o].actual = DOMAIN order[o].ratios,
         \A i \in DOMAIN order[o].actual : order[o].actual[i] > 0,
         SumFunction(order[o].ratios) = RatioTotal
  PROVE  LET out == [i \in DOMAIN order[o].ratios |-> order[o].actual[i] * UnitCost(o, i)]
             sum == SumFunctionOnSet(out, DOMAIN order[o].ratios) IN
         /\ sum \in Int
         /\ SumFunction([i \in DOMAIN order[o].ratios |-> RoundingDifference(o, i)])
              = RatioTotal * InputValue(order[o].picks) - RatioTotal * sum
<1>. DEFINE D == DOMAIN order[o].ratios
            out == [i \in D |-> order[o].actual[i] * UnitCost(o, i)]
            rd == [i \in D |-> RoundingDifference(o, i)]
            ratios == order[o].ratios
            v == InputValue(order[o].picks)
            share == [i \in D |-> v * ratios[i]]
            back == [i \in D |-> (0 - RatioTotal) * out[i]]
<1>1. /\ IsFiniteSet(D) /\ v \in Int /\ RatioTotal \in Int
      /\ \A i \in D : /\ ratios[i] \in Int /\ order[o].actual[i] \in Int
                      /\ UnitCost(o, i) \in Int /\ rd[i] \in Int
  <2>1. IsFiniteSet(D) /\ RatioTotal \in Int
    BY TheirTypes, ProductionAssumption
  <2>2. \A i \in D : ratios[i] \in Int /\ order[o].actual[i] \in Int
    BY TheirTypes
  <2>3. v \in Int /\ \A i \in D : UnitCost(o, i) \in Int /\ rd[i] \in Int
    BY CostTypes
  <2>. QED
    BY <2>1, <2>2, <2>3
<1>2. \A i \in D : out[i] \in Int /\ share[i] \in Int /\ back[i] \in Int
  <2>1. \A i \in D : out[i] \in Int /\ share[i] \in Int
    BY <1>1, Distributes
  <2>2. (0 - RatioTotal) \in Int
    BY <1>1
  <2>. QED
    BY <2>1, <2>2, Distributes
<1>3. \A i \in D : rd[i] = share[i] + back[i]
  <2>. SUFFICES ASSUME NEW i \in D PROVE rd[i] = share[i] + back[i]
    OBVIOUS
  <2>1. rd[i] = v * ratios[i] - RatioTotal * order[o].actual[i] * UnitCost(o, i)
    BY DEF RoundingDifference, AllocatedValue
  <2>2. \A t, a, u \in Int : t * a * u = t * (a * u)
    OBVIOUS
  <2>3. RatioTotal * order[o].actual[i] * UnitCost(o, i) = RatioTotal * out[i]
    BY <1>1, <2>2
  <2>4. \A t, a \in Int : (0 - t) * a = 0 - t * a
    OBVIOUS
  <2>5. back[i] = 0 - RatioTotal * out[i]
    BY <1>1, <1>2, <2>4
  <2>6. share[i] \in Int /\ RatioTotal * out[i] \in Int /\ share[i] = v * ratios[i]
    BY <1>1, <1>2, Distributes
  <2>. QED
    BY <2>1, <2>3, <2>6, <2>5
<1>4. /\ DOMAIN rd = D /\ DOMAIN ratios = D
      /\ \A i \in D : share[i] = v * ratios[i] /\ back[i] = (0 - RatioTotal) * out[i]
  OBVIOUS
<1>. HIDE DEF D, out, rd, ratios, v, share, back
<1>5. /\ SumFunctionOnSet(out, D) \in Int /\ SumFunctionOnSet(ratios, D) \in Int
      /\ SumFunctionOnSet(share, D) \in Int /\ SumFunctionOnSet(back, D) \in Int
  BY <1>1, <1>2, SumInt
<1>6. SumFunctionOnSet(rd, D) = SumFunctionOnSet(share, D) + SumFunctionOnSet(back, D)
  BY <1>1, <1>2, <1>3, SumPlus
<1>7. SumFunctionOnSet(share, D) = v * SumFunctionOnSet(ratios, D)
  BY <1>1, <1>4, SumTimes
<1>8. SumFunctionOnSet(back, D) = (0 - RatioTotal) * SumFunctionOnSet(out, D)
  <2>1. (0 - RatioTotal) \in Int
    BY <1>1
  <2>. QED
    BY <1>1, <1>2, <1>4, <2>1, SumTimes
<1>9. SumFunctionOnSet(ratios, D) = RatioTotal
  BY <1>4 DEF SumFunction, ratios
<1>10. SumFunction(rd) = SumFunctionOnSet(rd, D)
  BY <1>4 DEF SumFunction
<1>11. SumFunction(rd) = RatioTotal * v - RatioTotal * SumFunctionOnSet(out, D)
  <2>1. \A t, x, s \in Int : x * t + (0 - t) * s = t * x - t * s
    OBVIOUS
  <2>. QED
    BY <1>1, <1>5, <1>6, <1>7, <1>8, <1>9, <1>10, <2>1
<1>. QED
  BY <1>5, <1>11 DEF D, out, rd, v

\* What a posting does: it changes its own order, and costs and expiries of
\* lots of its own, which had no row before and which no order takes.
PostEffect(o, outs, e) ==
  /\ order[o].status = "released" /\ order'[o].status = "posted"
  /\ order'[o] \in OrderRecords
  /\ order'[o].picks = order[o].picks /\ order'[o].actual = order[o].actual
  /\ order'[o].ratios = order[o].ratios /\ order'[o].inputs = order[o].inputs
  /\ order'[o].date = order[o].date /\ order'[o].bom = order[o].bom
  /\ order'[o].version = order[o].version /\ order'[o].planned = order[o].planned
  /\ order' \in [Orders -> OrderRecords]
  /\ \A p \in Orders \ {o} : order'[p] = order[p]
  /\ outs = Outputs(o) /\ e = Entries(o) /\ e \in [Lots -> Int]
  /\ outs \subseteq OutputLots
  /\ \A l \in outs : l[1] = o /\ l \notin rows
  /\ \A l \in outs : e[l] = order[o].actual[Item(l)]
  /\ \A l \in Lots \ outs : e[l] = 0 - order[o].picks[l]
  /\ \A p \in Orders : \A l \in outs : order[p].picks[l] = 0
  /\ DOMAIN order[o].actual = DOMAIN order[o].ratios
  /\ \A i \in DOMAIN order[o].actual : order[o].actual[i] > 0
  /\ \A l \in Picked(order[o].picks) : expiry[l] >= order[o].date
  /\ \A l \in Lots : held[l] + e[l] >= 0 /\ held'[l] = held[l] + e[l]
  /\ \A l \in Lots \ outs : cost'[l] = cost[l] /\ expiry'[l] = expiry[l]
  /\ \A l \in outs : cost'[l] = UnitCost(o, Item(l)) /\ expiry'[l] = OutputExpiry(o, Item(l))
  /\ rows' = rows \cup outs
  /\ genealogy' = genealogy \cup Links(o)
  /\ order'[o].rounding = SumFunction([i \in DOMAIN order[o].ratios |-> RoundingDifference(o, i)])
  /\ UNCHANGED <<today, versions, pc, req, overnight, raised, carried, moves>>

LEMMA PostDoes ==
  ASSUME Inv, NEW o \in Orders, Post(o)
  PROVE  \E outs, e : PostEffect(o, outs, e)
<1>. SUFFICES ASSUME NEW outs, outs = Outputs(o), NEW e, e = Entries(o) PROVE PostEffect(o, outs, e)
  OBVIOUS
<1>1. Types /\ VersionInv /\ RowsInv
  BY DEF Inv
<1>2. /\ DOMAIN order[o].actual = DOMAIN order[o].ratios
      /\ \A i \in DOMAIN order[o].actual : order[o].actual[i] > 0
      /\ \A l \in Picked(order[o].picks) : expiry[l] >= order[o].date
      /\ order[o].status = "released"
      /\ \A l \in Lots : held[l] + e[l] >= 0
  BY DEF Post, Ready, Step, Fits
<1>. DEFINE rounding == SumFunction([i \in DOMAIN order[o].ratios |-> RoundingDifference(o, i)])
            x == [Moved(o, "posted") EXCEPT !.rounding = rounding]
<1>3. /\ order' = [order EXCEPT ![o] = x]
      /\ cost' = [l \in Lots |-> IF l \in outs THEN UnitCost(o, Item(l)) ELSE cost[l]]
      /\ expiry' = [l \in Lots |-> IF l \in outs THEN OutputExpiry(o, Item(l)) ELSE expiry[l]]
      /\ held' = [l \in Lots |-> held[l] + e[l]]
      /\ rows' = rows \cup outs
      /\ genealogy' = genealogy \cup Links(o)
      /\ UNCHANGED <<today, versions, pc, req, overnight, raised, carried, moves>>
  BY DEF Post, Step, others
<1>4. rounding \in Int
  <2>. DEFINE rd == [i \in DOMAIN order[o].ratios |-> RoundingDifference(o, i)]
  <2>1. IsFiniteSet(DOMAIN order[o].ratios)
    BY <1>1, TheirTypes
  <2>2. DOMAIN rd = DOMAIN order[o].ratios /\ \A i \in DOMAIN order[o].ratios : rd[i] \in Int
    BY <1>1, <1>2, CostTypes
  <2>. HIDE DEF rd
  <2>3. SumFunction(rd) \in Int
    BY <2>1, <2>2, FunctionSum
  <2>. QED
    BY <2>3 DEF rd
<1>. HIDE DEF rounding
<1>5. order[o] \in OrderRecords
  BY <1>1, TheirTypes
<1>6. /\ x \in OrderRecords /\ x.status = "posted" /\ x.rounding = rounding
      /\ x.picks = order[o].picks /\ x.actual = order[o].actual
      /\ x.ratios = order[o].ratios /\ x.inputs = order[o].inputs
      /\ x.date = order[o].date /\ x.bom = order[o].bom
      /\ x.version = order[o].version /\ x.planned = order[o].planned
  BY <1>4, <1>5 DEF OrderRecords, Moved
<1>. HIDE DEF x
<1>7. /\ order' \in [Orders -> OrderRecords] /\ order'[o] = x
      /\ \A p \in Orders \ {o} : order'[p] = order[p]
  BY <1>1, <1>3, <1>6 DEF Types
<1>8. /\ e \in [Lots -> Int] /\ outs \subseteq OutputLots /\ outs \subseteq Lots
      /\ \A l \in outs : l[1] = o
      /\ \A l \in outs : e[l] = order[o].actual[Item(l)] - order[o].picks[l]
      /\ \A l \in Lots \ outs : e[l] = 0 - order[o].picks[l]
  BY <1>1, <1>2, EntriesMove, OwnLots
<1>9. \A l \in outs : l \notin rows
  BY <1>1, <1>2, <1>8 DEF RowsInv, HasPosted
<1>10. \A p \in Orders : \A l \in outs : order[p].picks[l] = 0
  <2>. SUFFICES ASSUME NEW p \in Orders, NEW l \in outs PROVE order[p].picks[l] = 0
    OBVIOUS
  <2>1. order[p].picks[l] \in Nat
    BY <1>1, <1>8, TheirTypes
  <2>2. ~(order[p].picks[l] > 0)
    BY <1>1, <1>8, <1>9 DEF RowsInv
  <2>. QED
    BY <2>1, <2>2
<1>11. \A l \in outs : e[l] = order[o].actual[Item(l)]
  <2>. SUFFICES ASSUME NEW l \in outs PROVE e[l] = order[o].actual[Item(l)]
    OBVIOUS
  <2>1. order[o].actual[Item(l)] \in Int
    BY <1>1, <1>2, OwnLots, TheirTypes
  <2>. QED
    BY <1>8, <1>10, <2>1
<1>12. /\ \A l \in Lots : held'[l] = held[l] + e[l]
       /\ \A l \in Lots \ outs : cost'[l] = cost[l] /\ expiry'[l] = expiry[l]
       /\ \A l \in outs : cost'[l] = UnitCost(o, Item(l)) /\ expiry'[l] = OutputExpiry(o, Item(l))
  BY <1>3, <1>8
<1>13. order'[o].rounding = SumFunction([i \in DOMAIN order[o].ratios |-> RoundingDifference(o, i)])
  BY <1>6, <1>7 DEF rounding
<1>. QED
  BY <1>2, <1>3, <1>6, <1>7, <1>8, <1>9, <1>10, <1>11, <1>12, <1>13 DEF PostEffect

\* A posting leaves the entries of every order as they are.
LEMMA PostOthers ==
  ASSUME Inv, NEW o \in Orders, NEW outs, NEW e, PostEffect(o, outs, e)
  PROVE  /\ \A p \in Orders : Outputs(p)' = Outputs(p) /\ Entries(p)' = Entries(p)
         /\ HasPosted(o)' /\ ~HasPosted(o) /\ Standing(o)' /\ ~Standing(o)
         /\ \A p \in Orders \ {o} : (HasPosted(p)' <=> HasPosted(p)) /\ (Standing(p)' <=> Standing(p))
         /\ \A p \in Orders \ {o} : HasPosted(p) => \A l \in outs : Entries(p)[l] = 0
<1>1. Types /\ RowsInv
  BY DEF Inv
<1>2. /\ order'[o].status = "posted" /\ order[o].status = "released"
      /\ \A p \in Orders \ {o} : order'[p] = order[p]
  BY DEF PostEffect
<1>3. \A p \in Orders : /\ order'[p].picks = order[p].picks /\ order'[p].actual = order[p].actual
                        /\ order'[p].ratios = order[p].ratios
  BY <1>2 DEF PostEffect
<1>4. \A p \in Orders : Outputs(p)' = Outputs(p)
  BY <1>3 DEF Outputs
<1>5. \A p \in Orders : Entries(p)' = Entries(p)
  BY <1>3, <1>4 DEF Entries
<1>6. HasPosted(o)' /\ ~HasPosted(o) /\ Standing(o)' /\ ~Standing(o)
  BY <1>2 DEF HasPosted, Standing
<1>7. \A p \in Orders \ {o} : (HasPosted(p)' <=> HasPosted(p)) /\ (Standing(p)' <=> Standing(p))
  BY <1>2 DEF HasPosted, Standing
<1>8. ASSUME NEW p \in Orders \ {o}, HasPosted(p), NEW l \in outs
      PROVE  Entries(p)[l] = 0
  <2>1. l \in OutputLots /\ l \in Lots /\ l[1] = o /\ order[p].picks[l] = 0
    BY <1>1, OwnLots DEF PostEffect
  <2>2. l \notin Outputs(p)
    BY <1>1, <2>1, OwnLots
  <2>3. DOMAIN order[p].actual = DOMAIN order[p].ratios
    BY <1>1, <1>8 DEF RowsInv
  <2>. QED
    BY <1>1, <2>1, <2>2, <2>3, EntriesMove
<1>. QED
  BY <1>4, <1>5, <1>6, <1>7, <1>8

\* What it writes has its type: no balance goes below zero.
LEMMA PostTypes ==
  ASSUME Inv, NEW o \in Orders, Post(o), NEW outs, NEW e, PostEffect(o, outs, e)
  PROVE  Types'
<1>1. Types
  BY DEF Inv
<1>2. \A i \in DOMAIN order[o].ratios : UnitCost(o, i) \in Int
  BY <1>1, CostTypes DEF PostEffect
<1>3. \A l \in outs : Item(l) \in DOMAIN order[o].ratios
  BY <1>1, OwnLots DEF PostEffect
<1>4. \A l \in outs : OutputExpiry(o, Item(l)) \in Nat
  <2>. SUFFICES ASSUME NEW l \in outs PROVE OutputExpiry(o, Item(l)) \in Nat
    OBVIOUS
  <2>. DEFINE S == {order[o].date + ShelfLife[Item(l)]} \cup {expiry[k] : k \in Picked(order[o].picks)}
  <2>1. order[o].date \in Nat /\ ShelfLife[Item(l)] \in Nat
    BY <1>1, <1>3, TheirTypes, ProductionAssumption DEF OrderRecords
  <2>2. \A k \in Picked(order[o].picks) : expiry[k] \in Nat
    BY <1>1 DEF Picked, Types
  <2>3. S \in SUBSET Nat /\ S # {}
    BY <2>1, <2>2
  <2>4. OutputExpiry(o, Item(l)) = Min(S)
    BY DEF OutputExpiry
  <2>. HIDE DEF S
  <2>. QED
    BY <2>3, <2>4, Smallest
<1>5. /\ \E f : cost' = [l \in Lots |-> f[l]]
      /\ \E f : expiry' = [l \in Lots |-> f[l]]
      /\ \E f : held' = [l \in Lots |-> f[l]]
  <2>1. cost' = [l \in Lots |-> cost'[l]] /\ expiry' = [l \in Lots |-> expiry'[l]]
        /\ held' = [l \in Lots |-> held'[l]]
    BY DEF Post
  <2>. QED
    BY <2>1
<1>6. cost' \in [Lots -> Int]
  <2>1. \A l \in Lots : cost'[l] \in Int
    BY <1>1, <1>2, <1>3 DEF PostEffect, Types
  <2>. QED
    BY <1>5, <2>1
<1>7. expiry' \in [Lots -> Nat]
  <2>1. \A l \in outs : expiry'[l] \in Nat
    BY <1>4 DEF PostEffect
  <2>2. \A l \in Lots \ outs : expiry'[l] = expiry[l] /\ expiry[l] \in Nat
    BY <1>1 DEF PostEffect, Types
  <2>3. \A l \in Lots : expiry'[l] \in Nat
    BY <2>1, <2>2
  <2>. QED
    BY <1>5, <2>3
<1>8. held' \in [Lots -> Nat]
  <2>1. \A l \in Lots : held'[l] \in Nat
    <3>. SUFFICES ASSUME NEW l \in Lots PROVE held'[l] \in Nat
      OBVIOUS
    <3>1. held[l] \in Nat /\ e[l] \in Int /\ held[l] + e[l] >= 0 /\ held'[l] = held[l] + e[l]
      BY <1>1 DEF PostEffect, Types
    <3>. QED
      BY <3>1
  <2>. QED
    BY <1>5, <2>1
<1>9. /\ rows' \in SUBSET Lots /\ order' \in [Orders -> OrderRecords]
      /\ UNCHANGED <<today, versions, pc, req, carried>>
  BY <1>1 DEF PostEffect, Types, Lots
<1>. QED
  BY <1>1, <1>6, <1>7, <1>8, <1>9 DEF Types

\* Lots keep a row for what they hold.
LEMMA PostRows ==
  ASSUME Inv, NEW o \in Orders, NEW outs, NEW e, PostEffect(o, outs, e)
  PROVE  RowsInv'
<1>1. Types /\ RowsInv
  BY DEF Inv
<1>2. \A p \in Orders : /\ order'[p].picks = order[p].picks /\ order'[p].actual = order[p].actual
                        /\ order'[p].ratios = order[p].ratios
  BY DEF PostEffect
<1>3. \A l \in Lots : held'[l] > 0 => l \in rows'
  <2>. SUFFICES ASSUME NEW l \in Lots, l \notin rows, l \notin outs PROVE ~(held'[l] > 0)
    BY DEF PostEffect
  <2>1. held[l] \in Nat /\ order[o].picks[l] \in Nat
    BY <1>1, TheirTypes DEF Types
  <2>2. ~(held[l] > 0) /\ ~(order[o].picks[l] > 0)
    BY <1>1 DEF RowsInv
  <2>3. held'[l] = held[l] + e[l] /\ e[l] = 0 - order[o].picks[l]
    BY DEF PostEffect
  <2>. QED
    BY <2>1, <2>2, <2>3
<1>4. \A l \in rows' \cap OutputLots : HasPosted(l[1])'
  <2>. SUFFICES ASSUME NEW l \in OutputLots, l \in rows' PROVE HasPosted(l[1])'
    OBVIOUS
  <2>1. l[1] \in Orders /\ (l \in rows \/ l[1] = o)
    BY <1>1, OwnLots DEF PostEffect
  <2>2. CASE l[1] = o
    BY <2>2, PostOthers DEF PostEffect, HasPosted
  <2>3. CASE l[1] # o
    <3>1. HasPosted(l[1]) /\ order'[l[1]] = order[l[1]]
      BY <1>1, <2>1, <2>3 DEF RowsInv, PostEffect
    <3>. QED
      BY <3>1 DEF HasPosted
  <2>. QED
    BY <2>2, <2>3
<1>5. \A p \in Orders : \A l \in Lots : order'[p].picks[l] > 0 => l \in rows'
  BY <1>1, <1>2 DEF RowsInv, PostEffect
<1>6. \A p \in Orders : HasPosted(p)' => DOMAIN order'[p].actual = DOMAIN order'[p].ratios
  <2>. SUFFICES ASSUME NEW p \in Orders, HasPosted(p)'
                PROVE  DOMAIN order'[p].actual = DOMAIN order'[p].ratios
    OBVIOUS
  <2>1. CASE p = o
    BY <1>2, <2>1 DEF PostEffect
  <2>2. CASE p # o
    BY <1>1, <1>2, <2>2, PostOthers DEF RowsInv
  <2>. QED
    BY <2>1, <2>2
<1>. QED
  BY <1>3, <1>4, <1>5, <1>6 DEF RowsInv

\* Links are of what was taken, and no output lasts longer than that.
LEMMA PostLinks ==
  ASSUME Inv, NEW o \in Orders, NEW outs, NEW e, PostEffect(o, outs, e)
  PROVE  LinksInv' /\ NothingOutlivesItsInputs'
<1>1. Types /\ RowsInv /\ LinksInv /\ NothingOutlivesItsInputs
  BY DEF Inv
<1>2. \A p \in Orders : order'[p].picks = order[p].picks /\ order'[p].date = order[p].date
  BY DEF PostEffect
<1>3. /\ \A p \in Orders : Outputs(p)' = Outputs(p)
      /\ HasPosted(o)' /\ ~HasPosted(o)
      /\ \A p \in Orders \ {o} : HasPosted(p)' <=> HasPosted(p)
  BY PostOthers
<1>. SUFFICES ASSUME NEW g \in genealogy'
              PROVE  /\ g.order \in Orders /\ HasPosted(g.order)'
                     /\ g.output \in Outputs(g.order)'
                     /\ g.input \in Lots /\ order'[g.order].picks[g.input] > 0
                     /\ expiry'[g.output] <= expiry'[g.input]
                     /\ order'[g.order].date <= expiry'[g.input]
  BY DEF LinksInv, NothingOutlivesItsInputs
<1>4. CASE g \in genealogy
  <2>1. /\ g.order \in Orders /\ HasPosted(g.order) /\ g.order # o
        /\ g.output \in Outputs(g.order)
        /\ g.input \in Lots /\ order[g.order].picks[g.input] > 0
    BY <1>1, <1>3, <1>4 DEF LinksInv
  <2>2. g.output \in Lots /\ g.output \notin outs
    BY <1>1, <2>1, OwnLots DEF PostEffect
  <2>3. g.input \notin outs
    BY <2>1 DEF PostEffect
  <2>4. expiry'[g.output] = expiry[g.output] /\ expiry'[g.input] = expiry[g.input]
    BY <2>1, <2>2, <2>3 DEF PostEffect
  <2>5. expiry[g.output] <= expiry[g.input] /\ order[g.order].date <= expiry[g.input]
    BY <1>1, <1>4 DEF NothingOutlivesItsInputs
  <2>. QED
    BY <1>2, <1>3, <2>1, <2>4, <2>5
<1>5. CASE g \in Links(o)
  <2>1. PICK out \in outs, l \in Picked(order[o].picks) :
          g = [order |-> o, output |-> out, input |-> l, quantity |-> order[o].picks[l]]
    BY <1>5 DEF Links, PostEffect
  <2>2. g.order = o /\ g.output = out /\ g.input = l
    BY <2>1
  <2>3. l \in Lots /\ order[o].picks[l] > 0 /\ expiry[l] >= order[o].date /\ l \notin outs
    BY DEF Picked, PostEffect
  <2>4. expiry'[l] = expiry[l] /\ expiry'[out] = OutputExpiry(o, Item(out))
    BY <2>3 DEF PostEffect
  <2>5. OutputExpiry(o, Item(out)) <= expiry[l]
    <3>. DEFINE S == {order[o].date + ShelfLife[Item(out)]} \cup {expiry[k] : k \in Picked(order[o].picks)}
    <3>1. order[o].date \in Nat /\ ShelfLife[Item(out)] \in Nat
      BY <1>1, TheirTypes, OwnLots, ProductionAssumption DEF OrderRecords, PostEffect
    <3>2. \A k \in Picked(order[o].picks) : expiry[k] \in Nat
      BY <1>1 DEF Picked, Types
    <3>3. S \in SUBSET Nat /\ S # {} /\ expiry[l] \in S
      BY <3>1, <3>2
    <3>4. OutputExpiry(o, Item(out)) = Min(S)
      BY DEF OutputExpiry
    <3>. HIDE DEF S
    <3>5. \A x \in S : Min(S) <= x
      BY <3>3, Smallest
    <3>. QED
      BY <3>3, <3>4, <3>5
  <2>6. expiry[l] \in Nat /\ order[o].date \in Nat
    BY <1>1, <2>3, TheirTypes DEF Types, OrderRecords
  <2>7. out \in Outputs(o)'
    BY <1>3 DEF PostEffect
  <2>. QED
    BY <1>2, <1>3, <2>2, <2>3, <2>4, <2>5, <2>6, <2>7
<1>. QED
  BY <1>4, <1>5 DEF PostEffect

\* What is held and what standing orders leave change by the same.
LEMMA PostNet ==
  ASSUME Inv, NEW o \in Orders, NEW outs, NEW e, PostEffect(o, outs, e)
  PROVE  NetInv'
<1>1. Types /\ RowsInv /\ NetInv
  BY DEF Inv
<1>2. /\ Standing(o)' /\ ~Standing(o) /\ Entries(o)' = e /\ e \in [Lots -> Int]
      /\ \A p \in Orders \ {o} : MovedBy(p)' = MovedBy(p)
  BY PostOthers DEF MovedBy, PostEffect
<1>3. MovedBy(o)' = e /\ \A l \in Lots : MovedBy(o)[l] = 0
  BY <1>2 DEF MovedBy
<1>. SUFFICES ASSUME NEW l \in OutputLots \ raised PROVE held'[l] <= Net(l)'
  BY DEF NetInv, PostEffect
<1>. DEFINE f == [p \in Orders |-> MovedBy(p)[l]]
            g == [p \in Orders |-> MovedBy(p)'[l]]
<1>4. l \in Lots
  BY DEF Lots
<1>5. \A p \in Orders : f[p] \in Int
  BY <1>1, <1>4, MovedTypes
<1>6. g[o] = e[l] /\ f[o] = 0 /\ e[l] \in Int /\ \A p \in Orders \ {o} : g[p] = f[p]
  BY <1>2, <1>3, <1>4
<1>7. Net(l) = SumFunctionOnSet(f, Orders) /\ Net(l)' = SumFunctionOnSet(g, Orders)
  BY DEF Net
<1>. HIDE DEF f, g
<1>8. \A p \in Orders : g[p] \in Int
  BY <1>5, <1>6
<1>9. SumFunctionOnSet(g, Orders) = SumFunctionOnSet(f, Orders) + (g[o] - f[o])
  BY <1>5, <1>6, <1>8, Finite, SumChange
<1>10. /\ held[l] <= Net(l) /\ held[l] \in Int /\ Net(l) \in Int
       /\ held'[l] = held[l] + e[l]
  BY <1>1, <1>4, NetIsInt DEF NetInv, Types, PostEffect
<1>. QED
  BY <1>6, <1>7, <1>9, <1>10

\* What the posting moves is worth its outputs less its inputs.
LEMMA PostMoves ==
  ASSUME Inv, NEW o \in Orders, Post(o), NEW outs, NEW e, PostEffect(o, outs, e)
  PROVE  /\ \A l \in Lots : e[l] * cost'[l] \in Int
         /\ SumFunctionOnSet([l \in Lots |-> e[l] * cost'[l]], Lots)
              = SumFunctionOnSet([i \in DOMAIN order[o].ratios |-> order[o].actual[i] * UnitCost(o, i)],
                                 DOMAIN order[o].ratios)
                  - InputValue(order[o].picks)
<1>. DEFINE D == DOMAIN order[o].ratios
            at == [i \in D |-> <<o, i>>]
            out == [i \in D |-> order[o].actual[i] * UnitCost(o, i)]
            x == [l \in Lots |-> IF l \in outs THEN order[o].actual[Item(l)] * cost'[l] ELSE 0]
            y == [l \in Lots |-> order[o].picks[l] * cost[l]]
            ny == [l \in Lots |-> 0 - y[l]]
            z == [l \in Lots |-> e[l] * cost'[l]]
<1>1. Types /\ Types'
  BY PostTypes DEF Inv
<1>2. /\ \A l \in Lots : /\ e[l] \in Int /\ cost'[l] \in Int /\ cost[l] \in Int
                         /\ order[o].picks[l] \in Nat
      /\ \A i \in D : order[o].actual[i] \in Int
  <2>1. \A l \in Lots : e[l] \in Int /\ cost'[l] \in Int /\ cost[l] \in Int
    BY <1>1 DEF PostEffect, Types
  <2>2. \A i \in D : order[o].actual[i] \in Int
    BY <1>1, TheirTypes DEF PostEffect
  <2>. QED
    BY <1>1, <2>1, <2>2, TheirTypes
<1>3. /\ \A l \in outs : /\ l \in Lots /\ Item(l) \in D /\ l = <<o, Item(l)>>
                         /\ e[l] = order[o].actual[Item(l)] /\ order[o].picks[l] = 0
                         /\ cost'[l] = UnitCost(o, Item(l))
      /\ \A l \in Lots \ outs : e[l] = 0 - order[o].picks[l] /\ cost'[l] = cost[l]
  BY <1>1, OwnLots DEF PostEffect
<1>4. \A i \in D : <<o, i>> \in outs /\ <<o, i>> \in Lots /\ Item(<<o, i>>) = i
  BY <1>1, OwnLots DEF PostEffect
<1>5. \A l \in Lots : z[l] \in Int /\ y[l] \in Int /\ ny[l] \in Int
  BY <1>2, Distributes
<1>6. \A l \in Lots : x[l] \in Int
  BY <1>2, <1>3, Distributes
<1>7. \A l \in Lots : z[l] = x[l] + ny[l]
  <2>. SUFFICES ASSUME NEW l \in Lots PROVE z[l] = x[l] + ny[l]
    OBVIOUS
  <2>1. CASE l \in outs
    <3>1. y[l] = 0 * cost[l] /\ 0 * cost[l] = 0
      BY <1>2, <1>3, <2>1
    <3>2. z[l] = order[o].actual[Item(l)] * cost'[l] /\ x[l] = order[o].actual[Item(l)] * cost'[l]
      BY <1>3, <2>1
    <3>. QED
      BY <1>5, <1>6, <3>1, <3>2
  <2>2. CASE l \notin outs
    <3>1. z[l] = (0 - order[o].picks[l]) * cost[l] /\ x[l] = 0
      BY <1>3, <2>2
    <3>2. \A t, a \in Int : (0 - t) * a = 0 - t * a
      OBVIOUS
    <3>3. z[l] = 0 - y[l]
      BY <1>2, <3>1, <3>2
    <3>. QED
      BY <1>5, <3>1, <3>3
  <2>. QED
    BY <2>1, <2>2
<1>8. /\ \A i \in D : at[i] \in Lots
      /\ \A i, j \in D : at[i] = at[j] => i = j
      /\ \A i \in D : out[i] = x[at[i]]
      /\ \A l \in Lots : (\A i \in D : at[i] # l) => x[l] = 0
  <2>1. \A i \in D : at[i] = <<o, i>>
    OBVIOUS
  <2>2. \A i \in D : out[i] = x[at[i]]
    <3>. SUFFICES ASSUME NEW i \in D PROVE out[i] = x[<<o, i>>]
      OBVIOUS
    <3>1. x[<<o, i>>] = order[o].actual[i] * cost'[<<o, i>>]
      BY <1>4
    <3>2. cost'[<<o, i>>] = UnitCost(o, i)
      BY <1>3, <1>4
    <3>. QED
      BY <3>1, <3>2
  <2>3. \A l \in Lots : (\A i \in D : at[i] # l) => x[l] = 0
    BY <1>3, <2>1
  <2>. QED
    BY <1>4, <2>1, <2>2, <2>3
<1>9. IsFiniteSet(D) /\ IsFiniteSet(Lots)
  BY <1>1, TheirTypes, Finite
<1>10. InputValue(order[o].picks) = SumFunctionOnSet(y, Lots)
  BY <1>1, CostTypes DEF PostEffect
<1>11. \A l \in Lots : ny[l] = 0 - y[l]
  OBVIOUS
<1>12. \A l \in Lots : e[l] * cost'[l] \in Int
  BY <1>5
<1>. HIDE DEF D, at, out, x, y, ny, z
<1>13. SumFunctionOnSet(z, Lots) = SumFunctionOnSet(x, Lots) + SumFunctionOnSet(ny, Lots)
  BY <1>5, <1>6, <1>7, <1>9, SumPlus
<1>14. SumFunctionOnSet(ny, Lots) = 0 - SumFunctionOnSet(y, Lots)
  BY <1>5, <1>9, <1>11, SumNegative
<1>15. SumFunctionOnSet(out, D) = SumFunctionOnSet(x, Lots)
  BY <1>6, <1>8, <1>9, SumReindex
<1>16. SumFunctionOnSet(x, Lots) \in Int /\ SumFunctionOnSet(y, Lots) \in Int
  BY <1>5, <1>6, <1>9, SumInt
<1>17. SumFunctionOnSet(z, Lots) = SumFunctionOnSet(out, D) - InputValue(order[o].picks)
  BY <1>10, <1>13, <1>14, <1>15, <1>16
<1>. QED
  BY <1>12, <1>17 DEF D, out, z

\* Its rounding makes up for the difference, which is what it moved.
LEMMA PostBalances ==
  ASSUME Inv, NEW o \in Orders, Post(o), NEW outs, NEW e, PostEffect(o, outs, e)
  PROVE  /\ SumFunctionOnSet([l \in Lots |-> e[l] * cost'[l]], Lots) \in Int
         /\ RatioTotal * SumFunctionOnSet([l \in Lots |-> e[l] * cost'[l]], Lots)
              + order'[o].rounding = 0
<1>. DEFINE sum == SumFunctionOnSet([i \in DOMAIN order[o].ratios |-> order[o].actual[i] * UnitCost(o, i)],
                                    DOMAIN order[o].ratios)
            v == InputValue(order[o].picks)
            moved == SumFunctionOnSet([l \in Lots |-> e[l] * cost'[l]], Lots)
<1>1. Types /\ PlanInv(o) /\ order[o].status # "none"
  BY DEF Inv, VersionInv, PostEffect
<1>2. SumFunction(order[o].ratios) = RatioTotal
  BY <1>1 DEF PlanInv
<1>3. /\ sum \in Int
      /\ order'[o].rounding = RatioTotal * v - RatioTotal * sum
  <2>1. /\ DOMAIN order[o].actual = DOMAIN order[o].ratios
        /\ \A i \in DOMAIN order[o].actual : order[o].actual[i] > 0
        /\ order'[o].rounding
             = SumFunction([i \in DOMAIN order[o].ratios |-> RoundingDifference(o, i)])
    BY DEF PostEffect
  <2>2. /\ sum \in Int
        /\ SumFunction([i \in DOMAIN order[o].ratios |-> RoundingDifference(o, i)])
             = RatioTotal * v - RatioTotal * sum
    BY <1>1, <1>2, <2>1, RoundingIs
  <2>. QED
    BY <2>1, <2>2
<1>4. v \in Int /\ RatioTotal \in Int
  <2>1. /\ DOMAIN order[o].actual = DOMAIN order[o].ratios
        /\ \A i \in DOMAIN order[o].actual : order[o].actual[i] > 0
    BY DEF PostEffect
  <2>2. v \in Int
    BY <1>1, <2>1, CostTypes
  <2>. QED
    BY <2>2, ProductionAssumption
<1>5. moved = sum - v
  BY PostMoves
<1>. HIDE DEF sum, v, moved
<1>6. RatioTotal * (sum - v) = RatioTotal * sum - RatioTotal * v
      /\ RatioTotal * sum \in Int /\ RatioTotal * v \in Int
  BY <1>3, <1>4, Distributes
<1>7. moved \in Int /\ RatioTotal * moved + order'[o].rounding = 0
  BY <1>3, <1>4, <1>5, <1>6
<1>. QED
  BY <1>7 DEF moved

\* Costs change only where other orders move nothing.
LEMMA PostWorth ==
  ASSUME Inv, NEW o \in Orders, Post(o), NEW outs, NEW e, PostEffect(o, outs, e)
  PROVE  WorthInv'
<1>1. Types /\ RowsInv /\ WorthInv
  BY DEF Inv
<1>. SUFFICES ASSUME NEW p \in Orders, HasPosted(p)'
              PROVE  RatioTotal * SumFunctionOnSet([l \in Lots |-> Entries(p)'[l] * cost'[l]], Lots)
                       + order'[p].rounding = 0
  BY DEF WorthInv
<1>2. CASE p = o
  <2>1. Entries(p)' = e
    BY <1>2, PostOthers DEF PostEffect
  <2>2. [l \in Lots |-> Entries(p)'[l] * cost'[l]] = [l \in Lots |-> e[l] * cost'[l]]
    BY <2>1
  <2>. QED
    BY <1>2, <2>2, PostBalances
<1>3. CASE p # o
  <2>1. /\ HasPosted(p) /\ Entries(p)' = Entries(p) /\ order'[p].rounding = order[p].rounding
        /\ \A l \in outs : Entries(p)[l] = 0
    BY <1>3, PostOthers DEF PostEffect
  <2>2. \A l \in Lots : Entries(p)'[l] * cost'[l] = Entries(p)[l] * cost[l]
    <3>. SUFFICES ASSUME NEW l \in Lots PROVE Entries(p)'[l] * cost'[l] = Entries(p)[l] * cost[l]
      OBVIOUS
    <3>1. CASE l \in outs
      <4>1. cost[l] \in Int /\ cost'[l] \in Int
        BY <1>1, PostTypes DEF Types
      <4>2. \A c \in Int : 0 * c = 0
        OBVIOUS
      <4>. QED
        BY <2>1, <3>1, <4>1, <4>2
    <3>2. CASE l \notin outs
      BY <2>1, <3>2 DEF PostEffect
    <3>. QED
      BY <3>1, <3>2
  <2>3. [l \in Lots |-> Entries(p)'[l] * cost'[l]] = [l \in Lots |-> Entries(p)[l] * cost[l]]
    BY <2>2
  <2>. QED
    BY <1>1, <2>1, <2>3 DEF WorthInv
<1>. QED
  BY <1>2, <1>3

\* The stock's worth changes by what was moved, and the rounding makes up for it.
LEMMA PostValue ==
  ASSUME Inv, NEW o \in Orders, Post(o), NEW outs, NEW e, PostEffect(o, outs, e)
  PROVE  ValueConserved'
<1>. DEFINE f == [l \in Lots |-> Worth(l)]
            g == [l \in Lots |-> e[l] * cost'[l]]
            h == [l \in Lots |-> Worth(l)']
            r == [p \in Orders |-> Rounded(p)]
            s == [p \in Orders |-> Rounded(p)']
<1>1. Types /\ Types' /\ RowsInv
  BY PostTypes DEF Inv
<1>2. ValueIsTheSum /\ ValueIsTheSum' /\ ValueConserved
  BY <1>1, ValueIsSum, PTL DEF Inv
<1>3. \A l \in Lots : f[l] \in Int /\ g[l] \in Int /\ h[l] \in Int
  BY <1>2, PostMoves DEF ValueIsTheSum
<1>4. \A l \in Lots : h[l] = f[l] + g[l]
  <2>. SUFFICES ASSUME NEW l \in Lots PROVE h[l] = f[l] + g[l]
    OBVIOUS
  <2>1. /\ held[l] \in Nat /\ cost[l] \in Int /\ cost'[l] \in Int /\ e[l] \in Int
        /\ held'[l] = held[l] + e[l]
    BY <1>1 DEF Types, PostEffect
  <2>2. h[l] = (held[l] + e[l]) * cost'[l] /\ f[l] = held[l] * cost[l] /\ g[l] = e[l] * cost'[l]
    BY <2>1 DEF Worth
  <2>3. \A a, b, c \in Int : (a + b) * c = a * c + b * c
    OBVIOUS
  <2>4. held[l] * cost'[l] = held[l] * cost[l]
    <3>1. CASE l \in outs
      <4>1. held[l] = 0
        BY <1>1, <2>1, <3>1 DEF RowsInv, PostEffect
      <4>2. \A c \in Int : 0 * c = 0
        OBVIOUS
      <4>. QED
        BY <2>1, <4>1, <4>2
    <3>2. CASE l \notin outs
      BY <3>2 DEF PostEffect
    <3>. QED
      BY <3>1, <3>2
  <2>. QED
    BY <2>1, <2>2, <2>3, <2>4
<1>5. \A p \in Orders : r[p] \in Int /\ s[p] \in Int
  BY <1>2 DEF ValueIsTheSum
<1>6. /\ s[o] = order'[o].rounding /\ r[o] = 0
      /\ \A p \in Orders \ {o} : s[p] = r[p]
  BY PostOthers DEF Rounded, PostEffect
<1>7. /\ SumFunctionOnSet(f, Lots) \in Int /\ SumFunctionOnSet(r, Orders) \in Int
      /\ RatioTotal * SumFunctionOnSet(f, Lots) + SumFunctionOnSet(r, Orders) = RatioTotal * carried
  BY <1>2 DEF ValueIsTheSum
<1>8. /\ SumFunctionOnSet(g, Lots) \in Int
      /\ RatioTotal * SumFunctionOnSet(g, Lots) + order'[o].rounding = 0
  BY PostBalances
<1>9. carried' = carried /\ carried \in Int /\ RatioTotal \in Int
  BY <1>1, ProductionAssumption DEF PostEffect, Types
<1>10. ValueConserved' <=>
         RatioTotal * SumFunctionOnSet(h, Lots) + SumFunctionOnSet(s, Orders) = RatioTotal * carried
  BY <1>2, <1>9 DEF ValueIsTheSum
<1>. HIDE DEF f, g, h, r, s
<1>11. SumFunctionOnSet(h, Lots) = SumFunctionOnSet(f, Lots) + SumFunctionOnSet(g, Lots)
  BY <1>3, <1>4, Finite, SumPlus
<1>12. SumFunctionOnSet(s, Orders) = SumFunctionOnSet(r, Orders) + (s[o] - r[o])
  BY <1>5, <1>6, Finite, SumChange
<1>13. RatioTotal * (SumFunctionOnSet(f, Lots) + SumFunctionOnSet(g, Lots))
         = RatioTotal * SumFunctionOnSet(f, Lots) + RatioTotal * SumFunctionOnSet(g, Lots)
  BY <1>7, <1>8, <1>9, Distributes
<1>14. /\ RatioTotal * SumFunctionOnSet(f, Lots) \in Int /\ RatioTotal * SumFunctionOnSet(g, Lots) \in Int
       /\ RatioTotal * carried \in Int
  BY <1>7, <1>8, <1>9, Distributes
<1>. QED
  BY <1>5, <1>6, <1>7, <1>8, <1>10, <1>11, <1>12, <1>13, <1>14

LEMMA PostInv == ASSUME Inv, NEW o \in Orders, Post(o) PROVE Inv'
<1>1. PICK outs, e : PostEffect(o, outs, e)
  BY PostDoes
<1>2. Types' /\ RowsInv' /\ LinksInv' /\ NothingOutlivesItsInputs' /\ NetInv' /\ WorthInv' /\ ValueConserved'
  BY <1>1, PostTypes, PostRows, PostLinks, PostNet, PostWorth, PostValue
<1>3. VersionInv'
  <2>1. VersionInv /\ UNCHANGED <<today, versions, pc, req, overnight>>
    BY <1>1 DEF Inv, PostEffect
  <2>2. \A p \in Orders : order'[p].status # "none" =>
          /\ order[p].status # "none"
          /\ order'[p].date = order[p].date /\ order'[p].bom = order[p].bom
          /\ order'[p].version = order[p].version /\ order'[p].planned = order[p].planned
          /\ order'[p].inputs = order[p].inputs /\ order'[p].ratios = order[p].ratios
    <3>. SUFFICES ASSUME NEW p \in Orders, order'[p].status # "none"
                  PROVE
                    /\ order[p].status # "none"
                    /\ order'[p].date = order[p].date /\ order'[p].bom = order[p].bom
                    /\ order'[p].version = order[p].version /\ order'[p].planned = order[p].planned
                    /\ order'[p].inputs = order[p].inputs /\ order'[p].ratios = order[p].ratios
      OBVIOUS
    <3>1. CASE p = o
      BY <1>1, <3>1 DEF PostEffect
    <3>2. CASE p # o
      BY <1>1, <3>2 DEF PostEffect
    <3>. QED
      BY <3>1, <3>2
  <2>. QED
    BY <2>1, <2>2, PlansKept
<1>. QED
  BY <1>2, <1>3 DEF Inv

------------------------------------------------------------------------------
(* Reversing *)

LEMMA ReverseInv == ASSUME Inv, NEW o \in Orders, Reverse(o) PROVE Inv'
<1>. SUFFICES ASSUME NEW e, e = Entries(o) PROVE Inv'
  OBVIOUS
<1>1. Types /\ VersionInv /\ RowsInv /\ LinksInv
      /\ NothingOutlivesItsInputs /\ NetInv /\ WorthInv /\ ValueConserved
  BY DEF Inv
<1>. DEFINE x == [order[o] EXCEPT !.status = "reversed"]
            back == [l \in Lots |-> 0 - e[l]]
<1>2. /\ order[o].status = "posted" /\ \A l \in Lots : held[l] + back[l] >= 0
      /\ held' = [l \in Lots |-> held[l] + back[l]]
      /\ UNCHANGED <<today, versions, cost, expiry, rows, genealogy, pc, req, overnight, raised, carried, moves>>
  BY DEF Reverse, Fits, others
<1>3. order' = [order EXCEPT ![o] = x]
  BY <1>1 DEF Reverse, Types
<1>4. /\ x \in OrderRecords /\ x.status = "reversed" /\ x.rounding = order[o].rounding
      /\ x.picks = order[o].picks /\ x.actual = order[o].actual
      /\ x.ratios = order[o].ratios /\ x.inputs = order[o].inputs
      /\ x.date = order[o].date /\ x.bom = order[o].bom
      /\ x.version = order[o].version /\ x.planned = order[o].planned
  BY <1>1 DEF Types, OrderRecords
<1>. HIDE DEF x
<1>5. /\ order' \in [Orders -> OrderRecords] /\ order'[o] = x
      /\ \A p \in Orders \ {o} : order'[p] = order[p]
  BY <1>1, <1>3, <1>4 DEF Types
<1>6. \A p \in Orders : /\ order'[p].picks = order[p].picks /\ order'[p].actual = order[p].actual
                        /\ order'[p].ratios = order[p].ratios /\ order'[p].rounding = order[p].rounding
                        /\ order'[p].date = order[p].date
  BY <1>4, <1>5
<1>7. \A p \in Orders : Outputs(p)' = Outputs(p)
  BY <1>6 DEF Outputs
<1>8. \A p \in Orders : Entries(p)' = Entries(p)
  BY <1>6, <1>7 DEF Entries
<1>9. HasPosted(o) /\ HasPosted(o)' /\ Standing(o) /\ ~Standing(o)'
  BY <1>2, <1>4, <1>5 DEF HasPosted, Standing
<1>10. \A p \in Orders \ {o} : (HasPosted(p)' <=> HasPosted(p)) /\ (Standing(p)' <=> Standing(p))
  BY <1>5 DEF HasPosted, Standing
<1>11. \A p \in Orders : HasPosted(p)' <=> HasPosted(p)
  BY <1>9, <1>10
<1>12. /\ e \in [Lots -> Int]
       /\ \A l \in Lots : held[l] \in Nat /\ e[l] \in Int /\ cost[l] \in Int
       /\ \A l \in Lots : held'[l] = held[l] - e[l] /\ held'[l] \in Nat
  <2>1. e \in [Lots -> Int]
    BY <1>1, <1>9, MovedTypes
  <2>2. \A l \in Lots : held[l] \in Nat /\ cost[l] \in Int
    BY <1>1 DEF Types
  <2>3. \A l \in Lots : held'[l] = held[l] - e[l] /\ held'[l] \in Nat
    <3>. SUFFICES ASSUME NEW l \in Lots PROVE held'[l] = held[l] - e[l] /\ held'[l] \in Nat
      OBVIOUS
    <3>1. held'[l] = held[l] + (0 - e[l]) /\ held[l] + (0 - e[l]) >= 0
      BY <1>2
    <3>. QED
      BY <2>1, <2>2, <3>1
  <2>. QED
    BY <2>1, <2>2, <2>3
<1>13. Types'
  <2>1. held' \in [Lots -> Nat]
    BY <1>2, <1>12
  <2>. QED
    BY <1>1, <1>2, <1>5, <2>1 DEF Types
<1>14. VersionInv'
  <2>1. \A p \in Orders : order'[p].status # "none" =>
          /\ order[p].status # "none"
          /\ order'[p].date = order[p].date /\ order'[p].bom = order[p].bom
          /\ order'[p].version = order[p].version /\ order'[p].planned = order[p].planned
          /\ order'[p].inputs = order[p].inputs /\ order'[p].ratios = order[p].ratios
    BY <1>2, <1>4, <1>5
  <2>. QED
    BY <1>1, <1>2, <2>1, PlansKept
<1>15. RowsInv'
  <2>1. \A l \in Lots : held'[l] > 0 => l \in rows'
    <3>. SUFFICES ASSUME NEW l \in Lots, l \notin rows PROVE ~(held'[l] > 0)
      BY <1>2
    <3>1. held[l] = 0
      BY <1>1, <1>12 DEF RowsInv
    <3>2. DOMAIN order[o].actual = DOMAIN order[o].ratios /\ order[o].picks[l] = 0
      <4>1. order[o].picks[l] \in Nat
        BY <1>1, TheirTypes
      <4>. QED
        BY <1>1, <1>9, <4>1 DEF RowsInv
    <3>3. e[l] >= 0
      <4>1. CASE l \in Outputs(o)
        <5>1. order[o].actual[Item(l)] \in Nat
          BY <1>1, <3>2, <4>1, OwnLots, TheirTypes
        <5>. QED
          BY <1>1, <3>2, <4>1, <5>1, EntriesMove
      <4>2. CASE l \notin Outputs(o)
        BY <1>1, <3>2, <4>2, EntriesMove
      <4>. QED
        BY <4>1, <4>2
    <3>. QED
      BY <1>12, <3>1, <3>3
  <2>2. \A l \in rows' \cap OutputLots : HasPosted(l[1])'
    BY <1>1, <1>2, <1>11, OwnLots DEF RowsInv
  <2>3. \A p \in Orders : \A l \in Lots : order'[p].picks[l] > 0 => l \in rows'
    BY <1>1, <1>2, <1>6 DEF RowsInv
  <2>4. \A p \in Orders : HasPosted(p)' => DOMAIN order'[p].actual = DOMAIN order'[p].ratios
    BY <1>1, <1>6, <1>11 DEF RowsInv
  <2>. QED
    BY <2>1, <2>2, <2>3, <2>4 DEF RowsInv
<1>16. LinksInv'
  <2>. SUFFICES ASSUME NEW g \in genealogy
                PROVE  /\ g.order \in Orders /\ HasPosted(g.order)'
                       /\ g.output \in Outputs(g.order)'
                       /\ g.input \in Lots /\ order'[g.order].picks[g.input] > 0
    BY <1>2 DEF LinksInv
  <2>. QED
    BY <1>1, <1>6, <1>7, <1>11 DEF LinksInv
<1>17. NothingOutlivesItsInputs'
  BY <1>1, <1>2, <1>6 DEF NothingOutlivesItsInputs, LinksInv
<1>18. NetInv'
  <2>1. /\ \A p \in Orders \ {o} : MovedBy(p)' = MovedBy(p)
        /\ MovedBy(o) = e /\ \A l \in Lots : MovedBy(o)'[l] = 0
    BY <1>8, <1>9, <1>10, <1>12 DEF MovedBy
  <2>. SUFFICES ASSUME NEW l \in OutputLots \ raised PROVE held'[l] <= Net(l)'
    BY <1>2 DEF NetInv
  <2>. DEFINE f == [p \in Orders |-> MovedBy(p)[l]]
              g == [p \in Orders |-> MovedBy(p)'[l]]
  <2>2. l \in Lots
    BY DEF Lots
  <2>3. \A p \in Orders : f[p] \in Int
    BY <1>1, <2>2, MovedTypes
  <2>4. f[o] = e[l] /\ g[o] = 0 /\ e[l] \in Int /\ \A p \in Orders \ {o} : g[p] = f[p]
    BY <1>12, <2>1, <2>2
  <2>5. Net(l) = SumFunctionOnSet(f, Orders) /\ Net(l)' = SumFunctionOnSet(g, Orders)
    BY DEF Net
  <2>. HIDE DEF f, g
  <2>6. \A p \in Orders : g[p] \in Int
    BY <2>3, <2>4
  <2>7. SumFunctionOnSet(g, Orders) = SumFunctionOnSet(f, Orders) + (g[o] - f[o])
    BY <2>3, <2>4, <2>6, Finite, SumChange
  <2>8. /\ held[l] <= Net(l) /\ held[l] \in Int /\ Net(l) \in Int
        /\ held'[l] = held[l] - e[l]
    BY <1>1, <1>12, <2>2, NetIsInt DEF NetInv
  <2>. QED
    BY <2>4, <2>5, <2>7, <2>8
<1>19. WorthInv'
  <2>. SUFFICES ASSUME NEW p \in Orders, HasPosted(p)
                PROVE  RatioTotal * SumFunctionOnSet([l \in Lots |-> Entries(p)'[l] * cost[l]], Lots)
                         + order'[p].rounding = 0
    BY <1>2, <1>11 DEF WorthInv
  <2>1. [l \in Lots |-> Entries(p)'[l] * cost[l]] = [l \in Lots |-> Entries(p)[l] * cost[l]]
    BY <1>8
  <2>. QED
    BY <1>1, <1>6, <2>1 DEF WorthInv
<1>20. ValueConserved'
  <2>. DEFINE f == [l \in Lots |-> Worth(l)]
              g == [l \in Lots |-> e[l] * cost[l]]
              ng == [l \in Lots |-> 0 - g[l]]
              h == [l \in Lots |-> Worth(l)']
              r == [p \in Orders |-> Rounded(p)]
              s == [p \in Orders |-> Rounded(p)']
  <2>1. ValueIsTheSum /\ ValueIsTheSum'
    BY <1>1, <1>13, ValueIsSum, PTL
  <2>2. \A l \in Lots : f[l] \in Int /\ g[l] \in Int /\ ng[l] \in Int /\ h[l] \in Int
    BY <1>12, <2>1, Distributes DEF ValueIsTheSum
  <2>3. \A l \in Lots : h[l] = f[l] + ng[l] /\ ng[l] = 0 - g[l]
    <3>. SUFFICES ASSUME NEW l \in Lots PROVE h[l] = f[l] + ng[l]
      OBVIOUS
    <3>1. h[l] = (held[l] - e[l]) * cost[l] /\ f[l] = held[l] * cost[l] /\ g[l] = e[l] * cost[l]
      BY <1>2, <1>12 DEF Worth
    <3>2. \A a, b, c \in Int : (a - b) * c = a * c - b * c
      OBVIOUS
    <3>3. h[l] = f[l] - g[l]
      BY <1>12, <3>1, <3>2
    <3>. QED
      BY <2>2, <3>3
  <2>4. \A p \in Orders : r[p] \in Int /\ s[p] \in Int
    BY <2>1 DEF ValueIsTheSum
  <2>5. /\ r[o] = order[o].rounding /\ s[o] = 0
        /\ \A p \in Orders \ {o} : s[p] = r[p]
    BY <1>6, <1>9, <1>10 DEF Rounded
  <2>6. /\ SumFunctionOnSet(f, Lots) \in Int /\ SumFunctionOnSet(r, Orders) \in Int
        /\ RatioTotal * SumFunctionOnSet(f, Lots) + SumFunctionOnSet(r, Orders) = RatioTotal * carried
    BY <1>1, <2>1 DEF ValueIsTheSum
  <2>7. RatioTotal * SumFunctionOnSet(g, Lots) + order[o].rounding = 0
    BY <1>1, <1>9 DEF WorthInv
  <2>8. carried' = carried /\ carried \in Int /\ RatioTotal \in Int
    BY <1>1, <1>2, ProductionAssumption DEF Types
  <2>9. ValueConserved' <=>
          RatioTotal * SumFunctionOnSet(h, Lots) + SumFunctionOnSet(s, Orders) = RatioTotal * carried
    BY <2>1, <2>8 DEF ValueIsTheSum
  <2>. HIDE DEF f, g, ng, h, r, s
  <2>10. SumFunctionOnSet(h, Lots) = SumFunctionOnSet(f, Lots) + SumFunctionOnSet(ng, Lots)
    BY <2>2, <2>3, Finite, SumPlus
  <2>11. /\ SumFunctionOnSet(ng, Lots) = 0 - SumFunctionOnSet(g, Lots)
         /\ SumFunctionOnSet(g, Lots) \in Int
    BY <2>2, <2>3, Finite, SumNegative, SumInt
  <2>12. SumFunctionOnSet(s, Orders) = SumFunctionOnSet(r, Orders) + (s[o] - r[o])
    BY <2>4, <2>5, Finite, SumChange
  <2>13. RatioTotal * (SumFunctionOnSet(f, Lots) - SumFunctionOnSet(g, Lots))
           = RatioTotal * SumFunctionOnSet(f, Lots) - RatioTotal * SumFunctionOnSet(g, Lots)
    BY <2>6, <2>8, <2>11, Distributes
  <2>14. /\ RatioTotal * SumFunctionOnSet(f, Lots) \in Int /\ RatioTotal * SumFunctionOnSet(g, Lots) \in Int
         /\ RatioTotal * carried \in Int
    BY <2>6, <2>8, <2>11, Distributes
  <2>15. SumFunctionOnSet(h, Lots) = SumFunctionOnSet(f, Lots) - SumFunctionOnSet(g, Lots)
    BY <2>6, <2>10, <2>11
  <2>. QED
    BY <2>4, <2>5, <2>6, <2>7, <2>9, <2>12, <2>13, <2>14, <2>15
<1>. QED
  BY <1>13, <1>14, <1>15, <1>16, <1>17, <1>18, <1>19, <1>20 DEF Inv

------------------------------------------------------------------------------
(* The invariant *)

LEMMA InvInit == Init => Inv
<1>. SUFFICES ASSUME Init PROVE Inv
  OBVIOUS
<1>1. PICK b \in Beginnings :
        /\ today = b.today /\ versions = b.versions
        /\ held = [l \in Lots |-> IF l \in OpeningLots THEN b.held[l] ELSE 0]
  BY DEF Init
<1>2. /\ order = [o \in Orders |-> NoOrderYet]
      /\ cost = [l \in Lots |-> IF l \in OpeningLots THEN OpeningCost[l] ELSE 0]
      /\ expiry = [l \in Lots |-> IF l \in OpeningLots THEN OpeningExpiry[l] ELSE 0]
      /\ rows = {l \in Lots : held[l] > 0}
      /\ genealogy = {}
      /\ pc = [w \in Workers |-> "idle"] /\ req = [w \in Workers |-> Idle]
      /\ carried = SumFunction([l \in Lots |-> held[l] * cost[l]])
  BY DEF Init
<1>3. /\ b.today \in Nat /\ b.held \in [OpeningLots -> Nat]
      /\ b.versions \in [Boms -> Seq(Version)]
      /\ \A m \in Boms : \A n \in DOMAIN b.versions[m] : b.versions[m][n].recipe \in Recipes[m]
  <2>1. /\ b.today \in Days /\ b.held \in [OpeningLots -> Nat]
        /\ b.versions \in [Boms -> Seq([from : Days, recipe : UNION {Recipes[m] : m \in Boms}])]
        /\ \A m \in Boms : \A n \in DOMAIN b.versions[m] : b.versions[m][n].recipe \in Recipes[m]
    BY ProductionAssumption
  <2>2. b.today \in Nat
    BY <2>1 DEF Days
  <2>3. Version = [from : Days, recipe : UNION {Recipes[m] : m \in Boms}]
    BY DEF Version, AnyRecipe
  <2>. QED
    BY <2>1, <2>2, <2>3
<1>4. OpeningCost \in [OpeningLots -> Nat] /\ OpeningExpiry \in [OpeningLots -> Nat]
  BY ProductionAssumption
<1>5. /\ cost \in [Lots -> Int] /\ expiry \in [Lots -> Nat] /\ held \in [Lots -> Nat]
      /\ \A l \in OutputLots : l \in Lots /\ held[l] = 0
  <2>1. cost \in [Lots -> Int]
    BY <1>2, <1>4
  <2>2. expiry \in [Lots -> Nat]
    BY <1>2, <1>4
  <2>3. held \in [Lots -> Nat]
    BY <1>1, <1>3
  <2>4. \A l \in OutputLots : l \in Lots /\ l \notin OpeningLots
    BY ProductionAssumption DEF Lots
  <2>5. \A l \in OutputLots : l \in Lots /\ held[l] = 0
    BY <1>1, <2>4
  <2>. QED
    BY <2>1, <2>2, <2>3, <2>5
<1>6. carried \in Int
  <2>. DEFINE f == [l \in Lots |-> held[l] * cost[l]]
  <2>1. DOMAIN f = Lots /\ \A l \in Lots : f[l] \in Int
    BY <1>5, Distributes
  <2>. HIDE DEF f
  <2>2. SumFunction(f) \in Int
    BY <2>1, Finite, FunctionSum
  <2>. QED
    BY <1>2, <2>2 DEF f
<1>7. Types
  <2>1. rows \in SUBSET Lots
    BY <1>2
  <2>2. order \in [Orders -> OrderRecords] /\ req \in [Workers -> Asked]
        /\ pc \in [Workers -> {"idle", "write"}]
    BY <1>2, Blank
  <2>. QED
    BY <1>1, <1>3, <1>5, <1>6, <2>1, <2>2 DEF Types
<1>8. \A o \in Orders : order[o].status = "none" /\ order[o].picks = NoPicks
  BY <1>2 DEF NoOrderYet
<1>9. \A o \in Orders : ~HasPosted(o) /\ ~Standing(o)
  BY <1>8 DEF HasPosted, Standing
<1>10. VersionInv
  BY <1>1, <1>2, <1>3, <1>8 DEF VersionInv, RequestInv, PlanInv
<1>11. RowsInv
  BY <1>2, <1>5, <1>8, <1>9 DEF RowsInv, NoPicks
<1>12. LinksInv /\ NothingOutlivesItsInputs /\ WorthInv
  BY <1>2, <1>9 DEF LinksInv, NothingOutlivesItsInputs, WorthInv
<1>13. NetInv
  <2>. SUFFICES ASSUME NEW l \in OutputLots PROVE held[l] <= Net(l)
    BY DEF NetInv
  <2>. DEFINE f == [o \in Orders |-> MovedBy(o)[l]]
  <2>1. \A o \in Orders : f[o] = 0
    BY <1>5, <1>9 DEF MovedBy
  <2>. HIDE DEF f
  <2>2. SumFunctionOnSet(f, Orders) = 0
    BY <2>1, Finite, SumZero
  <2>3. Net(l) = 0
    BY <2>2 DEF Net, f
  <2>. QED
    BY <1>5, <2>3
<1>14. ValueConserved
  <2>. DEFINE f == [l \in Lots |-> Worth(l)]
              r == [o \in Orders |-> Rounded(o)]
  <2>1. ValueIsTheSum
    BY <1>7, ValueIsSum
  <2>2. carried = SumFunctionOnSet(f, Lots)
    <3>1. [l \in Lots |-> held[l] * cost[l]] = f
      BY DEF Worth
    <3>2. SumFunction(f) = SumFunctionOnSet(f, Lots)
      BY DEF SumFunction
    <3>. QED
      BY <1>2, <3>1, <3>2
  <2>3. \A o \in Orders : r[o] = 0
    BY <1>9 DEF Rounded
  <2>4. SumFunctionOnSet(r, Orders) = 0
    <3>. HIDE DEF r
    <3>. QED
      BY <2>3, Finite, SumZero
  <2>5. RatioTotal * carried \in Int
    BY <1>6, ProductionAssumption, Distributes
  <2>6. ValueConserved <=>
          RatioTotal * SumFunctionOnSet(f, Lots) + SumFunctionOnSet(r, Orders) = RatioTotal * carried
    BY <2>1 DEF ValueIsTheSum
  <2>. HIDE DEF f, r
  <2>. QED
    BY <2>2, <2>4, <2>5, <2>6
<1>. QED
  BY <1>7, <1>10, <1>11, <1>12, <1>13, <1>14 DEF Inv

LEMMA StutterInv == ASSUME Inv, UNCHANGED vars PROVE Inv'
<1>1. UNCHANGED <<today, versions, order, stock, pc, req, overnight, others>>
  BY DEF vars
<1>2. Types /\ VersionInv
  BY DEF Inv
<1>3. Types'
  BY <1>1, <1>2 DEF Types, stock, others
<1>4. VersionInv'
  BY <1>1, <1>2, PlansKept
<1>5. UNCHANGED <<order, stock, others>>
  BY <1>1
<1>. QED
  BY <1>3, <1>4, <1>5, OrdersUntouched DEF Inv

LEMMA InvStep == Inv /\ [Next]_vars => Inv'
<1>. SUFFICES ASSUME Inv, [Next]_vars PROVE Inv'
  OBVIOUS
<1>1. CASE UNCHANGED vars
  BY <1>1, StutterInv
<1>2. CASE NextDay
  BY <1>2, NextDayInv
<1>3. ASSUME NEW w \in Planners, AskForPlan(w) \/ CreateOrder(w) \/ UpdateOrder(w)
      PROVE  Inv'
  <2>1. w \in Workers
    BY DEF Workers
  <2>. QED
    BY <1>3, <2>1, AskForPlanInv, CreateOrderInv, UpdateOrderInv
<1>4. ASSUME NEW w \in Cooks,
             AskForVersion(w) \/ CreateBom(w) \/ AddVersion(w) \/ CorrectVersion(w)
      PROVE  Inv'
  <2>1. w \in Workers
    BY DEF Workers
  <2>. QED
    BY <1>4, <2>1, AskForVersionInv, WriteVersionInv, CorrectVersionInv DEF CreateBom, AddVersion
<1>5. ASSUME NEW w \in Workers, GiveUp(w) PROVE Inv'
  BY <1>5, GiveUpInv
<1>6. ASSUME NEW o \in Orders,
             Release(o) \/ RecordPicks(o) \/ RecordActuals(o) \/ Cancel(o) \/ Post(o) \/ Reverse(o)
      PROVE  Inv'
  BY <1>6, ReleaseInv, RecordPicksInv, RecordActualsInv, CancelInv, PostInv, ReverseInv
<1>7. ASSUME NEW l \in Lots, Elsewhere(l) PROVE Inv'
  BY <1>7, ElsewhereInv
<1>. QED
  BY <1>1, <1>2, <1>3, <1>4, <1>5, <1>6, <1>7 DEF Next

LEMMA Invariant == Spec => []Inv
BY InvInit, InvStep, PTL DEF Spec

------------------------------------------------------------------------------
(* What it gives *)

\* An order follows the version of its BOM in force on its date, whatever
\* requests write orders and BOMs at the same time, unless midnight overtook
\* one of those that wrote these.
THEOREM OrderFollows == Spec => []OrderFollowsItsVersion
<1>1. Inv => OrderFollowsItsVersion
  <2>. SUFFICES ASSUME Inv, NEW o \in Orders, order[o].status # "none",
                       {o, order[o].bom} \cap overnight = {}
                PROVE  LET b == order[o].bom v == versions[b][order[o].version] IN
                       /\ order[o].version = InEffect(versions[b], order[o].date)
                       /\ order[o].ratios = v.recipe.outputs
                       /\ order[o].inputs = PlannedInputs(v.recipe, order[o].planned)
    BY DEF OrderFollowsItsVersion
  <2>1. PlanInv(o)
    BY DEF Inv, VersionInv
  <2>. QED
    BY <2>1 DEF PlanInv
<1>. QED
  BY <1>1, Invariant, PTL

\* An order that stands is never made from a lot whose own order was reversed,
\* unless another document brought stock into the lot: what the standing
\* orders leave of it would be less than nothing.
THEOREM TracesAlwaysReach == Spec => []TracesReach
<1>1. Inv => TracesReach
  <2>. SUFFICES ASSUME Inv, NEW g \in genealogy, Standing(g.order),
                       g.input \in OutputLots \ raised, ~Standing(g.input[1])
                PROVE  FALSE
    BY DEF TracesReach
  <2>. SUFFICES ASSUME NEW o, o = g.order, NEW l, l = g.input PROVE FALSE
    OBVIOUS
  <2>1. Types /\ RowsInv
    BY DEF Inv
  <2>2. /\ o \in Orders /\ Standing(o) /\ order[o].picks[l] > 0
        /\ l \in OutputLots \ raised /\ l \in Lots /\ ~Standing(l[1])
    BY DEF Inv, LinksInv
  <2>3. held[l] <= Net(l) /\ held[l] \in Nat /\ Net(l) \in Int
    BY <2>1, <2>2, NetIsInt DEF Inv, NetInv, Types
  <2>. DEFINE f == [p \in Orders |-> MovedBy(p)[l]]
              taken == [p \in Orders |-> 0 - f[p]]
  <2>4. ASSUME NEW p \in Orders
        PROVE  /\ f[p] \in Int
               /\ taken[p] = IF Standing(p) THEN order[p].picks[l] ELSE 0
               /\ taken[p] \in Nat
    <3>1. order[p].picks[l] \in Nat
      BY <2>1, <2>2, TheirTypes
    <3>2. CASE Standing(p)
      <4>1. l \notin Outputs(p)
        BY <2>1, <2>2, <3>2, OwnLots
      <4>2. DOMAIN order[p].actual = DOMAIN order[p].ratios
        BY <2>1, <3>2, MovedTypes DEF RowsInv
      <4>3. MovedBy(p)[l] = 0 - order[p].picks[l]
        BY <2>1, <2>2, <3>2, <4>1, <4>2, EntriesMove DEF MovedBy
      <4>. QED
        BY <3>1, <3>2, <4>3
    <3>3. CASE ~Standing(p)
      BY <2>2, <3>3 DEF MovedBy
    <3>. QED
      BY <3>2, <3>3
  <2>5. Net(l) = SumFunctionOnSet(f, Orders)
    BY DEF Net
  <2>6. \A p \in Orders : f[p] \in Int /\ taken[p] = 0 - f[p] /\ taken[p] \in Nat
    BY <2>4
  <2>7. taken[o] > 0
    BY <2>2, <2>4
  <2>. HIDE DEF f, taken
  <2>8. SumFunctionOnSet(taken, Orders) = 0 - SumFunctionOnSet(f, Orders)
    BY <2>6, Finite, SumNegative
  <2>9. taken[o] <= SumFunctionOnSet(taken, Orders)
    BY <2>2, <2>6, Finite, SumBounds
  <2>10. taken[o] \in Nat /\ SumFunctionOnSet(taken, Orders) \in Nat
    BY <2>2, <2>6, Finite, SumNat
  <2>. QED
    BY <2>3, <2>5, <2>7, <2>8, <2>9, <2>10
<1>. QED
  BY <1>1, Invariant, PTL

\* No lot expires later than any lot it was made of, over however many orders,
\* and none was made of a lot that had expired on its order's date.
THEOREM NothingLastsLonger == Spec => []NothingOutlivesItsInputs
BY Invariant, PTL DEF Inv

\* Whatever is made of what, posted and reversed, the plant's stock is worth
\* what came into it less what left it, and less the roundings of the orders
\* that stand, to the last digit.
THEOREM ValueAlwaysConserved == Spec => []ValueConserved
BY Invariant, PTL DEF Inv
=============================================================================
