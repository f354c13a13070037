------------------------------ MODULE Production ------------------------------
(***************************************************************************)
(* Production BOMs and production orders: ProductionBomsService and        *)
(* ProductionOrdersService over the ledger, at one plant.                  *)
(*                                                                         *)
(* An order is planned from a BOM version, and a BOM version is written,   *)
(* in two steps: what day it is and what is in force are read before the   *)
(* transaction that locks the document, or the BOM, and writes.  Every     *)
(* other step of an order reads what it goes by under the document's lock, *)
(* or under the ledger's locks of the balances (module Posting), so it is  *)
(* one action.  Picks reserve nothing: other documents move the same lots  *)
(* between the release and the posting.                                    *)
(*                                                                         *)
(* Left out, as they refuse a step and nothing else: deactivated BOMs,     *)
(* locations and items, and measured weights and pieces.  Money is whole,  *)
(* allocation ratios are parts of RatioTotal, and values are counted in    *)
(* RatioTotal-ths, so that an allocated value is exact.                    *)
(***************************************************************************)
EXTENDS Integers, Sequences, FiniteSets, FiniteSetsExt, Functions

CONSTANTS
  Boms, Orders,
  Planners, Cooks,   \* requests about orders, and about BOMs, at a time
  OpeningLots,       \* pairs of a document and an item, as the orders' lots are
  Number,            \* where a lot's number sorts
  OpeningCost, OpeningExpiry,
  ShelfLife,         \* of every item
  Recipes,           \* what a BOM's version may say: inputs and outputs
  RatioTotal,
  Planned, Taken, Yields,  \* quantities planned, picked by hand, and recorded
  LastDay,           \* bound: business dates are the days 1 .. LastDay
  Beginnings,        \* the day, the versions there are and what the plant holds
  MaxVersions,       \* bound: versions a BOM has in the end
  MaxRevision,       \* bound: a draft is edited only below this revision
  MaxElsewhere,      \* bound: how often other documents move a lot
  NoBom, NoOrder

Workers == Planners \cup Cooks
Items == DOMAIN ShelfLife
OutputLots == Orders \X Items
Lots == OpeningLots \cup OutputLots
Days == 1 .. LastDay

Item(lot) == lot[2]

\* A recipe's inputs are a sequence of items and quantities, its outputs the
\* items and their parts of the cost.
ASSUME ProductionAssumption ==
  /\ IsFiniteSet(OpeningLots) /\ IsFiniteSet(Orders) /\ IsFiniteSet(Items)
  /\ OpeningLots \cap OutputLots = {}
  /\ \A l \in OpeningLots : Item(l) \in Items
  /\ Number \in [Lots -> Nat] /\ \A k, l \in Lots : Number[k] = Number[l] => k = l
  /\ \A f \in {OpeningCost, OpeningExpiry} : f \in [OpeningLots -> Nat]
  /\ ShelfLife \in [Items -> Nat]
  /\ RatioTotal \in Nat \ {0}
  /\ \A b \in Boms : \A r \in Recipes[b] :
       /\ r.inputs \in Seq([item : Items, quantity : Nat \ {0}]) /\ r.inputs # <<>>
       /\ \E outputs \in SUBSET Items : r.outputs \in [outputs -> Nat \ {0}]
       /\ SumFunction(r.outputs) = RatioTotal
  /\ \A b \in Beginnings :
       /\ b.today \in Days /\ b.held \in [OpeningLots -> Nat]
       /\ b.versions \in [Boms -> Seq([from : Days, recipe : UNION {Recipes[m] : m \in Boms}])]
       /\ \A m \in Boms : \A n \in DOMAIN b.versions[m] : b.versions[m][n].recipe \in Recipes[m]
  /\ Planned \cup Taken \subseteq Nat \ {0} /\ Yields \subseteq Nat
  /\ {LastDay, MaxRevision, MaxElsewhere} \subseteq Nat /\ MaxVersions \in [Boms -> Nat]
  /\ NoBom \notin Boms /\ NoOrder \notin Orders

VARIABLES
  today,
  versions,   \* production_bom_versions with their lines, as they were numbered
  order,      \* production_orders, their lines and picks, and the document's header
  cost, expiry,       \* lots
  held,       \* stock_balances at the plant; 0 where there is no row
  rows,       \* the lots that have a balance row at the plant
  genealogy,  \* lot_genealogy
  pc, req,    \* what a worker does, and what the request has read
  \* Kept for the properties, by no code:
  overnight,  \* orders and BOMs written by a request that midnight overtook
  raised,     \* lots that another document brought stock into
  carried,    \* value other documents brought, opening balances too, or took
  moves       \* how often they did

stock == <<cost, expiry, held, rows, genealogy>>
others == <<raised, carried, moves>>
vars == <<today, versions, order, stock, pc, req, overnight, others>>

------------------------------------------------------------------------------
(* dated-versions.ts *)

\* The number of the version in force on a day, 0 when none is.
InEffect(vs, day) ==
  LET started == {n \in DOMAIN vs : vs[n].from <= day}
  IN IF started = {} THEN 0
     ELSE CHOOSE n \in started : \A m \in started : vs[m].from <= vs[n].from

\* Mutant: the first day of a version may still be corrected.
TakenEffectBefore(v, day) == v.from < day

HasTakenEffect(v, day) == v.from <= day

MayStart(vs, from, day) ==
  /\ from >= IF InEffect(vs, day) # 0 THEN day + 1 ELSE day
  /\ \A n \in DOMAIN vs : vs[n].from # from

------------------------------------------------------------------------------
(* production-rules.ts and fefo.ts *)

RoundHalfUp(a, b) == (2 * a + b) \div (2 * b)

\* Every input scaled so that the first is the planned quantity.
PlannedInputs(recipe, planned) ==
  [i \in DOMAIN recipe.inputs |->
    [item |-> recipe.inputs[i].item,
     quantity |-> RoundHalfUp(recipe.inputs[i].quantity * planned, recipe.inputs[1].quantity)]]

FefoOrder(k, l) == expiry[k] < expiry[l] \/ (expiry[k] = expiry[l] /\ Number[k] < Number[l])

\* What fefoPick takes of each lot of an item for a quantity.
FefoPick(item, quantity, day) ==
  LET lots == {l \in Lots : Item(l) = item /\ held[l] > 0 /\ expiry[l] >= day}
      Before(l) == SumFunction([k \in {j \in lots : FefoOrder(j, l)} |-> held[k]])
  IN [l \in Lots |-> IF l \in lots THEN Max({0, Min({held[l], quantity - Before(l)})}) ELSE 0]

NoPicks == [l \in Lots |-> 0]

Picked(picks) == {l \in Lots : picks[l] > 0}

\* suggestedPicks, of a BOM whose inputs are different items.
SuggestedPicks(o) ==
  [l \in Lots |->
    SumFunction([i \in DOMAIN order[o].inputs |->
      FefoPick(order[o].inputs[i].item, order[o].inputs[i].quantity, order[o].date)[l]])]

\* Mutant: everything taken is valued at one lot's cost.
ValueAtOneCost(picks) ==
  SumFunction(picks)
    * cost[CHOOSE l \in Picked(picks) : \A k \in Picked(picks) : Number[l] <= Number[k]]

InputValue(picks) == SumFunction([l \in Picked(picks) |-> picks[l] * cost[l]])

\* allocateCost, for one output: an exact share of the value, and the unit
\* cost it gives, rounded once.
AllocatedValue(o, item) == InputValue(order[o].picks) * order[o].ratios[item]

UnitCost(o, item) ==
  RoundHalfUp(AllocatedValue(o, item), RatioTotal * order[o].actual[item])

RoundingDifference(o, item) ==
  AllocatedValue(o, item) - RatioTotal * order[o].actual[item] * UnitCost(o, item)

\* Mutant: an output lasts its own shelf life, whatever it is made of.
ShelfLifeAlone(o, item) == order[o].date + ShelfLife[item]

OutputExpiry(o, item) ==
  Min({order[o].date + ShelfLife[item]} \cup {expiry[l] : l \in Picked(order[o].picks)})

------------------------------------------------------------------------------
NoOrderYet ==
  [status |-> "none", revision |-> 0, date |-> 0, bom |-> NoBom, version |-> 0, planned |-> 0,
   inputs |-> <<>>, ratios |-> <<>>, picks |-> NoPicks, actual |-> <<>>, rounding |-> 0]

Idle == [kind |-> "none", day |-> 0, order |-> NoOrder, revision |-> 0, bom |-> NoBom,
         version |-> 0, date |-> 0, planned |-> 0, recipe |-> <<>>]

Init ==
  /\ \E b \in Beginnings :
       /\ today = b.today /\ versions = b.versions
       /\ held = [l \in Lots |-> IF l \in OpeningLots THEN b.held[l] ELSE 0]
  /\ order = [o \in Orders |-> NoOrderYet]
  /\ cost = [l \in Lots |-> IF l \in OpeningLots THEN OpeningCost[l] ELSE 0]
  /\ expiry = [l \in Lots |-> IF l \in OpeningLots THEN OpeningExpiry[l] ELSE 0]
  /\ rows = {l \in Lots : held[l] > 0}
  /\ genealogy = {}
  /\ pc = [w \in Workers |-> "idle"]
  /\ req = [w \in Workers |-> Idle]
  /\ overnight = {}
  /\ raised = {} /\ moves = 0
  /\ carried = SumFunction([l \in Lots |-> held[l] * cost[l]])

NextDay ==
  /\ today < LastDay
  /\ today' = today + 1
  /\ UNCHANGED <<versions, order, stock, pc, req, overnight, others>>

------------------------------------------------------------------------------
(* Requests that read before their transaction *)

Begin(w, request) ==
  /\ pc[w] = "idle"
  /\ pc' = [pc EXCEPT ![w] = "write"]
  /\ req' = [req EXCEPT ![w] = request]
  /\ UNCHANGED <<today, versions, order, stock, overnight, others>>

\* plan: the version in force on the order's date, as it is now.
PlanFrom(request) ==
  LET n == InEffect(versions[request.bom], request.date)
  IN [request EXCEPT !.version = n, !.recipe = versions[request.bom][n].recipe]

\* Someone drafts an order, or edits a draft at the revision they see.
AskForPlan(w) ==
  \E o \in Orders, b \in Boms, date \in Days, q \in Planned :
    /\ InEffect(versions[b], date) # 0
    /\ IF order[o].status = "none" THEN \A v \in Workers : req[v].order # o
       ELSE order[o].status = "draft" /\ b = order[o].bom /\ order[o].revision < MaxRevision
    /\ Begin(w, PlanFrom([Idle EXCEPT !.kind = "plan", !.day = today, !.order = o, !.bom = b,
                            !.revision = order[o].revision, !.date = date, !.planned = q]))

\* Someone adds a version to a BOM, or its first, or corrects one that they
\* see has not started.
AskForVersion(w) ==
  \E b \in Boms : \E r \in Recipes[b] :
    \/ \E from \in Days :
         /\ Len(versions[b]) < MaxVersions[b]
         /\ Begin(w, [Idle EXCEPT !.kind = "add", !.day = today, !.bom = b, !.date = from,
                                  !.recipe = r])
    \/ \E n \in DOMAIN versions[b] :
         /\ versions[b][n].recipe # r /\ ~HasTakenEffect(versions[b][n], today)
         /\ Begin(w, [Idle EXCEPT !.kind = "correct", !.day = today, !.bom = b, !.version = n,
                                  !.recipe = r])

\* The request is answered; one that began before midnight is noted.
Answered(w, x) ==
  /\ pc' = [pc EXCEPT ![w] = "idle"]
  /\ req' = [req EXCEPT ![w] = Idle]
  /\ overnight' = IF req[w].day < today THEN overnight \cup {x} ELSE overnight
  /\ UNCHANGED <<today, stock, others>>

\* writePlan: the lines of the version, scaled.
WritePlan(r) ==
  [status |-> "draft", revision |-> r.revision + 1, date |-> r.date, bom |-> r.bom,
   version |-> r.version, planned |-> r.planned,
   inputs |-> PlannedInputs(r.recipe, r.planned), ratios |-> r.recipe.outputs,
   picks |-> NoPicks, actual |-> <<>>, rounding |-> 0]

CreateOrder(w) ==
  LET r == req[w] IN
  /\ pc[w] = "write" /\ r.kind = "plan"
  /\ r.date <= today
  /\ order[r.order].status = "none"
  /\ order' = [order EXCEPT ![r.order] = WritePlan(r)]
  /\ UNCHANGED versions
  /\ Answered(w, r.order)

\* The new plan replaces all there is of the old one: a draft has no picks and
\* no actuals.
UpdateOrder(w) ==
  LET r == req[w] IN
  /\ pc[w] = "write" /\ r.kind = "plan"
  /\ r.date <= today
  /\ order[r.order].status = "draft" /\ order[r.order].revision = r.revision
  /\ order' = [order EXCEPT ![r.order] = WritePlan(r)]
  /\ UNCHANGED versions
  /\ Answered(w, r.order)

\* The day a BOM is written by is the one its request began on.
WriteVersion(w) ==
  LET r == req[w] IN
  /\ pc[w] = "write" /\ r.kind = "add"
  /\ MayStart(versions[r.bom], r.date, r.day)
  /\ versions' = [versions EXCEPT ![r.bom] = Append(@, [from |-> r.date, recipe |-> r.recipe])]
  /\ UNCHANGED order
  /\ Answered(w, r.bom)

CreateBom(w) == WriteVersion(w) /\ versions[req[w].bom] = <<>>

\* addVersion: the BOM is locked, so that versions are numbered one at a time.
AddVersion(w) ==
  /\ WriteVersion(w)
  /\ versions[req[w].bom] # <<>> /\ Len(versions'[req[w].bom]) <= MaxVersions[req[w].bom]

CorrectVersion(w) ==
  LET r == req[w] v == versions[r.bom][r.version] IN
  /\ pc[w] = "write" /\ r.kind = "correct"
  /\ ~HasTakenEffect(v, r.day) /\ v.recipe # r.recipe
  /\ versions' = [versions EXCEPT ![r.bom][r.version].recipe = r.recipe]
  /\ UNCHANGED order
  /\ Answered(w, r.bom)

\* Refused, or dead before the commit: nothing is written.
GiveUp(w) ==
  /\ pc[w] = "write"
  /\ pc' = [pc EXCEPT ![w] = "idle"]
  /\ req' = [req EXCEPT ![w] = Idle]
  /\ UNCHANGED <<today, versions, order, stock, overnight, others>>

------------------------------------------------------------------------------
(* Steps of an order: one transaction each.  A step is refused unless the    *)
(* person saw the document's last revision, which only an edit, planned      *)
(* before its transaction, can miss: revisions are counted while it is a     *)
(* draft.                                                                    *)

Step(o, from, fields) ==
  /\ order[o].status \in from
  /\ order' = [order EXCEPT ![o] = fields]
  /\ UNCHANGED <<today, versions, pc, req, overnight>>

Moved(o, to) == [order[o] EXCEPT !.status = to]

Release(o) ==
  /\ Step(o, {"draft"}, [Moved(o, "released") EXCEPT !.picks = SuggestedPicks(o)])
  /\ UNCHANGED <<stock, others>>

\* A lot of an input's item, once held at the plant, not expired on the
\* order's date.
MayPick(o, l) ==
  /\ \E i \in DOMAIN order[o].inputs : order[o].inputs[i].item = Item(l)
  /\ l \in rows
  /\ expiry[l] >= order[o].date

\* recordActuals: other lots and quantities than FEFO's, or what came out of
\* it; an output may be left to be recorded later.
RecordPicks(o) ==
  \E lots \in SUBSET {l \in Lots : MayPick(o, l)} : \E taken \in [lots -> Taken] :
    LET picks == [l \in Lots |-> IF l \in lots THEN taken[l] ELSE 0] IN
    /\ picks # order[o].picks
    /\ Step(o, {"released"}, [Moved(o, "released") EXCEPT !.picks = picks])
    /\ UNCHANGED <<stock, others>>

RecordActuals(o) ==
  \E outputs \in SUBSET DOMAIN order[o].ratios : \E actual \in [outputs -> Yields] :
    /\ actual # order[o].actual
    /\ Step(o, {"released"}, [Moved(o, "released") EXCEPT !.actual = actual])
    /\ UNCHANGED <<stock, others>>

Cancel(o) ==
  /\ Step(o, {"draft", "released"}, Moved(o, "cancelled"))
  /\ UNCHANGED <<stock, others>>

\* assess: what refuses the posting.
Ready(o) ==
  /\ \A i \in DOMAIN order[o].inputs :
       \E l \in Picked(order[o].picks) : Item(l) = order[o].inputs[i].item
  /\ \A l \in Picked(order[o].picks) : expiry[l] >= order[o].date
  /\ DOMAIN order[o].actual = DOMAIN order[o].ratios
  /\ \A i \in DOMAIN order[o].actual : order[o].actual[i] > 0

\* The lots an order's posting creates.
Outputs(o) == {<<o, i>> : i \in DOMAIN order[o].ratios}

\* What the posting moves: the picks out, the outputs in.
Entries(o) ==
  [l \in Lots |->
    (IF l \in Outputs(o) THEN order[o].actual[Item(l)] ELSE 0) - order[o].picks[l]]

\* The ledger's check: no balance at a plant goes below zero.
\* Mutant: taking from any lot the plant has a row of is let through.
Known(entries) == \A l \in Lots : entries[l] < 0 => l \in rows

Fits(entries) == \A l \in Lots : held[l] + entries[l] >= 0

\* Each output is linked to each lot taken, with all that was taken of it.
Links(o) ==
  {[order |-> o, output |-> out, input |-> l, quantity |-> order[o].picks[l]] :
     out \in Outputs(o), l \in Picked(order[o].picks)}

Post(o) ==
  /\ Ready(o) /\ Fits(Entries(o))
  /\ Step(o, {"released"},
          [Moved(o, "posted") EXCEPT
             !.rounding = SumFunction([i \in DOMAIN order[o].ratios |-> RoundingDifference(o, i)])])
  /\ cost' = [l \in Lots |-> IF l \in Outputs(o) THEN UnitCost(o, Item(l)) ELSE cost[l]]
  /\ expiry' = [l \in Lots |-> IF l \in Outputs(o) THEN OutputExpiry(o, Item(l)) ELSE expiry[l]]
  /\ held' = [l \in Lots |-> held[l] + Entries(o)[l]]
  /\ rows' = rows \cup Outputs(o)
  /\ genealogy' = genealogy \cup Links(o)
  /\ UNCHANGED others

\* reverse: every entry negated; the genealogy stays as history.  A reversed
\* order is a posted one that a reversal names.
Reverse(o) ==
  LET back == [l \in Lots |-> 0 - Entries(o)[l]] IN
  /\ order[o].status = "posted"
  /\ Fits(back)
  /\ order' = [order EXCEPT ![o].status = "reversed"]
  /\ held' = [l \in Lots |-> held[l] + back[l]]
  /\ UNCHANGED <<today, versions, cost, expiry, rows, genealogy, pc, req, overnight, others>>

\* An adjustment or a transfer moves one unit of a lot the plant knows.
Elsewhere(l) ==
  /\ moves < MaxElsewhere /\ l \in rows
  /\ moves' = moves + 1
  /\ \/ held[l] > 0 /\ held' = [held EXCEPT ![l] = @ - 1]
          /\ carried' = carried - cost[l] /\ UNCHANGED raised
     \/ held' = [held EXCEPT ![l] = @ + 1]
          /\ carried' = carried + cost[l] /\ raised' = raised \cup {l}
  /\ UNCHANGED <<today, versions, order, cost, expiry, rows, genealogy, pc, req, overnight>>

Next ==
  \/ NextDay
  \/ \E w \in Planners : AskForPlan(w) \/ CreateOrder(w) \/ UpdateOrder(w)
  \/ \E w \in Cooks : AskForVersion(w) \/ CreateBom(w) \/ AddVersion(w) \/ CorrectVersion(w)
  \/ \E w \in Workers : GiveUp(w)
  \/ \E o \in Orders :
       Release(o) \/ RecordPicks(o) \/ RecordActuals(o) \/ Cancel(o) \/ Post(o) \/ Reverse(o)
  \/ \E l \in Lots : Elsewhere(l)

Spec == Init /\ [][Next]_vars

------------------------------------------------------------------------------
Standing(o) == order[o].status = "posted"

\* An order follows the version of its BOM that is in force on its date, and
\* shows the lines that version has: versions are added for days to come and
\* corrected before they start only, while orders are dated today or before,
\* and neither takes a lock the other does.  Unless midnight overtook the
\* request that wrote the order, or one that wrote the BOM: the day they go by
\* is read before the transaction.
OrderFollowsItsVersion ==
  \A o \in Orders :
    LET b == order[o].bom v == versions[b][order[o].version] IN
    order[o].status # "none" /\ {o, b} \cap overnight = {} =>
      /\ order[o].version = InEffect(versions[b], order[o].date)
      /\ order[o].ratios = v.recipe.outputs
      /\ order[o].inputs = PlannedInputs(v.recipe, order[o].planned)

\* A trace from a lot reaches everything that went into it: an order that
\* stands is never made from a lot whose own order was reversed, though picks
\* reserve nothing and name lots that are long gone.  Nothing else keeps it so
\* than the balance check of postings and reversals, which another document
\* gets round by bringing stock into the lot.
TracesReach ==
  \A g \in genealogy :
    Standing(g.order) /\ g.input \in OutputLots \ raised => Standing(g.input[1])

\* The plant's stock is worth what it opened with and what other documents
\* brought, less what they took, and less the rounding differences of the
\* orders that stand, to the last digit: whatever orders were made out of each
\* other's lots, and reversed.
ValueConserved ==
  RatioTotal * SumFunction([l \in Lots |-> held[l] * cost[l]])
    + SumFunction([o \in {p \in Orders : Standing(p)} |-> order[o].rounding])
  = RatioTotal * carried

\* Cutting a chicken does not make it last: no lot expires later than any lot
\* it was made of, over however many orders (ADR-0014), and none was made of a
\* lot that had expired on the order's date.
NothingOutlivesItsInputs ==
  \A g \in genealogy :
    expiry[g.output] <= expiry[g.input] /\ order[g.order].date <= expiry[g.input]
=============================================================================
