----------------------------- MODULE BranchStock -----------------------------
(***************************************************************************)
(* Which lots a sale takes its ingredient from, at one branch and for one  *)
(* item: fefoPick and allocateAtBranch, and the plan of branch consumption *)
(* that locks the balances, reads the lots, reads what was received last   *)
(* and posts, each in a statement of its own, while other processors do    *)
(* the same, transfers arrive and adjustments take lots down.              *)
(* It is the other half of SalesConsumption, and its names are apart from  *)
(* that module's: SalesProofs extends both.                                *)
(***************************************************************************)
EXTENDS Integers, SequencesExt

CONSTANTS
  Lots,        \* the lots of the item that may reach the branch
  Placeholder, \* the branch's placeholder lot for the item
  Number,      \* the order of the lots' numbers
  Expiry,      \* a lot's expiry date
  Held,        \* lots the branch has received, and has a balance row of, already
  Consumers,   \* processors
  Needs,       \* what a sale may use, in the item's base unit
  LastDate,    \* bound: business dates are the days 1 .. LastDate
  MaxArrivals, \* bound: how many arrivals there are in all
  MaxSales,    \* bound: how many sales are taken up in all
  NoTxn, NoLot

Days == 1 .. LastDate
Keys == Lots \cup {Placeholder}

ASSUME BranchAssumption ==
  /\ IsFiniteSet(Lots) /\ Held \subseteq Lots
  /\ Placeholder \notin Lots /\ NoLot \notin Keys /\ NoTxn \notin Consumers
  /\ Number \in [Lots -> Nat] /\ \A a, b \in Lots : Number[a] = Number[b] => a = b
  /\ Expiry \in [Lots -> Nat]
  /\ Needs \subseteq Nat \ {0}
  /\ LastDate \in Nat \ {0} /\ {MaxArrivals, MaxSales} \subseteq Nat

VARIABLES
  arrivals,  \* ledger entries that brought a lot in, as posted: lot and business date
  rows,      \* stock_balances of the item at the branch
  balance,
  rowLock,
  sales,     \* how many sales were taken up
  phase, need, day,
  locked,    \* the rows lockBalancesAt found and locked
  stocked,   \* lotsAt: what it read of the lots with stock
  plan       \* what to take from each lot, and whether that is a shortfall

branchVars == <<arrivals, rows, balance, rowLock, sales, phase, need, day, locked, stocked, plan>>

------------------------------------------------------------------------------
(* core/stock/domain/fefo.ts and domain/consumption-rules.ts *)

FefoOrder(a, b) ==
  Expiry[a] < Expiry[b] \/ (Expiry[a] = Expiry[b] /\ Number[a] < Number[b])

\* The lots, each before those that expire after it.
FefoSorted(lots) ==
  CHOOSE s \in [1 .. Cardinality(lots) -> lots] :
    \A i, j \in 1 .. Cardinality(lots) : i < j => FefoOrder(s[i], s[j])

IsExpired(l, d) == Expiry[l] < d

Smaller(m, n) == IF m < n THEN m ELSE n

\* Mutant: lots past their expiry are picked like any other.
PickExpired(available, order, quantity, d) ==
  LET remaining[i \in 0 .. Len(order)] ==
        IF i = 0 THEN quantity
        ELSE remaining[i - 1] - Smaller(available[order[i]], remaining[i - 1])
  IN remaining

\* What is still to be found when the first i lots have been looked at.
Remaining(available, order, quantity, d) ==
  LET remaining[i \in 0 .. Len(order)] ==
        IF i = 0 THEN quantity
        ELSE IF IsExpired(order[i], d) THEN remaining[i - 1]
        ELSE remaining[i - 1] - Smaller(available[order[i]], remaining[i - 1])
  IN remaining

\* The lots quantity is taken from, earliest expiry first, and what they
\* could not cover.
FefoPick(available, quantity, d) ==
  LET order == FefoSorted(DOMAIN available)
      remaining == Remaining(available, order, quantity, d)
  IN [picks |-> [l \in DOMAIN available |->
                  LET i == CHOOSE j \in DOMAIN order : order[j] = l
                  IN remaining[i - 1] - remaining[i]],
      shortBy |-> remaining[Len(order)]]

\* FEFO first; the rest from the lot received last, or the placeholder.
AllocateAtBranch(available, quantity, d, lastReceived) ==
  LET fefo == FefoPick(available, quantity, d)
      rest == IF lastReceived = NoLot THEN Placeholder ELSE lastReceived
  IN [take |-> [k \in Keys |->
                 (IF k \in DOMAIN available THEN fefo.picks[k] ELSE 0)
                 + (IF k = rest THEN fefo.shortBy ELSE 0)],
      shortfall |-> fefo.shortBy > 0]

\* lastReceivedAt: by business time, then as posted.
LastReceived ==
  LET Later(i, j) ==
        arrivals[i].day > arrivals[j].day \/ (arrivals[i].day = arrivals[j].day /\ i > j)
  IN IF arrivals = <<>> THEN NoLot
     ELSE arrivals[CHOOSE i \in DOMAIN arrivals :
                     \A j \in DOMAIN arrivals \ {i} : Later(i, j)].lot

------------------------------------------------------------------------------
NoPlan == [take |-> [k \in Keys |-> 0], shortfall |-> FALSE]

BranchInit ==
  /\ arrivals = SetToSeq({[lot |-> l, day |-> 1] : l \in Held})
  /\ rows = Held
  /\ balance = [k \in Keys |-> IF k \in Held THEN 1 ELSE 0]
  /\ rowLock = [k \in Keys |-> NoTxn]
  /\ sales = 0
  /\ phase = [c \in Consumers |-> "idle"]
  /\ need = [c \in Consumers |-> 0]
  /\ day = [c \in Consumers |-> 1]
  /\ locked = [c \in Consumers |-> {}]
  /\ stocked = [c \in Consumers |-> <<>>]
  /\ plan = [c \in Consumers |-> NoPlan]

\* A transfer receipt posts one unit of a lot into the branch.
Receive(l, d) ==
  /\ Len(arrivals) < MaxArrivals
  /\ rowLock[l] = NoTxn
  /\ arrivals' = Append(arrivals, [lot |-> l, day |-> d])
  /\ rows' = rows \cup {l}
  /\ balance' = [balance EXCEPT ![l] = @ + 1]
  /\ UNCHANGED <<rowLock, sales, phase, need, day, locked, stocked, plan>>

\* A stock adjustment posts one unit less of a lot the branch has.
Adjust(l) ==
  /\ balance[l] > 0 /\ rowLock[l] = NoTxn
  /\ balance' = [balance EXCEPT ![l] = @ - 1]
  /\ UNCHANGED <<arrivals, rows, rowLock, sales, phase, need, day, locked, stocked, plan>>

\* The posting transaction of a sale's draft has the document and runs plan.
Begin(c, q, d) ==
  /\ phase[c] = "idle" /\ sales < MaxSales
  /\ sales' = sales + 1
  /\ need' = [need EXCEPT ![c] = q]
  /\ day' = [day EXCEPT ![c] = d]
  /\ phase' = [phase EXCEPT ![c] = "lock"]
  /\ UNCHANGED <<arrivals, rows, balance, rowLock, locked, stocked, plan>>

\* Mutant: the rows are read without being locked.
RowsToLock(c) == {}

RowsThere(c) == rows

\* lockBalancesAt.  The rows are locked together: what happens while it waits
\* for one of them is in Posting.
LockBalances(c) ==
  /\ phase[c] = "lock"
  /\ \A k \in RowsThere(c) : rowLock[k] = NoTxn
  /\ rowLock' = [k \in Keys |-> IF k \in RowsThere(c) THEN c ELSE rowLock[k]]
  /\ locked' = [locked EXCEPT ![c] = rows]
  /\ phase' = [phase EXCEPT ![c] = "read"]
  /\ UNCHANGED <<arrivals, rows, balance, sales, need, day, stocked, plan>>

\* lotsAt
ReadLots(c) ==
  /\ phase[c] = "read"
  /\ stocked' = [stocked EXCEPT ![c] =
       [l \in {m \in Lots : m \in rows /\ balance[m] > 0} |-> balance[l]]]
  /\ phase' = [phase EXCEPT ![c] = "allocate"]
  /\ UNCHANGED <<arrivals, rows, balance, rowLock, sales, need, day, locked, plan>>

\* lastReceivedAt, and the allocation.
Allocate(c) ==
  /\ phase[c] = "allocate"
  /\ plan' = [plan EXCEPT ![c] = AllocateAtBranch(stocked[c], need[c], day[c], LastReceived)]
  /\ phase' = [phase EXCEPT ![c] = "write"]
  /\ UNCHANGED <<arrivals, rows, balance, rowLock, sales, need, day, locked, stocked>>

Taken(c) == {k \in Keys : plan[c].take[k] > 0}

End(c) ==
  /\ rowLock' = [k \in Keys |-> IF rowLock[k] = c THEN NoTxn ELSE rowLock[k]]
  /\ phase' = [phase EXCEPT ![c] = "idle"]
  /\ need' = [need EXCEPT ![c] = 0]
  /\ day' = [day EXCEPT ![c] = 1]
  /\ locked' = [locked EXCEPT ![c] = {}]
  /\ stocked' = [stocked EXCEPT ![c] = <<>>]
  /\ plan' = [plan EXCEPT ![c] = NoPlan]
  /\ UNCHANGED <<arrivals, sales>>

\* write takes the rows that are still free, and adds to what they hold then.
Write(c) ==
  /\ phase[c] = "write"
  /\ \A k \in Taken(c) : rowLock[k] \in {c, NoTxn}
  /\ balance' = [k \in Keys |-> balance[k] - plan[c].take[k]]
  /\ rows' = rows \cup Taken(c)
  /\ End(c)

\* The transaction fails, or the database breaks a deadlock.
RollBack(c) ==
  /\ phase[c] # "idle"
  /\ End(c)
  /\ UNCHANGED <<rows, balance>>

Consume(c) == LockBalances(c) \/ ReadLots(c) \/ Allocate(c) \/ Write(c) \/ RollBack(c)

BranchNext ==
  \/ \E l \in Lots : Adjust(l) \/ \E d \in Days : Receive(l, d)
  \/ \E c \in Consumers : Consume(c) \/ \E q \in Needs, d \in Days : Begin(c, q, d)

BranchSpec == BranchInit /\ [][BranchNext]_branchVars

------------------------------------------------------------------------------
(* Properties *)

\* Every variable has its type.
BranchTypeOK ==
  /\ arrivals \in Seq([lot : Lots, day : Days])
  /\ rows \subseteq Keys
  /\ balance \in [Keys -> Int]
  /\ rowLock \in [Keys -> Consumers \cup {NoTxn}]
  /\ sales \in 0 .. MaxSales
  /\ phase \in [Consumers -> {"idle", "lock", "read", "allocate", "write"}]
  /\ need \in [Consumers -> Needs \cup {0}]
  /\ day \in [Consumers -> Days]
  /\ locked \in [Consumers -> SUBSET Keys]
  /\ DOMAIN stocked = Consumers
  /\ \A c \in Consumers : \E S \in SUBSET Lots : stocked[c] \in [S -> Nat \ {0}]
  /\ plan \in [Consumers -> [take : [Keys -> Nat], shortfall : BOOLEAN]]

\* The loops of fefoPick and allocateAtBranch, against what FEFO means: all of
\* the need is taken; beyond the lot that absorbs the rest, nothing comes from
\* a lot that is expired or more than it has; a lot is opened only when every
\* usable lot before it is used up; and the rest goes to one place, when no
\* usable lot has anything left, and is said to be a shortfall.
PlanIsFefo ==
  \A c \in Consumers : phase[c] = "write" =>
    LET take == plan[c].take
        usable == {l \in DOMAIN stocked[c] : ~IsExpired(l, day[c])}
        beyond == {k \in Keys : take[k] > IF k \in usable THEN stocked[c][k] ELSE 0}
    IN /\ SumFunction(take) = need[c]
       /\ \A l \in usable, k \in Taken(c) :
            (k \notin usable \/ FefoOrder(l, k)) => take[l] >= stocked[c][l]
       /\ \A j, k \in beyond : j = k
       /\ beyond # {} => \A l \in usable : take[l] >= stocked[c][l]
       /\ plan[c].shortfall <=> beyond # {}

PostsPlan(c) == phase[c] = "write" /\ phase'[c] = "idle" /\ balance' # balance

\* A sale sends a lot the branch had before below zero only as the shortfall
\* its document says (plan: the rows are locked before they are read).
KnownLotsAreTold ==
  [][\A c \in Consumers : PostsPlan(c) =>
       \A l \in locked[c] \cap Lots :
         balance'[l] < 0 /\ balance'[l] < balance[l] => plan[c].shortfall]_branchVars
=============================================================================
