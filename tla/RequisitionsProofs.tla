-------------------------- MODULE RequisitionsProofs --------------------------
(***************************************************************************)
(* Proofs about module Requisitions, for any number of requisitions,       *)
(* transfers and people, and any quantities.                               *)
(***************************************************************************)
EXTENDS Requisitions, SumTheorems

Types ==
  /\ status \in [Requisitions -> {"none", "draft", "submitted", "cancelled"}]
  /\ revision \in [Requisitions -> Nat]
  /\ requested \in [Requisitions -> Nat]
  /\ beyond \in [Transfers -> Nat]
  /\ of \in [Transfers -> Requisitions \cup {NoRequisition}]
  /\ planned \in [Transfers -> Nat]
  /\ picked \in [Transfers -> Nat]
  /\ stage \in [Transfers -> {"planned", "cancelled", "dispatched", "received", "reversed"}]
  /\ road \in [Transfers -> Nat]
  /\ pc \in [Workers -> {"idle", "read", "lock", "write", "cancel"}]
  /\ req \in [Workers -> [requisition : Requisitions \cup {NoRequisition}, revision : Nat,
                          seen : SUBSET Transfers, send : Nat, extra : Nat]]

\* What a requisition's transfers take up of it, over all transfers.
Shares(q) == [t \in Transfers |-> IF of[t] = q THEN TakesUp(t) ELSE 0]

Demand(q) == SumFunctionOnSet(Shares(q), Transfers)

\* What of that was outstanding.
WithinShares(q) == [t \in Transfers |-> IF of[t] = q THEN Within(t) ELSE 0]

Net(q) == SumFunctionOnSet(WithinShares(q), Transfers)

Positive(n) == IF n > 0 THEN n ELSE 0

\* A transfer is of no requisition until it is written, and of none that was
\* never submitted.
TransferInv(t) ==
  /\ of[t] = NoRequisition => stage[t] = "planned"
  /\ of[t] \in Requisitions => status[of[t]] \in {"submitted", "cancelled"}
  /\ Within(t) \in 0 .. TakesUp(t)

RequisitionInv(q) ==
  /\ Net(q) <= requested[q]
  /\ status[q] = "cancelled" => \A t \in Of(q) : stage[t] \in {"cancelled", "reversed"}

\* What someone goes by who prepares a transfer or cancels: until a revision
\* comes in between, what is to be sent fits, but for what is counted as extra.
Fits(w, q) ==
  pc[w] \in {"lock", "write"} /\ req[w].revision = revision[q] =>
    Net(q) + req[w].send <= requested[q] + req[w].extra

WorkerInv(w) ==
  /\ req[w].extra <= req[w].send
  /\ pc[w] # "idle" => req[w].requisition \in Requisitions
  /\ \A q \in Requisitions : pc[w] # "idle" /\ req[w].requisition = q =>
       /\ status[q] # "none"
       /\ pc[w] # "cancel" => req[w].revision <= revision[q]
       /\ pc[w] = "write" => req[w].revision = revision[q]
       /\ Fits(w, q)

\* Two transactions do not hold the row of one requisition.
HoldsApart ==
  \A v, w \in Workers :
    /\ pc[v] \in {"cancel", "write"} /\ pc[w] \in {"cancel", "write"}
    /\ req[v].requisition = req[w].requisition
    => v = w

Inv ==
  /\ Types
  /\ \A t \in Transfers : TransferInv(t)
  /\ \A q \in Requisitions : RequisitionInv(q)
  /\ \A w \in Workers : WorkerInv(w)
  /\ HoldsApart
------------------------------------------------------------------------------
(* What of a requisition is taken up *)

LEMMA MaxIsPositive ==
  ASSUME NEW n \in Int
  PROVE  Max({0, n}) = Positive(n) /\ Positive(n) \in Nat
<1>1. Positive(n) \in {0, n} /\ \A y \in {0, n} : Positive(n) >= y
  BY DEF Positive
<1>2. \A x \in {0, n} : (\A y \in {0, n} : x >= y) => x = Positive(n)
  BY DEF Positive
<1>3. Max({0, n}) = Positive(n)
  BY <1>1, <1>2 DEF Max
<1>. QED
  BY <1>3 DEF Positive

LEMMA SharesAre ==
  ASSUME Types, NEW q
  PROVE  /\ DOMAIN Shares(q) = Transfers /\ \A t \in Transfers : Shares(q)[t] \in Nat
         /\ Demand(q) \in Nat
<1>1. \A t \in Transfers : TakesUp(t) \in Nat
  BY DEF Types, TakesUp
<1>2. DOMAIN Shares(q) = Transfers /\ \A t \in Transfers : Shares(q)[t] \in Nat
  BY <1>1 DEF Shares
<1>. QED
  BY <1>2, RequisitionsAssumption, SumNat DEF Demand

LEMMA WithinIsInt ==
  ASSUME Types, NEW t \in Transfers
  PROVE  TakesUp(t) \in Nat /\ Within(t) \in Int
BY DEF Types, TakesUp, Within

LEMMA NetIs ==
  ASSUME Types, NEW q
  PROVE  SumFunction([t \in Of(q) |-> Within(t)]) = Net(q)
<1>. DEFINE f == [t \in Of(q) |-> Within(t)]
            g == WithinShares(q)
<1>1. Of(q) \in SUBSET Transfers /\ DOMAIN f = Of(q)
  BY DEF Of
<1>2. \A t \in Transfers : g[t] \in Int
  BY WithinIsInt DEF WithinShares
<1>3. (\A t \in Of(q) : g[t] = f[t]) /\ (\A t \in Transfers \ Of(q) : g[t] = 0)
  BY DEF Of, WithinShares
<1>. HIDE DEF f, g
<1>4. SumFunction(f) = SumFunctionOnSet(g, Transfers)
  BY <1>1, <1>2, <1>3, RequisitionsAssumption, SumFiltered
<1>. QED
  BY <1>4 DEF f, g, Net

\* No more is within what was asked for than is taken up.
LEMMA NetBounds ==
  ASSUME Types, \A t \in Transfers : TransferInv(t), NEW q
  PROVE  Net(q) \in Nat /\ Demand(q) \in Nat /\ Net(q) <= Demand(q)
<1>1. \A t \in Transfers : /\ WithinShares(q)[t] \in Nat /\ Shares(q)[t] \in Nat
                           /\ WithinShares(q)[t] <= Shares(q)[t]
  BY SharesAre DEF TransferInv, WithinShares, Shares
<1>. QED
  BY <1>1, RequisitionsAssumption, SumAtMost, SumNat DEF Net, Demand

LEMMA DispatchedIs ==
  ASSUME Types, NEW q, NEW seen
  PROVE  Dispatched(q, seen) \in Nat
         /\ Dispatched(q, seen) =
              SumFunctionOnSet([t \in Transfers |->
                IF of[t] = q /\ t \in seen /\ Counts(t) THEN picked[t] ELSE 0], Transfers)
<1>. DEFINE S == {u \in Of(q) \cap seen : Counts(u)}
            f == [t \in S |-> picked[t]]
            g == [t \in Transfers |-> IF of[t] = q /\ t \in seen /\ Counts(t) THEN picked[t] ELSE 0]
<1>1. S \in SUBSET Transfers /\ DOMAIN f = S
  BY DEF Of
<1>2. \A t \in Transfers : g[t] \in Nat
  BY DEF Types
<1>3. (\A t \in S : g[t] = f[t]) /\ (\A t \in Transfers \ S : g[t] = 0)
  BY DEF Of
<1>4. Dispatched(q, seen) = SumFunction(f)
  BY DEF Dispatched
<1>. HIDE DEF f, g, S
<1>5. SumFunction(f) = SumFunctionOnSet(g, Transfers)
  <2>1. \A t \in Transfers : g[t] \in Int
    BY <1>2
  <2>. QED
    BY <1>1, <2>1, <1>3, RequisitionsAssumption, SumFiltered
<1>6. SumFunctionOnSet(g, Transfers) \in Nat
  BY <1>2, RequisitionsAssumption, SumNat
<1>. QED
  BY <1>4, <1>5, <1>6 DEF g

LEMMA DraftedIs ==
  ASSUME Types, NEW q
  PROVE  Drafted(q) \in Nat
         /\ Drafted(q) =
              SumFunctionOnSet([t \in Transfers |->
                IF of[t] = q /\ stage[t] = "planned" THEN planned[t] ELSE 0], Transfers)
<1>. DEFINE S == Drafts(q)
            f == [t \in S |-> planned[t]]
            g == [t \in Transfers |-> IF of[t] = q /\ stage[t] = "planned" THEN planned[t] ELSE 0]
<1>1. S \in SUBSET Transfers /\ DOMAIN f = S
  BY DEF Of, Drafts
<1>2. \A t \in Transfers : g[t] \in Nat
  BY DEF Types
<1>3. (\A t \in S : g[t] = f[t]) /\ (\A t \in Transfers \ S : g[t] = 0)
  BY DEF Of, Drafts
<1>4. Drafted(q) = SumFunction(f)
  BY DEF Drafted
<1>. HIDE DEF f, g, S
<1>5. SumFunction(f) = SumFunctionOnSet(g, Transfers)
  <2>1. \A t \in Transfers : g[t] \in Int
    BY <1>2
  <2>. QED
    BY <1>1, <2>1, <1>3, RequisitionsAssumption, SumFiltered
<1>6. SumFunctionOnSet(g, Transfers) \in Nat
  BY <1>2, RequisitionsAssumption, SumNat
<1>. QED
  BY <1>4, <1>5, <1>6 DEF g

\* What was dispatched and what is in drafts is what is taken up.
LEMMA DemandSplits ==
  ASSUME Types, NEW q
  PROVE  Demand(q) = Dispatched(q, Transfers) + Drafted(q)
<1>. DEFINE f == [t \in Transfers |->
                    IF of[t] = q /\ t \in Transfers /\ Counts(t) THEN picked[t] ELSE 0]
            g == [t \in Transfers |-> IF of[t] = q /\ stage[t] = "planned" THEN planned[t] ELSE 0]
            h == Shares(q)
<1>1. Dispatched(q, Transfers) = SumFunctionOnSet(f, Transfers)
  BY DispatchedIs
<1>2. Drafted(q) = SumFunctionOnSet(g, Transfers)
  BY DraftedIs
<1>3. ASSUME NEW t \in Transfers
      PROVE  f[t] \in Int /\ g[t] \in Int /\ h[t] = f[t] + g[t]
  BY DEF Types, Shares, TakesUp, Counts
<1>4. Demand(q) = SumFunctionOnSet(h, Transfers)
  BY DEF Demand
<1>. HIDE DEF f, g, h
<1>5. SumFunctionOnSet(h, Transfers) = SumFunctionOnSet(f, Transfers) + SumFunctionOnSet(g, Transfers)
  BY <1>3, RequisitionsAssumption, SumPlus
<1>. QED
  BY <1>1, <1>2, <1>4, <1>5

LEMMA OutstandingIs ==
  ASSUME Types, NEW q \in Requisitions, NEW seen
  PROVE  /\ Outstanding(q, seen) \in Nat
         /\ Outstanding(q, Transfers) = Positive(requested[q] - Demand(q))
         /\ Unfilled(q, Transfers) = requested[q] - Demand(q)
<1>1. requested[q] \in Nat /\ Dispatched(q, seen) \in Nat /\ Drafted(q) \in Nat
      /\ Dispatched(q, Transfers) \in Nat
  BY DispatchedIs, DraftedIs DEF Types
<1>. DEFINE n == requested[q] - (Dispatched(q, seen) + Drafted(q))
            m == requested[q] - (Dispatched(q, Transfers) + Drafted(q))
<1>2. n \in Int /\ m \in Int /\ m = requested[q] - Demand(q)
  BY <1>1, DemandSplits
<1>3. Outstanding(q, seen) = Max({0, n}) /\ Outstanding(q, Transfers) = Max({0, m})
  BY DEF Outstanding, Unfilled
<1>5. Unfilled(q, Transfers) = requested[q] - Demand(q)
  BY <1>2 DEF Unfilled
<1>. HIDE DEF n, m
<1>4. Max({0, n}) \in Nat /\ Max({0, m}) = Positive(m)
  BY <1>2, MaxIsPositive
<1>. QED
  BY <1>2, <1>3, <1>4, <1>5

\* How much is taken up changes with the one transfer that a step touches.
LEMMA DemandChanges ==
  ASSUME Types, Types', NEW t \in Transfers, NEW q,
         \A u \in Transfers \ {t} : of'[u] = of[u] /\ TakesUp(u)' = TakesUp(u)
  PROVE  Demand(q)' = Demand(q) + (Shares(q)'[t] - Shares(q)[t])
<1>. DEFINE f == Shares(q)
            g == Shares(q)'
<1>1. \A u \in Transfers : f[u] \in Int
  BY SharesAre
<1>2. \A u \in Transfers : g[u] \in Int
  <2>1. \A u \in Transfers : TakesUp(u)' \in Nat
    BY DEF Types, TakesUp
  <2>. QED
    BY <2>1 DEF Shares
<1>3. \A u \in Transfers \ {t} : g[u] = f[u]
  BY DEF Shares
<1>4. Demand(q) = SumFunctionOnSet(f, Transfers) /\ Demand(q)' = SumFunctionOnSet(g, Transfers)
  BY DEF Demand
<1>. HIDE DEF f, g
<1>5. SumFunctionOnSet(g, Transfers) = SumFunctionOnSet(f, Transfers) + (g[t] - f[t])
  BY <1>1, <1>2, <1>3, RequisitionsAssumption, SumChange
<1>. QED
  BY <1>4, <1>5 DEF f, g

LEMMA NetChanges ==
  ASSUME Types, Types', NEW t \in Transfers, NEW q,
         \A u \in Transfers \ {t} : of'[u] = of[u] /\ Within(u)' = Within(u)
  PROVE  Net(q)' = Net(q) + (WithinShares(q)'[t] - WithinShares(q)[t])
<1>. DEFINE f == WithinShares(q)
            g == WithinShares(q)'
<1>1. \A u \in Transfers : f[u] \in Int
  BY WithinIsInt DEF WithinShares
<1>2. \A u \in Transfers : g[u] \in Int
  <2>1. \A u \in Transfers : Within(u)' \in Int
    BY DEF Types, TakesUp, Within
  <2>. QED
    BY <2>1 DEF WithinShares
<1>3. \A u \in Transfers \ {t} : g[u] = f[u]
  BY DEF WithinShares
<1>4. Net(q) = SumFunctionOnSet(f, Transfers) /\ Net(q)' = SumFunctionOnSet(g, Transfers)
  BY DEF Net
<1>. HIDE DEF f, g
<1>5. SumFunctionOnSet(g, Transfers) = SumFunctionOnSet(f, Transfers) + (g[t] - f[t])
  BY <1>1, <1>2, <1>3, RequisitionsAssumption, SumChange
<1>. QED
  BY <1>4, <1>5 DEF f, g

LEMMA NetKeeps ==
  ASSUME UNCHANGED <<of, planned, picked, stage, beyond>>
  PROVE  /\ \A q \in Requisitions : Net(q)' = Net(q)
         /\ \A t \in Transfers : Within(t)' = Within(t) /\ TakesUp(t)' = TakesUp(t)
BY DEF Net, WithinShares, Within, TakesUp

\* What is outstanding fits in, and a quantity of which it is all fits too.
LEMMA Room ==
  ASSUME NEW within \in Nat, NEW demand \in Nat, NEW asked \in Nat, NEW n \in Nat,
         within <= demand, within <= asked
  PROVE  /\ within + Positive(asked - demand) <= asked
         /\ within + n <= asked + Positive(n - Positive(asked - demand))
         /\ Positive(n - Positive(asked - demand)) <= n
BY DEF Positive

------------------------------------------------------------------------------
(* What each kind of step keeps *)

\* A step that leaves the requisitions and the transfers alone.
LEMMA WorkerStep ==
  ASSUME Inv, Types', NEW w \in Workers, UNCHANGED <<requisitions, transfers, beyond>>,
         \A v \in Workers \ {w} : pc'[v] = pc[v] /\ req'[v] = req[v],
         WorkerInv(w)',
         pc'[w] \in {"cancel", "write"} =>
           \/ pc[w] \in {"cancel", "write"} /\ req'[w].requisition = req[w].requisition
           \/ Free(req'[w].requisition)
  PROVE  Inv'
<1>. USE DEF Inv, requisitions, transfers
<1>1. /\ \A q \in Requisitions : Net(q)' = Net(q)
      /\ \A t \in Transfers : Within(t)' = Within(t) /\ TakesUp(t)' = TakesUp(t)
  BY NetKeeps
<1>2. ASSUME NEW t \in Transfers PROVE TransferInv(t)'
  BY <1>1 DEF TransferInv
<1>3. ASSUME NEW q \in Requisitions PROVE RequisitionInv(q)'
  BY <1>1 DEF RequisitionInv, Of
<1>4. ASSUME NEW v \in Workers \ {w} PROVE WorkerInv(v)'
  BY <1>1, <1>4 DEF WorkerInv, Fits
<1>5. HoldsApart'
  BY DEF HoldsApart, Free
<1>. QED
  BY <1>2, <1>3, <1>4, <1>5

\* A step of the branch on a requisition that no transfer can be of.
LEMMA RequisitionStep ==
  ASSUME Inv, Types', NEW q \in Requisitions, UNCHANGED <<transfers, pc, req, beyond>>,
         \A p \in Requisitions \ {q} :
           status'[p] = status[p] /\ revision'[p] = revision[p] /\ requested'[p] = requested[p],
         revision'[q] = revision[q] + 1,
         status[q] = "none" \/ (status[q] = "draft" /\ Free(q)),
         status'[q] \in {"draft", "submitted"}
  PROVE  Inv'
<1>. USE DEF Inv, transfers
<1>1. /\ \A p \in Requisitions : Net(p)' = Net(p)
      /\ \A t \in Transfers : Within(t)' = Within(t) /\ TakesUp(t)' = TakesUp(t)
  BY NetKeeps
<1>2. \A t \in Transfers : of[t] # q
  BY DEF TransferInv
<1>3. Net(q) = 0
  <2>1. \A t \in Transfers : WithinShares(q)[t] = 0
    BY <1>2 DEF WithinShares
  <2>. QED
    BY <2>1, RequisitionsAssumption, SumZero DEF Net
<1>4. ASSUME NEW t \in Transfers PROVE TransferInv(t)'
  BY <1>1, <1>2 DEF TransferInv, Types
<1>5. ASSUME NEW p \in Requisitions PROVE RequisitionInv(p)'
  <2>1. CASE p = q
    <3>1. requested'[q] \in Nat
      BY DEF Types
    <3>2. Net(q)' <= requested'[q]
      BY <1>1, <1>3, <3>1
    <3>. QED
      BY <2>1, <3>2 DEF RequisitionInv
  <2>2. CASE p # q
    BY <1>1, <2>2 DEF RequisitionInv, Of
  <2>. QED
    BY <2>1, <2>2
<1>6. ASSUME NEW w \in Workers PROVE WorkerInv(w)'
  <2>. SUFFICES ASSUME NEW p \in Requisitions, pc[w] # "idle", req[w].requisition = p
                PROVE  /\ status'[p] # "none"
                                       /\ pc[w] # "cancel" => req[w].revision <= revision'[p]
                       /\ pc[w] = "write" => req[w].revision = revision'[p]
                       /\ Fits(w, p)'
    BY DEF WorkerInv
  <2>1. CASE p # q
    BY <1>1, <2>1 DEF WorkerInv, Fits
  <2>2. CASE p = q
    <3>1. pc[w] \notin {"cancel", "write"} /\ req[w].revision <= revision[q]
      BY <2>2 DEF WorkerInv, Free
    <3>2. req[w].revision \in Nat /\ revision[q] \in Nat
      BY DEF Types
    <3>3. req[w].revision <= revision'[q] /\ req[w].revision # revision'[q]
      BY <3>1, <3>2
    <3>. QED
      BY <2>2, <3>1, <3>3 DEF WorkerInv, Fits
  <2>. QED
    BY <2>1, <2>2
<1>7. HoldsApart'
  BY DEF HoldsApart
<1>. QED
  BY <1>4, <1>5, <1>6, <1>7

\* A step of the transfers, and what it makes of what others are about to send.
LEMMA TransferStep ==
  ASSUME Inv, Types', UNCHANGED <<requisitions, of, pc>>,
         \A t \in Transfers : Within(t)' \in 0 .. TakesUp(t)',
         \A q \in Requisitions : Net(q)' <= requested[q],
         \A w \in Workers :
           /\ req'[w].requisition = req[w].requisition /\ req'[w].revision = req[w].revision
           /\ req'[w].extra <= req'[w].send,
         \A w \in Workers, q \in Requisitions :
           pc[w] # "idle" /\ req[w].requisition = q => Fits(w, q)',
         \A t \in Transfers :
           stage'[t] # stage[t] => of[t] # NoRequisition /\ stage[t] \notin {"cancelled", "reversed"}
  PROVE  Inv'
<1>. USE DEF Inv, requisitions
<1>1. ASSUME NEW t \in Transfers PROVE TransferInv(t)'
  BY DEF TransferInv
<1>2. ASSUME NEW q \in Requisitions PROVE RequisitionInv(q)'
  <2>1. Net(q)' <= requested'[q]
    OBVIOUS
  <2>2. status'[q] = "cancelled" => \A t \in Of(q)' : stage'[t] \in {"cancelled", "reversed"}
    BY DEF RequisitionInv, Of
  <2>. QED
    BY <2>1, <2>2 DEF RequisitionInv
<1>3. ASSUME NEW w \in Workers PROVE WorkerInv(w)'
  BY DEF WorkerInv
<1>4. HoldsApart'
  BY DEF HoldsApart
<1>. QED
  BY <1>1, <1>2, <1>3, <1>4

------------------------------------------------------------------------------
(* The branch's steps *)

LEMMA BranchInv ==
  \A q \in Requisitions, n \in Quantities, postponed \in BOOLEAN :
    Inv /\ (Create(q, n) \/ Update(q, n, postponed)) => Inv'
<1>. SUFFICES ASSUME Inv, NEW q \in Requisitions, NEW n \in Quantities, NEW postponed,
                     Create(q, n) \/ Update(q, n, postponed)
              PROVE  Inv'
  OBVIOUS
<1>1. /\ revision' = [revision EXCEPT ![q] = revision[q] + 1]
      /\ requested' = [requested EXCEPT ![q] = n]
      /\ status' = status \/ status' = [status EXCEPT ![q] = "draft"]
      /\ status[q] = "none" \/ (status[q] = "draft" /\ Free(q))
      /\ UNCHANGED <<transfers, pc, req, beyond>>
  BY DEF Create, Update, NextRevision, StepAllowed
<1>2. n \in Nat
  BY RequisitionsAssumption
<1>3. /\ revision' \in [Requisitions -> Nat] /\ revision'[q] = revision[q] + 1
      /\ requested' \in [Requisitions -> Nat]
      /\ status' \in [Requisitions -> {"none", "draft", "submitted", "cancelled"}]
  BY <1>1, <1>2 DEF Inv, Types
<1>4. Types'
  BY <1>1, <1>3 DEF Inv, Types, transfers
<1>5. status'[q] \in {"draft", "submitted"}
  BY DEF Create, Update, StepAllowed, Inv, Types
<1>6. \A p \in Requisitions \ {q} :
        status'[p] = status[p] /\ revision'[p] = revision[p] /\ requested'[p] = requested[p]
  BY <1>1 DEF Inv, Types
<1>. QED
  BY <1>1, <1>3, <1>4, <1>5, <1>6, RequisitionStep

LEMMA SubmitInv == \A q \in Requisitions : Inv /\ Submit(q) => Inv'
<1>. SUFFICES ASSUME Inv, NEW q \in Requisitions, Submit(q) PROVE Inv'
  OBVIOUS
<1>1. revision' = [revision EXCEPT ![q] = revision[q] + 1]
      /\ status' = [status EXCEPT ![q] = "submitted"] /\ status[q] = "draft" /\ Free(q)
      /\ UNCHANGED <<requested, transfers, pc, req, beyond>>
  BY DEF Submit, NextRevision, StepAllowed
<1>2. revision' \in [Requisitions -> Nat]
      /\ status' \in [Requisitions -> {"none", "draft", "submitted", "cancelled"}]
  BY <1>1 DEF Inv, Types
<1>3. Types'
  BY <1>1, <1>2 DEF Inv, Types, transfers
<1>4. /\ status'[q] = "submitted" /\ revision'[q] = revision[q] + 1
      /\ \A p \in Requisitions \ {q} :
           status'[p] = status[p] /\ revision'[p] = revision[p] /\ requested'[p] = requested[p]
  BY <1>1 DEF Inv, Types
<1>. QED
  BY <1>1, <1>3, <1>4, RequisitionStep

LEMMA RefuseInv == \A w \in Workers : Inv /\ Refuse(w) => Inv'
<1>. SUFFICES ASSUME Inv, NEW w \in Workers, Refuse(w) PROVE Inv'
  OBVIOUS
<1>1. /\ pc' = [pc EXCEPT ![w] = "idle"] /\ req' = [req EXCEPT ![w] = NoRequest]
      /\ UNCHANGED <<requisitions, transfers, beyond>>
  BY DEF Refuse, Idle
<1>2. NoRequest \in [requisition : Requisitions \cup {NoRequisition}, revision : Nat,
                     seen : SUBSET Transfers, send : Nat, extra : Nat]
  BY DEF NoRequest
<1>3. Types'
  BY <1>1, <1>2 DEF Inv, Types, requisitions, transfers
<1>4. pc'[w] = "idle" /\ req'[w] = NoRequest
      /\ \A v \in Workers \ {w} : pc'[v] = pc[v] /\ req'[v] = req[v]
  BY <1>1 DEF Inv, Types
<1>5. WorkerInv(w)'
  BY <1>4 DEF WorkerInv, NoRequest
<1>. QED
  BY <1>1, <1>3, <1>4, <1>5, WorkerStep

LEMMA BeginCancelInv ==
  \A w \in Workers, q \in Requisitions : Inv /\ BeginCancel(w, q) => Inv'
<1>. SUFFICES ASSUME Inv, NEW w \in Workers, NEW q \in Requisitions, BeginCancel(w, q) PROVE Inv'
  OBVIOUS
<1>1. /\ pc' = [pc EXCEPT ![w] = "cancel"] /\ Free(q) /\ status[q] # "none"
      /\ req' = [req EXCEPT ![w] = [req[w] EXCEPT !.requisition = q, !.seen = WithPicks(q)]]
      /\ UNCHANGED <<requisitions, transfers, beyond>>
  BY DEF BeginCancel
<1>2. WithPicks(q) \in SUBSET Transfers
  BY DEF WithPicks, Of
<1>. DEFINE Requests == [requisition : Requisitions \cup {NoRequisition}, revision : Nat,
                         seen : SUBSET Transfers, send : Nat, extra : Nat]
            asked == [req[w] EXCEPT !.requisition = q, !.seen = WithPicks(q)]
<1>3. req' \in [Workers -> Requests]
  <2>1. req \in [Workers -> Requests]
    BY DEF Inv, Types
  <2>2. asked \in Requests
    BY <2>1, <1>2
  <2>. HIDE DEF Requests, asked
  <2>3. req' = [req EXCEPT ![w] = asked]
    BY <1>1 DEF asked
  <2>. QED
    BY <2>1, <2>2, <2>3
<1>4. Types'
  BY <1>1, <1>3 DEF Inv, Types, requisitions, transfers
<1>5. /\ pc'[w] = "cancel" /\ req'[w].requisition = q
      /\ req'[w].send = req[w].send /\ req'[w].extra = req[w].extra
      /\ \A v \in Workers \ {w} : pc'[v] = pc[v] /\ req'[v] = req[v]
  BY <1>1 DEF Inv, Types
<1>6. WorkerInv(w)'
  BY <1>1, <1>5 DEF Inv, WorkerInv, Fits, requisitions
<1>. QED
  BY <1>1, <1>4, <1>5, <1>6, WorkerStep

LEMMA CancelInv == \A w \in Workers : Inv /\ Cancel(w) => Inv'
<1>. SUFFICES ASSUME Inv, NEW w \in Workers, Cancel(w), NEW q, q = req[w].requisition, ~Refuse(w)
              PROVE  Inv'
  BY RefuseInv
<1>1. /\ pc[w] = "cancel" /\ NotServed(q)
      /\ status' = [status EXCEPT ![q] = "cancelled"]
      /\ revision' = [revision EXCEPT ![q] = revision[q] + 1]
      /\ pc' = [pc EXCEPT ![w] = "idle"] /\ req' = [req EXCEPT ![w] = NoRequest]
      /\ UNCHANGED <<requested, transfers, beyond>>
      /\ StepAllowed(RequisitionStatus(q, req[w].seen), "cancel")
  BY DEF Cancel, NextRevision, Idle
<1>2. q \in Requisitions /\ status[q] # "none"
  BY <1>1 DEF Inv, WorkerInv
<1>3. NoRequest \in [requisition : Requisitions \cup {NoRequisition}, revision : Nat,
                     seen : SUBSET Transfers, send : Nat, extra : Nat]
  BY DEF NoRequest
<1>4. /\ status' \in [Requisitions -> {"none", "draft", "submitted", "cancelled"}]
      /\ revision' \in [Requisitions -> Nat]
  BY <1>1, <1>2 DEF Inv, Types
<1>5. Types'
  BY <1>1, <1>3, <1>4 DEF Inv, Types, transfers
<1>6. /\ \A p \in Requisitions : Net(p)' = Net(p)
      /\ \A t \in Transfers : Within(t)' = Within(t) /\ TakesUp(t)' = TakesUp(t)
  BY <1>1, NetKeeps DEF transfers
<1>7. /\ status'[q] = "cancelled" /\ revision'[q] = revision[q] + 1 /\ revision[q] \in Nat
      /\ \A p \in Requisitions \ {q} : status'[p] = status[p] /\ revision'[p] = revision[p]
      /\ pc'[w] = "idle" /\ req'[w] = NoRequest
      /\ \A v \in Workers \ {w} : pc'[v] = pc[v] /\ req'[v] = req[v]
  BY <1>1, <1>2 DEF Inv, Types
<1>8. ASSUME NEW t \in Transfers PROVE TransferInv(t)'
  BY <1>1, <1>6, <1>7 DEF Inv, TransferInv, transfers, Types
<1>9. ASSUME NEW p \in Requisitions PROVE RequisitionInv(p)'
  BY <1>1, <1>6, <1>7 DEF Inv, RequisitionInv, NotServed, Of, transfers
<1>10. ASSUME NEW v \in Workers PROVE WorkerInv(v)'
  <2>1. CASE v = w
    BY <1>7, <2>1 DEF WorkerInv, NoRequest
  <2>2. CASE v # w
    <3>. SUFFICES ASSUME NEW p \in Requisitions, pc[v] # "idle", req[v].requisition = p
                  PROVE  /\ status'[p] # "none"
                         /\ pc[v] # "cancel" => req[v].revision <= revision'[p]
                         /\ pc[v] = "write" => req[v].revision = revision'[p]
                         /\ Fits(v, p)'
      BY <1>7, <2>2 DEF WorkerInv, Inv
    <3>1. CASE p # q
      BY <1>1, <1>6, <1>7, <2>2, <3>1 DEF WorkerInv, Fits, Inv
    <3>2. CASE p = q
      <4>1. pc[v] \notin {"cancel", "write"}
        BY <1>1, <2>2, <3>2 DEF Inv, HoldsApart
      <4>2. req[v].revision <= revision[q] /\ req[v].revision \in Nat
        BY <3>2, <4>1 DEF Inv, WorkerInv, Types
      <4>3. req[v].revision <= revision'[q] /\ req[v].revision # revision'[q]
        BY <1>7, <4>2
      <4>. QED
        BY <1>7, <2>2, <3>2, <4>1, <4>3 DEF WorkerInv, Fits, Inv
    <3>. QED
      BY <3>1, <3>2
  <2>. QED
    BY <2>1, <2>2
<1>11. HoldsApart'
  BY <1>7 DEF Inv, HoldsApart
<1>. QED
  BY <1>5, <1>8, <1>9, <1>10, <1>11 DEF Inv

------------------------------------------------------------------------------
(* Preparing a transfer *)

LEMMA AskInv ==
  \A w \in Workers, q \in Requisitions, own \in Quantities \cup {0} : Inv /\ Ask(w, q, own) => Inv'
<1>. SUFFICES ASSUME Inv, NEW w \in Workers, NEW q \in Requisitions,
                     NEW own \in Quantities \cup {0}, Ask(w, q, own)
              PROVE  Inv'
  OBVIOUS
<1>. DEFINE new == [requisition |-> q, revision |-> revision[q], seen |-> WithPicks(q),
                    send |-> own, extra |-> 0]
<1>1. /\ pc' = [pc EXCEPT ![w] = "read"] /\ req' = [req EXCEPT ![w] = new]
      /\ status[q] # "none" /\ UNCHANGED <<requisitions, transfers, beyond>>
  BY DEF Ask
<1>2. own \in Nat /\ revision[q] \in Nat /\ WithPicks(q) \in SUBSET Transfers
  BY RequisitionsAssumption DEF Inv, Types, WithPicks, Of
<1>3. new \in [requisition : Requisitions \cup {NoRequisition}, revision : Nat,
               seen : SUBSET Transfers, send : Nat, extra : Nat]
  BY <1>2
<1>4. new.requisition = q /\ new.revision = revision[q] /\ new.extra <= new.send
  BY <1>2
<1>. HIDE DEF new
<1>5. Types'
  BY <1>1, <1>3 DEF Inv, Types, requisitions, transfers
<1>6. /\ pc'[w] = "read" /\ req'[w] = new
      /\ \A v \in Workers \ {w} : pc'[v] = pc[v] /\ req'[v] = req[v]
  BY <1>1 DEF Inv, Types
<1>7. WorkerInv(w)'
  BY <1>1, <1>2, <1>4, <1>6 DEF WorkerInv, Fits, requisitions
<1>. QED
  BY <1>1, <1>5, <1>6, <1>7, WorkerStep

LEMMA ReadInv == \A w \in Workers : Inv /\ Read(w) => Inv'
<1>. SUFFICES ASSUME Inv, NEW w \in Workers, Read(w), ~Refuse(w),
                     NEW q, q = req[w].requisition
              PROVE  Inv'
  BY RefuseInv
<1>. DEFINE outstanding == Outstanding(q, req[w].seen)
            all == Outstanding(q, Transfers)
            own == req[w].send
            send == IF own > 0 THEN own ELSE outstanding
            over == Max({0, send - all})
            new == [req[w] EXCEPT !.send = send, !.seen = {}, !.extra = over]
<1>1. pc[w] = "read" /\ q \in Requisitions /\ status[q] # "none" /\ req[w].revision <= revision[q]
  BY DEF Read, Inv, WorkerInv
<1>2. /\ pc' = [pc EXCEPT ![w] = "lock"]
      /\ req' = [req EXCEPT ![w] = new]
      /\ UNCHANGED <<requisitions, transfers, beyond>>
  BY <1>1 DEF Read
<1>3. /\ own \in Nat /\ outstanding \in Nat /\ all \in Nat
      /\ all = Positive(requested[q] - Demand(q))
  BY <1>1, OutstandingIs DEF Inv, Types
<1>4. Net(q) \in Nat /\ Demand(q) \in Nat /\ requested[q] \in Nat
      /\ Net(q) <= Demand(q) /\ Net(q) <= requested[q]
  BY <1>1, NetBounds DEF Inv, Types, RequisitionInv
<1>5. send \in Nat
  BY <1>3
<1>. HIDE DEF outstanding, all, own, send
<1>6. over = Positive(send - all) /\ over \in Nat
  BY <1>3, <1>5, MaxIsPositive
<1>7. Net(q) + send <= requested[q] + over /\ over <= send
  BY <1>3, <1>4, <1>5, <1>6, Room
<1>. HIDE DEF over
<1>8. new \in [requisition : Requisitions \cup {NoRequisition}, revision : Nat,
               seen : SUBSET Transfers, send : Nat, extra : Nat]
      /\ new.requisition = q /\ new.revision = req[w].revision /\ new.send = send /\ new.extra = over
  <2>1. req[w] \in [requisition : Requisitions \cup {NoRequisition}, revision : Nat,
                    seen : SUBSET Transfers, send : Nat, extra : Nat]
    BY DEF Inv, Types
  <2>. QED
    BY <1>5, <1>6, <2>1
<1>. HIDE DEF new
<1>9. Types'
  BY <1>2, <1>8 DEF Inv, Types, requisitions, transfers
<1>10. /\ pc'[w] = "lock" /\ req'[w] = new
       /\ \A v \in Workers \ {w} : pc'[v] = pc[v] /\ req'[v] = req[v]
  BY <1>2 DEF Inv, Types
<1>11. Net(q)' = Net(q)
  BY <1>1, <1>2, NetKeeps DEF transfers
<1>12. WorkerInv(w)'
  BY <1>1, <1>2, <1>7, <1>8, <1>10, <1>11 DEF WorkerInv, Fits, requisitions
<1>. QED
  BY <1>2, <1>9, <1>10, <1>12, WorkerStep

LEMMA LockInv == \A w \in Workers : Inv /\ Lock(w) => Inv'
<1>. SUFFICES ASSUME Inv, NEW w \in Workers, Lock(w), ~Refuse(w), NEW q, q = req[w].requisition
              PROVE  Inv'
  BY RefuseInv
<1>1. /\ pc[w] = "lock" /\ Free(q) /\ revision[q] = req[w].revision
      /\ pc' = [pc EXCEPT ![w] = "write"]
      /\ req' = [req EXCEPT ![w] = [req[w] EXCEPT !.seen = WithPicks(q)]]
      /\ UNCHANGED <<requisitions, transfers, beyond>>
  BY DEF Lock, AtRevisionSeen
<1>2. WithPicks(q) \in SUBSET Transfers
  BY DEF WithPicks, Of
<1>3. /\ req'[w].requisition = q /\ req'[w].revision = req[w].revision
      /\ req'[w].send = req[w].send /\ req'[w].extra = req[w].extra /\ pc'[w] = "write"
      /\ \A v \in Workers \ {w} : pc'[v] = pc[v] /\ req'[v] = req[v]
  BY <1>1 DEF Inv, Types
<1>4. req' \in [Workers -> [requisition : Requisitions \cup {NoRequisition}, revision : Nat,
                            seen : SUBSET Transfers, send : Nat, extra : Nat]]
  BY <1>1, <1>2 DEF Inv, Types
<1>5. Types'
  BY <1>1, <1>4 DEF Inv, Types, requisitions, transfers
<1>6. q \in Requisitions /\ Net(q)' = Net(q)
  BY <1>1, NetKeeps DEF Inv, WorkerInv, transfers
<1>7. WorkerInv(w)'
  <2>1. Fits(w, q) /\ status[q] # "none" /\ req[w].extra <= req[w].send
    BY <1>1, <1>6 DEF Inv, WorkerInv
  <2>2. Fits(w, q)'
    BY <1>1, <1>3, <1>6, <2>1 DEF Fits, requisitions
  <2>. QED
    BY <1>1, <1>3, <1>6, <2>1, <2>2 DEF WorkerInv, requisitions, Inv, Types
<1>. QED
  BY <1>1, <1>3, <1>5, <1>7, WorkerStep

LEMMA WriteInv == \A w \in Workers, t \in Transfers : Inv /\ Write(w, t) => Inv'
<1>. SUFFICES ASSUME Inv, NEW w \in Workers, NEW t \in Transfers, Write(w, t), ~Refuse(w),
                     NEW q, q = req[w].requisition
              PROVE  Inv'
  BY RefuseInv
<1>. DEFINE send == req[w].send
            over == req[w].extra
<1>1. /\ pc[w] = "write" /\ StepAllowed(RequisitionStatus(q, req[w].seen), "fulfil")
      /\ of[t] = NoRequisition /\ of' = [of EXCEPT ![t] = q]
      /\ planned' = [planned EXCEPT ![t] = send]
      /\ revision' = [revision EXCEPT ![q] = revision[q] + 1]
      /\ beyond' = [beyond EXCEPT ![t] = over]
      /\ pc' = [pc EXCEPT ![w] = "idle"] /\ req' = [req EXCEPT ![w] = NoRequest]
      /\ UNCHANGED <<status, requested, picked, stage, road>>
  BY DEF Write, NextRevision, Idle
<1>2. q \in Requisitions /\ req[w].revision = revision[q] /\ Fits(w, q) /\ over <= send
  BY <1>1 DEF Inv, WorkerInv
<1>3. /\ send \in Nat /\ over \in Nat /\ requested[q] \in Nat /\ revision[q] \in Nat
      /\ \A p \in Requisitions : Net(p) \in Nat
  BY <1>2, NetBounds DEF Inv, Types
<1>4. Net(q) + send <= requested[q] + over
  BY <1>1, <1>2 DEF Fits
<1>5. status[q] = "submitted"
  <2>1. status[q] # "submitted" => RequisitionStatus(q, req[w].seen) = status[q]
    BY DEF RequisitionStatus
  <2>. QED
    BY <1>1, <1>2, <2>1 DEF StepAllowed, Inv, Types
<1>. HIDE DEF send, over
<1>6. NoRequest \in [requisition : Requisitions \cup {NoRequisition}, revision : Nat,
                     seen : SUBSET Transfers, send : Nat, extra : Nat]
  BY DEF NoRequest
<1>7. Types'
  <2>1. /\ of' \in [Transfers -> Requisitions \cup {NoRequisition}]
        /\ planned' \in [Transfers -> Nat] /\ revision' \in [Requisitions -> Nat]
        /\ beyond' \in [Transfers -> Nat]
    BY <1>1, <1>2, <1>3 DEF Inv, Types
  <2>. QED
    BY <1>1, <1>6, <2>1 DEF Inv, Types
<1>8. /\ of'[t] = q /\ planned'[t] = send /\ beyond'[t] = over /\ stage[t] = "planned"
      /\ \A u \in Transfers \ {t} :
           of'[u] = of[u] /\ planned'[u] = planned[u] /\ beyond'[u] = beyond[u]
      /\ revision'[q] = revision[q] + 1
      /\ \A p \in Requisitions \ {q} : revision'[p] = revision[p]
      /\ pc'[w] = "idle" /\ req'[w] = NoRequest
      /\ \A v \in Workers \ {w} : pc'[v] = pc[v] /\ req'[v] = req[v]
  BY <1>1, <1>2 DEF Inv, Types, TransferInv
<1>9. /\ TakesUp(t)' = send /\ Within(t)' = send - over
      /\ \A u \in Transfers \ {t} : TakesUp(u)' = TakesUp(u) /\ Within(u)' = Within(u)
  BY <1>1, <1>8 DEF TakesUp, Within
<1>10. ASSUME NEW p \in Requisitions
       PROVE  Net(p)' = IF p = q THEN Net(p) + (send - over) ELSE Net(p)
  <2>1. Net(p)' = Net(p) + (WithinShares(p)'[t] - WithinShares(p)[t])
    BY <1>7, <1>8, <1>9, NetChanges DEF Inv
  <2>2. WithinShares(p)[t] = 0
    BY <1>1, RequisitionsAssumption DEF WithinShares
  <2>3. WithinShares(p)'[t] = IF p = q THEN send - over ELSE 0
    BY <1>8, <1>9 DEF WithinShares
  <2>. QED
    BY <1>3, <2>1, <2>2, <2>3
<1>11. ASSUME NEW u \in Transfers PROVE TransferInv(u)'
  <2>1. Within(u)' \in 0 .. TakesUp(u)'
    BY <1>2, <1>3, <1>9 DEF Inv, TransferInv
  <2>. QED
    BY <1>1, <1>2, <1>5, <1>8, <2>1, RequisitionsAssumption DEF Inv, TransferInv
<1>12. ASSUME NEW p \in Requisitions PROVE RequisitionInv(p)'
  <2>1. CASE p = q
    <3>1. Net(q)' <= requested'[q]
      BY <1>1, <1>2, <1>3, <1>4, <1>10
    <3>. QED
      BY <1>1, <1>5, <2>1, <3>1 DEF RequisitionInv
  <2>2. CASE p # q
    <3>1. Net(p)' <= requested'[p]
      BY <1>1, <1>10, <2>2 DEF Inv, RequisitionInv
    <3>2. Of(p)' \subseteq Of(p)
      BY <1>8, <2>2 DEF Of
    <3>. QED
      BY <1>1, <2>2, <3>1, <3>2 DEF Inv, RequisitionInv
  <2>. QED
    BY <2>1, <2>2
<1>13. ASSUME NEW v \in Workers PROVE WorkerInv(v)'
  <2>1. CASE v = w
    BY <1>8, <2>1 DEF WorkerInv, NoRequest
  <2>2. CASE v # w
    <3>. SUFFICES ASSUME NEW p \in Requisitions, pc[v] # "idle", req[v].requisition = p
                  PROVE  /\ status'[p] # "none"
                         /\ pc[v] # "cancel" => req[v].revision <= revision'[p]
                         /\ pc[v] = "write" => req[v].revision = revision'[p]
                         /\ Fits(v, p)'
      BY <1>8, <2>2 DEF WorkerInv, Inv
    <3>1. CASE p # q
      BY <1>1, <1>8, <1>10, <2>2, <3>1 DEF WorkerInv, Fits, Inv
    <3>2. CASE p = q
      <4>1. pc[v] \notin {"cancel", "write"}
        BY <1>1, <2>2, <3>2 DEF Inv, HoldsApart
      <4>2. req[v].revision <= revision[q] /\ req[v].revision \in Nat
        BY <3>2, <4>1 DEF Inv, WorkerInv, Types
      <4>3. req[v].revision <= revision'[q] /\ req[v].revision # revision'[q]
        BY <1>3, <1>8, <4>2
      <4>. QED
        BY <1>1, <1>8, <2>2, <3>2, <4>1, <4>3 DEF WorkerInv, Fits, Inv
    <3>. QED
      BY <3>1, <3>2
  <2>. QED
    BY <2>1, <2>2
<1>14. HoldsApart'
  BY <1>8 DEF Inv, HoldsApart
<1>. QED
  BY <1>7, <1>11, <1>12, <1>13, <1>14 DEF Inv

------------------------------------------------------------------------------
(* What becomes of the transfers *)

\* A transfer takes up less, or comes to where it takes up nothing.
LEMMA OneTransfer ==
  ASSUME Inv, Types', NEW t \in Transfers, UNCHANGED <<requisitions, of, pc, req>>,
         \A u \in Transfers \ {t} :
           TakesUp(u)' = TakesUp(u) /\ Within(u)' = Within(u) /\ stage'[u] = stage[u],
         stage'[t] # stage[t] => of[t] # NoRequisition /\ stage[t] \notin {"cancelled", "reversed"},
         Within(t)' \in 0 .. TakesUp(t)', Within(t)' <= Within(t)
  PROVE  Inv'
<1>1. \A u \in Transfers : Within(u)' \in 0 .. TakesUp(u)'
  BY DEF Inv, TransferInv
<1>2. ASSUME NEW q \in Requisitions
      PROVE  /\ Net(q)' <= Net(q) /\ Net(q)' \in Int /\ Net(q) \in Nat /\ requested[q] \in Nat
             /\ Net(q) <= requested[q]
  <2>1. Net(q)' = Net(q) + (WithinShares(q)'[t] - WithinShares(q)[t])
    BY NetChanges DEF Inv
  <2>2. Net(q) \in Nat /\ requested[q] \in Nat /\ Net(q) <= requested[q]
    BY NetBounds DEF Inv, RequisitionInv, Types
  <2>3. WithinShares(q)[t] = (IF of[t] = q THEN Within(t) ELSE 0)
        /\ WithinShares(q)'[t] = (IF of[t] = q THEN Within(t)' ELSE 0)
    BY DEF WithinShares
  <2>4. Within(t) \in Int /\ Within(t)' \in Int
    BY WithinIsInt DEF Inv, Types, TakesUp, Within
  <2>. QED
    BY <2>1, <2>2, <2>3, <2>4
<1>3. \A q \in Requisitions : Net(q)' <= requested[q]
  BY <1>2
<1>4. ASSUME NEW w \in Workers, NEW q \in Requisitions, pc[w] # "idle", req[w].requisition = q
      PROVE  Fits(w, q)'
  <2>1. Fits(w, q) /\ req[w].send \in Nat /\ req[w].extra \in Nat
    BY <1>4 DEF Inv, WorkerInv, Types
  <2>. QED
    BY <1>2, <2>1 DEF Fits, requisitions
<1>5. \A w \in Workers : req[w].extra <= req[w].send
  BY DEF Inv, WorkerInv
<1>. QED
  BY <1>1, <1>3, <1>4, <1>5, TransferStep

LEMMA TakesOnTypes ==
  ASSUME Inv, NEW t \in Transfers, of[t] \in Requisitions, NEW n \in Nat, TakesOn(t, n),
         NEW q, q = of[t]
  PROVE  /\ beyond' \in [Transfers -> Nat]
         /\ beyond'[t] = Positive(n - (Within(t) + Positive(requested[q] - Demand(q))))
         /\ \A u \in Transfers \ {t} : beyond'[u] = beyond[u]
         /\ req' \in [Workers -> [requisition : Requisitions \cup {NoRequisition}, revision : Nat,
                                  seen : SUBSET Transfers, send : Nat, extra : Nat]]
         /\ \A w \in Workers :
              /\ req'[w].requisition = req[w].requisition /\ req'[w].revision = req[w].revision
              /\ req'[w].send = req[w].send
              /\ IF pc[w] \in {"lock", "write"} /\ req[w].requisition = q
                 THEN req'[w].extra =
                        Positive(req[w].send
                                 - Positive((requested[q] - Demand(q)) - (n - TakesUp(t))))
                 ELSE req'[w].extra = req[w].extra
<1>. DEFINE all == Outstanding(q, Transfers)
            rest == Max({0, Unfilled(q, Transfers) - (n - TakesUp(t))})
            over == Max({0, n - (Within(t) + all)})
            Requests == [requisition : Requisitions \cup {NoRequisition}, revision : Nat,
                         seen : SUBSET Transfers, send : Nat, extra : Nat]
            at(w) == [req[w] EXCEPT !.extra = Max({0, req[w].send - rest})]
<1>1. /\ q \in Requisitions /\ requested[q] \in Nat /\ Demand(q) \in Nat
      /\ Within(t) \in Int /\ TakesUp(t) \in Nat
      /\ all \in Nat /\ all = Positive(requested[q] - Demand(q))
      /\ Unfilled(q, Transfers) = requested[q] - Demand(q)
  BY SharesAre, WithinIsInt, OutstandingIs DEF Inv, Types
<1>2. rest \in Nat /\ rest = Positive((requested[q] - Demand(q)) - (n - TakesUp(t)))
  <2>1. (requested[q] - Demand(q)) - (n - TakesUp(t)) \in Int
    BY <1>1
  <2>. QED
    BY <1>1, <2>1, MaxIsPositive
<1>3. over \in Nat /\ over = Positive(n - (Within(t) + all))
  <2>1. n - (Within(t) + all) \in Int
    BY <1>1
  <2>. QED
    BY <2>1, MaxIsPositive
<1>4. /\ beyond' = [beyond EXCEPT ![t] = over]
      /\ req' = [w \in Workers |->
                   IF pc[w] \in {"lock", "write"} /\ req[w].requisition = q THEN at(w) ELSE req[w]]
  BY DEF TakesOn
<1>. HIDE DEF all, rest, over
<1>5. ASSUME NEW w \in Workers
      PROVE  /\ req[w] \in Requests /\ at(w) \in Requests
             /\ at(w).requisition = req[w].requisition /\ at(w).revision = req[w].revision
             /\ at(w).send = req[w].send /\ at(w).extra = Positive(req[w].send - rest)
  <2>1. req[w] \in Requests
    BY DEF Inv, Types
  <2>2. req[w].send - rest \in Int
    BY <1>2, <2>1
  <2>3. /\ Max({0, req[w].send - rest}) \in Nat
        /\ Max({0, req[w].send - rest}) = Positive(req[w].send - rest)
    BY <2>2, MaxIsPositive
  <2>. DEFINE m == Max({0, req[w].send - rest})
  <2>. HIDE DEF m
  <2>4. at(w) = [req[w] EXCEPT !.extra = m] /\ m \in Nat /\ m = Positive(req[w].send - rest)
    BY <2>3 DEF m
  <2>. QED
    BY <2>1, <2>4
<1>. HIDE DEF at, Requests
<1>6. req' \in [Workers -> Requests]
  BY <1>4, <1>5
<1>7. /\ beyond' \in [Transfers -> Nat] /\ beyond'[t] = over
      /\ \A u \in Transfers \ {t} : beyond'[u] = beyond[u]
  BY <1>3, <1>4 DEF Inv, Types
<1>8. ASSUME NEW w \in Workers
      PROVE  /\ req'[w].requisition = req[w].requisition /\ req'[w].revision = req[w].revision
             /\ req'[w].send = req[w].send
             /\ IF pc[w] \in {"lock", "write"} /\ req[w].requisition = q
                THEN req'[w].extra = Positive(req[w].send - rest) ELSE req'[w].extra = req[w].extra
  BY <1>4, <1>5
<1>. QED
  BY <1>1, <1>2, <1>3, <1>6, <1>7, <1>8 DEF Requests

\* What a transfer takes up of a requisition changes: no more than what was
\* outstanding comes to be within what was asked for.
LEMMA Raise ==
  ASSUME NEW net \in Nat, NEW demand \in Nat, NEW asked \in Nat, net <= demand, net <= asked,
         NEW within \in Nat, NEW n \in Nat, NEW over,
         over = Positive(n - (within + Positive(asked - demand)))
  PROVE  /\ n - over \in 0 .. n
         /\ net + ((n - over) - within) <= asked
BY DEF Positive

LEMMA TakesOnStep ==
  ASSUME Inv, Types', NEW t \in Transfers, of[t] # NoRequisition, stage[t] = "planned",
         UNCHANGED <<requisitions, of, pc>>, NEW n \in Nat, TakesOn(t, n),
         TakesUp(t)' = n, stage'[t] \in {"planned", "dispatched"},
         \A u \in Transfers \ {t} : TakesUp(u)' = TakesUp(u) /\ stage'[u] = stage[u]
  PROVE  Inv'
<1>. SUFFICES ASSUME NEW q, q = of[t] PROVE Inv'
  OBVIOUS
<1>1. q \in Requisitions
  BY DEF Inv, Types
<1>2. /\ beyond'[t] = Positive(n - (Within(t) + Positive(requested[q] - Demand(q))))
      /\ \A u \in Transfers \ {t} : beyond'[u] = beyond[u]
      /\ \A w \in Workers :
           /\ req'[w].requisition = req[w].requisition /\ req'[w].revision = req[w].revision
           /\ req'[w].send = req[w].send
           /\ IF pc[w] \in {"lock", "write"} /\ req[w].requisition = q
              THEN req'[w].extra =
                     Positive(req[w].send
                              - Positive((requested[q] - Demand(q)) - (n - TakesUp(t))))
              ELSE req'[w].extra = req[w].extra
  BY <1>1, TakesOnTypes
<1>3. /\ requested[q] \in Nat /\ Net(q) \in Nat /\ Demand(q) \in Nat
      /\ Net(q) <= Demand(q) /\ Net(q) <= requested[q]
      /\ TakesUp(t) \in Nat /\ Within(t) \in Nat
  BY <1>1, NetBounds, WithinIsInt DEF Inv, Types, RequisitionInv, TransferInv
<1>4. Within(t)' = n - beyond'[t] /\ \A u \in Transfers \ {t} : Within(u)' = Within(u)
  BY <1>2 DEF Within
<1>5. /\ n - beyond'[t] \in 0 .. n
      /\ Net(q) + ((n - beyond'[t]) - Within(t)) <= requested[q]
  BY <1>2, <1>3, Raise
<1>6. \A u \in Transfers : Within(u)' \in 0 .. TakesUp(u)'
  BY <1>4, <1>5 DEF Inv, TransferInv
<1>7. ASSUME NEW p \in Requisitions
      PROVE  Net(p)' = IF p = q THEN Net(p) + (Within(t)' - Within(t)) ELSE Net(p)
  <2>1. Net(p)' = Net(p) + (WithinShares(p)'[t] - WithinShares(p)[t])
    BY <1>4, NetChanges DEF Inv
  <2>2. /\ WithinShares(p)[t] = (IF p = q THEN Within(t) ELSE 0)
        /\ WithinShares(p)'[t] = (IF p = q THEN Within(t)' ELSE 0)
    BY DEF WithinShares
  <2>3. Net(p) \in Nat
    BY NetBounds DEF Inv
  <2>. QED
    BY <2>1, <2>2, <2>3
<1>8. \A p \in Requisitions : Net(p)' <= requested[p]
  BY <1>1, <1>4, <1>5, <1>7 DEF Inv, RequisitionInv
<1>9. Demand(q)' = Demand(q) + (n - TakesUp(t)) /\ Demand(q)' \in Nat
      /\ Net(q)' \in Nat /\ Net(q)' <= Demand(q)'
  <2>1. Demand(q)' = Demand(q) + (Shares(q)'[t] - Shares(q)[t])
    BY DemandChanges DEF Inv
  <2>2. Shares(q)[t] = TakesUp(t) /\ Shares(q)'[t] = n
    BY DEF Shares
  <2>3. \A u \in Transfers : TakesUp(u)' \in Nat
    BY DEF Types, TakesUp
  <2>4. \A u \in Transfers : /\ WithinShares(q)'[u] \in Nat /\ Shares(q)'[u] \in Nat
                             /\ WithinShares(q)'[u] <= Shares(q)'[u]
    BY <1>6, <2>3 DEF WithinShares, Shares
  <2>. DEFINE f == WithinShares(q)'
              g == Shares(q)'
  <2>5. Net(q)' = SumFunctionOnSet(f, Transfers) /\ Demand(q)' = SumFunctionOnSet(g, Transfers)
    BY DEF Net, Demand
  <2>6. \A u \in Transfers : f[u] \in Nat /\ g[u] \in Nat /\ f[u] <= g[u]
    BY <2>4
  <2>. HIDE DEF f, g
  <2>7. /\ SumFunctionOnSet(f, Transfers) \in Nat /\ SumFunctionOnSet(g, Transfers) \in Nat
        /\ SumFunctionOnSet(f, Transfers) <= SumFunctionOnSet(g, Transfers)
    BY <2>6, RequisitionsAssumption, SumNat, SumAtMost
  <2>. QED
    BY <2>1, <2>2, <2>5, <2>7
<1>10. ASSUME NEW w \in Workers, req[w].requisition = q, pc[w] \in {"lock", "write"}
       PROVE  Net(q)' + req'[w].send <= requested[q] + req'[w].extra
              /\ req'[w].extra <= req'[w].send
  <2>1. req[w].send \in Nat
    BY DEF Inv, Types
  <2>2. (requested[q] - Demand(q)) - (n - TakesUp(t)) = requested[q] - Demand(q)'
    BY <1>3, <1>9
  <2>3. req'[w].extra = Positive(req[w].send - Positive(requested[q] - Demand(q)'))
    BY <1>2, <1>10, <2>2
  <2>4. Net(q)' <= requested[q]
    BY <1>1, <1>8
  <2>. QED
    BY <1>2, <1>3, <1>9, <2>1, <2>3, <2>4, Room
<1>11. ASSUME NEW w \in Workers PROVE req'[w].extra <= req'[w].send
  <2>1. req[w].extra <= req[w].send
    BY DEF Inv, WorkerInv
  <2>. QED
    BY <1>2, <1>10, <2>1
<1>12. ASSUME NEW w \in Workers, NEW p \in Requisitions, pc[w] # "idle", req[w].requisition = p
       PROVE  Fits(w, p)'
  <2>1. CASE p = q
    BY <1>2, <1>10, <1>12, <2>1 DEF Fits, requisitions
  <2>2. CASE p # q
    <3>1. Fits(w, p) /\ Net(p)' = Net(p)
      BY <1>7, <1>12, <2>2 DEF Inv, WorkerInv
    <3>2. req'[w].extra = req[w].extra
      BY <1>2, <1>12, <2>2
    <3>. QED
      BY <1>2, <3>1, <3>2 DEF Fits, requisitions
  <2>. QED
    BY <2>1, <2>2
<1>. QED
  BY <1>2, <1>6, <1>8, <1>11, <1>12, TransferStep

LEMMA UpdateTransferInv ==
  \A t \in Transfers, n \in Quantities : Inv /\ UpdateTransfer(t, n) => Inv'
<1>. SUFFICES ASSUME Inv, NEW t \in Transfers, NEW n \in Quantities, UpdateTransfer(t, n)
              PROVE  Inv'
  OBVIOUS
<1>1. /\ of[t] # NoRequisition /\ stage[t] = "planned"
      /\ planned' = [planned EXCEPT ![t] = n] /\ TakesOn(t, n)
      /\ UNCHANGED <<requisitions, of, picked, stage, road, pc>>
  BY DEF UpdateTransfer, InPreparation
<1>2. of[t] \in Requisitions /\ n \in Nat
  BY <1>1, RequisitionsAssumption DEF Inv, Types
<1>3. /\ beyond' \in [Transfers -> Nat]
      /\ req' \in [Workers -> [requisition : Requisitions \cup {NoRequisition}, revision : Nat,
                               seen : SUBSET Transfers, send : Nat, extra : Nat]]
  BY <1>1, <1>2, TakesOnTypes
<1>4. planned' \in [Transfers -> Nat] /\ planned'[t] = n
      /\ \A u \in Transfers \ {t} : planned'[u] = planned[u]
  BY <1>1, <1>2 DEF Inv, Types
<1>5. Types'
  BY <1>1, <1>3, <1>4 DEF Inv, Types, requisitions
<1>6. TakesUp(t)' = n /\ \A u \in Transfers \ {t} : TakesUp(u)' = TakesUp(u)
  BY <1>1, <1>4 DEF TakesUp
<1>. QED
  BY <1>1, <1>2, <1>5, <1>6, TakesOnStep

LEMMA CancelTransferInv == \A t \in Transfers : Inv /\ CancelTransfer(t) => Inv'
<1>. SUFFICES ASSUME Inv, NEW t \in Transfers, CancelTransfer(t) PROVE Inv'
  OBVIOUS
<1>1. /\ of[t] # NoRequisition /\ stage[t] = "planned"
      /\ stage' = [stage EXCEPT ![t] = "cancelled"]
      /\ UNCHANGED <<requisitions, of, planned, picked, road, pc, req, beyond>>
  BY DEF CancelTransfer, InPreparation, Journey!Cancel, Journey!Become
<1>2. stage'[t] = "cancelled" /\ \A u \in Transfers \ {t} : stage'[u] = stage[u]
  BY <1>1 DEF Inv, Types
<1>3. Types'
  BY <1>1 DEF Inv, Types, requisitions
<1>4. /\ TakesUp(t)' = 0 /\ Within(t)' = 0
      /\ \A u \in Transfers \ {t} : TakesUp(u)' = TakesUp(u) /\ Within(u)' = Within(u)
  BY <1>1, <1>2 DEF TakesUp, Within
<1>5. Within(t) \in 0 .. TakesUp(t) /\ TakesUp(t) \in Nat
  BY WithinIsInt DEF Inv, TransferInv
<1>. QED
  BY <1>1, <1>2, <1>3, <1>4, <1>5, OneTransfer

LEMMA DispatchTransferInv == \A t \in Transfers : Inv /\ DispatchTransfer(t) => Inv'
<1>. SUFFICES ASSUME Inv, NEW t \in Transfers, DispatchTransfer(t) PROVE Inv'
  OBVIOUS
<1>1. PICK n \in Quantities : road' = [road EXCEPT ![t] = n]
  BY DEF DispatchTransfer, Journey!Dispatch
<1>2. n \in Nat
  BY RequisitionsAssumption
<1>3. road' \in [Transfers -> Nat] /\ road'[t] = n
  BY <1>1, <1>2 DEF Inv, Types
<1>4. /\ of[t] # NoRequisition /\ stage[t] = "planned"
      /\ stage' = [stage EXCEPT ![t] = "dispatched"]
      /\ picked' = [picked EXCEPT ![t] = n] /\ TakesOn(t, n)
      /\ UNCHANGED <<requisitions, of, planned, pc>>
  BY <1>3 DEF DispatchTransfer, InPreparation, Journey!Dispatch, Journey!Become
<1>5. of[t] \in Requisitions
  BY <1>4 DEF Inv, Types
<1>6. /\ beyond' \in [Transfers -> Nat]
      /\ req' \in [Workers -> [requisition : Requisitions \cup {NoRequisition}, revision : Nat,
                               seen : SUBSET Transfers, send : Nat, extra : Nat]]
  BY <1>2, <1>4, <1>5, TakesOnTypes
<1>7. /\ picked' \in [Transfers -> Nat] /\ picked'[t] = n /\ stage'[t] = "dispatched"
      /\ \A u \in Transfers \ {t} : picked'[u] = picked[u] /\ stage'[u] = stage[u]
  BY <1>2, <1>4 DEF Inv, Types
<1>8. Types'
  BY <1>3, <1>4, <1>6, <1>7 DEF Inv, Types, requisitions
<1>9. TakesUp(t)' = n /\ \A u \in Transfers \ {t} : TakesUp(u)' = TakesUp(u)
  BY <1>4, <1>7 DEF TakesUp
<1>. QED
  BY <1>2, <1>4, <1>7, <1>8, <1>9, TakesOnStep

LEMMA SettleTransferInv == \A t \in Transfers : Inv /\ SettleTransfer(t) => Inv'
<1>. SUFFICES ASSUME Inv, NEW t \in Transfers, SettleTransfer(t) PROVE Inv'
  OBVIOUS
<1>1. /\ stage[t] = "dispatched"
      /\ \E s \in {"received", "reversed"} : stage' = [stage EXCEPT ![t] = s]
      /\ road' = [road EXCEPT ![t] = 0]
      /\ UNCHANGED <<requisitions, of, planned, picked, pc, req, beyond>>
  BY DEF SettleTransfer, Journey!Receive, Journey!TurnBack, Journey!Become
<1>2. stage'[t] \in {"received", "reversed"} /\ \A u \in Transfers \ {t} : stage'[u] = stage[u]
  BY <1>1 DEF Inv, Types
<1>3. Types'
  BY <1>1 DEF Inv, Types, requisitions
<1>4. /\ <<Within(t)', TakesUp(t)'>> \in {<<0, 0>>, <<Within(t), TakesUp(t)>>}
      /\ \A u \in Transfers \ {t} : TakesUp(u)' = TakesUp(u) /\ Within(u)' = Within(u)
  BY <1>1, <1>2 DEF TakesUp, Within
<1>5. Within(t) \in 0 .. TakesUp(t) /\ TakesUp(t) \in Nat
  BY WithinIsInt DEF Inv, TransferInv
<1>6. of[t] # NoRequisition
  BY <1>1 DEF Inv, TransferInv
<1>. QED
  BY <1>1, <1>2, <1>3, <1>4, <1>5, <1>6, OneTransfer

------------------------------------------------------------------------------
LEMMA InvInit == Init => Inv
<1>. SUFFICES ASSUME Init PROVE Inv
  OBVIOUS
<1>1. Types
  BY DEF Init, Types, Journey!Init, NoRequest
<1>2. ASSUME NEW t \in Transfers PROVE TransferInv(t)
  BY RequisitionsAssumption DEF Init, TransferInv, Journey!Init, Within, TakesUp
<1>3. ASSUME NEW q \in Requisitions PROVE RequisitionInv(q)
  <2>1. \A t \in Transfers : WithinShares(q)[t] = 0
    BY RequisitionsAssumption DEF Init, WithinShares
  <2>2. Net(q) = 0
    BY <2>1, RequisitionsAssumption, SumZero DEF Net
  <2>3. requested[q] = 0 /\ status[q] # "cancelled"
    BY DEF Init
  <2>. QED
    BY <2>2, <2>3 DEF RequisitionInv
<1>4. ASSUME NEW w \in Workers PROVE WorkerInv(w)
  BY DEF Init, WorkerInv, NoRequest
<1>5. HoldsApart
  BY DEF Init, HoldsApart
<1>. QED
  BY <1>1, <1>2, <1>3, <1>4, <1>5 DEF Inv

LEMMA InvStep == Inv /\ [Next]_vars => Inv'
<1>. SUFFICES ASSUME Inv, [Next]_vars PROVE Inv'
  OBVIOUS
<1>1. CASE UNCHANGED vars \/ NextDay \/ ChangeLocation
  <2>1. UNCHANGED <<status, revision, requested, transfers, pc, req, beyond>>
    BY <1>1 DEF vars, requisitions, NextDay, ChangeLocation
  <2>2. Types'
    BY <2>1 DEF Inv, Types, transfers
  <2>3. /\ \A q \in Requisitions : Net(q)' = Net(q)
        /\ \A t \in Transfers : Within(t)' = Within(t) /\ TakesUp(t)' = TakesUp(t)
    BY <2>1, NetKeeps DEF transfers
  <2>4. ASSUME NEW t \in Transfers PROVE TransferInv(t)'
    BY <2>1, <2>3 DEF Inv, TransferInv, transfers
  <2>5. ASSUME NEW q \in Requisitions PROVE RequisitionInv(q)'
    BY <2>1, <2>3 DEF Inv, RequisitionInv, Of, transfers
  <2>6. ASSUME NEW w \in Workers PROVE WorkerInv(w)'
    BY <2>1, <2>3 DEF Inv, WorkerInv, Fits
  <2>7. HoldsApart'
    BY <2>1 DEF Inv, HoldsApart
  <2>. QED
    BY <2>2, <2>4, <2>5, <2>6, <2>7 DEF Inv
<1>2. ASSUME NEW q \in Requisitions, NEW n \in Quantities, Create(q, n) PROVE Inv'
  BY <1>2, BranchInv
<1>3. ASSUME NEW q \in Requisitions, NEW n \in Quantities, NEW p \in BOOLEAN, Update(q, n, p)
      PROVE  Inv'
  BY <1>3, BranchInv
<1>4. ASSUME NEW q \in Requisitions, Submit(q) PROVE Inv'
  BY <1>4, SubmitInv
<1>5. ASSUME NEW w \in Workers, NEW q \in Requisitions,
             BeginCancel(w, q) \/ \E own \in Quantities \cup {0} : Ask(w, q, own)
      PROVE  Inv'
  BY <1>5, BeginCancelInv, AskInv
<1>6. ASSUME NEW w \in Workers,
             Cancel(w) \/ Read(w) \/ Lock(w) \/ Abandon(w) \/ \E t \in Transfers : Write(w, t)
      PROVE  Inv'
  BY <1>6, CancelInv, ReadInv, LockInv, RefuseInv, WriteInv DEF Abandon
<1>7. ASSUME NEW t \in Transfers,
             CancelTransfer(t) \/ DispatchTransfer(t) \/ SettleTransfer(t)
               \/ \E n \in Quantities : UpdateTransfer(t, n)
      PROVE  Inv'
  BY <1>7, CancelTransferInv, DispatchTransferInv, SettleTransferInv, UpdateTransferInv
<1>. QED
  BY <1>1, <1>2, <1>3, <1>4, <1>5, <1>6, <1>7 DEF Next

LEMMA Invariant == Spec => []Inv
BY InvInit, InvStep, PTL DEF Spec

\* However many people prepare transfers of one requisition at once, and
\* whatever becomes of its other transfers meanwhile, nothing that was
\* outstanding goes out twice, whether they ask for it or name the quantity.
THEOREM NothingGoesTwice == Spec => []NothingSentTwice
<1>1. Inv => NothingSentTwice
  <2>. SUFFICES ASSUME Inv, NEW q \in Requisitions
                PROVE  SumFunction([t \in Of(q) |-> Within(t)]) <= requested[q]
    BY DEF NothingSentTwice
  <2>. QED
    BY NetIs DEF Inv, RequisitionInv
<1>. QED
  BY <1>1, Invariant, PTL

\* No transfer serves a requisition that was cancelled, whichever of the
\* cancellation and the transfer's dispatch came first.
THEOREM CancelledStaysUnserved == Spec => []CancelledIsUnserved
<1>1. Inv => CancelledIsUnserved
  BY DEF Inv, RequisitionInv, CancelledIsUnserved
<1>. QED
  BY <1>1, Invariant, PTL
=============================================================================
