--------------------------- MODULE PurchasingProofs ---------------------------
(***************************************************************************)
(* Proofs about module Purchasing, for any number of order lines, receipts,*)
(* people and requests, and any limits and thresholds.                     *)
(***************************************************************************)
EXTENDS Purchasing, SumTheorems

\* A request under way is about a receipt, and as long as the receipt is at
\* the revision on the person's page, so are its lines.
Asks(w) ==
  /\ Doc(w) \in Receipts
  /\ req[w].revision <= revision[Doc(w)]
  /\ revision[Doc(w)] = req[w].revision /\ Kind(w) \in {"submit", "clean", "post"} =>
       req[w].line = delivery[Doc(w)]

\* From its first step to its end a posting holds its receipt, which stays as
\* the person saw it.
HoldsReceipt(w) ==
  /\ Posts(w)
  /\ lock[Doc(w)] = w
  /\ status[Doc(w)] = From(Kind(w))
  /\ revision[Doc(w)] = req[w].revision

WithinLoosest(r) ==
  \A l \in OrderLines : (received[l] + Accepted(r, l)) * 100 <= ordered[l] * (100 + Loosest(l))

\* What was decided under the order's lock is true until the order is written,
\* however the items' limits have moved.
DecisionHolds(w) ==
  /\ Receivable
  /\ WithinLoosest(Doc(w))
  /\ Kind(w) = "clean" => WithinTolerance(Doc(w))

WorkerInv(w) ==
  /\ pc[w] # "idle" => Asks(w)
  /\ pc[w] \in {"order", "decide", "write"} => HoldsReceipt(w)
  /\ pc[w] \in {"decide", "write"} => lock[Order] = w
  /\ pc[w] = "write" => DecisionHolds(w)

RequestInv == \A w \in Workers : WorkerInv(w)

Approved(d) == approver[d] \notin {Nobody, creator[d]}

NothingPosted == \A r \in Receipts : status[r] # "posted"

\* Before it is approved nothing is posted against an order; until something
\* is accepted, and after it was cancelled, nothing is received.
OrderInv ==
  /\ status[Order] \in {"none", "draft", "submitted", "rejected"} => NothingPosted
  /\ status[Order] \in ReceivableStatuses \cup {"received"} \/ ~NothingPosted =>
       Gross <= judgedBy \/ Approved(Order)
  /\ status[Order] \notin {"partially_received", "received"} =>
       \A l \in OrderLines : received[l] = 0

ReceiptInv ==
  \A r \in Receipts :
    /\ status[r] = "approved" => Approved(r)
    /\ status[r] = "posted" /\ found[r] # {} => Approved(r)
    /\ status[r] # "posted" => lots[r] = NoLots

Inv == TypeOK /\ RequestInv /\ OrderInv /\ ReceiptInv /\ NeverOverReceived /\ BooksAgree

------------------------------------------------------------------------------
LEMMA Documents ==
  /\ Order \in Docs /\ Order \notin Receipts
  /\ Receipts \subseteq Docs /\ NoReceipt \notin Receipts
BY PurchasingAssumption DEF Docs

\* What a receiver records, line by line.
LEMMA DeliveryTypes ==
  ASSUME NEW d \in Deliveries \cup {NoDelivery}, NEW l \in OrderLines
  PROVE  /\ d[l].counted \in Nat /\ d[l].rejected \in Nat
         /\ d[l].counted - d[l].rejected \in Nat
         /\ d[l].counted = 0 => d[l].rejected = 0
<1>1. d \in Deliveries => d[l] \in Arrivals /\ d[l].rejected <= d[l].counted
  BY PurchasingAssumption
<1>. QED
  BY <1>1 DEF NoDelivery, Arrivals

LEMMA AcceptedTypes ==
  ASSUME TypeOK, NEW r \in Receipts, NEW l \in OrderLines
  PROVE  /\ delivery[r][l].counted \in Nat /\ delivery[r][l].rejected \in Nat
         /\ Accepted(r, l) \in Nat
         /\ l \notin Delivered(r) => Accepted(r, l) = 0 /\ delivery[r][l].rejected = 0
<1>1. delivery[r] \in Deliveries \cup {NoDelivery}
  BY DEF TypeOK
<1>. QED
  BY <1>1, DeliveryTypes DEF Accepted, Delivered

\* What ending a request leaves of it and of its locks.
LEMMA IdleTypes ==
  ASSUME TypeOK, NEW w \in Workers, Idle(w)
  PROVE  /\ pc' \in [Workers -> {"idle", "lock", "order", "decide", "write"}]
         /\ req' \in [Workers -> Requests]
BY DEF TypeOK, Idle, NoRequest, Requests, Kinds

LEMMA ReleaseTypes ==
  ASSUME TypeOK, NEW w \in Workers, Release(w)
  PROVE  lock' \in [Docs -> Workers \cup {NoWorker}]
BY DEF TypeOK, Release

LEMMA MoveTypes ==
  ASSUME TypeOK, NEW d \in Docs, NEW from, NEW to, Move(d, from, to),
         to \in OrderStatuses, d # Order => to \in ReceiptStatuses
  PROVE  /\ status' \in [Docs -> ReceiptStatuses \cup OrderStatuses]
         /\ status'[Order] \in OrderStatuses
         /\ \A r \in Receipts : status'[r] \in ReceiptStatuses
BY Documents DEF TypeOK, Move

LEMMA TypeInit == Init => TypeOK
<1>. SUFFICES ASSUME Init PROVE TypeOK
  OBVIOUS
<1>1. NoLots \in [OrderLines -> Nat]
  BY DEF NoLots
<1>. QED
  BY <1>1, Documents, PurchasingAssumption
  DEF Init, TypeOK, OrderStatuses, ReceiptStatuses, NoRequest, Requests, Kinds

LEMMA TypeStep == TypeOK /\ RequestInv /\ [Next]_vars => TypeOK'
<1>. SUFFICES ASSUME TypeOK, RequestInv, [Next]_vars PROVE TypeOK'
  OBVIOUS
<1>. USE Documents DEF TypeOK, documents, orderLines, receiving, masterData, locals, Elsewhere
<1>1. CASE UNCHANGED vars
  BY <1>1 DEF vars
<1>2. CASE ChangeMasterData
  <2>1. events' \in 0 .. MaxEvents
    BY <1>2, PurchasingAssumption DEF ChangeMasterData, ChangeTolerance, ChangeThreshold, ChangeUse
  <2>2. variance' \in Variances /\ threshold' \in Thresholds /\ inUse' \subseteq Parties
    BY <1>2 DEF ChangeMasterData, ChangeTolerance, ChangeThreshold, ChangeUse
  <2>. QED
    BY <1>2, <2>1, <2>2 DEF ChangeMasterData, ChangeTolerance, ChangeThreshold, ChangeUse
<1>3. ASSUME NEW lines \in Orderings, UpdateOrder(lines) PROVE TypeOK'
  BY <1>3, MoveTypes DEF UpdateOrder, OrderStatuses
<1>4. ASSUME NEW lines \in Orderings, NEW p \in People, CreateOrder(p, lines) PROVE TypeOK'
  BY <1>4, MoveTypes DEF CreateOrder, OrderStatuses
<1>5. ASSUME NEW p \in People, ApproveOrder(p) PROVE TypeOK'
  BY <1>5, MoveTypes DEF ApproveOrder, OrderStatuses
<1>6. CASE SubmitOrder
  BY <1>6, MoveTypes DEF SubmitOrder, OrderStatuses
<1>7. CASE RejectOrder
  BY <1>7, MoveTypes DEF RejectOrder, OrderStatuses
<1>8. CASE SendOrder
  BY <1>8, MoveTypes DEF SendOrder, OrderStatuses
<1>9. CASE CancelOrder
  BY <1>9, MoveTypes DEF CancelOrder, OrderStatuses
<1>10. ASSUME NEW r \in Receipts, RejectReceipt(r) PROVE TypeOK'
  BY <1>10, MoveTypes DEF RejectReceipt, NextRevision, OrderStatuses, ReceiptStatuses
<1>11. ASSUME NEW w \in Workers, NEW r \in Receipts, NEW p \in People, ApproveReceipt(w, r, p)
       PROVE TypeOK'
  <2>1. [kind |-> "post", doc |-> r, by |-> Nobody, revision |-> revision[r] + 1,
         line |-> delivery[r]] \in Requests
    BY DEF Requests, Kinds
  <2>. QED
    BY <1>11, <2>1, MoveTypes DEF ApproveReceipt, NextRevision, OrderStatuses, ReceiptStatuses
<1>12. ASSUME NEW w \in Workers, Ask(w) PROVE TypeOK'
  <2>1. PICK r \in Receipts, kind \in Kinds, p \in People \cup {Nobody},
             line \in Deliveries \cup {NoDelivery} : Begin(w, kind, r, p, line)
    BY <1>12 DEF Ask, Kinds
  <2>2. [kind |-> kind, doc |-> r, by |-> p, revision |-> revision[r], line |-> line] \in Requests
    BY DEF Requests
  <2>. QED
    BY <2>1, <2>2 DEF Begin
<1>13. ASSUME NEW w \in Workers, Refuse(w) PROVE TypeOK'
  BY <1>13, IdleTypes, ReleaseTypes DEF Refuse
<1>14. ASSUME NEW w \in Workers, LockDocument(w) PROVE TypeOK'
  <2>1. Doc(w) \in Receipts /\ req[w] \in Requests
    BY <1>14 DEF LockDocument, RequestInv, WorkerInv, Asks
  <2>2. req[w].by \in People \cup {Nobody} /\ req[w].line \in Deliveries \cup {NoDelivery}
    BY <2>1 DEF Requests
  <2>3. CASE RaiseReceipt(w) /\ UNCHANGED <<masterData, events>>
    BY <2>1, <2>2, <2>3, IdleTypes
    DEF RaiseReceipt, Take, NextRevision, OrderStatuses, ReceiptStatuses
  <2>4. CASE UpdateReceipt(w) /\ UNCHANGED <<masterData, events>>
    BY <2>1, <2>2, <2>4, IdleTypes
    DEF UpdateReceipt, Take, NextRevision, OrderStatuses, ReceiptStatuses
  <2>5. CASE SubmitReceipt(w) /\ UNCHANGED <<masterData, events>>
    <3>1. Inspect(Doc(w)) \subseteq OrderLines
      BY DEF Inspect, Delivered
    <3>2. CASE Inspect(Doc(w)) # {}
      <4>1. /\ found' = [found EXCEPT ![Doc(w)] = Inspect(Doc(w))]
            /\ Take(w, "submitted") /\ Idle(w)
            /\ UNCHANGED <<creator, approver, orderLines, delivery, lots, lock, masterData, events>>
        BY <2>5, <3>2 DEF SubmitReceipt
      <4>. QED
        BY <2>1, <3>1, <4>1, IdleTypes DEF Take, NextRevision, OrderStatuses, ReceiptStatuses
    <3>3. CASE Inspect(Doc(w)) = {}
      <4>1. [req[w] EXCEPT !.kind = "clean"] \in Requests
        BY <2>1 DEF Requests, Kinds
      <4>2. req' = [req EXCEPT ![w] = [req[w] EXCEPT !.kind = "clean"]]
            /\ UNCHANGED <<status, revision, found, pc, creator, approver, orderLines, delivery,
                           lots, lock, masterData, events>>
        BY <2>5, <3>3 DEF SubmitReceipt
      <4>. QED
        BY <4>1, <4>2
    <3>. QED
      BY <3>2, <3>3
  <2>6. CASE /\ lock' = [lock EXCEPT ![Doc(w)] = w]
             /\ pc' = [pc EXCEPT ![w] = "order"]
             /\ UNCHANGED <<documents, orderLines, receiving, masterData, req, events>>
    BY <2>6
  <2>. QED
    BY <1>13, <1>14, <2>3, <2>4, <2>5, <2>6 DEF LockDocument, OneTransaction
<1>15. ASSUME NEW w \in Workers, LockOrder(w) PROVE TypeOK'
  BY <1>15 DEF LockOrder
<1>16. ASSUME NEW w \in Workers, Decide(w) PROVE TypeOK'
  <2>1. CASE Refuse(w)
    BY <1>13, <2>1
  <2>2. CASE /\ pc' = [pc EXCEPT ![w] = "write"]
             /\ UNCHANGED <<documents, orderLines, receiving, masterData, lock, req, events>>
    BY <2>2
  <2>. QED
    BY <1>16, <2>1, <2>2 DEF Decide
<1>17. ASSUME NEW w \in Workers, PostReceipt(w) PROVE TypeOK'
  <2>. DEFINE r == Doc(w)
              to == OrderStatusAfterReceipt(RecordReceipt(r))
  <2>1. r \in Receipts
    BY <1>17 DEF PostReceipt, RequestInv, WorkerInv, Asks
  <2>2. to \in OrderStatuses
    BY DEF OrderStatusAfterReceipt, OrderStatuses
  <2>3. \A l \in OrderLines : Accepted(r, l) \in Nat /\ delivery[r][l].rejected \in Nat
    BY <2>1, AcceptedTypes
  <2>4. received' \in [OrderLines -> Nat] /\ returned' \in [OrderLines -> Nat]
    BY <1>17, <2>3 DEF PostReceipt, RecordReceipt
  <2>5. /\ status' \in [Docs -> ReceiptStatuses \cup OrderStatuses]
        /\ status'[Order] \in OrderStatuses
        /\ \A q \in Receipts : status'[q] \in ReceiptStatuses
    <3>. HIDE DEF to
    <3>. QED
      BY <1>17, <2>1, <2>2 DEF PostReceipt, ReceiptStatuses, to
  <2>6. lots' \in [Receipts -> [OrderLines -> Nat]]
    BY <1>17, <2>1, <2>3 DEF PostReceipt
  <2>7. found' \in [Receipts -> SUBSET OrderLines] /\ revision' \in [Receipts -> Nat]
    BY <1>17, <2>1 DEF PostReceipt, NextRevision
  <2>8. Idle(w) /\ Release(w)
        /\ UNCHANGED <<creator, approver, ordered, judgedBy, delivery, masterData, events>>
    BY <1>17 DEF PostReceipt
  <2>. QED
    BY <2>4, <2>5, <2>6, <2>7, <2>8, IdleTypes, ReleaseTypes
<1>18. ASSUME NEW w \in Workers, Crash(w) PROVE TypeOK'
  BY <1>18, IdleTypes, ReleaseTypes, PurchasingAssumption DEF Crash
<1>. QED
  BY <1>1, <1>2, <1>3, <1>4, <1>5, <1>6, <1>7, <1>8, <1>9, <1>10, <1>11, <1>12, <1>14, <1>15,
     <1>16, <1>17, <1>18 DEF Next, Step

------------------------------------------------------------------------------
(* Limits *)

\* No limit of the moment is looser than the loosest.
LEMMA LimitTypes ==
  ASSUME TypeOK, NEW l \in OrderLines
  PROVE  Percent(l) \in Nat /\ Loosest(l) \in Nat /\ Percent(l) <= Loosest(l)
<1>. DEFINE f == [v \in Variances |-> IF v[l] = NoLimit THEN 0 ELSE v[l]]
            S == {IF v[l] = NoLimit THEN 0 ELSE v[l] : v \in Variances}
<1>1. \A v \in Variances : f[v] \in Nat
  BY PurchasingAssumption
<1>2. variance \in Variances /\ Percent(l) = f[variance]
  BY DEF TypeOK, Percent
<1>3. \A x : x \in S <=> \E v \in Variances : x = f[v]
  OBVIOUS
<1>. HIDE DEF f, S
<1>4. PICK m \in Variances : \A v \in Variances : f[v] <= f[m]
  BY <1>1, <1>2, GreatestExists, PurchasingAssumption
<1>5. f[m] \in S /\ \A x \in S : x \in Nat /\ f[m] >= x
  BY <1>1, <1>3, <1>4
<1>6. Max(S) \in S /\ \A x \in S : Max(S) >= x
  <2>. HIDE DEF S
  <2>. QED
    BY <1>5 DEF Max
<1>7. Max(S) \in Nat /\ Percent(l) \in Nat /\ Percent(l) <= Max(S)
  BY <1>1, <1>2, <1>3, <1>5, <1>6
<1>. QED
  BY <1>7 DEF Loosest, S

LEMMA AmountTypes ==
  ASSUME TypeOK, NEW l \in OrderLines
  PROVE  ordered[l] \in Nat /\ received[l] \in Nat /\ returned[l] \in Nat /\ Outstanding(l) \in Nat
<1>1. ordered[l] \in Nat \ {0}
  BY PurchasingAssumption DEF TypeOK
<1>2. received[l] \in Nat /\ returned[l] \in Nat
  BY DEF TypeOK
<1>. QED
  BY <1>1, <1>2 DEF Outstanding

LEMMA AcceptsWithinLoosest ==
  ASSUME TypeOK, NeverOverReceived, NEW r \in Receipts,
         \A l \in Delivered(r) : WithinLimit(r, l)
  PROVE  WithinLoosest(r)
<1>. SUFFICES ASSUME NEW l \in OrderLines
     PROVE (received[l] + Accepted(r, l)) * 100 <= ordered[l] * (100 + Loosest(l))
  BY DEF WithinLoosest
<1>. DEFINE p == Percent(l) q == Loosest(l) o == ordered[l] n == received[l] a == Accepted(r, l)
<1>1. p \in Nat /\ q \in Nat /\ p <= q /\ o \in Nat /\ n \in Nat /\ a \in Nat
  BY LimitTypes, AmountTypes, AcceptedTypes
<1>2. CASE l \in Delivered(r)
  <2>1. (n + a) * 100 <= o * (100 + p)
    BY <1>2 DEF WithinLimit
  <2>. HIDE DEF p, q, o, n, a
  <2>2. 100 + p \in Nat /\ 100 + q \in Nat /\ 100 + p <= 100 + q
    BY <1>1
  <2>3. o * (100 + p) <= o * (100 + q)
    BY <1>1, <2>2, TimesGrows
  <2>4. o * (100 + p) \in Nat /\ o * (100 + q) \in Nat /\ (n + a) * 100 \in Nat
    BY <1>1, <2>2
  <2>5. (n + a) * 100 <= o * (100 + q)
    BY <2>1, <2>3, <2>4
  <2>. QED
    BY <2>5 DEF p, q, o, n, a
<1>3. CASE l \notin Delivered(r)
  <2>1. a = 0
    BY <1>3, AcceptedTypes
  <2>2. n * 100 <= o * (100 + q)
    BY DEF NeverOverReceived
  <2>. QED
    BY <1>1, <2>1, <2>2
<1>. QED
  BY <1>2, <1>3

LEMMA FoundNothing ==
  ASSUME TypeOK, NEW r \in Receipts, Inspect(r) = {}
  PROVE  WithinTolerance(r)
<1>. SUFFICES ASSUME NEW l \in Delivered(r)
     PROVE  /\ delivery[r][l].state = "fine"
            /\ (\A v \in Variances : v[l] # NoLimit) =>
                 /\ (delivery[r][l].counted - Outstanding(l)) * 100 <= Outstanding(l) * Loosest(l)
                 /\ (Outstanding(l) - delivery[r][l].counted) * 100 <= Outstanding(l) * Loosest(l)
  BY DEF WithinTolerance
<1>. DEFINE p == Percent(l) q == Loosest(l) o == Outstanding(l) n == delivery[r][l].counted
<1>1. l \in OrderLines
  BY DEF Delivered
<1>2. p \in Nat /\ q \in Nat /\ p <= q /\ o \in Nat /\ n \in Nat
  BY <1>1, LimitTypes, AmountTypes, AcceptedTypes
<1>3. ~OutsideVariance(r, l) /\ delivery[r][l].state = "fine"
  BY DEF Inspect
<1>4. ASSUME \A v \in Variances : v[l] # NoLimit
      PROVE  (n - o) * 100 <= o * q /\ (o - n) * 100 <= o * q
  <2>1. variance[l] # NoLimit
    BY <1>4 DEF TypeOK
  <2>2. ~((n - o) * 100 > o * p) /\ ~((n - o) * 100 < 0 - o * p)
    BY <1>3, <2>1 DEF OutsideVariance
  <2>. HIDE DEF p, q, o, n
  <2>3. o * p <= o * q /\ o * p \in Nat /\ o * q \in Nat
    BY <1>2, TimesGrows
  <2>. QED
    BY <1>2, <2>2, <2>3
<1>. QED
  BY <1>3, <1>4

------------------------------------------------------------------------------
(* Requests under way *)

\* What a step must leave alone for what another request relies on to hold.
Undisturbed(v) ==
  /\ pc'[v] = pc[v] /\ req'[v] = req[v]
  /\ \/ pc[v] = "idle"
     \/ revision'[Doc(v)] = revision[Doc(v)] /\ delivery'[Doc(v)] = delivery[Doc(v)]
     \/ revision'[Doc(v)] = revision[Doc(v)] + 1
  /\ pc[v] \in {"order", "decide", "write"} =>
       /\ lock'[Doc(v)] = v
       /\ status'[Doc(v)] = status[Doc(v)]
       /\ revision'[Doc(v)] = revision[Doc(v)]
       /\ delivery'[Doc(v)] = delivery[Doc(v)]
  /\ pc[v] \in {"decide", "write"} =>
       /\ lock'[Order] = v /\ status'[Order] = status[Order]
       /\ UNCHANGED <<received, ordered>>

LEMMA UndisturbedGoesOn ==
  ASSUME TypeOK, NEW v \in Workers, WorkerInv(v), Undisturbed(v)
  PROVE  WorkerInv(v)'
<1>. USE DEF WorkerInv, Undisturbed
<1>1. ASSUME pc[v] # "idle" PROVE Asks(v)'
  <2>1. Asks(v) /\ revision[Doc(v)] \in Nat /\ req[v].revision \in Nat
    BY <1>1 DEF TypeOK, Requests, Asks
  <2>. QED
    BY <1>1, <2>1 DEF Asks, Doc, Kind
<1>2. ASSUME pc[v] \in {"order", "decide", "write"} PROVE HoldsReceipt(v)'
  BY <1>2 DEF HoldsReceipt, Doc, Kind, Posts, From
<1>3. ASSUME pc[v] = "write" PROVE DecisionHolds(v)'
  <2>1. DecisionHolds(v) /\ delivery'[Doc(v)] = delivery[Doc(v)]
    BY <1>3
  <2>2. Receivable' /\ WithinLoosest(Doc(v))'
    BY <1>3, <2>1
    DEF DecisionHolds, Receivable, WithinLoosest, Accepted, Loosest, Doc
  <2>3. (Kind(v) = "clean" => WithinTolerance(Doc(v)))'
    <3>1. Doc(v)' = Doc(v) /\ Kind(v)' = Kind(v)
      BY DEF Doc, Kind
    <3>2. Delivered(Doc(v))' = Delivered(Doc(v))
      BY <2>1, <3>1 DEF Delivered
    <3>3. \A l \in OrderLines : Outstanding(l)' = Outstanding(l) /\ Loosest(l)' = Loosest(l)
      BY <1>3 DEF Outstanding, Loosest
    <3>4. Delivered(Doc(v)) \subseteq OrderLines
      BY DEF Delivered
    <3>. QED
      BY <2>1, <3>1, <3>2, <3>3, <3>4 DEF DecisionHolds, WithinTolerance
  <2>. QED
    BY <2>2, <2>3 DEF DecisionHolds
<1>. QED
  BY <1>1, <1>2, <1>3

\* A request that ends leaves the others as they were.
LEMMA EndingDisturbsNobody ==
  ASSUME TypeOK, RequestInv, NEW w \in Workers, Idle(w), Release(w),
         UNCHANGED <<documents, ordered, received, delivery>>
  PROVE  RequestInv'
<1>. SUFFICES ASSUME NEW v \in Workers PROVE WorkerInv(v)'
  BY DEF RequestInv
<1>1. CASE v = w
  BY <1>1 DEF Idle, WorkerInv, TypeOK
<1>2. CASE v # w
  <2>1. WorkerInv(v)
    BY DEF RequestInv
  <2>2. pc[v] # "idle" => Doc(v) \in Docs
    BY <2>1, Documents DEF WorkerInv, Asks
  <2>3. Undisturbed(v)
    BY <1>2, <2>1, <2>2, Documents
    DEF Undisturbed, WorkerInv, HoldsReceipt, Idle, Release, TypeOK, documents
  <2>. QED
    BY <2>1, <2>3, UndisturbedGoesOn
<1>. QED
  BY <1>1, <1>2

\* A step that changes only an order nobody has locked.
LEMMA OrderStepDisturbsNobody ==
  ASSUME TypeOK, RequestInv, Unlocked(Order), NEW to, status' = [status EXCEPT ![Order] = to],
         UNCHANGED <<revision, delivery, lock, pc, req>>
  PROVE  RequestInv'
<1>. SUFFICES ASSUME NEW v \in Workers PROVE WorkerInv(v)'
  BY DEF RequestInv
<1>1. WorkerInv(v)
  BY DEF RequestInv
<1>2. pc[v] \notin {"decide", "write"}
  BY <1>1, PurchasingAssumption DEF WorkerInv, Unlocked
<1>3. Undisturbed(v)
  <2>1. pc[v] # "idle" => Doc(v) \in Receipts /\ Doc(v) # Order
    BY <1>1, Documents DEF WorkerInv, Asks
  <2>2. pc[v] = "order" => HoldsReceipt(v)
    BY <1>1 DEF WorkerInv
  <2>. QED
    BY <1>2, <2>1, <2>2, Documents DEF Undisturbed, HoldsReceipt, TypeOK
<1>. QED
  BY <1>1, <1>3, UndisturbedGoesOn

\* A step that changes only a receipt nobody has locked.
LEMMA ReceiptStepDisturbsNobody ==
  ASSUME TypeOK, RequestInv, NEW r \in Receipts, Unlocked(r), NEW v \in Workers,
         NEW to, status' = [status EXCEPT ![r] = to],
         revision' = [revision EXCEPT ![r] = @ + 1],
         \A q \in Receipts \ {r} : delivery'[q] = delivery[q],
         UNCHANGED <<ordered, received, lock>>,
         pc'[v] = pc[v], req'[v] = req[v]
  PROVE  WorkerInv(v)'
<1>1. WorkerInv(v)
  BY DEF RequestInv
<1>2. pc[v] # "idle" => Doc(v) \in Receipts
  BY <1>1 DEF WorkerInv, Asks
<1>3. pc[v] \in {"order", "decide", "write"} => Doc(v) # r
  BY <1>1, PurchasingAssumption DEF WorkerInv, HoldsReceipt, Unlocked
<1>4. Undisturbed(v)
  BY <1>1, <1>2, <1>3, Documents DEF Undisturbed, WorkerInv, HoldsReceipt, TypeOK
<1>. QED
  BY <1>1, <1>4, UndisturbedGoesOn

LEMMA RequestStep == TypeOK /\ RequestInv /\ NeverOverReceived /\ [Next]_vars => RequestInv'
<1>. SUFFICES ASSUME TypeOK, RequestInv, NeverOverReceived, [Next]_vars PROVE RequestInv'
  OBVIOUS
<1>. USE DEF documents, orderLines, receiving, masterData, locals, Elsewhere
<1>0. ASSUME UNCHANGED <<documents, ordered, received, delivery, locals>> PROVE RequestInv'
  <2>1. ASSUME NEW v \in Workers PROVE WorkerInv(v)'
    <3>1. WorkerInv(v)
      BY DEF RequestInv
    <3>2. Undisturbed(v)
      BY <1>0, <3>1 DEF Undisturbed, WorkerInv, HoldsReceipt
    <3>. QED
      BY <3>1, <3>2, UndisturbedGoesOn
  <2>. QED
    BY <2>1 DEF RequestInv
<1>1. CASE UNCHANGED vars
  BY <1>0, <1>1 DEF vars
<1>2. CASE ChangeMasterData
  BY <1>0, <1>2 DEF ChangeMasterData, ChangeTolerance, ChangeThreshold, ChangeUse
<1>3. ASSUME NEW lines \in Orderings, UpdateOrder(lines) PROVE RequestInv'
  BY <1>3, OrderStepDisturbsNobody DEF UpdateOrder, Move
<1>4. ASSUME NEW lines \in Orderings, NEW p \in People, CreateOrder(p, lines) PROVE RequestInv'
  BY <1>4, OrderStepDisturbsNobody DEF CreateOrder, Move
<1>5. ASSUME NEW p \in People, ApproveOrder(p) PROVE RequestInv'
  BY <1>5, OrderStepDisturbsNobody DEF ApproveOrder, Move
<1>6. CASE SubmitOrder
  <2>1. Unlocked(Order) /\ \E to : status' = [status EXCEPT ![Order] = to]
    BY <1>6 DEF SubmitOrder, Move
  <2>. QED
    BY <1>6, <2>1, OrderStepDisturbsNobody DEF SubmitOrder
<1>7. CASE RejectOrder
  BY <1>7, OrderStepDisturbsNobody DEF RejectOrder, Move
<1>8. CASE SendOrder
  BY <1>8, OrderStepDisturbsNobody DEF SendOrder, Move
<1>9. CASE CancelOrder
  BY <1>9, OrderStepDisturbsNobody DEF CancelOrder, Move
<1>10. ASSUME NEW r \in Receipts, RejectReceipt(r) PROVE RequestInv'
  <2>1. /\ Unlocked(r)
        /\ status' = [status EXCEPT ![r] = "rejected"]
        /\ revision' = [revision EXCEPT ![r] = @ + 1]
        /\ UNCHANGED <<ordered, received, delivery, lock, pc, req>>
    BY <1>10 DEF RejectReceipt, Move, NextRevision
  <2>2. ASSUME NEW v \in Workers PROVE WorkerInv(v)'
    BY <2>1, ReceiptStepDisturbsNobody
  <2>. QED
    BY <2>2 DEF RequestInv
<1>11. ASSUME NEW w \in Workers, NEW r \in Receipts, NEW p \in People, ApproveReceipt(w, r, p)
       PROVE RequestInv'
  <2>1. /\ Unlocked(r)
        /\ status' = [status EXCEPT ![r] = "approved"]
        /\ revision' = [revision EXCEPT ![r] = @ + 1]
        /\ UNCHANGED <<ordered, received, delivery, lock>>
    BY <1>11 DEF ApproveReceipt, Move, NextRevision
  <2>2. ASSUME NEW v \in Workers, v # w PROVE WorkerInv(v)'
    <3>1. pc'[v] = pc[v] /\ req'[v] = req[v]
      BY <1>11, <2>2 DEF ApproveReceipt, TypeOK
    <3>. QED
      BY <2>1, <3>1, ReceiptStepDisturbsNobody
  <2>3. WorkerInv(w)'
    <3>1. /\ pc'[w] = "lock"
          /\ req'[w] = [kind |-> "post", doc |-> r, by |-> Nobody,
                        revision |-> revision[r] + 1, line |-> delivery[r]]
      BY <1>11 DEF ApproveReceipt, TypeOK
    <3>2. revision'[r] = revision[r] + 1 /\ revision[r] \in Nat
      BY <2>1 DEF TypeOK
    <3>. QED
      BY <2>1, <3>1, <3>2 DEF WorkerInv, Asks, Doc, Kind
  <2>. QED
    BY <2>2, <2>3 DEF RequestInv
<1>12. ASSUME NEW w \in Workers, Ask(w) PROVE RequestInv'
  <2>1. PICK r \in Receipts, kind \in Kinds, p \in People \cup {Nobody},
             line \in Deliveries \cup {NoDelivery} :
          /\ Begin(w, kind, r, p, line)
          /\ kind \in {"submit", "clean", "post"} => line = delivery[r]
    BY <1>12 DEF Ask, Kinds, TypeOK
  <2>2. ASSUME NEW v \in Workers, v # w PROVE WorkerInv(v)'
    <3>1. WorkerInv(v)
      BY DEF RequestInv
    <3>2. Undisturbed(v)
      BY <2>1, <2>2, <3>1 DEF Begin, Undisturbed, WorkerInv, HoldsReceipt, TypeOK
    <3>. QED
      BY <3>1, <3>2, UndisturbedGoesOn
  <2>3. WorkerInv(w)'
    <3>1. /\ pc'[w] = "lock"
          /\ req'[w] = [kind |-> kind, doc |-> r, by |-> p, revision |-> revision[r], line |-> line]
          /\ UNCHANGED <<revision, delivery>>
      BY <2>1 DEF Begin, TypeOK
    <3>. QED
      BY <2>1, <3>1 DEF WorkerInv, Asks, Doc, Kind, TypeOK
  <2>. QED
    BY <2>2, <2>3 DEF RequestInv
<1>13. ASSUME NEW w \in Workers, Refuse(w) PROVE RequestInv'
  BY <1>13, EndingDisturbsNobody DEF Refuse
<1>14. ASSUME NEW w \in Workers, LockDocument(w) PROVE RequestInv'
  <2>. DEFINE r == Doc(w)
  <2>1. r \in Receipts /\ Asks(w) /\ pc[w] = "lock" /\ Unlocked(r)
    BY <1>14 DEF LockDocument, RequestInv, WorkerInv, Asks
  <2>2. ASSUME Idle(w), NEW to, Take(w, to), UNCHANGED <<ordered, received, lock>>,
               \A q \in Receipts \ {r} : delivery'[q] = delivery[q]
        PROVE  RequestInv'
    <3>1. WorkerInv(w)'
      BY <2>2 DEF Idle, WorkerInv, TypeOK
    <3>2. ASSUME NEW v \in Workers, v # w PROVE WorkerInv(v)'
      <4>1. pc'[v] = pc[v] /\ req'[v] = req[v]
        BY <2>2, <3>2 DEF Idle, TypeOK
      <4>. QED
        BY <2>1, <2>2, <4>1, ReceiptStepDisturbsNobody DEF Take, NextRevision
    <3>. QED
      BY <3>1, <3>2 DEF RequestInv
  <2>3. CASE RaiseReceipt(w) /\ UNCHANGED <<masterData, events>>
    BY <2>1, <2>2, <2>3 DEF RaiseReceipt, TypeOK
  <2>4. CASE UpdateReceipt(w) /\ UNCHANGED <<masterData, events>>
    BY <2>1, <2>2, <2>4 DEF UpdateReceipt, TypeOK
  <2>5. CASE SubmitReceipt(w) /\ UNCHANGED <<masterData, events>>
    <3>1. CASE Inspect(r) # {}
      BY <2>2, <2>5, <3>1 DEF SubmitReceipt
    <3>2. CASE Inspect(r) = {}
      <4>1. /\ Kind(w) = "submit" /\ req' = [req EXCEPT ![w].kind = "clean"]
            /\ UNCHANGED <<status, revision, pc, ordered, received, delivery, lock>>
        BY <2>5, <3>2 DEF SubmitReceipt
      <4>2. WorkerInv(w)'
        BY <2>1, <4>1 DEF WorkerInv, Asks, Doc, Kind, TypeOK, Requests
      <4>3. ASSUME NEW v \in Workers, v # w PROVE WorkerInv(v)'
        <5>1. WorkerInv(v)
          BY DEF RequestInv
        <5>2. Undisturbed(v)
          BY <4>1, <4>3, <5>1 DEF Undisturbed, WorkerInv, HoldsReceipt, TypeOK
        <5>. QED
          BY <5>1, <5>2, UndisturbedGoesOn
      <4>. QED
        BY <4>2, <4>3 DEF RequestInv
    <3>. QED
      BY <3>1, <3>2
  <2>6. CASE /\ ~RefusedAtOnce(w) /\ Posts(w)
             /\ lock' = [lock EXCEPT ![r] = w]
             /\ pc' = [pc EXCEPT ![w] = "order"]
             /\ UNCHANGED <<documents, orderLines, receiving, masterData, req, events>>
    <3>1. WorkerInv(w)'
      <4>1. status[r] = From(Kind(w)) /\ revision[r] = req[w].revision
        BY <2>6 DEF RefusedAtOnce, MayStart
      <4>2. pc'[w] = "order" /\ lock'[r] = w
        BY <2>1, <2>6, Documents DEF TypeOK
      <4>. QED
        BY <2>1, <2>6, <4>1, <4>2 DEF WorkerInv, Asks, HoldsReceipt, Doc, Kind, Posts, From
    <3>2. ASSUME NEW v \in Workers, v # w PROVE WorkerInv(v)'
      <4>1. WorkerInv(v)
        BY DEF RequestInv
      <4>2. lock[r] = NoWorker /\ v # NoWorker /\ r # Order
        BY <2>1, Documents, PurchasingAssumption DEF Unlocked
      <4>3. /\ pc[v] \in {"order", "decide", "write"} => lock'[Doc(v)] = v
            /\ pc[v] \in {"decide", "write"} => lock'[Order] = v
        BY <2>6, <4>1, <4>2, Documents DEF WorkerInv, HoldsReceipt, Asks, TypeOK
      <4>4. Undisturbed(v)
        BY <2>6, <3>2, <4>3 DEF Undisturbed, TypeOK
      <4>. QED
        BY <4>1, <4>4, UndisturbedGoesOn
    <3>. QED
      BY <3>1, <3>2 DEF RequestInv
  <2>. QED
    BY <1>13, <1>14, <2>3, <2>4, <2>5, <2>6 DEF LockDocument, OneTransaction
<1>15. ASSUME NEW w \in Workers, LockOrder(w) PROVE RequestInv'
  <2>1. WorkerInv(w) /\ pc[w] = "order" /\ lock[Order] = NoWorker
    BY <1>15 DEF LockOrder, Unlocked, RequestInv
  <2>2. Asks(w) /\ HoldsReceipt(w) /\ Doc(w) # Order
    BY <2>1, Documents DEF WorkerInv, Asks
  <2>3. /\ pc'[w] = "decide" /\ lock'[Order] = w /\ lock'[Doc(w)] = lock[Doc(w)]
        /\ UNCHANGED <<documents, orderLines, receiving, masterData, req, events>>
    BY <1>15, <2>2, Documents DEF LockOrder, TypeOK
  <2>4. WorkerInv(w)'
    BY <2>2, <2>3 DEF WorkerInv, Asks, HoldsReceipt, Doc, Kind, Posts, From
  <2>5. ASSUME NEW v \in Workers, v # w PROVE WorkerInv(v)'
    <3>1. WorkerInv(v)
      BY DEF RequestInv
    <3>2. pc[v] \notin {"decide", "write"}
      BY <2>1, <3>1, PurchasingAssumption DEF WorkerInv
    <3>3. pc[v] = "order" => lock'[Doc(v)] = v
      BY <1>15, <3>1, Documents DEF LockOrder, WorkerInv, HoldsReceipt, Asks, TypeOK
    <3>4. Undisturbed(v)
      BY <1>15, <2>5, <3>2, <3>3 DEF LockOrder, Undisturbed, TypeOK
    <3>. QED
      BY <3>1, <3>4, UndisturbedGoesOn
  <2>. QED
    BY <2>4, <2>5 DEF RequestInv
<1>16. ASSUME NEW w \in Workers, Decide(w) PROVE RequestInv'
  <2>1. CASE Refuse(w)
    BY <1>13, <2>1
  <2>2. CASE /\ ~Refused(w)
             /\ pc' = [pc EXCEPT ![w] = "write"]
             /\ UNCHANGED <<documents, orderLines, receiving, masterData, lock, req, events>>
    <3>. DEFINE r == Doc(w)
    <3>1. Asks(w) /\ HoldsReceipt(w) /\ lock[Order] = w /\ r \in Receipts
      BY <1>16 DEF Decide, RequestInv, WorkerInv, Asks
    <3>2. /\ Kind(w) = "clean" => Inspect(r) = {}
          /\ \E findings : ~ReceiptRefusal(r, findings)
      BY <2>2 DEF Refused
    <3>3. Receivable /\ \A l \in Delivered(r) : WithinLimit(r, l)
      BY <3>2 DEF ReceiptRefusal
    <3>4. DecisionHolds(w)
      BY <3>1, <3>2, <3>3, AcceptsWithinLoosest, FoundNothing DEF DecisionHolds
    <3>5. ASSUME NEW v \in Workers PROVE WorkerInv(v)'
      <4>1. WorkerInv(v)
        BY DEF RequestInv
      <4>2. CASE v # w
        <5>1. Undisturbed(v)
          BY <2>2, <4>1, <4>2 DEF Undisturbed, WorkerInv, HoldsReceipt, TypeOK
        <5>. QED
          BY <4>1, <5>1, UndisturbedGoesOn
      <4>3. CASE v = w
        <5>1. /\ Asks(w)' /\ HoldsReceipt(w)' /\ lock'[Order] = w
          BY <2>2, <3>1 DEF Asks, HoldsReceipt, Doc, Kind, Posts, From
        <5>2. DecisionHolds(w)'
          <6>1. Doc(w)' = r /\ Kind(w)' = Kind(w) /\ Delivered(r)' = Delivered(r)
            BY <2>2 DEF Doc, Kind, Delivered
          <6>2. \A l \in OrderLines : /\ Outstanding(l)' = Outstanding(l)
                                      /\ Loosest(l)' = Loosest(l)
                                      /\ Accepted(r, l)' = Accepted(r, l)
            BY <2>2, <6>1 DEF Outstanding, Loosest, Accepted
          <6>3. Delivered(r) \subseteq OrderLines
            BY DEF Delivered
          <6>. QED
            BY <2>2, <3>4, <6>1, <6>2, <6>3
            DEF DecisionHolds, Receivable, WithinLoosest, WithinTolerance
        <5>. QED
          BY <4>3, <5>1, <5>2 DEF WorkerInv
      <4>. QED
        BY <4>2, <4>3
    <3>. QED
      BY <3>5 DEF RequestInv
  <2>. QED
    BY <1>16, <2>1, <2>2 DEF Decide
<1>17. ASSUME NEW w \in Workers, PostReceipt(w) PROVE RequestInv'
  <2>. DEFINE r == Doc(w)
  <2>1. r \in Receipts /\ lock[r] = w /\ lock[Order] = w
    BY <1>17 DEF PostReceipt, RequestInv, WorkerInv, Asks, HoldsReceipt
  <2>2. /\ Idle(w) /\ Release(w) /\ UNCHANGED <<ordered, delivery>>
        /\ NextRevision(r)
        /\ \E to : status' = [status EXCEPT ![r] = "posted", ![Order] = to]
    BY <1>17 DEF PostReceipt
  <2>3. WorkerInv(w)'
    BY <2>2 DEF Idle, WorkerInv, TypeOK
  <2>4. ASSUME NEW v \in Workers, v # w PROVE WorkerInv(v)'
    <3>1. WorkerInv(v)
      BY DEF RequestInv
    <3>2. pc[v] \notin {"decide", "write"}
      BY <2>1, <2>4, <3>1 DEF WorkerInv
    <3>3. pc[v] = "order" => HoldsReceipt(v) /\ Doc(v) \in Receipts /\ Doc(v) # r
      BY <2>1, <2>4, <3>1 DEF WorkerInv, HoldsReceipt, Asks
    <3>4. pc[v] # "idle" => Doc(v) \in Receipts
      BY <3>1 DEF WorkerInv, Asks
    <3>5. pc[v] = "order" => lock'[Doc(v)] = v /\ status'[Doc(v)] = status[Doc(v)]
      BY <2>2, <2>4, <3>3, Documents DEF HoldsReceipt, Release, TypeOK
    <3>6. pc'[v] = pc[v] /\ req'[v] = req[v]
      BY <2>2, <2>4 DEF Idle, TypeOK
    <3>7. pc[v] # "idle" => /\ delivery'[Doc(v)] = delivery[Doc(v)]
                            /\ \/ revision'[Doc(v)] = revision[Doc(v)]
                               \/ revision'[Doc(v)] = revision[Doc(v)] + 1
      BY <2>1, <2>2, <3>4 DEF NextRevision, TypeOK
    <3>8. pc[v] = "order" => revision'[Doc(v)] = revision[Doc(v)]
      BY <2>1, <2>2, <3>3 DEF NextRevision, TypeOK
    <3>9. Undisturbed(v)
      BY <3>2, <3>5, <3>6, <3>7, <3>8 DEF Undisturbed
    <3>. QED
      BY <3>1, <3>9, UndisturbedGoesOn
  <2>. QED
    BY <2>3, <2>4 DEF RequestInv
<1>18. ASSUME NEW w \in Workers, Crash(w) PROVE RequestInv'
  BY <1>18, EndingDisturbsNobody DEF Crash
<1>. QED
  BY <1>1, <1>2, <1>3, <1>4, <1>5, <1>6, <1>7, <1>8, <1>9, <1>10, <1>11, <1>12, <1>14, <1>15,
     <1>16, <1>17, <1>18 DEF Next, Step

------------------------------------------------------------------------------
(* What has been posted *)

\* What every step but a posting leaves of the receipts.
ReceiptsKept ==
  /\ UNCHANGED <<received, returned, lots>>
  /\ \A r \in Receipts :
       /\ status'[r] = "posted" <=> status[r] = "posted"
       /\ status[r] = "posted" => /\ delivery'[r] = delivery[r] /\ found'[r] = found[r]
                                  /\ creator'[r] = creator[r] /\ approver'[r] = approver[r]
       /\ status'[r] = "approved" =>
            \/ /\ status[r] = "approved"
               /\ creator'[r] = creator[r] /\ approver'[r] = approver[r]
            \/ Approved(r)'

LEMMA OnlyPostingPosts ==
  TypeOK /\ RequestInv /\ [Next]_vars => ReceiptsKept \/ \E w \in Workers : PostReceipt(w)
<1>. SUFFICES ASSUME TypeOK, RequestInv, [Next]_vars
     PROVE  ReceiptsKept \/ \E w \in Workers : PostReceipt(w)
  OBVIOUS
<1>. USE DEF documents, orderLines, receiving, masterData, locals, Elsewhere
<1>0. ASSUME UNCHANGED <<documents, received, returned, receiving>> PROVE ReceiptsKept
  BY <1>0 DEF ReceiptsKept
<1>1. CASE UNCHANGED vars
  BY <1>0, <1>1 DEF vars
<1>2. CASE ChangeMasterData
  BY <1>0, <1>2 DEF ChangeMasterData, ChangeTolerance, ChangeThreshold, ChangeUse
<1>3. ASSUME NEW to, Move(Order, {"none", "draft", "submitted", "approved", "sent"}, to) \/ SubmitOrder,
             \A r \in Receipts : creator'[r] = creator[r] /\ approver'[r] = approver[r],
             UNCHANGED <<received, returned, receiving>>
      PROVE  ReceiptsKept
  <2>1. \A r \in Receipts : status'[r] = status[r]
    <3>1. \E s : status' = [status EXCEPT ![Order] = s]
      BY <1>3 DEF Move, SubmitOrder
    <3>. QED
      BY <3>1, Documents DEF TypeOK
  <2>. QED
    BY <1>3, <2>1 DEF ReceiptsKept
<1>4. ASSUME NEW lines \in Orderings, UpdateOrder(lines) PROVE ReceiptsKept
  BY <1>3, <1>4 DEF UpdateOrder, Move
<1>5. ASSUME NEW lines \in Orderings, NEW p \in People, CreateOrder(p, lines) PROVE ReceiptsKept
  <2>1. \A r \in Receipts : creator'[r] = creator[r]
    BY <1>5, Documents DEF CreateOrder, TypeOK
  <2>. QED
    BY <1>3, <1>5, <2>1 DEF CreateOrder, Move
<1>6. ASSUME NEW p \in People, ApproveOrder(p) PROVE ReceiptsKept
  <2>1. \A r \in Receipts : approver'[r] = approver[r]
    BY <1>6, Documents DEF ApproveOrder, TypeOK
  <2>. QED
    BY <1>3, <1>6, <2>1 DEF ApproveOrder, Move
<1>7. CASE SubmitOrder
  BY <1>3, <1>7 DEF SubmitOrder
<1>8. CASE RejectOrder
  BY <1>3, <1>8 DEF RejectOrder, Move
<1>9. CASE SendOrder
  BY <1>3, <1>9 DEF SendOrder, Move
<1>10. CASE CancelOrder
  BY <1>3, <1>10 DEF CancelOrder, Move
<1>11. ASSUME NEW r \in Receipts, RejectReceipt(r) PROVE ReceiptsKept
  BY <1>11, Documents DEF RejectReceipt, Move, ReceiptsKept, TypeOK
<1>12. ASSUME NEW w \in Workers, NEW r \in Receipts, NEW p \in People, ApproveReceipt(w, r, p)
       PROVE ReceiptsKept
  <2>1. p # Nobody /\ p # creator[r]
    BY <1>12, PurchasingAssumption DEF ApproveReceipt, OwnDocument
  <2>2. Approved(r)'
    BY <1>12, <2>1, Documents DEF ApproveReceipt, Approved, TypeOK
  <2>. QED
    BY <1>12, <2>2, Documents DEF ApproveReceipt, Move, ReceiptsKept, TypeOK
<1>13. ASSUME NEW w \in Workers, Ask(w) PROVE ReceiptsKept
  <2>1. UNCHANGED <<documents, received, returned, receiving>>
    BY <1>13 DEF Ask, Begin
  <2>. QED
    BY <1>0, <2>1
<1>14. ASSUME NEW w \in Workers, Refuse(w) PROVE ReceiptsKept
  BY <1>0, <1>14 DEF Refuse
<1>15. ASSUME NEW w \in Workers, LockDocument(w) PROVE ReceiptsKept
  <2>. DEFINE d == Doc(w)
  <2>1. d \in Receipts
    BY <1>15 DEF LockDocument, RequestInv, WorkerInv, Asks
  <2>2. CASE ~RefusedAtOnce(w) /\ RaiseReceipt(w)
    <3>1. status[d] = "none"
      BY <2>2 DEF RefusedAtOnce, MayStart, RaiseReceipt, From
    <3>. QED
      BY <2>1, <2>2, <3>1, Documents DEF RaiseReceipt, Take, ReceiptsKept, TypeOK
  <2>3. CASE ~RefusedAtOnce(w) /\ UpdateReceipt(w)
    <3>1. status[d] = "draft"
      BY <2>3 DEF RefusedAtOnce, MayStart, UpdateReceipt, From
    <3>. QED
      BY <2>1, <2>3, <3>1, Documents DEF UpdateReceipt, Take, ReceiptsKept, TypeOK
  <2>4. CASE ~RefusedAtOnce(w) /\ SubmitReceipt(w)
    <3>1. status[d] = "draft"
      BY <2>4 DEF RefusedAtOnce, MayStart, SubmitReceipt, From
    <3>2. CASE Inspect(d) # {}
      <4>1. /\ found' = [found EXCEPT ![d] = Inspect(d)] /\ Take(w, "submitted")
            /\ UNCHANGED <<creator, approver, received, returned, delivery, lots>>
        BY <2>4, <3>2 DEF SubmitReceipt
      <4>. QED
        BY <2>1, <3>1, <4>1, Documents DEF Take, ReceiptsKept, TypeOK
    <3>3. CASE Inspect(d) = {}
      BY <1>0, <2>4, <3>3 DEF SubmitReceipt
    <3>. QED
      BY <3>2, <3>3
  <2>5. CASE UNCHANGED <<documents, orderLines, receiving, masterData, req, events>>
    BY <1>0, <2>5
  <2>. QED
    BY <1>14, <1>15, <2>2, <2>3, <2>4, <2>5 DEF LockDocument, OneTransaction
<1>16. ASSUME NEW w \in Workers, LockOrder(w) PROVE ReceiptsKept
  BY <1>0, <1>16 DEF LockOrder
<1>17. ASSUME NEW w \in Workers, Decide(w) PROVE ReceiptsKept
  BY <1>0, <1>14, <1>17 DEF Decide
<1>18. ASSUME NEW w \in Workers, Crash(w) PROVE ReceiptsKept
  BY <1>0, <1>18 DEF Crash
<1>. QED
  BY <1>1, <1>2, <1>4, <1>5, <1>6, <1>7, <1>8, <1>9, <1>10, <1>11, <1>12, <1>13, <1>15, <1>16,
     <1>17, <1>18 DEF Next, Step

\* What a posting does to its receipt and to the order.
LEMMA Posting ==
  ASSUME TypeOK, RequestInv, NEW w \in Workers, PostReceipt(w)
  PROVE  LET r == Doc(w) IN
         /\ r \in Receipts /\ Posts(w) /\ DecisionHolds(w)
         /\ status[r] = From(Kind(w)) /\ status[r] \in {"draft", "approved"}
         /\ status' = [status EXCEPT ![r] = "posted",
                                     ![Order] = OrderStatusAfterReceipt(RecordReceipt(r))]
         /\ lots' = [lots EXCEPT ![r] = [l \in OrderLines |-> Accepted(r, l)]]
         /\ \A l \in OrderLines :
              /\ received'[l] = received[l] + Accepted(r, l)
              /\ returned'[l] = returned[l] + delivery[r][l].rejected
         /\ UNCHANGED <<creator, approver, ordered, judgedBy, delivery>>
<1>1. pc[w] = "write" /\ WorkerInv(w)
  BY DEF PostReceipt, RequestInv
<1>2. Asks(w) /\ HoldsReceipt(w) /\ DecisionHolds(w)
  BY <1>1 DEF WorkerInv
<1>3. From(Kind(w)) \in {"draft", "approved"}
  BY <1>2 DEF HoldsReceipt, Posts, From
<1>. QED
  BY <1>2, <1>3 DEF PostReceipt, Asks, HoldsReceipt, RecordReceipt

LEMMA ReceiptStep ==
  TypeOK /\ RequestInv /\ ReceiptInv /\ [Next]_vars => ReceiptInv'
<1>. SUFFICES ASSUME TypeOK, RequestInv, ReceiptInv, [Next]_vars, NEW r \in Receipts
     PROVE /\ (status[r] = "approved" => Approved(r))'
           /\ (status[r] = "posted" /\ found[r] # {} => Approved(r))'
           /\ (status[r] # "posted" => lots[r] = NoLots)'
  BY DEF ReceiptInv
<1>1. CASE ReceiptsKept
  BY <1>1 DEF ReceiptsKept, ReceiptInv, Approved, NoLots
<1>2. ASSUME NEW w \in Workers, PostReceipt(w) PROVE ReceiptInv'
  <2>. SUFFICES ASSUME NEW q \in Receipts
       PROVE /\ (status[q] = "approved" => Approved(q))'
             /\ (status[q] = "posted" /\ found[q] # {} => Approved(q))'
             /\ (status[q] # "posted" => lots[q] = NoLots)'
    BY DEF ReceiptInv
  <2>1. /\ Doc(w) \in Receipts /\ Posts(w) /\ status[Doc(w)] = From(Kind(w))
        /\ UNCHANGED <<creator, approver>>
    BY <1>2, Posting
  <2>2. found' = [found EXCEPT ![Doc(w)] = IF Kind(w) = "clean" THEN {} ELSE found[Doc(w)]]
    BY <1>2 DEF PostReceipt
  <2>3. CASE q # Doc(w)
    <3>1. status'[q] = status[q] /\ lots'[q] = lots[q] /\ found'[q] = found[q]
      BY <1>2, <2>1, <2>2, <2>3, Posting, Documents DEF TypeOK
    <3>. QED
      BY <2>1, <3>1 DEF ReceiptInv, Approved, NoLots
  <2>4. CASE q = Doc(w)
    <3>1. status'[q] = "posted"
      BY <1>2, <2>1, <2>4, Posting, Documents DEF TypeOK
    <3>2. Kind(w) = "post" => Approved(q)
      BY <2>1, <2>4 DEF ReceiptInv, From
    <3>3. Kind(w) = "clean" => found'[q] = {}
      BY <2>1, <2>2, <2>4 DEF TypeOK
    <3>. QED
      BY <2>1, <3>1, <3>2, <3>3 DEF Posts, Approved
  <2>. QED
    BY <2>3, <2>4
<1>. QED
  BY <1>1, <1>2, OnlyPostingPosts DEF ReceiptInv

\* What every step but an order's own, or a posting, leaves of the order.
OrderKept ==
  /\ status'[Order] = status[Order]
  /\ creator'[Order] = creator[Order] /\ approver'[Order] = approver[Order]
  /\ UNCHANGED <<ordered, judgedBy>>

\* The order's own steps.
OrderSteps ==
  \/ \E lines \in Orderings : UpdateOrder(lines) \/ \E p \in People : CreateOrder(p, lines)
  \/ \E p \in People : ApproveOrder(p)
  \/ SubmitOrder \/ RejectOrder \/ SendOrder \/ CancelOrder

LEMMA OthersKeepTheOrder ==
  TypeOK /\ RequestInv /\ [Next]_vars =>
    OrderKept \/ OrderSteps \/ \E w \in Workers : PostReceipt(w)
<1>. SUFFICES ASSUME TypeOK, RequestInv, [Next]_vars
     PROVE  OrderKept \/ OrderSteps \/ \E w \in Workers : PostReceipt(w)
  OBVIOUS
<1>. USE DEF documents, orderLines, receiving, masterData, locals
<1>1. CASE UNCHANGED vars
  BY <1>1 DEF vars, OrderKept
<1>2. CASE ChangeMasterData
  BY <1>2 DEF ChangeMasterData, ChangeTolerance, ChangeThreshold, ChangeUse, OrderKept
<1>3. ASSUME NEW r \in Receipts, RejectReceipt(r) PROVE OrderKept
  BY <1>3, Documents DEF RejectReceipt, Move, OrderKept, TypeOK
<1>4. ASSUME NEW w \in Workers, NEW r \in Receipts, NEW p \in People, ApproveReceipt(w, r, p)
      PROVE  OrderKept
  BY <1>4, Documents DEF ApproveReceipt, Move, OrderKept, TypeOK
<1>5. ASSUME NEW w \in Workers, Ask(w) PROVE OrderKept
  <2>1. UNCHANGED <<documents, orderLines>>
    BY <1>5 DEF Ask, Begin
  <2>. QED
    BY <2>1 DEF OrderKept
<1>6. ASSUME NEW w \in Workers, Refuse(w) PROVE OrderKept
  BY <1>6 DEF Refuse, OrderKept
<1>7. ASSUME NEW w \in Workers, LockDocument(w) PROVE OrderKept
  <2>1. Doc(w) \in Receipts
    BY <1>7 DEF LockDocument, RequestInv, WorkerInv, Asks
  <2>2. CASE RaiseReceipt(w)
    BY <2>1, <2>2, Documents DEF RaiseReceipt, Take, OrderKept, TypeOK
  <2>3. CASE UpdateReceipt(w)
    BY <2>1, <2>3, Documents DEF UpdateReceipt, Take, OrderKept, TypeOK
  <2>4. CASE SubmitReceipt(w)
    <3>1. UNCHANGED <<creator, approver, orderLines>> /\ (Take(w, "submitted") \/ UNCHANGED status)
      BY <2>4 DEF SubmitReceipt
    <3>. QED
      BY <2>1, <3>1, Documents DEF Take, OrderKept, TypeOK
  <2>5. CASE UNCHANGED <<documents, orderLines, receiving, masterData, req, events>>
    BY <2>5 DEF OrderKept
  <2>. QED
    BY <1>6, <1>7, <2>2, <2>3, <2>4, <2>5 DEF LockDocument, OneTransaction
<1>8. ASSUME NEW w \in Workers, LockOrder(w) PROVE OrderKept
  BY <1>8 DEF LockOrder, OrderKept
<1>9. ASSUME NEW w \in Workers, Decide(w) PROVE OrderKept
  BY <1>6, <1>9 DEF Decide, OrderKept
<1>10. ASSUME NEW w \in Workers, Crash(w) PROVE OrderKept
  BY <1>10 DEF Crash, OrderKept
<1>. QED
  BY <1>1, <1>2, <1>3, <1>4, <1>5, <1>7, <1>8, <1>9, <1>10 DEF Next, Step, OrderSteps

LEMMA OrderStepTakesNoGoods ==
  ASSUME TypeOK, OrderSteps
  PROVE  UNCHANGED <<received, returned, lots>>
BY DEF OrderSteps, UpdateOrder, CreateOrder, ApproveOrder, SubmitOrder, RejectOrder, SendOrder,
       CancelOrder, Elsewhere, orderLines, receiving

LEMMA GrossType == TypeOK => Gross \in Int
<1>. SUFFICES ASSUME TypeOK PROVE Gross \in Int
  OBVIOUS
<1>1. DOMAIN ordered = OrderLines /\ \A l \in OrderLines : ordered[l] \in Int
  BY PurchasingAssumption DEF TypeOK
<1>. QED
  BY <1>1, SumInt, PurchasingAssumption DEF Gross, SumFunction

LEMMA OrderStep ==
  TypeOK /\ RequestInv /\ OrderInv /\ [Next]_vars => OrderInv'
<1>. SUFFICES ASSUME TypeOK, RequestInv, OrderInv, [Next]_vars PROVE OrderInv'
  OBVIOUS
<1>1. ASSUME ReceiptsKept
      PROVE  (NothingPosted' <=> NothingPosted) /\ UNCHANGED received
  BY <1>1 DEF ReceiptsKept, NothingPosted
<1>2. CASE ReceiptsKept /\ OrderKept
  BY <1>1, <1>2 DEF OrderKept, OrderInv, Gross, Approved
<1>3. CASE ReceiptsKept /\ OrderSteps
  <2>. USE <1>1, <1>3, Documents DEF OrderInv, Move, orderLines, TypeOK
  <2>1. ASSUME NEW lines \in Orderings, UpdateOrder(lines) PROVE OrderInv'
    <3>1. status[Order] = "draft" /\ status'[Order] = "draft"
      BY <2>1 DEF UpdateOrder
    <3>. QED
      BY <3>1 DEF ReceivableStatuses
  <2>2. ASSUME NEW lines \in Orderings, NEW p \in People, CreateOrder(p, lines) PROVE OrderInv'
    <3>1. status[Order] = "none" /\ status'[Order] = "draft"
      BY <2>2 DEF CreateOrder
    <3>. QED
      BY <3>1 DEF ReceivableStatuses
  <2>3. ASSUME NEW p \in People, ApproveOrder(p) PROVE OrderInv'
    <3>1. Approved(Order)' /\ status'[Order] = "approved"
      BY <2>3, PurchasingAssumption DEF ApproveOrder, OwnDocument, Approved
    <3>2. status[Order] = "submitted" /\ UNCHANGED <<judgedBy, ordered>>
      BY <2>3 DEF ApproveOrder
    <3>. QED
      BY <3>1, <3>2
  <2>4. CASE SubmitOrder
    <3>1. status[Order] = "draft" /\ NothingPosted /\ UNCHANGED ordered /\ judgedBy' = threshold
      BY <2>4 DEF SubmitOrder
    <3>2. CASE OrderNeedsApproval
      BY <2>4, <3>1, <3>2 DEF SubmitOrder, ReceivableStatuses
    <3>3. CASE ~OrderNeedsApproval
      <4>1. Gross <= threshold
        BY <3>3, GrossType, PurchasingAssumption DEF OrderNeedsApproval
      <4>2. Gross' <= judgedBy' /\ status'[Order] = "approved"
        BY <2>4, <3>1, <3>3, <4>1 DEF SubmitOrder, Gross
      <4>. QED
        BY <3>1, <4>2
    <3>. QED
      BY <3>2, <3>3
  <2>5. CASE RejectOrder
    BY <2>5 DEF RejectOrder, ReceivableStatuses
  <2>6. CASE SendOrder
    <3>1. Gross' = Gross /\ Approved(Order)' = Approved(Order) /\ UNCHANGED judgedBy
      BY <2>6 DEF SendOrder, Gross, Approved
    <3>. QED
      BY <2>6, <3>1 DEF SendOrder, ReceivableStatuses
  <2>7. CASE CancelOrder
    <3>1. Gross' = Gross /\ Approved(Order)' = Approved(Order) /\ UNCHANGED judgedBy
      BY <2>7 DEF CancelOrder, Gross, Approved
    <3>. QED
      BY <2>7, <3>1 DEF CancelOrder, ReceivableStatuses
  <2>. QED
    BY <2>1, <2>2, <2>3, <2>4, <2>5, <2>6, <2>7 DEF OrderSteps
<1>4. ASSUME NEW w \in Workers, PostReceipt(w) PROVE OrderInv'
  <2>. DEFINE r == Doc(w)
              to == OrderStatusAfterReceipt(RecordReceipt(r))
  <2>1. r \in Receipts /\ Receivable /\ UNCHANGED <<creator, approver, ordered, judgedBy>>
    BY <1>4, Posting DEF DecisionHolds
  <2>2. status'[Order] = to
    BY <1>4, <2>1, Posting, Documents DEF TypeOK
  <2>3. to \in {status[Order], "partially_received", "received"}
    BY DEF OrderStatusAfterReceipt
  <2>4. Gross' <= judgedBy' \/ Approved(Order)'
    BY <2>1 DEF OrderInv, Receivable, Gross, Approved
  <2>5. to \notin {"partially_received", "received"} => \A l \in OrderLines : received'[l] = 0
    BY <1>4 DEF OrderStatusAfterReceipt, PostReceipt
  <2>. QED
    BY <2>1, <2>2, <2>3, <2>4, <2>5 DEF OrderInv, Receivable, ReceivableStatuses
<1>5. CASE OrderSteps /\ ~ReceiptsKept
  BY <1>4, <1>5, OnlyPostingPosts
<1>. QED
  BY <1>2, <1>3, <1>4, OnlyPostingPosts, OthersKeepTheOrder

LEMMA LimitStep ==
  /\ TypeOK /\ RequestInv /\ OrderInv /\ NeverOverReceived /\ TypeOK' /\ [Next]_vars
  => NeverOverReceived'
<1>. SUFFICES ASSUME TypeOK, RequestInv, OrderInv, NeverOverReceived, TypeOK', [Next]_vars,
                     NEW l \in OrderLines
     PROVE  received'[l] * 100 <= ordered'[l] * (100 + Loosest(l))
  BY DEF NeverOverReceived, Loosest
<1>1. received[l] * 100 <= ordered[l] * (100 + Loosest(l))
  BY DEF NeverOverReceived
<1>2. CASE UNCHANGED <<received, ordered>>
  BY <1>1, <1>2
<1>3. CASE OrderSteps
  <2>1. UNCHANGED received
    BY <1>3, OrderStepTakesNoGoods
  <2>2. CASE UNCHANGED ordered
    BY <1>2, <2>1, <2>2
  <2>3. CASE ordered' # ordered
    <3>1. status[Order] \in {"none", "draft"}
      BY <1>3, <2>3 DEF OrderSteps, UpdateOrder, CreateOrder, ApproveOrder, SubmitOrder, RejectOrder,
                       SendOrder, CancelOrder, orderLines, Move
    <3>2. received'[l] = 0
      BY <2>1, <3>1 DEF OrderInv
    <3>3. ordered'[l] \in Nat /\ Loosest(l) \in Nat
      <4>1. ordered' \in Orderings
        BY DEF TypeOK
      <4>. QED
        BY <4>1, LimitTypes, PurchasingAssumption
    <3>4. ordered'[l] * (100 + Loosest(l)) \in Nat
      BY <3>3
    <3>. QED
      BY <3>2, <3>4
  <2>. QED
    BY <2>2, <2>3
<1>4. ASSUME NEW w \in Workers, PostReceipt(w)
      PROVE  received'[l] * 100 <= ordered'[l] * (100 + Loosest(l))
  BY <1>4, Posting DEF DecisionHolds, WithinLoosest
<1>5. CASE ReceiptsKept /\ OrderKept
  BY <1>2, <1>5 DEF ReceiptsKept, OrderKept
<1>. QED
  BY <1>3, <1>4, <1>5, OnlyPostingPosts, OthersKeepTheOrder

LEMMA BooksInit == Init => BooksAgree
<1>. SUFFICES ASSUME Init, NEW l \in OrderLines
     PROVE  LET posted == {r \in Receipts : status[r] = "posted"} IN
            /\ received[l] = SumFunction([r \in posted |-> lots[r][l]])
            /\ returned[l] = SumFunction([r \in posted |-> delivery[r][l].rejected])
  BY DEF BooksAgree
<1>1. {r \in Receipts : status[r] = "posted"} = {}
  BY Documents DEF Init
<1>2. received[l] = 0 /\ returned[l] = 0
  BY DEF Init, NoLots
<1>3. ASSUME NEW f, DOMAIN f = {} PROVE SumFunction(f) = 0
  BY <1>3, SumEmpty DEF SumFunction
<1>. QED
  BY <1>1, <1>2, <1>3

LEMMA BooksStep ==
  TypeOK /\ RequestInv /\ BooksAgree /\ [Next]_vars => BooksAgree'
<1>. SUFFICES ASSUME TypeOK, RequestInv, BooksAgree, [Next]_vars, NEW l \in OrderLines
     PROVE  (LET posted == {r \in Receipts : status[r] = "posted"} IN
             /\ received[l] = SumFunction([r \in posted |-> lots[r][l]])
             /\ returned[l] = SumFunction([r \in posted |-> delivery[r][l].rejected]))'
  BY DEF BooksAgree
<1>. DEFINE posted == {r \in Receipts : status[r] = "posted"}
            taken == [r \in posted |-> lots[r][l]]
            sentBack == [r \in posted |-> delivery[r][l].rejected]
<1>1. received[l] = SumFunction(taken) /\ returned[l] = SumFunction(sentBack)
  BY DEF BooksAgree
<1>2. CASE ReceiptsKept
  <2>1. posted' = posted
    BY <1>2 DEF ReceiptsKept
  <2>2. taken' = taken /\ sentBack' = sentBack
    BY <1>2, <2>1 DEF ReceiptsKept
  <2>3. received' = received /\ returned' = returned
    BY <1>2 DEF ReceiptsKept
  <2>. QED
    BY <1>1, <2>2, <2>3
<1>3. ASSUME NEW w \in Workers, PostReceipt(w)
      PROVE  received'[l] = SumFunction(taken') /\ returned'[l] = SumFunction(sentBack')
  <2>. DEFINE d == Doc(w)
  <2>1. /\ d \in Receipts /\ d \notin posted /\ UNCHANGED delivery
        /\ received'[l] = received[l] + Accepted(d, l)
        /\ returned'[l] = returned[l] + delivery[d][l].rejected
    BY <1>3, Posting
  <2>2. posted' = posted \cup {d}
    BY <1>3, <2>1, Posting, Documents DEF TypeOK
  <2>3. Accepted(d, l) \in Int /\ delivery[d][l].rejected \in Int
    BY <2>1, AcceptedTypes
  <2>4. IsFiniteSet(posted)
    BY FS_Subset, PurchasingAssumption
  <2>5. lots'[d][l] = Accepted(d, l) /\ \A r \in posted : lots'[r] = lots[r]
    BY <1>3, <2>1, Posting DEF TypeOK
  <2>6. /\ DOMAIN taken' = posted \cup {d} /\ taken'[d] = Accepted(d, l)
        /\ \A r \in posted : taken[r] \in Int /\ taken'[r] = taken[r]
    BY <2>2, <2>5 DEF TypeOK
  <2>7. /\ DOMAIN sentBack' = posted \cup {d} /\ sentBack'[d] = delivery[d][l].rejected
        /\ \A r \in posted : sentBack[r] \in Int /\ sentBack'[r] = sentBack[r]
    <3>1. \A r \in posted : delivery[r][l].rejected \in Int
      BY AcceptedTypes
    <3>. QED
      BY <2>1, <2>2, <3>1
  <2>8. DOMAIN taken = posted /\ DOMAIN sentBack = posted
    OBVIOUS
  <2>9. SumFunction(taken') = SumFunction(taken) + taken'[d]
    <3>1. taken'[d] \in Int /\ d \notin posted
      BY <2>1, <2>3, <2>6
    <3>. HIDE DEF taken, posted, d
    <3>. QED
      BY <3>1, <2>4, <2>6, <2>8, SumExtends
  <2>10. SumFunction(sentBack') = SumFunction(sentBack) + sentBack'[d]
    <3>. HIDE DEF sentBack, posted
    <3>. QED
      BY <2>1, <2>3, <2>4, <2>7, <2>8, SumExtends
  <2>. HIDE DEF taken, sentBack
  <2>. QED
    BY <1>1, <2>1, <2>6, <2>7, <2>9, <2>10
<1>. QED
  BY <1>2, <1>3, OnlyPostingPosts

------------------------------------------------------------------------------
(* Theorems *)

LEMMA InvInit == Init => Inv
<1>. SUFFICES ASSUME Init PROVE Inv
  OBVIOUS
<1>1. TypeOK /\ BooksAgree
  BY TypeInit, BooksInit
<1>2. RequestInv /\ ReceiptInv
  BY Documents DEF Init, RequestInv, WorkerInv, ReceiptInv
<1>3. OrderInv
  BY Documents DEF Init, OrderInv, NothingPosted, ReceivableStatuses, NoLots
<1>4. NeverOverReceived
  <2>. SUFFICES ASSUME NEW l \in OrderLines
       PROVE received[l] * 100 <= ordered[l] * (100 + Loosest(l))
    BY DEF NeverOverReceived
  <2>1. ordered[l] \in Nat /\ Loosest(l) \in Nat /\ received[l] = 0
    BY <1>1, AmountTypes, LimitTypes DEF Init, NoLots
  <2>2. ordered[l] * (100 + Loosest(l)) \in Nat
    BY <2>1
  <2>. QED
    BY <2>1, <2>2
<1>. QED
  BY <1>1, <1>2, <1>3, <1>4 DEF Inv

LEMMA InvStep == Inv /\ [Next]_vars => Inv'
<1>1. Inv /\ [Next]_vars => TypeOK'
  BY TypeStep DEF Inv
<1>. QED
  BY <1>1, RequestStep, OrderStep, ReceiptStep, LimitStep, BooksStep DEF Inv

LEMMA Invariant == Spec => []Inv
BY InvInit, InvStep, PTL DEF Spec

\* Whatever people, administrators and requests do, in any order, and whenever
\* requests die, every variable keeps its type.
THEOREM TypeCorrect == Spec => []TypeOK
<1>1. Inv => TypeOK
  BY DEF Inv
<1>. QED
  BY <1>1, Invariant, PTL

\* No number of receipts posting at once against a line accepts more than was
\* ordered and the loosest of its tolerances allow.
THEOREM NothingOverReceived == Spec => []NeverOverReceived
<1>1. Inv => NeverOverReceived
  BY DEF Inv
<1>. QED
  BY <1>1, Invariant, PTL

\* The order's lines, written by one service, and the lots, written by another,
\* tell the same story after every step.
THEOREM BooksAlwaysAgree == Spec => []BooksAgree
<1>1. Inv => BooksAgree
  BY DEF Inv
<1>. QED
  BY <1>1, Invariant, PTL

\* Nothing is posted against an order that needed approval and has none, or
\* only its creator's.
THEOREM BoughtWithApproval == Spec => []NothingBoughtUnapproved
<1>1. Inv => NothingBoughtUnapproved
  BY DEF Inv, OrderInv, NothingPosted, NothingBoughtUnapproved, Approved
<1>. QED
  BY <1>1, Invariant, PTL

\* No finding gets into stock without somebody else's approval.
THEOREM FindingsSeen == Spec => []FindingsApproved
<1>1. Inv => FindingsApproved
  BY DEF Inv, ReceiptInv, FindingsApproved, Approved
<1>. QED
  BY <1>1, Invariant, PTL

\* A receipt that posts without an approval is, as it posts, within the
\* tolerance of what is outstanding then.
THEOREM CleanReceiptsAreClean == Spec => CleanWhenPosted
<1>1. Inv /\ [Next]_vars =>
        [\A r \in Receipts :
           status[r] = "draft" /\ status'[r] = "posted" => WithinTolerance(r)]_vars
  <2>. SUFFICES ASSUME Inv, [Next]_vars, NEW r \in Receipts, status[r] = "draft", status'[r] = "posted"
       PROVE WithinTolerance(r)
    OBVIOUS
  <2>1. PICK w \in Workers : PostReceipt(w)
    BY OnlyPostingPosts DEF Inv, ReceiptsKept
  <2>2. Doc(w) = r
    BY <2>1, Posting, Documents DEF Inv, TypeOK
  <2>3. Kind(w) = "clean"
    BY <2>1, <2>2, Posting DEF Inv, Posts, From
  <2>. QED
    BY <2>1, <2>2, <2>3, Posting DEF Inv, DecisionHolds
<1>. QED
  BY <1>1, Invariant, PTL DEF Spec, CleanWhenPosted

\* A draft leaves for good by being submitted, or posted, as it was on
\* somebody's page.
LEMMA DraftLeavesAsSeen ==
  ASSUME Inv, [Next]_vars, NEW r \in Receipts, status[r] = "draft", status'[r] # "draft"
  PROVE  /\ delivery'[r] = delivery[r]
         /\ \E w \in Workers : Doc(w) = r /\ req[w].line = delivery[r]
<1>. USE DEF documents, orderLines, receiving, masterData, locals
<1>1. CASE UNCHANGED status
  BY <1>1
<1>2. CASE OrderSteps
  <2>1. \E to : status' = [status EXCEPT ![Order] = to]
    BY <1>2 DEF OrderSteps, UpdateOrder, CreateOrder, ApproveOrder, SubmitOrder, RejectOrder,
               SendOrder, CancelOrder, Move
  <2>. QED
    BY <2>1, Documents DEF Inv, TypeOK
<1>3. ASSUME NEW q \in Receipts, RejectReceipt(q) PROVE FALSE
  BY <1>3, Documents DEF RejectReceipt, Move, Inv, TypeOK
<1>4. ASSUME NEW w \in Workers, NEW q \in Receipts, NEW p \in People, ApproveReceipt(w, q, p)
      PROVE  FALSE
  BY <1>4, Documents DEF ApproveReceipt, Move, Inv, TypeOK
<1>5. ASSUME NEW w \in Workers, pc[w] # "idle", Kind(w) \in {"submit", "clean"}, Doc(w) = r,
             revision[r] = req[w].revision, UNCHANGED delivery
      PROVE  /\ delivery'[r] = delivery[r]
             /\ \E v \in Workers : Doc(v) = r /\ req[v].line = delivery[r]
  BY <1>5 DEF Inv, RequestInv, WorkerInv, Asks
<1>6. ASSUME NEW w \in Workers, LockDocument(w)
      PROVE  /\ delivery'[r] = delivery[r]
             /\ \E v \in Workers : Doc(v) = r /\ req[v].line = delivery[r]
  <2>1. pc[w] = "lock" /\ Doc(w) \in Receipts
    BY <1>6 DEF LockDocument, Inv, RequestInv, WorkerInv, Asks
  <2>2. CASE Refuse(w)
    BY <1>1, <2>2 DEF Refuse
  <2>3. CASE ~RefusedAtOnce(w) /\ RaiseReceipt(w)
    BY <2>1, <2>3, Documents
    DEF RefusedAtOnce, MayStart, RaiseReceipt, From, Take, Inv, TypeOK
  <2>4. CASE ~RefusedAtOnce(w) /\ UpdateReceipt(w)
    BY <2>1, <2>4, Documents
    DEF RefusedAtOnce, MayStart, UpdateReceipt, From, Take, Inv, TypeOK
  <2>5. CASE ~RefusedAtOnce(w) /\ SubmitReceipt(w)
    <3>1. Kind(w) = "submit" /\ UNCHANGED delivery /\ (Take(w, "submitted") \/ UNCHANGED status)
      BY <2>5 DEF SubmitReceipt
    <3>2. Doc(w) = r
      BY <2>1, <3>1, Documents DEF Take, Inv, TypeOK
    <3>3. revision[r] = req[w].revision
      BY <2>5, <3>2 DEF RefusedAtOnce, MayStart
    <3>. QED
      BY <1>5, <2>1, <3>1, <3>2, <3>3
  <2>6. CASE UNCHANGED <<documents, orderLines, receiving, masterData, req, events>>
    BY <1>1, <2>6
  <2>. QED
    BY <1>6, <2>2, <2>3, <2>4, <2>5, <2>6 DEF LockDocument, OneTransaction
<1>7. ASSUME NEW w \in Workers, PostReceipt(w)
      PROVE  /\ delivery'[r] = delivery[r]
             /\ \E v \in Workers : Doc(v) = r /\ req[v].line = delivery[r]
  <2>1. pc[w] = "write" /\ HoldsReceipt(w) /\ UNCHANGED delivery
    BY <1>7 DEF PostReceipt, Inv, RequestInv, WorkerInv
  <2>2. Doc(w) = r
    BY <1>7, Posting, Documents DEF Inv, TypeOK
  <2>3. Kind(w) = "clean"
    BY <2>1, <2>2 DEF HoldsReceipt, Posts, From
  <2>. QED
    BY <1>5, <2>1, <2>2, <2>3 DEF HoldsReceipt
<1>8. ASSUME NEW w \in Workers, Ask(w) \/ LockOrder(w) \/ Decide(w) \/ Crash(w)
      PROVE  UNCHANGED status
  BY <1>8 DEF Ask, Begin, LockOrder, Decide, Refuse, Crash
<1>9. CASE ChangeMasterData \/ UNCHANGED vars
  BY <1>1, <1>9 DEF ChangeMasterData, ChangeTolerance, ChangeThreshold, ChangeUse, vars
<1>. QED
  BY <1>1, <1>2, <1>3, <1>4, <1>6, <1>7, <1>8, <1>9 DEF Next, Step, OrderSteps

\* A receipt that is no draft is not written again but for its status, which
\* never goes back.
LEMMA SubmittedStays ==
  ASSUME Inv, [Next]_vars, NEW r \in Receipts, status[r] \notin {"none", "draft"}
  PROVE  delivery'[r] = delivery[r] /\ status'[r] # "draft"
<1>. USE DEF documents, orderLines, receiving, masterData, locals
<1>1. CASE UNCHANGED <<status, delivery>>
  BY <1>1
<1>2. CASE OrderSteps
  <2>1. UNCHANGED delivery /\ \E to : status' = [status EXCEPT ![Order] = to]
    BY <1>2 DEF OrderSteps, UpdateOrder, CreateOrder, ApproveOrder, SubmitOrder, RejectOrder,
               SendOrder, CancelOrder, Move, Elsewhere
  <2>. QED
    BY <2>1, Documents DEF Inv, TypeOK
<1>3. ASSUME NEW q \in Receipts, RejectReceipt(q) PROVE delivery'[r] = delivery[r] /\ status'[r] # "draft"
  BY <1>3, Documents DEF RejectReceipt, Move, Inv, TypeOK
<1>4. ASSUME NEW w \in Workers, NEW q \in Receipts, NEW p \in People, ApproveReceipt(w, q, p)
      PROVE  delivery'[r] = delivery[r] /\ status'[r] # "draft"
  BY <1>4, Documents DEF ApproveReceipt, Move, Inv, TypeOK
<1>5. ASSUME NEW w \in Workers, LockDocument(w)
      PROVE  delivery'[r] = delivery[r] /\ status'[r] # "draft"
  <2>1. pc[w] = "lock" /\ Doc(w) \in Receipts
    BY <1>5 DEF LockDocument, Inv, RequestInv, WorkerInv, Asks
  <2>2. CASE Refuse(w)
    BY <1>1, <2>2 DEF Refuse
  <2>3. CASE ~RefusedAtOnce(w) /\ (RaiseReceipt(w) \/ UpdateReceipt(w))
    <3>1. Doc(w) # r
      BY <2>3 DEF RefusedAtOnce, MayStart, RaiseReceipt, UpdateReceipt, From
    <3>. QED
      BY <2>1, <2>3, <3>1, Documents DEF RaiseReceipt, UpdateReceipt, Take, Inv, TypeOK
  <2>4. CASE SubmitReceipt(w)
    BY <2>1, <2>4, Documents DEF SubmitReceipt, Take, Inv, TypeOK
  <2>5. CASE UNCHANGED <<documents, orderLines, receiving, masterData, req, events>>
    BY <1>1, <2>5
  <2>. QED
    BY <1>5, <2>2, <2>3, <2>4, <2>5 DEF LockDocument, OneTransaction
<1>6. ASSUME NEW w \in Workers, PostReceipt(w)
      PROVE  delivery'[r] = delivery[r] /\ status'[r] # "draft"
  BY <1>6, Posting, Documents DEF PostReceipt, Inv, TypeOK
<1>7. ASSUME NEW w \in Workers, Ask(w) \/ LockOrder(w) \/ Decide(w) \/ Crash(w)
      PROVE  UNCHANGED <<status, delivery>>
  BY <1>7 DEF Ask, Begin, LockOrder, Decide, Refuse, Crash
<1>8. CASE ChangeMasterData \/ UNCHANGED vars
  BY <1>1, <1>8 DEF ChangeMasterData, ChangeTolerance, ChangeThreshold, ChangeUse, vars
<1>. QED
  BY <1>1, <1>2, <1>3, <1>4, <1>5, <1>6, <1>7, <1>8 DEF Next, Step, OrderSteps

\* What is submitted is what was on somebody's page, and what is approved and
\* posted is what was submitted.
THEOREM SubmitsWhatWasSeen == Spec => SubmittedAsSeen
<1>1. Inv /\ [Next]_vars =>
        [\A r \in Receipts :
           /\ status[r] = "draft" =>
                \/ status'[r] = "draft"
                \/ /\ delivery'[r] = delivery[r]
                   /\ \E w \in Workers : Doc(w) = r /\ req[w].line = delivery[r]
           /\ status[r] \notin {"none", "draft"} =>
                delivery'[r] = delivery[r] /\ status'[r] # "draft"]_vars
  BY DraftLeavesAsSeen, SubmittedStays
<1>. QED
  BY <1>1, Invariant, PTL DEF Spec, SubmittedAsSeen

------------------------------------------------------------------------------
(* An order lives as OrderReceiving promises *)

\* What stock has of a line is what the order has received of it.
LEMMA StockIsReceived ==
  ASSUME Inv, NEW l \in OrderLines
  PROVE  SumFunction([r \in Receipts |-> lots[r][l]]) = received[l]
<1>. DEFINE posted == {r \in Receipts : status[r] = "posted"}
            all == [r \in Receipts |-> lots[r][l]]
            taken == [r \in posted |-> lots[r][l]]
<1>1. /\ \A r \in Receipts : all[r] \in Int
      /\ \A r \in Receipts \ posted : all[r] = 0
      /\ \A r \in posted : all[r] = taken[r]
  BY DEF Inv, TypeOK, ReceiptInv, NoLots
<1>2. posted \in SUBSET Receipts /\ IsFiniteSet(Receipts) /\ IsFiniteSet(posted)
  BY FS_Subset, PurchasingAssumption
<1>3. DOMAIN all = Receipts /\ DOMAIN taken = posted
  OBVIOUS
<1>4. received[l] = SumFunction(taken)
  BY DEF Inv, BooksAgree
<1>. HIDE DEF posted, all, taken
<1>5. SumFunctionOnSet(all, Receipts) = SumFunctionOnSet(all, posted)
  BY <1>1, <1>2, SumLeaveOut
<1>6. SumFunctionOnSet(all, posted) = SumFunctionOnSet(taken, posted)
  BY <1>1, <1>2, SumSame
<1>7. SumFunction(all) = received[l]
  BY <1>3, <1>4, <1>5, <1>6 DEF SumFunction
<1>. QED
  BY <1>7 DEF all

LEMMA InitMaps == Init => Receiving!Init
<1>. SUFFICES ASSUME Init PROVE Receiving!Init
  OBVIOUS
<1>1. Inv
  BY InvInit
<1>2. Stage = "asked"
  BY Documents DEF Init, Stage
<1>3. \A l \in OrderLines : received[l] = 0
  BY DEF Init, NoLots
<1>4. [l \in OrderLines |-> SumFunction([r \in Receipts |-> lots[r][l]])] = [l \in OrderLines |-> 0]
  BY <1>1, <1>3, StockIsReceived
<1>. QED
  BY <1>2, <1>4 DEF Receiving!Init

\* The same, said of every state and so of the next.
Stocked == \A l \in OrderLines : SumFunction([r \in Receipts |-> lots[r][l]]) = received[l]

LEMMA StockedNow == Inv => Stocked
BY StockIsReceived DEF Stocked

LEMMA StockedNext == Inv' => Stocked'
BY StockedNow, PTL

LEMMA StepMaps == Inv /\ Inv' /\ [Next]_vars => [Receiving!Next]_(Receiving!vars)
<1>. SUFFICES ASSUME Inv, Inv', [Next]_vars PROVE [Receiving!Next]_(Receiving!vars)
  OBVIOUS
<1>. DEFINE stock == [l \in OrderLines |-> SumFunction([r \in Receipts |-> lots[r][l]])]
            least == [l \in OrderLines |-> ordered[l] * (100 - Loosest(l))]
<1>1. stock = [l \in OrderLines |-> received[l]] /\ stock' = [l \in OrderLines |-> received'[l]]
  BY StockedNow, StockedNext DEF Stocked
<1>2. \A l \in OrderLines : received[l] \in Nat /\ received'[l] \in Nat
  BY DEF Inv, TypeOK
<1>3. UNCHANGED received => UNCHANGED stock
  BY <1>1
<1>4. UNCHANGED ordered => UNCHANGED least
  BY DEF Loosest
<1>. HIDE DEF stock, least
<1>. USE DEF Receiving!Next, Receiving!Ask, Receiving!Agree, Receiving!Close, Receiving!Receive,
             Receiving!vars
<1>5. ASSUME UNCHANGED <<received, ordered>>, status'[Order] = status[Order]
      PROVE  UNCHANGED Receiving!vars
  BY <1>3, <1>4, <1>5 DEF Stage, stock, least
<1>6. CASE OrderSteps
  <2>. USE Documents DEF Move, orderLines, Inv, TypeOK, Stage
  <2>1. UNCHANGED stock
    BY <1>3, <1>6, OrderStepTakesNoGoods
  <2>2. ASSUME NEW lines \in Orderings, UpdateOrder(lines) PROVE Receiving!Ask
    BY <2>1, <2>2 DEF UpdateOrder, stock
  <2>3. ASSUME NEW lines \in Orderings, NEW p \in People, CreateOrder(p, lines) PROVE Receiving!Ask
    BY <2>1, <2>3 DEF CreateOrder, stock
  <2>4. ASSUME NEW p \in People, ApproveOrder(p) PROVE Receiving!Agree
    BY <1>4, <2>1, <2>4 DEF ApproveOrder, stock, least
  <2>5. ASSUME SubmitOrder PROVE Receiving!Agree \/ Receiving!Ask
    BY <1>4, <2>1, <2>5 DEF SubmitOrder, stock, least
  <2>6. ASSUME NEW from, from \subseteq {"draft", "submitted", "approved", "sent"},
               Move(Order, from, "rejected") \/ Move(Order, from, "cancelled"), UNCHANGED ordered
        PROVE  Receiving!Close
    <3>1. \A l \in OrderLines : stock[l] = 0
      BY <1>1, <2>6 DEF OrderInv
    <3>. QED
      BY <1>4, <2>1, <2>6, <3>1 DEF stock, least
  <2>7. ASSUME SendOrder PROVE UNCHANGED Receiving!vars
    BY <1>4, <2>1, <2>7 DEF SendOrder, stock, least
  <2>. QED
    BY <1>6, <2>2, <2>3, <2>4, <2>5, <2>6, <2>7 DEF OrderSteps, RejectOrder, CancelOrder
<1>7. ASSUME NEW w \in Workers, PostReceipt(w) PROVE [Receiving!Next]_(Receiving!vars)
  <2>. DEFINE r == Doc(w)
              to == OrderStatusAfterReceipt(RecordReceipt(r))
  <2>1. /\ r \in Receipts /\ Receivable /\ status'[Order] = to /\ UNCHANGED ordered
        /\ \A l \in OrderLines : received'[l] = RecordReceipt(r)[l]
    BY <1>7, Posting, Documents DEF Inv, TypeOK, DecisionHolds, RecordReceipt
  <2>2. \A l \in OrderLines : received'[l] >= received[l]
    BY <1>2, <1>7, <2>1, Posting, AcceptedTypes DEF Inv
  <2>3. Stage \in {"open", "receiving"}
    BY <2>1 DEF Receivable, ReceivableStatuses, Stage
  <2>4. UNCHANGED least
    BY <1>4, <2>1
  <2>5. stock' \in [OrderLines -> Nat] /\ \A l \in OrderLines : stock'[l] >= stock[l]
    BY <1>1, <1>2, <2>2
  <2>6. CASE \A l \in OrderLines : LineComplete(l, RecordReceipt(r)[l])
    <3>1. Stage' = "complete"
      BY <2>1, <2>6 DEF OrderStatusAfterReceipt, Stage
    <3>2. ASSUME NEW l \in OrderLines PROVE stock'[l] * 100 >= least[l]
      <4>. DEFINE n == received'[l] o == ordered[l] p == Percent(l) q == Loosest(l)
      <4>1. n * 100 >= o * (100 - p)
        BY <2>1, <2>6 DEF LineComplete
      <4>2. n \in Nat /\ o \in Nat /\ p \in Nat /\ q \in Nat /\ p <= q
        BY <1>2, AmountTypes, LimitTypes DEF Inv
      <4>3. stock'[l] = n /\ least[l] = o * (100 - q)
        BY <1>1 DEF least
      <4>. HIDE DEF n, o, p, q
      <4>4. o * p <= o * q /\ o * p \in Nat /\ o * q \in Nat
        BY <4>2, TimesGrows
      <4>5. o * (100 - p) = o * 100 - o * p /\ o * (100 - q) = o * 100 - o * q
        BY <4>2
      <4>6. n * 100 >= o * (100 - q)
        BY <4>1, <4>2, <4>4, <4>5
      <4>. QED
        BY <4>3, <4>6
    <3>. QED
      BY <2>3, <2>4, <2>5, <3>1, <3>2 DEF stock, least
  <2>7. CASE /\ ~ \A l \in OrderLines : LineComplete(l, RecordReceipt(r)[l])
             /\ \A l \in OrderLines : RecordReceipt(r)[l] = 0
    <3>1. \A l \in OrderLines : received'[l] = received[l]
      BY <1>2, <2>1, <2>2, <2>7
    <3>2. UNCHANGED stock
      BY <1>1, <3>1
    <3>3. status'[Order] = status[Order]
      BY <2>1, <2>7 DEF OrderStatusAfterReceipt
    <3>. QED
      BY <2>4, <3>2, <3>3 DEF Stage, stock, least
  <2>8. CASE /\ ~ \A l \in OrderLines : LineComplete(l, RecordReceipt(r)[l])
             /\ ~ \A l \in OrderLines : RecordReceipt(r)[l] = 0
    <3>1. Stage' = "receiving"
      BY <2>1, <2>8 DEF OrderStatusAfterReceipt, Stage
    <3>2. \E l \in OrderLines : stock'[l] > 0
      BY <1>1, <1>2, <2>1, <2>8
    <3>. QED
      BY <2>3, <2>4, <2>5, <3>1, <3>2 DEF stock, least
  <2>. QED
    BY <2>6, <2>7, <2>8
<1>8. CASE ReceiptsKept /\ OrderKept
  BY <1>5, <1>8 DEF ReceiptsKept, OrderKept
<1>. QED
  BY <1>6, <1>7, <1>8, OnlyPostingPosts, OthersKeepTheOrder DEF Inv

\* Every run of the two services is a life of an order as purchasing is
\* promised it, with the stock the lots hold.
THEOREM OrderIsReceived == Spec => ImplementsOrderReceiving
<1>1. Inv /\ Inv' /\ [Next]_vars => [Receiving!Next]_(Receiving!vars)
  BY StepMaps
<1>. QED
  BY <1>1, InitMaps, Invariant, PTL DEF Spec, ImplementsOrderReceiving, Receiving!Spec
=============================================================================
