------------------------------ MODULE Purchasing ------------------------------
(***************************************************************************)
(* A purchase order and the goods receipts against it:                     *)
(* PurchaseOrdersService and GoodsReceiptsService.                         *)
(*                                                                         *)
(* Every step is a transaction that locks its document at the revision the *)
(* person had in front of them.  A step that writes nothing but its own    *)
(* document is one action, taken when it has the lock: what it reads of    *)
(* others, the order's lines, an item's tolerance, the threshold, it reads *)
(* once.  Posting a receipt also locks the order and writes to it, and is  *)
(* told apart step by step.  Raising or editing a receipt looks at the     *)
(* order before its transaction begins; submitting a receipt without       *)
(* findings, and approving one, take a second transaction for the posting. *)
(* A request may die anywhere.                                             *)
(*                                                                         *)
(* Each line is of an item of its own, at a price of 1 with its VAT, and   *)
(* quantities are whole base units.  An item's temperature limit is in     *)
(* Transfers, which shares the inspection.  Triggers of the database that  *)
(* repeat a rule of the services are left out: the rules must do without   *)
(* them.                                                                   *)
(***************************************************************************)
EXTENDS Integers, FiniteSets, FiniteSetsExt

CONSTANTS
  OrderLines,
  Receipts,      \* goods receipts people may draft
  People,
  Workers,       \* requests running at a time
  Orderings,     \* what the lines of an order may ask for
  Deliveries,    \* what a receiver may record of a delivery, line by line
  Variances,     \* what the items' variance limits may be, in percent
  Thresholds,    \* what the company's approval threshold may be
  MaxRevision,   \* bound: a draft is edited only below this revision
  MaxEvents,     \* bound: how many requests die, and master data change, in all
  NoLimit, NoReceipt, NoWorker, Nobody

Order == "order"

Docs == {Order} \cup Receipts

\* Who it is ordered from, where it is delivered, and the items of the lines.
Parties == {"supplier", "location"} \cup OrderLines

Arrivals ==
  [counted : Nat, rejected : Nat, state : {"fine", "damaged", "short", "expired"}, reason : BOOLEAN]

ASSUME PurchasingAssumption ==
  /\ {Order, NoReceipt} \cap Receipts = {} /\ NoLimit \notin Nat
  /\ NoWorker \notin Workers /\ Nobody \notin People
  /\ IsFiniteSet(OrderLines) /\ IsFiniteSet(Receipts) /\ IsFiniteSet(Variances)
  /\ Orderings \subseteq [OrderLines -> Nat \ {0}]
  /\ Deliveries \subseteq [OrderLines -> Arrivals]
  /\ \A d \in Deliveries : \A l \in OrderLines : d[l].rejected <= d[l].counted
  /\ Variances \subseteq [OrderLines -> Nat \cup {NoLimit}]
  /\ Thresholds \subseteq Nat
  /\ MaxRevision \in Nat \ {0} /\ MaxEvents \in Nat

VARIABLES
  status, creator, approver,  \* of the order and of the receipts
  revision,                   \* of the receipts
  ordered,             \* purchase_order_lines.quantity
  judgedBy,            \* the order's approval_threshold; NoLimit until submitted
  received, returned,  \* purchase_order_lines.received_quantity, returned_quantity
  delivery,            \* goods_receipt_lines
  found,               \* the lines with findings, as fixed at submission
  lots,                \* what a posted receipt put into stock
  variance, threshold, inUse,  \* the items' limits; the company's; the active of Parties
  lock,                \* the rows of the order and of the stock documents
  pc, req,             \* what each request is at, and was asked (by whom, if recorded)
  events               \* deaths and changes so far

documents == <<status, creator, approver, revision>>
orderLines == <<ordered, judgedBy, received, returned>>
receiving == <<delivery, found, lots>>
masterData == <<variance, threshold, inUse>>
locals == <<lock, pc, req>>
vars == <<documents, orderLines, receiving, masterData, locals, events>>

------------------------------------------------------------------------------
(* purchase-order-rules.ts, goods-receipt-rules.ts and inspection.ts *)

Gross == SumFunction(ordered)

OrderNeedsApproval == Gross > threshold

OrderStatuses ==
  {"none", "draft", "submitted", "approved", "sent", "partially_received", "received",
   "rejected", "cancelled"}

ReceiptStatuses == {"none", "draft", "submitted", "approved", "posted", "rejected"}

ReceivableStatuses == {"approved", "sent", "partially_received"}

Receivable == status[Order] \in ReceivableStatuses

Delivered(r) == {l \in OrderLines : delivery[r][l].counted > 0}

Accepted(r, l) == delivery[r][l].counted - delivery[r][l].rejected

Percent(l) == IF variance[l] = NoLimit THEN 0 ELSE variance[l]

WithinLimit(r, l) == (received[l] + Accepted(r, l)) * 100 <= ordered[l] * (100 + Percent(l))

LineComplete(l, amount) == amount * 100 >= ordered[l] * (100 - Percent(l))

Outstanding(l) == IF ordered[l] > received[l] THEN ordered[l] - received[l] ELSE 0

\* When nothing was expected, a percentage of it forgives nothing.
OutsideVariance(r, l) ==
  LET difference == delivery[r][l].counted - Outstanding(l)
      allowed == Outstanding(l) * Percent(l)
  IN variance[l] # NoLimit /\ (difference * 100 > allowed \/ difference * 100 < 0 - allowed)

Inspect(r) == {l \in Delivered(r) : OutsideVariance(r, l) \/ delivery[r][l].state # "fine"}

ReceiptRefusal(r, findings) ==
  \/ Delivered(r) = {}
  \/ ~Receivable
  \/ ~({"location"} \cup Delivered(r) \subseteq inUse)
  \/ \E l \in Delivered(r) :
       \/ (l \in findings \/ delivery[r][l].rejected > 0) /\ ~delivery[r][l].reason
       \/ delivery[r][l].state = "expired" /\ Accepted(r, l) > 0
       \/ ~WithinLimit(r, l)

\* The order's status once its lines have received this much.
\* Mutant: one complete line is enough.
SomeLineCompletes(amounts) ==
  IF \E l \in OrderLines : LineComplete(l, amounts[l]) THEN "received"
  ELSE IF \A l \in OrderLines : amounts[l] = 0 THEN status[Order]
  ELSE "partially_received"

OrderStatusAfterReceipt(amounts) ==
  IF \A l \in OrderLines : LineComplete(l, amounts[l]) THEN "received"
  ELSE IF \A l \in OrderLines : amounts[l] = 0 THEN status[Order]
  ELSE "partially_received"

------------------------------------------------------------------------------
NoLots == [l \in OrderLines |-> 0]

NoDelivery ==
  [l \in OrderLines |-> [counted |-> 0, rejected |-> 0, state |-> "fine", reason |-> FALSE]]

Kinds == {"none", "raise", "edit", "submit", "clean", "post"}

Requests ==
  [kind : Kinds, doc : Receipts \cup {NoReceipt}, by : People \cup {Nobody}, revision : Nat,
   line : Deliveries \cup {NoDelivery}]

NoRequest == [kind |-> "none", doc |-> NoReceipt, by |-> Nobody, revision |-> 0, line |-> NoDelivery]

Init ==
  /\ status = [d \in Docs |-> "none"]
  /\ revision = [r \in Receipts |-> 0]
  /\ creator = [d \in Docs |-> Nobody]
  /\ approver = [d \in Docs |-> Nobody]
  /\ ordered \in Orderings
  /\ judgedBy = NoLimit
  /\ received = NoLots /\ returned = NoLots
  /\ delivery = [r \in Receipts |-> NoDelivery]
  /\ found = [r \in Receipts |-> {}]
  /\ lots = [r \in Receipts |-> NoLots]
  /\ variance \in Variances /\ threshold \in Thresholds /\ inUse = Parties
  /\ lock = [d \in Docs |-> NoWorker]
  /\ pc = [w \in Workers |-> "idle"]
  /\ req = [w \in Workers |-> NoRequest]
  /\ events = 0

ChangeTolerance ==
  variance' \in Variances \ {variance} /\ UNCHANGED <<threshold, inUse>>

ChangeThreshold ==
  threshold' \in Thresholds \ {threshold} /\ UNCHANGED <<variance, inUse>>

\* A supplier, a location or an item is taken out of use, or back into it.
ChangeUse ==
  /\ \E x \in Parties : inUse' = IF x \in inUse THEN inUse \ {x} ELSE inUse \cup {x}
  /\ UNCHANGED <<variance, threshold>>

ChangeMasterData ==
  /\ events < MaxEvents /\ events' = events + 1
  /\ ChangeTolerance \/ ChangeThreshold \/ ChangeUse
  /\ UNCHANGED <<documents, orderLines, receiving, locals>>

------------------------------------------------------------------------------
(* Steps done in one transaction, taken at the revision it finds: asked for *)
(* at an older one they are refused, which changes nothing, and so the      *)
(* order's revision has no part here.                                       *)

Unlocked(d) == lock[d] = NoWorker

Move(d, from, to) ==
  /\ Unlocked(d) /\ status[d] \in from
  /\ status' = [status EXCEPT ![d] = to]

NextRevision(r) == revision' = [revision EXCEPT ![r] = @ + 1]

Elsewhere == UNCHANGED <<revision, receiving, masterData, locals, events>>

CreateOrder(p, lines) ==
  /\ inUse = Parties
  /\ Move(Order, {"none"}, "draft")
  /\ creator' = [creator EXCEPT ![Order] = p]
  /\ ordered' = lines
  /\ UNCHANGED <<approver, judgedBy, received, returned>> /\ Elsewhere

UpdateOrder(lines) ==
  /\ inUse = Parties
  /\ Move(Order, {"draft"}, "draft")
  /\ ordered' = lines
  /\ UNCHANGED <<creator, approver, judgedBy, received, returned>> /\ Elsewhere

\* The threshold of the moment is recorded; what it lets through is approved
\* here, by nobody.
SubmitOrder ==
  /\ inUse = Parties
  /\ Move(Order, {"draft"}, IF OrderNeedsApproval THEN "submitted" ELSE "approved")
  /\ judgedBy' = threshold
  /\ UNCHANGED <<creator, approver, ordered, received, returned>> /\ Elsewhere

\* Mutant: who created it may approve it.
AnyApprover(d, p) == FALSE

OwnDocument(d, p) == p = creator[d]

ApproveOrder(p) ==
  /\ ~OwnDocument(Order, p)
  /\ Move(Order, {"submitted"}, "approved")
  /\ approver' = [approver EXCEPT ![Order] = p]
  /\ UNCHANGED <<creator, orderLines>> /\ Elsewhere

RejectOrder ==
  /\ Move(Order, {"submitted"}, "rejected")
  /\ UNCHANGED <<creator, approver, orderLines>> /\ Elsewhere

SendOrder ==
  /\ Move(Order, {"approved"}, "sent")
  /\ UNCHANGED <<creator, approver, orderLines>> /\ Elsewhere

CancelOrder ==
  /\ Move(Order, {"draft", "submitted", "approved", "sent"}, "cancelled")
  /\ UNCHANGED <<creator, approver, orderLines>> /\ Elsewhere

RejectReceipt(r) ==
  /\ Move(r, {"submitted", "approved"}, "rejected")
  /\ NextRevision(r)
  /\ UNCHANGED <<creator, approver, orderLines, receiving, masterData, locals, events>>

------------------------------------------------------------------------------
(* Receipts: requests that read before their transaction, or take several *)

Kind(w) == req[w].kind
Doc(w) == req[w].doc

\* The status a step is taken from.
From(k) ==
  CASE k = "raise" -> "none" [] k = "post" -> "approved" [] OTHER -> "draft"

Begin(w, kind, d, p, line) ==
  /\ pc[w] = "idle"
  /\ pc' = [pc EXCEPT ![w] = "lock"]
  /\ req' = [req EXCEPT ![w] = [kind |-> kind, doc |-> d, by |-> p,
                                revision |-> revision[d], line |-> line]]
  /\ UNCHANGED <<documents, orderLines, receiving, masterData, lock, events>>

\* A delivery is recorded against an order that can receive, as read before
\* the transaction; a step is asked for with the receipt on the page.
Ask(w) ==
  \E r \in Receipts :
    \/ \E line \in Deliveries :
         /\ Receivable /\ {l \in OrderLines : line[l].counted > 0} \subseteq inUse
         /\ \/ /\ status[r] = "none" /\ \A v \in Workers : Doc(v) # r
               /\ \E p \in People : Begin(w, "raise", r, p, line)
            \/ /\ status[r] = "draft" /\ revision[r] < MaxRevision
               /\ Begin(w, "edit", r, Nobody, line)
    \/ status[r] \in {"draft", "approved"}
         /\ Begin(w, IF status[r] = "draft" THEN "submit" ELSE "post", r, Nobody, delivery[r])

Idle(w) ==
  /\ pc' = [pc EXCEPT ![w] = "idle"]
  /\ req' = [req EXCEPT ![w] = NoRequest]

Release(w) == lock' = [d \in Docs |-> IF lock[d] = w THEN NoWorker ELSE lock[d]]

\* A refusal is answered, and nothing is written.
Refuse(w) ==
  /\ Idle(w) /\ Release(w)
  /\ UNCHANGED <<documents, orderLines, receiving, masterData, events>>

\* Mutant: the revision the person saw is not compared.
InStatus(w) == status[Doc(w)] = From(Kind(w))

MayStart(w) == status[Doc(w)] = From(Kind(w)) /\ revision[Doc(w)] = req[w].revision

Take(w, to) ==
  /\ status' = [status EXCEPT ![Doc(w)] = to]
  /\ NextRevision(Doc(w))

\* The insert's foreign key waits for whoever has locked the order.
RaiseReceipt(w) ==
  /\ Kind(w) = "raise" /\ Unlocked(Order)
  /\ Take(w, "draft")
  /\ creator' = [creator EXCEPT ![Doc(w)] = req[w].by]
  /\ delivery' = [delivery EXCEPT ![Doc(w)] = req[w].line]
  /\ Idle(w)
  /\ UNCHANGED <<approver, orderLines, found, lots, lock>>

UpdateReceipt(w) ==
  /\ Kind(w) = "edit"
  /\ Take(w, "draft")
  /\ delivery' = [delivery EXCEPT ![Doc(w)] = req[w].line]
  /\ Idle(w)
  /\ UNCHANGED <<creator, approver, orderLines, found, lots, lock>>

\* With a finding it waits for its approval; without, it is posted in a
\* transaction of its own.
SubmitReceipt(w) ==
  LET r == Doc(w) IN
  /\ Kind(w) = "submit" /\ ~ReceiptRefusal(r, Inspect(r))
  /\ IF Inspect(r) # {}
     THEN /\ found' = [found EXCEPT ![r] = Inspect(r)]
          /\ Take(w, "submitted")
          /\ Idle(w)
     ELSE /\ req' = [req EXCEPT ![w].kind = "clean"]
          /\ UNCHANGED <<status, revision, found, pc>>
  /\ UNCHANGED <<creator, approver, orderLines, delivery, lots, lock>>

Posts(w) == Kind(w) \in {"clean", "post"}

OneTransaction(w) ==
  RaiseReceipt(w) \/ UpdateReceipt(w) \/ SubmitReceipt(w)

RefusedAtOnce(w) ==
  \/ ~MayStart(w)
  \/ Kind(w) = "submit" /\ ReceiptRefusal(Doc(w), Inspect(Doc(w)))

LockDocument(w) ==
  /\ pc[w] = "lock" /\ Unlocked(Doc(w))
  /\ \/ RefusedAtOnce(w) /\ Refuse(w)
     \/ ~RefusedAtOnce(w) /\ OneTransaction(w) /\ UNCHANGED <<masterData, events>>
     \/ /\ ~RefusedAtOnce(w) /\ Posts(w)
        /\ lock' = [lock EXCEPT ![Doc(w)] = w]
        /\ pc' = [pc EXCEPT ![w] = "order"]
        /\ UNCHANGED <<documents, orderLines, receiving, masterData, req, events>>

\* Approved, it is posted in a transaction of its own.
ApproveReceipt(w, r, p) ==
  /\ pc[w] = "idle" /\ ~OwnDocument(r, p)
  /\ Move(r, {"submitted"}, "approved") /\ NextRevision(r)
  /\ approver' = [approver EXCEPT ![r] = p]
  /\ pc' = [pc EXCEPT ![w] = "lock"]
  /\ req' = [req EXCEPT ![w] = [kind |-> "post", doc |-> r, by |-> Nobody,
                                revision |-> revision[r] + 1, line |-> delivery[r]]]
  /\ UNCHANGED <<creator, orderLines, receiving, masterData, lock, events>>

\* lockForReceiving: receipts posted at once against one order queue up here.
\* Mutant: the order is read as it is, without its lock.
ReadOrder(w) ==
  /\ pc[w] = "order"
  /\ pc' = [pc EXCEPT ![w] = "decide"]
  /\ UNCHANGED <<documents, orderLines, receiving, masterData, lock, req, events>>

LockOrder(w) ==
  /\ pc[w] = "order" /\ Unlocked(Order)
  /\ lock' = [lock EXCEPT ![Order] = w]
  /\ pc' = [pc EXCEPT ![w] = "decide"]
  /\ UNCHANGED <<documents, orderLines, receiving, masterData, req, events>>

\* A clean receipt is inspected again, an approved one keeps the findings its
\* approver saw.
\* Mutant: a receipt once found clean is not inspected again.
RefusedAsFound(w) ==
  ReceiptRefusal(Doc(w), IF Kind(w) = "clean" THEN {} ELSE found[Doc(w)])

Refused(w) ==
  IF Kind(w) = "clean"
  THEN ReceiptRefusal(Doc(w), Inspect(Doc(w))) \/ Inspect(Doc(w)) # {}
  ELSE ReceiptRefusal(Doc(w), found[Doc(w)])

Decide(w) ==
  /\ pc[w] = "decide"
  /\ IF Refused(w) THEN Refuse(w)
     ELSE /\ pc' = [pc EXCEPT ![w] = "write"]
          /\ UNCHANGED <<documents, orderLines, receiving, masterData, lock, req, events>>

\* What a receipt adds to its order's lines.
\* Mutant: what was turned away counts as received.
AllCounted(r) == [l \in OrderLines |-> received[l] + delivery[r][l].counted]

RecordReceipt(r) == [l \in OrderLines |-> received[l] + Accepted(r, l)]

PostReceipt(w) ==
  LET r == Doc(w) IN
  /\ pc[w] = "write"
  /\ received' = RecordReceipt(r)
  /\ returned' = [l \in OrderLines |-> returned[l] + delivery[r][l].rejected]
  /\ status' = [status EXCEPT ![r] = "posted", ![Order] = OrderStatusAfterReceipt(RecordReceipt(r))]
  /\ NextRevision(r)
  /\ lots' = [lots EXCEPT ![r] = [l \in OrderLines |-> Accepted(r, l)]]
  /\ found' = [found EXCEPT ![r] = IF Kind(w) = "clean" THEN {} ELSE @]
  /\ Idle(w) /\ Release(w)
  /\ UNCHANGED <<creator, approver, ordered, judgedBy, delivery, masterData, events>>

\* The request dies, and what it had not committed is gone.
Crash(w) ==
  /\ pc[w] # "idle"
  /\ events < MaxEvents /\ events' = events + 1
  /\ Idle(w) /\ Release(w)
  /\ UNCHANGED <<documents, orderLines, receiving, masterData>>

Step(w) == LockDocument(w) \/ LockOrder(w) \/ Decide(w) \/ PostReceipt(w)

Next ==
  \/ ChangeMasterData
  \/ \E lines \in Orderings : UpdateOrder(lines) \/ \E p \in People : CreateOrder(p, lines)
  \/ \E p \in People : ApproveOrder(p)
  \/ SubmitOrder \/ RejectOrder \/ SendOrder \/ CancelOrder
  \/ \E r \in Receipts : RejectReceipt(r)
  \/ \E w \in Workers, r \in Receipts, p \in People : ApproveReceipt(w, r, p)
  \/ \E w \in Workers : Ask(w) \/ Step(w) \/ Crash(w)

Spec == Init /\ [][Next]_vars

------------------------------------------------------------------------------
(* Properties *)

\* Every variable has its type.
TypeOK ==
  /\ status \in [Docs -> ReceiptStatuses \cup OrderStatuses]
  /\ status[Order] \in OrderStatuses
  /\ \A r \in Receipts : status[r] \in ReceiptStatuses
  /\ revision \in [Receipts -> Nat]
  /\ creator \in [Docs -> People \cup {Nobody}]
  /\ approver \in [Docs -> People \cup {Nobody}]
  /\ ordered \in Orderings
  /\ judgedBy \in Thresholds \cup {NoLimit}
  /\ received \in [OrderLines -> Nat] /\ returned \in [OrderLines -> Nat]
  /\ delivery \in [Receipts -> Deliveries \cup {NoDelivery}]
  /\ found \in [Receipts -> SUBSET OrderLines]
  /\ lots \in [Receipts -> [OrderLines -> Nat]]
  /\ variance \in Variances /\ threshold \in Thresholds /\ inUse \subseteq Parties
  /\ lock \in [Docs -> Workers \cup {NoWorker}]
  /\ pc \in [Workers -> {"idle", "lock", "order", "decide", "write"}]
  /\ req \in [Workers -> Requests]
  /\ events \in 0 .. MaxEvents

\* The loosest a line's variance limit ever is.
Loosest(l) == Max({IF v[l] = NoLimit THEN 0 ELSE v[l] : v \in Variances})

\* However many receipts post at once against an order line, together they
\* never accept more than was ordered and its tolerance allow
\* (withinReceivableLimit: "two receipts posted at once can never together
\* exceed it").
NeverOverReceived ==
  \A l \in OrderLines : received[l] * 100 <= ordered[l] * (100 + Loosest(l))

\* What the order says has come and gone back is what its posted receipts put
\* into stock and turned away (ADR-0007: recordReceipt and the lots are
\* written by different modules).
BooksAgree ==
  \A l \in OrderLines :
    LET posted == {r \in Receipts : status[r] = "posted"} IN
    /\ received[l] = SumFunction([r \in posted |-> lots[r][l]])
    /\ returned[l] = SumFunction([r \in posted |-> delivery[r][l].rejected])

\* Goods come in only against an order within the threshold it was judged by,
\* or approved by someone who did not create it, whatever became of its lines
\* and of the threshold (ADR-0008).
NothingBoughtUnapproved ==
  \A r \in Receipts : status[r] = "posted" =>
    Gross <= judgedBy \/ approver[Order] \notin {Nobody, creator[Order]}

\* A finding is passed over only with the approval of someone who did not
\* raise the receipt (ADR-0007, decision 3).
FindingsApproved ==
  \A r \in Receipts : status[r] = "posted" /\ found[r] # {} =>
    approver[r] \notin {Nobody, creator[r]}

\* Every line delivered is fine, and as far from what was outstanding as the
\* loosest limit lets it be.
WithinTolerance(r) ==
  \A l \in Delivered(r) :
    /\ delivery[r][l].state = "fine"
    /\ (\A v \in Variances : v[l] # NoLimit) =>
         /\ (delivery[r][l].counted - Outstanding(l)) * 100 <= Outstanding(l) * Loosest(l)
         /\ (Outstanding(l) - delivery[r][l].counted) * 100 <= Outstanding(l) * Loosest(l)

\* A receipt that posts unseen is within tolerance of what was outstanding
\* when it posted, whatever posted since it was submitted (submit inspects,
\* plan inspects again).
CleanWhenPosted ==
  [][\A r \in Receipts :
       status[r] = "draft" /\ status'[r] = "posted" => WithinTolerance(r)]_vars

\* What a person submits is what was on their page, and from then on it stays:
\* what was submitted is what is approved, and what is posted (updateDraft and
\* the revision that submit names, against a second submission or an edit in
\* flight).
SubmittedAsSeen ==
  [][\A r \in Receipts :
       /\ status[r] = "draft" =>
            \/ status'[r] = "draft"
            \/ /\ delivery'[r] = delivery[r]
               /\ \E w \in Workers : Doc(w) = r /\ req[w].line = delivery[r]
       /\ status[r] \notin {"none", "draft"} =>
            delivery'[r] = delivery[r] /\ status'[r] # "draft"]_vars

\* Where the order stands, as a buyer would say it.
Stage ==
  CASE status[Order] \in {"none", "draft", "submitted"} -> "asked"
    [] status[Order] \in {"approved", "sent"} -> "open"
    [] status[Order] = "partially_received" -> "receiving"
    [] status[Order] = "received" -> "complete"
    [] OTHER -> "closed"

Receiving == INSTANCE OrderReceiving WITH
  stage <- Stage,
  stock <- [l \in OrderLines |-> SumFunction([r \in Receipts |-> lots[r][l]])],
  least <- [l \in OrderLines |-> ordered[l] * (100 - Loosest(l))]

\* An order lives as purchasing is promised: OrderReceiving, with the stock
\* its lots hold.
ImplementsOrderReceiving == Receiving!Spec
=============================================================================
