---------------------------- MODULE TransfersProofs ----------------------------
(***************************************************************************)
(* Proofs about module Transfers, for any number of transfers, receipts,   *)
(* people and requests, and any quantities, tolerances and dates.          *)
(***************************************************************************)
EXTENDS Transfers, SumTheorems

\* What a request under way is about.
Asks(w) ==
  /\ Kind(w) # "none" /\ req[w].by \in People
  /\ Transfer(w) \in Transfers
  /\ Doc(w) \in IF Kind(w) \in {"dispatch", "reverse"} THEN {Transfer(w)} ELSE Receipts
  /\ req[w].revision <= revision[Doc(w)]
  /\ Exists(Doc(w)) <=> Kind(w) # "raise"
  /\ Kind(w) \in {"submit", "clean", "approve", "post"} => Transfer(w) = of[Doc(w)]
  /\ Kind(w) = "dispatch" => req[w].take \in Quantities
  /\ Kind(w) = "raise" => pc[w] \in {"decide", "write"}
  /\ Kind(w) = "approve" /\ revision[Doc(w)] = req[w].revision => req[w].line = lines[Doc(w)]

\* From the lock of its document to its end, the document is as the person
\* saw it, or has still not been reversed.
HoldsDocument(w) ==
  /\ docLock[Doc(w)] = w
  /\ status[Doc(w)] = From(Kind(w))
  /\ IF Kind(w) = "reverse" THEN ~Reversed(Doc(w)) /\ req[w].day >= date[Doc(w)]
     ELSE revision[Doc(w)] = req[w].revision

\* What was decided is true until it is written.
DecisionHolds(w) ==
  LET d == Doc(w) IN
  /\ Kind(w) = "raise" => status[Transfer(w)] = "posted" /\ ValidLine(req[w].line)
  /\ Kind(w) = "reverse" => receipt[d] = NoReceipt
  /\ Kind(w) = "approve" => ~OwnReceipt(w)
  /\ Receives(w) => /\ TransferStatus(of[d]) = "dispatched" /\ date[d] >= date[of[d]]
                    /\ DifferenceResolved(d)
  /\ Kind(w) = "clean" => judged[w] # "findings" /\ lines[d].writtenOff = 0
  /\ d \in Receipts /\ Kind(w) # "raise" =>
       judged[w] # "unfixed" /\ (found[d] # "unfixed" => judged[w] = found[d])

WorkerInv(w) ==
  /\ pc[w] # "idle" => Asks(w)
  /\ pc[w] \in {"row", "decide", "write"} /\ Kind(w) # "raise" => HoldsDocument(w)
  /\ pc[w] \in {"decide", "write"} /\ LocksTransfer(w) => rowLock[Transfer(w)] = w
  /\ pc[w] = "write" => DecisionHolds(w)

\* Two requests never raise the same receipt.
RaisesApart ==
  \A v, w \in Workers :
    v # w /\ Kind(v) = "raise" /\ Kind(w) = "raise" => Doc(v) # Doc(w)

RequestInv == RaisesApart /\ \A w \in Workers : WorkerInv(w)

\* What the ledger has of a transfer follows from where it stands.
TransferStands(t) ==
  /\ status[t] = "posted" => entries[t] = Picked(cargo[t])
  /\ status[t] # "posted" => entries[t] = Nowhere /\ cargo[t] = 0 /\ ~Reversed(t)
  /\ ~Reversed(t) => undo[t] = Nowhere
  /\ Reversed(t) => /\ undo[t] = ReversalMovements(entries[t]) /\ undoDate[t] >= date[t]
                    /\ receipt[t] = NoReceipt
  /\ receipt[t] # NoReceipt => status[receipt[t]] = "posted" /\ of[receipt[t]] = t

TransferInv == \A t \in Transfers : TransferStands(t)

Independent(r) == approver[r] \notin {Nobody, creator[r], submitter[r]}

\* And what it has of a receipt.
ReceiptStands(r) ==
  /\ Exists(r) => of[r] \in Transfers /\ status[of[r]] = "posted"
  /\ status[r] # "posted" => entries[r] = Nowhere
  /\ status[r] = "posted" =>
       /\ entries[r] = Received(r) /\ receipt[of[r]] = r
       /\ DifferenceResolved(r) /\ date[r] >= date[of[r]]
  /\ status[r] \in {"submitted", "approved", "posted"} => found[r] # "unfixed"
  /\ status[r] = "approved" => Independent(r)
  /\ status[r] = "posted" /\ (found[r] = "findings" \/ lines[r].writtenOff > 0) => Independent(r)

ReceiptInv == \A r \in Receipts : ReceiptStands(r)

Inv == TypeOK /\ RequestInv /\ TransferInv /\ ReceiptInv

------------------------------------------------------------------------------
LEMMA Documents ==
  /\ Transfers \subseteq Docs /\ Receipts \subseteq Docs
  /\ \A d \in Docs : d \in Receipts <=> d \notin Transfers
  /\ NoTransfer \notin Docs /\ NoReceipt \notin Docs
  /\ NoWorker \notin Workers /\ Nobody \notin People
BY TransfersAssumption DEF Docs

LEMMA LineTypes ==
  ASSUME NEW l \in Lines \cup {NoLine}
  PROVE  /\ l.received \in Nat /\ l.accepted \in Nat /\ l.returned \in Nat /\ l.writtenOff \in Nat
BY TransfersAssumption DEF NoLine

LEMMA CargoTypes == Quantities \subseteq Nat /\ \A q \in Quantities \cup {0} : q \in Nat
BY TransfersAssumption

\* What ending a request leaves of it and of its locks.
LEMMA EndTypes ==
  ASSUME TypeOK, NEW w \in Workers, Idle(w)
  PROVE  /\ pc' \in [Workers -> {"idle", "lock", "row", "decide", "write"}]
         /\ req' \in [Workers -> Requests]
         /\ judged' \in [Workers -> {"unfixed", "clean", "findings"}]
<1>1. NoRequest \in Requests
  BY TransfersAssumption DEF NoRequest, Requests, Kinds, Days
<1>. QED
  BY <1>1 DEF TypeOK, Idle

LEMMA ReleaseTypes ==
  ASSUME TypeOK, NEW w \in Workers, Release(w)
  PROVE  /\ docLock' \in [Docs -> Workers \cup {NoWorker}]
         /\ rowLock' \in [Transfers -> Workers \cup {NoWorker}]
BY DEF TypeOK, Release

\* What a person asks for.
Asked(w, p, at, ask) ==
  /\ Begin(w, at, ask) /\ ask \in Requests
  /\ ask.kind # "none" /\ ask.by = p /\ ask.transfer \in Transfers
  /\ ask.doc \in IF ask.kind \in {"dispatch", "reverse"} THEN {ask.transfer} ELSE Receipts
  /\ ask.revision = revision[ask.doc]
  /\ Exists(ask.doc) <=> ask.kind # "raise"
  /\ ask.kind \in {"submit", "clean", "approve", "post"} => ask.transfer = of[ask.doc]
  /\ ask.kind = "dispatch" => ask.take \in Quantities
  /\ IF ask.kind = "raise" THEN at = "decide" /\ \A v \in Workers : Doc(v) # ask.doc
     ELSE at = "lock"
  /\ ask.kind = "approve" => ask.line = lines[ask.doc]

LEMMA AskAsks ==
  ASSUME TypeOK, ReceiptInv, NEW w \in Workers, NEW p \in People, Ask(w, p)
  PROVE  \E at \in {"lock", "decide"}, ask \in Requests : Asked(w, p, at, ask)
<1>. USE Documents DEF Asked, Request, NoRequest, Exists
<1>1. \A d \in Docs : revision[d] \in Nat
  BY DEF TypeOK
<1>2. 1 \in Days /\ NoLine \in Lines \cup {NoLine} /\ 0 \in Quantities \cup {0}
  BY TransfersAssumption DEF Days
<1>3. ASSUME NEW t \in Transfers, NEW q \in Quantities, status[t] = "draft",
             Begin(w, "lock", [Request("dispatch", t, t, p) EXCEPT !.take = q])
      PROVE  \E at \in {"lock", "decide"}, ask \in Requests : Asked(w, p, at, ask)
  <2>1. [Request("dispatch", t, t, p) EXCEPT !.take = q] \in Requests
    BY <1>1, <1>2 DEF Requests, Kinds
  <2>. QED
    BY <1>3, <2>1
<1>4. ASSUME NEW t \in Transfers, NEW day \in Days, status[t] = "posted",
             Begin(w, "lock", [Request("reverse", t, t, p) EXCEPT !.day = day])
      PROVE  \E at \in {"lock", "decide"}, ask \in Requests : Asked(w, p, at, ask)
  <2>1. [Request("reverse", t, t, p) EXCEPT !.day = day] \in Requests
    BY <1>1, <1>2 DEF Requests, Kinds
  <2>. QED
    BY <1>4, <2>1
<1>5. ASSUME NEW t \in Transfers, NEW r \in Receipts, NEW l \in Lines, NEW day \in Days,
             ~Exists(r), \A v \in Workers : Doc(v) # r,
             Begin(w, "decide", [Request("raise", r, t, p) EXCEPT !.day = day, !.line = l])
      PROVE  \E at \in {"lock", "decide"}, ask \in Requests : Asked(w, p, at, ask)
  <2>1. [Request("raise", r, t, p) EXCEPT !.day = day, !.line = l] \in Requests
    BY <1>1, <1>2 DEF Requests, Kinds
  <2>. QED
    BY <1>5, <2>1
<1>6. ASSUME NEW r \in Receipts, NEW kind \in {"submit", "post"}, Exists(r),
             Begin(w, "lock", Request(kind, r, of[r], p))
      PROVE  \E at \in {"lock", "decide"}, ask \in Requests : Asked(w, p, at, ask)
  <2>1. of[r] \in Transfers
    BY <1>6 DEF ReceiptInv, ReceiptStands
  <2>2. Request(kind, r, of[r], p) \in Requests
    BY <1>1, <1>2, <2>1 DEF Requests, Kinds
  <2>. QED
    BY <1>6, <2>1, <2>2
<1>7. ASSUME NEW r \in Receipts, Exists(r),
             Begin(w, "lock", [Request("approve", r, of[r], p) EXCEPT !.line = lines[r]])
      PROVE  \E at \in {"lock", "decide"}, ask \in Requests : Asked(w, p, at, ask)
  <2>1. of[r] \in Transfers /\ lines[r] \in Lines \cup {NoLine}
    BY <1>7 DEF ReceiptInv, ReceiptStands, TypeOK
  <2>2. [Request("approve", r, of[r], p) EXCEPT !.line = lines[r]] \in Requests
    BY <1>1, <1>2, <2>1 DEF Requests, Kinds
  <2>. QED
    BY <1>7, <2>1, <2>2
<1>. QED
  BY <1>3, <1>4, <1>5, <1>6, <1>7 DEF Ask

LEMMA TypeInit == Init => TypeOK
<1>. SUFFICES ASSUME Init PROVE TypeOK
  OBVIOUS
<1>1. NoRequest \in Requests
  BY TransfersAssumption DEF NoRequest, Requests, Kinds, Days
<1>2. 1 \in Days /\ Nowhere \in [Places -> Int]
  BY TransfersAssumption DEF Days, Nowhere
<1>3. NoLine.accepted + NoLine.returned <= NoLine.received
  BY DEF NoLine
<1>. QED
  BY <1>1, <1>2, <1>3, Documents, TransfersAssumption DEF Init, TypeOK, ReceiptStatuses

LEMMA PickedTypes == \A q \in Quantities \cup {0} : Picked(q) \in [Places -> Int]
BY CargoTypes DEF Picked

LEMMA ReceivedTypes == TypeOK => \A r \in Receipts : Received(r) \in [Places -> Int]
<1>. SUFFICES ASSUME TypeOK, NEW r \in Receipts PROVE Received(r) \in [Places -> Int]
  OBVIOUS
<1>1. lines[r] \in Lines \cup {NoLine}
  BY DEF TypeOK
<1>. QED
  BY <1>1, LineTypes DEF Received

\* The step of a document, whatever else it writes.
LEMMA StatusTypes ==
  ASSUME TypeOK, NEW d \in Docs, NEW to, status' = [status EXCEPT ![d] = to],
         d \in Transfers => to \in {"none", "draft", "posted", "cancelled"},
         d \in Receipts => to \in ReceiptStatuses
  PROVE  /\ status' \in [Docs -> ReceiptStatuses \cup {"cancelled"}]
         /\ \A t \in Transfers : status'[t] \in {"none", "draft", "posted", "cancelled"}
         /\ \A r \in Receipts : status'[r] \in ReceiptStatuses
<1>1. to \in ReceiptStatuses \cup {"cancelled"}
  BY Documents DEF ReceiptStatuses
<1>. QED
  BY <1>1, Documents DEF TypeOK

LEMMA TypeStep == TypeOK /\ RequestInv /\ ReceiptInv /\ [Next]_vars => TypeOK'
<1>. SUFFICES ASSUME TypeOK, RequestInv, ReceiptInv, [Next]_vars PROVE TypeOK'
  OBVIOUS
<1>. USE DEF documents, receiving, masterData, locks, locals
<1>1. CASE UNCHANGED vars
  BY <1>1 DEF vars, TypeOK
<1>2. CASE ChangeMasterData
  <2>1. tolerances' \in Tolerances /\ active' \in BOOLEAN
    BY <1>2 DEF ChangeMasterData, TypeOK
  <2>. QED
    BY <1>2, <2>1 DEF ChangeMasterData, TypeOK
<1>3. ASSUME NEW t \in Transfers, NEW day \in Days, UpdateTransfer(t, day) PROVE TypeOK'
  BY <1>3, Documents DEF UpdateTransfer, NextRevision, TypeOK
<1>4. ASSUME NEW t \in Transfers, NEW day \in Days, NEW p \in People, CreateTransfer(t, p, day)
      PROVE  TypeOK'
  <2>1. /\ revision' \in [Docs -> Nat] /\ date' \in [Docs -> Days]
        /\ creator' \in [Docs -> People \cup {Nobody}]
    BY <1>4, Documents DEF CreateTransfer, NextRevision, TypeOK
  <2>2. /\ status' \in [Docs -> ReceiptStatuses \cup {"cancelled"}]
        /\ \A u \in Transfers : status'[u] \in {"none", "draft", "posted", "cancelled"}
        /\ \A r \in Receipts : status'[r] \in ReceiptStatuses
    BY <1>4, StatusTypes, Documents DEF CreateTransfer
  <2>. QED
    BY <1>4, <2>1, <2>2 DEF CreateTransfer, TypeOK
<1>5. ASSUME NEW t \in Transfers, CancelTransfer(t) PROVE TypeOK'
  <2>1. /\ status' \in [Docs -> ReceiptStatuses \cup {"cancelled"}]
        /\ \A u \in Transfers : status'[u] \in {"none", "draft", "posted", "cancelled"}
        /\ \A r \in Receipts : status'[r] \in ReceiptStatuses
    BY <1>5, StatusTypes, Documents DEF CancelTransfer
  <2>. QED
    BY <1>5, <2>1, Documents DEF CancelTransfer, NextRevision, TypeOK
<1>6. ASSUME NEW r \in Receipts, RejectReceipt(r) PROVE TypeOK'
  <2>1. /\ status' \in [Docs -> ReceiptStatuses \cup {"cancelled"}]
        /\ \A t \in Transfers : status'[t] \in {"none", "draft", "posted", "cancelled"}
        /\ \A q \in Receipts : status'[q] \in ReceiptStatuses
    BY <1>6, StatusTypes, Documents DEF RejectReceipt, ReceiptStatuses
  <2>. QED
    BY <1>6, <2>1, Documents DEF RejectReceipt, NextRevision, TypeOK
<1>7. ASSUME NEW r \in Receipts, NEW l \in Lines, NEW day \in Days, UpdateReceipt(r, l, day)
      PROVE  TypeOK'
  <2>1. l.accepted + l.returned <= l.received
    BY <1>7, LineTypes DEF UpdateReceipt, ValidLine
  <2>2. /\ lines' \in [Receipts -> Lines \cup {NoLine}]
        /\ \A q \in Receipts : lines'[q].accepted + lines'[q].returned <= lines'[q].received
    BY <1>7, <2>1 DEF UpdateReceipt, TypeOK
  <2>. QED
    BY <1>7, <2>2, Documents DEF UpdateReceipt, NextRevision, TypeOK
<1>8. ASSUME NEW w \in Workers, NEW p \in People, Ask(w, p) PROVE TypeOK'
  <2>1. PICK at \in {"lock", "decide"}, ask \in Requests : Asked(w, p, at, ask)
    BY <1>8, AskAsks
  <2>. QED
    BY <2>1 DEF Asked, Begin, TypeOK
<1>9. ASSUME NEW w \in Workers, Refuse(w) PROVE TypeOK'
  BY <1>9, EndTypes, ReleaseTypes DEF Refuse, TypeOK
<1>10. ASSUME NEW w \in Workers, Crash(w) PROVE TypeOK'
  <2>1. crashes' \in 0 .. MaxCrashes
    BY <1>10, TransfersAssumption DEF Crash, TypeOK
  <2>. QED
    BY <1>10, <2>1, EndTypes, ReleaseTypes DEF Crash, TypeOK
<1>11. ASSUME NEW w \in Workers, LockDocument(w) PROVE TypeOK'
  <2>1. Doc(w) \in Docs
    BY <1>11, Documents DEF LockDocument, RequestInv, WorkerInv, Asks
  <2>. QED
    BY <1>9, <1>11, <2>1 DEF LockDocument, TypeOK
<1>12. ASSUME NEW w \in Workers, LockTransfer(w) PROVE TypeOK'
  BY <1>12 DEF LockTransfer, TypeOK
<1>13. ASSUME NEW w \in Workers, Decide(w) PROVE TypeOK'
  <2>1. \A r \in Receipts : Findings(r) \in {"unfixed", "clean", "findings"}
    BY DEF Findings, Inspect, TypeOK
  <2>2. CASE ~Refused(w)
    <3>1. PICK j \in {"unfixed", "clean", "findings"} : judged' = [judged EXCEPT ![w] = j]
      BY <1>13, <2>1, <2>2 DEF Decide
    <3>. QED
      BY <1>13, <2>2, <3>1 DEF Decide, TypeOK
  <2>. QED
    BY <1>9, <1>13, <2>2 DEF Decide
<1>14. ASSUME NEW w \in Workers, Write(w) PROVE TypeOK'
  <2>. DEFINE d == Doc(w)
  <2>1. CASE Refuse(w)
    BY <1>9, <2>1
  <2>2. /\ pc[w] = "write" /\ Asks(w) /\ DecisionHolds(w) /\ d \in Docs
        /\ req[w] \in Requests
    BY <1>14, Documents DEF Write, RequestInv, WorkerInv, Asks, TypeOK
  <2>3. /\ req[w].by \in People \cup {Nobody} /\ req[w].day \in Days /\ req[w].revision \in Nat
        /\ req[w].line \in Lines \cup {NoLine} /\ req[w].take \in Quantities \cup {0}
    BY <2>2 DEF Requests
  <2>4. NextRevision(d) => revision' \in [Docs -> Nat]
    BY <2>2 DEF NextRevision, TypeOK
  <2>. DEFINE StatusOK == /\ status' \in [Docs -> ReceiptStatuses \cup {"cancelled"}]
                          /\ \A t \in Transfers : status'[t] \in {"none", "draft", "posted", "cancelled"}
                          /\ \A r \in Receipts : status'[r] \in ReceiptStatuses
              EndOK == /\ pc' \in [Workers -> {"idle", "lock", "row", "decide", "write"}]
                       /\ req' \in [Workers -> Requests]
                       /\ judged' \in [Workers -> {"unfixed", "clean", "findings"}]
              ReleaseOK == /\ docLock' \in [Docs -> Workers \cup {NoWorker}]
                           /\ rowLock' \in [Transfers -> Workers \cup {NoWorker}]
  <2>5. /\ Idle(w) => EndOK
        /\ Release(w) => ReleaseOK
    BY EndTypes, ReleaseTypes
  <2>6. ASSUME NEW to \in {"draft", "posted"}, status' = [status EXCEPT ![d] = to] PROVE StatusOK
    BY <2>2, <2>6, StatusTypes DEF ReceiptStatuses
  <2>7. CASE RaiseReceipt(w) /\ UNCHANGED <<masterData, crashes>>
    <3>1. d \in Receipts /\ Transfer(w) \in Transfers
      BY <2>2, <2>7 DEF RaiseReceipt, Asks
    <3>2. /\ req[w].line.accepted + req[w].line.returned <= req[w].line.received
      BY <2>2, <2>3, <2>7, LineTypes DEF RaiseReceipt, DecisionHolds, ValidLine
    <3>3. /\ lines' \in [Receipts -> Lines \cup {NoLine}]
          /\ \A q \in Receipts : lines'[q].accepted + lines'[q].returned <= lines'[q].received
      BY <2>3, <2>7, <3>1, <3>2 DEF RaiseReceipt, TypeOK
    <3>4. of' \in [Receipts -> Transfers \cup {NoTransfer}] /\ date' \in [Docs -> Days]
          /\ creator' \in [Docs -> People \cup {Nobody}]
      BY <2>2, <2>3, <2>7, <3>1 DEF RaiseReceipt, TypeOK
    <3>5. StatusOK /\ EndOK /\ ReleaseOK
      BY <2>5, <2>6, <2>7 DEF RaiseReceipt
    <3>. QED
      BY <2>4, <2>7, <3>3, <3>4, <3>5 DEF RaiseReceipt, TypeOK
  <2>8. CASE Dispatch(w) /\ UNCHANGED <<masterData, crashes>>
    <3>1. d \in Transfers
      BY <2>2, <2>8 DEF Dispatch, Asks
    <3>2. /\ cargo' \in [Transfers -> Quantities \cup {0}] /\ entries' \in [Docs -> [Places -> Int]]
      BY <2>2, <2>3, <2>8, <3>1, PickedTypes DEF Dispatch, TypeOK
    <3>3. StatusOK /\ EndOK /\ ReleaseOK
      BY <2>5, <2>6, <2>8 DEF Dispatch
    <3>. QED
      BY <2>4, <2>8, <3>2, <3>3 DEF Dispatch, TypeOK
  <2>9. CASE Reverse(w) /\ UNCHANGED <<masterData, crashes>>
    <3>1. d \in Transfers
      BY <2>2, <2>9 DEF Reverse, Asks
    <3>2. ReversalMovements(entries[d]) \in [Places -> Int]
      BY <2>2 DEF ReversalMovements, TypeOK
    <3>3. undo' \in [Transfers -> [Places -> Int]] /\ undoDate' \in [Transfers -> Days \cup {0}]
      BY <2>3, <2>9, <3>1, <3>2 DEF Reverse, TypeOK
    <3>4. EndOK /\ ReleaseOK
      BY <2>5, <2>9 DEF Reverse
    <3>. QED
      BY <2>9, <3>3, <3>4 DEF Reverse, TypeOK
  <2>10. CASE Submit(w) /\ UNCHANGED <<masterData, crashes>>
    <3>1. d \in Receipts /\ judged[w] \in {"unfixed", "clean", "findings"} /\ ReleaseOK
      BY <2>2, <2>5, <2>10 DEF Submit, Asks, TypeOK
    <3>2. CASE NeedsApproval(d, judged[w])
      <4>1. /\ found' = [found EXCEPT ![d] = judged[w]]
            /\ status' = [status EXCEPT ![d] = "submitted"] /\ NextRevision(d)
            /\ submitter' = [submitter EXCEPT ![d] = req[w].by] /\ EndOK
            /\ UNCHANGED <<date, creator, cargo, entries, undo, undoDate, receipt, of, lines, approver>>
        BY <2>5, <2>10, <3>2 DEF Submit
      <4>2. StatusOK
        BY <2>2, <3>1, <4>1, StatusTypes, Documents DEF ReceiptStatuses
      <4>3. /\ found' \in [Receipts -> {"unfixed", "clean", "findings"}]
            /\ submitter' \in [Receipts -> People \cup {Nobody}]
        BY <2>3, <3>1, <4>1 DEF TypeOK
      <4>. QED
        BY <2>4, <2>10, <3>1, <4>1, <4>2, <4>3 DEF TypeOK
    <3>3. CASE ~NeedsApproval(d, judged[w])
      <4>1. [req[w] EXCEPT !.kind = "clean"] \in Requests
        BY <2>2 DEF Requests, Kinds
      <4>2. /\ req' = [req EXCEPT ![w] = [req[w] EXCEPT !.kind = "clean"]]
            /\ pc' = [pc EXCEPT ![w] = "lock"]
            /\ judged' = [judged EXCEPT ![w] = "unfixed"]
            /\ UNCHANGED <<found, status, revision, submitter, date, creator, cargo, entries, undo,
                           undoDate, receipt, of, lines, approver>>
        BY <2>10, <3>3 DEF Submit
      <4>. QED
        BY <2>10, <3>1, <4>1, <4>2 DEF TypeOK
    <3>. QED
      BY <3>2, <3>3
  <2>11. CASE Approve(w) /\ UNCHANGED <<masterData, crashes>>
    <3>1. d \in Receipts /\ ReleaseOK
      BY <2>2, <2>5, <2>11 DEF Approve, Asks
    <3>2. StatusOK
      <4>1. status' = [status EXCEPT ![d] = "approved"] /\ d \notin Transfers
        BY <2>2, <2>11, <3>1, Documents DEF Approve
      <4>. QED
        BY <2>2, <4>1, StatusTypes DEF ReceiptStatuses
    <3>3. [req[w] EXCEPT !.kind = "post", !.revision = req[w].revision + 1] \in Requests
      <4>1. "post" \in Kinds /\ req[w].revision + 1 \in Nat
        BY <2>3 DEF Kinds
      <4>. QED
        BY <2>2, <4>1 DEF Requests
    <3>4. req' = [req EXCEPT ![w] = [req[w] EXCEPT !.kind = "post", !.revision = req[w].revision + 1]]
      <4>1. req' = [req EXCEPT ![w].kind = "post", ![w].revision = @ + 1]
        BY <2>11 DEF Approve
      <4>2. req \in [Workers -> Requests] /\ req[w].kind \in Kinds
        BY <2>2 DEF TypeOK, Requests
      <4>. QED
        BY <4>1, <4>2 DEF Requests
    <3>5. /\ EndOK /\ approver' \in [Receipts -> People \cup {Nobody}]
      BY <2>3, <2>11, <3>1, <3>3, <3>4 DEF Approve, TypeOK
    <3>. QED
      BY <2>4, <2>11, <3>1, <3>2, <3>5 DEF Approve, TypeOK
  <2>12. CASE PostReceipt(w) /\ UNCHANGED <<masterData, crashes>>
    <3>1. d \in Receipts /\ Transfer(w) \in Transfers
      BY <2>2, <2>12 DEF PostReceipt, Receives, Asks
    <3>2. StatusOK /\ EndOK /\ ReleaseOK
      BY <2>5, <2>6, <2>12 DEF PostReceipt
    <3>3. receipt' \in [Transfers -> Receipts \cup {NoReceipt}]
      BY <2>12, <3>1 DEF PostReceipt, MarkReceived, TypeOK
    <3>4. entries' \in [Docs -> [Places -> Int]]
      BY <2>2, <2>12, <3>1, ReceivedTypes DEF PostReceipt, TypeOK
    <3>5. /\ found' \in [Receipts -> {"unfixed", "clean", "findings"}]
          /\ submitter' \in [Receipts -> People \cup {Nobody}]
      BY <2>3, <2>12, <3>1 DEF PostReceipt, TypeOK
    <3>. QED
      BY <2>4, <2>12, <3>2, <3>3, <3>4, <3>5 DEF PostReceipt, TypeOK
  <2>. QED
    BY <1>14, <2>1, <2>7, <2>8, <2>9, <2>10, <2>11, <2>12 DEF Write
<1>. QED
  BY <1>1, <1>2, <1>3, <1>4, <1>5, <1>6, <1>7, <1>8, <1>10, <1>11, <1>12, <1>13, <1>14
  DEF Next, Step

------------------------------------------------------------------------------
(* Requests under way *)

\* A document is left as it was.
Same(d) ==
  /\ status'[d] = status[d] /\ revision'[d] = revision[d]
  /\ date'[d] = date[d] /\ creator'[d] = creator[d]
  /\ d \in Receipts => /\ of'[d] = of[d] /\ lines'[d] = lines[d] /\ found'[d] = found[d]
                       /\ submitter'[d] = submitter[d]

\* A document has moved on: what was on a page is of an older revision now.
Later(d) ==
  /\ Exists(d) /\ status'[d] # "none" /\ revision'[d] = revision[d] + 1
  /\ d \in Receipts => of'[d] = of[d]

\* What a request holds is left to it.
KeepsLocks(v) ==
  /\ \A d \in Docs : docLock[d] = v => docLock'[d] = v
  /\ \A t \in Transfers : docLock[t] = v => undoDate'[t] = undoDate[t]
  /\ \A t \in Transfers :
       pc[v] \in {"decide", "write"} /\ LocksTransfer(v) /\ Transfer(v) = t /\ rowLock[t] = v =>
         /\ rowLock'[t] = v
         /\ cargo'[t] = cargo[t] /\ undoDate'[t] = undoDate[t] /\ receipt'[t] = receipt[t]

PostedStaysSo ==
  \A t \in Transfers :
    status[t] = "posted" => status'[t] = "posted" /\ date'[t] = date[t]

\* A step that writes one document, and not one another request holds, leaves
\* that request what it relies on.
LEMMA WritesElsewhere ==
  ASSUME TypeOK, RequestInv, ReceiptInv, NEW v \in Workers, NEW d \in Docs,
         pc'[v] = pc[v], req'[v] = req[v], judged'[v] = judged[v],
         \A e \in Docs \ {d} : Same(e),
         pc[v] # "idle" /\ Doc(v) = d => Same(d) \/ (Later(d) /\ docLock[d] # v),
         KeepsLocks(v), PostedStaysSo
  PROVE  WorkerInv(v)'
<1>. DEFINE e == Doc(v)
            t == Transfer(v)
<1>1. WorkerInv(v)
  BY DEF RequestInv
<1>2. e' = e /\ t' = t /\ Kind(v)' = Kind(v)
  BY DEF Doc, Transfer, Kind
<1>3. pc[v] # "idle" => Asks(v) /\ e \in Docs /\ t \in Transfers /\ (e \in Transfers => e = t)
  BY <1>1, Documents DEF WorkerInv, Asks
<1>4. ASSUME pc[v] # "idle" PROVE Same(e) \/ (Later(e) /\ docLock[e] # v)
  BY <1>3, <1>4
<1>5. ASSUME pc[v] # "idle" PROVE Asks(v)'
  <2>1. /\ Asks(v) /\ e \in Docs /\ revision[e] \in Nat /\ req[v].revision \in Nat
    BY <1>3, <1>5 DEF TypeOK, Requests
  <2>2. Kind(v) \in {"submit", "clean", "approve", "post"} => e \in Receipts
    BY <2>1 DEF Asks
  <2>3. CASE Same(e)
    BY <1>2, <2>1, <2>2, <2>3 DEF Asks, Same, Exists
  <2>4. CASE Later(e)
    BY <1>2, <2>1, <2>2, <2>4 DEF Asks, Later, Exists
  <2>. QED
    BY <1>4, <1>5, <2>3, <2>4
<1>6. ASSUME pc[v] \in {"row", "decide", "write"}, Kind(v) # "raise" PROVE HoldsDocument(v)'
  <2>1. HoldsDocument(v) /\ Asks(v) /\ e \in Docs
    BY <1>1, <1>3, <1>6 DEF WorkerInv
  <2>2. Same(e)
    BY <1>4, <1>6, <2>1 DEF HoldsDocument
  <2>3. docLock'[e] = v /\ (e \in Transfers => undoDate'[e] = undoDate[e])
    BY <2>1 DEF KeepsLocks, HoldsDocument
  <2>4. Kind(v) = "reverse" => e \in Transfers
    BY <2>1 DEF Asks
  <2>. QED
    BY <1>2, <2>1, <2>2, <2>3, <2>4 DEF HoldsDocument, Same, Reversed, From
<1>7. ASSUME pc[v] \in {"decide", "write"}, LocksTransfer(v)
      PROVE  /\ rowLock[t] = v /\ rowLock'[t] = v
             /\ cargo'[t] = cargo[t] /\ undoDate'[t] = undoDate[t] /\ receipt'[t] = receipt[t]
  BY <1>1, <1>3, <1>7 DEF WorkerInv, KeepsLocks
<1>8. ASSUME pc[v] = "write" PROVE DecisionHolds(v)'
  <2>1. DecisionHolds(v) /\ Asks(v) /\ e \in Docs /\ t \in Transfers
    BY <1>1, <1>3, <1>8 DEF WorkerInv
  <2>2. Same(e)
    <3>1. CASE Kind(v) = "raise"
      BY <1>4, <1>8, <2>1, <3>1 DEF Asks, Later
    <3>2. CASE Kind(v) # "raise"
      BY <1>1, <1>4, <1>8, <3>2 DEF WorkerInv, HoldsDocument
    <3>. QED
      BY <3>1, <3>2
  <2>3. CASE Kind(v) = "raise"
    BY <1>2, <2>1, <2>3 DEF DecisionHolds, PostedStaysSo, ValidLine, Receives
  <2>4. CASE Kind(v) \in {"dispatch", "reverse"}
    <3>1. e = t /\ e \in Transfers /\ e \notin Receipts
      BY <2>1, <2>4, Documents DEF Asks
    <3>2. Kind(v) = "reverse" => receipt'[t] = receipt[t]
      BY <1>7, <1>8 DEF LocksTransfer
    <3>. QED
      BY <1>2, <2>1, <2>4, <3>1, <3>2 DEF DecisionHolds, Receives
  <2>5. CASE Kind(v) \in {"submit", "approve"}
    <3>1. e \in Receipts
      BY <2>1, <2>5 DEF Asks
    <3>. QED
      BY <1>2, <2>1, <2>2, <2>5, <3>1 DEF DecisionHolds, Receives, OwnReceipt, Same
  <2>6. CASE Kind(v) \in {"clean", "post"}
    <3>1. e \in Receipts /\ of[e] = t
      BY <2>1, <2>6 DEF Asks
    <3>2. /\ cargo'[t] = cargo[t] /\ undoDate'[t] = undoDate[t] /\ receipt'[t] = receipt[t]
      BY <1>7, <1>8, <2>6 DEF LocksTransfer
    <3>3. status[t] = "posted" /\ status'[t] = "posted" /\ date'[t] = date[t]
      <4>1. TransferStatus(t) = "dispatched"
        BY <2>1, <2>6, <3>1 DEF DecisionHolds, Receives
      <4>2. status[t] \in {"none", "draft", "posted", "cancelled"}
        BY <2>1 DEF TypeOK
      <4>. QED
        BY <2>1, <4>1, <4>2 DEF TransferStatus, PostedStaysSo
    <3>4. of'[e] = t /\ lines'[e] = lines[e] /\ found'[e] = found[e] /\ date'[e] = date[e]
      BY <2>2, <3>1 DEF Same
    <3>5. TransferStatus(of[e])' = "dispatched"
      BY <1>2, <2>1, <2>6, <3>1, <3>2, <3>3, <3>4
      DEF DecisionHolds, Receives, TransferStatus, Reversed
    <3>6. date'[e] >= date'[of'[e]] /\ DifferenceResolved(e)'
      <4>1. date[e] >= date[of[e]] /\ DifferenceResolved(e)
        BY <2>1, <2>6 DEF DecisionHolds, Receives
      <4>2. date'[e] >= date'[of'[e]]
        BY <3>1, <3>3, <3>4, <4>1
      <4>3. DifferenceResolved(e)'
        BY <1>2, <3>1, <3>2, <3>4, <4>1 DEF DifferenceResolved
      <4>. QED
        BY <4>2, <4>3
    <3>. QED
      BY <1>2, <2>1, <2>6, <3>1, <3>4, <3>5, <3>6, <1>2 DEF DecisionHolds, Receives
  <2>. QED
    BY <2>1, <2>3, <2>4, <2>5, <2>6 DEF Asks, TypeOK, Requests, Kinds, Kind
<1>9. (LocksTransfer(v) <=> LocksTransfer(v)')
  BY <1>2 DEF LocksTransfer
<1>. QED
  BY <1>2, <1>5, <1>6, <1>7, <1>8, <1>9 DEF WorkerInv

\* A step that writes no document leaves every other request what it relies on.
LEMMA WritesNothing ==
  ASSUME TypeOK, RequestInv, ReceiptInv, NEW v \in Workers,
         pc'[v] = pc[v], req'[v] = req[v], judged'[v] = judged[v],
         \A e \in Docs : Same(e), KeepsLocks(v), PostedStaysSo
  PROVE  WorkerInv(v)'
<1>1. CASE pc[v] = "idle"
  BY <1>1 DEF WorkerInv
<1>2. CASE pc[v] # "idle"
  <2>1. Doc(v) \in Docs
    BY <1>2, Documents DEF RequestInv, WorkerInv, Asks
  <2>. QED
    BY <2>1, WritesElsewhere
<1>. QED
  BY <1>1, <1>2

\* Neither does one that writes a document nobody has locked.
LEMMA WritesUnlocked ==
  ASSUME TypeOK, RequestInv, ReceiptInv, NEW v \in Workers, NEW d \in Docs,
         UNCHANGED <<locals, locks, cargo, undoDate, receipt>>,
         \A e \in Docs \ {d} : Same(e), Unlocked(d),
         Later(d) \/ (d \in Transfers /\ ~Exists(d)), PostedStaysSo
  PROVE  WorkerInv(v)'
<1>1. pc'[v] = pc[v] /\ req'[v] = req[v] /\ judged'[v] = judged[v]
  BY DEF locals
<1>2. KeepsLocks(v)
  BY DEF KeepsLocks, locks
<1>3. ASSUME pc[v] # "idle", Doc(v) = d PROVE Later(d) /\ docLock[d] # v
  <2>1. d \in Receipts \/ Exists(d)
    BY <1>3, Documents DEF RequestInv, WorkerInv, Asks
  <2>. QED
    BY <2>1, Documents DEF Unlocked
<1>. QED
  BY <1>1, <1>2, <1>3, WritesElsewhere

\* Ending a request takes no lock from another one.
LEMMA ReleaseKeeps ==
  ASSUME TypeOK, NEW w \in Workers, NEW v \in Workers \ {w}, Release(w) \/ UNCHANGED locks
  PROVE  /\ \A d \in Docs : docLock[d] = v => docLock'[d] = v
         /\ \A t \in Transfers : rowLock[t] = v => rowLock'[t] = v
BY DEF Release, locks

LEMMA OthersWait ==
  ASSUME TypeOK, NEW w \in Workers, NEW v \in Workers \ {w},
         Idle(w) \/ \E at, ask, j : /\ pc' = [pc EXCEPT ![w] = at] /\ req' = [req EXCEPT ![w] = ask]
                                    /\ judged' = [judged EXCEPT ![w] = j]
  PROVE  pc'[v] = pc[v] /\ req'[v] = req[v] /\ judged'[v] = judged[v]
BY DEF Idle, TypeOK

LEMMA EndedHolds == ASSUME TypeOK, NEW w \in Workers, Idle(w) PROVE WorkerInv(w)'
<1>1. pc'[w] = "idle"
  BY DEF Idle, TypeOK
<1>. QED
  BY <1>1 DEF WorkerInv

LEMMA RaisesStayApart ==
  ASSUME TypeOK, RaisesApart, NEW w \in Workers,
         \A v \in Workers \ {w} : req'[v] = req[v],
         Kind(w)' = "raise" =>
           \/ Kind(w) = "raise" /\ Doc(w)' = Doc(w)
           \/ \A v \in Workers : Doc(v) # Doc(w)'
  PROVE  RaisesApart'
<1>. SUFFICES ASSUME NEW u \in Workers, NEW v \in Workers, u # v,
                     Kind(u)' = "raise", Kind(v)' = "raise"
              PROVE  Doc(u)' # Doc(v)'
  BY DEF RaisesApart
<1>1. \A x \in Workers \ {w} : Kind(x)' = Kind(x) /\ Doc(x)' = Doc(x)
  BY DEF Kind, Doc
<1>2. CASE u # w /\ v # w
  BY <1>1, <1>2 DEF RaisesApart
<1>3. CASE u = w
  BY <1>1, <1>3 DEF RaisesApart
<1>4. CASE v = w
  BY <1>1, <1>4 DEF RaisesApart
<1>. QED
  BY <1>2, <1>3, <1>4

\* A refusal and a death leave the other requests as they were.
LEMMA EndsQuietly ==
  ASSUME TypeOK, RequestInv, ReceiptInv, NEW w \in Workers, Idle(w), Release(w),
         UNCHANGED <<documents, receiving>>
  PROVE  RequestInv'
<1>. USE DEF documents, receiving
<1>1. ASSUME NEW v \in Workers \ {w} PROVE WorkerInv(v)'
  <2>1. pc'[v] = pc[v] /\ req'[v] = req[v] /\ judged'[v] = judged[v]
    BY OthersWait
  <2>2. KeepsLocks(v)
    BY ReleaseKeeps DEF KeepsLocks
  <2>. QED
    BY <2>1, <2>2, WritesNothing DEF Same, PostedStaysSo
<1>2. WorkerInv(w)'
  BY EndedHolds
<1>3. RaisesApart'
  <2>1. Kind(w)' = "none"
    BY DEF Idle, TypeOK, Kind, NoRequest
  <2>2. \A v \in Workers \ {w} : req'[v] = req[v]
    BY OthersWait
  <2>. QED
    BY <2>1, <2>2, RaisesStayApart DEF RequestInv
<1>. QED
  BY <1>1, <1>2, <1>3 DEF RequestInv

\* A document written by nobody's request.
LEMMA UnlockedStep ==
  ASSUME TypeOK, RequestInv, ReceiptInv, NEW d \in Docs,
         UNCHANGED <<locals, locks, cargo, undoDate, receipt>>,
         \A e \in Docs \ {d} : Same(e), Unlocked(d),
         Later(d) \/ (d \in Transfers /\ ~Exists(d)), PostedStaysSo
  PROVE  RequestInv'
<1>1. \A v \in Workers : WorkerInv(v)'
  BY WritesUnlocked
<1>2. RaisesApart'
  BY DEF RequestInv, RaisesApart, locals, Kind, Doc
<1>. QED
  BY <1>1, <1>2 DEF RequestInv

\* Requests as they are asked, and as they lock and decide.
LEMMA RequestBegins ==
  ASSUME TypeOK, RequestInv, ReceiptInv, NEW w \in Workers, NEW p \in People, Ask(w, p)
  PROVE  RequestInv'
<1>. USE DEF documents, receiving, locks
<1>1. PICK at \in {"lock", "decide"}, ask \in Requests : Asked(w, p, at, ask)
  BY AskAsks
<1>2. pc' = [pc EXCEPT ![w] = at] /\ req' = [req EXCEPT ![w] = ask] /\ judged' = judged
  BY <1>1 DEF Asked, Begin
<1>3. ASSUME NEW v \in Workers \ {w} PROVE WorkerInv(v)'
  <2>1. pc'[v] = pc[v] /\ req'[v] = req[v] /\ judged'[v] = judged[v]
    BY <1>2 DEF TypeOK
  <2>. QED
    BY <1>1, <2>1, WritesNothing DEF Asked, Begin, Same, PostedStaysSo, KeepsLocks
<1>4. req'[w] = ask /\ pc'[w] = at
  BY <1>2 DEF TypeOK
<1>5. WorkerInv(w)'
  <2>1. Kind(w)' = ask.kind /\ Doc(w)' = ask.doc /\ Transfer(w)' = ask.transfer
    BY <1>4 DEF Kind, Doc, Transfer
  <2>2. ask.doc \in Docs
    BY <1>1, Documents DEF Asked
  <2>3. revision'[ask.doc] = revision[ask.doc] /\ revision[ask.doc] \in Nat
    BY <1>1, <2>2 DEF Asked, Begin, TypeOK
  <2>4. Asks(w)'
    BY <1>1, <1>4, <2>1, <2>2, <2>3 DEF Asks, Asked, Begin, Exists
  <2>5. pc'[w] # "write" /\ (pc'[w] = "decide" => Kind(w)' = "raise") /\ pc'[w] # "row"
    BY <1>1, <1>4, <2>1 DEF Asked
  <2>. QED
    BY <2>4, <2>5 DEF WorkerInv, LocksTransfer
<1>6. RaisesApart'
  <2>1. Kind(w)' = "raise" => \A v \in Workers : Doc(v) # Doc(w)'
    BY <1>1, <1>4 DEF Asked, Kind, Doc
  <2>2. \A v \in Workers \ {w} : req'[v] = req[v]
    BY <1>2 DEF TypeOK
  <2>. QED
    BY <2>1, <2>2, RaisesStayApart DEF RequestInv
<1>. QED
  BY <1>3, <1>5, <1>6 DEF RequestInv

LEMMA RequestLocks ==
  ASSUME TypeOK, RequestInv, ReceiptInv, NEW w \in Workers, LockDocument(w) \/ LockTransfer(w)
  PROVE  RequestInv'
<1>. USE DEF documents, receiving
<1>. DEFINE d == Doc(w)
<1>1. CASE Refuse(w)
  BY <1>1, EndsQuietly DEF Refuse
<1>2. CASE ~Refuse(w)
  <2>1. /\ pc[w] # "idle" /\ Asks(w) /\ d \in Docs /\ WorkerInv(w)
    BY Documents DEF RequestInv, WorkerInv, Asks, LockDocument, LockTransfer
  <2>2. UNCHANGED <<documents, receiving, req, judged>> /\ PostedStaysSo /\ \A e \in Docs : Same(e)
    BY <1>2 DEF LockDocument, LockTransfer, PostedStaysSo, Same
  <2>3. /\ \A v \in Workers \ {w} : pc'[v] = pc[v]
        /\ \A e \in Docs, v \in Workers : docLock[e] = v => docLock'[e] = v
        /\ \A t \in Transfers, v \in Workers : rowLock[t] = v => rowLock'[t] = v
    BY <1>2, <2>1, Documents DEF LockDocument, LockTransfer, TypeOK, Unlocked
  <2>4. \A v \in Workers : KeepsLocks(v)
    BY <2>2, <2>3 DEF KeepsLocks
  <2>5. \A v \in Workers \ {w} : WorkerInv(v)'
    BY <2>2, <2>3, <2>4, WritesNothing
  <2>6. Kind(w)' = Kind(w) /\ Doc(w)' = d /\ Transfer(w)' = Transfer(w) /\ req' = req
    BY <2>2 DEF Kind, Doc, Transfer
  <2>7. Asks(w)'
    <3>1. Kind(w) # "raise"
      BY <2>1 DEF Asks, LockDocument, LockTransfer
    <3>. QED
      BY <2>1, <2>2, <2>6, <3>1 DEF Asks, Exists
  <2>8. ASSUME LockDocument(w) PROVE WorkerInv(w)'
    <3>1. /\ docLock'[d] = w /\ MayStart(w)
          /\ pc'[w] = IF LocksTransfer(w) THEN "row" ELSE "decide"
      BY <1>2, <2>1, <2>8 DEF LockDocument, TypeOK
    <3>2. HoldsDocument(w)'
      BY <2>2, <2>6, <3>1 DEF HoldsDocument, MayStart, Reversed
    <3>. QED
      BY <2>6, <2>7, <3>1, <3>2 DEF WorkerInv, LocksTransfer
  <2>9. ASSUME LockTransfer(w) PROVE WorkerInv(w)'
    <3>1. rowLock'[Transfer(w)] = w /\ pc'[w] = "decide" /\ pc[w] = "row"
      BY <2>1, <2>9 DEF LockTransfer, TypeOK, Asks
    <3>2. Kind(w) # "raise" => HoldsDocument(w)
      BY <2>1, <3>1 DEF WorkerInv
    <3>3. Kind(w) # "raise" => HoldsDocument(w)'
      BY <2>1, <2>2, <2>3, <2>6, <3>2 DEF HoldsDocument, Reversed
    <3>. QED
      BY <2>6, <2>7, <3>1, <3>3 DEF WorkerInv
  <2>10. WorkerInv(w)'
    BY <2>8, <2>9
  <2>11. RaisesApart'
    BY <2>6 DEF RequestInv, RaisesApart, Kind, Doc
  <2>. QED
    BY <2>5, <2>10, <2>11 DEF RequestInv
<1>. QED
  BY <1>1, <1>2

LEMMA RequestDecides ==
  ASSUME TypeOK, RequestInv, ReceiptInv, NEW w \in Workers, Decide(w)
  PROVE  RequestInv'
<1>. USE DEF documents, receiving
<1>. DEFINE d == Doc(w)
            t == Transfer(w)
<1>1. CASE Refused(w)
  BY <1>1, EndsQuietly DEF Decide, Refuse
<1>2. CASE ~Refused(w)
  <2>1. /\ Asks(w) /\ d \in Docs /\ t \in Transfers /\ WorkerInv(w) /\ pc[w] = "decide"
        /\ Kind(w) \in Kinds /\ Kind(w) # "none"
    BY Documents DEF RequestInv, WorkerInv, Asks, Decide, TypeOK, Requests, Kind
  <2>2. /\ UNCHANGED <<documents, receiving, locks, req>> /\ PostedStaysSo /\ \A e \in Docs : Same(e)
        /\ pc' = [pc EXCEPT ![w] = "write"]
    BY <1>2 DEF Decide, PostedStaysSo, Same, locks
  <2>3. \A v \in Workers \ {w} : pc'[v] = pc[v] /\ judged'[v] = judged[v]
    BY <1>2, <2>2 DEF Decide, TypeOK
  <2>4. \A v \in Workers : KeepsLocks(v)
    BY <2>2 DEF KeepsLocks, locks
  <2>5. \A v \in Workers \ {w} : WorkerInv(v)'
    BY <2>2, <2>3, <2>4, WritesNothing
  <2>6. Kind(w)' = Kind(w) /\ Doc(w)' = d /\ Transfer(w)' = t /\ req' = req /\ pc'[w] = "write"
    BY <2>2 DEF Kind, Doc, Transfer, TypeOK
  <2>7. Asks(w)'
    BY <2>1, <2>2, <2>6 DEF Asks, Exists
  <2>8. Kind(w) # "raise" => HoldsDocument(w)'
    BY <2>1, <2>2, <2>6 DEF WorkerInv, HoldsDocument, Reversed, From, locks
  <2>9. LocksTransfer(w) => rowLock'[t] = w
    BY <2>1, <2>2 DEF WorkerInv, locks
  <2>10. judged'[w] = IF d \in Receipts /\ Exists(d) THEN Findings(d) ELSE "unfixed"
    BY <1>2 DEF Decide, TypeOK
  <2>11. d \in Receipts /\ Kind(w) # "raise" =>
           /\ judged'[w] = Findings(d)
           /\ judged'[w] # "unfixed" /\ (found[d] # "unfixed" => judged'[w] = found[d])
    BY <2>1, <2>10 DEF Asks, Findings, Inspect
  <2>12. /\ Kind(w) = "raise" => status[t] = "posted" /\ ValidLine(req[w].line)
         /\ Kind(w) = "approve" => ~OwnReceipt(w)
    <3>1. status[t] \in {"none", "draft", "posted", "cancelled"}
      BY <2>1 DEF TypeOK
    <3>. QED
      BY <1>2, <3>1 DEF Refused, TransferStatus
  <2>13. Kind(w) = "reverse" => receipt[d] = NoReceipt
    <3>1. ASSUME Kind(w) = "reverse" PROVE status[d] = "posted" /\ ~Reversed(d) /\ TransferStatus(d) # "received"
      BY <1>2, <2>1, <3>1 DEF Refused, WorkerInv, HoldsDocument, From
    <3>. QED
      BY <3>1 DEF TransferStatus
  <2>14. ASSUME Receives(w)
         PROVE  /\ d \in Receipts /\ of[d] = t
                /\ TransferStatus(of[d]) = "dispatched" /\ date[d] >= date[of[d]]
                /\ DifferenceResolved(d)
                /\ Kind(w) = "clean" => judged'[w] # "findings" /\ lines[d].writtenOff = 0
    <3>1. d \in Receipts /\ of[d] = t
      BY <2>1, <2>14 DEF Asks, Receives
    <3>2. /\ ~ReceiptRefusal(d, Findings(d))
          /\ Kind(w) = "clean" => ~NeedsApproval(d, Findings(d))
      BY <1>2, <2>14 DEF Refused, Receives
    <3>3. date[d] \in Nat /\ date[t] \in Nat /\ lines[d].writtenOff \in Nat
      <4>1. lines[d] \in Lines \cup {NoLine} /\ date[d] \in Days /\ date[t] \in Days
        BY <2>1, <3>1, Documents DEF TypeOK
      <4>. QED
        BY <4>1, LineTypes, TransfersAssumption DEF Days
    <3>4. date[d] >= date[t] /\ TransferStatus(t) = "dispatched" /\ DifferenceResolved(d)
      BY <3>1, <3>2, <3>3 DEF ReceiptRefusal
    <3>5. Kind(w) = "clean" => judged'[w] # "findings" /\ lines[d].writtenOff = 0
      BY <2>11, <2>14, <3>1, <3>2, <3>3 DEF NeedsApproval
    <3>. QED
      BY <3>1, <3>4, <3>5
  <2>15. DecisionHolds(w)'
    <3>1. /\ \A r \in Receipts : DifferenceResolved(r)' <=> DifferenceResolved(r)
          /\ \A u \in Transfers : TransferStatus(u)' = TransferStatus(u)
          /\ OwnReceipt(w)' <=> OwnReceipt(w)
          /\ Receives(w)' <=> Receives(w)
      BY <2>2, <2>6 DEF DifferenceResolved, TransferStatus, Reversed, OwnReceipt, Receives
    <3>2. /\ Kind(w) = "raise" => status'[t] = "posted" /\ ValidLine(req'[w].line)
          /\ Kind(w) = "reverse" => receipt'[d] = NoReceipt
          /\ Kind(w) = "approve" => ~OwnReceipt(w)'
      BY <2>2, <2>12, <2>13, <3>1
    <3>3. Receives(w) => /\ TransferStatus(of[d])' = "dispatched" /\ date'[d] >= date'[of'[d]]
                         /\ DifferenceResolved(d)'
      BY <2>1, <2>2, <2>6, <2>14, <3>1
    <3>4. /\ Kind(w) = "clean" => judged'[w] # "findings" /\ lines'[d].writtenOff = 0
          /\ d \in Receipts /\ Kind(w) # "raise" =>
               judged'[w] # "unfixed" /\ (found'[d] # "unfixed" => judged'[w] = found'[d])
      BY <2>2, <2>11, <2>14 DEF Receives
    <3>. QED
      BY <2>6, <3>1, <3>2, <3>3, <3>4 DEF DecisionHolds, ValidLine
  <2>16. WorkerInv(w)'
    BY <2>6, <2>7, <2>8, <2>9, <2>15 DEF WorkerInv, LocksTransfer
  <2>17. RaisesApart'
    BY <2>6 DEF RequestInv, RaisesApart, Kind, Doc
  <2>. QED
    BY <2>5, <2>16, <2>17 DEF RequestInv
<1>. QED
  BY <1>1, <1>2

\* What every write goes by.
LEMMA BeforeWrite ==
  ASSUME TypeOK, RequestInv, NEW w \in Workers, pc[w] = "write"
  PROVE  /\ Asks(w) /\ DecisionHolds(w) /\ (Kind(w) # "raise" => HoldsDocument(w))
         /\ LocksTransfer(w) => rowLock[Transfer(w)] = w
         /\ Doc(w) \in Docs /\ Transfer(w) \in Transfers
         /\ req[w] \in Requests /\ revision[Doc(w)] \in Nat
         /\ req[w].by \in People /\ req[w].day \in Days /\ req[w].revision \in Nat
         /\ req[w].line \in Lines \cup {NoLine} /\ req[w].take \in Quantities \cup {0}
<1>1. /\ Asks(w) /\ DecisionHolds(w) /\ (Kind(w) # "raise" => HoldsDocument(w))
      /\ LocksTransfer(w) => rowLock[Transfer(w)] = w
      /\ Doc(w) \in Docs /\ Transfer(w) \in Transfers /\ req[w].by \in People
  BY Documents DEF RequestInv, WorkerInv, Asks
<1>2. req[w] \in Requests /\ revision[Doc(w)] \in Nat
  BY <1>1 DEF TypeOK
<1>. QED
  BY <1>1, <1>2 DEF Requests

\* A write ends its request, or hands it on to the posting that follows.
Goes(w) ==
  \/ Idle(w)
  \/ /\ Kind(w) = "submit" /\ req' = [req EXCEPT ![w] = [req[w] EXCEPT !.kind = "clean"]]
     /\ pc' = [pc EXCEPT ![w] = "lock"] /\ judged' = [judged EXCEPT ![w] = "unfixed"]
     /\ \A e \in Docs : Same(e)
  \/ /\ Kind(w) = "approve"
     /\ req' = [req EXCEPT ![w] = [req[w] EXCEPT !.kind = "post", !.revision = req[w].revision + 1]]
     /\ pc' = [pc EXCEPT ![w] = "lock"] /\ judged' = [judged EXCEPT ![w] = "unfixed"]
     /\ Later(Doc(w))

LEMMA GoesOn ==
  ASSUME TypeOK, RequestInv, NEW w \in Workers, pc[w] = "write", Goes(w)
  PROVE  /\ \A v \in Workers \ {w} : pc'[v] = pc[v] /\ req'[v] = req[v] /\ judged'[v] = judged[v]
         /\ WorkerInv(w)' /\ RaisesApart'
<1>. DEFINE d == Doc(w)
<1>1. \A v \in Workers \ {w} : pc'[v] = pc[v] /\ req'[v] = req[v] /\ judged'[v] = judged[v]
  BY OthersWait DEF Goes
<1>2. ASSUME Kind(w)' # "raise" PROVE RaisesApart'
  BY <1>1, <1>2, RaisesStayApart DEF RequestInv
<1>3. CASE Idle(w)
  <2>1. Kind(w)' = "none"
    BY <1>3 DEF Idle, TypeOK, Kind, NoRequest
  <2>. QED
    BY <1>1, <1>2, <1>3, <2>1, EndedHolds
<1>4. ASSUME NEW next \in Requests, req' = [req EXCEPT ![w] = next], pc' = [pc EXCEPT ![w] = "lock"],
             next.by = req[w].by, next.transfer = Transfer(w), next.doc = d,
             Kind(w) \in {"submit", "approve"}, next.kind \in {"clean", "post"},
             next.revision <= revision'[d], status'[d] # "none", of'[d] = of[d]
      PROVE  /\ WorkerInv(w)' /\ RaisesApart'
  <2>1. req'[w] = next /\ pc'[w] = "lock"
    BY <1>4 DEF TypeOK
  <2>2. Kind(w)' = next.kind /\ Doc(w)' = d /\ Transfer(w)' = Transfer(w)
    BY <1>4, <2>1 DEF Kind, Doc, Transfer
  <2>3. d \in Receipts /\ Transfer(w) = of[d] /\ Transfer(w) \in Transfers /\ req[w].by \in People
    BY <1>4, BeforeWrite DEF Asks
  <2>4. Asks(w)'
    BY <1>4, <2>1, <2>2, <2>3 DEF Asks, Exists
  <2>. QED
    BY <1>2, <1>4, <2>1, <2>2, <2>4 DEF WorkerInv
<1>5. CASE ~Idle(w) /\ Kind(w) = "submit"
  <2>. DEFINE next == [req[w] EXCEPT !.kind = "clean"]
  <2>1. req[w] \in Requests /\ d \in Receipts /\ Exists(d) /\ req[w].revision <= revision[d]
    BY <1>5, BeforeWrite DEF Asks
  <2>2. /\ next \in Requests /\ next.by = req[w].by /\ next.transfer = Transfer(w) /\ next.doc = d
        /\ next.kind = "clean" /\ next.revision = req[w].revision
    BY <2>1 DEF Requests, Kinds, Transfer, Doc
  <2>3. Same(d)
    BY <1>5, <2>1, Documents DEF Goes
  <2>4. next.revision <= revision'[d] /\ status'[d] # "none" /\ of'[d] = of[d]
    <3>1. revision'[d] = revision[d] /\ status'[d] # "none" /\ of'[d] = of[d]
      BY <2>1, <2>3 DEF Same, Exists
    <3>. HIDE DEF next
    <3>. QED
      BY <2>1, <2>2, <3>1
  <2>5. req' = [req EXCEPT ![w] = next] /\ pc' = [pc EXCEPT ![w] = "lock"]
    BY <1>5 DEF Goes
  <2>. HIDE DEF next
  <2>. QED
    BY <1>1, <1>4, <1>5, <2>2, <2>4, <2>5
<1>6. CASE ~Idle(w) /\ Kind(w) = "approve"
  <2>. DEFINE next == [req[w] EXCEPT !.kind = "post", !.revision = req[w].revision + 1]
  <2>1. /\ req[w] \in Requests /\ d \in Receipts /\ req[w].revision <= revision[d]
        /\ req[w].revision \in Nat /\ revision[d] \in Nat /\ req[w].revision + 1 \in Nat
    BY <1>6, BeforeWrite DEF Asks
  <2>2. /\ next.by = req[w].by /\ next.transfer = Transfer(w) /\ next.doc = d
        /\ next.kind = "post" /\ next.revision = req[w].revision + 1
    BY <2>1 DEF Requests, Transfer, Doc
  <2>3. next \in Requests
    <3>1. "post" \in Kinds
      BY DEF Kinds
    <3>. QED
      BY <2>1, <3>1 DEF Requests
  <2>4. Later(d)
    BY <1>6 DEF Goes
  <2>5. next.revision <= revision'[d] /\ status'[d] # "none" /\ of'[d] = of[d]
    BY <2>1, <2>2, <2>4 DEF Later
  <2>6. req' = [req EXCEPT ![w] = next] /\ pc' = [pc EXCEPT ![w] = "lock"]
    BY <1>6 DEF Goes
  <2>. HIDE DEF next
  <2>. QED
    BY <1>1, <1>4, <1>6, <2>2, <2>3, <2>5, <2>6
<1>. QED
  BY <1>1, <1>3, <1>5, <1>6 DEF Goes

\* What a write may do to the documents and locks other requests rely on.
WritesOne(w) ==
  /\ \A e \in Docs \ {Doc(w)} : Same(e)
  /\ Same(Doc(w)) \/ Kind(w) = "raise" \/ (Later(Doc(w)) /\ Kind(w) # "raise")
  /\ PostedStaysSo
  /\ \A t \in Transfers :
       /\ cargo'[t] = cargo[t] \/ (Kind(w) = "dispatch" /\ t = Doc(w))
       /\ undoDate'[t] = undoDate[t] \/ (Kind(w) = "reverse" /\ t = Doc(w))
       /\ receipt'[t] = receipt[t] \/ (Receives(w) /\ t = Transfer(w))

LEMMA WriteLeavesOthers ==
  ASSUME TypeOK, RequestInv, ReceiptInv, NEW w \in Workers, pc[w] = "write",
         Goes(w), Release(w), WritesOne(w)
  PROVE  RequestInv'
<1>. DEFINE d == Doc(w)
<1>1. /\ \A v \in Workers \ {w} : pc'[v] = pc[v] /\ req'[v] = req[v] /\ judged'[v] = judged[v]
      /\ WorkerInv(w)' /\ RaisesApart'
  BY GoesOn
<1>2. /\ Asks(w) /\ d \in Docs /\ Transfer(w) \in Transfers
      /\ Kind(w) # "raise" => HoldsDocument(w)
      /\ LocksTransfer(w) => rowLock[Transfer(w)] = w
  BY BeforeWrite
<1>3. ASSUME NEW v \in Workers \ {w} PROVE WorkerInv(v)'
  <2>1. WorkerInv(v)
    BY DEF RequestInv
  <2>2. /\ \A e \in Docs : docLock[e] = v => docLock'[e] = v
        /\ \A t \in Transfers : rowLock[t] = v => rowLock'[t] = v
    BY ReleaseKeeps
  <2>3. KeepsLocks(v)
    <3>1. ASSUME NEW t \in Transfers, docLock[t] = v PROVE undoDate'[t] = undoDate[t]
      BY <1>2, <3>1 DEF WritesOne, HoldsDocument
    <3>2. ASSUME NEW t \in Transfers, pc[v] \in {"decide", "write"}, LocksTransfer(v),
                 Transfer(v) = t, rowLock[t] = v
          PROVE  cargo'[t] = cargo[t] /\ undoDate'[t] = undoDate[t] /\ receipt'[t] = receipt[t]
      <4>1. Transfer(w) = t => ~LocksTransfer(w)
        BY <1>2, <3>2
      <4>2. undoDate'[t] = undoDate[t] /\ receipt'[t] = receipt[t]
        BY <1>2, <4>1 DEF WritesOne, LocksTransfer, Receives, Asks
      <4>3. ASSUME Kind(w) = "dispatch", t = d PROVE FALSE
        <5>1. status[t] = "draft" /\ docLock[t] = w
          BY <1>2, <4>3 DEF HoldsDocument, From
        <5>2. Asks(v) /\ HoldsDocument(v)
          BY <2>1, <3>2 DEF WorkerInv, LocksTransfer
        <5>3. CASE Kind(v) = "reverse"
          BY <3>2, <5>1, <5>2, <5>3 DEF Asks, HoldsDocument
        <5>4. CASE Kind(v) \in {"clean", "post"}
          BY <3>2, <5>1, <5>2, <5>4 DEF Asks, ReceiptInv, ReceiptStands
        <5>. QED
          BY <3>2, <5>3, <5>4 DEF LocksTransfer
      <4>. QED
        BY <4>2, <4>3 DEF WritesOne
    <3>. QED
      BY <2>2, <3>1, <3>2 DEF KeepsLocks
  <2>4. ASSUME pc[v] # "idle", Doc(v) = d PROVE Same(d) \/ (Later(d) /\ docLock[d] # v)
    <3>1. CASE Kind(w) = "raise"
      <4>1. Kind(v) = "raise"
        BY <1>2, <2>1, <2>4, <3>1 DEF WorkerInv, Asks
      <4>. QED
        BY <2>4, <3>1, <4>1 DEF RequestInv, RaisesApart
    <3>2. CASE Kind(w) # "raise"
      BY <1>2, <3>2 DEF WritesOne, HoldsDocument
    <3>. QED
      BY <3>1, <3>2
  <2>. QED
    BY <1>1, <1>2, <2>3, <2>4, WritesElsewhere DEF WritesOne
<1>. QED
  BY <1>1, <1>3 DEF RequestInv

LEMMA RequestWrites ==
  ASSUME TypeOK, RequestInv, ReceiptInv, NEW w \in Workers, Write(w)
  PROVE  RequestInv'
<1>. USE DEF documents, receiving
<1>. DEFINE d == Doc(w)
            t == Transfer(w)
<1>1. /\ Asks(w) /\ d \in Docs /\ t \in Transfers /\ req[w] \in Requests
      /\ Kind(w) # "raise" => HoldsDocument(w)
      /\ DecisionHolds(w) /\ revision[d] \in Nat /\ pc[w] = "write"
  BY BeforeWrite DEF Write
<1>2. ASSUME Goes(w), Release(w), WritesOne(w) PROVE RequestInv'
  BY <1>1, <1>2, WriteLeavesOthers
<1>3. CASE Refuse(w)
  BY <1>3, EndsQuietly DEF Refuse
<1>4. CASE RaiseReceipt(w)
  <2>1. d \in Receipts /\ status[d] = "none"
    BY <1>1, <1>4 DEF RaiseReceipt, Asks, Exists
  <2>2. \A e \in Docs \ {d} : Same(e)
    BY <1>1, <1>4, <2>1 DEF RaiseReceipt, NextRevision, Same, TypeOK
  <2>3. PostedStaysSo
    BY <1>1, <2>1, <2>2, Documents DEF Same, PostedStaysSo
  <2>. QED
    BY <1>2, <1>4, <2>2, <2>3 DEF RaiseReceipt, WritesOne, Goes
<1>5. CASE Dispatch(w)
  <2>1. d \in Transfers /\ status[d] = "draft" /\ d \notin Receipts
    BY <1>1, <1>5, Documents DEF Dispatch, Asks, HoldsDocument, From
  <2>2. (\A e \in Docs \ {d} : Same(e)) /\ Later(d)
    BY <1>1, <1>5, <2>1 DEF Dispatch, NextRevision, Same, Later, TypeOK, Exists
  <2>3. PostedStaysSo
    BY <2>1, <2>2, Documents DEF Same, PostedStaysSo
  <2>4. \A u \in Transfers \ {d} : cargo'[u] = cargo[u]
    BY <1>5 DEF Dispatch, TypeOK
  <2>. QED
    BY <1>2, <1>5, <2>2, <2>3, <2>4 DEF Dispatch, WritesOne, Goes
<1>6. CASE Reverse(w)
  <2>1. d \in Transfers /\ \A e \in Docs : Same(e)
    BY <1>1, <1>6 DEF Reverse, Asks, Same
  <2>2. \A u \in Transfers \ {d} : undoDate'[u] = undoDate[u]
    BY <1>6 DEF Reverse, TypeOK
  <2>. QED
    BY <1>1, <1>2, <1>6, <2>1, <2>2 DEF Reverse, WritesOne, Goes, PostedStaysSo
<1>7. CASE Submit(w)
  <2>1. d \in Receipts /\ status[d] = "draft" /\ d \notin Transfers
    BY <1>1, <1>7, Documents DEF Submit, Asks, HoldsDocument, From
  <2>2. CASE NeedsApproval(d, judged[w])
    <3>1. /\ found' = [found EXCEPT ![d] = judged[w]]
          /\ status' = [status EXCEPT ![d] = "submitted"] /\ NextRevision(d)
          /\ submitter' = [submitter EXCEPT ![d] = req[w].by] /\ Idle(w) /\ Release(w)
          /\ UNCHANGED <<date, creator, cargo, entries, undo, undoDate, receipt, of, lines, approver>>
      BY <1>7, <2>2 DEF Submit
    <3>2. (\A e \in Docs \ {d} : Same(e)) /\ Later(d)
      BY <1>1, <2>1, <3>1 DEF NextRevision, Same, Later, TypeOK, Exists
    <3>3. PostedStaysSo
      BY <2>1, <3>2, Documents DEF Same, PostedStaysSo
    <3>. QED
      BY <1>2, <1>7, <3>1, <3>2, <3>3 DEF Submit, WritesOne, Goes
  <2>3. CASE ~NeedsApproval(d, judged[w])
    <3>1. /\ req' = [req EXCEPT ![w] = [req[w] EXCEPT !.kind = "clean"]]
          /\ pc' = [pc EXCEPT ![w] = "lock"]
          /\ judged' = [judged EXCEPT ![w] = "unfixed"] /\ Release(w)
          /\ UNCHANGED <<found, status, revision, submitter, date, creator, cargo, entries, undo,
                         undoDate, receipt, of, lines, approver>>
      BY <1>7, <2>3 DEF Submit
    <3>2. (\A e \in Docs : Same(e)) /\ PostedStaysSo
      BY <3>1 DEF Same, PostedStaysSo
    <3>3. Goes(w)
      BY <1>7, <3>1, <3>2 DEF Submit, Goes
    <3>. QED
      BY <1>1, <1>2, <3>1, <3>2, <3>3 DEF WritesOne
  <2>. QED
    BY <2>2, <2>3
<1>8. CASE Approve(w)
  <2>1. d \in Receipts /\ status[d] = "submitted" /\ d \notin Transfers /\ Kind(w) = "approve"
    BY <1>1, <1>8, Documents DEF Approve, Asks, HoldsDocument, From
  <2>2. (\A e \in Docs \ {d} : Same(e)) /\ Later(d)
    BY <1>1, <1>8, <2>1 DEF Approve, NextRevision, Same, Later, TypeOK, Exists
  <2>3. PostedStaysSo
    BY <2>1, <2>2, Documents DEF Same, PostedStaysSo
  <2>4. req' = [req EXCEPT ![w] = [req[w] EXCEPT !.kind = "post", !.revision = req[w].revision + 1]]
    <3>1. req' = [req EXCEPT ![w].kind = "post", ![w].revision = @ + 1]
      BY <1>8 DEF Approve
    <3>2. req \in [Workers -> Requests] /\ req[w].kind \in Kinds
      BY DEF TypeOK, Requests
    <3>. QED
      BY <3>1, <3>2 DEF Requests
  <2>5. Goes(w)
    BY <1>8, <2>1, <2>2, <2>4 DEF Approve, Goes
  <2>. QED
    BY <1>2, <1>8, <2>1, <2>2, <2>3, <2>5 DEF Approve, WritesOne
<1>9. CASE PostReceipt(w)
  <2>1. /\ d \in Receipts /\ status[d] \in {"draft", "approved"} /\ d \notin Transfers
        /\ Receives(w) /\ Kind(w) # "raise"
    BY <1>1, <1>9, Documents DEF PostReceipt, Receives, Asks, HoldsDocument, From
  <2>2. \A e \in Docs \ {d} : Same(e)
    BY <1>1, <1>9, <2>1 DEF PostReceipt, NextRevision, Same, TypeOK
  <2>3. Later(d)
    BY <1>1, <1>9, <2>1 DEF PostReceipt, NextRevision, Later, TypeOK, Exists
  <2>4. PostedStaysSo
    BY <2>1, <2>2, Documents DEF Same, PostedStaysSo
  <2>5. \A u \in Transfers \ {t} : receipt'[u] = receipt[u]
    BY <1>9 DEF PostReceipt, MarkReceived, TypeOK
  <2>. QED
    BY <1>2, <1>9, <2>1, <2>2, <2>3, <2>4, <2>5 DEF PostReceipt, WritesOne, Goes
<1>. QED
  BY <1>3, <1>4, <1>5, <1>6, <1>7, <1>8, <1>9 DEF Write

LEMMA RequestStep == TypeOK /\ RequestInv /\ ReceiptInv /\ [Next]_vars => RequestInv'
<1>. SUFFICES ASSUME TypeOK, RequestInv, ReceiptInv, [Next]_vars PROVE RequestInv'
  OBVIOUS
<1>. USE DEF documents, receiving
<1>1. ASSUME UNCHANGED <<documents, receiving, locks, locals>> PROVE RequestInv'
  <2>1. ASSUME NEW v \in Workers PROVE WorkerInv(v)'
    <3>1. pc'[v] = pc[v] /\ req'[v] = req[v] /\ judged'[v] = judged[v]
      BY <1>1 DEF locals
    <3>. QED
      BY <1>1, <3>1, WritesNothing DEF Same, KeepsLocks, PostedStaysSo, locks
  <2>2. RaisesApart'
    BY <1>1 DEF RequestInv, RaisesApart, locals, Kind, Doc
  <2>. QED
    BY <2>1, <2>2 DEF RequestInv
<1>2. CASE UNCHANGED vars
  BY <1>1, <1>2 DEF vars
<1>3. CASE ChangeMasterData
  BY <1>1, <1>3 DEF ChangeMasterData
<1>4. ASSUME NEW t \in Transfers, NEW day \in Days, UpdateTransfer(t, day) PROVE RequestInv'
  <2>1. t \in Docs /\ t \notin Receipts /\ Unlocked(t)
    BY <1>4, Documents DEF UpdateTransfer
  <2>2. Later(t) /\ \A e \in Docs \ {t} : Same(e)
    BY <1>4, <2>1 DEF UpdateTransfer, NextRevision, Later, Same, Exists, TypeOK
  <2>3. PostedStaysSo
    BY <1>4, Documents DEF UpdateTransfer, PostedStaysSo, TypeOK
  <2>. QED
    BY <1>4, <2>1, <2>2, <2>3, UnlockedStep DEF UpdateTransfer
<1>5. ASSUME NEW t \in Transfers, NEW day \in Days, NEW p \in People, CreateTransfer(t, p, day)
      PROVE  RequestInv'
  <2>1. t \in Docs /\ t \notin Receipts /\ ~Exists(t)
    BY <1>5, Documents DEF CreateTransfer, Exists
  <2>2. \A e \in Docs \ {t} : Same(e)
    BY <1>5, <2>1 DEF CreateTransfer, NextRevision, Same, TypeOK
  <2>3. PostedStaysSo
    BY <2>1, <2>2, Documents DEF Same, Exists, PostedStaysSo
  <2>4. ASSUME NEW v \in Workers PROVE WorkerInv(v)'
    <3>1. pc'[v] = pc[v] /\ req'[v] = req[v] /\ judged'[v] = judged[v]
      BY <1>5 DEF CreateTransfer, locals
    <3>2. KeepsLocks(v)
      BY <1>5 DEF CreateTransfer, KeepsLocks, locks
    <3>3. ~(pc[v] # "idle" /\ Doc(v) = t)
      BY <2>1, Documents DEF RequestInv, WorkerInv, Asks
    <3>. QED
      BY <2>1, <2>2, <2>3, <3>1, <3>2, <3>3, WritesElsewhere
  <2>5. RaisesApart'
    BY <1>5 DEF CreateTransfer, RequestInv, RaisesApart, locals, Kind, Doc
  <2>. QED
    BY <2>4, <2>5 DEF RequestInv
<1>6. ASSUME NEW t \in Transfers, CancelTransfer(t) PROVE RequestInv'
  <2>1. t \in Docs /\ t \notin Receipts /\ Unlocked(t) /\ status[t] = "draft"
    BY <1>6, Documents DEF CancelTransfer
  <2>2. Later(t) /\ \A e \in Docs \ {t} : Same(e)
    BY <1>6, <2>1 DEF CancelTransfer, NextRevision, Later, Same, Exists, TypeOK
  <2>3. PostedStaysSo
    BY <2>1, <2>2, Documents DEF Same, PostedStaysSo
  <2>. QED
    BY <1>6, <2>1, <2>2, <2>3, UnlockedStep DEF CancelTransfer
<1>7. ASSUME NEW r \in Receipts, RejectReceipt(r) PROVE RequestInv'
  <2>1. r \in Docs /\ r \notin Transfers /\ Unlocked(r) /\ status[r] # "none"
    BY <1>7, Documents DEF RejectReceipt, MayBeRejected
  <2>2. Later(r) /\ \A e \in Docs \ {r} : Same(e)
    BY <1>7, <2>1 DEF RejectReceipt, NextRevision, Later, Same, Exists, TypeOK
  <2>3. PostedStaysSo
    BY <2>1, <2>2, Documents DEF Same, PostedStaysSo
  <2>. QED
    BY <1>7, <2>1, <2>2, <2>3, UnlockedStep DEF RejectReceipt
<1>8. ASSUME NEW r \in Receipts, NEW l \in Lines, NEW day \in Days, UpdateReceipt(r, l, day)
      PROVE  RequestInv'
  <2>1. r \in Docs /\ r \notin Transfers /\ Unlocked(r) /\ status[r] # "none"
    BY <1>8, Documents DEF UpdateReceipt
  <2>2. Later(r) /\ \A e \in Docs \ {r} : Same(e)
    BY <1>8, <2>1 DEF UpdateReceipt, NextRevision, Later, Same, Exists, TypeOK
  <2>3. PostedStaysSo
    BY <2>1, <2>2, Documents DEF Same, PostedStaysSo
  <2>. QED
    BY <1>8, <2>1, <2>2, <2>3, UnlockedStep DEF UpdateReceipt
<1>9. ASSUME NEW w \in Workers, Crash(w) PROVE RequestInv'
  BY <1>9, EndsQuietly DEF Crash
<1>. QED
  BY <1>2, <1>3, <1>4, <1>5, <1>6, <1>7, <1>8, <1>9,
     RequestBegins, RequestLocks, RequestDecides, RequestWrites
  DEF Next, Step

------------------------------------------------------------------------------
(* What the ledger has of transfers and receipts *)

LEMMA TransferKeeps ==
  ASSUME TransferInv, NEW t \in Transfers,
         status'[t] = status[t], date'[t] = date[t], cargo'[t] = cargo[t],
         entries'[t] = entries[t], undo'[t] = undo[t], undoDate'[t] = undoDate[t],
         receipt'[t] = receipt[t],
         receipt[t] # NoReceipt => status'[receipt[t]] = "posted" /\ of'[receipt[t]] = of[receipt[t]]
  PROVE  TransferStands(t)'
<1>1. TransferStands(t)
  BY DEF TransferInv
<1>. QED
  BY <1>1 DEF TransferStands, Reversed

LEMMA ReceiptKeeps ==
  ASSUME ReceiptInv, PostedStaysSo, NEW r \in Receipts, Same(r),
         entries'[r] = entries[r], approver'[r] = approver[r],
         \A t \in Transfers : status[t] = "posted" => cargo'[t] = cargo[t],
         status[r] = "posted" => receipt'[of[r]] = receipt[of[r]]
  PROVE  ReceiptStands(r)'
<1>1. ReceiptStands(r)
  BY DEF ReceiptInv
<1>2. Exists(r) => /\ of[r] \in Transfers /\ status[of[r]] = "posted" /\ status'[of[r]] = "posted"
                   /\ date'[of[r]] = date[of[r]] /\ cargo'[of[r]] = cargo[of[r]]
  BY <1>1 DEF ReceiptStands, PostedStaysSo
<1>3. /\ status'[r] = status[r] /\ of'[r] = of[r] /\ lines'[r] = lines[r] /\ found'[r] = found[r]
      /\ date'[r] = date[r]
  BY DEF Same
<1>4. (Independent(r)' <=> Independent(r)) /\ Received(r)' = Received(r)
  BY <1>3 DEF Same, Independent, Received
<1>5. Exists(r) => (DifferenceResolved(r)' <=> DifferenceResolved(r))
  BY <1>2, <1>3 DEF DifferenceResolved
<1>. QED
  BY <1>1, <1>2, <1>3, <1>4, <1>5 DEF ReceiptStands, Exists

LEMMA BooksUntouched ==
  TransferInv /\ ReceiptInv /\ UNCHANGED <<documents, receiving>> => TransferInv' /\ ReceiptInv'
<1>. SUFFICES ASSUME TransferInv, ReceiptInv, UNCHANGED <<documents, receiving>>
              PROVE  TransferInv' /\ ReceiptInv'
  OBVIOUS
<1>1. ASSUME NEW t \in Transfers PROVE TransferStands(t)'
  <2>1. receipt[t] # NoReceipt => status[receipt[t]] = "posted"
    BY DEF TransferInv, TransferStands
  <2>. QED
    BY <2>1, TransferKeeps DEF documents, receiving
<1>2. ASSUME NEW r \in Receipts PROVE ReceiptStands(r)'
  BY ReceiptKeeps DEF documents, receiving, Same, PostedStaysSo
<1>. QED
  BY <1>1, <1>2 DEF TransferInv, ReceiptInv

\* A transfer is planned: nothing has been received of it yet.
LEMMA PlannedBooks ==
  ASSUME TypeOK, TransferInv, ReceiptInv, NEW t \in Transfers,
         status[t] # "posted", status'[t] \in {"none", "draft", "cancelled"},
         \A d \in Docs \ {t} : Same(d),
         UNCHANGED <<cargo, entries, undo, undoDate, receiving>>
  PROVE  TransferInv' /\ ReceiptInv'
<1>. USE DEF receiving
<1>1. ASSUME NEW u \in Transfers PROVE TransferStands(u)'
  <2>1. TransferStands(u)
    BY DEF TransferInv
  <2>2. receipt[u] # NoReceipt => receipt[u] \in Receipts /\ status'[receipt[u]] = "posted"
    BY <2>1, Documents DEF TransferStands, TypeOK, Same
  <2>3. CASE u = t
    BY <2>1, <2>2, <2>3 DEF TransferStands, Reversed
  <2>4. CASE u # t
    <3>1. Same(u)
      BY <2>4, Documents
    <3>. QED
      BY <2>2, <3>1, TransferKeeps DEF Same
  <2>. QED
    BY <2>3, <2>4
<1>2. PostedStaysSo
  BY Documents DEF PostedStaysSo, Same
<1>3. ASSUME NEW r \in Receipts PROVE ReceiptStands(r)'
  <2>1. Same(r) /\ entries'[r] = entries[r]
    BY Documents
  <2>. QED
    BY <1>2, <2>1, ReceiptKeeps
<1>. QED
  BY <1>1, <1>3 DEF TransferInv, ReceiptInv

\* A receipt that has not posted, and does not post now.
LEMMA UnpostedBooks ==
  ASSUME TypeOK, TransferInv, ReceiptInv, NEW r \in Receipts,
         status[r] # "posted", status'[r] # "posted",
         \A d \in Docs \ {r} : Same(d), \A q \in Receipts \ {r} : approver'[q] = approver[q],
         UNCHANGED <<cargo, entries, undo, undoDate, receipt>>,
         of'[r] \in Transfers /\ status[of'[r]] = "posted",
         status'[r] \in {"submitted", "approved"} => found'[r] # "unfixed",
         status'[r] = "approved" => Independent(r)'
  PROVE  TransferInv' /\ ReceiptInv'
<1>1. ASSUME NEW u \in Transfers PROVE TransferStands(u)'
  <2>1. TransferStands(u)
    BY DEF TransferInv
  <2>2. receipt[u] # NoReceipt => receipt[u] \in Receipts \ {r}
    BY <2>1 DEF TransferStands, TypeOK
  <2>3. receipt[u] # NoReceipt => /\ status'[receipt[u]] = "posted"
                                  /\ of'[receipt[u]] = of[receipt[u]]
    BY <2>1, <2>2, Documents DEF TransferStands, Same
  <2>4. Same(u)
    BY Documents
  <2>. QED
    BY <2>3, <2>4, TransferKeeps DEF Same
<1>2. PostedStaysSo
  BY Documents DEF PostedStaysSo, Same
<1>3. ASSUME NEW q \in Receipts \ {r} PROVE ReceiptStands(q)'
  <2>1. Same(q) /\ entries'[q] = entries[q] /\ approver'[q] = approver[q]
    BY Documents
  <2>. QED
    BY <1>2, <2>1, ReceiptKeeps
<1>4. ReceiptStands(r)'
  <2>1. ReceiptStands(r)
    BY DEF ReceiptInv
  <2>2. status'[of'[r]] = "posted"
    BY <1>2 DEF PostedStaysSo
  <2>3. entries'[r] = Nowhere
    BY <2>1 DEF ReceiptStands
  <2>. QED
    BY <2>2, <2>3 DEF ReceiptStands
<1>. QED
  BY <1>1, <1>3, <1>4 DEF TransferInv, ReceiptInv

LEMMA DispatchBooks ==
  ASSUME TypeOK, RequestInv, TransferInv, ReceiptInv, NEW w \in Workers, pc[w] = "write", Dispatch(w)
  PROVE  TransferInv' /\ ReceiptInv'
<1>. USE DEF receiving
<1>. DEFINE t == Doc(w)
<1>1. t \in Transfers /\ status[t] = "draft" /\ req[w].take \in Quantities \cup {0}
  BY BeforeWrite DEF Dispatch, Asks, HoldsDocument, From
<1>2. /\ status'[t] = "posted" /\ cargo'[t] = req[w].take /\ entries'[t] = Picked(req[w].take)
      /\ \A d \in Docs \ {t} : Same(d) /\ entries'[d] = entries[d]
      /\ \A u \in Transfers \ {t} : cargo'[u] = cargo[u]
      /\ UNCHANGED <<date, undo, undoDate, receiving>>
  BY <1>1, Documents DEF Dispatch, NextRevision, Same, TypeOK
<1>3. PostedStaysSo
  BY <1>1, <1>2, Documents DEF PostedStaysSo, Same
<1>4. ASSUME NEW u \in Transfers PROVE TransferStands(u)'
  <2>1. TransferStands(u)
    BY DEF TransferInv
  <2>2. receipt[u] # NoReceipt => receipt[u] \in Receipts /\ status'[receipt[u]] = "posted"
    BY <1>1, <1>2, <2>1, Documents DEF TransferStands, TypeOK, Same
  <2>3. CASE u = t
    BY <1>1, <1>2, <2>1, <2>2, <2>3 DEF TransferStands, Reversed
  <2>4. CASE u # t
    <3>1. Same(u) /\ entries'[u] = entries[u] /\ cargo'[u] = cargo[u]
      BY <1>2, <2>4, Documents
    <3>. QED
      BY <1>2, <2>2, <3>1, TransferKeeps DEF Same
  <2>. QED
    BY <2>3, <2>4
<1>5. ASSUME NEW r \in Receipts PROVE ReceiptStands(r)'
  <2>1. Same(r) /\ entries'[r] = entries[r]
    BY <1>1, <1>2, Documents
  <2>. QED
    BY <1>1, <1>2, <1>3, <2>1, ReceiptKeeps
<1>. QED
  BY <1>4, <1>5 DEF TransferInv, ReceiptInv

LEMMA ReverseBooks ==
  ASSUME TypeOK, RequestInv, TransferInv, ReceiptInv, NEW w \in Workers, pc[w] = "write", Reverse(w)
  PROVE  TransferInv' /\ ReceiptInv'
<1>. USE DEF receiving
<1>. DEFINE t == Doc(w)
<1>1. /\ t \in Transfers /\ status[t] = "posted" /\ ~Reversed(t) /\ receipt[t] = NoReceipt
      /\ req[w].day \in Days /\ req[w].day >= date[t]
  BY BeforeWrite DEF Reverse, Asks, HoldsDocument, From, DecisionHolds
<1>2. /\ undo'[t] = ReversalMovements(entries[t]) /\ undoDate'[t] = req[w].day
      /\ \A u \in Transfers \ {t} : undo'[u] = undo[u] /\ undoDate'[u] = undoDate[u]
      /\ UNCHANGED <<status, revision, date, creator, cargo, entries, receiving>>
  BY <1>1 DEF Reverse, TypeOK
<1>3. undoDate'[t] # 0
  BY <1>1, <1>2, TransfersAssumption DEF Days
<1>4. PostedStaysSo /\ \A d \in Docs : Same(d)
  BY <1>2 DEF PostedStaysSo, Same
<1>5. ASSUME NEW u \in Transfers PROVE TransferStands(u)'
  <2>1. TransferStands(u)
    BY DEF TransferInv
  <2>2. CASE u = t
    BY <1>1, <1>2, <1>3, <2>1, <2>2 DEF TransferStands, Reversed
  <2>3. CASE u # t
    <3>1. receipt[u] # NoReceipt => status[receipt[u]] = "posted"
      BY <2>1 DEF TransferStands
    <3>. QED
      BY <1>2, <2>3, <3>1, TransferKeeps
  <2>. QED
    BY <2>2, <2>3
<1>6. ASSUME NEW r \in Receipts PROVE ReceiptStands(r)'
  BY <1>2, <1>4, Documents, ReceiptKeeps
<1>. QED
  BY <1>5, <1>6 DEF TransferInv, ReceiptInv

LEMMA PostBooks ==
  ASSUME TypeOK, RequestInv, TransferInv, ReceiptInv, NEW w \in Workers, pc[w] = "write", PostReceipt(w)
  PROVE  TransferInv' /\ ReceiptInv'
<1>. DEFINE r == Doc(w)
            t == Transfer(w)
<1>1. /\ r \in Receipts /\ t \in Transfers /\ of[r] = t /\ Exists(r)
      /\ status[r] = From(Kind(w)) /\ Kind(w) \in {"clean", "post"}
      /\ TransferStatus(t) = "dispatched" /\ date[r] >= date[t] /\ DifferenceResolved(r)
      /\ Kind(w) = "clean" => judged[w] # "findings" /\ lines[r].writtenOff = 0
      /\ judged[w] # "unfixed"
  BY BeforeWrite DEF PostReceipt, Asks, HoldsDocument, DecisionHolds, Receives
<1>2. /\ status[r] # "posted" /\ status[t] = "posted" /\ ~Reversed(t) /\ receipt[t] = NoReceipt
      /\ Kind(w) = "post" => status[r] = "approved"
  <2>1. status[t] \in {"none", "draft", "posted", "cancelled"}
    BY <1>1 DEF TypeOK
  <2>. QED
    BY <1>1, <2>1 DEF TransferStatus, From
<1>3. /\ status'[r] = "posted" /\ entries'[r] = Received(r) /\ receipt'[t] = r
      /\ found'[r] = judged[w] /\ (Kind(w) = "post" => submitter'[r] = submitter[r])
      /\ \A d \in Docs \ {r} : Same(d) /\ entries'[d] = entries[d]
      /\ \A u \in Transfers \ {t} : receipt'[u] = receipt[u]
      /\ UNCHANGED <<date, creator, cargo, undo, undoDate, of, lines, approver>>
  BY <1>1, Documents DEF PostReceipt, MarkReceived, NextRevision, Same, TypeOK
<1>4. PostedStaysSo
  BY <1>3, Documents DEF PostedStaysSo, Same
<1>5. ASSUME NEW u \in Transfers PROVE TransferStands(u)'
  <2>1. TransferStands(u)
    BY DEF TransferInv
  <2>2. Same(u) /\ entries'[u] = entries[u]
    BY <1>1, <1>3, Documents
  <2>3. CASE u = t
    BY <1>1, <1>2, <1>3, <2>1, <2>2, <2>3 DEF TransferStands, Reversed, Same
  <2>4. CASE u # t
    <3>1. receipt[u] # NoReceipt => receipt[u] \in Receipts \ {r} /\ status[receipt[u]] = "posted"
      BY <1>2, <2>1 DEF TransferStands, TypeOK
    <3>2. receipt[u] # NoReceipt => /\ status'[receipt[u]] = "posted"
                                    /\ of'[receipt[u]] = of[receipt[u]]
      BY <1>3, <3>1, Documents DEF Same
    <3>. QED
      BY <1>3, <2>2, <2>4, <3>2, TransferKeeps DEF Same
  <2>. QED
    BY <2>3, <2>4
<1>6. ASSUME NEW q \in Receipts \ {r} PROVE ReceiptStands(q)'
  <2>1. Same(q) /\ entries'[q] = entries[q]
    BY <1>3, Documents
  <2>2. ASSUME status[q] = "posted" PROVE of[q] # t /\ of[q] \in Transfers
    BY <1>2, <2>2, Documents DEF ReceiptInv, ReceiptStands, Exists
  <2>. QED
    BY <1>3, <1>4, <2>1, <2>2, ReceiptKeeps
<1>7. ASSUME NEW q \in Receipts, q = r PROVE ReceiptStands(q)'
  <2>1. of'[q] = t /\ status'[t] = "posted" /\ date'[t] = date[t]
    BY <1>1, <1>2, <1>3, <1>4, <1>7 DEF PostedStaysSo
  <2>2. Received(q)' = Received(q) /\ (DifferenceResolved(q)' <=> DifferenceResolved(q))
    BY <1>3 DEF Received, DifferenceResolved
  <2>3. status[q] = "approved" => Independent(q)
    BY DEF ReceiptInv, ReceiptStands
  <2>4. /\ status'[q] = "posted" /\ entries'[q] = Received(q)' /\ receipt'[of'[q]] = q
        /\ DifferenceResolved(q)' /\ date'[q] >= date'[of'[q]] /\ found'[q] # "unfixed"
    BY <1>1, <1>3, <1>7, <2>1, <2>2
  <2>5. found'[q] = "findings" \/ lines'[q].writtenOff > 0 => Independent(q)'
    <3>1. CASE Kind(w) = "clean"
      BY <1>1, <1>3, <1>7, <3>1
    <3>2. CASE Kind(w) = "post"
      BY <1>2, <1>3, <1>7, <2>3, <3>2 DEF Independent
    <3>. QED
      BY <1>1, <3>1, <3>2
  <2>. QED
    BY <1>1, <2>1, <2>4, <2>5 DEF ReceiptStands
<1>. QED
  BY <1>5, <1>6, <1>7 DEF TransferInv, ReceiptInv

LEMMA WriteBooks ==
  ASSUME TypeOK, RequestInv, TransferInv, ReceiptInv, NEW w \in Workers, Write(w)
  PROVE  TransferInv' /\ ReceiptInv'
<1>. DEFINE r == Doc(w)
<1>1. /\ pc[w] = "write" /\ Asks(w) /\ DecisionHolds(w) /\ (Kind(w) # "raise" => HoldsDocument(w))
      /\ r \in Docs /\ Transfer(w) \in Transfers /\ req[w].by \in People
  BY BeforeWrite DEF Write
<1>2. CASE Refuse(w)
  BY <1>2, BooksUntouched DEF Refuse
<1>3. CASE RaiseReceipt(w)
  <2>1. r \in Receipts /\ status[r] = "none" /\ status[Transfer(w)] = "posted"
    BY <1>1, <1>3 DEF RaiseReceipt, Asks, Exists, DecisionHolds
  <2>2. /\ \A d \in Docs \ {r} : Same(d)
        /\ status'[r] = "draft" /\ of'[r] = Transfer(w)
        /\ UNCHANGED <<cargo, entries, undo, undoDate, receipt, approver>>
    BY <1>1, <1>3, <2>1 DEF RaiseReceipt, NextRevision, Same, TypeOK
  <2>. QED
    BY <1>1, <2>1, <2>2, UnpostedBooks
<1>4. CASE Submit(w)
  <2>1. /\ r \in Receipts /\ status[r] = "draft" /\ r \notin Transfers /\ judged[w] # "unfixed"
        /\ of[r] \in Transfers /\ status[of[r]] = "posted"
    BY <1>1, <1>4, Documents
    DEF Submit, Asks, HoldsDocument, From, DecisionHolds, ReceiptInv, ReceiptStands, Exists
  <2>2. CASE NeedsApproval(r, judged[w])
    <3>1. /\ found' = [found EXCEPT ![r] = judged[w]]
          /\ status' = [status EXCEPT ![r] = "submitted"] /\ NextRevision(r)
          /\ submitter' = [submitter EXCEPT ![r] = req[w].by]
          /\ UNCHANGED <<date, creator, cargo, entries, undo, undoDate, receipt, of, lines, approver>>
      BY <1>4, <2>2 DEF Submit
    <3>2. /\ \A d \in Docs \ {r} : Same(d)
          /\ status'[r] = "submitted" /\ of'[r] = of[r] /\ found'[r] # "unfixed"
      BY <1>1, <2>1, <3>1 DEF NextRevision, Same, TypeOK
    <3>. QED
      BY <2>1, <3>1, <3>2, UnpostedBooks
  <2>3. CASE ~NeedsApproval(r, judged[w])
    BY <1>4, <2>3, BooksUntouched DEF Submit, documents, receiving
  <2>. QED
    BY <2>2, <2>3
<1>5. CASE Approve(w)
  <2>1. /\ r \in Receipts /\ status[r] = "submitted" /\ r \notin Transfers
        /\ of[r] \in Transfers /\ status[of[r]] = "posted" /\ found[r] # "unfixed"
        /\ ~OwnReceipt(w)
    BY <1>1, <1>5, Documents
    DEF Approve, Asks, HoldsDocument, From, DecisionHolds, ReceiptInv, ReceiptStands, Exists
  <2>2. /\ \A d \in Docs \ {r} : Same(d)
        /\ \A q \in Receipts \ {r} : approver'[q] = approver[q]
        /\ status'[r] = "approved" /\ of'[r] = of[r] /\ found'[r] = found[r]
        /\ approver'[r] = req[w].by /\ creator'[r] = creator[r] /\ submitter'[r] = submitter[r]
        /\ UNCHANGED <<cargo, entries, undo, undoDate, receipt>>
    BY <1>1, <1>5, <2>1 DEF Approve, NextRevision, Same, TypeOK
  <2>3. approver'[r] \notin {Nobody, creator'[r], submitter'[r]}
    BY <1>1, <2>1, <2>2, Documents DEF OwnReceipt
  <2>4. \A q \in Receipts : q = r => Independent(q)'
    BY <2>3 DEF Independent
  <2>5. PICK q \in Receipts : q = r
    BY <2>1
  <2>. QED
    BY <2>1, <2>2, <2>4, <2>5, UnpostedBooks
<1>. QED
  BY <1>1, <1>2, <1>3, <1>4, <1>5, DispatchBooks, ReverseBooks, PostBooks DEF Write

LEMMA BooksStep ==
  TypeOK /\ RequestInv /\ TransferInv /\ ReceiptInv /\ [Next]_vars => TransferInv' /\ ReceiptInv'
<1>. SUFFICES ASSUME TypeOK, RequestInv, TransferInv, ReceiptInv, [Next]_vars
              PROVE  TransferInv' /\ ReceiptInv'
  OBVIOUS
<1>1. CASE UNCHANGED vars
  BY <1>1, BooksUntouched DEF vars
<1>2. CASE ChangeMasterData
  BY <1>2, BooksUntouched DEF ChangeMasterData
<1>3. ASSUME NEW t \in Transfers, NEW day \in Days, UpdateTransfer(t, day)
      PROVE  TransferInv' /\ ReceiptInv'
  <2>1. /\ status[t] # "posted" /\ status'[t] = "draft" /\ \A d \in Docs \ {t} : Same(d)
        /\ UNCHANGED <<cargo, entries, undo, undoDate, receiving>>
    BY <1>3, Documents DEF UpdateTransfer, NextRevision, Same, TypeOK, receiving
  <2>. QED
    BY <2>1, PlannedBooks
<1>4. ASSUME NEW t \in Transfers, NEW day \in Days, NEW p \in People, CreateTransfer(t, p, day)
      PROVE  TransferInv' /\ ReceiptInv'
  <2>1. /\ status[t] # "posted" /\ status'[t] = "draft" /\ \A d \in Docs \ {t} : Same(d)
        /\ UNCHANGED <<cargo, entries, undo, undoDate, receiving>>
    BY <1>4, Documents DEF CreateTransfer, NextRevision, Same, TypeOK, receiving
  <2>. QED
    BY <2>1, PlannedBooks
<1>5. ASSUME NEW t \in Transfers, CancelTransfer(t) PROVE TransferInv' /\ ReceiptInv'
  <2>1. /\ status[t] # "posted" /\ status'[t] = "cancelled" /\ \A d \in Docs \ {t} : Same(d)
        /\ UNCHANGED <<cargo, entries, undo, undoDate, receiving>>
    BY <1>5, Documents DEF CancelTransfer, NextRevision, Same, TypeOK, receiving
  <2>. QED
    BY <2>1, PlannedBooks
<1>6. ASSUME NEW r \in Receipts, RejectReceipt(r) PROVE TransferInv' /\ ReceiptInv'
  <2>1. /\ status[r] # "posted" /\ of[r] \in Transfers /\ status[of[r]] = "posted"
    BY <1>6 DEF RejectReceipt, MayBeRejected, ReceiptInv, ReceiptStands, Exists
  <2>2. /\ status'[r] = "rejected" /\ \A d \in Docs \ {r} : Same(d)
        /\ UNCHANGED <<cargo, entries, undo, undoDate, receipt, of, approver>>
    BY <1>6, Documents DEF RejectReceipt, NextRevision, Same, TypeOK, receiving
  <2>. QED
    BY <2>1, <2>2, UnpostedBooks
<1>7. ASSUME NEW r \in Receipts, NEW l \in Lines, NEW day \in Days, UpdateReceipt(r, l, day)
      PROVE  TransferInv' /\ ReceiptInv'
  <2>1. /\ status[r] = "draft" /\ of[r] \in Transfers /\ status[of[r]] = "posted"
    BY <1>7 DEF UpdateReceipt, ReceiptInv, ReceiptStands, Exists
  <2>2. /\ status'[r] = "draft" /\ \A d \in Docs \ {r} : Same(d)
        /\ UNCHANGED <<cargo, entries, undo, undoDate, receipt, of, approver>>
    BY <1>7, <2>1, Documents DEF UpdateReceipt, NextRevision, Same, TypeOK
  <2>. QED
    BY <2>1, <2>2, UnpostedBooks
<1>8. ASSUME NEW w \in Workers,
             (\E p \in People : Ask(w, p)) \/ Crash(w) \/ LockDocument(w) \/ LockTransfer(w) \/ Decide(w)
      PROVE  TransferInv' /\ ReceiptInv'
  <2>1. UNCHANGED <<documents, receiving>>
    BY <1>8 DEF Ask, Begin, Crash, LockDocument, LockTransfer, Decide, Refuse
  <2>. QED
    BY <2>1, BooksUntouched
<1>. QED
  BY <1>1, <1>2, <1>3, <1>4, <1>5, <1>6, <1>7, <1>8, WriteBooks DEF Next, Step

LEMMA InvInit == Init => Inv
<1>. SUFFICES ASSUME Init PROVE Inv
  OBVIOUS
<1>1. TypeOK
  BY TypeInit
<1>2. RequestInv
  BY DEF Init, RequestInv, RaisesApart, WorkerInv, Kind, NoRequest
<1>3. TransferInv
  BY Documents DEF Init, TransferInv, TransferStands, Reversed
<1>4. ReceiptInv
  BY Documents DEF Init, ReceiptInv, ReceiptStands, Exists
<1>. QED
  BY <1>1, <1>2, <1>3, <1>4 DEF Inv

LEMMA InvStep == Inv /\ [Next]_vars => Inv'
BY TypeStep, RequestStep, BooksStep DEF Inv

LEMMA Invariant == Spec => []Inv
BY InvInit, InvStep, PTL DEF Spec

------------------------------------------------------------------------------
(* Theorems *)

\* Every variable keeps its type, and no receipt stores a line that accepts
\* and returns more than was received (inspection.ts).
THEOREM TypeCorrect == Spec => []TypeOK
BY Invariant, PTL DEF Inv

\* Whatever requests overlap, and wherever one dies, the transfer's receipt is
\* its one posted receipt (TransferReceiptsService.post, lockForReceipt).
THEOREM ReceivedOnce == Spec => []OneReceiptPosts
<1>1. Inv => OneReceiptPosts
  <2>. SUFFICES ASSUME Inv, NEW r \in Receipts
                PROVE  status[r] = "posted" <=> \E t \in Transfers : receipt[t] = r
    BY DEF OneReceiptPosts
  <2>1. status[r] = "posted" => of[r] \in Transfers /\ receipt[of[r]] = r
    BY DEF Inv, ReceiptInv, ReceiptStands, Exists
  <2>2. ASSUME NEW t \in Transfers, receipt[t] = r PROVE status[r] = "posted"
    BY <2>2, Documents DEF Inv, TransferInv, TransferStands
  <2>. QED
    BY <2>1, <2>2
<1>. QED
  BY <1>1, Invariant, PTL

\* A receipt that lost stock or passed over a finding posts only with the
\* approval of someone else, though tolerances are read outside its lock
\* (TransferReceiptsService.submit, approve, post).
THEOREM LossNeedsApproval == Spec => []LossIsApproved
<1>1. Inv => LossIsApproved
  BY DEF Inv, ReceiptInv, ReceiptStands, LossIsApproved, Independent
<1>. QED
  BY <1>1, Invariant, PTL

\* What a step may do to a receipt someone has submitted.
SeenStays(r) ==
  /\ status'[r] = "approved" /\ status[r] # "approved" =>
       \E w \in Workers : Doc(w) = r /\ Kind(w) = "approve" /\ req[w].line = lines[r]
  /\ status[r] \in {"submitted", "approved", "posted"} =>
       /\ lines'[r] = lines[r] /\ found'[r] = found[r] /\ date'[r] = date[r]
       /\ status'[r] \notin {"none", "draft"}

LEMMA SameIsSeen == ASSUME NEW r \in Receipts, Same(r) PROVE SeenStays(r)
BY DEF Same, SeenStays

LEMMA WriteIsSeen ==
  ASSUME Inv, NEW w \in Workers, Write(w), NEW r \in Receipts
  PROVE  SeenStays(r)
<1>. USE DEF documents, receiving
<1>. DEFINE d == Doc(w)
<1>1. /\ pc[w] = "write" /\ Asks(w) /\ DecisionHolds(w) /\ (Kind(w) # "raise" => HoldsDocument(w))
      /\ d \in Docs /\ TypeOK
  BY BeforeWrite DEF Write, Inv
<1>2. r \in Docs /\ r \notin Transfers
  BY Documents
<1>3. CASE Refuse(w)
  BY <1>3, SameIsSeen DEF Refuse, Same
<1>4. CASE RaiseReceipt(w)
  <2>1. status[d] = "none" /\ status'[d] = "draft" /\ (r # d => Same(r))
    BY <1>1, <1>2, <1>4 DEF RaiseReceipt, NextRevision, Asks, Exists, Same, TypeOK
  <2>. QED
    BY <2>1, SameIsSeen DEF SeenStays
<1>5. CASE Dispatch(w)
  <2>1. Same(r)
    BY <1>1, <1>2, <1>5 DEF Dispatch, NextRevision, Asks, Same, TypeOK
  <2>. QED
    BY <2>1, SameIsSeen
<1>6. CASE Reverse(w)
  BY <1>6, SameIsSeen DEF Reverse, Same
<1>7. CASE Submit(w)
  <2>1. status[d] = "draft"
    BY <1>1, <1>7 DEF Submit, HoldsDocument, From
  <2>2. r # d => Same(r)
    BY <1>1, <1>2, <1>7 DEF Submit, NextRevision, Asks, Same, TypeOK
  <2>3. status'[d] \in {"draft", "submitted"}
    BY <1>1, <1>7, <2>1 DEF Submit, TypeOK
  <2>. QED
    BY <2>1, <2>2, <2>3, SameIsSeen DEF SeenStays
<1>8. CASE Approve(w)
  <2>1. /\ Kind(w) = "approve" /\ req[w].line = lines[d] /\ status'[d] = "approved"
        /\ UNCHANGED <<lines, found, date>>
    BY <1>1, <1>8 DEF Approve, Asks, HoldsDocument, TypeOK
  <2>2. r # d => Same(r)
    BY <1>1, <1>2, <1>8 DEF Approve, NextRevision, Asks, Same, TypeOK
  <2>3. r = d => SeenStays(r)
    BY <2>1 DEF SeenStays
  <2>. QED
    BY <2>2, <2>3, SameIsSeen
<1>9. CASE PostReceipt(w)
  <2>1. /\ status'[d] = "posted" /\ found'[d] = judged[w] /\ d \in Receipts
        /\ UNCHANGED <<lines, date>>
    BY <1>1, <1>9 DEF PostReceipt, Receives, Asks, TypeOK
  <2>2. status[d] \in {"draft", "approved"}
    BY <1>1, <1>9 DEF PostReceipt, Receives, HoldsDocument, From
  <2>3. status[d] = "approved" => found'[d] = found[d]
    <3>1. status[d] = "approved" => found[d] # "unfixed"
      BY <2>1 DEF Inv, ReceiptInv, ReceiptStands
    <3>. QED
      BY <1>1, <1>9, <2>1, <3>1 DEF PostReceipt, Receives, DecisionHolds
  <2>4. r # d => Same(r)
    BY <1>1, <1>2, <1>9, <2>1 DEF PostReceipt, NextRevision, Same, TypeOK
  <2>5. r = d => SeenStays(r)
    BY <2>1, <2>2, <2>3 DEF SeenStays
  <2>. QED
    BY <2>4, <2>5, SameIsSeen
<1>. QED
  BY <1>3, <1>4, <1>5, <1>6, <1>7, <1>8, <1>9 DEF Write

\* What the approver saw is what is approved, and what posts: no step of
\* anyone else's comes between (TransferReceiptsService.approve, lockAt).
THEOREM ApprovesWhatWasSeen == Spec => ApprovedAsSeen
<1>1. Inv /\ [Next]_vars => [\A r \in Receipts : SeenStays(r)]_vars
  <2>. SUFFICES ASSUME Inv, Next, NEW r \in Receipts PROVE SeenStays(r)
    OBVIOUS
  <2>. USE DEF documents, receiving
  <2>1. TypeOK /\ r \in Docs /\ r \notin Transfers
    BY Documents DEF Inv
  <2>2. ASSUME \/ ChangeMasterData
               \/ \E w \in Workers : \/ LockDocument(w) \/ LockTransfer(w) \/ Decide(w) \/ Crash(w)
                                     \/ \E p \in People : Ask(w, p)
        PROVE  Same(r)
    <3>1. CASE ChangeMasterData
      BY <3>1 DEF ChangeMasterData, Same
    <3>2. ASSUME NEW w \in Workers,
                 (\E p \in People : Ask(w, p)) \/ Crash(w) \/ LockDocument(w) \/ LockTransfer(w) \/ Decide(w)
          PROVE  UNCHANGED <<documents, receiving>>
      BY <3>2 DEF Ask, Begin, Crash, LockDocument, LockTransfer, Decide, Refuse
    <3>. QED
      BY <2>2, <3>1, <3>2 DEF Same
  <2>3. ASSUME NEW t \in Transfers, NEW day \in Days,
               UpdateTransfer(t, day) \/ CancelTransfer(t) \/ \E p \in People : CreateTransfer(t, p, day)
        PROVE  Same(r)
    BY <2>1, <2>3 DEF UpdateTransfer, CancelTransfer, CreateTransfer, NextRevision, Same, TypeOK
  <2>4. ASSUME NEW q \in Receipts, RejectReceipt(q) PROVE SeenStays(r)
    <3>1. r # q => Same(r)
      BY <2>1, <2>4 DEF RejectReceipt, NextRevision, Same, TypeOK
    <3>2. UNCHANGED <<lines, found, date>> /\ (r = q => status'[r] = "rejected")
      BY <2>1, <2>4 DEF RejectReceipt, TypeOK
    <3>. QED
      BY <3>1, <3>2, SameIsSeen DEF SeenStays
  <2>5. ASSUME NEW q \in Receipts, NEW l \in Lines, NEW day \in Days, UpdateReceipt(q, l, day)
        PROVE  SeenStays(r)
    <3>1. r # q => Same(r)
      BY <2>1, <2>5 DEF UpdateReceipt, NextRevision, Same, TypeOK
    <3>2. r = q => status[r] = "draft" /\ status'[r] = "draft"
      BY <2>5 DEF UpdateReceipt
    <3>. QED
      BY <3>1, <3>2, SameIsSeen DEF SeenStays
  <2>6. 1 \in Days
    BY TransfersAssumption DEF Days
  <2>. QED
    BY <2>2, <2>3, <2>4, <2>5, <2>6, WriteIsSeen, SameIsSeen DEF Next, Step
<1>. QED
  BY <1>1, Invariant, PTL DEF Spec, ApprovedAsSeen, SeenStays

------------------------------------------------------------------------------
(* Sums over transfers and their receipts *)

\* What a posted transfer and its receipt take out of transit is what went in.
LEMMA InTransit ==
  ASSUME Inv
  PROVE  /\ \A t \in Transfers : /\ cargo[t] \in Nat
                                 /\ entries[t]["in_transit"] = cargo[t]
                                 /\ undo[t]["in_transit"] = IF Reversed(t) THEN 0 - cargo[t] ELSE 0
         /\ \A r \in Receipts :
              entries[r]["in_transit"] = IF status[r] = "posted" THEN 0 - cargo[of[r]] ELSE 0
<1>. USE DEF Inv
<1>1. "in_transit" \in Places
  BY DEF Places
<1>2. ASSUME NEW t \in Transfers
      PROVE  /\ cargo[t] \in Nat
             /\ entries[t]["in_transit"] = cargo[t]
             /\ undo[t]["in_transit"] = IF Reversed(t) THEN 0 - cargo[t] ELSE 0
  <2>1. TransferStands(t) /\ cargo[t] \in Nat
    BY CargoTypes DEF TransferInv, TypeOK
  <2>2. entries[t]["in_transit"] = cargo[t]
    BY <1>1, <2>1 DEF TransferStands, Picked, Nowhere
  <2>. QED
    BY <1>1, <2>1, <2>2 DEF TransferStands, ReversalMovements, Nowhere
<1>3. ASSUME NEW r \in Receipts
      PROVE  entries[r]["in_transit"] = IF status[r] = "posted" THEN 0 - cargo[of[r]] ELSE 0
  <2>1. ReceiptStands(r)
    BY DEF ReceiptInv
  <2>. QED
    BY <1>1, <2>1 DEF ReceiptStands, Received, Nowhere, DifferenceResolved
<1>. QED
  BY <1>2, <1>3

\* The three sums that make what is owned, written over all transfers.
LEMMA OwnedByDay ==
  ASSUME Inv, NEW day \in Days
  PROVE  Balance("in_transit", day)
           = SumFunction([t \in {u \in Transfers : OnTheRoad(u, day)} |-> cargo[t]])
<1>. DEFINE sent == [t \in Transfers |-> IF status[t] = "posted" /\ date[t] <= day THEN cargo[t] ELSE 0]
            got == [t \in Transfers |->
                     IF receipt[t] # NoReceipt /\ date[receipt[t]] <= day THEN 0 - cargo[t] ELSE 0]
            back == [t \in Transfers |->
                      IF Reversed(t) /\ undoDate[t] <= day THEN 0 - cargo[t] ELSE 0]
            road == [t \in Transfers |-> IF OnTheRoad(t, day) THEN cargo[t] ELSE 0]
            both == [t \in Transfers |-> sent[t] + got[t]]
            in == [d \in Docs |-> IF Exists(d) /\ date[d] <= day THEN entries[d]["in_transit"] ELSE 0]
            PostedBy == {r \in Receipts : status[r] = "posted" /\ date[r] <= day}
            Total(f) == SumFunctionOnSet(f, Transfers)
<1>. USE DEF Inv
<1>1. IsFiniteSet(Transfers) /\ IsFiniteSet(Receipts) /\ IsFiniteSet(Docs) /\ Docs = Transfers \cup Receipts
  BY FS_Union, TransfersAssumption DEF Docs
<1>2. /\ \A d \in Docs : date[d] \in Int
      /\ \A t \in Transfers : undoDate[t] \in Int /\ cargo[t] \in Int /\ 0 - cargo[t] \in Int
      /\ day \in Int
      /\ \A d \in Docs : entries[d]["in_transit"] \in Int
  <2>1. (\A x \in Days \cup {0} : x \in Int) /\ "in_transit" \in Places
    BY TransfersAssumption DEF Days, Places
  <2>2. \A d \in Docs : entries[d] \in [Places -> Int] /\ date[d] \in Days
    BY DEF TypeOK
  <2>3. \A t \in Transfers : undoDate[t] \in Days \cup {0} /\ cargo[t] \in Nat
    BY InTransit DEF TypeOK
  <2>4. \A d \in Docs : entries[d]["in_transit"] \in Int
    BY <2>1, <2>2
  <2>5. \A t \in Transfers : undoDate[t] \in Int /\ cargo[t] \in Int /\ 0 - cargo[t] \in Int
    <3>1. \A n \in Nat : n \in Int /\ 0 - n \in Int
      OBVIOUS
    <3>2. \A t \in Transfers : undoDate[t] \in Int
      BY <2>1, <2>3
    <3>. QED
      BY <2>3, <3>1, <3>2
  <2>. QED
    BY <2>1, <2>2, <2>4, <2>5
<1>3. /\ \A t \in Transfers : sent[t] \in Int /\ got[t] \in Int /\ back[t] \in Int /\ road[t] \in Int
      /\ \A t \in Transfers : both[t] \in Int /\ both[t] = sent[t] + got[t]
      /\ \A d \in Docs : in[d] \in Int
  BY <1>2
<1>4. \A t \in Transfers : road[t] = both[t] + back[t]
  <2>. SUFFICES ASSUME NEW t \in Transfers PROVE road[t] = both[t] + back[t]
    OBVIOUS
  <2>1. TransferStands(t) /\ t \in Docs /\ cargo[t] \in Int
    BY <1>2, Documents DEF TransferInv
  <2>2. receipt[t] # NoReceipt =>
          /\ receipt[t] \in Receipts /\ status[t] = "posted" /\ date[receipt[t]] >= date[t]
          /\ date[receipt[t]] \in Int /\ ~Reversed(t)
    <3>1. receipt[t] # NoReceipt => receipt[t] \in Receipts
      BY DEF TypeOK
    <3>. QED
      BY <1>2, <2>1, <3>1, Documents DEF TransferStands, ReceiptInv, ReceiptStands, Exists
  <2>3. CASE status[t] # "posted"
    BY <2>1, <2>2, <2>3 DEF OnTheRoad, TransferStands
  <2>4. CASE status[t] = "posted" /\ ~(date[t] <= day)
    BY <1>2, <2>1, <2>2, <2>4 DEF OnTheRoad, TransferStands
  <2>5. CASE status[t] = "posted" /\ date[t] <= day
    <3>1. CASE Reversed(t)
      BY <1>2, <2>1, <2>2, <2>5, <3>1 DEF OnTheRoad
    <3>2. CASE receipt[t] # NoReceipt
      BY <1>2, <2>1, <2>2, <2>5, <3>2 DEF OnTheRoad
    <3>3. CASE ~Reversed(t) /\ receipt[t] = NoReceipt
      BY <2>1, <2>5, <3>3 DEF OnTheRoad
    <3>. QED
      BY <3>1, <3>2, <3>3
  <2>. QED
    BY <2>3, <2>4, <2>5
<1>5. SumFunctionOnSet(in, Docs) = SumFunctionOnSet(in, Transfers) + SumFunctionOnSet(in, Receipts)
  <2>1. Transfers \cap Receipts = {} /\ \A x \in Transfers \cup Receipts : in[x] \in Int
    BY <1>1, <1>3, TransfersAssumption
  <2>. HIDE DEF in
  <2>. QED
    BY <1>1, <2>1, SumSplit
<1>6. SumFunctionOnSet(in, Transfers) = Total(sent)
  <2>1. ASSUME NEW t \in Transfers PROVE in[t] = sent[t]
    <3>1. t \in Docs /\ TransferStands(t) /\ entries[t]["in_transit"] = cargo[t]
      BY Documents, InTransit DEF TransferInv
    <3>. QED
      BY <3>1 DEF TransferStands, Exists
  <2>. HIDE DEF in, sent
  <2>. QED
    BY <1>1, <2>1, SumSame
<1>7. SumFunctionOnSet(in, Receipts) = Total(got)
  <2>1. SumFunctionOnSet(in, Receipts) = SumFunctionOnSet(in, PostedBy)
    <3>1. \A r \in Receipts \ PostedBy : in[r] = 0
      BY Documents, InTransit DEF Exists
    <3>2. \A r \in Receipts : in[r] \in Int
      BY <1>3, Documents
    <3>3. PostedBy \in SUBSET Receipts
      OBVIOUS
    <3>. HIDE DEF in, PostedBy
    <3>. QED
      BY <1>1, <3>1, <3>2, <3>3, SumLeaveOut
  <2>2. SumFunctionOnSet(in, PostedBy) = Total(got)
    <3>1. \A r \in PostedBy : /\ r \in Docs /\ of[r] \in Transfers /\ receipt[of[r]] = r
                              /\ r # NoReceipt
      BY Documents DEF ReceiptInv, ReceiptStands, Exists
    <3>2. \A q, r \in PostedBy : of[q] = of[r] => q = r
      BY <3>1
    <3>3. \A r \in PostedBy : in[r] = got[of[r]]
      BY <3>1, InTransit DEF Exists
    <3>4. ASSUME NEW t \in Transfers, \A r \in PostedBy : of[r] # t PROVE got[t] = 0
      <4>1. receipt[t] # NoReceipt =>
              /\ receipt[t] \in Receipts /\ status[receipt[t]] = "posted" /\ of[receipt[t]] = t
        BY DEF TransferInv, TransferStands, TypeOK
      <4>. QED
        BY <3>4, <4>1
    <3>5. IsFiniteSet(PostedBy)
      BY <1>1, FS_Subset
    <3>6. (\A r \in PostedBy : of[r] \in Transfers) /\ (\A t \in Transfers : got[t] \in Int)
      BY <1>3, <3>1
    <3>. HIDE DEF in, PostedBy, got
    <3>. QED
      BY <1>1, <3>2, <3>3, <3>4, <3>5, <3>6, SumReindex
  <2>. QED
    BY <2>1, <2>2
<1>8. SumFunction([d \in {e \in Docs : Exists(e) /\ date[e] <= day} |-> entries[d]["in_transit"]])
        = SumFunctionOnSet(in, Docs)
  <2>. DEFINE T == {e \in Docs : Exists(e) /\ date[e] <= day}
              f == [d \in T |-> entries[d]["in_transit"]]
  <2>1. /\ T \in SUBSET Docs /\ DOMAIN f = T /\ (\A d \in Docs : in[d] \in Int)
        /\ \A d \in T : in[d] = f[d]
        /\ \A d \in Docs \ T : in[d] = 0
    BY <1>3
  <2>2. SumFunction(f) = SumFunctionOnSet(in, Docs)
    <3>. HIDE DEF f, T, in
    <3>. QED
      BY <1>1, <2>1, SumFiltered
  <2>. QED
    BY <2>2
<1>9. SumFunction([t \in {u \in Transfers : Reversed(u) /\ undoDate[u] <= day} |-> undo[t]["in_transit"]])
        = Total(back)
  <2>. DEFINE T == {u \in Transfers : Reversed(u) /\ undoDate[u] <= day}
              f == [t \in T |-> undo[t]["in_transit"]]
  <2>1. /\ T \in SUBSET Transfers /\ DOMAIN f = T /\ (\A t \in Transfers : back[t] \in Int)
        /\ \A t \in T : back[t] = f[t]
        /\ \A t \in Transfers \ T : back[t] = 0
    BY <1>3, InTransit
  <2>2. SumFunction(f) = SumFunctionOnSet(back, Transfers)
    <3>. HIDE DEF f, T, back
    <3>. QED
      BY <1>1, <2>1, SumFiltered
  <2>. QED
    BY <2>2
<1>10. SumFunction([t \in {u \in Transfers : OnTheRoad(u, day)} |-> cargo[t]]) = Total(road)
  <2>. DEFINE T == {u \in Transfers : OnTheRoad(u, day)}
              f == [t \in T |-> cargo[t]]
  <2>1. /\ T \in SUBSET Transfers /\ DOMAIN f = T /\ (\A t \in Transfers : road[t] \in Int)
        /\ \A t \in T : road[t] = f[t]
        /\ \A t \in Transfers \ T : road[t] = 0
    BY <1>3
  <2>2. SumFunction(f) = SumFunctionOnSet(road, Transfers)
    <3>. HIDE DEF f, T, road
    <3>. QED
      BY <1>1, <2>1, SumFiltered
  <2>. QED
    BY <2>2
<1>11. Total(road) = Total(both) + Total(back) /\ Total(both) = Total(sent) + Total(got)
  <2>. HIDE DEF road, both, back, sent, got
  <2>. QED
    BY <1>1, <1>3, <1>4, SumPlus
<1>12. Balance("in_transit", day)
         = 0 + SumFunctionOnSet(in, Docs) + Total(back)
  BY <1>8, <1>9 DEF Balance
<1>13. Total(sent) \in Int /\ Total(got) \in Int /\ Total(back) \in Int
  <2>. HIDE DEF road, both, back, sent, got
  <2>. QED
    BY <1>1, <1>3, SumInt
<1>14. \A a, b, c \in Int : 0 + (a + b) + c = (a + b) + c
  OBVIOUS
<1>. HIDE DEF road, both, back, sent, got, in, Total
<1>. QED
  BY <1>5, <1>6, <1>7, <1>10, <1>11, <1>12, <1>13, <1>14

\* What an in-transit location holds at the end of any day is what the
\* transfers on the road that day took out, though every transfer from its
\* origin shares it (TransfersService.inTransit).
THEOREM InTransitAlwaysOwned == Spec => []InTransitIsOwned
<1>1. Inv => InTransitIsOwned
  BY OwnedByDay DEF InTransitIsOwned
<1>. QED
  BY <1>1, Invariant, PTL

------------------------------------------------------------------------------
(* The journey of a transfer *)

\* What its receipt moved, and no other one did.
ByReceipt(t, p) == IF receipt[t] = NoReceipt THEN 0 ELSE Received(receipt[t])[p]

LEMMA ReceiptsMoved ==
  ASSUME Inv, NEW t \in Transfers, NEW p \in Places
  PROVE  /\ SumFunction([r \in Settling(t) |-> entries[r][p]]) = ByReceipt(t, p)
         /\ ByReceipt(t, p) \in Int
<1>. DEFINE f == [r \in Settling(t) |-> entries[r][p]]
            S == Settling(t)
<1>1. IsFiniteSet(S) /\ S \subseteq Receipts /\ DOMAIN f = S
  BY FS_Subset, TransfersAssumption DEF Settling
<1>2. \A r \in S : /\ status[r] # "posted" => f[r] = 0
                   /\ status[r] = "posted" => receipt[t] = r /\ f[r] = Received(r)[p]
                   /\ f[r] \in Int
  <2>. SUFFICES ASSUME NEW r \in S
                PROVE  /\ status[r] # "posted" => f[r] = 0
                       /\ status[r] = "posted" => receipt[t] = r /\ f[r] = Received(r)[p]
                       /\ f[r] \in Int
    OBVIOUS
  <2>1. r \in Receipts /\ of[r] = t /\ ReceiptStands(r) /\ Received(r)[p] \in Int
    BY ReceivedTypes DEF Inv, ReceiptInv, Settling
  <2>. QED
    BY <2>1 DEF ReceiptStands, Nowhere
<1>3. CASE receipt[t] = NoReceipt
  <2>1. \A r \in S : f[r] = 0
    BY <1>1, <1>2, <1>3, Documents
  <2>2. SumFunctionOnSet(f, S) = 0
    <3>. HIDE DEF f, S
    <3>. QED
      BY <1>1, <2>1, SumZero
  <2>. QED
    BY <1>1, <1>3, <2>2 DEF SumFunction, ByReceipt
<1>4. CASE receipt[t] # NoReceipt
  <2>. DEFINE q == receipt[t]
  <2>1. q \in S /\ status[q] = "posted"
    BY <1>4 DEF Inv, TransferInv, TransferStands, TypeOK, Settling
  <2>2. f[q] = Received(q)[p] /\ f[q] \in Int /\ \A r \in S \ {q} : f[r] = 0
    BY <1>2, <2>1
  <2>3. SumFunctionOnSet(f, S) = f[q]
    <3>. HIDE DEF f, S, q
    <3>. QED
      BY <1>1, <2>1, <2>2, SumOfOne
  <2>. QED
    BY <1>1, <1>4, <2>2, <2>3 DEF SumFunction, ByReceipt
<1>. QED
  BY <1>3, <1>4

LeftOf(t) ==
  CASE TransferStatus(t) = "dispatched" -> cargo[t]
    [] TransferStatus(t) = "received" -> cargo[t] - lines[receipt[t]].returned
    [] OTHER -> 0

RoadOf(t) == IF TransferStatus(t) = "dispatched" THEN cargo[t] ELSE 0

KeptOf(t) == IF TransferStatus(t) = "received" THEN lines[receipt[t]].accepted ELSE 0

\* The ledger of a transfer shows where it stands.
Pictured ==
  \A t \in Transfers : /\ 0 - Moved(t, "origin") = LeftOf(t)
                       /\ Moved(t, "in_transit") = RoadOf(t)
                       /\ Moved(t, "destination") = KeptOf(t)

\* A receipt that posted accounts for all that was sent.
LEMMA PostedAccounts ==
  ASSUME Inv, NEW t \in Transfers, receipt[t] # NoReceipt
  PROVE  LET l == lines[receipt[t]] IN
         /\ status[t] = "posted" /\ ~Reversed(t) /\ TransferStatus(t) = "received"
         /\ l.accepted \in Nat /\ l.returned \in Nat /\ l.writtenOff \in Nat
         /\ l.accepted + l.returned + l.writtenOff = cargo[t]
<1>. DEFINE q == receipt[t]
<1>1. q \in Receipts /\ TransferStands(t) /\ ReceiptStands(q) /\ lines[q] \in Lines \cup {NoLine}
  BY DEF Inv, TypeOK, TransferInv, ReceiptInv
<1>2. status[q] = "posted" /\ of[q] = t /\ status[t] = "posted" /\ ~Reversed(t)
  BY <1>1 DEF TransferStands, ReceiptStands, Exists
<1>3. DifferenceResolved(q)
  BY <1>1, <1>2 DEF ReceiptStands
<1>. QED
  BY <1>1, <1>2, <1>3, LineTypes DEF DifferenceResolved, TransferStatus

LEMMA PicturedNow == Inv => Pictured
<1>. SUFFICES ASSUME Inv, NEW t \in Transfers
              PROVE  /\ 0 - Moved(t, "origin") = LeftOf(t)
                     /\ Moved(t, "in_transit") = RoadOf(t)
                     /\ Moved(t, "destination") = KeptOf(t)
  BY DEF Pictured
<1>1. TransferStands(t) /\ cargo[t] \in Nat
  BY InTransit DEF Inv, TransferInv
<1>2. \A p \in Places : Moved(t, p) = entries[t][p] + undo[t][p] + ByReceipt(t, p)
  BY ReceiptsMoved DEF Moved
<1>3. "origin" \in Places /\ "in_transit" \in Places /\ "destination" \in Places
  BY DEF Places
<1>. DEFINE c == cargo[t]
<1>4. CASE receipt[t] # NoReceipt
  <2>. DEFINE l == lines[receipt[t]]
  <2>1. /\ status[t] = "posted" /\ ~Reversed(t) /\ TransferStatus(t) = "received"
        /\ l.accepted \in Nat /\ l.returned \in Nat /\ l.writtenOff \in Nat
        /\ l.accepted + l.returned + l.writtenOff = c
    BY <1>4, PostedAccounts
  <2>2. /\ entries[t]["origin"] = 0 - c /\ entries[t]["in_transit"] = c /\ entries[t]["destination"] = 0
        /\ \A p \in Places : undo[t][p] = 0
    BY <1>1, <1>3, <2>1 DEF TransferStands, Picked, Nowhere
  <2>3. /\ ByReceipt(t, "origin") = l.returned /\ ByReceipt(t, "destination") = l.accepted
        /\ ByReceipt(t, "in_transit") = 0 - (l.accepted + l.returned + l.writtenOff)
    BY <1>3, <1>4 DEF ByReceipt, Received
  <2>4. LeftOf(t) = c - l.returned /\ RoadOf(t) = 0 /\ KeptOf(t) = l.accepted
    BY <2>1 DEF LeftOf, RoadOf, KeptOf
  <2>. DEFINE a == l.accepted
              b == l.returned
              x == l.writtenOff
  <2>5. /\ Moved(t, "origin") = (0 - c) + 0 + b
        /\ Moved(t, "in_transit") = c + 0 + (0 - (a + b + x))
        /\ Moved(t, "destination") = 0 + 0 + a
    BY <1>2, <1>3, <2>2, <2>3
  <2>6. c \in Nat /\ a \in Nat /\ b \in Nat /\ x \in Nat /\ a + b + x = c
    BY <1>1, <2>1
  <2>7. LeftOf(t) = c - b /\ KeptOf(t) = a
    BY <2>4
  <2>. HIDE DEF c, l, a, b, x
  <2>. QED
    BY <2>4, <2>5, <2>6, <2>7
<1>5. CASE receipt[t] = NoReceipt
  <2>1. \A p \in Places : ByReceipt(t, p) = 0
    BY <1>5 DEF ByReceipt
  <2>2. CASE status[t] # "posted"
    <3>1. \A p \in Places : entries[t][p] = 0 /\ undo[t][p] = 0
      BY <1>1, <2>2 DEF TransferStands, Nowhere
    <3>2. LeftOf(t) = 0 /\ RoadOf(t) = 0 /\ KeptOf(t) = 0
      <4>1. status[t] \in {"none", "draft", "posted", "cancelled"}
        BY DEF Inv, TypeOK
      <4>. QED
        BY <2>2, <4>1 DEF LeftOf, RoadOf, KeptOf, TransferStatus
    <3>. QED
      BY <1>2, <1>3, <2>1, <3>1, <3>2
  <2>3. CASE status[t] = "posted"
    <3>1. entries[t]["origin"] = 0 - c /\ entries[t]["in_transit"] = c /\ entries[t]["destination"] = 0
      BY <1>1, <1>3, <2>3 DEF TransferStands, Picked
    <3>2. CASE Reversed(t)
      <4>1. \A p \in Places : undo[t][p] = 0 - entries[t][p]
        BY <1>1, <3>2 DEF TransferStands, ReversalMovements
      <4>2. LeftOf(t) = 0 /\ RoadOf(t) = 0 /\ KeptOf(t) = 0
        BY <2>3, <3>2 DEF LeftOf, RoadOf, KeptOf, TransferStatus
      <4>. HIDE DEF c
      <4>. QED
        BY <1>1, <1>2, <1>3, <2>1, <3>1, <4>1, <4>2 DEF c
    <3>3. CASE ~Reversed(t)
      <4>1. \A p \in Places : undo[t][p] = 0
        BY <1>1, <3>3 DEF TransferStands, Nowhere
      <4>2. LeftOf(t) = c /\ RoadOf(t) = c /\ KeptOf(t) = 0
        BY <1>5, <2>3, <3>3 DEF LeftOf, RoadOf, KeptOf, TransferStatus
      <4>. HIDE DEF c
      <4>. QED
        BY <1>1, <1>2, <1>3, <2>1, <3>1, <4>1, <4>2 DEF c
    <3>. QED
      BY <3>2, <3>3
  <2>. QED
    BY <2>2, <2>3
<1>. QED
  BY <1>4, <1>5

\* The same, said of every state and so of the next.
LEMMA PicturedNext == Inv' => Pictured'
BY PicturedNow, PTL

\* What a step leaves of a transfer's journey, and what it may do to it.
StaysPut(t) ==
  Stage(t)' = Stage(t) /\ LeftOf(t)' = LeftOf(t) /\ RoadOf(t)' = RoadOf(t) /\ KeptOf(t)' = KeptOf(t)

Cancels(t) ==
  /\ Stage(t) = "planned" /\ Stage(t)' = "cancelled"
  /\ LeftOf(t)' = LeftOf(t) /\ RoadOf(t)' = RoadOf(t) /\ KeptOf(t)' = KeptOf(t)

Leaves(t) ==
  /\ Stage(t) = "planned" /\ Stage(t)' = "dispatched"
  /\ \E q \in Quantities : LeftOf(t)' = q /\ RoadOf(t)' = q
  /\ KeptOf(t)' = KeptOf(t)

Arrives(t) ==
  /\ Stage(t) = "dispatched" /\ Stage(t)' = "received"
  /\ \E accepted, returned \in 0 .. RoadOf(t) :
       /\ accepted + returned <= RoadOf(t)
       /\ KeptOf(t)' = accepted /\ LeftOf(t)' = LeftOf(t) - returned
  /\ RoadOf(t)' = 0

TurnsBack(t) ==
  /\ Stage(t) = "dispatched" /\ Stage(t)' = "reversed"
  /\ LeftOf(t)' = 0 /\ RoadOf(t)' = 0 /\ KeptOf(t)' = KeptOf(t)

MovesOn(t) == Cancels(t) \/ Leaves(t) \/ Arrives(t) \/ TurnsBack(t)

JourneyStep == \/ \A u \in Transfers : StaysPut(u)
               \/ \E t \in Transfers : MovesOn(t) /\ \A u \in Transfers \ {t} : StaysPut(u)

LEMMA JourneyMaps ==
  ASSUME Pictured, Pictured', JourneyStep
  PROVE  [Journey!Next]_(Journey!vars)
<1>. DEFINE stage == [t \in Transfers |-> Stage(t)]
            left == [t \in Transfers |-> 0 - Moved(t, "origin")]
            road == [t \in Transfers |-> Moved(t, "in_transit")]
            kept == [t \in Transfers |-> Moved(t, "destination")]
<1>1. /\ stage = [t \in Transfers |-> Stage(t)] /\ stage' = [t \in Transfers |-> Stage(t)']
      /\ left = [t \in Transfers |-> LeftOf(t)] /\ left' = [t \in Transfers |-> LeftOf(t)']
      /\ road = [t \in Transfers |-> RoadOf(t)] /\ road' = [t \in Transfers |-> RoadOf(t)']
      /\ kept = [t \in Transfers |-> KeptOf(t)] /\ kept' = [t \in Transfers |-> KeptOf(t)']
  BY DEF Pictured
<1>. HIDE DEF stage, left, road, kept
<1>. USE DEF Journey!vars, Journey!Next, Journey!Become
<1>2. CASE \A u \in Transfers : StaysPut(u)
  <2>1. stage' = stage /\ left' = left /\ road' = road /\ kept' = kept
    BY <1>1, <1>2 DEF StaysPut
  <2>. QED
    BY <2>1 DEF stage, left, road, kept
<1>3. ASSUME NEW t \in Transfers, MovesOn(t), \A u \in Transfers \ {t} : StaysPut(u)
      PROVE  Journey!Next
  <2>1. /\ stage' = [stage EXCEPT ![t] = Stage(t)'] /\ left' = [left EXCEPT ![t] = LeftOf(t)']
        /\ road' = [road EXCEPT ![t] = RoadOf(t)'] /\ kept' = [kept EXCEPT ![t] = KeptOf(t)']
    BY <1>1, <1>3 DEF StaysPut
  <2>2. /\ stage[t] = Stage(t) /\ left[t] = LeftOf(t) /\ road[t] = RoadOf(t) /\ kept[t] = KeptOf(t)
        /\ LeftOf(t)' = LeftOf(t) => left' = left
        /\ RoadOf(t)' = RoadOf(t) => road' = road
        /\ KeptOf(t)' = KeptOf(t) => kept' = kept
    BY <1>1, <2>1
  <2>3. ASSUME Cancels(t) PROVE Journey!Cancel(t)
    <3>1. stage[t] = "planned" /\ stage' = [stage EXCEPT ![t] = "cancelled"]
          /\ left' = left /\ road' = road /\ kept' = kept
      BY <2>1, <2>2, <2>3 DEF Cancels
    <3>. QED
      BY <3>1 DEF Journey!Cancel, stage, left, road, kept
  <2>4. ASSUME Leaves(t) PROVE Journey!Dispatch(t)
    <3>1. /\ stage[t] = "planned" /\ stage' = [stage EXCEPT ![t] = "dispatched"]
          /\ \E q \in Quantities : left' = [left EXCEPT ![t] = q] /\ road' = [road EXCEPT ![t] = q]
          /\ kept' = kept
      BY <2>1, <2>2, <2>4 DEF Leaves
    <3>. QED
      BY <3>1 DEF Journey!Dispatch, stage, left, road, kept
  <2>5. ASSUME Arrives(t) PROVE Journey!Receive(t)
    <3>1. /\ stage[t] = "dispatched" /\ stage' = [stage EXCEPT ![t] = "received"]
          /\ \E accepted, returned \in 0 .. road[t] :
               /\ accepted + returned <= road[t]
               /\ kept' = [kept EXCEPT ![t] = accepted]
               /\ left' = [left EXCEPT ![t] = left[t] - returned]
          /\ road' = [road EXCEPT ![t] = 0]
      BY <2>1, <2>2, <2>5 DEF Arrives
    <3>. QED
      BY <3>1 DEF Journey!Receive, stage, left, road, kept
  <2>6. ASSUME TurnsBack(t) PROVE Journey!TurnBack(t)
    <3>1. /\ stage[t] = "dispatched" /\ stage' = [stage EXCEPT ![t] = "reversed"]
          /\ left' = [left EXCEPT ![t] = 0] /\ road' = [road EXCEPT ![t] = 0] /\ kept' = kept
      BY <2>1, <2>2, <2>6 DEF TurnsBack
    <3>. QED
      BY <3>1 DEF Journey!TurnBack, stage, left, road, kept
  <2>. QED
    BY <1>3, <2>3, <2>4, <2>5, <2>6 DEF MovesOn
<1>. QED
  BY <1>2, <1>3 DEF JourneyStep

\* A transfer stays put when neither it nor its receipt is written.
LEMMA PutStays ==
  ASSUME Inv, NEW t \in Transfers, status'[t] = status[t], cargo'[t] = cargo[t],
         undoDate'[t] = undoDate[t], receipt'[t] = receipt[t],
         \A r \in Receipts : status[r] = "posted" => lines'[r] = lines[r]
  PROVE  StaysPut(t)
<1>1. receipt[t] # NoReceipt => lines'[receipt[t]] = lines[receipt[t]]
  BY DEF Inv, TypeOK, TransferInv, TransferStands
<1>2. TransferStatus(t)' = TransferStatus(t)
  BY DEF TransferStatus, Reversed
<1>3. TransferStatus(t) = "received" => receipt[t] # NoReceipt
  <2>1. status[t] \in {"none", "draft", "posted", "cancelled"}
    BY DEF Inv, TypeOK
  <2>. QED
    BY <2>1 DEF TransferStatus
<1>. QED
  BY <1>1, <1>2, <1>3 DEF StaysPut, Stage, LeftOf, RoadOf, KeptOf

\* While it is planned or cancelled, nothing of it is anywhere.
LEMMA PlannedIsNowhere ==
  ASSUME Inv, NEW t \in Transfers, status[t] # "posted"
  PROVE  LeftOf(t) = 0 /\ RoadOf(t) = 0 /\ KeptOf(t) = 0 /\ TransferStatus(t) = status[t]
<1>1. status[t] \in {"none", "draft", "posted", "cancelled"}
  BY DEF Inv, TypeOK
<1>. QED
  BY <1>1 DEF LeftOf, RoadOf, KeptOf, TransferStatus

LEMMA NextIsNowhere ==
  \A t \in Transfers :
    Inv' /\ status'[t] # "posted" =>
      LeftOf(t)' = 0 /\ RoadOf(t)' = 0 /\ KeptOf(t)' = 0 /\ TransferStatus(t)' = status'[t]
<1>1. ASSUME NEW t \in Transfers, Inv', status'[t] # "posted"
      PROVE  LeftOf(t)' = 0 /\ RoadOf(t)' = 0 /\ KeptOf(t)' = 0 /\ TransferStatus(t)' = status'[t]
  <2>1. status'[t] \in {"none", "draft", "posted", "cancelled"}
    BY <1>1 DEF Inv, TypeOK
  <2>. QED
    BY <1>1, <2>1 DEF LeftOf, RoadOf, KeptOf, TransferStatus
<1>. QED
  BY <1>1

\* What a transfer still planned becomes.
LEMMA PlanSteps ==
  ASSUME Inv, Inv', NEW t \in Transfers, status[t] # "posted",
         <<status[t], status'[t]>> \in {<<"none", "draft">>, <<"draft", "draft">>, <<"draft", "cancelled">>},
         \A u \in Transfers \ {t} : StaysPut(u)
  PROVE  JourneyStep
<1>1. /\ LeftOf(t) = 0 /\ RoadOf(t) = 0 /\ KeptOf(t) = 0 /\ TransferStatus(t) = status[t]
      /\ LeftOf(t)' = 0 /\ RoadOf(t)' = 0 /\ KeptOf(t)' = 0 /\ TransferStatus(t)' = status'[t]
  BY PlannedIsNowhere, NextIsNowhere
<1>2. CASE status'[t] = "draft"
  <2>1. Stage(t) = "planned" /\ Stage(t)' = "planned"
    BY <1>1, <1>2 DEF Stage
  <2>. QED
    BY <1>1, <2>1 DEF JourneyStep, StaysPut
<1>3. CASE status'[t] = "cancelled"
  <2>1. Stage(t) = "planned" /\ Stage(t)' = "cancelled"
    BY <1>1, <1>3 DEF Stage
  <2>. QED
    BY <1>1, <2>1 DEF JourneyStep, MovesOn, Cancels
<1>. QED
  BY <1>2, <1>3

LEMMA DispatchLeaves ==
  ASSUME Inv, NEW w \in Workers, pc[w] = "write", Dispatch(w)
  PROVE  JourneyStep
<1>. USE DEF receiving
<1>1. PICK t \in Transfers : t = Doc(w) /\ status[t] = "draft" /\ req[w].take \in Quantities
  BY BeforeWrite DEF Inv, Dispatch, Asks, HoldsDocument, From
<1>2. /\ status'[t] = "posted" /\ cargo'[t] = req[w].take /\ undoDate'[t] = undoDate[t]
      /\ receipt'[t] = receipt[t]
      /\ \A u \in Transfers \ {t} : status'[u] = status[u] /\ cargo'[u] = cargo[u]
      /\ UNCHANGED <<undoDate, receipt, lines>>
  BY <1>1, Documents DEF Inv, Dispatch, TypeOK
<1>3. ~Reversed(t) /\ receipt[t] = NoReceipt
  BY <1>1, PostedAccounts DEF Inv, TransferInv, TransferStands
<1>4. TransferStatus(t)' = "dispatched"
  BY <1>2, <1>3 DEF TransferStatus, Reversed
<1>5. Stage(t)' = "dispatched" /\ LeftOf(t)' = req[w].take /\ RoadOf(t)' = req[w].take /\ KeptOf(t)' = 0
  BY <1>2, <1>4 DEF Stage, LeftOf, RoadOf, KeptOf
<1>6. Stage(t) = "planned" /\ KeptOf(t) = 0
  BY <1>1, PlannedIsNowhere DEF Stage
<1>7. \A u \in Transfers \ {t} : StaysPut(u)
  BY <1>2, PutStays
<1>. QED
  BY <1>1, <1>5, <1>6, <1>7 DEF JourneyStep, MovesOn, Leaves

LEMMA ReverseTurnsBack ==
  ASSUME Inv, NEW w \in Workers, pc[w] = "write", Reverse(w)
  PROVE  JourneyStep
<1>. USE DEF receiving
<1>1. PICK t \in Transfers : /\ t = Doc(w) /\ status[t] = "posted" /\ ~Reversed(t)
                             /\ receipt[t] = NoReceipt /\ req[w].day \in Days
  BY BeforeWrite DEF Inv, Reverse, Asks, HoldsDocument, From, DecisionHolds
<1>2. /\ undoDate'[t] = req[w].day
      /\ \A u \in Transfers \ {t} : undoDate'[u] = undoDate[u]
      /\ UNCHANGED <<status, cargo, receipt, lines>>
  BY <1>1 DEF Inv, Reverse, TypeOK
<1>3. undoDate'[t] # 0
  BY <1>1, <1>2, TransfersAssumption DEF Days
<1>4. TransferStatus(t) = "dispatched" /\ TransferStatus(t)' = "reversed"
  BY <1>1, <1>2, <1>3 DEF TransferStatus, Reversed
<1>5. /\ Stage(t) = "dispatched" /\ Stage(t)' = "reversed"
      /\ LeftOf(t)' = 0 /\ RoadOf(t)' = 0 /\ KeptOf(t) = 0 /\ KeptOf(t)' = 0
  BY <1>4 DEF Stage, LeftOf, RoadOf, KeptOf
<1>6. \A u \in Transfers \ {t} : StaysPut(u)
  BY <1>2, PutStays
<1>. QED
  BY <1>5, <1>6 DEF JourneyStep, MovesOn, TurnsBack

LEMMA ReceiptArrives ==
  ASSUME Inv, Inv', NEW w \in Workers, pc[w] = "write", PostReceipt(w)
  PROVE  JourneyStep
<1>1. PICK t \in Transfers : /\ t = Transfer(w) /\ of[Doc(w)] = t /\ Doc(w) \in Receipts
                             /\ TransferStatus(t) = "dispatched"
  BY BeforeWrite DEF Inv, PostReceipt, Asks, DecisionHolds, Receives
<1>2. PICK r \in Receipts : r = Doc(w)
  BY <1>1
<1>3. /\ status'[t] = status[t] /\ receipt'[t] = r /\ r # NoReceipt
      /\ \A u \in Transfers \ {t} : status'[u] = status[u] /\ receipt'[u] = receipt[u]
      /\ UNCHANGED <<cargo, undoDate, lines>>
  BY <1>1, <1>2, Documents DEF Inv, PostReceipt, MarkReceived, TypeOK
<1>. DEFINE l == lines[r]
<1>4. /\ l.accepted \in Nat /\ l.returned \in Nat /\ l.writtenOff \in Nat
      /\ l.accepted + l.returned + l.writtenOff = cargo[t]
  <2>1. DifferenceResolved(r) /\ of[r] = t
    BY <1>1, <1>2, BeforeWrite DEF Inv, PostReceipt, DecisionHolds
  <2>2. lines[r] \in Lines \cup {NoLine}
    BY DEF Inv, TypeOK
  <2>. QED
    BY <2>1, <2>2, LineTypes DEF DifferenceResolved
<1>5. TransferStatus(t)' = "received"
  <2>1. status[t] = "posted" /\ ~Reversed(t)
    <3>1. status[t] \in {"none", "draft", "posted", "cancelled"}
      BY DEF Inv, TypeOK
    <3>. QED
      BY <1>1, <3>1 DEF TransferStatus
  <2>. QED
    BY <1>3, <2>1 DEF TransferStatus, Reversed
<1>6. /\ Stage(t) = "dispatched" /\ RoadOf(t) = cargo[t] /\ LeftOf(t) = cargo[t]
      /\ Stage(t)' = "received" /\ RoadOf(t)' = 0 /\ KeptOf(t)' = l.accepted
      /\ LeftOf(t)' = cargo[t] - l.returned
  BY <1>1, <1>3, <1>5 DEF Stage, LeftOf, RoadOf, KeptOf
<1>7. cargo[t] \in Nat
  BY InTransit
<1>. DEFINE a == l.accepted
            b == l.returned
<1>8. a \in 0 .. RoadOf(t) /\ b \in 0 .. RoadOf(t) /\ a + b <= RoadOf(t)
  <2>. DEFINE c == cargo[t]
              x == l.writtenOff
  <2>1. a \in Nat /\ b \in Nat /\ x \in Nat /\ c \in Nat /\ a + b + x = c /\ RoadOf(t) = c
    BY <1>4, <1>6, <1>7
  <2>. HIDE DEF a, b, c, x
  <2>. QED
    BY <2>1
<1>9. Arrives(t)
  <2>1. KeptOf(t)' = a /\ LeftOf(t)' = LeftOf(t) - b
    BY <1>6
  <2>. HIDE DEF a, b
  <2>. QED
    BY <1>6, <1>8, <2>1 DEF Arrives
<1>10. \A u \in Transfers \ {t} : StaysPut(u)
  BY <1>3, PutStays
<1>. QED
  BY <1>9, <1>10 DEF JourneyStep, MovesOn

\* Every other write and every other step leaves all transfers where they are.
LEMMA OthersStayPut ==
  ASSUME Inv, UNCHANGED <<cargo, undoDate, receipt>>,
         \A t \in Transfers : status'[t] = status[t],
         \A r \in Receipts : status[r] = "posted" => lines'[r] = lines[r]
  PROVE  JourneyStep
BY PutStays DEF JourneyStep

LEMMA WriteJourneys ==
  ASSUME Inv, Inv', NEW w \in Workers, Write(w)
  PROVE  JourneyStep
<1>. USE DEF documents, receiving
<1>. DEFINE d == Doc(w)
<1>1. /\ pc[w] = "write" /\ Asks(w) /\ DecisionHolds(w) /\ (Kind(w) # "raise" => HoldsDocument(w))
      /\ d \in Docs /\ TypeOK
  BY BeforeWrite DEF Write, Inv
<1>2. CASE Refuse(w)
  BY <1>2, OthersStayPut DEF Refuse
<1>3. CASE RaiseReceipt(w)
  <2>1. d \in Receipts /\ d \notin Transfers /\ status[d] = "none"
    BY <1>1, <1>3, Documents DEF RaiseReceipt, Asks, Exists
  <2>2. (\A t \in Transfers : status'[t] = status[t]) /\ \A r \in Receipts \ {d} : lines'[r] = lines[r]
    BY <1>3, <2>1, Documents DEF RaiseReceipt, TypeOK
  <2>. QED
    BY <1>3, <2>1, <2>2, OthersStayPut DEF RaiseReceipt
<1>4. CASE Submit(w) \/ Approve(w)
  <2>1. d \in Receipts /\ d \notin Transfers
    BY <1>1, <1>4, Documents DEF Submit, Approve, Asks
  <2>2. \A t \in Transfers : status'[t] = status[t]
    BY <1>1, <1>4, <2>1, Documents DEF Submit, Approve, TypeOK
  <2>. QED
    BY <1>4, <2>2, OthersStayPut DEF Submit, Approve
<1>. QED
  BY <1>1, <1>2, <1>3, <1>4, DispatchLeaves, ReverseTurnsBack, ReceiptArrives DEF Write

LEMMA StepJourneys == Inv /\ Inv' /\ [Next]_vars => JourneyStep
<1>. SUFFICES ASSUME Inv, Inv', [Next]_vars PROVE JourneyStep
  OBVIOUS
<1>. USE DEF documents, receiving
<1>1. CASE UNCHANGED vars
  BY <1>1, OthersStayPut DEF vars
<1>2. CASE ChangeMasterData
  BY <1>2, OthersStayPut DEF ChangeMasterData
<1>3. ASSUME NEW t \in Transfers, NEW day \in Days,
             UpdateTransfer(t, day) \/ CancelTransfer(t) \/ \E p \in People : CreateTransfer(t, p, day)
      PROVE  JourneyStep
  <2>1. /\ status[t] # "posted"
        /\ <<status[t], status'[t]>> \in {<<"none", "draft">>, <<"draft", "draft">>, <<"draft", "cancelled">>}
    BY <1>3, Documents DEF UpdateTransfer, CancelTransfer, CreateTransfer, Inv, TypeOK
  <2>2. ASSUME NEW u \in Transfers \ {t}
        PROVE  /\ status'[u] = status[u] /\ cargo'[u] = cargo[u] /\ undoDate'[u] = undoDate[u]
               /\ receipt'[u] = receipt[u] /\ lines' = lines
    BY <1>3, Documents DEF UpdateTransfer, CancelTransfer, CreateTransfer, Inv, TypeOK
  <2>3. \A u \in Transfers \ {t} : StaysPut(u)
    BY <2>2, PutStays
  <2>. QED
    BY <2>1, <2>3, PlanSteps
<1>4. ASSUME NEW r \in Receipts, NEW l \in Lines, NEW day \in Days, UpdateReceipt(r, l, day)
      PROVE  JourneyStep
  <2>1. \A q \in Receipts : status[q] = "posted" => lines'[q] = lines[q]
    BY <1>4 DEF UpdateReceipt, Inv, TypeOK
  <2>. QED
    BY <1>4, <2>1, OthersStayPut DEF UpdateReceipt
<1>5. ASSUME NEW r \in Receipts, RejectReceipt(r) PROVE JourneyStep
  <2>1. \A t \in Transfers : status'[t] = status[t]
    BY <1>5, Documents DEF RejectReceipt, Inv, TypeOK
  <2>. QED
    BY <1>5, <2>1, OthersStayPut DEF RejectReceipt
<1>6. ASSUME NEW w \in Workers,
             (\E p \in People : Ask(w, p)) \/ Crash(w) \/ LockDocument(w) \/ LockTransfer(w) \/ Decide(w)
      PROVE  JourneyStep
  <2>1. UNCHANGED <<documents, receiving>>
    BY <1>6 DEF Ask, Begin, Crash, LockDocument, LockTransfer, Decide, Refuse
  <2>. QED
    BY <2>1, OthersStayPut
<1>7. 1 \in Days
  BY TransfersAssumption DEF Days
<1>. QED
  BY <1>1, <1>2, <1>3, <1>4, <1>5, <1>6, <1>7, WriteJourneys DEF Next, Step

LEMMA JourneyBegins == Init => Journey!Init
<1>. SUFFICES ASSUME Init PROVE Journey!Init
  OBVIOUS
<1>1. Inv /\ Pictured
  BY InvInit, PicturedNow
<1>2. \A t \in Transfers : status[t] = "none"
  BY Documents DEF Init
<1>3. \A t \in Transfers : /\ LeftOf(t) = 0 /\ RoadOf(t) = 0 /\ KeptOf(t) = 0
                           /\ TransferStatus(t) = "none"
  BY <1>1, <1>2, PlannedIsNowhere
<1>4. /\ [t \in Transfers |-> Stage(t)] = [t \in Transfers |-> "planned"]
      /\ [t \in Transfers |-> 0 - Moved(t, "origin")] = [t \in Transfers |-> 0]
      /\ [t \in Transfers |-> Moved(t, "in_transit")] = [t \in Transfers |-> 0]
      /\ [t \in Transfers |-> Moved(t, "destination")] = [t \in Transfers |-> 0]
  BY <1>1, <1>3 DEF Pictured, Stage
<1>. QED
  BY <1>4 DEF Journey!Init

\* Counted from the ledger's entries, every run of the two services is a
\* journey as the company is promised it: out of the origin once, and out of
\* transit once and whole (TransfersService.dispatch, reverse;
\* TransferReceiptsService.post).
THEOREM TransferIsAJourney == Spec => ImplementsTransferJourney
<1>1. Inv /\ Inv' /\ [Next]_vars => [Journey!Next]_(Journey!vars)
  BY PicturedNow, PicturedNext, StepJourneys, JourneyMaps
<1>. QED
  BY <1>1, JourneyBegins, Invariant, PTL DEF Spec, ImplementsTransferJourney, Journey!Spec
=============================================================================
