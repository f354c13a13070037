------------------------------ MODULE Transfers ------------------------------
(***************************************************************************)
(* Transfers and their receipts: TransfersService and                      *)
(* TransferReceiptsService over the ledger.  A transfer's posting is its   *)
(* dispatch; any number of receipts of it may be raised, and one posts, or *)
(* else the dispatch is reversed.                                          *)
(*                                                                         *)
(* Requests run as transactions that lock the document they are about,     *)
(* postings of receipts and reversals the transfer's row as well, decide   *)
(* on what they read, and write.  What another request may change between  *)
(* a read and the commit is what is read without its lock: the transfer,   *)
(* when a receipt is raised, submitted or approved, and the item's         *)
(* tolerances and the destination's active flag always.  Submitting a      *)
(* receipt without findings, and approving one, take a second transaction  *)
(* for the posting.  A request may die anywhere.                           *)
(*                                                                         *)
(* One lot goes from one origin to one destination, and every transfer of  *)
(* it shares the origin's in-transit location.  Balances are the sums of   *)
(* the entries, and postings of one lot exclude each other (both shown in  *)
(* Posting).  Triggers of the database that repeat a rule of the services  *)
(* are left out: the rules must do without them.                           *)
(***************************************************************************)
EXTENDS Integers, FiniteSets, FiniteSetsExt

CONSTANTS
  Transfers, Receipts,  \* documents people may draft
  People,
  Workers,       \* requests running at a time
  Quantities,    \* what may be picked of the lot
  Lines,         \* what a receiver may record of the lot line
  Tolerances,    \* what may be set for the item
  Opening,       \* what the origin holds at the start
  Expiry,        \* the lot's expiry date
  LastDay,       \* bound: business dates are the days 1 .. LastDay, today
  MaxRevision,   \* bound: a draft is edited only below this revision
  MaxCrashes,    \* bound: how many requests die half-way
  MasterData,    \* bound: whether tolerances and locations change at all
  NoTransfer, NoReceipt, NoWorker, Nobody

Docs == Transfers \cup Receipts

Days == 1 .. LastDay

ASSUME TransfersAssumption ==
  /\ IsFiniteSet(Transfers) /\ IsFiniteSet(Receipts) /\ Transfers \cap Receipts = {}
  /\ NoTransfer \notin Docs /\ NoReceipt \notin Docs
  /\ NoWorker \notin Workers /\ Nobody \notin People
  /\ Quantities \subseteq Nat \ {0} /\ Opening \in Nat
  /\ {LastDay, MaxRevision} \subseteq Nat \ {0} /\ MaxCrashes \in Nat
  /\ Expiry \in Nat /\ MasterData \in BOOLEAN
  /\ Tolerances \subseteq [variance : Nat, temperature : BOOLEAN]
  /\ Lines \subseteq [received : Nat, accepted : Nat, returned : Nat, writtenOff : Nat,
                      temperature : {"none", "cold", "warm"}, damaged : BOOLEAN,
                      reason : BOOLEAN]

VARIABLES
  status, revision, date, creator,  \* stock_documents
  cargo,       \* transfer_picks: what left; 0 before the dispatch
  entries,     \* ledger_entries of the document, net by place
  undo,        \* the entries of the transfer's reversal
  undoDate,    \* and its business date; 0 while there is none
  receipt,     \* transfers.receipt_document_id
  of,          \* transfer_receipts.transfer_id
  lines,       \* transfer_receipt_lines
  found,       \* and the findings fixed on them; "unfixed" until then
  submitter, approver,
  tolerances, active,  \* the item's tolerances; whether the destination is in use
  docLock, rowLock,    \* the rows of stock_documents and of transfers
  pc, req, judged,     \* what each request is at, was asked, and has decided
  crashes

documents == <<status, revision, date, creator, cargo, entries, undo, undoDate>>
receiving == <<receipt, of, lines, found, submitter, approver>>
masterData == <<tolerances, active>>
locks == <<docLock, rowLock>>
locals == <<pc, req, judged>>
vars == <<documents, receiving, masterData, locks, locals, crashes>>

------------------------------------------------------------------------------
(* The ledger *)

Places == {"origin", "in_transit", "destination"}

Nowhere == [p \in Places |-> 0]

ReceiptStatuses == {"none", "draft", "submitted", "approved", "posted", "rejected"}

Exists(d) == status[d] # "none"

Reversed(t) == undoDate[t] # 0

ReversalMovements(c) == [p \in Places |-> 0 - c[p]]

\* What is at a place at the end of a day.
Balance(p, day) ==
  (IF p = "origin" THEN Opening ELSE 0)
    + SumFunction([d \in {e \in Docs : Exists(e) /\ date[e] <= day} |-> entries[d][p]])
    + SumFunction([t \in {u \in Transfers : Reversed(u) /\ undoDate[u] <= day} |-> undo[t][p]])

\* Neither the origin nor what is in transit may go below zero.
Allowed(change) ==
  \A p \in {"origin", "in_transit"} :
    change[p] < 0 => Balance(p, LastDay) + change[p] >= 0

------------------------------------------------------------------------------
(* domain/transfer-rules.ts and core/receiving/domain/inspection.ts *)

IsExpired(day) == Expiry < day

TransferStatus(t) ==
  IF status[t] # "posted" THEN status[t]
  ELSE IF Reversed(t) THEN "reversed"
  ELSE IF receipt[t] # NoReceipt THEN "received" ELSE "dispatched"

ValidLine(l) == l.accepted <= l.received /\ l.returned <= l.received - l.accepted

Inspect(r) ==
  LET l == lines[r]
      difference == l.received - cargo[of[r]]
  IN IF \/ difference > tolerances.variance \/ 0 - difference > tolerances.variance
        \/ tolerances.temperature /\ l.temperature = "warm"
        \/ l.damaged
     THEN "findings" ELSE "clean"

\* Mutant: what is not accounted for stays in transit.
NothingTooMany(r) ==
  lines[r].accepted + lines[r].returned + lines[r].writtenOff <= cargo[of[r]]

DifferenceResolved(r) ==
  lines[r].accepted + lines[r].returned + lines[r].writtenOff = cargo[of[r]]

NeedsApproval(r, findings) == findings = "findings" \/ lines[r].writtenOff > 0

ReceiptRefusal(r, findings) ==
  LET l == lines[r] IN
  \/ TransferStatus(of[r]) # "dispatched"
  \/ date[r] < date[of[r]]
  \/ l.accepted > 0 /\ ~active
  \/ tolerances.temperature /\ l.temperature = "none"
  \/ ~DifferenceResolved(r)
  \/ (NeedsApproval(r, findings) \/ l.returned > 0) /\ ~l.reason
  \/ l.accepted > 0 /\ IsExpired(date[r])

\* The findings a step goes by: fixed ones when the receipt was submitted.
Findings(r) == IF found[r] = "unfixed" THEN Inspect(r) ELSE found[r]

------------------------------------------------------------------------------
NoLine == [received |-> 0, accepted |-> 0, returned |-> 0, writtenOff |-> 0,
           temperature |-> "none", damaged |-> FALSE, reason |-> FALSE]

Kinds == {"none", "raise", "dispatch", "reverse", "submit", "clean", "approve", "post"}

Requests ==
  [kind : Kinds, doc : Docs \cup {NoTransfer}, transfer : Transfers \cup {NoTransfer},
   by : People \cup {Nobody}, revision : Nat, day : Days, line : Lines \cup {NoLine},
   take : Quantities \cup {0}]

NoRequest == [kind |-> "none", doc |-> NoTransfer, transfer |-> NoTransfer, by |-> Nobody,
              revision |-> 0, day |-> 1, line |-> NoLine, take |-> 0]

Init ==
  /\ status = [d \in Docs |-> "none"]
  /\ revision = [d \in Docs |-> 0]
  /\ date = [d \in Docs |-> 1]
  /\ creator = [d \in Docs |-> Nobody]
  /\ cargo = [t \in Transfers |-> 0]
  /\ entries = [d \in Docs |-> Nowhere]
  /\ undo = [t \in Transfers |-> Nowhere]
  /\ undoDate = [t \in Transfers |-> 0]
  /\ receipt = [t \in Transfers |-> NoReceipt]
  /\ of = [r \in Receipts |-> NoTransfer]
  /\ lines = [r \in Receipts |-> NoLine]
  /\ found = [r \in Receipts |-> "unfixed"]
  /\ submitter = [r \in Receipts |-> Nobody]
  /\ approver = [r \in Receipts |-> Nobody]
  /\ tolerances \in Tolerances
  /\ active = TRUE
  /\ docLock = [d \in Docs |-> NoWorker]
  /\ rowLock = [t \in Transfers |-> NoWorker]
  /\ pc = [w \in Workers |-> "idle"]
  /\ req = [w \in Workers |-> NoRequest]
  /\ judged = [w \in Workers |-> "unfixed"]
  /\ crashes = 0

\* People change an item's tolerances, and stop or resume using a location.
ChangeMasterData ==
  /\ MasterData
  /\ \/ tolerances' \in Tolerances \ {tolerances} /\ UNCHANGED active
     \/ active' = ~active /\ UNCHANGED tolerances
  /\ UNCHANGED <<documents, receiving, locks, locals, crashes>>

------------------------------------------------------------------------------
(* Transactions that are done once they have their document: nothing they   *)
(* go by can change before they commit.                                     *)

Unlocked(d) == docLock[d] = NoWorker

NextRevision(d) == revision' = [revision EXCEPT ![d] = @ + 1]

CreateTransfer(t, p, day) ==
  /\ status[t] = "none" /\ active
  /\ status' = [status EXCEPT ![t] = "draft"]
  /\ NextRevision(t)
  /\ date' = [date EXCEPT ![t] = day]
  /\ creator' = [creator EXCEPT ![t] = p]
  /\ UNCHANGED <<cargo, entries, undo, undoDate, receiving, masterData, locks, locals, crashes>>

UpdateTransfer(t, day) ==
  /\ status[t] = "draft" /\ Unlocked(t) /\ revision[t] < MaxRevision
  /\ date' = [date EXCEPT ![t] = day]
  /\ NextRevision(t)
  /\ UNCHANGED <<status, creator, cargo, entries, undo, undoDate,
                 receiving, masterData, locks, locals, crashes>>

CancelTransfer(t) ==
  /\ status[t] = "draft" /\ Unlocked(t)
  /\ status' = [status EXCEPT ![t] = "cancelled"]
  /\ NextRevision(t)
  /\ UNCHANGED <<date, creator, cargo, entries, undo, undoDate,
                 receiving, masterData, locks, locals, crashes>>

UpdateReceipt(r, l, day) ==
  /\ status[r] = "draft" /\ Unlocked(r) /\ revision[r] < MaxRevision
  /\ ValidLine(l)
  /\ lines' = [lines EXCEPT ![r] = l]
  /\ found' = [found EXCEPT ![r] = "unfixed"]
  /\ date' = [date EXCEPT ![r] = day]
  /\ NextRevision(r)
  /\ UNCHANGED <<status, creator, cargo, entries, undo, undoDate, receipt, of,
                 submitter, approver, masterData, locks, locals, crashes>>

\* Mutant: a receipt is rejected whatever has become of it.
AtAnyStep(r) == status[r] \in {"submitted", "approved", "posted"}

MayBeRejected(r) == status[r] \in {"submitted", "approved"}

RejectReceipt(r) ==
  /\ MayBeRejected(r) /\ Unlocked(r)
  /\ status' = [status EXCEPT ![r] = "rejected"]
  /\ NextRevision(r)
  /\ UNCHANGED <<date, creator, cargo, entries, undo, undoDate,
                 receiving, masterData, locks, locals, crashes>>

------------------------------------------------------------------------------
(* Requests of several steps *)

\* The status a step is taken from.
From(k) ==
  CASE k = "approve" -> "submitted" [] k = "post" -> "approved"
    [] k = "reverse" -> "posted" [] OTHER -> "draft"

Kind(w) == req[w].kind
Doc(w) == req[w].doc
Transfer(w) == req[w].transfer

Receives(w) == Kind(w) \in {"clean", "post"}

\* lockForReceipt is for what takes stock out of transit.
\* Mutant: a reversal goes by the transfer as it reads it.
OnlyReceiptsLockTransfer(w) == Kind(w) \in {"clean", "post"}

LocksTransfer(w) == Kind(w) \in {"clean", "post", "reverse"}

\* What a request asks, by someone who has the document in front of them.
Request(kind, d, t, p) ==
  [NoRequest EXCEPT !.kind = kind, !.doc = d, !.transfer = t, !.by = p,
                    !.revision = revision[d]]

Begin(w, at, request) ==
  /\ pc[w] = "idle"
  /\ pc' = [pc EXCEPT ![w] = at]
  /\ req' = [req EXCEPT ![w] = request]
  /\ UNCHANGED <<documents, receiving, masterData, locks, judged, crashes>>

Ask(w, p) ==
  \/ \E t \in Transfers, q \in Quantities :
       status[t] = "draft"
         /\ Begin(w, "lock", [Request("dispatch", t, t, p) EXCEPT !.take = q])
  \/ \E t \in Transfers, day \in Days :
       status[t] = "posted"
         /\ Begin(w, "lock", [Request("reverse", t, t, p) EXCEPT !.day = day])
  \/ \E t \in Transfers, r \in Receipts, l \in Lines, day \in Days :
       /\ Exists(t) /\ ~Exists(r) /\ \A v \in Workers : Doc(v) # r
       /\ Begin(w, "decide", [Request("raise", r, t, p) EXCEPT !.day = day, !.line = l])
  \/ \E r \in Receipts :
       \/ status[r] = "draft" /\ Begin(w, "lock", Request("submit", r, of[r], p))
       \/ status[r] \in {"draft", "submitted"}
            /\ Begin(w, "lock", [Request("approve", r, of[r], p) EXCEPT !.line = lines[r]])
       \/ status[r] = "approved" /\ Begin(w, "lock", Request("post", r, of[r], p))

Idle(w) ==
  /\ pc' = [pc EXCEPT ![w] = "idle"]
  /\ req' = [req EXCEPT ![w] = NoRequest]
  /\ judged' = [judged EXCEPT ![w] = "unfixed"]

Release(w) ==
  /\ docLock' = [d \in Docs |-> IF docLock[d] = w THEN NoWorker ELSE docLock[d]]
  /\ rowLock' = [t \in Transfers |-> IF rowLock[t] = w THEN NoWorker ELSE rowLock[t]]

\* A refusal is answered, and nothing is written.
Refuse(w) ==
  /\ Idle(w) /\ Release(w)
  /\ UNCHANGED <<documents, receiving, masterData, crashes>>

\* lockAt and the step rules, or the first refusals of post and reverse.
\* Mutant: the revision the person saw is not compared.
InStatus(w) == status[Doc(w)] = From(Kind(w))

MayStart(w) ==
  /\ status[Doc(w)] = From(Kind(w))
  /\ IF Kind(w) = "reverse" THEN ~Reversed(Doc(w)) /\ req[w].day >= date[Doc(w)]
     ELSE revision[Doc(w)] = req[w].revision

LockDocument(w) ==
  /\ pc[w] = "lock" /\ Unlocked(Doc(w))
  /\ IF MayStart(w)
     THEN /\ docLock' = [docLock EXCEPT ![Doc(w)] = w]
          /\ pc' = [pc EXCEPT ![w] = IF LocksTransfer(w) THEN "row" ELSE "decide"]
          /\ UNCHANGED <<documents, receiving, masterData, rowLock, req, judged, crashes>>
     ELSE Refuse(w)

LockTransfer(w) ==
  /\ pc[w] = "row" /\ rowLock[Transfer(w)] = NoWorker
  /\ rowLock' = [rowLock EXCEPT ![Transfer(w)] = w]
  /\ pc' = [pc EXCEPT ![w] = "decide"]
  /\ UNCHANGED <<documents, receiving, masterData, docLock, req, judged, crashes>>

\* Mutant: who submitted a receipt may approve it.
OnlyCreator(w) == req[w].by = creator[Doc(w)]

OwnReceipt(w) == req[w].by \in {creator[Doc(w)], submitter[Doc(w)]}

Refused(w) ==
  LET d == Doc(w) IN
  CASE Kind(w) = "raise" -> TransferStatus(Transfer(w)) # "dispatched" \/ ~ValidLine(req[w].line)
    [] Kind(w) = "dispatch" -> ~active \/ IsExpired(date[d])
    [] Kind(w) = "reverse" -> TransferStatus(d) = "received"
    [] Kind(w) = "approve" -> OwnReceipt(w) \/ TransferStatus(Transfer(w)) = "reversed"
    [] Kind(w) = "clean" ->
         ReceiptRefusal(d, Findings(d)) \/ NeedsApproval(d, Findings(d))
    [] OTHER -> ReceiptRefusal(d, Findings(d))

Decide(w) ==
  /\ pc[w] = "decide"
  /\ IF Refused(w) THEN Refuse(w)
     ELSE /\ pc' = [pc EXCEPT ![w] = "write"]
          /\ judged' = [judged EXCEPT ![w] =
               IF Doc(w) \in Receipts /\ Exists(Doc(w)) THEN Findings(Doc(w)) ELSE "unfixed"]
          /\ UNCHANGED <<documents, receiving, masterData, locks, req, crashes>>

------------------------------------------------------------------------------
(* What each request writes, and its commit *)

\* The insert's foreign key waits for whoever has locked the transfer's row.
RaiseReceipt(w) ==
  LET r == Doc(w) IN
  /\ Kind(w) = "raise" /\ rowLock[Transfer(w)] = NoWorker
  /\ status' = [status EXCEPT ![r] = "draft"]
  /\ NextRevision(r)
  /\ date' = [date EXCEPT ![r] = req[w].day]
  /\ creator' = [creator EXCEPT ![r] = req[w].by]
  /\ of' = [of EXCEPT ![r] = Transfer(w)]
  /\ lines' = [lines EXCEPT ![r] = req[w].line]
  /\ Idle(w) /\ Release(w)
  /\ UNCHANGED <<cargo, entries, undo, undoDate, receipt, found, submitter, approver>>

Picked(q) ==
  [p \in Places |-> CASE p = "origin" -> 0 - q [] p = "in_transit" -> q [] OTHER -> 0]

Dispatch(w) ==
  LET t == Doc(w)
      change == Picked(req[w].take)
  IN
  /\ Kind(w) = "dispatch" /\ Allowed(change)
  /\ cargo' = [cargo EXCEPT ![t] = req[w].take]
  /\ entries' = [entries EXCEPT ![t] = change]
  /\ status' = [status EXCEPT ![t] = "posted"]
  /\ NextRevision(t)
  /\ Idle(w) /\ Release(w)
  /\ UNCHANGED <<date, creator, undo, undoDate, receiving>>

Reverse(w) ==
  LET t == Doc(w)
      change == ReversalMovements(entries[t])
  IN
  /\ Kind(w) = "reverse" /\ Allowed(change)
  /\ undo' = [undo EXCEPT ![t] = change]
  /\ undoDate' = [undoDate EXCEPT ![t] = req[w].day]
  /\ Idle(w) /\ Release(w)
  /\ UNCHANGED <<status, revision, date, creator, cargo, entries, receiving>>

\* Clean as it is, the receipt is posted in a transaction of its own;
\* otherwise its findings are fixed and it waits for its approval.
Submit(w) ==
  LET r == Doc(w) IN
  /\ Kind(w) = "submit"
  /\ IF NeedsApproval(r, judged[w])
     THEN /\ found' = [found EXCEPT ![r] = judged[w]]
          /\ status' = [status EXCEPT ![r] = "submitted"]
          /\ NextRevision(r)
          /\ submitter' = [submitter EXCEPT ![r] = req[w].by]
          /\ Idle(w)
     ELSE /\ req' = [req EXCEPT ![w].kind = "clean"]
          /\ pc' = [pc EXCEPT ![w] = "lock"]
          /\ judged' = [judged EXCEPT ![w] = "unfixed"]
          /\ UNCHANGED <<found, status, revision, submitter>>
  /\ Release(w)
  /\ UNCHANGED <<date, creator, cargo, entries, undo, undoDate, receipt, of, lines, approver>>

\* Approved, and then posted in a transaction of its own.
Approve(w) ==
  LET r == Doc(w) IN
  /\ Kind(w) = "approve"
  /\ status' = [status EXCEPT ![r] = "approved"]
  /\ NextRevision(r)
  /\ approver' = [approver EXCEPT ![r] = req[w].by]
  /\ req' = [req EXCEPT ![w].kind = "post", ![w].revision = @ + 1]
  /\ pc' = [pc EXCEPT ![w] = "lock"]
  /\ judged' = [judged EXCEPT ![w] = "unfixed"]
  /\ Release(w)
  /\ UNCHANGED <<date, creator, cargo, entries, undo, undoDate,
                 receipt, of, lines, found, submitter>>

\* Mutant: the transfer records its own document as its receipt.
WrongDocument(t, r) == [receipt EXCEPT ![t] = t]

MarkReceived(t, r) == [receipt EXCEPT ![t] = r]

\* Everything that was dispatched leaves transit, and goes where it should.
Received(r) ==
  LET l == lines[r] IN
  [p \in Places |->
    CASE p = "in_transit" -> 0 - (l.accepted + l.returned + l.writtenOff)
      [] p = "destination" -> l.accepted
      [] OTHER -> l.returned]

PostReceipt(w) ==
  LET r == Doc(w)
      change == Received(r)
  IN
  /\ Receives(w) /\ Allowed(change)
  /\ receipt' = MarkReceived(Transfer(w), r)
  /\ found' = [found EXCEPT ![r] = judged[w]]
  /\ submitter' = [submitter EXCEPT ![r] = IF Kind(w) = "clean" THEN req[w].by ELSE @]
  /\ entries' = [entries EXCEPT ![r] = change]
  /\ status' = [status EXCEPT ![r] = "posted"]
  /\ NextRevision(r)
  /\ Idle(w) /\ Release(w)
  /\ UNCHANGED <<date, creator, cargo, undo, undoDate, of, lines, approver>>

Change(w) ==
  CASE Kind(w) = "dispatch" -> Picked(req[w].take)
    [] Kind(w) = "reverse" -> ReversalMovements(entries[Doc(w)])
    [] Receives(w) -> Received(Doc(w))
    [] OTHER -> Nowhere

Write(w) ==
  /\ pc[w] = "write"
  /\ \/ /\ RaiseReceipt(w) \/ Dispatch(w) \/ Reverse(w) \/ Submit(w) \/ Approve(w) \/ PostReceipt(w)
        /\ UNCHANGED <<masterData, crashes>>
     \/ ~Allowed(Change(w)) /\ Refuse(w)

\* The request dies, and what it had not committed is gone.
Crash(w) ==
  /\ pc[w] # "idle" /\ crashes < MaxCrashes
  /\ crashes' = crashes + 1
  /\ Idle(w) /\ Release(w)
  /\ UNCHANGED <<documents, receiving, masterData>>

Step(w) == LockDocument(w) \/ LockTransfer(w) \/ Decide(w) \/ Write(w)

Next ==
  \/ ChangeMasterData
  \/ \E t \in Transfers, day \in Days :
       UpdateTransfer(t, day) \/ \E p \in People : CreateTransfer(t, p, day)
  \/ \E t \in Transfers : CancelTransfer(t)
  \/ \E r \in Receipts :
       RejectReceipt(r) \/ \E l \in Lines, day \in Days : UpdateReceipt(r, l, day)
  \/ \E w \in Workers : Step(w) \/ Crash(w) \/ \E p \in People : Ask(w, p)

Spec == Init /\ [][Next]_vars

------------------------------------------------------------------------------
(* Properties *)

\* Every variable has its type, and a stored line its shape.
TypeOK ==
  /\ status \in [Docs -> ReceiptStatuses \cup {"cancelled"}]
  /\ \A t \in Transfers : status[t] \in {"none", "draft", "posted", "cancelled"}
  /\ \A r \in Receipts : status[r] \in ReceiptStatuses
  /\ revision \in [Docs -> Nat]
  /\ date \in [Docs -> Days]
  /\ creator \in [Docs -> People \cup {Nobody}]
  /\ cargo \in [Transfers -> Quantities \cup {0}]
  /\ entries \in [Docs -> [Places -> Int]]
  /\ undo \in [Transfers -> [Places -> Int]]
  /\ undoDate \in [Transfers -> Days \cup {0}]
  /\ receipt \in [Transfers -> Receipts \cup {NoReceipt}]
  /\ of \in [Receipts -> Transfers \cup {NoTransfer}]
  /\ lines \in [Receipts -> Lines \cup {NoLine}]
  /\ \A r \in Receipts : lines[r].accepted + lines[r].returned <= lines[r].received
  /\ found \in [Receipts -> {"unfixed", "clean", "findings"}]
  /\ submitter \in [Receipts -> People \cup {Nobody}]
  /\ approver \in [Receipts -> People \cup {Nobody}]
  /\ tolerances \in Tolerances
  /\ active \in BOOLEAN
  /\ docLock \in [Docs -> Workers \cup {NoWorker}]
  /\ rowLock \in [Transfers -> Workers \cup {NoWorker}]
  /\ pc \in [Workers -> {"idle", "lock", "row", "decide", "write"}]
  /\ req \in [Workers -> Requests]
  /\ judged \in [Workers -> {"unfixed", "clean", "findings"}]
  /\ crashes \in 0 .. MaxCrashes

\* Dispatched by the end of the day, and neither received nor reversed by then.
OnTheRoad(t, day) ==
  /\ status[t] = "posted" /\ date[t] <= day
  /\ receipt[t] # NoReceipt => date[receipt[t]] > day
  /\ Reversed(t) => undoDate[t] > day

\* An in-transit location mixes every transfer from its origin, and yet what
\* it holds at the end of any day is what the transfers on the road that day
\* took out, and nothing else (TransfersService.inTransit; ADR-0028, decision
\* 8).
InTransitIsOwned ==
  \A day \in Days :
    Balance("in_transit", day)
      = SumFunction([t \in {u \in Transfers : OnTheRoad(u, day)} |-> cargo[t]])

\* The transfer's receipt is the one posted receipt of it (ADR-0028, decision
\* 3: exactly one receipt posts).
OneReceiptPosts ==
  \A r \in Receipts : status[r] = "posted" <=> \E t \in Transfers : receipt[t] = r

\* Stock is lost, and a finding is passed over, only with the approval of
\* someone who neither raised nor submitted the receipt, whatever becomes of
\* the item's tolerances in between (ADR-0028, decision 6).
LossIsApproved ==
  \A r \in Receipts :
    status[r] = "posted" /\ (found[r] = "findings" \/ lines[r].writtenOff > 0) =>
      approver[r] \notin {Nobody, creator[r], submitter[r]}

\* An approver approves what was on their page, and that is what posts: from
\* its approval on a receipt, its lines and its findings stay as they were.
ApprovedAsSeen ==
  [][\A r \in Receipts :
       /\ status'[r] = "approved" /\ status[r] # "approved" =>
            \E w \in Workers : Doc(w) = r /\ Kind(w) = "approve" /\ req[w].line = lines[r]
       /\ status[r] \in {"submitted", "approved", "posted"} =>
            /\ lines'[r] = lines[r] /\ found'[r] = found[r] /\ date'[r] = date[r]
            /\ status'[r] \notin {"none", "draft"}]_vars

\* What the ledger says of a transfer: its own entries, its reversal's and its
\* receipts'.
Settling(t) == {r \in Receipts : of[r] = t}

Moved(t, p) == entries[t][p] + undo[t][p] + SumFunction([r \in Settling(t) |-> entries[r][p]])

Stage(t) == IF TransferStatus(t) \in {"none", "draft"} THEN "planned" ELSE TransferStatus(t)

Journey == INSTANCE TransferJourney WITH
  stage <- [t \in Transfers |-> Stage(t)],
  left <- [t \in Transfers |-> 0 - Moved(t, "origin")],
  road <- [t \in Transfers |-> Moved(t, "in_transit")],
  kept <- [t \in Transfers |-> Moved(t, "destination")]

\* A transfer's stock leaves the origin once, and comes out of transit once
\* and whole, counted from the ledger's entries (ADR-0007, decision 4).
ImplementsTransferJourney == Journey!Spec
=============================================================================
