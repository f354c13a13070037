---------------------------- MODULE Requisitions ----------------------------
(***************************************************************************)
(* Branch requisitions and the transfers prepared from them:               *)
(* RequisitionsService over TransfersService.  A branch asks for stock of  *)
(* an item by a date, and logistics sends it with any number of transfers; *)
(* how far a requisition is fulfilled is read from what its transfers      *)
(* dispatched, and is not stored.                                          *)
(*                                                                         *)
(* A transfer is known here by what TransferJourney promises of it, which  *)
(* Transfers is shown to keep.  The branch's own steps go by nothing they  *)
(* read before they have locked the requisition at the revision the person *)
(* saw, save the calendar and whether the branch is in use, so each is one *)
(* step, but for cancelling: it and preparing a transfer read a            *)
(* requisition's transfers, and ofRequisitions is several statements, none *)
(* of which the lock of the requisition keeps a dispatch from falling      *)
(* between.  Steps of the transfers do not lock the requisition at all.    *)
(***************************************************************************)
EXTENDS Integers, FiniteSets, FiniteSetsExt

CONSTANTS
  Requisitions, Transfers,
  Workers,       \* transfers being prepared, and cancellations, at a time
  Quantities,    \* what may be asked for, sent instead, or taken from the stock
  MaxRevision,   \* bound: a draft is edited only below this revision
  NoRequisition

ASSUME RequisitionsAssumption ==
  /\ IsFiniteSet(Transfers)
  /\ Quantities \subseteq Nat \ {0}
  /\ MaxRevision \in Nat \ {0}
  /\ NoRequisition \notin Requisitions

VARIABLES
  inUse,                               \* whether the branch is in use
  status, revision, requested, late,   \* requisitions: late once needed_by has passed
  of, planned, picked,                 \* transfers.requisition_id, their lines and picks
  stage, left, road, kept,             \* where each transfer stands
  pc, req,                             \* what each worker is at, and goes by
  beyond                               \* what of each transfer was not outstanding

requisitions == <<status, revision, requested, late>>
transfers == <<of, planned, picked, stage, left, road, kept>>
vars == <<inUse, requisitions, transfers, pc, req, beyond>>

Journey == INSTANCE TransferJourney

\* seen: the transfers whose picks were read; extra: what of the quantity to
\* send is not outstanding.
NoRequest ==
  [requisition |-> NoRequisition, revision |-> 0, seen |-> {}, send |-> 0, extra |-> 0]

Init ==
  /\ inUse = TRUE
  /\ status = [q \in Requisitions |-> "none"]
  /\ revision = [q \in Requisitions |-> 0]
  /\ requested = [q \in Requisitions |-> 0]
  /\ late = [q \in Requisitions |-> FALSE]
  /\ of = [t \in Transfers |-> NoRequisition]
  /\ planned = [t \in Transfers |-> 0]
  /\ picked = [t \in Transfers |-> 0]
  /\ Journey!Init
  /\ pc = [w \in Workers |-> "idle"]
  /\ req = [w \in Workers |-> NoRequest]
  /\ beyond = [t \in Transfers |-> 0]

------------------------------------------------------------------------------
(* What its transfers did with a requisition: ofRequisitions, fulfilment    *)

Of(q) == {t \in Transfers : of[t] = q}

Counts(t) == stage[t] \in {"dispatched", "received"}

\* The picks are read before the statuses: a transfer dispatched in between
\* is seen as dispatched, with nothing.
WithPicks(q) == {t \in Of(q) : picked[t] > 0}

Dispatched(q, seen) == SumFunction([t \in {u \in Of(q) \cap seen : Counts(u)} |-> picked[t]])

Drafts(q) == {t \in Of(q) : stage[t] = "planned"}

Drafted(q) == SumFunction([t \in Drafts(q) |-> planned[t]])

\* domain/requisition-rules.ts
RequisitionStatus(q, seen) ==
  IF status[q] # "submitted" THEN status[q]
  ELSE IF Dispatched(q, seen) >= requested[q] THEN "fulfilled"
  ELSE IF Dispatched(q, seen) > 0 THEN "partially_fulfilled" ELSE "submitted"

Unfilled(q, seen) == requested[q] - (Dispatched(q, seen) + Drafted(q))

Outstanding(q, seen) == Max({0, Unfilled(q, seen)})

\* What of a requisition a transfer takes up: what it plans, or what it took.
TakesUp(t) ==
  CASE stage[t] = "planned" -> planned[t]
    [] stage[t] \in {"dispatched", "received"} -> picked[t]
    [] OTHER -> 0

\* What of that was outstanding when the transfer took it up.
Within(t) ==
  IF stage[t] \in {"planned", "dispatched", "received"} THEN TakesUp(t) - beyond[t] ELSE 0

StepAllowed(s, step) ==
  CASE step = "cancel" -> s \in {"draft", "submitted"}
    [] step = "fulfil" -> s \in {"submitted", "partially_fulfilled"}
    [] OTHER -> s = "draft"

------------------------------------------------------------------------------
(* The branch's steps *)

Idle(w) ==
  /\ pc' = [pc EXCEPT ![w] = "idle"]
  /\ req' = [req EXCEPT ![w] = NoRequest]

Refuse(w) == Idle(w) /\ UNCHANGED <<inUse, requisitions, transfers, beyond>>

NextRevision(q) == revision' = [revision EXCEPT ![q] = @ + 1]

\* The row of the requisition, FOR UPDATE.
Free(q) == \A w \in Workers : pc[w] \in {"cancel", "write"} => req[w].requisition # q

Create(q, quantity) ==
  /\ status[q] = "none" /\ inUse
  /\ status' = [status EXCEPT ![q] = "draft"]
  /\ NextRevision(q)
  /\ requested' = [requested EXCEPT ![q] = quantity]
  /\ UNCHANGED <<inUse, late, transfers, pc, req, beyond>>

Update(q, quantity, postponed) ==
  /\ Free(q) /\ StepAllowed(status[q], "edit") /\ inUse
  /\ revision[q] < MaxRevision
  /\ NextRevision(q)
  /\ requested' = [requested EXCEPT ![q] = quantity]
  /\ late' = [late EXCEPT ![q] = @ /\ ~postponed]
  /\ UNCHANGED <<inUse, status, transfers, pc, req, beyond>>

Submit(q) ==
  /\ Free(q) /\ StepAllowed(status[q], "submit") /\ inUse
  /\ ~late[q]
  /\ status' = [status EXCEPT ![q] = "submitted"]
  /\ NextRevision(q)
  /\ UNCHANGED <<inUse, requested, late, transfers, pc, req, beyond>>

\* Its transaction starts: the requisition is locked at the revision the
\* person saw, and the picks of its transfers are read.
BeginCancel(w, q) ==
  /\ pc[w] = "idle" /\ Free(q) /\ inUse
  /\ status[q] # "none"
  /\ pc' = [pc EXCEPT ![w] = "cancel"]
  /\ req' = [req EXCEPT ![w].requisition = q, ![w].seen = WithPicks(q)]
  /\ UNCHANGED <<inUse, requisitions, transfers, beyond>>

NoneInPreparation(q) == Drafts(q) = {}

\* Mutant: the database leaves it to the service.
LeftToTheService(q) == TRUE

\* What erp_requisition_guard looks at as the row is updated.
NotServed(q) == \A t \in Of(q) : stage[t] \in {"cancelled", "reversed"}

Cancel(w) ==
  LET q == req[w].requisition IN
  /\ pc[w] = "cancel"
  /\ IF /\ StepAllowed(RequisitionStatus(q, req[w].seen), "cancel")
        /\ NoneInPreparation(q)
        /\ NotServed(q)
     THEN /\ status' = [status EXCEPT ![q] = "cancelled"]
          /\ NextRevision(q)
          /\ Idle(w)
          /\ UNCHANGED <<inUse, requested, late, transfers, beyond>>
     ELSE Refuse(w)

------------------------------------------------------------------------------
(* Preparing a transfer: createTransfer *)

\* Someone with the requisition in front of them asks for a transfer of what
\* is outstanding, or of a quantity of their own; the picks are read first.
Ask(w, q, own) ==
  /\ pc[w] = "idle" /\ status[q] # "none"
  /\ pc' = [pc EXCEPT ![w] = "read"]
  /\ req' = [req EXCEPT ![w] =
       [requisition |-> q, revision |-> revision[q], seen |-> WithPicks(q),
        send |-> own, extra |-> 0]]
  /\ UNCHANGED <<inUse, requisitions, transfers, beyond>>

Read(w) ==
  LET q == req[w].requisition
      outstanding == Outstanding(q, req[w].seen)
      send == IF req[w].send > 0 THEN req[w].send ELSE outstanding
  IN
  /\ pc[w] = "read"
  /\ IF /\ StepAllowed(RequisitionStatus(q, req[w].seen), "fulfil")
        /\ send > 0 /\ inUse
     THEN /\ pc' = [pc EXCEPT ![w] = "lock"]
          /\ req' = [req EXCEPT ![w].send = send, ![w].seen = {},
                                ![w].extra = Max({0, send - Outstanding(q, Transfers)})]
          /\ UNCHANGED <<inUse, requisitions, transfers, beyond>>
     ELSE Refuse(w)

\* Mutant: the lock is taken, and the revision is not compared.
AtAnyRevision(w) == TRUE

AtRevisionSeen(w) == revision[req[w].requisition] = req[w].revision

Lock(w) ==
  LET q == req[w].requisition IN
  /\ pc[w] = "lock" /\ Free(q)
  /\ IF AtRevisionSeen(w)
     THEN /\ pc' = [pc EXCEPT ![w] = "write"]
          /\ req' = [req EXCEPT ![w].seen = WithPicks(q)]
          /\ UNCHANGED <<inUse, requisitions, transfers, beyond>>
     ELSE Refuse(w)

Write(w, t) ==
  LET q == req[w].requisition IN
  /\ pc[w] = "write"
  /\ IF StepAllowed(RequisitionStatus(q, req[w].seen), "fulfil")
     THEN /\ of[t] = NoRequisition
          /\ of' = [of EXCEPT ![t] = q]
          /\ planned' = [planned EXCEPT ![t] = req[w].send]
          /\ NextRevision(q)
          /\ beyond' = [beyond EXCEPT ![t] = req[w].extra]
          /\ Idle(w)
          /\ UNCHANGED <<inUse, status, requested, late, picked, stage, left, road, kept>>
     ELSE Refuse(w)

\* The request dies before its transaction commits.
Abandon(w) == pc[w] # "idle" /\ Refuse(w)

------------------------------------------------------------------------------
(* What becomes of the transfers *)

InPreparation(t) == of[t] # NoRequisition /\ stage[t] = "planned"

\* A transfer takes up n from here on.  What of it is not outstanding is kept
\* count of, and so is what of the quantity others are about to send no longer
\* is: the requisition's revision, which they go by, does not tell of it.
TakesOn(t, n) ==
  LET q == of[t]
      outstanding == Max({0, Unfilled(q, Transfers) - (n - TakesUp(t))}) IN
  /\ beyond' = [beyond EXCEPT ![t] = Max({0, n - (Within(t) + Outstanding(q, Transfers))})]
  /\ req' = [w \in Workers |->
       IF pc[w] \in {"lock", "write"} /\ req[w].requisition = q
       THEN [req[w] EXCEPT !.extra = Max({0, req[w].send - outstanding})]
       ELSE req[w]]

UpdateTransfer(t, quantity) ==
  /\ InPreparation(t)
  /\ planned' = [planned EXCEPT ![t] = quantity]
  /\ TakesOn(t, quantity)
  /\ UNCHANGED <<inUse, requisitions, of, picked, stage, left, road, kept, pc>>

CancelTransfer(t) ==
  /\ InPreparation(t) /\ Journey!Cancel(t)
  /\ UNCHANGED <<inUse, requisitions, of, planned, picked, pc, req, beyond>>

\* What is taken is what the lots are picked for, whatever the lines say.
DispatchTransfer(t) ==
  /\ InPreparation(t) /\ inUse /\ Journey!Dispatch(t)
  /\ picked' = [picked EXCEPT ![t] = road'[t]]
  /\ TakesOn(t, road'[t])
  /\ UNCHANGED <<inUse, requisitions, of, planned, pc>>

SettleTransfer(t) ==
  /\ Journey!Receive(t) \/ Journey!TurnBack(t)
  /\ UNCHANGED <<inUse, requisitions, of, planned, picked, pc, req, beyond>>

------------------------------------------------------------------------------
\* After the submission the day only tells on par misses, not modelled here.
NextDay ==
  /\ \E q \in Requisitions :
       status[q] = "draft" /\ ~late[q] /\ late' = [late EXCEPT ![q] = TRUE]
  /\ UNCHANGED <<inUse, status, revision, requested, transfers, pc, req, beyond>>

ChangeLocation ==
  /\ inUse' = ~inUse
  /\ UNCHANGED <<requisitions, transfers, pc, req, beyond>>

Next ==
  \/ NextDay \/ ChangeLocation
  \/ \E q \in Requisitions :
       \/ Submit(q)
       \/ \E n \in Quantities :
            Create(q, n) \/ \E postponed \in BOOLEAN : Update(q, n, postponed)
       \/ \E w \in Workers :
            BeginCancel(w, q) \/ \E own \in Quantities \cup {0} : Ask(w, q, own)
  \/ \E w \in Workers :
       \/ Cancel(w) \/ Read(w) \/ Lock(w) \/ Abandon(w)
       \/ \E t \in Transfers : Write(w, t)
  \/ \E t \in Transfers :
       \/ CancelTransfer(t) \/ DispatchTransfer(t) \/ SettleTransfer(t)
       \/ \E n \in Quantities : UpdateTransfer(t, n)

Spec == Init /\ [][Next]_vars

------------------------------------------------------------------------------
(* Properties *)

\* Two people who prepare transfers of one requisition at once, while drafts
\* are edited, dispatched, cancelled, received or turned back, do not both
\* send what was outstanding, whether they ask for it or name the quantity:
\* within what was asked for stays all that was sent, but for what was not
\* outstanding when it was put into a transfer.  Such are what someone chose
\* to send beyond it, what was dispatched unseen while they were reading, and
\* what a draft was raised by unseen before they wrote (ADR-0029, decision 5;
\* RequisitionsService.createTransfer).
NothingSentTwice ==
  \A q \in Requisitions : SumFunction([t \in Of(q) |-> Within(t)]) <= requested[q]

\* A cancelled requisition is nobody's errand: no transfer of it is being
\* prepared, on the road, or at the branch, whichever of the cancellation and
\* the transfer came first, and also where the transfer was dispatched while
\* the cancellation was reading (ADR-0029, decision 6; RequisitionsService
\* .cancel and the erp_requisition_guard trigger).
CancelledIsUnserved ==
  \A q \in Requisitions : status[q] = "cancelled" =>
    \A t \in Of(q) : stage[t] \in {"cancelled", "reversed"}
=============================================================================
