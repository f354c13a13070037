--------------------------- MODULE SalesConsumption ---------------------------
(***************************************************************************)
(* From a POS sale to branch consumption: SalesEventsService.ingest stores *)
(* the sales a POS delivers, again and again until it is answered, and     *)
(* BranchConsumptionService turns each into one posted document.           *)
(*                                                                         *)
(* A processor works in two transactions per sale: the claim, which locks  *)
(* the sales event, judges it and leaves a draft, and the posting, which   *)
(* locks the draft, takes the stock and moves the event.  Between the two  *)
(* nothing is locked, and the day the claim judges by is read before it.   *)
(* Several processors run at once: one run on each replica, and the        *)
(* requests of people who re-process a sale.  Any of them may stop at any  *)
(* point.  The job lock that keeps the timers of the replicas apart is     *)
(* left out: a run started by a person does not take it, and one that      *)
(* outlives its lock goes on, so every overlap can happen.                 *)
(***************************************************************************)
EXTENDS Naturals, SequencesExt

CONSTANTS
  Events,      \* idempotency keys
  Sales,       \* what a POS may send under a key: content and instance
  NoSale,
  Day,         \* the sale's date in the company's time zone
  Ahead,       \* the sales received further ahead than the tolerance
  Faults,      \* what may be wrong with the master data of a sale at first
  Runs,        \* one per replica
  Requests,    \* requests of people to re-process a sale
  System,      \* the automatic account
  NoWorker, NoEvent,
  Batch,       \* BATCH: how many waiting events a run takes up at a time
  LastDay,     \* bound: the days are 1 .. LastDay
  MaxHistory,  \* bound: a person asks again only while there are fewer attempts
  MaxStops     \* bound: how often a processor stops half-way

Workers == Runs \cup Requests

Reasons == {"unknown_menu_item", "no_recipe_in_effect", "sold_by_mismatch"}

ASSUME SalesAssumption ==
  /\ NoSale \notin Sales /\ NoWorker \notin Workers /\ NoEvent \notin Events
  /\ Runs \cap Requests = {}
  /\ System \notin Requests
  /\ Day \in [Sales -> 1 .. LastDay]
  /\ Ahead \subseteq Sales
  /\ Faults \subseteq Reasons \cup {"ok"}
  /\ {Batch, LastDay, MaxHistory} \subseteq Nat \ {0} /\ MaxStops \in Nat

VARIABLES
  today,
  arrived,    \* the stored events, in the order of received_at
  sale,       \* sales_events: what was stored under the key
  status,     \* sales_events.status
  answered,   \* the deliveries that were answered with a receipt
  history,    \* sales_event_processing of the event, in order
  doc,        \* the event's consumption document: its status and who posted it
  taken,      \* how many times the sale's ingredients were taken from stock
  fault,      \* what is wrong with its menu item or recipe, as master data stands
  eventLock, docLock,
  pc, event, queue, seen, held, more,  \* what each processor is at
  asOf,        \* the day each processor has read; 0 while it goes by none
  stops

tables == <<today, arrived, sale, status, answered, history, doc, taken, fault>>
locks == <<eventLock, docLock>>
locals == <<pc, event, queue, seen, held, more, asOf>>
vars == <<tables, locks, locals, stops>>

------------------------------------------------------------------------------
(* domain/consumption-rules.ts *)

Row(outcome, reason, by) == [outcome |-> outcome, reason |-> reason, by |-> by]

Outcome(e) == IF history[e] = <<>> THEN "none" ELSE Last(history[e]).outcome

Reviewed(e) == \E i \in DOMAIN history[e] : history[e][i].outcome = "reprocessed"

\* Mutant: that a person has looked at the hold is forgotten.
HoldsAgain(e, on) ==
  IF sale[e] \in Ahead THEN "hold" ELSE IF Day[sale[e]] > on THEN "wait" ELSE "process"

\* Mutant: a sale a person has looked at no longer waits for its day.
NeverWaits(e, on) == IF ~Reviewed(e) /\ sale[e] \in Ahead THEN "hold" ELSE "process"

SaleTimeDecision(e, on) ==
  IF ~Reviewed(e) /\ sale[e] \in Ahead THEN "hold"
  ELSE IF Day[sale[e]] > on THEN "wait" ELSE "process"

\* Whether asking again can help, for the reason of the latest attempt.
Reprocessable(e, on) ==
  CASE Outcome(e) = "held" -> Day[sale[e]] <= on
    [] Outcome(e) = "failed" ->
         \/ Last(history[e]).reason = "unknown_menu_item"
         \/ Last(history[e]).reason = "no_recipe_in_effect" /\ Day[sale[e]] >= on
    [] OTHER -> FALSE

------------------------------------------------------------------------------
Init ==
  /\ today = 1
  /\ arrived = <<>>
  /\ sale = [e \in Events |-> NoSale]
  /\ status = [e \in Events |-> "none"]
  /\ answered = {}
  /\ history = [e \in Events |-> <<>>]
  /\ doc = [e \in Events |-> [status |-> "none", by |-> NoWorker]]
  /\ taken = [e \in Events |-> 0]
  /\ fault \in [Events -> Faults]
  /\ eventLock = [e \in Events |-> NoWorker]
  /\ docLock = [e \in Events |-> NoWorker]
  /\ pc = [w \in Workers |-> "idle"]
  /\ event = [w \in Workers |-> NoEvent]
  /\ queue = [w \in Workers |-> <<>>]
  /\ seen = [w \in Workers |-> {}]
  /\ held = [w \in Workers |-> {}]
  /\ more = [w \in Workers |-> FALSE]
  /\ asOf = [w \in Workers |-> 0]
  /\ stops = 0

NextDay ==
  /\ today < LastDay
  /\ today' = today + 1
  /\ UNCHANGED <<arrived, sale, status, answered, history, doc, taken, fault,
                 locks, locals, stops>>

\* People put a menu item or a recipe right; a recipe never starts in the past.
FixMasterData(e) ==
  /\ \/ fault[e] = "unknown_menu_item" /\ fault' \in
          {[fault EXCEPT ![e] = f] : f \in {"ok", "no_recipe_in_effect"}}
     \/ /\ fault[e] = "no_recipe_in_effect"
        /\ sale[e] # NoSale => Day[sale[e]] >= today
        /\ fault' = [fault EXCEPT ![e] = "ok"]
  /\ UNCHANGED <<today, arrived, sale, status, answered, history, doc, taken,
                 locks, locals, stops>>

\* What a POS can send today: a sale of tomorrow is a clock ahead of ours, and
\* a sale of the past is not.
CanBeSent(s) == IF s \in Ahead THEN Day[s] >= today ELSE Day[s] <= today + 1

\* Mutant: the payload and the instance of a known key are not compared.
AnyUnderTheKey(e, s) == TRUE

SameSale(e, s) == sale[e] = s

\* ingest: INSERT ... ON CONFLICT DO NOTHING stores the first copy; any other
\* is answered as a duplicate when it is the same sale, and refused otherwise.
\* The answer may be lost, and the POS sends again.
Deliver(e, s) ==
  /\ \/ /\ sale[e] = NoSale /\ CanBeSent(s)
        /\ arrived' = Append(arrived, e)
        /\ sale' = [sale EXCEPT ![e] = s]
        /\ status' = [status EXCEPT ![e] = "received"]
        /\ answered' \in {answered, answered \cup {<<e, s>>}}
     \/ /\ sale[e] # NoSale /\ SameSale(e, s)
        /\ answered' = answered \cup {<<e, s>>}
        /\ UNCHANGED <<arrived, sale, status>>
  /\ UNCHANGED <<today, history, doc, taken, fault, locks, locals, stops>>

------------------------------------------------------------------------------
(* A run: runBatches *)

StartRun(r) ==
  /\ pc[r] = "idle"
  /\ pc' = [pc EXCEPT ![r] = "list"]
  /\ seen' = [seen EXCEPT ![r] = {}]
  /\ UNCHANGED <<tables, locks, event, queue, held, more, asOf, stops>>

\* heldEventIds
ListHeld(r) ==
  /\ pc[r] = "list"
  /\ held' = [held EXCEPT ![r] = {e \in Events : Outcome(e) = "held"}]
  /\ pc' = [pc EXCEPT ![r] = "select"]
  /\ UNCHANGED <<tables, locks, event, queue, seen, more, asOf, stops>>

Waiting(r) ==
  SelectSeq(arrived, LAMBDA e : status[e] = "received" /\ e \notin held[r] \cup seen[r])

Take(r, es) ==
  /\ pc' = [pc EXCEPT ![r] = "read"]
  /\ event' = [event EXCEPT ![r] = Head(es)]
  /\ queue' = [queue EXCEPT ![r] = Tail(es)]
  /\ seen' = [seen EXCEPT ![r] = @ \cup {Head(es)}]

Idle(w) ==
  /\ pc' = [pc EXCEPT ![w] = "idle"]
  /\ event' = [event EXCEPT ![w] = NoEvent]
  /\ queue' = [queue EXCEPT ![w] = <<>>]
  /\ seen' = [seen EXCEPT ![w] = {}]
  /\ held' = [held EXCEPT ![w] = {}]
  /\ more' = [more EXCEPT ![w] = FALSE]

\* waitingSalesEventIds
Select(r) ==
  /\ pc[r] = "select"
  /\ LET es == Waiting(r) IN
       IF es = <<>> THEN Idle(r)
       ELSE /\ Take(r, SubSeq(es, 1, IF Len(es) < Batch THEN Len(es) ELSE Batch))
            /\ more' = [more EXCEPT ![r] = Len(es) >= Batch]
            /\ UNCHANGED held
  /\ UNCHANGED <<tables, locks, asOf, stops>>

\* The processor is done with its event: the next of the batch, and after a
\* full batch the next one.
Proceed(w) ==
  IF queue[w] # <<>> THEN Take(w, queue[w]) /\ UNCHANGED <<held, more>>
  ELSE IF more[w] THEN
    /\ pc' = [pc EXCEPT ![w] = "list"]
    /\ event' = [event EXCEPT ![w] = NoEvent]
    /\ UNCHANGED <<queue, seen, held, more>>
  ELSE Idle(w)

------------------------------------------------------------------------------
\* The day: ledger.today().
ReadDay(w) == asOf' = [asOf EXCEPT ![w] = today]

ForgetDay(w) == asOf' = [asOf EXCEPT ![w] = 0]

(* A person's request: reprocess, which reads the day before it locks *)

AskAgain(q, e) ==
  /\ pc[q] = "idle"
  /\ sale[e] # NoSale /\ Len(history[e]) < MaxHistory
  /\ pc' = [pc EXCEPT ![q] = "ask"]
  /\ event' = [event EXCEPT ![q] = e]
  /\ ReadDay(q)
  /\ UNCHANGED <<tables, locks, queue, seen, held, more, stops>>

\* The transaction that records the request: the event's lock, the status and
\* the latest attempt decide, and a failed event is received again.
RecordRequest(q) ==
  LET e == event[q] IN
  /\ pc[q] = "ask"
  /\ eventLock[e] = NoWorker
  /\ IF status[e] \in {"received", "failed"} /\ Reprocessable(e, asOf[q])
     THEN /\ history' = [history EXCEPT ![e] = Append(@, Row("reprocessed", "none", q))]
          /\ status' = [status EXCEPT ![e] = "received"]
          /\ pc' = [pc EXCEPT ![q] = "read"]
          /\ UNCHANGED <<event, queue, seen, held, more>>
     ELSE Idle(q) /\ UNCHANGED <<history, status>>
  /\ ForgetDay(q)
  /\ UNCHANGED <<today, arrived, sale, answered, doc, taken, fault, locks, stops>>

------------------------------------------------------------------------------
(* One event: claim, then post *)

\* The day, before the claim's transaction.
StartClaim(w) ==
  /\ pc[w] = "read"
  /\ pc' = [pc EXCEPT ![w] = "claim"]
  /\ ReadDay(w)
  /\ UNCHANGED <<tables, locks, event, queue, seen, held, more, stops>>

\* lockSalesEvent, for an event that is received: a run skips one that is
\* locked, a person's request waits for it.
ClaimEvent(w) ==
  LET e == event[w] IN
  /\ pc[w] = "claim"
  /\ \/ /\ eventLock[e] = NoWorker /\ status[e] = "received"
        /\ eventLock' = [eventLock EXCEPT ![e] = w]
        /\ pc' = [pc EXCEPT ![w] = "judge"]
        /\ UNCHANGED <<event, queue, seen, held, more, asOf>>
     \/ /\ IF eventLock[e] = NoWorker THEN status[e] # "received" ELSE w \in Runs
        /\ Proceed(w) /\ ForgetDay(w)
        /\ UNCHANGED eventLock
  /\ UNCHANGED <<tables, docLock, stops>>

Actor(w) == IF w \in Runs THEN System ELSE w

Record(e, w, outcome, reason) ==
  history' = [history EXCEPT ![e] = Append(@, Row(outcome, reason, Actor(w)))]

\* Mutant: an event that has a draft is taken for one that is being posted.
DraftLeftAlone(e) == doc[e].status # "none" \/ Outcome(e) = "held"

\* What another processor has settled since, or left for a person.
LeftAlone(e) == doc[e].status = "posted" \/ (doc[e].status = "none" /\ Outcome(e) = "held")

\* The rest of the claim's transaction, which ends with the event's lock.
Judged(w) ==
  /\ pc[w] = "judge"
  /\ ForgetDay(w)
  /\ eventLock' = [eventLock EXCEPT ![event[w]] = NoWorker]
  /\ UNCHANGED <<today, arrived, sale, answered, taken, fault, docLock, stops>>

\* A sale nobody has judged, or people have asked to judge again.
Fresh(e) == ~LeftAlone(e) /\ doc[e].status = "none"

LeaveEvent(w) ==
  /\ LeftAlone(event[w]) \/ (Fresh(event[w]) /\ SaleTimeDecision(event[w], asOf[w]) = "wait")
  /\ Judged(w)
  /\ Proceed(w)
  /\ UNCHANGED <<status, history, doc>>

HoldEvent(w) ==
  /\ Fresh(event[w]) /\ SaleTimeDecision(event[w], asOf[w]) = "hold"
  /\ Judged(w)
  /\ Record(event[w], w, "held", "sale_time_ahead")
  /\ Proceed(w)
  /\ UNCHANGED <<status, doc>>

FailEvent(w) ==
  LET e == event[w] IN
  /\ Fresh(e) /\ SaleTimeDecision(e, asOf[w]) = "process" /\ fault[e] # "ok"
  /\ Judged(w)
  /\ Record(e, w, "failed", fault[e])
  /\ status' = [status EXCEPT ![e] = "failed"]
  /\ Proceed(w)
  /\ UNCHANGED doc

\* createDraft, or the draft of a processor that stopped before posting it.
DraftConsumption(w) ==
  LET e == event[w] IN
  /\ \/ /\ Fresh(e) /\ SaleTimeDecision(e, asOf[w]) = "process" /\ fault[e] = "ok"
        /\ doc' = [doc EXCEPT ![e].status = "draft"]
     \/ doc[e].status = "draft" /\ UNCHANGED doc
  /\ Judged(w)
  /\ pc' = [pc EXCEPT ![w] = "post"]
  /\ UNCHANGED <<status, history, event, queue, seen, held, more>>

\* Mutant: the ledger does not look whether the document is posted already.
NeverPosted(e) == FALSE

AlreadyPosted(e) == doc[e].status = "posted"

\* LedgerService.post locks the document; a document posted meanwhile is skipped.
LockDraft(w) ==
  LET e == event[w] IN
  /\ pc[w] = "post"
  /\ docLock[e] = NoWorker
  /\ IF AlreadyPosted(e) THEN Proceed(w) /\ UNCHANGED docLock
     ELSE /\ docLock' = [docLock EXCEPT ![e] = w]
          /\ pc' = [pc EXCEPT ![w] = "moving"]
          /\ UNCHANGED <<event, queue, seen, held, more>>
  /\ UNCHANGED <<tables, eventLock, asOf, stops>>

\* afterPosting: setSalesEventStatus waits for the event's row.
LockEvent(w) ==
  LET e == event[w] IN
  /\ pc[w] = "moving"
  /\ eventLock[e] = NoWorker
  /\ eventLock' = [eventLock EXCEPT ![e] = w]
  /\ pc' = [pc EXCEPT ![w] = "commit"]
  /\ UNCHANGED <<tables, docLock, event, queue, seen, held, more, asOf, stops>>

Commit(w) ==
  LET e == event[w] IN
  /\ pc[w] = "commit"
  /\ doc' = [doc EXCEPT ![e] = [status |-> "posted", by |-> Actor(w)]]
  /\ taken' = [taken EXCEPT ![e] = @ + 1]
  /\ status' = [status EXCEPT ![e] = "processed"]
  /\ Record(e, w, "processed", "none")
  /\ docLock' = [docLock EXCEPT ![e] = NoWorker]
  /\ eventLock' = [eventLock EXCEPT ![e] = NoWorker]
  /\ Proceed(w)
  /\ UNCHANGED <<today, arrived, sale, answered, fault, asOf, stops>>

\* A transaction fails, or the process dies: the run or the request is over,
\* and what it had not committed is gone.
Stop(w) ==
  /\ pc[w] # "idle"
  /\ stops < MaxStops
  /\ stops' = stops + 1
  /\ eventLock' = [e \in Events |-> IF eventLock[e] = w THEN NoWorker ELSE eventLock[e]]
  /\ docLock' = [e \in Events |-> IF docLock[e] = w THEN NoWorker ELSE docLock[e]]
  /\ Idle(w) /\ ForgetDay(w)
  /\ UNCHANGED tables

ProcessOne(w) ==
  \/ StartClaim(w)
  \/ ClaimEvent(w)
  \/ pc[w] = "judge" /\ (LeaveEvent(w) \/ HoldEvent(w) \/ FailEvent(w) \/ DraftConsumption(w))
  \/ LockDraft(w)
  \/ LockEvent(w)
  \/ Commit(w)

RunStep(r) == ListHeld(r) \/ Select(r) \/ ProcessOne(r)

RequestStep(q) == RecordRequest(q) \/ ProcessOne(q)

Next ==
  \/ NextDay
  \/ \E e \in Events : FixMasterData(e) \/ \E s \in Sales : Deliver(e, s)
  \/ \E r \in Runs : StartRun(r) \/ RunStep(r)
  \/ \E q \in Requests : RequestStep(q) \/ \E e \in Events : AskAgain(q, e)
  \/ \E w \in Workers : Stop(w)

Spec == Init /\ [][Next]_vars

\* Days pass, the timer of some replica goes off again and again, and a run
\* that can take its next statement takes it.
FairSpec ==
  /\ Spec
  /\ WF_vars(NextDay)
  /\ \A r \in Runs : WF_vars(StartRun(r)) /\ SF_vars(RunStep(r))
  /\ \A q \in Requests : SF_vars(RequestStep(q))

------------------------------------------------------------------------------
(* Properties *)

\* Every variable has its type.
TypeOK ==
  /\ today \in 1 .. LastDay
  /\ arrived \in Seq(Events)
  /\ sale \in [Events -> Sales \cup {NoSale}]
  /\ status \in [Events -> {"none", "received", "failed", "processed"}]
  /\ answered \subseteq Events \X Sales
  /\ \A e \in Events : \A i \in DOMAIN history[e] :
       /\ history[e][i].outcome \in {"held", "failed", "reprocessed", "processed"}
       /\ history[e][i].by \in Requests \cup {System}
  /\ doc \in [Events -> [status : {"none", "draft", "posted"},
                          by : Requests \cup {System, NoWorker}]]
  /\ taken \in [Events -> Nat]
  /\ fault \in [Events -> Reasons \cup {"ok"}]
  /\ eventLock \in [Events -> Workers \cup {NoWorker}]
  /\ docLock \in [Events -> Workers \cup {NoWorker}]
  /\ pc \in [Workers -> {"idle", "list", "select", "ask", "read", "claim", "judge",
                          "post", "moving", "commit"}]
  /\ event \in [Workers -> Events \cup {NoEvent}]
  /\ queue \in [Workers -> Seq(Events)]
  /\ seen \in [Workers -> SUBSET Events]
  /\ held \in [Workers -> SUBSET Events]
  /\ more \in [Workers -> BOOLEAN]
  /\ asOf \in [Workers -> 0 .. today]
  /\ stops \in 0 .. MaxStops

\* Whatever a POS sends twice, and however copies race, an answered sale is
\* stored, as it was answered: one key never stands for two sales (ingest).
AnsweredIsStored == \A a \in answered : sale[a[1]] = a[2]

\* The event's status, its last attempt and its document tell one story: an
\* event is processed exactly when its document is posted and its stock taken,
\* and failed exactly when its last attempt failed (claim, afterPosting, the
\* trigger on sales_events).
StoriesAgree ==
  \A e \in Events :
    /\ status[e] = "processed" <=> doc[e].status = "posted"
    /\ status[e] = "processed" <=> Outcome(e) = "processed"
    /\ status[e] = "failed" <=> Outcome(e) = "failed"
    /\ taken[e] = IF status[e] = "processed" THEN 1 ELSE 0

\* No sale is consumed before its day, not even one a person has asked for;
\* a clock that is ahead never puts stock into the future (ADR-0030, decision
\* 5; saleTimeDecision).
NeverBeforeItsDay ==
  \A e \in Events : doc[e].status # "none" => Day[sale[e]] <= today

\* Where a sale stands, from its status and its last attempt.
Life ==
  [e \in Events |->
    IF status[e] = "none" THEN "unknown"
    ELSE IF status[e] = "processed" THEN "consumed"
    ELSE CASE Outcome(e) = "none" -> "received"
           [] Outcome(e) = "reprocessed" -> "asked"
           [] OTHER -> Outcome(e)]

Lifecycle == INSTANCE SaleLifecycle WITH life <- Life

\* A sale takes stock once, and goes through its life as the company was
\* promised: held only when it comes in, and tried again after a failure or a
\* hold only when a person asked.
ImplementsSaleLifecycle == Lifecycle!Spec

\* Every sale the ERP has stored is settled in the end: consumed, failed with
\* a reason or held for a person, whatever order replicas take the events up
\* in and wherever they stop (runBatches, the draft left over in claim).
EverySaleIsSettled ==
  \A e \in Events :
    status[e] = "received" /\ Outcome(e) # "held" ~>
      status[e] \in {"processed", "failed"} \/ Outcome(e) = "held"
==============================================================================
