------------------------------ MODULE SalesProofs ------------------------------
(***************************************************************************)
(* Proofs about module SalesConsumption, for any number of sales, replicas *)
(* and requests of people, and any number of days, attempts and stops.     *)
(* What a run has queued is never looked at: whatever it takes up, the     *)
(* event's lock, its status and its draft decide.                          *)
(* After them, proofs about module BranchStock, which lots a sale takes,   *)
(* for any number of lots, consumers, sales and arrivals, and any expiry   *)
(* dates.                                                                  *)
(***************************************************************************)
EXTENDS SalesConsumption, BranchStock, SumTheorems, SequenceTheorems

Rows == [outcome : {"held", "failed", "reprocessed", "processed"},
         reason : Reasons \cup {"none", "sale_time_ahead"},
         by : Requests \cup {System}]

Steps == {"idle", "list", "select", "ask", "read", "claim", "judge", "post", "moving", "commit"}

Types ==
  /\ today \in 1 .. LastDay
  /\ sale \in [Events -> Sales \cup {NoSale}]
  /\ status \in [Events -> {"none", "received", "failed", "processed"}]
  /\ answered \subseteq Events \X Sales
  /\ history \in [Events -> Seq(Rows)]
  /\ doc \in [Events -> [status : {"none", "draft", "posted"},
                          by : Requests \cup {System, NoWorker}]]
  /\ taken \in [Events -> Nat]
  /\ fault \in [Events -> Reasons \cup {"ok"}]
  /\ eventLock \in [Events -> Workers \cup {NoWorker}]
  /\ docLock \in [Events -> Workers \cup {NoWorker}]
  /\ pc \in [Workers -> Steps]
  /\ event = [w \in Workers |-> event[w]]
  /\ asOf \in [Workers -> 0 .. today]

\* An event's status, its last attempt and its document.
Story(e) ==
  /\ status[e] = "none" <=> sale[e] = NoSale
  /\ status[e] = "none" => Outcome(e) = "none"
  /\ status[e] = "processed" <=> Outcome(e) = "processed"
  /\ status[e] = "failed" <=> Outcome(e) = "failed"
  /\ status[e] = "processed" <=> doc[e].status = "posted"
  /\ taken[e] = IF status[e] = "processed" THEN 1 ELSE 0
  /\ doc[e].status = "draft" => status[e] = "received" /\ Outcome(e) \in {"none", "reprocessed"}
  /\ doc[e].status # "none" => Day[sale[e]] <= today

\* What a processor holds, and what it has found under its locks.
Holds(w) ==
  event[w] \in Events =>
    LET e == event[w] IN
    /\ pc[w] \in {"judge", "commit"} => eventLock[e] = w
    /\ pc[w] \in {"moving", "commit"} => docLock[e] = w /\ doc[e].status = "draft"
    /\ pc[w] = "judge" => status[e] = "received"
    /\ pc[w] = "post" => doc[e].status \in {"draft", "posted"}

Inv == /\ Types /\ (\A e \in Events : Story(e)) /\ (\A w \in Workers : Holds(w))
       /\ AnsweredIsStored

------------------------------------------------------------------------------
LEMMA Names ==
  /\ NoSale \notin Sales /\ NoWorker \notin Workers /\ NoEvent \notin Events
  /\ \A s \in Sales : Day[s] \in Nat
  /\ \A w \in Workers : Actor(w) \in Requests \cup {System}
BY SalesAssumption DEF Workers, Actor

LEMMA RowTypes ==
  ASSUME NEW outcome \in {"held", "failed", "reprocessed", "processed"},
         NEW reason \in Reasons \cup {"none", "sale_time_ahead"}, NEW by \in Requests \cup {System}
  PROVE  Row(outcome, reason, by) \in Rows
BY DEF Row, Rows

LEMMA LastOfAppend ==
  ASSUME NEW S, NEW s \in Seq(S), NEW x \in S
  PROVE  /\ Append(s, x) \in Seq(S) /\ Append(s, x) # <<>> /\ Last(Append(s, x)) = x
         /\ \A i \in DOMAIN s : i \in DOMAIN Append(s, x) /\ Append(s, x)[i] = s[i]
BY AppendProperties DEF Last

\* The outcome of the last attempt, and what reviewing a sale leaves behind.
LEMMA Outcomes ==
  ASSUME NEW e \in Events, history[e] \in Seq(Rows)
  PROVE  /\ Outcome(e) \in {"none", "held", "failed", "reprocessed", "processed"}
         /\ Outcome(e) = "reprocessed" => Reviewed(e)
<1>1. history[e] # <<>> => Len(history[e]) \in DOMAIN history[e] /\ Last(history[e]) \in Rows
  BY DEF Last
<1>. QED
  BY <1>1 DEF Outcome, Reviewed, Rows, Last

------------------------------------------------------------------------------
(* Processors *)

\* Before it claims an event a processor holds nothing.
Resting == {"idle", "list", "select", "ask", "read", "claim"}

LEMMA RestsHolds == \A w \in Workers : pc'[w] \in Resting => Holds(w)'
BY DEF Holds, Resting

\* One processor steps, and the others stay where they are.
Moves(w) ==
  /\ \A v \in Workers \ {w} : pc'[v] = pc[v] /\ event'[v] = event[v]
  /\ pc' \in [Workers -> Steps] /\ event' = [v \in Workers |-> event'[v]]
  /\ asOf' \in [Workers -> 0 .. today]

\* What a step of a processor does with the day it has read.
MindsDay(w) == UNCHANGED asOf \/ ReadDay(w) \/ ForgetDay(w)

LEMMA StepMoves ==
  ASSUME Types, NEW w \in Workers, NEW at \in Steps, pc' = [pc EXCEPT ![w] = at],
         event' = event \/ \E e : event' = [event EXCEPT ![w] = e], MindsDay(w)
  PROVE  Moves(w) /\ pc'[w] = at /\ (event' = event => event'[w] = event[w])
<1>1. event = [v \in Workers |-> event[v]] /\ pc \in [Workers -> Steps]
  BY DEF Types
<1>2. event' = [v \in Workers |-> event'[v]] /\ \A v \in Workers \ {w} : event'[v] = event[v]
  BY <1>1
<1>3. asOf' \in [Workers -> 0 .. today]
  <2>1. 0 \in 0 .. today /\ today \in 0 .. today
    BY SalesAssumption DEF Types
  <2>. QED
    BY <2>1 DEF Types, MindsDay, ReadDay, ForgetDay
<1>. QED
  BY <1>1, <1>2, <1>3 DEF Moves

LEMMA ProceedMoves ==
  ASSUME Types, NEW w \in Workers, Proceed(w) \/ Idle(w) \/ \E es : Take(w, es), MindsDay(w)
  PROVE  Moves(w) /\ pc'[w] \in Resting
<1>1. \E at \in {"idle", "list", "read"} :
        pc' = [pc EXCEPT ![w] = at] /\ \E e : event' = [event EXCEPT ![w] = e]
  BY DEF Proceed, Idle, Take
<1>2. PICK at \in {"idle", "list", "read"} : pc' = [pc EXCEPT ![w] = at]
                                              /\ \E e : event' = [event EXCEPT ![w] = e]
  BY <1>1
<1>3. at \in Steps /\ at \in Resting
  BY DEF Steps, Resting
<1>. QED
  BY <1>2, <1>3, StepMoves

\* What a processor relies on while another one, w, steps.
Spares(w) ==
  \A e \in Events :
    /\ eventLock[e] \notin {w, NoWorker} => eventLock'[e] = eventLock[e] /\ status'[e] = status[e]
    /\ docLock[e] \notin {w, NoWorker} /\ doc[e].status = "draft" =>
         docLock'[e] = docLock[e] /\ doc'[e].status = "draft"
    /\ doc[e].status \in {"draft", "posted"} => doc'[e].status \in {"draft", "posted"}

LEMMA HoldsKeeps ==
  ASSUME NEW w \in Workers, Spares(w), NEW v \in Workers \ {w}, Holds(v),
         pc'[v] = pc[v], event'[v] = event[v]
  PROVE  Holds(v)'
BY Names DEF Holds, Spares

\* A sale that is not touched keeps its story; the days that pass change none.
LEMMA StoryKeeps ==
  ASSUME Types, Types', NEW e \in Events, Story(e),
         sale'[e] = sale[e], status'[e] = status[e], history'[e] = history[e],
         doc'[e] = doc[e], taken'[e] = taken[e], today <= today'
  PROVE  Story(e)'
<1>1. Outcome(e)' = Outcome(e)
  BY DEF Outcome
<1>2. doc[e].status # "none" => Day[sale[e]] \in Nat
  BY Names DEF Story, Types
<1>3. today \in Nat /\ today' \in Nat
  BY SalesAssumption DEF Types
<1>4. doc[e].status # "none" => Day[sale[e]] <= today'
  BY <1>2, <1>3 DEF Story
<1>. QED
  BY <1>1, <1>4 DEF Story

\* A step of one processor.
LEMMA OneSteps ==
  ASSUME Inv, Types', NEW w \in Workers, Moves(w), Spares(w), Holds(w)',
         UNCHANGED <<sale, answered>>, \A e \in Events : Story(e)'
  PROVE  Inv'
<1>1. ASSUME NEW v \in Workers \ {w} PROVE Holds(v)'
  BY HoldsKeeps DEF Moves, Inv
<1>2. AnsweredIsStored'
  BY DEF AnsweredIsStored, Inv
<1>. QED
  BY <1>1, <1>2 DEF Inv

\* A step of one processor that writes no table but may end its own locks.
LEMMA QuietStep ==
  ASSUME Inv, NEW w \in Workers, UNCHANGED tables, Moves(w), Holds(w)',
         UNCHANGED locks
           \/ /\ eventLock' = [e \in Events |-> IF eventLock[e] = w THEN NoWorker ELSE eventLock[e]]
              /\ docLock' = [e \in Events |-> IF docLock[e] = w THEN NoWorker ELSE docLock[e]]
  PROVE  Inv'
<1>. USE DEF tables, locks, Inv
<1>1. Types'
  <2>1. /\ eventLock' \in [Events -> Workers \cup {NoWorker}]
        /\ docLock' \in [Events -> Workers \cup {NoWorker}]
    BY DEF Types
  <2>. QED
    BY <2>1 DEF Types, Moves
<1>2. today <= today'
  BY SalesAssumption DEF Types
<1>3. ASSUME NEW e \in Events PROVE Story(e)'
  BY <1>1, <1>2, StoryKeeps
<1>4. Spares(w)
  BY DEF Spares, Types
<1>. QED
  BY <1>1, <1>3, <1>4, OneSteps

LEMMA Elsewhere ==
  ASSUME Types, NEW e, e \notin Events, NEW h, NEW l, NEW s, NEW d, NEW n
  PROVE  /\ [history EXCEPT ![e] = h] = history /\ [status EXCEPT ![e] = s] = status
         /\ [doc EXCEPT ![e] = d] = doc /\ [taken EXCEPT ![e] = n] = taken
         /\ [eventLock EXCEPT ![e] = l] = eventLock /\ [docLock EXCEPT ![e] = l] = docLock
BY DEF Types

\* An attempt is recorded, and that event's last attempt is the new one.
LEMMA Attempts ==
  ASSUME Types, NEW e \in Events, NEW row \in Rows,
         history' = [history EXCEPT ![e] = Append(history[e], row)]
  PROVE  /\ history' \in [Events -> Seq(Rows)] /\ Outcome(e)' = row.outcome
         /\ \A f \in Events \ {e} : history'[f] = history[f]
<1>1. history \in [Events -> Seq(Rows)]
  BY DEF Types
<1>2. DEFINE new == Append(history[e], row)
<1>3. new \in Seq(Rows) /\ new # <<>> /\ Last(new) = row
  BY <1>1, LastOfAppend
<1>4. history'[e] = new /\ \A f \in Events \ {e} : history'[f] = history[f]
  BY <1>1
<1>5. history' \in [Events -> Seq(Rows)]
  BY <1>1, <1>3
<1>. HIDE DEF new
<1>. QED
  BY <1>3, <1>4, <1>5 DEF Outcome

------------------------------------------------------------------------------
(* The days, the master data, and what a POS sends *)

LEMMA OthersStep ==
  ASSUME Inv, Types', today <= today', UNCHANGED <<sale, status, history, doc, taken>>,
         UNCHANGED <<answered, locks, pc, event>>
  PROVE  Inv'
<1>1. ASSUME NEW e \in Events PROVE Story(e)'
  BY StoryKeeps DEF Inv
<1>2. ASSUME NEW w \in Workers PROVE Holds(w)'
  BY DEF Holds, Inv, locks
<1>3. AnsweredIsStored'
  BY DEF AnsweredIsStored, Inv
<1>. QED
  BY <1>1, <1>2, <1>3 DEF Inv

LEMMA NextDayInv == Inv /\ NextDay => Inv'
<1>. SUFFICES ASSUME Inv, NextDay PROVE Inv'
  OBVIOUS
<1>1. today' \in 1 .. LastDay /\ today <= today'
  BY SalesAssumption DEF Inv, Types, NextDay
<1>2. asOf' \in [Workers -> 0 .. today']
  BY <1>1, SalesAssumption DEF Inv, Types, NextDay, locals
<1>3. Types'
  BY <1>1, <1>2 DEF Inv, Types, NextDay, locks, locals
<1>. QED
  BY <1>1, <1>3, OthersStep DEF NextDay, locals

LEMMA FixMasterDataInv == \A e \in Events : Inv /\ FixMasterData(e) => Inv'
<1>. SUFFICES ASSUME Inv, NEW e \in Events, FixMasterData(e) PROVE Inv'
  OBVIOUS
<1>1. fault' \in [Events -> Reasons \cup {"ok"}]
  BY DEF Inv, Types, FixMasterData, Reasons
<1>2. today <= today'
  BY SalesAssumption DEF FixMasterData, Inv, Types
<1>3. Types'
  BY <1>1 DEF Inv, Types, FixMasterData, locks, locals
<1>. QED
  BY <1>2, <1>3, OthersStep DEF FixMasterData, locals

LEMMA DeliverInv == \A e \in Events, s \in Sales : Inv /\ Deliver(e, s) => Inv'
<1>. SUFFICES ASSUME Inv, NEW e \in Events, NEW s \in Sales, Deliver(e, s) PROVE Inv'
  OBVIOUS
<1>1. CASE sale[e] = NoSale
  <2>1. /\ sale' = [sale EXCEPT ![e] = s] /\ status' = [status EXCEPT ![e] = "received"]
        /\ answered' \in {answered, answered \cup {<<e, s>>}}
        /\ UNCHANGED <<today, history, doc, taken, fault, locks, locals>>
    BY <1>1 DEF Deliver
  <2>2. Types'
    BY <2>1 DEF Types, Inv, locks, locals
  <2>3. /\ status[e] = "none" /\ Outcome(e) = "none" /\ doc[e].status = "none" /\ taken[e] = 0
        /\ sale'[e] = s /\ s # NoSale /\ status'[e] = "received"
    <3>1. Story(e) /\ doc[e].status \in {"none", "draft", "posted"}
      BY DEF Inv, Types
    <3>. QED
      BY <1>1, <2>1, <3>1, Names DEF Story, Inv, Types
  <2>4. ASSUME NEW f \in Events PROVE Story(f)'
    <3>1. CASE f = e
      <4>1. Outcome(e)' = Outcome(e) /\ doc'[e] = doc[e] /\ taken'[e] = taken[e]
        BY <2>1 DEF Outcome
      <4>. QED
        BY <2>3, <3>1, <4>1 DEF Story
    <3>2. CASE f # e
      <4>1. sale'[f] = sale[f] /\ status'[f] = status[f] /\ today' = today
        BY <2>1, <3>2 DEF Inv, Types
      <4>2. today <= today'
        BY <4>1, SalesAssumption DEF Inv, Types
      <4>. QED
        BY <2>1, <2>2, <4>1, <4>2, StoryKeeps DEF Inv
    <3>. QED
      BY <3>1, <3>2
  <2>5. ASSUME NEW w \in Workers PROVE Holds(w)'
    <3>1. \A f \in Events : status[f] = "received" => status'[f] = "received"
      BY <2>1 DEF Inv, Types
    <3>. QED
      BY <2>1, <3>1 DEF Holds, Inv, locks, locals
  <2>6. AnsweredIsStored'
    <3>. SUFFICES ASSUME NEW a \in answered' PROVE sale'[a[1]] = a[2]
      BY DEF AnsweredIsStored
    <3>1. CASE a \in answered
      <4>1. sale[a[1]] = a[2] /\ a[1] \in Events /\ a[2] \in Sales
        BY <3>1 DEF AnsweredIsStored, Inv, Types
      <4>2. a[1] # e
        BY <1>1, <4>1, Names
      <4>. QED
        BY <2>1, <4>1, <4>2 DEF Inv, Types
    <3>2. CASE a = <<e, s>>
      BY <2>3, <3>2
    <3>. QED
      BY <2>1, <3>1, <3>2
  <2>. QED
    BY <2>2, <2>4, <2>5, <2>6 DEF Inv
<1>2. CASE sale[e] # NoSale
  <2>1. /\ sale[e] = s /\ answered' = answered \cup {<<e, s>>}
        /\ UNCHANGED <<today, sale, status, history, doc, taken, fault, locks, locals>>
    BY <1>2 DEF Deliver, SameSale
  <2>2. Types'
    BY <2>1 DEF Types, Inv, locks, locals
  <2>3. today <= today'
    BY <2>1, SalesAssumption DEF Inv, Types
  <2>4. ASSUME NEW f \in Events PROVE Story(f)'
    BY <2>1, <2>2, <2>3, StoryKeeps DEF Inv
  <2>5. ASSUME NEW w \in Workers PROVE Holds(w)'
    BY <2>1 DEF Holds, Inv, locks, locals
  <2>6. AnsweredIsStored'
    BY <2>1 DEF AnsweredIsStored, Inv
  <2>. QED
    BY <2>2, <2>4, <2>5, <2>6 DEF Inv
<1>. QED
  BY <1>1, <1>2

------------------------------------------------------------------------------
(* Runs and requests before they claim an event *)

LEMMA RunQuietly ==
  \A w \in Workers :
    Inv /\ (StartRun(w) \/ ListHeld(w) \/ Select(w) \/ (\E e \in Events : AskAgain(w, e))
           \/ StartClaim(w) \/ Stop(w))
      => Inv'
<1>. SUFFICES ASSUME Inv, NEW w \in Workers,
                     StartRun(w) \/ ListHeld(w) \/ Select(w)
                       \/ (\E e \in Events : AskAgain(w, e)) \/ StartClaim(w) \/ Stop(w)
              PROVE  Inv'
  OBVIOUS
<1>. USE DEF Inv
<1>1. ASSUME NEW at \in {"list", "select", "ask", "claim"}, pc' = [pc EXCEPT ![w] = at],
             event' = event \/ \E e : event' = [event EXCEPT ![w] = e], MindsDay(w)
      PROVE  Moves(w) /\ pc'[w] \in Resting
  BY <1>1, StepMoves DEF Steps, Resting
<1>2. Moves(w) /\ pc'[w] \in Resting
  <2>1. CASE StartRun(w) \/ ListHeld(w) \/ (\E e \in Events : AskAgain(w, e)) \/ StartClaim(w)
    BY <1>1, <2>1 DEF StartRun, ListHeld, AskAgain, StartClaim, MindsDay
  <2>2. CASE Select(w) \/ Stop(w)
    BY <2>2, ProceedMoves DEF Select, Stop, MindsDay
  <2>. QED
    BY <2>1, <2>2
<1>3. UNCHANGED tables
  BY DEF StartRun, ListHeld, Select, AskAgain, StartClaim, Stop
<1>4. UNCHANGED locks
        \/ /\ eventLock' = [e \in Events |-> IF eventLock[e] = w THEN NoWorker ELSE eventLock[e]]
           /\ docLock' = [e \in Events |-> IF docLock[e] = w THEN NoWorker ELSE docLock[e]]
  BY DEF StartRun, ListHeld, Select, AskAgain, StartClaim, Stop
<1>5. Holds(w)'
  BY <1>2, RestsHolds
<1>. QED
  BY <1>2, <1>3, <1>4, <1>5, QuietStep

------------------------------------------------------------------------------
(* One event *)

\* A step of one processor that tells one sale's story further.
LEMMA EventStep ==
  ASSUME Inv, Types', NEW w \in Workers, Moves(w), Spares(w), Holds(w)',
         UNCHANGED <<today, sale, answered>>, NEW e \in Events, Story(e)',
         \A f \in Events \ {e} : /\ status'[f] = status[f] /\ history'[f] = history[f]
                                 /\ doc'[f] = doc[f] /\ taken'[f] = taken[f]
  PROVE  Inv'
<1>1. today <= today'
  BY SalesAssumption DEF Inv, Types
<1>2. ASSUME NEW f \in Events \ {e} PROVE Story(f)'
  BY <1>1, <1>2, StoryKeeps DEF Inv
<1>. QED
  BY <1>2, OneSteps

\* Only what is held or has failed is asked for again.
LEMMA AsksAgain ==
  ASSUME NEW e, NEW on, Reprocessable(e, on)
  PROVE  Outcome(e) \in {"held", "failed"}
BY DEF Reprocessable

LEMMA RecordRequestInv == \A q \in Requests : Inv /\ RecordRequest(q) => Inv'
<1>. SUFFICES ASSUME Inv, NEW q \in Requests, RecordRequest(q), NEW e, e = event[q]
              PROVE  Inv'
  OBVIOUS
<1>. USE DEF Inv
<1>1. q \in Workers /\ q \in Requests \cup {System}
  BY DEF Workers
<1>2. Moves(q) /\ pc'[q] \in Resting
  <2>. MindsDay(q)
    BY DEF RecordRequest, MindsDay
  <2>1. CASE pc' = [pc EXCEPT ![q] = "read"] /\ UNCHANGED event
    BY <1>1, <2>1, StepMoves DEF Steps, Resting
  <2>2. CASE Idle(q)
    BY <1>1, <2>2, ProceedMoves
  <2>. QED
    BY <2>1, <2>2 DEF RecordRequest
<1>3. Holds(q)'
  BY <1>1, <1>2, RestsHolds
<1>4. UNCHANGED <<today, arrived, sale, answered, doc, taken, fault, locks>>
  BY DEF RecordRequest
<1>5. CASE UNCHANGED <<history, status>>
  <2>1. UNCHANGED tables
    BY <1>4, <1>5 DEF tables
  <2>. QED
    BY <1>1, <1>2, <1>3, <1>4, <2>1, QuietStep
<1>6. CASE /\ eventLock[e] = NoWorker
           /\ status[e] \in {"received", "failed"} /\ Reprocessable(e, asOf[q])
           /\ history' = [history EXCEPT ![e] = Append(history[e], Row("reprocessed", "none", q))]
           /\ status' = [status EXCEPT ![e] = "received"]
  <2>1. CASE e \notin Events
    <3>. DEFINE new == Append(history[e], Row("reprocessed", "none", q))
    <3>1. history' = [history EXCEPT ![e] = new]
      BY <1>6
    <3>. HIDE DEF new
    <3>2. [history EXCEPT ![e] = new] = history /\ [status EXCEPT ![e] = "received"] = status
      BY <2>1 DEF Types
    <3>3. UNCHANGED <<history, status>>
      BY <1>6, <3>1, <3>2
    <3>. QED
      BY <1>5, <3>3
  <2>2. CASE e \in Events
    <3>1. Row("reprocessed", "none", q) \in Rows
      BY <1>1, RowTypes
    <3>2. /\ history' \in [Events -> Seq(Rows)] /\ Outcome(e)' = "reprocessed"
          /\ \A f \in Events \ {e} : history'[f] = history[f]
      BY <1>6, <2>2, <3>1, Attempts DEF Row
    <3>3. /\ status' \in [Events -> {"none", "received", "failed", "processed"}]
          /\ status'[e] = "received" /\ \A f \in Events \ {e} : status'[f] = status[f]
      BY <1>6, <2>2 DEF Types
    <3>4. Types'
      BY <1>2, <1>4, <3>2, <3>3 DEF Types, Moves, locks
    <3>5. Outcome(e) \in {"held", "failed"}
      <4>1. Reprocessable(e, asOf[q])
        BY <1>6
      <4>. QED
        BY <4>1, AsksAgain
    <3>6. doc[e].status = "none" /\ taken[e] = 0 /\ sale[e] # NoSale
      <4>1. Story(e) /\ taken[e] \in Nat /\ doc[e].status \in {"none", "draft", "posted"}
        BY <2>2 DEF Types
      <4>2. status[e] \in {"received", "failed"}
        BY <1>6
      <4>. QED
        BY <3>5, <4>1, <4>2 DEF Story
    <3>7. Story(e)'
      BY <1>4, <3>2, <3>3, <3>6 DEF Story
    <3>8. Spares(q)
      <4>1. eventLock[e] = NoWorker
        BY <1>6
      <4>. QED
        BY <1>4, <3>3, <4>1 DEF Spares, locks
    <3>. QED
      BY <1>1, <1>2, <1>3, <1>4, <2>2, <3>2, <3>3, <3>4, <3>7, <3>8, EventStep
  <2>. QED
    BY <2>1, <2>2
<1>. QED
  BY <1>5, <1>6 DEF RecordRequest

LEMMA ClaimEventInv == \A w \in Workers : Inv /\ ClaimEvent(w) => Inv'
<1>. SUFFICES ASSUME Inv, NEW w \in Workers, ClaimEvent(w), NEW e, e = event[w]
              PROVE  Inv'
  OBVIOUS
<1>. USE DEF Inv
<1>1. UNCHANGED <<tables, docLock>> /\ MindsDay(w)
  BY DEF ClaimEvent, MindsDay
<1>2. CASE Proceed(w) /\ UNCHANGED eventLock
  <2>1. Moves(w) /\ Holds(w)'
    BY <1>1, <1>2, ProceedMoves, RestsHolds
  <2>. QED
    BY <1>1, <1>2, <2>1, QuietStep DEF locks
<1>3. CASE /\ eventLock[e] = NoWorker /\ status[e] = "received"
           /\ eventLock' = [eventLock EXCEPT ![e] = w]
           /\ pc' = [pc EXCEPT ![w] = "judge"] /\ UNCHANGED event
  <2>1. Moves(w) /\ pc'[w] = "judge" /\ event'[w] = e
    BY <1>1, <1>3, StepMoves DEF Steps
  <2>2. CASE e \notin Events
    <3>1. UNCHANGED locks
      BY <1>1, <1>3, <2>2, Elsewhere DEF locks
    <3>2. Holds(w)'
      BY <2>1, <2>2 DEF Holds
    <3>. QED
      BY <1>1, <2>1, <3>1, <3>2, QuietStep
  <2>3. CASE e \in Events
    <3>1. eventLock' \in [Events -> Workers \cup {NoWorker}] /\ eventLock'[e] = w
      BY <1>3, <2>3 DEF Types
    <3>2. Types'
      BY <1>1, <2>1, <3>1 DEF Types, Moves, tables
    <3>3. Holds(w)'
      BY <1>1, <1>3, <2>1, <3>1 DEF Holds, tables
    <3>4. Spares(w)
      BY <1>1, <1>3 DEF Spares, tables, Types
    <3>5. today <= today'
      BY <1>1, SalesAssumption DEF tables, Types
    <3>6. \A f \in Events : Story(f)'
      BY <1>1, <3>2, <3>5, StoryKeeps DEF tables
    <3>. QED
      BY <1>1, <2>1, <3>2, <3>3, <3>4, <3>6, OneSteps DEF tables
  <2>. QED
    BY <2>2, <2>3
<1>. QED
  BY <1>2, <1>3 DEF ClaimEvent

\* The claim's transaction goes on with the event it has locked.
LEMMA Judging ==
  ASSUME Inv, NEW w \in Workers, Judged(w), NEW e \in Events, e = event[w]
  PROVE  /\ eventLock[e] = w /\ status[e] = "received" /\ sale[e] \in Sales
         /\ taken[e] = 0 /\ doc[e].status # "posted"
         /\ eventLock' \in [Events -> Workers \cup {NoWorker}]
         /\ \A f \in Events \ {e} : eventLock'[f] = eventLock[f]
<1>1. eventLock[e] = w /\ status[e] = "received"
  BY DEF Inv, Holds, Judged
<1>2. sale[e] \in Sales /\ taken[e] = 0 /\ doc[e].status # "posted"
  BY <1>1 DEF Inv, Types, Story
<1>. QED
  BY <1>1, <1>2 DEF Inv, Types, Judged

Judges(w) == LeaveEvent(w) \/ HoldEvent(w) \/ FailEvent(w) \/ DraftConsumption(w)

LEMMA JudgesMoves ==
  ASSUME Types, NEW w \in Workers, Judges(w)
  PROVE  Judged(w) /\ Moves(w)
         /\ (pc'[w] \in Resting \/ (DraftConsumption(w) /\ pc'[w] = "post" /\ event'[w] = event[w]))
<1>0. Judged(w) /\ MindsDay(w)
  BY DEF Judges, LeaveEvent, HoldEvent, FailEvent, DraftConsumption, Judged, MindsDay
<1>1. CASE LeaveEvent(w) \/ HoldEvent(w) \/ FailEvent(w)
  BY <1>0, <1>1, ProceedMoves DEF LeaveEvent, HoldEvent, FailEvent
<1>2. CASE DraftConsumption(w)
  <2>1. Judged(w) /\ pc' = [pc EXCEPT ![w] = "post"] /\ UNCHANGED event
    BY <1>2 DEF DraftConsumption
  <2>. QED
    BY <1>0, <1>2, <2>1, StepMoves DEF Steps
<1>. QED
  BY <1>1, <1>2 DEF Judges

LEMMA JudgesNothing ==
  ASSUME Inv, NEW w \in Workers, Judges(w), event[w] \notin Events
  PROVE  Inv'
<1>. SUFFICES ASSUME NEW e, e = event[w], e \notin Events PROVE Inv'
  OBVIOUS
<1>1. Judged(w) /\ Moves(w) /\ Holds(w)'
  BY JudgesMoves, RestsHolds DEF Inv, Holds
<1>2. UNCHANGED <<today, arrived, sale, answered, taken, fault, docLock>>
      /\ eventLock' = [eventLock EXCEPT ![e] = NoWorker]
  BY <1>1 DEF Judged
<1>3. eventLock' = eventLock
  BY <1>2 DEF Inv, Types
<1>4. history' = history \/ \E row : history' = [history EXCEPT ![e] = Append(history[e], row)]
  BY DEF Judges, LeaveEvent, HoldEvent, FailEvent, DraftConsumption, Record
<1>5. ASSUME NEW new PROVE [history EXCEPT ![e] = new] = history
  BY DEF Inv, Types
<1>6. history' = history
  BY <1>4, <1>5
<1>7. status' = status
  BY DEF Judges, LeaveEvent, HoldEvent, FailEvent, DraftConsumption, Inv, Types
<1>8. doc' = doc
  <2>1. doc' = doc \/ doc' = [doc EXCEPT ![e] = [doc[e] EXCEPT !.status = "draft"]]
    BY DEF Judges, LeaveEvent, HoldEvent, FailEvent, DraftConsumption
  <2>2. ASSUME NEW new PROVE [doc EXCEPT ![e] = new] = doc
    BY DEF Inv, Types
  <2>. QED
    BY <2>1, <2>2
<1>. QED
  BY <1>1, <1>2, <1>3, <1>6, <1>7, <1>8, QuietStep DEF tables, locks

\* A fresh sale has no attempt that counts.
LEMMA FreshOutcome ==
  ASSUME Inv, NEW e \in Events, Fresh(e), status[e] = "received"
  PROVE  doc[e].status = "none" /\ Outcome(e) \in {"none", "reprocessed"}
<1>1. doc[e].status = "none" /\ Outcome(e) # "held"
  BY DEF Fresh, LeftAlone
<1>2. Outcome(e) \in {"none", "held", "failed", "reprocessed", "processed"}
  BY Outcomes DEF Inv, Types
<1>. QED
  BY <1>1, <1>2 DEF Inv, Story

LEMMA JudgesInv == \A w \in Workers : Inv /\ Judges(w) => Inv'
<1>. SUFFICES ASSUME Inv, NEW w \in Workers, Judges(w), event[w] \in Events PROVE Inv'
  BY JudgesNothing
<1>. SUFFICES ASSUME NEW e \in Events, e = event[w] PROVE Inv'
  OBVIOUS
<1>0. Judged(w) /\ Moves(w)
  BY JudgesMoves DEF Inv
<1>1. /\ eventLock[e] = w /\ status[e] = "received" /\ sale[e] \in Sales
      /\ taken[e] = 0 /\ doc[e].status # "posted"
      /\ eventLock' \in [Events -> Workers \cup {NoWorker}]
      /\ \A f \in Events \ {e} : eventLock'[f] = eventLock[f]
  BY <1>0, Judging
<1>2. UNCHANGED <<today, arrived, sale, answered, taken, fault, docLock>>
  BY <1>0 DEF Judged
<1>3. history \in [Events -> Seq(Rows)] /\ status \in [Events -> {"none", "received", "failed", "processed"}]
      /\ doc \in [Events -> [status : {"none", "draft", "posted"}, by : Requests \cup {System, NoWorker}]]
  BY DEF Inv, Types
<1>4. ASSUME history' \in [Events -> Seq(Rows)],
             status' \in [Events -> {"none", "received", "failed", "processed"}],
             doc' \in [Events -> [status : {"none", "draft", "posted"},
                                   by : Requests \cup {System, NoWorker}]],
             \A f \in Events \ {e} : /\ status'[f] = status[f] /\ history'[f] = history[f]
                                     /\ doc'[f] = doc[f],
             doc[e].status = "draft" => doc'[e].status = "draft",
             Story(e)', Holds(w)'
      PROVE  Inv'
  <2>1. Types'
    BY <1>0, <1>1, <1>2, <1>4 DEF Inv, Types, Moves
  <2>2. Spares(w)
    BY <1>1, <1>2, <1>4 DEF Spares
  <2>. QED
    BY <1>0, <1>2, <1>4, <2>1, <2>2, EventStep
<1>5. CASE LeaveEvent(w)
  <2>1. UNCHANGED <<status, history, doc>>
    BY <1>5 DEF LeaveEvent
  <2>2. Holds(w)'
    BY <1>5, ProceedMoves, RestsHolds DEF LeaveEvent, Inv, Judged, MindsDay
  <2>3. Story(e)'
    <3>1. Outcome(e)' = Outcome(e)
      BY <2>1 DEF Outcome
    <3>. QED
      BY <1>2, <2>1, <3>1 DEF Story, Inv
  <2>. QED
    BY <1>3, <1>4, <2>1, <2>2, <2>3
<1>6. CASE HoldEvent(w)
  <2>1. /\ UNCHANGED <<status, doc>> /\ Fresh(e)
        /\ history' = [history EXCEPT ![e] = Append(history[e], Row("held", "sale_time_ahead", Actor(w)))]
    BY <1>6 DEF HoldEvent, Record
  <2>2. Holds(w)'
    BY <1>6, ProceedMoves, RestsHolds DEF HoldEvent, Inv, Judged, MindsDay
  <2>3. Row("held", "sale_time_ahead", Actor(w)) \in Rows
    BY Names, RowTypes
  <2>4. /\ history' \in [Events -> Seq(Rows)] /\ Outcome(e)' = "held"
        /\ \A f \in Events \ {e} : history'[f] = history[f]
    BY <2>1, <2>3, Attempts DEF Row, Inv
  <2>5. Story(e)'
    BY <1>1, <1>2, <2>1, <2>4, FreshOutcome, Names DEF Story
  <2>. QED
    BY <1>3, <1>4, <2>1, <2>2, <2>4, <2>5
<1>7. CASE FailEvent(w)
  <2>1. /\ UNCHANGED doc /\ Fresh(e) /\ status' = [status EXCEPT ![e] = "failed"] /\ fault[e] # "ok"
        /\ history' = [history EXCEPT ![e] = Append(history[e], Row("failed", fault[e], Actor(w)))]
    BY <1>7 DEF FailEvent, Record
  <2>2. Holds(w)'
    BY <1>7, ProceedMoves, RestsHolds DEF FailEvent, Inv, Judged, MindsDay
  <2>3. Row("failed", fault[e], Actor(w)) \in Rows
    BY <2>1, Names, RowTypes DEF Inv, Types
  <2>4. /\ history' \in [Events -> Seq(Rows)] /\ Outcome(e)' = "failed"
        /\ \A f \in Events \ {e} : history'[f] = history[f]
    BY <2>1, <2>3, Attempts DEF Row, Inv
  <2>5. Story(e)'
    BY <1>1, <1>2, <1>3, <2>1, <2>4, FreshOutcome, Names DEF Story
  <2>. QED
    BY <1>3, <1>4, <2>1, <2>2, <2>4, <2>5
<1>8. CASE DraftConsumption(w)
  <2>1. UNCHANGED <<status, history, event>> /\ pc' = [pc EXCEPT ![w] = "post"]
    BY <1>8 DEF DraftConsumption
  <2>2. /\ doc' \in [Events -> [status : {"none", "draft", "posted"},
                                 by : Requests \cup {System, NoWorker}]]
        /\ \A f \in Events \ {e} : doc'[f] = doc[f]
        /\ doc'[e].status = "draft"
    <3>1. \/ doc' = [doc EXCEPT ![e] = [doc[e] EXCEPT !.status = "draft"]]
          \/ doc[e].status = "draft" /\ doc' = doc
      BY <1>8 DEF DraftConsumption
    <3>. DEFINE draft == [doc[e] EXCEPT !.status = "draft"]
                Docs == [status : {"none", "draft", "posted"},
                         by : Requests \cup {System, NoWorker}]
    <3>2. draft \in Docs /\ draft.status = "draft" /\ doc \in [Events -> Docs]
      BY <1>3
    <3>3. \/ doc' = [doc EXCEPT ![e] = draft]
          \/ doc[e].status = "draft" /\ doc' = doc
      BY <3>1
    <3>. HIDE DEF draft, Docs
    <3>4. doc' \in [Events -> Docs]
          /\ (\A f \in Events \ {e} : doc'[f] = doc[f]) /\ doc'[e].status = "draft"
      BY <3>2, <3>3
    <3>. QED
      BY <3>4 DEF Docs
  <2>3. Outcome(e)' = Outcome(e)
    BY <2>1 DEF Outcome
  <2>4. Outcome(e) \in {"none", "reprocessed"} /\ Day[sale[e]] <= today
    <3>1. CASE doc[e].status = "draft"
      BY <3>1 DEF Inv, Story
    <3>2. CASE Fresh(e) /\ SaleTimeDecision(e, asOf[w]) = "process"
      <4>1. ~(Day[sale[e]] > asOf[w])
        BY <3>2 DEF SaleTimeDecision
      <4>2. Day[sale[e]] \in Nat /\ today \in Nat /\ asOf[w] \in 0 .. today
        BY <1>1, Names, SalesAssumption DEF Inv, Types
      <4>3. Day[sale[e]] <= today
        BY <4>1, <4>2
      <4>. QED
        BY <1>1, <3>2, <4>3, FreshOutcome
    <3>. QED
      BY <1>8, <3>1, <3>2 DEF DraftConsumption
  <2>5. Story(e)'
    BY <1>1, <1>2, <2>1, <2>2, <2>3, <2>4, Names DEF Story
  <2>6. Holds(w)'
    BY <1>8, <2>1, <2>2 DEF Holds, Inv, Types
  <2>. QED
    BY <1>3, <1>4, <2>1, <2>2, <2>5, <2>6
<1>. QED
  BY <1>5, <1>6, <1>7, <1>8 DEF Judges

LEMMA LockDraftInv == \A w \in Workers : Inv /\ LockDraft(w) => Inv'
<1>. SUFFICES ASSUME Inv, NEW w \in Workers, LockDraft(w), NEW e, e = event[w]
              PROVE  Inv'
  OBVIOUS
<1>. USE DEF Inv
<1>1. UNCHANGED <<tables, eventLock>> /\ MindsDay(w)
  BY DEF LockDraft, MindsDay
<1>2. CASE Proceed(w) /\ UNCHANGED docLock
  <2>1. Moves(w) /\ Holds(w)'
    BY <1>1, <1>2, ProceedMoves, RestsHolds
  <2>. QED
    BY <1>1, <1>2, <2>1, QuietStep DEF locks
<1>3. CASE /\ pc[w] = "post" /\ docLock[e] = NoWorker /\ ~AlreadyPosted(e)
           /\ docLock' = [docLock EXCEPT ![e] = w]
           /\ pc' = [pc EXCEPT ![w] = "moving"] /\ UNCHANGED event
  <2>1. Moves(w) /\ pc'[w] = "moving" /\ event'[w] = e
    BY <1>1, <1>3, StepMoves DEF Steps
  <2>2. CASE e \notin Events
    <3>1. UNCHANGED locks
      BY <1>1, <1>3, <2>2, Elsewhere DEF locks
    <3>2. Holds(w)'
      BY <2>1, <2>2 DEF Holds
    <3>. QED
      BY <1>1, <2>1, <3>1, <3>2, QuietStep
  <2>3. CASE e \in Events
    <3>1. docLock' \in [Events -> Workers \cup {NoWorker}] /\ docLock'[e] = w
      BY <1>3, <2>3 DEF Types
    <3>2. Types'
      BY <1>1, <2>1, <3>1 DEF Types, Moves, tables
    <3>3. Holds(w)'
      BY <1>1, <1>3, <2>1, <3>1 DEF Holds, tables, AlreadyPosted
    <3>4. Spares(w)
      BY <1>1, <1>3 DEF Spares, tables, Types
    <3>5. today <= today'
      BY <1>1, SalesAssumption DEF tables, Types
    <3>6. \A f \in Events : Story(f)'
      BY <1>1, <3>2, <3>5, StoryKeeps DEF tables
    <3>. QED
      BY <1>1, <2>1, <3>2, <3>3, <3>4, <3>6, OneSteps DEF tables
  <2>. QED
    BY <2>2, <2>3
<1>. QED
  BY <1>2, <1>3 DEF LockDraft

LEMMA LockEventInv == \A w \in Workers : Inv /\ LockEvent(w) => Inv'
<1>. SUFFICES ASSUME Inv, NEW w \in Workers, LockEvent(w), NEW e, e = event[w]
              PROVE  Inv'
  OBVIOUS
<1>. USE DEF Inv
<1>1. /\ pc[w] = "moving" /\ eventLock[e] = NoWorker
      /\ eventLock' = [eventLock EXCEPT ![e] = w]
      /\ pc' = [pc EXCEPT ![w] = "commit"]
      /\ UNCHANGED <<tables, docLock, event>> /\ MindsDay(w)
  BY DEF LockEvent, MindsDay
<1>2. Moves(w) /\ pc'[w] = "commit" /\ event'[w] = e
  BY <1>1, StepMoves DEF Steps
<1>3. CASE e \notin Events
  <2>1. UNCHANGED locks
    BY <1>1, <1>3, Elsewhere DEF locks
  <2>2. Holds(w)'
    BY <1>2, <1>3 DEF Holds
  <2>. QED
    BY <1>1, <1>2, <2>1, <2>2, QuietStep
<1>4. CASE e \in Events
  <2>1. eventLock' \in [Events -> Workers \cup {NoWorker}] /\ eventLock'[e] = w
    BY <1>1, <1>4 DEF Types
  <2>2. Types'
    BY <1>1, <1>2, <2>1 DEF Types, Moves, tables
  <2>3. Holds(w)'
    BY <1>1, <1>2, <2>1 DEF Holds, tables
  <2>4. Spares(w)
    BY <1>1 DEF Spares, tables, Types
  <2>5. today <= today'
    BY <1>1, SalesAssumption DEF tables, Types
  <2>6. \A f \in Events : Story(f)'
    BY <1>1, <2>2, <2>5, StoryKeeps DEF tables
  <2>. QED
    BY <1>1, <1>2, <2>2, <2>3, <2>4, <2>6, OneSteps DEF tables
<1>. QED
  BY <1>3, <1>4

LEMMA CommitNothing ==
  ASSUME Inv, NEW w \in Workers, Commit(w), event[w] \notin Events
  PROVE  Inv' /\ UNCHANGED <<status, history, taken>>
<1>. SUFFICES ASSUME NEW e, e = event[w], e \notin Events
              PROVE  Inv' /\ UNCHANGED <<status, history, taken>>
  OBVIOUS
<1>1. Moves(w) /\ Holds(w)'
  BY ProceedMoves, RestsHolds DEF Commit, Inv, MindsDay
<1>2. ASSUME NEW new
      PROVE  /\ [history EXCEPT ![e] = new] = history /\ [status EXCEPT ![e] = new] = status
             /\ [doc EXCEPT ![e] = new] = doc /\ [taken EXCEPT ![e] = new] = taken
             /\ [eventLock EXCEPT ![e] = new] = eventLock /\ [docLock EXCEPT ![e] = new] = docLock
  BY DEF Inv, Types
<1>3. /\ \E new : history' = [history EXCEPT ![e] = new]
      /\ \E new : status' = [status EXCEPT ![e] = new]
      /\ \E new : doc' = [doc EXCEPT ![e] = new]
      /\ \E new : taken' = [taken EXCEPT ![e] = new]
      /\ \E new : eventLock' = [eventLock EXCEPT ![e] = new]
      /\ \E new : docLock' = [docLock EXCEPT ![e] = new]
      /\ UNCHANGED <<today, arrived, sale, answered, fault>>
  BY DEF Commit, Record
<1>4. UNCHANGED <<history, status, doc, taken, eventLock, docLock>>
  BY <1>2, <1>3
<1>. QED
  BY <1>1, <1>3, <1>4, QuietStep DEF tables, locks

\* What posting a sale's document finds and leaves.
LEMMA Posts ==
  ASSUME Inv, NEW w \in Workers, Commit(w), NEW e \in Events, e = event[w]
  PROVE  /\ eventLock[e] = w /\ docLock[e] = w /\ doc[e].status = "draft" /\ status[e] = "received"
         /\ Outcome(e) \in {"none", "reprocessed"} /\ taken[e] = 0
         /\ status'[e] = "processed" /\ Outcome(e)' = "processed" /\ taken'[e] = 1
         /\ doc'[e].status = "posted" /\ history' \in [Events -> Seq(Rows)]
         /\ taken' = [taken EXCEPT ![e] = taken[e] + 1]
         /\ \A f \in Events \ {e} :
              /\ history'[f] = history[f] /\ doc'[f] = doc[f] /\ taken'[f] = taken[f]
              /\ status'[f] = status[f] /\ eventLock'[f] = eventLock[f] /\ docLock'[f] = docLock[f]
<1>1. eventLock[e] = w /\ docLock[e] = w /\ doc[e].status = "draft"
  BY DEF Inv, Holds, Commit
<1>2. status[e] = "received" /\ Outcome(e) \in {"none", "reprocessed"} /\ taken[e] = 0
  BY <1>1 DEF Inv, Story
<1>3. Row("processed", "none", Actor(w)) \in Rows
  BY Names, RowTypes
<1>4. history' = [history EXCEPT ![e] = Append(history[e], Row("processed", "none", Actor(w)))]
  BY DEF Commit, Record
<1>5. /\ history' \in [Events -> Seq(Rows)] /\ Outcome(e)' = "processed"
      /\ \A f \in Events \ {e} : history'[f] = history[f]
  BY <1>3, <1>4, Attempts DEF Row, Inv
<1>6. /\ taken' = [taken EXCEPT ![e] = taken[e] + 1] /\ taken'[e] = 1
      /\ \A f \in Events \ {e} : taken'[f] = taken[f]
  BY <1>2 DEF Commit, Inv, Types
<1>7. /\ status'[e] = "processed" /\ doc'[e].status = "posted"
      /\ \A f \in Events \ {e} :
           /\ doc'[f] = doc[f] /\ status'[f] = status[f]
           /\ eventLock'[f] = eventLock[f] /\ docLock'[f] = docLock[f]
  BY DEF Commit, Inv, Types
<1>. QED
  BY <1>1, <1>2, <1>5, <1>6, <1>7

LEMMA CommitInv == \A w \in Workers : Inv /\ Commit(w) => Inv'
<1>. SUFFICES ASSUME Inv, NEW w \in Workers, Commit(w), NEW e \in Events, e = event[w]
              PROVE  Inv'
  BY CommitNothing
<1>1. UNCHANGED <<today, arrived, sale, answered, fault>>
  BY DEF Commit
<1>2. Moves(w) /\ Holds(w)'
  BY ProceedMoves, RestsHolds DEF Commit, Inv, MindsDay
<1>3. Types'
  <2>1. /\ doc' \in [Events -> [status : {"none", "draft", "posted"},
                                 by : Requests \cup {System, NoWorker}]]
        /\ status' \in [Events -> {"none", "received", "failed", "processed"}]
        /\ eventLock' \in [Events -> Workers \cup {NoWorker}]
        /\ docLock' \in [Events -> Workers \cup {NoWorker}]
    <3>1. /\ doc' = [doc EXCEPT ![e] = [status |-> "posted", by |-> Actor(w)]]
          /\ status' = [status EXCEPT ![e] = "processed"]
          /\ eventLock' = [eventLock EXCEPT ![e] = NoWorker]
          /\ docLock' = [docLock EXCEPT ![e] = NoWorker]
      BY DEF Commit
    <3>2. [status |-> "posted", by |-> Actor(w)]
            \in [status : {"none", "draft", "posted"}, by : Requests \cup {System, NoWorker}]
      BY Names
    <3>3. Types /\ NoWorker \in Workers \cup {NoWorker}
      BY DEF Inv
    <3>4. doc' \in [Events -> [status : {"none", "draft", "posted"},
                                 by : Requests \cup {System, NoWorker}]]
      BY <3>1, <3>2, <3>3 DEF Types
    <3>5. status' \in [Events -> {"none", "received", "failed", "processed"}]
      BY <3>1, <3>3 DEF Types
    <3>6. /\ eventLock' \in [Events -> Workers \cup {NoWorker}]
          /\ docLock' \in [Events -> Workers \cup {NoWorker}]
      BY <3>1, <3>3 DEF Types
    <3>. QED
      BY <3>4, <3>5, <3>6
  <2>2. taken' \in [Events -> Nat]
    <3>1. taken' = [taken EXCEPT ![e] = taken[e] + 1]
      BY Posts
    <3>2. taken \in [Events -> Nat]
      BY DEF Inv, Types
    <3>. QED
      BY <3>1, <3>2
  <2>3. history' \in [Events -> Seq(Rows)]
    BY Posts
  <2>4. Types
    BY DEF Inv
  <2>. QED
    BY <1>1, <1>2, <2>1, <2>2, <2>3, <2>4 DEF Types, Moves
<1>4. Spares(w)
  BY Posts DEF Spares
<1>5. Story(e)'
  BY <1>1, Posts DEF Inv, Story
<1>. QED
  BY <1>1, <1>2, <1>3, <1>4, <1>5, Posts, EventStep

------------------------------------------------------------------------------
LEMMA InvInit == Init => Inv
<1>. SUFFICES ASSUME Init PROVE Inv
  OBVIOUS
<1>1. Types
  <2>1. fault \in [Events -> Reasons \cup {"ok"}] /\ today \in 1 .. LastDay
    BY SalesAssumption DEF Init
  <2>2. history \in [Events -> Seq(Rows)]
    BY DEF Init
  <2>. QED
    BY <2>1, <2>2 DEF Init, Types, Steps
<1>2. ASSUME NEW e \in Events PROVE Story(e)
  BY DEF Init, Story, Outcome
<1>3. ASSUME NEW w \in Workers PROVE Holds(w)
  BY DEF Init, Holds
<1>. QED
  BY <1>1, <1>2, <1>3 DEF Init, Inv, AnsweredIsStored

LEMMA InvStep == Inv /\ [Next]_vars => Inv'
<1>. SUFFICES ASSUME Inv, [Next]_vars PROVE Inv'
  OBVIOUS
<1>1. ASSUME NEW w \in Workers, ProcessOne(w) PROVE Inv'
  BY <1>1, RunQuietly, ClaimEventInv, JudgesInv, LockDraftInv, LockEventInv, CommitInv
     DEF ProcessOne, Judges
<1>2. ASSUME NEW r \in Runs, StartRun(r) \/ RunStep(r) PROVE Inv'
  BY <1>1, <1>2, RunQuietly DEF RunStep, Workers
<1>3. ASSUME NEW q \in Requests, RequestStep(q) \/ \E e \in Events : AskAgain(q, e) PROVE Inv'
  BY <1>1, <1>3, RunQuietly, RecordRequestInv DEF RequestStep, Workers
<1>4. CASE UNCHANGED vars
  <2>1. Types' /\ today <= today'
    BY <1>4, SalesAssumption DEF Inv, Types, vars, tables, locks, locals
  <2>. QED
    BY <1>4, <2>1, OthersStep DEF vars, tables, locks, locals
<1>. QED
  BY <1>2, <1>3, <1>4, NextDayInv, FixMasterDataInv, DeliverInv, RunQuietly DEF Next

LEMMA Invariant == Spec => []Inv
BY InvInit, InvStep, PTL DEF Spec

\* However copies of a sale race and whichever answers are lost, a sale a POS
\* was told is stored is stored as it sent it (ingest).
THEOREM AnsweredStaysStored == Spec => []AnsweredIsStored
BY Invariant, PTL DEF Inv

\* A sales event, its attempts, its document and the stock taken for it tell
\* one story, whoever processes it, however often and wherever they stop.
THEOREM OneStory == Spec => []StoriesAgree
<1>1. Inv => StoriesAgree
  BY DEF Inv, Story, StoriesAgree
<1>. QED
  BY <1>1, Invariant, PTL

\* No sale has a document before its day, whatever people asked for.
THEOREM ConsumedOnItsDay == Spec => []NeverBeforeItsDay
<1>1. Inv => NeverBeforeItsDay
  BY DEF Inv, Story, NeverBeforeItsDay
<1>. QED
  BY <1>1, Invariant, PTL

------------------------------------------------------------------------------
(* The life of a sale *)

LEMMA LifeOf ==
  ASSUME NEW e \in Events
  PROVE  /\ status[e] = "none" => Life[e] = "unknown"
         /\ status[e] = "processed" => Life[e] = "consumed"
         /\ status[e] \in {"received", "failed"} =>
              Life[e] = IF Outcome(e) = "none" THEN "received"
                        ELSE IF Outcome(e) = "reprocessed" THEN "asked" ELSE Outcome(e)
BY DEF Life

\* Where a sale stands follows from its status and its attempts.
LEMMA LifeSteps ==
  ASSUME NEW e, NEW to, e \in Events => Life'[e] = to,
         \A f \in Events \ {e} : status'[f] = status[f] /\ history'[f] = history[f]
  PROVE  Life' = [Life EXCEPT ![e] = to]
<1>1. ASSUME NEW f \in Events \ {e} PROVE Life'[f] = Life[f]
  <2>1. Outcome(f)' = Outcome(f)
    BY <1>1 DEF Outcome
  <2>. QED
    BY <1>1, <2>1 DEF Life
<1>2. Life' = [f \in Events |-> Life'[f]] /\ Life = [f \in Events |-> Life[f]]
  BY DEF Life
<1>. HIDE DEF Life
<1>3. [Life EXCEPT ![e] = to] = [f \in Events |-> IF f = e THEN to ELSE Life[f]]
  BY <1>2
<1>4. [f \in Events |-> Life'[f]] = [f \in Events |-> IF f = e THEN to ELSE Life[f]]
  BY <1>1
<1>. QED
  BY <1>2, <1>3, <1>4

LEMMA LifeKeeps ==
  ASSUME UNCHANGED <<status, history>>
  PROVE  Life' = Life
<1>1. \A f \in Events : Outcome(f)' = Outcome(f)
  BY DEF Outcome
<1>. QED
  BY <1>1 DEF Life

LEMMA DeliverLives ==
  \A e \in Events, s \in Sales :
    Inv /\ Deliver(e, s) => Lifecycle!Receive(e) \/ UNCHANGED <<Life, taken>>
<1>. SUFFICES ASSUME Inv, NEW e \in Events, NEW s \in Sales, Deliver(e, s),
                     status' = [status EXCEPT ![e] = "received"], sale[e] = NoSale
              PROVE  Lifecycle!Receive(e)
  BY LifeKeeps DEF Deliver
<1>1. status[e] = "none" /\ status'[e] = "received" /\ Outcome(e) = "none" /\ UNCHANGED <<history, taken>>
  BY DEF Inv, Story, Types, Deliver
<1>2. Outcome(e)' = "none"
  BY <1>1 DEF Outcome
<1>3. Life[e] = "unknown" /\ Life'[e] = "received"
  BY <1>1, <1>2 DEF Life
<1>4. \A f \in Events \ {e} : status'[f] = status[f] /\ history'[f] = history[f]
  BY <1>1 DEF Inv, Types
<1>5. Life' = [Life EXCEPT ![e] = "received"]
  BY <1>3, <1>4, LifeSteps
<1>. QED
  BY <1>1, <1>3, <1>5 DEF Lifecycle!Receive, Lifecycle!Become

\* A step that takes up an attempt moves one sale on, and takes no stock.
LEMMA AttemptLives ==
  ASSUME Inv, NEW e \in Events, NEW from, NEW to, UNCHANGED taken,
         Life[e] \in from, Life'[e] = to,
         \A f \in Events \ {e} : status'[f] = status[f] /\ history'[f] = history[f]
  PROVE  Lifecycle!Become(e, from, to) /\ UNCHANGED taken
BY LifeSteps DEF Lifecycle!Become

LEMMA RecordRequestLives ==
  \A q \in Requests : Inv /\ RecordRequest(q) => [Lifecycle!Next]_<<Life, taken>>
<1>. SUFFICES ASSUME Inv, NEW q \in Requests, RecordRequest(q), NEW e, e = event[q],
                     status[e] \in {"received", "failed"}, Reprocessable(e, asOf[q]),
                     history' = [history EXCEPT ![e] = Append(history[e], Row("reprocessed", "none", q))],
                     status' = [status EXCEPT ![e] = "received"]
              PROVE  [Lifecycle!Next]_<<Life, taken>>
  BY LifeKeeps DEF RecordRequest
<1>1. UNCHANGED taken
  BY DEF RecordRequest
<1>2. CASE e \notin Events
  <2>1. ASSUME NEW new
        PROVE  [history EXCEPT ![e] = new] = history /\ [status EXCEPT ![e] = new] = status
    BY <1>2 DEF Inv, Types
  <2>2. UNCHANGED <<status, history>>
    BY <2>1
  <2>. QED
    BY <1>1, <2>2, LifeKeeps
<1>3. CASE e \in Events
  <2>1. Row("reprocessed", "none", q) \in Rows
    BY RowTypes
  <2>2. Outcome(e)' = "reprocessed" /\ \A f \in Events \ {e} : history'[f] = history[f]
    BY <1>3, <2>1, Attempts DEF Row, Inv
  <2>3. status'[e] = "received" /\ \A f \in Events \ {e} : status'[f] = status[f]
    BY <1>3 DEF Inv, Types
  <2>4. Life'[e] = "asked"
    BY <1>3, <2>2, <2>3 DEF Life
  <2>5. Life[e] \in {"held", "failed"}
    BY <1>3, LifeOf, AsksAgain
  <2>6. Lifecycle!Ask(e)
    BY <1>1, <1>3, <2>2, <2>3, <2>4, <2>5, AttemptLives DEF Lifecycle!Ask
  <2>. QED
    BY <1>3, <2>6 DEF Lifecycle!Next
<1>. QED
  BY <1>2, <1>3

LEMMA JudgesLives ==
  \A w \in Workers : Inv /\ Judges(w) => [Lifecycle!Next]_<<Life, taken>>
<1>. SUFFICES ASSUME Inv, NEW w \in Workers, Judges(w), NEW e, e = event[w]
              PROVE  [Lifecycle!Next]_<<Life, taken>>
  OBVIOUS
<1>1. Judged(w) /\ UNCHANGED taken
  BY JudgesMoves DEF Inv, Judged
<1>2. CASE UNCHANGED <<status, history>>
  BY <1>1, <1>2, LifeKeeps
<1>3. CASE e \notin Events
  <2>1. ASSUME NEW new
        PROVE  [history EXCEPT ![e] = new] = history /\ [status EXCEPT ![e] = new] = status
    BY <1>3 DEF Inv, Types
  <2>2. status' = status \/ \E new : status' = [status EXCEPT ![e] = new]
    BY DEF Judges, LeaveEvent, HoldEvent, FailEvent, DraftConsumption
  <2>3. history' = history \/ \E new : history' = [history EXCEPT ![e] = new]
    BY DEF Judges, LeaveEvent, HoldEvent, FailEvent, DraftConsumption, Record
  <2>. QED
    BY <1>2, <2>1, <2>2, <2>3
<1>4. CASE HoldEvent(w) /\ e \in Events
  <2>1. UNCHANGED status /\ Fresh(e) /\ SaleTimeDecision(e, asOf[w]) = "hold"
        /\ history' = [history EXCEPT ![e] = Append(history[e], Row("held", "sale_time_ahead", Actor(w)))]
    BY <1>4 DEF HoldEvent, Record
  <2>2. Row("held", "sale_time_ahead", Actor(w)) \in Rows
    BY Names, RowTypes
  <2>3. Outcome(e)' = "held" /\ \A f \in Events \ {e} : history'[f] = history[f]
    BY <1>4, <2>1, <2>2, Attempts DEF Row, Inv
  <2>4. status[e] = "received" /\ ~Reviewed(e)
    BY <1>1, <1>4, <2>1, Judging DEF SaleTimeDecision
  <2>5. Outcome(e) = "none"
    BY <1>4, <2>1, <2>4, FreshOutcome, Outcomes DEF Inv, Types
  <2>6. Life[e] = "received" /\ Life'[e] = "held"
    BY <1>4, <2>1, <2>3, <2>4, <2>5 DEF Life
  <2>7. Lifecycle!Hold(e)
    BY <1>1, <1>4, <2>1, <2>3, <2>6, AttemptLives DEF Lifecycle!Hold
  <2>. QED
    BY <1>4, <2>7 DEF Lifecycle!Next
<1>5. CASE FailEvent(w) /\ e \in Events
  <2>1. Fresh(e) /\ fault[e] # "ok" /\ status' = [status EXCEPT ![e] = "failed"]
        /\ history' = [history EXCEPT ![e] = Append(history[e], Row("failed", fault[e], Actor(w)))]
    BY <1>5 DEF FailEvent, Record
  <2>2. Row("failed", fault[e], Actor(w)) \in Rows
    BY <1>5, <2>1, Names, RowTypes DEF Inv, Types
  <2>3. Outcome(e)' = "failed" /\ \A f \in Events \ {e} : history'[f] = history[f]
    BY <1>5, <2>1, <2>2, Attempts DEF Row, Inv
  <2>4. status[e] = "received"
    BY <1>1, <1>5, Judging
  <2>5. Outcome(e) \in {"none", "reprocessed"}
    BY <1>5, <2>1, <2>4, FreshOutcome
  <2>6. status'[e] = "failed" /\ \A f \in Events \ {e} : status'[f] = status[f]
    BY <1>5, <2>1 DEF Inv, Types
  <2>7. Life[e] \in {"received", "asked"} /\ Life'[e] = "failed"
    BY <1>5, <2>3, <2>4, <2>5, <2>6 DEF Life
  <2>8. Lifecycle!Fail(e)
    BY <1>1, <1>5, <2>3, <2>6, <2>7, AttemptLives DEF Lifecycle!Fail
  <2>. QED
    BY <1>5, <2>8 DEF Lifecycle!Next
<1>. QED
  BY <1>2, <1>3, <1>4, <1>5 DEF Judges, LeaveEvent, DraftConsumption

LEMMA CommitLives ==
  \A w \in Workers : Inv /\ Commit(w) => [Lifecycle!Next]_<<Life, taken>>
<1>. SUFFICES ASSUME Inv, NEW w \in Workers, Commit(w), NEW e, e = event[w]
              PROVE  [Lifecycle!Next]_<<Life, taken>>
  OBVIOUS
<1>1. CASE e \notin Events
  <2>1. UNCHANGED <<status, history, taken>>
    BY <1>1, CommitNothing
  <2>. QED
    BY <2>1, LifeKeeps
<1>2. CASE e \in Events
  <2>1. Life[e] \in {"received", "asked"} /\ Life'[e] = "consumed"
    BY <1>2, Posts DEF Life
  <2>2. \A f \in Events \ {e} : status'[f] = status[f] /\ history'[f] = history[f]
    BY <1>2, Posts
  <2>3. Life' = [Life EXCEPT ![e] = "consumed"]
    BY <2>1, <2>2, LifeSteps
  <2>4. Lifecycle!Consume(e)
    BY <1>2, <2>1, <2>3, Posts DEF Lifecycle!Consume, Lifecycle!Become
  <2>. QED
    BY <1>2, <2>4 DEF Lifecycle!Next
<1>. QED
  BY <1>1, <1>2

LEMMA LifeInit == Init => Lifecycle!Init
<1>. SUFFICES ASSUME Init PROVE Lifecycle!Init
  OBVIOUS
<1>1. \A e \in Events : status[e] = "none"
  BY DEF Init
<1>2. Life = [e \in Events |-> "unknown"]
  BY <1>1 DEF Life
<1>. QED
  BY <1>2 DEF Init, Lifecycle!Init

LEMMA LifeNext == Inv /\ [Next]_vars => [Lifecycle!Next]_<<Life, taken>>
<1>. SUFFICES ASSUME Inv, [Next]_vars PROVE [Lifecycle!Next]_<<Life, taken>>
  OBVIOUS
<1>1. CASE UNCHANGED <<status, history, taken>>
  BY <1>1, LifeKeeps
<1>2. ASSUME NEW e \in Events, NEW s \in Sales, Deliver(e, s)
      PROVE  [Lifecycle!Next]_<<Life, taken>>
  BY <1>2, DeliverLives DEF Lifecycle!Next
<1>3. ASSUME NEW w \in Workers, ProcessOne(w) PROVE [Lifecycle!Next]_<<Life, taken>>
  BY <1>1, <1>3, JudgesLives, CommitLives
     DEF ProcessOne, Judges, StartClaim, ClaimEvent, LockDraft, LockEvent, tables
<1>4. ASSUME NEW r \in Runs, StartRun(r) \/ RunStep(r) PROVE [Lifecycle!Next]_<<Life, taken>>
  BY <1>1, <1>3, <1>4 DEF RunStep, StartRun, ListHeld, Select, tables, Workers
<1>5. ASSUME NEW q \in Requests, RequestStep(q) \/ \E e \in Events : AskAgain(q, e)
      PROVE  [Lifecycle!Next]_<<Life, taken>>
  BY <1>1, <1>3, <1>5, RecordRequestLives DEF RequestStep, AskAgain, tables, Workers
<1>6. CASE NextDay \/ (\E e \in Events : FixMasterData(e)) \/ (\E w \in Workers : Stop(w)) \/ UNCHANGED vars
  BY <1>1, <1>6 DEF NextDay, FixMasterData, Stop, vars, tables
<1>. QED
  BY <1>2, <1>4, <1>5, <1>6 DEF Next

\* Every sale lives the life the company was promised: stored once, held only
\* as it comes in, tried again only when a person asked, and consumed once.
THEOREM SalesLiveOnce == Spec => ImplementsSaleLifecycle
BY LifeInit, LifeNext, Invariant, PTL
   DEF Spec, ImplementsSaleLifecycle, Lifecycle!Spec, Lifecycle!vars

------------------------------------------------------------------------------
(* Which lots a sale takes: module BranchStock *)

\* Lots are picked by their expiry, and among equals by their numbers: any two
\* are told apart.
FefoPairs(S) == {c \in S \X S : FefoOrder(c[1], c[2])}

LEMMA FefoIsOrder ==
  ASSUME NEW S \in SUBSET Lots
  PROVE  /\ TotalOrder(FefoPairs(S), S)
         /\ \A a, b \in S : <<a, b>> \in FefoPairs(S) <=> FefoOrder(a, b)
<1>1. \A a, b \in S : <<a, b>> \in FefoPairs(S) <=> FefoOrder(a, b)
  BY DEF FefoPairs
<1>2. \A a \in S : Expiry[a] \in Nat /\ Number[a] \in Nat
  BY BranchAssumption
<1>3. \A a, b \in S : Number[a] = Number[b] => a = b
  BY BranchAssumption
<1>4. \A a \in S : ~ FefoOrder(a, a)
  BY <1>2 DEF FefoOrder
<1>5. \A a, b \in S : a # b => FefoOrder(a, b) \/ FefoOrder(b, a)
  BY <1>2, <1>3 DEF FefoOrder
<1>6. \A a, b, e \in S : FefoOrder(a, b) /\ FefoOrder(b, e) => FefoOrder(a, e)
  BY <1>2 DEF FefoOrder
<1>. QED
  BY <1>1, <1>4, <1>5, <1>6 DEF TotalOrder

\* The lots with stock are all listed, each before those it is picked before.
LEMMA FefoListed ==
  ASSUME NEW S \in SUBSET Lots, NEW n, n = Cardinality(S),
         NEW s, s = FefoSorted(S)
  PROVE  /\ n \in Nat /\ s \in [1 .. n -> S]
         /\ \A i, j \in 1 .. n : i < j => FefoOrder(s[i], s[j])
         /\ \A i, j \in 1 .. n : s[i] = s[j] => i = j
         /\ \A l \in S : \E i \in 1 .. n : s[i] = l
         /\ \A i, j \in 1 .. n : FefoOrder(s[i], s[j]) => i < j
<1>. DEFINE R == FefoPairs(S)
<1>1. IsFiniteSet(S) /\ n \in Nat
  BY FS_Subset, FS_CardinalityType, BranchAssumption
<1>2. TotalOrder(R, S) /\ \A a, b \in S : <<a, b>> \in R <=> FefoOrder(a, b)
  BY FefoIsOrder
<1>. HIDE DEF R
<1>3. \A r : SortedBy(r, R, S) <=>
        /\ r \in [1 .. n -> S]
        /\ \A i, j \in 1 .. n : i < j => FefoOrder(r[i], r[j])
  BY <1>2 DEF SortedBy
<1>4. \E r : SortedBy(r, R, S)
  BY <1>1, <1>2, SortExists
<1>5. \E r \in [1 .. n -> S] : \A i, j \in 1 .. n : i < j => FefoOrder(r[i], r[j])
  BY <1>3, <1>4
<1>6. /\ s \in [1 .. n -> S]
      /\ \A i, j \in 1 .. n : i < j => FefoOrder(s[i], s[j])
  BY <1>5 DEF FefoSorted
<1>7. \A l \in S : \E i \in 1 .. n : s[i] = l
  BY <1>1, <1>2, <1>3, <1>6, SortCovers
<1>8. \A a, b \in S : FefoOrder(a, b) => a # b /\ ~ FefoOrder(b, a)
  BY <1>2 DEF TotalOrder
<1>9. \A i, j \in 1 .. n : s[i] = s[j] => i = j
  <2>. SUFFICES ASSUME NEW i \in 1 .. n, NEW j \in 1 .. n, i < j PROVE s[i] # s[j]
    BY <1>1
  <2>. QED
    BY <1>6, <1>8
<1>10. ASSUME NEW i \in 1 .. n, NEW j \in 1 .. n, FefoOrder(s[i], s[j]) PROVE i < j
  <2>1. i # j /\ ~ (j < i)
    BY <1>6, <1>8, <1>10
  <2>. QED
    BY <1>1, <2>1
<1>. QED
  BY <1>1, <1>6, <1>7, <1>9, <1>10

\* One lot further along the list.
NextRemaining(available, order, d, i, left) ==
  IF IsExpired(order[i], d) THEN left ELSE left - Smaller(available[order[i]], left)

\* r is the recursive function of Remaining over the first n lots.
Remains(r, available, order, quantity, d, n) ==
  r = [i \in 0 .. n |->
         IF i = 0 THEN quantity ELSE NextRemaining(available, order, d, i, r[i - 1])]

\* The operator chooses that function, once there is one.
LEMMA RemainingIs ==
  ASSUME NEW available, NEW order, NEW quantity, NEW d
  PROVE  Remaining(available, order, quantity, d)
           = CHOOSE r : Remains(r, available, order, quantity, d, Len(order))
BY DEF Remaining, Remains, NextRemaining

\* Induction over the numbers up to n is by the smallest that refutes a claim.
LEMMA SmallestNumber ==
  ASSUME NEW n \in Nat, NEW C \in SUBSET (0 .. n), C # {}
  PROVE  \E m \in C : \A k \in C : m <= k
<1>1. IsFiniteSet(C)
  <2>1. IsFiniteSet(0 .. n)
    BY FS_Interval
  <2>. QED
    BY <2>1, FS_Subset
<1>. DEFINE f == [k \in C |-> n - k]
<1>2. \A k \in C : f[k] \in Nat
  OBVIOUS
<1>3. PICK m \in C : \A k \in C : f[k] <= f[m]
  <2>. HIDE DEF f
  <2>. QED
    BY <1>1, <1>2, GreatestExists
<1>4. ASSUME NEW k \in C PROVE m <= k
  <2>1. n - k <= n - m /\ k \in Nat /\ m \in Nat
    BY <1>3
  <2>. QED
    BY <2>1
<1>. QED
  BY <1>4

\* There is one: each value is made from the one before.
LEMMA RemainsExists ==
  ASSUME NEW available, NEW order, NEW quantity, NEW d, NEW n \in Nat
  PROVE  \E r : Remains(r, available, order, quantity, d, n)
<1>. DEFINE Has(m) == \E r : Remains(r, available, order, quantity, d, m)
            C == {m \in 0 .. n : ~ Has(m)}
<1>. SUFFICES ASSUME C # {} PROVE FALSE
  BY DEF Has
<1>1. PICK m \in C : \A k \in C : m <= k
  <2>1. C \in SUBSET (0 .. n)
    OBVIOUS
  <2>. HIDE DEF C
  <2>. QED
    BY <2>1, SmallestNumber
<1>2. m \in 0 .. n /\ ~ Has(m) /\ \A k \in 0 .. n : k < m => Has(k)
  <2>1. m \in 0 .. n /\ ~ Has(m)
    OBVIOUS
  <2>2. ASSUME NEW k \in 0 .. n, k < m PROVE Has(k)
    <3>1. k \notin C
      BY <1>1, <2>1, <2>2
    <3>. QED
      BY <3>1
  <2>. QED
    BY <2>1, <2>2
<1>3. CASE m = 0
  <2>. DEFINE r == [i \in 0 .. 0 |-> quantity]
  <2>1. Remains(r, available, order, quantity, d, 0)
    BY DEF Remains
  <2>. QED
    BY <1>2, <1>3, <2>1
<1>4. CASE m # 0
  <2>1. m - 1 \in 0 .. n /\ m - 1 < m
    BY <1>2, <1>4
  <2>2. PICK g : Remains(g, available, order, quantity, d, m - 1)
    BY <1>2, <2>1
  <2>. DEFINE Eq(r, i) ==
                r[i] = IF i = 0 THEN quantity ELSE NextRemaining(available, order, d, i, r[i - 1])
              r == [i \in 0 .. m |->
                      IF i = m THEN NextRemaining(available, order, d, m, g[m - 1]) ELSE g[i]]
  <2>3. ASSUME NEW i \in 0 .. m PROVE Eq(r, i)
    <3>1. CASE i = m
      <4>1. r[m - 1] = g[m - 1] /\ r[m] = NextRemaining(available, order, d, m, g[m - 1])
        BY <2>1
      <4>. QED
        BY <1>4, <3>1, <4>1
    <3>2. CASE i # m
      <4>1. i \in 0 .. m - 1 /\ (i # 0 => i - 1 \in 0 .. m)
        BY <1>2, <3>2
      <4>2. g[i] = IF i = 0 THEN quantity ELSE NextRemaining(available, order, d, i, g[i - 1])
        BY <2>2, <4>1 DEF Remains
      <4>3. r[i] = g[i] /\ (i # 0 => r[i - 1] = g[i - 1])
        BY <3>2, <4>1
      <4>. QED
        BY <4>2, <4>3
    <3>. QED
      BY <3>1, <3>2
  <2>4. r = [i \in 0 .. m |-> r[i]]
    OBVIOUS
  <2>5. Remains(r, available, order, quantity, d, m)
    <3>. HIDE DEF r
    <3>. QED
      BY <2>3, <2>4 DEF Remains
  <2>. QED
    BY <1>2, <2>5
<1>. QED
  BY <1>3, <1>4

\* What is still to be found shrinks along the list, by what each lot gives:
\* nothing if it has expired, and no more than it has; a lot that keeps some
\* leaves nothing to be found.
LEMMA RemainsShrinks ==
  ASSUME NEW n \in Nat, NEW order, NEW available, \A i \in 1 .. n : available[order[i]] \in Nat,
         NEW quantity \in Nat, NEW d, NEW r, Remains(r, available, order, quantity, d, n)
  PROVE  /\ r[0] = quantity
         /\ \A i \in 0 .. n : r[i] \in Nat
         /\ \A i \in 1 .. n :
              /\ r[i] <= r[i - 1]
              /\ IsExpired(order[i], d) => r[i] = r[i - 1]
              /\ r[i - 1] - r[i] <= available[order[i]]
              /\ ~ IsExpired(order[i], d) /\ r[i - 1] - r[i] < available[order[i]] => r[i] = 0
<1>1. r[0] = quantity /\ \A i \in 1 .. n : r[i] = NextRemaining(available, order, d, i, r[i - 1])
  <2>1. \A i \in 1 .. n : i \in 0 .. n /\ i # 0
    OBVIOUS
  <2>2. 0 \in 0 .. n
    OBVIOUS
  <2>. QED
    BY <2>1, <2>2 DEF Remains
<1>2. ASSUME NEW i \in 1 .. n, r[i - 1] \in Nat
      PROVE  /\ r[i] \in Nat /\ r[i] <= r[i - 1]
             /\ IsExpired(order[i], d) => r[i] = r[i - 1]
             /\ r[i - 1] - r[i] <= available[order[i]]
             /\ ~ IsExpired(order[i], d) /\ r[i - 1] - r[i] < available[order[i]] => r[i] = 0
  <2>. DEFINE a == available[order[i]]
              x == r[i - 1]
              y == r[i]
  <2>1. a \in Nat /\ x \in Nat
    BY <1>2
  <2>2. y = IF IsExpired(order[i], d) THEN x ELSE x - (IF a < x THEN a ELSE x)
    BY <1>1 DEF NextRemaining, Smaller
  <2>. HIDE DEF a, x, y
  <2>3. /\ y \in Nat /\ y <= x
        /\ IsExpired(order[i], d) => y = x
        /\ x - y <= a
        /\ ~ IsExpired(order[i], d) /\ x - y < a => y = 0
    <3>1. CASE IsExpired(order[i], d)
      BY <2>1, <2>2, <3>1
    <3>2. CASE ~ IsExpired(order[i], d) /\ a < x
      BY <2>1, <2>2, <3>2
    <3>3. CASE ~ IsExpired(order[i], d) /\ ~ (a < x)
      BY <2>1, <2>2, <3>3
    <3>. QED
      BY <3>1, <3>2, <3>3
  <2>. QED
    BY <2>3 DEF a, x, y
<1>3. \A i \in 0 .. n : r[i] \in Nat
  <2>. DEFINE C == {i \in 0 .. n : r[i] \notin Nat}
  <2>. SUFFICES ASSUME C # {} PROVE FALSE
    OBVIOUS
  <2>1. PICK m \in C : \A k \in C : m <= k
    <3>1. C \in SUBSET (0 .. n)
      OBVIOUS
    <3>. HIDE DEF C
    <3>. QED
      BY <3>1, SmallestNumber
  <2>2. m # 0 /\ m \in 1 .. n
    BY <1>1, <2>1
  <2>3. r[m - 1] \in Nat
    <3>1. m - 1 \in 0 .. n /\ ~ (m <= m - 1)
      BY <2>2
    <3>. QED
      BY <2>1, <3>1
  <2>. QED
    BY <1>2, <2>1, <2>2, <2>3
<1>4. \A i \in 1 .. n : r[i - 1] \in Nat
  <2>1. \A i \in 1 .. n : i - 1 \in 0 .. n
    OBVIOUS
  <2>. QED
    BY <1>3, <2>1
<1>. QED
  BY <1>1, <1>2, <1>3, <1>4

\* Along the list it only shrinks.
LEMMA RemainsDescends ==
  ASSUME NEW n \in Nat, NEW r, \A i \in 0 .. n : r[i] \in Nat, \A i \in 1 .. n : r[i] <= r[i - 1],
         NEW i \in 0 .. n, NEW j \in 0 .. n, i <= j
  PROVE  r[j] <= r[i]
<1>. DEFINE C == {k \in 0 .. n : i <= k /\ ~ (r[k] <= r[i])}
<1>. SUFFICES ASSUME C # {} PROVE FALSE
  OBVIOUS
<1>1. PICK m \in C : \A k \in C : m <= k
  <2>1. C \in SUBSET (0 .. n)
    OBVIOUS
  <2>. HIDE DEF C
  <2>. QED
    BY <2>1, SmallestNumber
<1>2. m \in 0 .. n /\ i <= m /\ ~ (r[m] <= r[i])
  OBVIOUS
<1>3. m # i
  <2>1. r[i] <= r[i]
    OBVIOUS
  <2>. QED
    BY <1>2, <2>1
<1>4. m - 1 \in 0 .. n /\ i <= m - 1 /\ m \in 1 .. n /\ ~ (m <= m - 1)
  BY <1>2, <1>3
<1>5. r[m - 1] <= r[i]
  BY <1>1, <1>4
<1>6. r[m] <= r[m - 1] /\ r[m] \in Nat /\ r[m - 1] \in Nat /\ r[i] \in Nat
  BY <1>2, <1>4
<1>7. r[m] <= r[i]
  <2>. DEFINE x == r[m]
              y == r[m - 1]
              z == r[i]
  <2>1. x \in Nat /\ y \in Nat /\ z \in Nat /\ x <= y /\ y <= z
    BY <1>5, <1>6
  <2>. HIDE DEF x, y, z
  <2>2. x <= z
    BY <2>1
  <2>. QED
    BY <2>2 DEF x, z
<1>. QED
  BY <1>2, <1>7

\* order lists S, and each of its lots gives what r goes down by there.
Gives(n, S, order, r, picks) ==
  /\ n \in Nat /\ IsFiniteSet(S) /\ order \in [1 .. n -> S]
  /\ \A i, j \in 1 .. n : order[i] = order[j] => i = j
  /\ \A l \in S : \E i \in 1 .. n : order[i] = l
  /\ \A i \in 0 .. n : r[i] \in Nat
  /\ \A i \in 1 .. n : picks[order[i]] = r[i - 1] - r[i]

\* What the lots of a list give sums to what is not still to be found.
LEMMA PicksSum ==
  ASSUME NEW n, NEW S, NEW order, NEW r, NEW picks, Gives(n, S, order, r, picks)
  PROVE  SumFunctionOnSet(picks, S) = r[0] - r[n]
<1>. USE DEF Gives
<1>. DEFINE First(m) == {order[i] : i \in 1 .. m}
            Sums(m) == SumFunctionOnSet(picks, First(m)) = r[0] - r[m]
            C == {m \in 0 .. n : ~ Sums(m)}
<1>1. First(n) = S
  OBVIOUS
<1>2. \A i \in 1 .. n : picks[order[i]] \in Int
  <2>. SUFFICES ASSUME NEW i \in 1 .. n PROVE picks[order[i]] \in Int
    OBVIOUS
  <2>1. i - 1 \in 0 .. n /\ i \in 0 .. n
    OBVIOUS
  <2>2. r[i - 1] \in Nat /\ r[i] \in Nat
    BY <2>1
  <2>. QED
    BY <2>2
<1>3. Sums(0)
  <2>1. First(0) = {}
    OBVIOUS
  <2>2. SumFunctionOnSet(picks, {}) = 0
    BY SumDef, FS_EmptySet
  <2>3. r[0] - r[0] = 0
    <3>1. r[0] \in Nat
      OBVIOUS
    <3>. QED
      BY <3>1
  <2>. HIDE DEF First
  <2>4. SumFunctionOnSet(picks, First(0)) = r[0] - r[0]
    BY <2>1, <2>2, <2>3, Zenon
  <2>. QED
    BY <2>4
<1>4. ASSUME C # {} PROVE FALSE
  <2>1. PICK m \in C : \A k \in C : m <= k
    <3>1. C \in SUBSET (0 .. n)
      OBVIOUS
    <3>. HIDE DEF C
    <3>. QED
      BY <1>4, <3>1, SmallestNumber
  <2>2. m \in 0 .. n /\ ~ Sums(m)
    OBVIOUS
  <2>3. m # 0
    BY <1>3, <2>2
  <2>4. m - 1 \in 0 .. n /\ ~ (m <= m - 1) /\ m \in 1 .. n
    BY <2>2, <2>3
  <2>5. Sums(m - 1)
    <3>1. m - 1 \notin C
      BY <2>1, <2>4
    <3>. HIDE DEF Sums
    <3>. QED
      BY <2>4, <3>1
  <2>6. First(m) = First(m - 1) \cup {order[m]}
    <3>1. \A i \in 1 .. m : i \in 1 .. m - 1 \/ i = m
      BY <2>4
    <3>2. \A i \in 1 .. m - 1 : i \in 1 .. m
      BY <2>4
    <3>. QED
      BY <2>4, <3>1, <3>2
  <2>7. order[m] \notin First(m - 1)
    <3>1. ASSUME NEW i \in 1 .. m - 1 PROVE i \in 1 .. n /\ i # m
      <4>1. m \in Nat /\ m <= n
        BY <2>4
      <4>. HIDE DEF C
      <4>. QED
        BY <4>1
    <3>. QED
      BY <2>4, <3>1
  <2>8. \A l \in First(m) : picks[l] \in Int
    <3>1. \A i \in 1 .. m : i \in 1 .. n
      BY <2>4
    <3>. QED
      BY <1>2, <3>1
  <2>9. SumFunctionOnSet(picks, First(m)) = SumFunctionOnSet(picks, First(m - 1)) + picks[order[m]]
    <3>1. First(m - 1) \subseteq S
      <4>1. \A i \in 1 .. m - 1 : i \in 1 .. n
        BY <2>4
      <4>. QED
        BY <4>1
    <3>2. \A l \in First(m - 1) \cup {order[m]} : picks[l] \in Int
      BY <2>6, <2>8
    <3>. HIDE DEF First, Sums, C
    <3>3. IsFiniteSet(First(m - 1))
      BY <3>1, FS_Subset
    <3>4. SumFunctionOnSet(picks, First(m - 1) \cup {order[m]})
            = SumFunctionOnSet(picks, First(m - 1)) + picks[order[m]]
      <4>. DEFINE P == First(m - 1)
                  x == order[m]
      <4>1. IsFiniteSet(P) /\ x \notin P /\ \A y \in P \cup {x} : picks[y] \in Int
        BY <2>7, <3>2, <3>3
      <4>. HIDE DEF P, x
      <4>2. SumFunctionOnSet(picks, P \cup {x}) = SumFunctionOnSet(picks, P) + picks[x]
        BY ONLY <4>1, SumPutIn
      <4>. QED
        BY <4>2 DEF P, x
    <3>. QED
      BY <2>6, <3>4
  <2>10. picks[order[m]] = r[m - 1] - r[m] /\ r[m - 1] \in Nat /\ r[m] \in Nat /\ r[0] \in Nat
    BY <2>4
  <2>. HIDE DEF First
  <2>11. SumFunctionOnSet(picks, First(m)) = r[0] - r[m]
    BY <2>5, <2>9, <2>10
  <2>. QED
    BY <2>2, <2>11
<1>5. Sums(n)
  <2>1. n \in 0 .. n
    OBVIOUS
  <2>. HIDE DEF Sums
  <2>. QED
    BY <1>4, <2>1
<1>. QED
  BY <1>1, <1>5

\* fefoPick: it takes what it can, in order, from lots that have not expired,
\* and what it could not take it says.
LEMMA FefoPicks ==
  ASSUME NEW S \in SUBSET Lots, NEW available \in [S -> Nat \ {0}],
         NEW quantity \in Nat, NEW d, NEW pick, pick = FefoPick(available, quantity, d)
  PROVE  /\ pick.shortBy \in Nat
         /\ DOMAIN pick.picks = S
         /\ \A l \in S :
              /\ pick.picks[l] \in Nat
              /\ pick.picks[l] <= available[l]
              /\ IsExpired(l, d) => pick.picks[l] = 0
              /\ ~ IsExpired(l, d) /\ pick.picks[l] < available[l] =>
                   pick.shortBy = 0 /\ \A k \in S : FefoOrder(l, k) => pick.picks[k] = 0
         /\ SumFunctionOnSet(pick.picks, S) + pick.shortBy = quantity
<1>. DEFINE n == Cardinality(S)
            order == FefoSorted(S)
            r == Remaining(available, order, quantity, d)
            place(l) == CHOOSE j \in DOMAIN order : order[j] = l
<1>1. /\ n \in Nat /\ order \in [1 .. n -> S]
      /\ \A i, j \in 1 .. n : order[i] = order[j] => i = j
      /\ \A l \in S : \E i \in 1 .. n : order[i] = l
      /\ \A i, j \in 1 .. n : FefoOrder(order[i], order[j]) => i < j
  BY FefoListed
<1>2. IsFiniteSet(S)
  BY FS_Subset, BranchAssumption
<1>3. Len(order) = n /\ DOMAIN order = 1 .. n
  <2>. HIDE DEF n, order
  <2>. QED
    BY <1>1
<1>4. \A i \in 1 .. n : available[order[i]] \in Nat
  <2>. HIDE DEF n, order
  <2>. QED
    BY <1>1
<1>5. Remains(r, available, order, quantity, d, n)
  <2>. HIDE DEF n, order
  <2>1. \E g : Remains(g, available, order, quantity, d, n)
    BY <1>1, RemainsExists
  <2>2. r = CHOOSE g : Remains(g, available, order, quantity, d, n)
    BY <1>3, RemainingIs
  <2>. HIDE DEF r
  <2>. QED
    BY <2>1, <2>2
<1>6. /\ pick.shortBy = r[n]
      /\ pick.picks = [l \in S |-> r[place(l) - 1] - r[place(l)]]
  <2>1. DOMAIN available = S
    OBVIOUS
  <2>2. pick = [picks |-> [l \in S |-> r[place(l) - 1] - r[place(l)]], shortBy |-> r[Len(order)]]
    BY <2>1 DEF FefoPick
  <2>. HIDE DEF n, order, r, place
  <2>. QED
    BY <1>3, <2>2
<1>7. \A l \in S : place(l) \in 1 .. n /\ order[place(l)] = l
  <2>. HIDE DEF n, order
  <2>. QED
    BY <1>1, <1>3
<1>. HIDE DEF n, order, r, place
<1>8. /\ r[0] = quantity
      /\ \A i \in 0 .. n : r[i] \in Nat
      /\ \A i \in 1 .. n :
           /\ r[i] <= r[i - 1]
           /\ IsExpired(order[i], d) => r[i] = r[i - 1]
           /\ r[i - 1] - r[i] <= available[order[i]]
           /\ ~ IsExpired(order[i], d) /\ r[i - 1] - r[i] < available[order[i]] => r[i] = 0
  <2>1. n \in Nat
    BY <1>1
  <2>. QED
    BY ONLY <2>1, <1>4, <1>5, quantity \in Nat, RemainsShrinks
<1>9. \A i \in 1 .. n : pick.picks[order[i]] = r[i - 1] - r[i]
  <2>. SUFFICES ASSUME NEW i \in 1 .. n PROVE pick.picks[order[i]] = r[i - 1] - r[i]
    OBVIOUS
  <2>1. order[i] \in S /\ place(order[i]) = i
    BY <1>1, <1>7
  <2>. QED
    BY <1>6, <2>1
<1>10. n \in 0 .. n /\ 0 \in 0 .. n
  BY <1>1
<1>11. r[n] \in Nat /\ quantity \in Nat
  BY <1>8, <1>10
<1>12. SumFunctionOnSet(pick.picks, S) + pick.shortBy = quantity
  <2>1. SumFunctionOnSet(pick.picks, S) = r[0] - r[n]
    <3>1. Gives(n, S, order, r, pick.picks)
      BY <1>1, <1>2, <1>8, <1>9 DEF Gives
    <3>. QED
      BY <3>1, PicksSum
  <2>. QED
    BY <1>6, <1>8, <1>11, <2>1
<1>13. ASSUME NEW i \in 0 .. n, r[i] = 0, NEW j \in 0 .. n, i <= j PROVE r[j] = 0
  <2>1. r[j] <= r[i] /\ r[j] \in Nat
    BY <1>1, <1>8, <1>13, RemainsDescends
  <2>. QED
    BY <1>13, <2>1
<1>14. ASSUME NEW l \in S
       PROVE  /\ pick.picks[l] \in Nat
              /\ pick.picks[l] <= available[l]
              /\ IsExpired(l, d) => pick.picks[l] = 0
              /\ ~ IsExpired(l, d) /\ pick.picks[l] < available[l] =>
                   pick.shortBy = 0 /\ \A k \in S : FefoOrder(l, k) => pick.picks[k] = 0
  <2>. DEFINE i == place(l)
  <2>1. i \in 1 .. n /\ order[i] = l
    BY <1>7
  <2>. HIDE DEF i
  <2>2. i \in 0 .. n /\ i - 1 \in 0 .. n /\ i <= n
    BY <1>1, <2>1
  <2>3. pick.picks[l] = r[i - 1] - r[i] /\ r[i] \in Nat /\ r[i - 1] \in Nat /\ r[i] <= r[i - 1]
    BY <1>8, <1>9, <2>1, <2>2
  <2>4. pick.picks[l] <= available[l] /\ (IsExpired(l, d) => r[i] = r[i - 1])
    BY <1>8, <2>1, <2>3
  <2>5. ASSUME ~ IsExpired(l, d), pick.picks[l] < available[l]
        PROVE  pick.shortBy = 0 /\ \A k \in S : FefoOrder(l, k) => pick.picks[k] = 0
    <3>1. r[i] = 0
      BY <1>8, <2>1, <2>3, <2>5
    <3>2. pick.shortBy = 0
      BY <1>6, <1>10, <1>13, <2>2, <3>1
    <3>3. ASSUME NEW k \in S, FefoOrder(l, k) PROVE pick.picks[k] = 0
      <4>1. PICK j \in 1 .. n : order[j] = k
        BY <1>1
      <4>2. i < j
        BY <1>1, <2>1, <3>3, <4>1
      <4>3. j \in 0 .. n /\ j - 1 \in 0 .. n /\ i <= j /\ i <= j - 1
        BY <1>1, <2>1, <4>2
      <4>4. r[j] = 0 /\ r[j - 1] = 0
        BY <1>13, <2>2, <3>1, <4>3
      <4>. QED
        BY <1>9, <4>1, <4>4
    <3>. QED
      BY <3>2, <3>3
  <2>6. pick.picks[l] \in Nat
    BY <2>3
  <2>7. IsExpired(l, d) => pick.picks[l] = 0
    BY <2>3, <2>4
  <2>. QED
    BY <2>4, <2>5, <2>6, <2>7
<1>. QED
  BY <1>6, <1>11, <1>12, <1>14

\* What PlanIsFefo says of one plan.
IsFefo(p, available, quantity, d) ==
  LET take == p.take
      usable == {l \in DOMAIN available : ~ IsExpired(l, d)}
      beyond == {k \in Keys : take[k] > IF k \in usable THEN available[k] ELSE 0}
  IN /\ SumFunction(take) = quantity
     /\ \A l \in usable, k \in {j \in Keys : take[j] > 0} :
          (k \notin usable \/ FefoOrder(l, k)) => take[l] >= available[l]
     /\ \A j, k \in beyond : j = k
     /\ beyond # {} => \A l \in usable : take[l] >= available[l]
     /\ p.shortfall <=> beyond # {}

\* allocateAtBranch plans by FEFO, whichever lot was received last; without a
\* shortfall it takes no more than there is.
LEMMA AllocationIsFefo ==
  ASSUME NEW S \in SUBSET Lots, NEW available \in [S -> Nat \ {0}],
         NEW quantity \in Nat, NEW d, NEW last \in Lots \cup {NoLot},
         NEW p, p = AllocateAtBranch(available, quantity, d, last)
  PROVE  /\ p \in [take : [Keys -> Nat], shortfall : BOOLEAN]
         /\ IsFefo(p, available, quantity, d)
         /\ ~ p.shortfall => \A k \in Keys : p.take[k] <= IF k \in S THEN available[k] ELSE 0
<1>. DEFINE fefo == FefoPick(available, quantity, d)
            picks == fefo.picks
            short == fefo.shortBy
            rest == IF last = NoLot THEN Placeholder ELSE last
            f == [k \in Keys |-> IF k \in S THEN picks[k] ELSE 0]
            g == [k \in Keys |-> IF k = rest THEN short ELSE 0]
            take == p.take
            usable == {l \in S : ~ IsExpired(l, d)}
            beyond == {k \in Keys : take[k] > IF k \in usable THEN available[k] ELSE 0}
<1>1. /\ short \in Nat
      /\ DOMAIN picks = S
      /\ \A l \in S :
           /\ picks[l] \in Nat
           /\ picks[l] <= available[l]
           /\ IsExpired(l, d) => picks[l] = 0
           /\ ~ IsExpired(l, d) /\ picks[l] < available[l] =>
                short = 0 /\ \A k \in S : FefoOrder(l, k) => picks[k] = 0
      /\ SumFunctionOnSet(picks, S) + short = quantity
  BY FefoPicks
<1>2. rest \in Keys /\ S \subseteq Keys /\ DOMAIN available = S
  BY DEF Keys
<1>3. p = [take |-> [k \in Keys |-> f[k] + g[k]], shortfall |-> short > 0]
  BY <1>2 DEF AllocateAtBranch
<1>. HIDE DEF fefo, picks, short, rest
<1>4. \A k \in Keys : f[k] \in Nat /\ g[k] \in Nat /\ take[k] = f[k] + g[k]
  <2>1. \A k \in Keys : f[k] \in Nat /\ g[k] \in Nat
    BY <1>1
  <2>. HIDE DEF f, g
  <2>. QED
    BY <1>3, <2>1
<1>5. take \in [Keys -> Nat] /\ (p.shortfall <=> short > 0) /\ DOMAIN take = Keys
  <2>. HIDE DEF f, g
  <2>1. take = [k \in Keys |-> f[k] + g[k]]
    BY <1>3
  <2>2. p.shortfall = (short > 0)
    BY <1>3
  <2>3. \A k \in Keys : f[k] + g[k] \in Nat
    BY <1>4
  <2>. HIDE DEF take
  <2>. QED
    BY <2>1, <2>2, <2>3
<1>6. SumFunction(take) = quantity
  <2>1. IsFiniteSet(Keys) /\ IsFiniteSet(S)
    BY FS_Subset, FS_AddElement, BranchAssumption DEF Keys
  <2>2. SumFunctionOnSet(f, Keys) = SumFunctionOnSet(picks, S)
    <3>1. \A k \in Keys : f[k] \in Int
      BY <1>4
    <3>2. (\A k \in Keys \ S : f[k] = 0) /\ (\A k \in S : f[k] = picks[k])
      BY <1>2
    <3>. HIDE DEF f
    <3>3. SumFunctionOnSet(f, Keys) = SumFunctionOnSet(f, S)
      BY <1>2, <2>1, <3>1, <3>2, SumLeaveOut
    <3>4. SumFunctionOnSet(f, S) = SumFunctionOnSet(picks, S)
      BY <2>1, <3>2, SumSame
    <3>. QED
      BY <3>3, <3>4
  <2>3. SumFunctionOnSet(g, Keys) = short
    <3>1. g[rest] = short /\ \A k \in Keys \ {rest} : g[k] = 0
      BY <1>2
    <3>2. g[rest] \in Int
      BY <1>1, <3>1
    <3>. HIDE DEF g
    <3>3. SumFunctionOnSet(g, Keys) = g[rest]
      BY <1>2, <2>1, <3>1, <3>2, SumOfOne
    <3>. QED
      BY <3>1, <3>3
  <2>4. SumFunctionOnSet(take, Keys) = SumFunctionOnSet(f, Keys) + SumFunctionOnSet(g, Keys)
    <3>. HIDE DEF f, g, take
    <3>1. \A k \in Keys : f[k] \in Int /\ g[k] \in Int /\ take[k] = f[k] + g[k]
      BY <1>4
    <3>. QED
      BY <2>1, <3>1, SumPlus
  <2>. HIDE DEF f, g, take
  <2>5. SumFunction(take) = SumFunctionOnSet(take, Keys)
    BY <1>5 DEF SumFunction
  <2>. QED
    BY <1>1, <2>2, <2>3, <2>4, <2>5
<1>7. /\ \A k \in S : take[k] = picks[k] + (IF k = rest THEN short ELSE 0)
      /\ \A k \in Keys \ S : take[k] = IF k = rest THEN short ELSE 0
  <2>. HIDE DEF take
  <2>. QED
    BY <1>1, <1>2, <1>4
<1>. HIDE DEF f, g, take
<1>8. ASSUME NEW l \in usable, take[l] < available[l]
      PROVE  short = 0 /\ \A k \in S : FefoOrder(l, k) => picks[k] = 0
  <2>1. l \in S /\ ~ IsExpired(l, d) /\ available[l] \in Nat
    OBVIOUS
  <2>2. picks[l] <= take[l] /\ picks[l] \in Nat /\ take[l] \in Nat
    BY <1>1, <1>5, <1>7, <2>1
  <2>3. picks[l] < available[l]
    BY <1>8, <2>1, <2>2
  <2>. QED
    BY <1>1, <2>1, <2>3
<1>9. \A l \in usable : ~ (take[l] < available[l]) => take[l] >= available[l]
  <2>1. \A l \in usable : l \in Keys /\ available[l] \in Nat
    BY <1>2
  <2>. QED
    BY <1>5, <2>1
<1>10. ASSUME NEW l \in usable, NEW k \in Keys, take[k] > 0, k \notin usable \/ FefoOrder(l, k)
       PROVE  take[l] >= available[l]
  <2>. SUFFICES ASSUME take[l] < available[l] PROVE FALSE
    BY <1>9
  <2>1. short = 0 /\ (k \in S /\ FefoOrder(l, k) => picks[k] = 0)
    BY <1>8
  <2>2. CASE k \notin S
    BY <1>7, <1>10, <2>1, <2>2
  <2>3. CASE k \in S
    <3>1. picks[k] = 0
      BY <1>1, <1>10, <2>1, <2>3
    <3>2. take[k] = 0
      BY <1>7, <2>1, <2>3, <3>1
    <3>. QED
      BY <1>10, <3>2
  <2>. QED
    BY <2>2, <2>3
<1>11. ASSUME NEW k \in Keys, k # rest \/ short = 0
       PROVE  /\ take[k] <= IF k \in usable THEN available[k] ELSE 0
              /\ take[k] <= IF k \in S THEN available[k] ELSE 0
  <2>1. CASE k \in S
    <3>1. take[k] = picks[k] /\ picks[k] \in Nat /\ available[k] \in Nat
      BY <1>1, <1>7, <1>11, <2>1
    <3>2. picks[k] <= available[k] /\ (k \notin usable => picks[k] = 0)
      BY <1>1, <2>1
    <3>. QED
      BY <2>1, <3>1, <3>2
  <2>2. CASE k \notin S
    <3>1. take[k] = 0
      BY <1>7, <1>11, <2>2
    <3>. QED
      BY <2>2, <3>1
  <2>. QED
    BY <2>1, <2>2
<1>12. \A k \in Keys : k \in beyond => k = rest /\ short # 0
  <2>1. \A k \in Keys : take[k] \in Nat /\ (IF k \in usable THEN available[k] ELSE 0) \in Nat
    BY <1>5
  <2>. QED
    BY <1>11, <2>1
<1>13. ASSUME short # 0, NEW l \in usable PROVE take[l] >= available[l]
  BY <1>8, <1>9, <1>13
<1>14. ASSUME short # 0 PROVE rest \in beyond
  <2>1. CASE rest \in S
    <3>1. take[rest] = picks[rest] + short /\ picks[rest] \in Nat /\ available[rest] \in Nat
      BY <1>1, <1>7, <2>1
    <3>2. rest \in usable => ~ (picks[rest] < available[rest])
      BY <1>1, <1>14, <2>1
    <3>3. take[rest] > IF rest \in usable THEN available[rest] ELSE 0
      BY <1>1, <1>14, <3>1, <3>2
    <3>. QED
      BY <1>2, <3>3
  <2>2. CASE rest \notin S
    <3>1. take[rest] = short /\ rest \notin usable
      BY <1>2, <1>7, <2>2
    <3>2. take[rest] > 0
      BY <1>1, <1>14, <3>1
    <3>. QED
      BY <1>2, <3>1, <3>2
  <2>. QED
    BY <2>1, <2>2
<1>15. p.shortfall <=> short # 0
  BY <1>1, <1>5
<1>16. p \in [take : [Keys -> Nat], shortfall : BOOLEAN]
  <2>1. p = [take |-> take, shortfall |-> p.shortfall]
    BY <1>3 DEF take
  <2>2. p.shortfall \in BOOLEAN
    BY <1>3
  <2>. QED
    BY <1>5, <2>1, <2>2
<1>17. IsFefo(p, available, quantity, d)
  <2>1. \A j, k \in beyond : j = k
    BY <1>12
  <2>2. beyond # {} => \A l \in usable : take[l] >= available[l]
    BY <1>12, <1>13
  <2>3. p.shortfall <=> beyond # {}
    BY <1>12, <1>14, <1>15
  <2>4. \A l \in usable, k \in {j \in Keys : take[j] > 0} :
          (k \notin usable \/ FefoOrder(l, k)) => take[l] >= available[l]
    BY <1>10
  <2>. QED
    BY <1>2, <1>6, <2>1, <2>2, <2>3, <2>4 DEF IsFefo, take
<1>18. ~ p.shortfall => \A k \in Keys : p.take[k] <= IF k \in S THEN available[k] ELSE 0
  BY <1>11, <1>15 DEF take
<1>. QED
  BY <1>16, <1>17, <1>18

\* The lot received last is one of the lots, when any was received.
LEMMA LastReceivedType ==
  ASSUME BranchTypeOK PROVE LastReceived \in Lots \cup {NoLot}
<1>. DEFINE D == DOMAIN arrivals
            Later(i, j) ==
              arrivals[i].day > arrivals[j].day \/ (arrivals[i].day = arrivals[j].day /\ i > j)
            R == {e \in D \X D : Later(e[2], e[1])}
            IsLast(i) == \A j \in D \ {i} : Later(i, j)
<1>. SUFFICES ASSUME arrivals # <<>> PROVE LastReceived \in Lots
  BY DEF LastReceived
<1>1. arrivals \in Seq([lot : Lots, day : Days])
  BY DEF BranchTypeOK
<1>2. /\ D = 1 .. Len(arrivals) /\ Len(arrivals) \in Nat
      /\ \A i \in D : arrivals[i] \in [lot : Lots, day : Days]
  BY <1>1, LenProperties, ElementOfSeq
<1>3. D # {}
  BY <1>1, <1>2, EmptySeq
<1>4. IsFiniteSet(D)
  BY <1>2, FS_Interval
<1>5. \A i \in D : i \in Nat /\ arrivals[i].day \in Nat /\ arrivals[i].lot \in Lots
  BY <1>2, BranchAssumption DEF Days
<1>6. \A i, j \in D : <<i, j>> \in R <=> Later(j, i)
  OBVIOUS
<1>7. TotalOrder(R, D)
  <2>1. \A i \in D : ~ Later(i, i)
    BY <1>5
  <2>2. \A i, j \in D : i # j => Later(i, j) \/ Later(j, i)
    BY <1>5
  <2>3. \A i, j, k \in D : Later(j, i) /\ Later(k, j) => Later(k, i)
    BY <1>5
  <2>. HIDE DEF D, R, Later
  <2>. QED
    BY <1>6, <2>1, <2>2, <2>3 DEF TotalOrder
<1>8. \E i \in D : IsLast(i)
  <2>. HIDE DEF D, R, Later
  <2>1. PICK i \in D : \A j \in D \ {i} : <<j, i>> \in R
    BY <1>3, <1>4, <1>7, LastExists
  <2>. QED
    BY <1>6, <2>1
<1>9. LastReceived = arrivals[CHOOSE i \in D : IsLast(i)].lot
  BY DEF LastReceived
<1>10. (CHOOSE i \in D : IsLast(i)) \in D
  <2>. HIDE DEF D, Last
  <2>. QED
    BY <1>8
<1>. QED
  BY <1>5, <1>9, <1>10

\* A set of records that is listed makes a sequence of them.
LEMMA ListType ==
  ASSUME NEW S, IsFiniteSet(S) PROVE SetToSeq(S) \in Seq(S)
<1>1. Cardinality(S) \in Nat /\ ExistsBijection(1 .. Cardinality(S), S)
  BY FS_CardinalityType
<1>2. \E f \in [1 .. Cardinality(S) -> S] : IsInjective(f)
  BY <1>1 DEF ExistsBijection, Bijection, Injection, IsInjective
<1>3. SetToSeq(S) \in [1 .. Cardinality(S) -> S]
  BY <1>2 DEF SetToSeq
<1>. QED
  BY <1>1, <1>3

\* What no lot was read into is a function as well.
LEMMA NothingRead == <<>> \in [{} -> Nat \ {0}]
<1>1. <<>> \in Seq({}) /\ Len(<<>>) = 0
  OBVIOUS
<1>2. DOMAIN <<>> = {}
  BY <1>1
<1>3. <<>> = [x \in {} |-> 0]
  BY <1>2
<1>. QED
  BY <1>3

\* The rows a consumer found and locked are its own until it ends.
LockedInv == \A c \in Consumers : \A k \in locked[c] : rowLock[k] = c

\* What it read of a lot whose row it locked still stands.
ReadInv ==
  \A c \in Consumers : phase[c] \in {"allocate", "write"} =>
    \A l \in locked[c] \cap Lots : l \in DOMAIN stocked[c] => stocked[c][l] = balance[l]

\* What it plans is what allocateAtBranch makes of that.
PlannedInv ==
  \A c \in Consumers : phase[c] = "write" =>
    \E last \in Lots \cup {NoLot} :
      plan[c] = AllocateAtBranch(stocked[c], need[c], day[c], last)

BranchInv == BranchTypeOK /\ LockedInv /\ ReadInv /\ PlannedInv

\* What ends a transaction keeps the types.
LEMMA EndType ==
  ASSUME BranchTypeOK, NEW c \in Consumers, End(c)
  PROVE  /\ arrivals' \in Seq([lot : Lots, day : Days])
         /\ rowLock' \in [Keys -> Consumers \cup {NoTxn}]
         /\ sales' \in 0 .. MaxSales
         /\ phase' \in [Consumers -> {"idle", "lock", "read", "allocate", "write"}]
         /\ need' \in [Consumers -> Needs \cup {0}]
         /\ day' \in [Consumers -> Days]
         /\ locked' \in [Consumers -> SUBSET Keys]
         /\ DOMAIN stocked' = Consumers
         /\ \A e \in Consumers : \E S \in SUBSET Lots : stocked'[e] \in [S -> Nat \ {0}]
         /\ plan' \in [Consumers -> [take : [Keys -> Nat], shortfall : BOOLEAN]]
<1>1. 1 \in Days
  BY BranchAssumption DEF Days
<1>2. NoPlan \in [take : [Keys -> Nat], shortfall : BOOLEAN]
  BY DEF NoPlan
<1>3. arrivals' = arrivals /\ sales' = sales
  BY DEF End
<1>4. rowLock' \in [Keys -> Consumers \cup {NoTxn}]
  BY DEF BranchTypeOK, End
<1>5. /\ phase' \in [Consumers -> {"idle", "lock", "read", "allocate", "write"}]
      /\ need' \in [Consumers -> Needs \cup {0}]
      /\ day' \in [Consumers -> Days]
      /\ locked' \in [Consumers -> SUBSET Keys]
  BY <1>1 DEF BranchTypeOK, End
<1>6. plan' \in [Consumers -> [take : [Keys -> Nat], shortfall : BOOLEAN]]
  <2>. HIDE DEF NoPlan
  <2>. QED
    BY <1>2 DEF BranchTypeOK, End
<1>7. /\ DOMAIN stocked' = Consumers
      /\ \A e \in Consumers : \E S \in SUBSET Lots : stocked'[e] \in [S -> Nat \ {0}]
  <2>1. stocked' = [stocked EXCEPT ![c] = <<>>] /\ DOMAIN stocked = Consumers
    BY DEF BranchTypeOK, End
  <2>2. DOMAIN stocked' = Consumers /\ \A e \in Consumers : stocked'[e] = IF e = c THEN <<>> ELSE stocked[e]
    BY <2>1
  <2>3. {} \in SUBSET Lots /\ <<>> \in [{} -> Nat \ {0}]
    BY NothingRead
  <2>4. \A e \in Consumers : \E S \in SUBSET Lots : stocked[e] \in [S -> Nat \ {0}]
    BY DEF BranchTypeOK
  <2>. QED
    BY <2>2, <2>3, <2>4, Zenon
<1>. QED
  BY <1>3, <1>4, <1>5, <1>6, <1>7 DEF BranchTypeOK

\* A plan a consumer makes of what it read is by FEFO.
LEMMA ConsumerPlans ==
  ASSUME BranchTypeOK, NEW c \in Consumers, NEW last \in Lots \cup {NoLot},
         NEW p, p = AllocateAtBranch(stocked[c], need[c], day[c], last)
  PROVE  /\ p \in [take : [Keys -> Nat], shortfall : BOOLEAN]
         /\ IsFefo(p, stocked[c], need[c], day[c])
         /\ ~ p.shortfall =>
              \A k \in Keys : p.take[k] <= IF k \in DOMAIN stocked[c] THEN stocked[c][k] ELSE 0
<1>1. need[c] \in Nat
  <2>1. need[c] \in Needs \cup {0}
    BY DEF BranchTypeOK
  <2>2. \A n \in Needs : n \in Nat
    BY BranchAssumption
  <2>. QED
    BY ONLY <2>1, <2>2
<1>2. PICK S \in SUBSET Lots : stocked[c] \in [S -> Nat \ {0}]
  BY DEF BranchTypeOK
<1>. DEFINE available == stocked[c]
            quantity == need[c]
            d == day[c]
<1>3. /\ available \in [S -> Nat \ {0}] /\ quantity \in Nat
      /\ p = AllocateAtBranch(available, quantity, d, last)
  BY <1>1, <1>2
<1>. HIDE DEF available, quantity, d
<1>4. /\ p \in [take : [Keys -> Nat], shortfall : BOOLEAN]
      /\ IsFefo(p, available, quantity, d)
      /\ ~ p.shortfall => \A k \in Keys : p.take[k] <= IF k \in S THEN available[k] ELSE 0
  BY <1>3, AllocationIsFefo
<1>5. S = DOMAIN stocked[c]
  BY <1>2
<1>. QED
  BY <1>4, <1>5 DEF available, quantity, d

\* The type of every variable is preserved.
LEMMA TypeStep ==
  ASSUME BranchInv, [BranchNext]_branchVars PROVE BranchTypeOK'
<1>. USE DEF BranchInv
<1>1. ASSUME NEW l \in Lots, Adjust(l) PROVE BranchTypeOK'
  <2>1. l \in Keys
    BY DEF Keys
  <2>. QED
    BY <1>1, <2>1 DEF BranchTypeOK, Adjust
<1>2. ASSUME NEW l \in Lots, NEW d \in Days, Receive(l, d) PROVE BranchTypeOK'
  <2>1. l \in Keys
    BY DEF Keys
  <2>2. arrivals' \in Seq([lot : Lots, day : Days])
    <3>1. [lot |-> l, day |-> d] \in [lot : Lots, day : Days]
      OBVIOUS
    <3>. QED
      BY <1>2, <3>1, AppendProperties DEF BranchTypeOK, Receive
  <2>3. rows' \subseteq Keys /\ balance' \in [Keys -> Int]
    BY <1>2, <2>1 DEF BranchTypeOK, Receive
  <2>. QED
    BY <1>2, <2>2, <2>3 DEF BranchTypeOK, Receive
<1>3. ASSUME NEW c \in Consumers, NEW q \in Needs, NEW d \in Days, Begin(c, q, d) PROVE BranchTypeOK'
  <2>1. sales' \in 0 .. MaxSales
    BY <1>3, BranchAssumption DEF BranchTypeOK, Begin
  <2>2. /\ phase' \in [Consumers -> {"idle", "lock", "read", "allocate", "write"}]
        /\ need' \in [Consumers -> Needs \cup {0}]
        /\ day' \in [Consumers -> Days]
    BY <1>3 DEF BranchTypeOK, Begin
  <2>. QED
    BY <1>3, <2>1, <2>2 DEF BranchTypeOK, Begin
<1>4. ASSUME NEW c \in Consumers, LockBalances(c) PROVE BranchTypeOK'
  <2>1. rowLock' \in [Keys -> Consumers \cup {NoTxn}]
    BY <1>4 DEF BranchTypeOK, LockBalances
  <2>2. /\ locked' \in [Consumers -> SUBSET Keys]
        /\ phase' \in [Consumers -> {"idle", "lock", "read", "allocate", "write"}]
    BY <1>4 DEF BranchTypeOK, LockBalances
  <2>. QED
    BY <1>4, <2>1, <2>2 DEF BranchTypeOK, LockBalances
<1>5. ASSUME NEW c \in Consumers, ReadLots(c) PROVE BranchTypeOK'
  <2>. DEFINE S == {m \in Lots : m \in rows /\ balance[m] > 0}
              read == [l \in S |-> balance[l]]
  <2>1. read \in [S -> Nat \ {0}]
    <3>1. \A l \in S : balance[l] \in Nat \ {0}
      <4>1. \A l \in Lots : balance[l] \in Int
        BY DEF BranchTypeOK, Keys
      <4>. QED
        BY <4>1
    <3>. QED
      BY <3>1
  <2>2. stocked' = [stocked EXCEPT ![c] = read] /\ DOMAIN stocked = Consumers
    BY <1>5 DEF BranchTypeOK, ReadLots
  <2>3. S \in SUBSET Lots
    OBVIOUS
  <2>4. \A e \in Consumers : \E T \in SUBSET Lots : stocked[e] \in [T -> Nat \ {0}]
    BY DEF BranchTypeOK
  <2>5. /\ DOMAIN stocked' = Consumers
        /\ \A e \in Consumers : \E T \in SUBSET Lots : stocked'[e] \in [T -> Nat \ {0}]
    <3>. HIDE DEF S, read
    <3>1. DOMAIN stocked' = Consumers /\ \A e \in Consumers : stocked'[e] = IF e = c THEN read ELSE stocked[e]
      BY <2>2
    <3>. QED
      BY <2>1, <2>3, <2>4, <3>1, Zenon
  <2>6. phase' \in [Consumers -> {"idle", "lock", "read", "allocate", "write"}]
    BY <1>5 DEF BranchTypeOK, ReadLots
  <2>. QED
    BY <1>5, <2>5, <2>6 DEF BranchTypeOK, ReadLots
<1>6. ASSUME NEW c \in Consumers, Allocate(c) PROVE BranchTypeOK'
  <2>. DEFINE p == AllocateAtBranch(stocked[c], need[c], day[c], LastReceived)
  <2>1. p \in [take : [Keys -> Nat], shortfall : BOOLEAN]
    <3>1. LastReceived \in Lots \cup {NoLot}
      BY LastReceivedType
    <3>. QED
      BY <3>1, ConsumerPlans
  <2>2. plan' = [plan EXCEPT ![c] = p] /\ plan \in [Consumers -> [take : [Keys -> Nat], shortfall : BOOLEAN]]
    BY <1>6 DEF BranchTypeOK, Allocate
  <2>3. plan' \in [Consumers -> [take : [Keys -> Nat], shortfall : BOOLEAN]]
    <3>. HIDE DEF p
    <3>. QED
      BY <2>1, <2>2
  <2>4. phase' \in [Consumers -> {"idle", "lock", "read", "allocate", "write"}]
    BY <1>6 DEF BranchTypeOK, Allocate
  <2>. QED
    BY <1>6, <2>3, <2>4 DEF BranchTypeOK, Allocate
<1>7. ASSUME NEW c \in Consumers, Write(c) PROVE BranchTypeOK'
  <2>1. End(c)
    BY <1>7 DEF Write
  <2>2. \A k \in Keys : plan[c].take[k] \in Nat /\ balance[k] \in Int
    BY DEF BranchTypeOK
  <2>3. balance' = [k \in Keys |-> balance[k] - plan[c].take[k]] /\ rows' = rows \cup Taken(c)
    BY <1>7 DEF Write
  <2>4. balance' \in [Keys -> Int] /\ rows' \subseteq Keys
    BY <2>2, <2>3 DEF BranchTypeOK, Taken
  <2>. QED
    BY <2>1, <2>4, EndType DEF BranchTypeOK
<1>8. ASSUME NEW c \in Consumers, RollBack(c) PROVE BranchTypeOK'
  <2>1. End(c) /\ rows' = rows /\ balance' = balance
    BY <1>8 DEF RollBack
  <2>. QED
    BY <2>1, EndType DEF BranchTypeOK
<1>9. CASE UNCHANGED branchVars
  BY <1>9 DEF BranchTypeOK, branchVars
<1>. QED
  BY <1>1, <1>2, <1>3, <1>4, <1>5, <1>6, <1>7, <1>8, <1>9 DEF BranchNext, Consume

\* What a consumer ends with leaves the others' alone.
LEMMA EndOthers ==
  ASSUME BranchTypeOK, NEW c \in Consumers, End(c)
  PROVE  /\ phase'[c] = "idle" /\ locked'[c] = {}
         /\ \A e \in Consumers \ {c} :
              /\ phase'[e] = phase[e] /\ need'[e] = need[e] /\ day'[e] = day[e]
              /\ locked'[e] = locked[e] /\ stocked'[e] = stocked[e] /\ plan'[e] = plan[e]
         /\ \A k \in Keys : rowLock'[k] = IF rowLock[k] = c THEN NoTxn ELSE rowLock[k]
<1>1. /\ phase' = [phase EXCEPT ![c] = "idle"] /\ DOMAIN phase = Consumers
      /\ need' = [need EXCEPT ![c] = 0] /\ DOMAIN need = Consumers
      /\ day' = [day EXCEPT ![c] = 1] /\ DOMAIN day = Consumers
      /\ locked' = [locked EXCEPT ![c] = {}] /\ DOMAIN locked = Consumers
      /\ stocked' = [stocked EXCEPT ![c] = <<>>] /\ DOMAIN stocked = Consumers
      /\ plan' = [plan EXCEPT ![c] = NoPlan] /\ DOMAIN plan = Consumers
      /\ rowLock' = [k \in Keys |-> IF rowLock[k] = c THEN NoTxn ELSE rowLock[k]]
  BY DEF BranchTypeOK, End
<1>2. /\ phase'[c] = "idle" /\ locked'[c] = {}
      /\ \A k \in Keys : rowLock'[k] = IF rowLock[k] = c THEN NoTxn ELSE rowLock[k]
  BY <1>1
<1>3. ASSUME NEW e \in Consumers \ {c}
      PROVE  /\ phase'[e] = phase[e] /\ need'[e] = need[e] /\ day'[e] = day[e]
             /\ locked'[e] = locked[e] /\ stocked'[e] = stocked[e] /\ plan'[e] = plan[e]
  <2>1. phase'[e] = phase[e] /\ need'[e] = need[e] /\ day'[e] = day[e]
    BY <1>1
  <2>2. locked'[e] = locked[e] /\ stocked'[e] = stocked[e] /\ plan'[e] = plan[e]
    BY <1>1
  <2>. QED
    BY <2>1, <2>2
<1>. QED
  BY <1>2, <1>3

\* The rows a consumer locked stay its own.
LEMMA LockedStep ==
  ASSUME BranchInv, [BranchNext]_branchVars PROVE LockedInv'
<1>. USE DEF BranchInv
<1>1. ASSUME UNCHANGED <<rowLock, locked>> PROVE LockedInv'
  BY <1>1 DEF LockedInv
<1>2. ASSUME NEW c \in Consumers, LockBalances(c) PROVE LockedInv'
  <2>1. /\ locked' = [locked EXCEPT ![c] = rows] /\ DOMAIN locked = Consumers
        /\ rowLock' = [k \in Keys |-> IF k \in rows THEN c ELSE rowLock[k]]
        /\ \A k \in rows : rowLock[k] = NoTxn
    BY <1>2 DEF LockBalances, RowsThere, BranchTypeOK
  <2>2. ASSUME NEW e \in Consumers, NEW k \in locked'[e] PROVE rowLock'[k] = e
    <3>1. CASE e = c
      <4>1. k \in rows /\ k \in Keys
        BY <2>1, <2>2, <3>1 DEF BranchTypeOK
      <4>. QED
        BY <2>1, <3>1, <4>1
    <3>2. CASE e # c
      <4>1. locked'[e] = locked[e]
        BY <2>1, <3>2
      <4>2. k \in locked[e] /\ k \in Keys
        BY <2>2, <4>1 DEF BranchTypeOK
      <4>3. rowLock[k] = e /\ e # NoTxn
        BY <4>2, BranchAssumption DEF LockedInv
      <4>4. k \notin rows
        BY <2>1, <4>3
      <4>. QED
        BY <2>1, <4>2, <4>3, <4>4
    <3>. QED
      BY <3>1, <3>2
  <2>. QED
    BY <2>2 DEF LockedInv
<1>3. ASSUME NEW c \in Consumers, End(c) PROVE LockedInv'
  <2>1. ASSUME NEW e \in Consumers, NEW k \in locked'[e] PROVE rowLock'[k] = e
    <3>1. e # c /\ locked'[e] = locked[e]
      BY <1>3, <2>1, EndOthers
    <3>2. k \in locked[e] /\ k \in Keys
      BY <2>1, <3>1 DEF BranchTypeOK
    <3>3. rowLock[k] = e
      BY <3>2 DEF LockedInv
    <3>. QED
      BY <1>3, <3>1, <3>2, <3>3, EndOthers
  <2>. QED
    BY <2>1 DEF LockedInv
<1>4. CASE UNCHANGED branchVars
  BY <1>1, <1>4 DEF branchVars
<1>. QED
  BY <1>1, <1>2, <1>3, <1>4
  DEF BranchNext, Consume, Adjust, Receive, Begin, ReadLots, Allocate, Write, RollBack

\* What was read of a locked row's lot stands: nobody else may change it.
LEMMA ReadStep ==
  ASSUME BranchInv, [BranchNext]_branchVars PROVE ReadInv'
<1>. USE DEF BranchInv
<1>0. \A e \in Consumers : locked[e] \subseteq Keys /\ e # NoTxn
  BY BranchAssumption DEF BranchTypeOK
<1>1. ASSUME NEW m \in Lots, rowLock[m] = NoTxn, \A l \in Lots \ {m} : balance'[l] = balance[l],
             UNCHANGED <<phase, locked, stocked>>
      PROVE  ReadInv'
  <2>1. \A e \in Consumers : \A l \in locked[e] \cap Lots : l # m
    BY <1>0, <1>1 DEF LockedInv
  <2>. QED
    BY <1>1, <2>1 DEF ReadInv
<1>2. ASSUME NEW l \in Lots, Adjust(l) PROVE ReadInv'
  <2>1. \A m \in Lots \ {l} : balance'[m] = balance[m]
    BY <1>2 DEF Adjust, BranchTypeOK, Keys
  <2>. QED
    BY <1>1, <1>2, <2>1 DEF Adjust
<1>3. ASSUME NEW l \in Lots, NEW d \in Days, Receive(l, d) PROVE ReadInv'
  <2>1. \A m \in Lots \ {l} : balance'[m] = balance[m]
    BY <1>3 DEF Receive, BranchTypeOK, Keys
  <2>. QED
    BY <1>1, <1>3, <2>1 DEF Receive
<1>4. ASSUME NEW c \in Consumers, NEW q \in Needs, NEW d \in Days, Begin(c, q, d) PROVE ReadInv'
  <2>1. phase' = [phase EXCEPT ![c] = "lock"] /\ DOMAIN phase = Consumers
        /\ UNCHANGED <<balance, locked, stocked>>
    BY <1>4 DEF Begin, BranchTypeOK
  <2>2. \A e \in Consumers : phase'[e] \in {"allocate", "write"} => phase[e] \in {"allocate", "write"}
    BY <2>1
  <2>. QED
    BY <2>1, <2>2 DEF ReadInv
<1>5. ASSUME NEW c \in Consumers, LockBalances(c) PROVE ReadInv'
  <2>1. /\ phase' = [phase EXCEPT ![c] = "read"] /\ DOMAIN phase = Consumers
        /\ locked' = [locked EXCEPT ![c] = rows] /\ DOMAIN locked = Consumers
        /\ UNCHANGED <<balance, stocked>>
    BY <1>5 DEF LockBalances, BranchTypeOK
  <2>2. \A e \in Consumers : phase'[e] \in {"allocate", "write"} =>
          phase[e] \in {"allocate", "write"} /\ locked'[e] = locked[e]
    BY <2>1
  <2>. QED
    BY <2>1, <2>2 DEF ReadInv
<1>6. ASSUME NEW c \in Consumers, ReadLots(c) PROVE ReadInv'
  <2>. DEFINE S == {m \in Lots : m \in rows /\ balance[m] > 0}
              read == [l \in S |-> balance[l]]
  <2>1. /\ phase' = [phase EXCEPT ![c] = "allocate"] /\ DOMAIN phase = Consumers
        /\ stocked' = [stocked EXCEPT ![c] = read] /\ DOMAIN stocked = Consumers
        /\ UNCHANGED <<balance, locked>>
    BY <1>6 DEF ReadLots, BranchTypeOK
  <2>2. \A l \in DOMAIN read : read[l] = balance[l]
    OBVIOUS
  <2>. HIDE DEF S, read
  <2>3. stocked'[c] = read /\ \A e \in Consumers \ {c} : phase'[e] = phase[e] /\ stocked'[e] = stocked[e]
    BY <2>1
  <2>. QED
    BY <2>1, <2>2, <2>3 DEF ReadInv
<1>7. ASSUME NEW c \in Consumers, Allocate(c) PROVE ReadInv'
  <2>1. /\ phase[c] = "allocate" /\ phase' = [phase EXCEPT ![c] = "write"] /\ DOMAIN phase = Consumers
        /\ UNCHANGED <<balance, locked, stocked>>
    BY <1>7 DEF Allocate, BranchTypeOK
  <2>2. \A e \in Consumers : phase'[e] \in {"allocate", "write"} => phase[e] \in {"allocate", "write"}
    BY <2>1
  <2>. QED
    BY <2>1, <2>2 DEF ReadInv
<1>8. ASSUME NEW c \in Consumers, End(c), \A k \in Keys : rowLock[k] \notin {c, NoTxn} => balance'[k] = balance[k]
      PROVE  ReadInv'
  <2>. SUFFICES ASSUME NEW e \in Consumers, phase'[e] \in {"allocate", "write"},
                       NEW l \in locked'[e] \cap Lots, l \in DOMAIN stocked'[e]
                PROVE  stocked'[e][l] = balance'[l]
    BY DEF ReadInv
  <2>1. e # c /\ phase'[e] = phase[e] /\ locked'[e] = locked[e] /\ stocked'[e] = stocked[e]
    BY <1>8, EndOthers
  <2>2. stocked[e][l] = balance[l] /\ rowLock[l] = e /\ e # NoTxn /\ l \in Keys
    BY <1>0, <2>1 DEF ReadInv, LockedInv
  <2>3. balance'[l] = balance[l]
    BY <1>8, <2>1, <2>2
  <2>. QED
    BY <2>1, <2>2, <2>3
<1>9. ASSUME NEW c \in Consumers, Write(c) PROVE ReadInv'
  <2>1. /\ End(c)
        /\ \A k \in Taken(c) : rowLock[k] \in {c, NoTxn}
        /\ balance' = [k \in Keys |-> balance[k] - plan[c].take[k]]
    BY <1>9 DEF Write
  <2>2. \A k \in Keys : plan[c].take[k] \in Nat /\ balance[k] \in Int
    BY DEF BranchTypeOK
  <2>3. ASSUME NEW k \in Keys, rowLock[k] \notin {c, NoTxn} PROVE balance'[k] = balance[k]
    <3>1. plan[c].take[k] = 0
      BY <2>1, <2>2, <2>3 DEF Taken
    <3>. QED
      BY <2>1, <2>2, <3>1
  <2>. QED
    BY <1>8, <2>1, <2>3
<1>10. ASSUME NEW c \in Consumers, RollBack(c) PROVE ReadInv'
  BY <1>8, <1>10 DEF RollBack
<1>11. CASE UNCHANGED branchVars
  BY <1>11 DEF ReadInv, branchVars
<1>. QED
  BY <1>2, <1>3, <1>4, <1>5, <1>6, <1>7, <1>9, <1>10, <1>11 DEF BranchNext, Consume

\* A plan is what allocateAtBranch made of what its consumer still holds.
LEMMA PlannedStep ==
  ASSUME BranchInv, [BranchNext]_branchVars PROVE PlannedInv'
<1>. USE DEF BranchInv
<1>. DEFINE Same(e) == /\ phase'[e] = "write" => phase[e] = "write"
                       /\ need'[e] = need[e] /\ day'[e] = day[e]
                       /\ stocked'[e] = stocked[e] /\ plan'[e] = plan[e]
            Made(e) == \E last \in Lots \cup {NoLot} :
                         plan'[e] = AllocateAtBranch(stocked'[e], need'[e], day'[e], last)
<1>1. ASSUME NEW e \in Consumers, phase'[e] = "write" => Same(e), phase'[e] = "write" PROVE Made(e)
  <2>1. PICK last \in Lots \cup {NoLot} : plan[e] = AllocateAtBranch(stocked[e], need[e], day[e], last)
    BY <1>1 DEF PlannedInv
  <2>2. plan'[e] = AllocateAtBranch(stocked'[e], need'[e], day'[e], last)
    BY <1>1, <2>1
  <2>. QED
    BY <2>2
<1>2. ASSUME \A e \in Consumers : phase'[e] = "write" => Same(e) PROVE PlannedInv'
  BY <1>1, <1>2 DEF PlannedInv
<1>3. ASSUME NEW l \in Lots, Adjust(l) \/ \E d \in Days : Receive(l, d) PROVE PlannedInv'
  <2>1. \A e \in Consumers : Same(e)
    BY <1>3 DEF Adjust, Receive
  <2>. QED
    BY <1>2, <2>1
<1>4. ASSUME NEW c \in Consumers, NEW q \in Needs, NEW d \in Days, Begin(c, q, d) PROVE PlannedInv'
  <2>1. /\ phase' = [phase EXCEPT ![c] = "lock"] /\ DOMAIN phase = Consumers
        /\ need' = [need EXCEPT ![c] = q] /\ DOMAIN need = Consumers
        /\ day' = [day EXCEPT ![c] = d] /\ DOMAIN day = Consumers
        /\ UNCHANGED <<stocked, plan>>
    BY <1>4 DEF Begin, BranchTypeOK
  <2>2. \A e \in Consumers : phase'[e] = "write" => Same(e)
    BY <2>1
  <2>. QED
    BY <1>2, <2>2
<1>5. ASSUME NEW c \in Consumers, LockBalances(c) PROVE PlannedInv'
  <2>1. /\ phase' = [phase EXCEPT ![c] = "read"] /\ DOMAIN phase = Consumers
        /\ UNCHANGED <<need, day, stocked, plan>>
    BY <1>5 DEF LockBalances, BranchTypeOK
  <2>2. \A e \in Consumers : phase'[e] = "write" => Same(e)
    BY <2>1
  <2>. QED
    BY <1>2, <2>2
<1>6. ASSUME NEW c \in Consumers, ReadLots(c) PROVE PlannedInv'
  <2>1. /\ phase' = [phase EXCEPT ![c] = "allocate"] /\ DOMAIN phase = Consumers
        /\ \A e \in Consumers \ {c} : stocked'[e] = stocked[e]
        /\ UNCHANGED <<need, day, plan>>
    BY <1>6 DEF ReadLots, BranchTypeOK
  <2>2. \A e \in Consumers : phase'[e] = "write" => Same(e)
    BY <2>1
  <2>. QED
    BY <1>2, <2>2
<1>7. ASSUME NEW c \in Consumers, Allocate(c) PROVE PlannedInv'
  <2>. DEFINE p == AllocateAtBranch(stocked[c], need[c], day[c], LastReceived)
  <2>1. /\ phase' = [phase EXCEPT ![c] = "write"] /\ DOMAIN phase = Consumers
        /\ plan' = [plan EXCEPT ![c] = p] /\ DOMAIN plan = Consumers
        /\ UNCHANGED <<need, day, stocked>>
    BY <1>7 DEF Allocate, BranchTypeOK
  <2>2. plan'[c] = p /\ \A e \in Consumers \ {c} : phase'[e] = phase[e] /\ plan'[e] = plan[e]
    <3>. HIDE DEF p
    <3>. QED
      BY <2>1
  <2>3. Made(c)
    <3>1. LastReceived \in Lots \cup {NoLot}
      BY LastReceivedType
    <3>2. plan'[c] = AllocateAtBranch(stocked'[c], need'[c], day'[c], LastReceived)
      BY <2>1, <2>2
    <3>. QED
      BY <3>1, <3>2
  <2>4. \A e \in Consumers \ {c} : Same(e)
    BY <2>1, <2>2
  <2>. HIDE DEF Same
  <2>5. \A e \in Consumers : phase'[e] = "write" => Made(e)
    BY <1>1, <2>3, <2>4
  <2>. QED
    BY <2>5 DEF PlannedInv
<1>8. ASSUME NEW c \in Consumers, Write(c) \/ RollBack(c) PROVE PlannedInv'
  <2>1. End(c)
    BY <1>8 DEF Write, RollBack
  <2>2. \A e \in Consumers : phase'[e] = "write" => Same(e)
    BY <2>1, EndOthers
  <2>. QED
    BY <1>2, <2>2
<1>9. CASE UNCHANGED branchVars
  <2>1. \A e \in Consumers : Same(e)
    BY <1>9 DEF branchVars
  <2>. QED
    BY <1>2, <2>1
<1>. QED
  BY <1>3, <1>4, <1>5, <1>6, <1>7, <1>8, <1>9 DEF BranchNext, Consume

\* The invariant holds at first, and every step keeps it.
LEMMA BranchInvInit ==
  ASSUME BranchInit PROVE BranchInv
<1>1. arrivals \in Seq([lot : Lots, day : Days])
  <2>. DEFINE S == {[lot |-> l, day |-> 1] : l \in Held}
  <2>1. IsFiniteSet(Held) /\ Held \subseteq Lots /\ 1 \in Days
    BY FS_Subset, BranchAssumption DEF Days
  <2>2. IsFiniteSet(S)
    <3>. DEFINE f == [l \in Held |-> [lot |-> l, day |-> 1]]
    <3>1. f \in [Held -> S] /\ \A e \in S : \E l \in Held : f[l] = e
      OBVIOUS
    <3>. HIDE DEF f, S
    <3>2. f \in Surjection(Held, S)
      BY <3>1 DEF Surjection
    <3>. QED
      BY <2>1, <3>2, FS_Surjection DEF ExistsSurjection
  <2>3. S \subseteq [lot : Lots, day : Days]
    BY <2>1
  <2>4. arrivals = SetToSeq(S)
    BY DEF BranchInit
  <2>. HIDE DEF S
  <2>5. arrivals \in Seq(S)
    BY <2>2, <2>4, ListType
  <2>. QED
    BY <2>3, <2>5, SeqMonotonic
<1>2. /\ rows \subseteq Keys /\ balance \in [Keys -> Int]
      /\ rowLock \in [Keys -> Consumers \cup {NoTxn}] /\ sales \in 0 .. MaxSales
  BY BranchAssumption DEF BranchInit, Keys
<1>3. /\ phase \in [Consumers -> {"idle", "lock", "read", "allocate", "write"}]
      /\ need \in [Consumers -> Needs \cup {0}]
      /\ day \in [Consumers -> Days]
      /\ locked \in [Consumers -> SUBSET Keys]
  BY BranchAssumption DEF BranchInit, Days
<1>4. /\ DOMAIN stocked = Consumers
      /\ \A e \in Consumers : \E S \in SUBSET Lots : stocked[e] \in [S -> Nat \ {0}]
  <2>1. stocked = [c \in Consumers |-> <<>>] /\ {} \in SUBSET Lots
    BY DEF BranchInit
  <2>2. DOMAIN stocked = Consumers /\ \A e \in Consumers : stocked[e] = <<>>
    BY <2>1
  <2>. QED
    BY <2>1, <2>2, NothingRead, Zenon
<1>5. plan \in [Consumers -> [take : [Keys -> Nat], shortfall : BOOLEAN]]
  BY DEF BranchInit, NoPlan
<1>6. BranchTypeOK
  BY <1>1, <1>2, <1>3, <1>4, <1>5 DEF BranchTypeOK
<1>7. LockedInv /\ ReadInv /\ PlannedInv
  BY DEF BranchInit, LockedInv, ReadInv, PlannedInv
<1>. QED
  BY <1>6, <1>7 DEF BranchInv

LEMMA BranchInvStep ==
  ASSUME BranchInv, [BranchNext]_branchVars PROVE BranchInv'
BY TypeStep, LockedStep, ReadStep, PlannedStep DEF BranchInv

\* Every variable has its type, a consumer's locked rows are its own, what it
\* read of their lots stands until it posts, and its plan was made of that.
THEOREM BranchInvariant == BranchSpec => []BranchInv
BY BranchInvInit, BranchInvStep, PTL DEF BranchSpec

\* The invariant makes every plan one by FEFO.
LEMMA PlansFollow ==
  ASSUME BranchInv PROVE PlanIsFefo
<1>. SUFFICES ASSUME NEW c \in Consumers, phase[c] = "write"
              PROVE  IsFefo(plan[c], stocked[c], need[c], day[c])
  BY DEF PlanIsFefo, IsFefo, Taken
<1>1. PICK last \in Lots \cup {NoLot} : plan[c] = AllocateAtBranch(stocked[c], need[c], day[c], last)
  BY DEF BranchInv, PlannedInv
<1>. QED
  BY <1>1, ConsumerPlans DEF BranchInv

\* Every plan of every sale is by FEFO: the whole need is taken, expired lots
\* give nothing but the rest, a lot is opened only when those before it are used
\* up, and the rest goes to one place and is said to be a shortfall
\* (fefoPick, allocateAtBranch).
THEOREM SalesTakeByFefo == BranchSpec => []PlanIsFefo
<1>1. BranchSpec => []BranchInv
  BY BranchInvariant
<1>2. BranchInv => PlanIsFefo
  BY PlansFollow
<1>. QED
  BY <1>1, <1>2, PTL

\* A lot that a posting sends below zero, and whose row it had locked, was
\* read as it stood: no more was taken than there was, unless the plan says so.
LEMMA PostTold ==
  ASSUME BranchInv, [BranchNext]_branchVars, NEW c \in Consumers, PostsPlan(c),
         NEW l \in locked[c] \cap Lots, balance'[l] < 0, balance'[l] < balance[l]
  PROVE  plan[c].shortfall
<1>1. Write(c)
  <2>1. phase[c] = "write" /\ phase'[c] = "idle" /\ balance' # balance
    BY DEF PostsPlan
  <2>2. DOMAIN phase = Consumers
    BY DEF BranchInv, BranchTypeOK
  <2>3. ASSUME NEW e \in Consumers, NEW q \in Needs, NEW d \in Days, Begin(e, q, d) PROVE FALSE
    BY <2>1, <2>3 DEF Begin
  <2>4. ASSUME NEW e \in Consumers, Consume(e) PROVE e = c /\ Write(c)
    <3>1. Write(e)
      BY <2>1, <2>4 DEF Consume, LockBalances, ReadLots, Allocate, RollBack
    <3>2. phase' = [phase EXCEPT ![e] = "idle"]
      BY <3>1 DEF Write, End
    <3>. QED
      BY <2>1, <2>2, <3>1, <3>2
  <2>5. ASSUME NEW m \in Lots, Adjust(m) \/ \E d \in Days : Receive(m, d) PROVE FALSE
    BY <2>1, <2>5 DEF Adjust, Receive
  <2>6. ~ UNCHANGED branchVars
    BY <2>1 DEF branchVars
  <2>. QED
    BY <2>3, <2>4, <2>5, <2>6 DEF BranchNext
<1>. SUFFICES ASSUME ~ plan[c].shortfall PROVE FALSE
  OBVIOUS
<1>2. PICK last \in Lots \cup {NoLot} : plan[c] = AllocateAtBranch(stocked[c], need[c], day[c], last)
  BY <1>1 DEF BranchInv, PlannedInv, Write
<1>3. l \in Keys
  BY DEF Keys
<1>4. plan[c].take[l] <= IF l \in DOMAIN stocked[c] THEN stocked[c][l] ELSE 0
  BY <1>2, <1>3, ConsumerPlans DEF BranchInv
<1>5. plan[c].take[l] \in Nat /\ balance[l] \in Int
  BY <1>3 DEF BranchInv, BranchTypeOK
<1>6. balance'[l] = balance[l] - plan[c].take[l]
  BY <1>1, <1>3 DEF Write
<1>7. l \in DOMAIN stocked[c] => stocked[c][l] = balance[l]
  BY <1>1 DEF BranchInv, ReadInv, Write
<1>. QED
  BY <1>4, <1>5, <1>6, <1>7

\* A sale sends a lot the branch had before below zero only as the shortfall its
\* document says, however many sales, arrivals and adjustments are about
\* (plan: the rows are locked before they are read).
THEOREM ShortfallsAreTold == BranchSpec => KnownLotsAreTold
<1>1. ASSUME BranchInv, [BranchNext]_branchVars
      PROVE  [\A c \in Consumers : PostsPlan(c) =>
                \A l \in locked[c] \cap Lots :
                  balance'[l] < 0 /\ balance'[l] < balance[l] => plan[c].shortfall]_branchVars
  BY <1>1, PostTold
<1>. QED
  BY <1>1, BranchInvariant, PTL DEF BranchSpec, KnownLotsAreTold
=============================================================================
