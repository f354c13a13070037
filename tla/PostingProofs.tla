---------------------------- MODULE PostingProofs ----------------------------
(***************************************************************************)
(* Proofs about module Posting, for any number of documents, transactions, *)
(* lots and locations.                                                     *)
(***************************************************************************)
EXTENDS Posting, SumTheorems

\* Every request under way is about a document there is; and as long as the
\* document is at the revision the person had on the screen, its lines are
\* the ones they saw.
Asks(t) ==
  /\ Doc(t) \in Docs
  /\ status[Doc(t)] # "none"
  /\ Posts(t) =>
       /\ Doc(t) \in Documents
       /\ req[t].from \in PostsFrom
       /\ req[t].revision <= revision[Doc(t)]
       /\ revision[Doc(t)] = req[t].revision => lines[Doc(t)] = req[t].saw

AsksForDocument == \A t \in Txns : pc[t] # "idle" => Asks(t)

Working(t) == pc[t] \in {"planned", "locking", "writing"}

\* From its check of the document to its end, a transaction holds the
\* document's row, and the document is still as it was when it decided.
DecisionHolds(t) ==
  /\ docLock[Doc(t)] = t
  /\ Posts(t) =>
       /\ status[Doc(t)] = req[t].from
       /\ lines[Doc(t)] = req[t].saw
       /\ change[t] = lines[Doc(t)]
       /\ revision[Doc(t)] = req[t].revision
       /\ date[Doc(t)] <= today
  /\ ~Posts(t) =>
       /\ Doc(t) \in Documents
       /\ status[Doc(t)] = "posted"
       /\ ReversedBy(Doc(t)) = {}
       /\ change[t] = ReversalMovements(entries[Doc(t)])
       /\ date[Doc(t)] <= req[t].day /\ req[t].day <= today

DecisionsHold == \A t \in Txns : Working(t) => DecisionHolds(t)

\* A document that has not posted has a revision to spare for posting.
RevisionToSpare ==
  \A d \in Docs : status[d] # "posted" => revision[d] <= MaxRevision

\* Only a reversal that is written reverses something.
OnlyReversalsReverse ==
  \A d \in Docs : reverses[d] # NoDoc => d \in Reversals /\ status[d] = "posted"

DocInv == AsksForDocument /\ DecisionsHold /\ RevisionToSpare /\ OnlyReversalsReverse

TypeInv == TypeOK /\ DocInv

\* What ending a transaction leaves of the locks and of what it was doing.
LEMMA EndTypes ==
  ASSUME TypeOK, NEW t \in Txns, End(t)
  PROVE  /\ docLock' \in [Docs -> Txns \cup {NoTxn}]
         /\ keyLock' \in [Keys -> Txns \cup {NoTxn}]
         /\ pc' \in [Txns -> {"idle", "request", "planned", "locking", "writing"}]
         /\ req' \in [Txns -> Requests]
         /\ change' \in [Txns -> [Keys -> Int]]
         /\ seen' \in [Txns -> [Keys -> Int]]
         /\ todo' \in [Txns -> SUBSET Keys]
<1>1. NoRequest \in Requests
  BY SetsAssumption DEF NoRequest, Requests, Nothing, Statuses
<1>. QED
  BY <1>1 DEF TypeOK, End, Nothing

LEMMA TypeInit == Init => TypeInv
<1>. SUFFICES ASSUME Init PROVE TypeInv
  OBVIOUS
<1>1. NoRequest \in Requests
  BY SetsAssumption DEF NoRequest, Requests, Nothing, Statuses
<1>2. Nothing \in [Keys -> Int]
  BY DEF Nothing
<1>. QED
  BY <1>1, <1>2, SetsAssumption, OpeningAssumption
  DEF Init, TypeInv, TypeOK, DocInv, AsksForDocument, DecisionsHold, Working,
      RevisionToSpare, OnlyReversalsReverse, Statuses, Unposted

LEMMA TypeStep == TypeInv /\ [Next]_vars => TypeOK'
<1>. SUFFICES ASSUME TypeInv, [Next]_vars PROVE TypeOK'
  OBVIOUS
<1>. USE DEF TypeInv, TypeOK
<1>1. CASE UNCHANGED vars
  BY <1>1 DEF vars, tables, locks, locals
<1>2. CASE NextDay
  BY <1>2, SetsAssumption DEF NextDay, locks, locals
<1>3. ASSUME NEW d \in Documents, CreateDraft(d) PROVE TypeOK'
  <2>1. d \in Docs
    BY DEF Docs
  <2>2. PICK c \in Changes, day \in 1 .. today :
          lines' = [lines EXCEPT ![d] = c] /\ date' = [date EXCEPT ![d] = day]
    BY <1>3 DEF CreateDraft
  <2>3. c \in [Keys -> Int] /\ day \in Nat
    BY ChangesAssumption
  <2>. QED
    BY <1>3, <2>1, <2>2, <2>3, SetsAssumption
    DEF CreateDraft, locks, locals, Statuses, Unposted
<1>4. ASSUME NEW d \in Documents, UpdateDraft(d) PROVE TypeOK'
  <2>1. d \in Docs
    BY DEF Docs
  <2>2. PICK c \in Changes, day \in 1 .. today :
          lines' = [lines EXCEPT ![d] = c] /\ date' = [date EXCEPT ![d] = day]
    BY <1>4 DEF UpdateDraft
  <2>3. c \in [Keys -> Int] /\ day \in Nat
    BY ChangesAssumption
  <2>. QED
    BY <1>4, <2>1, <2>2, <2>3, SetsAssumption
    DEF UpdateDraft, locks, locals, NextRevision
<1>5. ASSUME NEW d \in Documents, NEW next \in Unposted, MoveTo(d, next) PROVE TypeOK'
  <2>1. d \in Docs
    BY DEF Docs
  <2>. QED
    BY <1>5, <2>1, SetsAssumption DEF MoveTo, locks, locals, NextRevision, Statuses
<1>6. ASSUME NEW t \in Txns, NEW d \in Documents, NEW from \in PostsFrom, BeginPost(t, d, from)
      PROVE TypeOK'
  <2>1. PostRequest(d, from) \in Requests
    BY SetsAssumption DEF PostRequest, NoRequest, Requests, Docs, Nothing, Statuses
  <2>. QED
    BY <1>6, <2>1 DEF BeginPost, tables, locks
<1>7. ASSUME NEW t \in Txns, NEW o \in Docs, NEW day \in Days, BeginReverse(t, o, day)
      PROVE TypeOK'
  <2>1. ReverseRequest(o, day) \in Requests
    BY SetsAssumption DEF ReverseRequest, NoRequest, Requests, Nothing, Statuses, Days
  <2>. QED
    BY <1>7, <2>1 DEF BeginReverse, tables, locks
<1>8. ASSUME NEW t \in Txns, Progress(t) PROVE TypeOK'
  <2>1. CASE LockDocument(t)
    <3>. Doc(t) \in Docs
      BY <2>1 DEF LockDocument, DocInv, AsksForDocument, Asks
    <3>1. (IF Posts(t) THEN lines[Doc(t)] ELSE ReversalMovements(entries[Doc(t)]))
            \in [Keys -> Int]
      BY DEF ReversalMovements
    <3>. QED
      BY <2>1, <3>1 DEF LockDocument, tables
  <2>2. CASE FindRows(t)
    BY <2>2 DEF FindRows, tables, locks, Touched
  <2>3. ASSUME NEW k \in Keys, LockRow(t, k) PROVE TypeOK'
    BY <2>3 DEF LockRow, tables
  <2>4. ASSUME NEW k \in Keys, UpsertRow(t, k) PROVE TypeOK'
    BY <2>4 DEF UpsertRow, tables
  <2>5. CASE Check(t)
    BY <2>5 DEF Check, tables, locks, Touched
  <2>6. CASE CommitPost(t)
    <3>1. balance' \in [Keys -> Int] /\ rows' \in SUBSET Keys
      BY <2>6 DEF CommitPost, Written, NewBalance, Touched
    <3>2. entries' \in [Docs -> [Keys -> Int]]
      BY <2>6 DEF CommitPost
    <3>3. status' \in [Docs -> Statuses]
      BY <2>6 DEF CommitPost, Statuses
    <3>4. revision' \in [Docs -> 0 .. MaxRevision + 1]
      <4>1. Doc(t) \in Docs /\ status[Doc(t)] \in PostsFrom
        BY <2>6 DEF CommitPost, DocInv, AsksForDocument, Asks, DecisionsHold, DecisionHolds, Working
      <4>2. revision[Doc(t)] <= MaxRevision
        BY <4>1, SetsAssumption DEF DocInv, RevisionToSpare, Unposted
      <4>. QED
        BY <2>6, <4>1, <4>2, SetsAssumption DEF CommitPost, NextRevision
    <3>5. End(t)
      BY <2>6 DEF CommitPost
    <3>. QED
      BY <2>6, <3>1, <3>2, <3>3, <3>4, <3>5, EndTypes DEF CommitPost
  <2>7. ASSUME NEW r \in Reversals, CommitReverse(t, r) PROVE TypeOK'
    <3>1. balance' \in [Keys -> Int] /\ rows' \in SUBSET Keys
      BY <2>7 DEF CommitReverse, Written, NewBalance, Touched
    <3>2. entries' \in [Docs -> [Keys -> Int]] /\ lines' \in [Docs -> [Keys -> Int]]
      BY <2>7 DEF CommitReverse
    <3>3. status' \in [Docs -> Statuses]
      BY <2>7 DEF CommitReverse, Statuses
    <3>4. revision' \in [Docs -> 0 .. MaxRevision + 1]
      <4>1. 1 \in 0 .. MaxRevision + 1
        BY SetsAssumption
      <4>. QED
        BY <2>7, <4>1 DEF CommitReverse
    <3>5. End(t)
      BY <2>7 DEF CommitReverse
    <3>6. req[t].day \in Nat /\ Doc(t) \in Docs \cup {NoDoc}
      BY DEF Requests, Doc
    <3>7. date' \in [Docs -> Nat] /\ reverses' \in [Docs -> Docs \cup {NoDoc}]
      BY <2>7, <3>6 DEF CommitReverse
    <3>. QED
      BY <2>7, <3>1, <3>2, <3>3, <3>4, <3>5, <3>7, EndTypes DEF CommitReverse
  <2>8. CASE Refuse(t)
    BY <2>8, EndTypes DEF Refuse, tables
  <2>. QED
    BY <1>8, <2>1, <2>2, <2>3, <2>4, <2>5, <2>6, <2>7, <2>8 DEF Progress
<1>9. ASSUME NEW t \in Txns, RollBack(t) \/ BreakDeadlock(t) PROVE TypeOK'
  BY <1>9, EndTypes DEF RollBack, BreakDeadlock, tables
<1>. QED
  BY <1>1, <1>2, <1>3, <1>4, <1>5, <1>6, <1>7, <1>8, <1>9 DEF Next, Begin

\* The lines of a document never change without the document taking a new
\* revision, and a document never disappears.
LinesTakeARevision ==
  \A d \in Docs : status[d] # "none" =>
    /\ status'[d] # "none"
    /\ revision[d] <= revision'[d]
    /\ lines'[d] = lines[d] \/ revision[d] < revision'[d]

LEMMA RevisionStep == TypeInv /\ [Next]_vars => LinesTakeARevision
<1>. SUFFICES ASSUME TypeInv, [Next]_vars PROVE LinesTakeARevision
  OBVIOUS
<1>. USE DEF TypeInv, TypeOK, LinesTakeARevision
<1>1. CASE UNCHANGED <<status, revision, lines>>
  BY <1>1
<1>2. ASSUME NEW d \in Documents,
             CreateDraft(d) \/ UpdateDraft(d) \/ \E next \in Unposted : MoveTo(d, next)
      PROVE  LinesTakeARevision
  <2>1. \A e \in Docs : revision[e] \in Int
    BY SetsAssumption
  <2>2. CASE CreateDraft(d)
    BY <2>1, <2>2 DEF CreateDraft
  <2>3. CASE UpdateDraft(d)
    BY <2>1, <2>3 DEF UpdateDraft, NextRevision
  <2>4. ASSUME NEW next \in Unposted, MoveTo(d, next) PROVE LinesTakeARevision
    BY <2>1, <2>4 DEF MoveTo, NextRevision, Unposted
  <2>. QED
    BY <1>2, <2>2, <2>3, <2>4
<1>3. ASSUME NEW t \in Txns, CommitPost(t) PROVE LinesTakeARevision
  BY <1>3 DEF CommitPost, NextRevision
<1>4. ASSUME NEW t \in Txns, NEW r \in Reversals, CommitReverse(t, r) PROVE LinesTakeARevision
  BY <1>4 DEF CommitReverse
<1>. QED
  BY <1>1, <1>2, <1>3, <1>4
  DEF Next, vars, tables, NextDay, Begin, BeginPost, BeginReverse, Progress, LockDocument,
      FindRows, LockRow, UpsertRow, Check, Refuse, RollBack, BreakDeadlock

\* What a step may do to what a transaction was asked: nothing, let go of it,
\* or start on a document there is.
LEMMA RequestStep == TypeInv /\ [Next]_vars => AsksForDocument'
<1>. SUFFICES ASSUME TypeInv, [Next]_vars PROVE AsksForDocument'
  OBVIOUS
<1>. USE DEF TypeInv, TypeOK, DocInv
<1>1. \A u \in Txns :
        \/ pc'[u] = "idle"
        \/ pc[u] # "idle" /\ req'[u] = req[u]
        \/ /\ UNCHANGED <<status, revision, lines>>
           /\ \/ \E d \in Documents, from \in PostsFrom :
                   status[d] # "none" /\ req'[u] = PostRequest(d, from)
              \/ \E o \in Docs, day \in Days :
                   status[o] # "none" /\ req'[u] = ReverseRequest(o, day)
  <2>1. CASE UNCHANGED <<pc, req>>
    BY <2>1
  <2>2. ASSUME NEW t \in Txns, Begin(t)
        PROVE  \A u \in Txns :
          \/ pc'[u] = "idle"
          \/ pc[u] # "idle" /\ req'[u] = req[u]
          \/ /\ UNCHANGED <<status, revision, lines>>
             /\ \/ \E d \in Documents, from \in PostsFrom :
                     status[d] # "none" /\ req'[u] = PostRequest(d, from)
                \/ \E o \in Docs, day \in Days :
                     status[o] # "none" /\ req'[u] = ReverseRequest(o, day)
    BY <2>2 DEF Begin, BeginPost, BeginReverse, tables
  <2>3. ASSUME NEW t \in Txns, End(t)
        PROVE  \A u \in Txns : pc'[u] = "idle" \/ (pc[u] # "idle" /\ req'[u] = req[u])
    BY <2>3 DEF End
  <2>4. ASSUME NEW t \in Txns,
               LockDocument(t) \/ FindRows(t) \/ Check(t)
                 \/ \E k \in Keys : LockRow(t, k) \/ UpsertRow(t, k)
        PROVE  \A u \in Txns : pc'[u] = "idle" \/ (pc[u] # "idle" /\ req'[u] = req[u])
    BY <2>4 DEF LockDocument, FindRows, Check, LockRow, UpsertRow
  <2>. QED
    BY <2>1, <2>2, <2>3, <2>4
    DEF Next, vars, locals, NextDay, CreateDraft, UpdateDraft, MoveTo, Progress,
        CommitPost, CommitReverse, Refuse, RollBack, BreakDeadlock
<1>2. LinesTakeARevision
  BY RevisionStep
<1>3. ASSUME NEW u \in Txns, pc[u] # "idle", req'[u] = req[u] PROVE Asks(u)'
  <2>1. Asks(u)
    BY <1>3 DEF AsksForDocument
  <2>2. revision[Doc(u)] \in Int /\ revision'[Doc(u)] \in Int /\ req[u].revision \in Int
    BY <2>1, TypeStep, SetsAssumption DEF Asks, Requests
  <2>3. /\ status'[Doc(u)] # "none"
        /\ revision[Doc(u)] <= revision'[Doc(u)]
        /\ lines'[Doc(u)] = lines[Doc(u)] \/ revision[Doc(u)] < revision'[Doc(u)]
    BY <1>2, <2>1 DEF Asks, LinesTakeARevision
  <2>4. revision'[Doc(u)] = req[u].revision => lines'[Doc(u)] = req[u].saw \/ ~Posts(u)
    <3>. HIDE DEF TypeInv
    <3>. QED
      BY <2>1, <2>2, <2>3 DEF Asks
  <2>5. req[u].revision <= revision'[Doc(u)] \/ ~Posts(u)
    <3>. HIDE DEF TypeInv
    <3>. QED
      BY <2>1, <2>2, <2>3 DEF Asks
  <2>. HIDE DEF TypeInv
  <2>. QED
    BY <1>3, <2>1, <2>3, <2>4, <2>5 DEF Asks, Doc, Posts
<1>4. ASSUME NEW u \in Txns, NEW d \in Documents, NEW from \in PostsFrom,
             UNCHANGED <<status, revision, lines>>, status[d] # "none",
             req'[u] = PostRequest(d, from)
      PROVE  Asks(u)'
  <2>1. d \in Docs /\ revision[d] \in Int
    BY SetsAssumption DEF Docs
  <2>2. req'[u].doc = d /\ req'[u].from = from /\ req'[u].revision = revision[d]
          /\ req'[u].saw = lines[d]
    BY <1>4 DEF PostRequest
  <2>. QED
    BY <1>4, <2>1, <2>2 DEF Asks, Doc
<1>5. ASSUME NEW u \in Txns, NEW o \in Docs, NEW day \in Days,
             UNCHANGED <<status, revision, lines>>, status[o] # "none",
             req'[u] = ReverseRequest(o, day)
      PROVE  Asks(u)'
  <2>1. req'[u].doc = o /\ req'[u].kind = "reverse"
    BY <1>5 DEF ReverseRequest
  <2>. QED
    BY <1>5, <2>1 DEF Asks, Doc, Posts
<1>. QED
  BY <1>1, <1>3, <1>4, <1>5 DEF AsksForDocument

\* A step that ends transaction t and leaves the documents other
\* transactions hold alone keeps what they decided on.
LEMMA EndKeepsDecisions ==
  ASSUME TypeInv, NEW t \in Txns, End(t), today' = today,
         \A d \in Docs : docLock[d] \notin {t, NoTxn} /\ status[d] # "none" =>
           /\ status'[d] = status[d] /\ lines'[d] = lines[d]
           /\ revision'[d] = revision[d] /\ date'[d] = date[d]
           /\ entries'[d] = entries[d] /\ ReversedBy(d)' = ReversedBy(d)
  PROVE  DecisionsHold'
<1>. USE DEF TypeInv, TypeOK, DocInv
<1>1. \A u \in Txns : pc'[u] # "idle" =>
        u # t /\ pc'[u] = pc[u] /\ req'[u] = req[u] /\ change'[u] = change[u]
  BY DEF End
<1>3. ASSUME NEW u \in Txns, Working(u)' PROVE DecisionHolds(u)'
  <2>1. u # t /\ Working(u) /\ req'[u] = req[u] /\ change'[u] = change[u]
    BY <1>1, <1>3 DEF Working
  <2>2. DecisionHolds(u) /\ Doc(u) \in Docs /\ status[Doc(u)] # "none"
    BY <2>1 DEF DecisionsHold, AsksForDocument, Asks, Working
  <2>3. docLock[Doc(u)] = u /\ docLock'[Doc(u)] = u
    BY <2>1, <2>2 DEF DecisionHolds, End
  <2>4. docLock[Doc(u)] \notin {t, NoTxn}
    BY <2>1, <2>3, SetsAssumption
  <2>5. Doc(u)' = Doc(u) /\ Posts(u)' = Posts(u)
    BY <2>1 DEF Doc, Posts
  <2>6. ReversedBy(Doc(u))' = ReversedBy(Doc(u))
    BY <2>2, <2>4, <2>5 DEF ReversedBy
  <2>. QED
    BY <2>1, <2>2, <2>3, <2>4, <2>5, <2>6 DEF DecisionHolds
<1>. QED
  BY <1>3 DEF DecisionsHold

\* A step that changes one document whose row is free, and no transaction,
\* keeps what the transactions decided on.
LEMMA EditKeepsDecisions ==
  ASSUME TypeInv, NEW d \in Docs,
         docLock[d] = NoTxn \/ status[d] = "none", UNCHANGED <<locks, locals, today, reverses, entries>>,
         \A e \in Docs \ {d} :
           /\ status'[e] = status[e] /\ lines'[e] = lines[e]
           /\ revision'[e] = revision[e] /\ date'[e] = date[e]
  PROVE  DecisionsHold'
<1>. USE DEF TypeInv, TypeOK, DocInv, locks, locals
<1>2. ASSUME NEW u \in Txns, Working(u)' PROVE DecisionHolds(u)'
  <2>1. Working(u) /\ DecisionHolds(u) /\ Doc(u) \in Docs
    BY <1>2 DEF DecisionsHold, AsksForDocument, Asks, Working
  <2>2. status[Doc(u)] # "none"
    BY <2>1, SetsAssumption DEF DecisionHolds, AsksForDocument, Asks, Working, Unposted
  <2>3. Doc(u) # d
    BY <2>1, <2>2, SetsAssumption DEF DecisionHolds
  <2>. QED
    BY <2>1, <2>3 DEF DecisionHolds, Doc, Posts, ReversedBy
<1>. QED
  BY <1>2 DEF DecisionsHold

LEMMA ReversalStep ==
  ASSUME TypeInv, UNCHANGED reverses, LinesTakeARevision,
         \A d \in Docs : status[d] = "posted" => status'[d] = "posted"
  PROVE  OnlyReversalsReverse'
BY DEF TypeInv, DocInv, OnlyReversalsReverse

LEMMA DocStep == TypeInv /\ [Next]_vars => DocInv'
<1>. SUFFICES ASSUME TypeInv, [Next]_vars PROVE DocInv'
  OBVIOUS
<1>. USE DEF TypeInv, TypeOK, DocInv
<1>q. AsksForDocument'
  BY RequestStep
<1>r. LinesTakeARevision
  BY RevisionStep
<1>1. CASE UNCHANGED vars
  BY <1>q, <1>1 DEF vars, tables, locks, locals, DecisionsHold, DecisionHolds,
              RevisionToSpare, OnlyReversalsReverse, Working, Doc, Posts, ReversedBy
<1>2. CASE NextDay
  <2>1. RevisionToSpare' /\ OnlyReversalsReverse'
    BY <1>2 DEF NextDay, RevisionToSpare, OnlyReversalsReverse
  <2>2. ASSUME NEW u \in Txns, Working(u)' PROVE DecisionHolds(u)'
    <3>1. Working(u) /\ DecisionHolds(u) /\ Doc(u) \in Docs
      BY <1>2, <2>2 DEF NextDay, locks, locals, DecisionsHold, AsksForDocument, Asks, Working
    <3>2. date[Doc(u)] \in Nat /\ req[u].day \in Nat /\ today' = today + 1
      BY <1>2, <3>1 DEF NextDay, Requests
    <3>3. UNCHANGED <<status, revision, date, lines, reverses, entries, docLock, req, change>>
      BY <1>2 DEF NextDay, locks, locals
    <3>. QED
      BY <3>1, <3>2, <3>3 DEF DecisionHolds, Doc, Posts, ReversedBy
  <2>. QED
    BY <1>q, <2>1, <2>2 DEF DecisionsHold
<1>3. ASSUME NEW d \in Documents, CreateDraft(d) PROVE DocInv'
  <2>1. d \in Docs
    BY DEF Docs
  <2>2. DecisionsHold'
    BY <1>3, <2>1, EditKeepsDecisions DEF CreateDraft
  <2>3. RevisionToSpare'
    BY <1>3, <2>1, SetsAssumption DEF CreateDraft, RevisionToSpare
  <2>4. OnlyReversalsReverse'
    BY <1>3, <1>r, ReversalStep, SetsAssumption DEF CreateDraft, Editable, Unposted
  <2>. QED
    BY <1>q, <2>2, <2>3, <2>4
<1>4. ASSUME NEW d \in Documents, UpdateDraft(d) PROVE DocInv'
  <2>1. d \in Docs
    BY DEF Docs
  <2>2. DecisionsHold'
    BY <1>4, <2>1, EditKeepsDecisions DEF UpdateDraft, Editable
  <2>3. RevisionToSpare'
    BY <1>4, <2>1, SetsAssumption DEF UpdateDraft, RevisionToSpare, NextRevision
  <2>4. OnlyReversalsReverse'
    BY <1>4, <1>r, ReversalStep, SetsAssumption DEF UpdateDraft, Editable, Unposted
  <2>. QED
    BY <1>q, <2>2, <2>3, <2>4
<1>5. ASSUME NEW d \in Documents, NEW next \in Unposted, MoveTo(d, next) PROVE DocInv'
  <2>1. d \in Docs
    BY DEF Docs
  <2>2. DecisionsHold'
    BY <1>5, <2>1, EditKeepsDecisions DEF MoveTo
  <2>3. RevisionToSpare'
    BY <1>5, <2>1, SetsAssumption DEF MoveTo, RevisionToSpare, NextRevision
  <2>4. OnlyReversalsReverse'
    BY <1>5, <1>r, ReversalStep, SetsAssumption DEF MoveTo, Editable, Unposted
  <2>. QED
    BY <1>q, <2>2, <2>3, <2>4
<1>6. ASSUME NEW t \in Txns, Begin(t) PROVE DocInv'
  <2>1. /\ pc[t] = "idle" /\ pc'[t] = "request"
        /\ \A u \in Txns \ {t} : pc'[u] = pc[u] /\ req'[u] = req[u]
        /\ UNCHANGED <<tables, locks, change>>
    BY <1>6 DEF Begin, BeginPost, BeginReverse
  <2>4. ASSUME NEW u \in Txns, Working(u)' PROVE DecisionHolds(u)'
    <3>1. u # t /\ Working(u) /\ req'[u] = req[u]
      BY <2>1, <2>4 DEF Working
    <3>2. DecisionHolds(u)
      BY <3>1 DEF DecisionsHold
    <3>. QED
      BY <2>1, <3>1, <3>2 DEF DecisionHolds, Doc, Posts, ReversedBy, tables, locks
  <2>5. RevisionToSpare' /\ OnlyReversalsReverse'
    BY <2>1 DEF RevisionToSpare, OnlyReversalsReverse, tables
  <2>. QED
    BY <1>q, <2>4, <2>5 DEF DecisionsHold
<1>7. ASSUME NEW t \in Txns, LockDocument(t) PROVE DocInv'
  <2>1. /\ pc[t] = "request" /\ docLock[Doc(t)] = NoTxn /\ ~Problem(t)
        /\ UNCHANGED <<tables, req>> /\ Doc(t) \in Docs
        /\ \A u \in Txns \ {t} : pc'[u] = pc[u] /\ change'[u] = change[u]
    BY <1>7 DEF LockDocument, AsksForDocument, Asks
  <2>3. ASSUME NEW u \in Txns \ {t}, Working(u)' PROVE DecisionHolds(u)'
    <3>1. DecisionHolds(u)
      BY <2>1, <2>3 DEF DecisionsHold, Working
    <3>2. docLock'[Doc(u)] = u
      BY <1>7, <2>1, <3>1, SetsAssumption DEF LockDocument, DecisionHolds
    <3>. QED
      BY <2>1, <3>1, <3>2 DEF DecisionHolds, Doc, Posts, ReversedBy, tables
  <2>4. DecisionHolds(t)'
    <3>1. docLock'[Doc(t)] = t
      BY <1>7, <2>1 DEF LockDocument
    <3>2. CASE Posts(t)
      <4>1. /\ status[Doc(t)] = req[t].from /\ revision[Doc(t)] = req[t].revision
            /\ date[Doc(t)] <= today
        BY <2>1, <3>2 DEF Problem, PostProblem
      <4>2. change'[t] = lines[Doc(t)]
        BY <1>7, <3>2 DEF LockDocument
      <4>3. lines[Doc(t)] = req[t].saw
        BY <2>1, <3>2, <4>1 DEF AsksForDocument, Asks
      <4>. QED
        BY <2>1, <3>1, <3>2, <4>1, <4>2, <4>3 DEF DecisionHolds, Doc, Posts, tables
    <3>3. CASE ~Posts(t)
      <4>1. /\ status[Doc(t)] = "posted" /\ Doc(t) \in Documents /\ ReversedBy(Doc(t)) = {}
            /\ date[Doc(t)] <= req[t].day /\ req[t].day <= today
        BY <2>1, <3>3 DEF Problem, ReversalProblem, Docs, Requests
      <4>2. change'[t] = ReversalMovements(entries[Doc(t)])
        BY <1>7, <3>3 DEF LockDocument
      <4>. QED
        BY <2>1, <3>1, <3>3, <4>1, <4>2
        DEF DecisionHolds, Doc, Posts, tables, ReversedBy, ReversalMovements
    <3>. QED
      BY <3>2, <3>3
  <2>5. RevisionToSpare' /\ OnlyReversalsReverse'
    BY <2>1 DEF RevisionToSpare, OnlyReversalsReverse, tables
  <2>. QED
    BY <1>q, <2>3, <2>4, <2>5 DEF DecisionsHold
<1>8. ASSUME NEW t \in Txns,
             FindRows(t) \/ Check(t) \/ \E k \in Keys : LockRow(t, k) \/ UpsertRow(t, k)
      PROVE DocInv'
  <2>1. /\ UNCHANGED <<tables, docLock, req, change>>
        /\ \A u \in Txns : Working(u)' => Working(u)
    BY <1>8 DEF FindRows, Check, LockRow, UpsertRow, locks, Working
  <2>. QED
    BY <1>q, <2>1 DEF DecisionsHold, DecisionHolds, RevisionToSpare, OnlyReversalsReverse, Doc, Posts,
       ReversedBy, tables
<1>9. ASSUME NEW t \in Txns, CommitPost(t) PROVE DocInv'
  <2>1. DecisionHolds(t) /\ Doc(t) \in Docs /\ End(t)
    BY <1>9 DEF CommitPost, DecisionsHold, AsksForDocument, Asks, Working
  <2>2. DecisionsHold'
    BY <1>9, <2>1, EndKeepsDecisions DEF CommitPost, DecisionHolds, ReversedBy
  <2>3. RevisionToSpare'
    BY <1>9, <2>1 DEF CommitPost, RevisionToSpare
  <2>4. OnlyReversalsReverse'
    BY <1>9, <1>r, ReversalStep, SetsAssumption DEF CommitPost
  <2>. QED
    BY <1>q, <2>2, <2>3, <2>4
<1>10. ASSUME NEW t \in Txns, NEW r \in Reversals, CommitReverse(t, r) PROVE DocInv'
  <2>1. DecisionHolds(t) /\ Doc(t) \in Docs /\ End(t) /\ r \in Docs
    BY <1>10 DEF CommitReverse, DecisionsHold, AsksForDocument, Asks, Working, Docs
  <2>2. ASSUME NEW d \in Docs, docLock[d] \notin {t, NoTxn}
        PROVE  ReversedBy(d)' = ReversedBy(d)
    <3>1. Doc(t) # d
      BY <2>1, <2>2 DEF DecisionHolds
    <3>2. reverses[r] # d
      BY <1>10, <2>1, SetsAssumption DEF OnlyReversalsReverse, CommitReverse
    <3>. QED
      BY <1>10, <3>1, <3>2, <2>1 DEF ReversedBy, CommitReverse
  <2>3. \A d \in Docs : status[d] # "none" =>
          /\ status'[d] = status[d] /\ lines'[d] = lines[d]
          /\ revision'[d] = revision[d] /\ date'[d] = date[d]
          /\ entries'[d] = entries[d]
    BY <1>10 DEF CommitReverse
  <2>4. today' = today
    BY <1>10 DEF CommitReverse
  <2>5. DecisionsHold'
    BY <2>1, <2>2, <2>3, <2>4, EndKeepsDecisions
  <2>6. RevisionToSpare'
    BY <1>10, <2>1 DEF CommitReverse, RevisionToSpare
  <2>7. OnlyReversalsReverse'
    BY <1>10 DEF CommitReverse, OnlyReversalsReverse
  <2>. QED
    BY <1>q, <2>5, <2>6, <2>7
<1>11. ASSUME NEW t \in Txns, Refuse(t) \/ RollBack(t) \/ BreakDeadlock(t) PROVE DocInv'
  <2>1. End(t) /\ UNCHANGED tables
    BY <1>11 DEF Refuse, RollBack, BreakDeadlock
  <2>2. DecisionsHold'
    BY <2>1, EndKeepsDecisions DEF tables, ReversedBy
  <2>3. RevisionToSpare' /\ OnlyReversalsReverse'
    BY <2>1 DEF tables, RevisionToSpare, OnlyReversalsReverse
  <2>. QED
    BY <1>q, <2>2, <2>3
<1>. QED
  BY <1>1, <1>2, <1>3, <1>4, <1>5, <1>6, <1>7, <1>8, <1>9, <1>10, <1>11 DEF Next, Progress

\* Every variable keeps its type in every behaviour of the posting transactions.
THEOREM TypeCorrect == Spec => []TypeOK
<1>1. TypeInv => TypeOK
  BY DEF TypeInv
<1>2. TypeInv /\ [Next]_vars => TypeInv'
  BY TypeStep, DocStep DEF TypeInv
<1>. QED
  BY <1>1, <1>2, TypeInit, PTL DEF Spec

------------------------------------------------------------------------------
(* No oversell                                                             *)

\* What a transaction has read of a balance is still the balance, because it
\* holds the row since; where it read none, it counts nothing.
ReadsAreLocked ==
  \A t \in Txns, k \in Keys :
    seen[t][k] = 0 \/ (keyLock[k] = t /\ seen[t][k] = balance[k])

\* A transaction that writes found that its change fits what it read.
WritesFit == \A t \in Txns : pc[t] = "writing" => ApplyMovements(seen[t], change[t])

\* It holds every key it has written, whether or not there was a row for it.
WritesAreLocked ==
  \A t \in Txns : pc[t] = "writing" =>
    \A k \in Touched(change[t]) : k \in todo[t] \/ keyLock[k] = t

LockInv == NoOversell /\ ReadsAreLocked /\ WritesFit /\ WritesAreLocked

\* A transaction that ends without writing leaves the others' locks and reads.
LEMMA EndKeepsLocks ==
  ASSUME TypeOK, LockInv, NEW t \in Txns, End(t), balance' = balance
  PROVE  LockInv'
<1>. USE DEF TypeOK, LockInv
<1>1. ASSUME NEW u \in Txns \ {t}
      PROVE  /\ pc'[u] = pc[u] /\ seen'[u] = seen[u] /\ change'[u] = change[u]
             /\ todo'[u] = todo[u] /\ \A k \in Keys : keyLock[k] = u => keyLock'[k] = u
  BY <1>1 DEF End
<1>2. pc'[t] = "idle" /\ seen'[t] = Nothing
  BY DEF End
<1>3. NoOversell'
  BY DEF NoOversell
<1>4. ReadsAreLocked'
  BY <1>1, <1>2 DEF ReadsAreLocked, Nothing
<1>5. ASSUME NEW u \in Txns, pc'[u] = "writing"
      PROVE  /\ ApplyMovements(seen'[u], change'[u])
             /\ \A k \in Touched(change'[u]) : k \in todo'[u] \/ keyLock'[k] = u
  <2>1. u \in Txns \ {t}
    BY <1>5, <1>2
  <2>2. pc[u] = "writing"
    BY <1>1, <1>5, <2>1
  <2>3. /\ ApplyMovements(seen[u], change[u])
        /\ \A k \in Touched(change[u]) : k \in todo[u] \/ keyLock[k] = u
    BY <2>2 DEF WritesFit, WritesAreLocked
  <2>4. \A k \in Touched(change[u]) : k \in Keys
    BY DEF Touched
  <2>. QED
    BY <1>1, <2>1, <2>3, <2>4
<1>6. WritesFit' /\ WritesAreLocked'
  BY <1>5 DEF WritesFit, WritesAreLocked, ApplyMovements, Touched
<1>. QED
  BY <1>3, <1>4, <1>6

\* The two sides of the argument: what the writer adds was checked against
\* what is there, and it adds only where it alone holds the key.
LEMMA WriteFits ==
  ASSUME TypeOK, LockInv, NEW t \in Txns, pc[t] = "writing",
         NEW k \in Strict, change[t][k] # 0
  PROVE  balance[k] + change[t][k] >= 0
<1>1. k \in Keys /\ k \in Strict \cap Touched(change[t])
  BY SetsAssumption DEF Touched
<1>2. seen[t][k] + change[t][k] >= 0
  BY <1>1 DEF LockInv, WritesFit, ApplyMovements
<1>3. balance[k] \in Int /\ change[t][k] \in Int /\ seen[t][k] \in Int
  BY <1>1 DEF TypeOK
<1>4. balance[k] >= 0
  BY DEF LockInv, NoOversell
<1>5. seen[t][k] = 0 \/ seen[t][k] = balance[k]
  BY <1>1 DEF LockInv, ReadsAreLocked
<1>. QED
  BY <1>2, <1>3, <1>4, <1>5

LEMMA CommitKeepsLocks ==
  ASSUME TypeOK, LockInv, NEW t \in Txns,
         pc[t] = "writing", todo[t] = {}, Written(t), End(t)
  PROVE  LockInv'
<1>. USE DEF TypeOK, LockInv
<1>1. ASSUME NEW u \in Txns \ {t}
      PROVE  /\ pc'[u] = pc[u] /\ seen'[u] = seen[u] /\ change'[u] = change[u]
             /\ todo'[u] = todo[u] /\ \A k \in Keys : keyLock[k] = u => keyLock'[k] = u
  BY <1>1 DEF End
<1>2. pc'[t] = "idle" /\ seen'[t] = Nothing
  BY DEF End
<1>3. balance' = [k \in Keys |-> balance[k] + change[t][k]]
  BY DEF Written, NewBalance
<1>4. NoOversell'
  <2>1. ASSUME NEW k \in Strict PROVE balance'[k] >= 0
    <3>1. k \in Keys /\ balance[k] >= 0
      BY SetsAssumption DEF NoOversell
    <3>2. CASE change[t][k] = 0
      BY <1>3, <3>1, <3>2
    <3>3. CASE change[t][k] # 0
      BY <1>3, <3>1, <3>3, WriteFits
    <3>. QED
      BY <3>2, <3>3
  <2>. QED
    BY <2>1 DEF NoOversell
<1>5. ReadsAreLocked'
  <2>1. ASSUME NEW u \in Txns \ {t}, NEW k \in Keys
        PROVE  seen'[u][k] = 0 \/ (keyLock'[k] = u /\ seen'[u][k] = balance'[k])
    <3>1. CASE keyLock[k] = u /\ seen[u][k] = balance[k]
      <4>1. change[t][k] = 0
        BY <3>1 DEF WritesAreLocked, Touched
      <4>. QED
        BY <1>1, <1>3, <3>1, <4>1
    <3>2. CASE seen[u][k] = 0
      BY <1>1, <3>2
    <3>. QED
      BY <3>1, <3>2 DEF ReadsAreLocked
  <2>2. \A k \in Keys : seen'[t][k] = 0
    BY <1>2 DEF Nothing
  <2>3. \A u \in Txns, k \in Keys :
          seen'[u][k] = 0 \/ (keyLock'[k] = u /\ seen'[u][k] = balance'[k])
    BY <2>1, <2>2
  <2>. QED
    BY <2>3 DEF ReadsAreLocked
<1>6. ASSUME NEW u \in Txns, pc'[u] = "writing"
      PROVE  /\ ApplyMovements(seen'[u], change'[u])
             /\ \A k \in Touched(change'[u]) : k \in todo'[u] \/ keyLock'[k] = u
  <2>1. u \in Txns \ {t}
    BY <1>6, <1>2
  <2>2. pc[u] = "writing"
    BY <1>1, <1>6, <2>1
  <2>3. /\ ApplyMovements(seen[u], change[u])
        /\ \A k \in Touched(change[u]) : k \in todo[u] \/ keyLock[k] = u
    BY <2>2 DEF WritesFit, WritesAreLocked
  <2>4. \A k \in Touched(change[u]) : k \in Keys
    BY DEF Touched
  <2>. QED
    BY <1>1, <2>1, <2>3, <2>4
<1>7. WritesFit' /\ WritesAreLocked'
  BY <1>6 DEF WritesFit, WritesAreLocked, ApplyMovements, Touched
<1>. QED
  BY <1>4, <1>5, <1>7

LEMMA LockStep == TypeInv /\ LockInv /\ [Next]_vars => LockInv'
<1>. SUFFICES ASSUME TypeInv, LockInv, [Next]_vars PROVE LockInv'
  OBVIOUS
<1>. USE DEF TypeInv, TypeOK, LockInv
<1>1. CASE UNCHANGED <<balance, keyLock, pc, change, seen, todo>>
  BY <1>1 DEF NoOversell, ReadsAreLocked, WritesFit, WritesAreLocked
<1>2. ASSUME NEW t \in Txns, Begin(t) \/ LockDocument(t) \/ FindRows(t) PROVE LockInv'
  <2>1. /\ pc'[t] # "writing" /\ UNCHANGED <<balance, keyLock, seen>>
        /\ \A u \in Txns \ {t} : pc'[u] = pc[u] /\ change'[u] = change[u] /\ todo'[u] = todo[u]
    BY <1>2 DEF Begin, BeginPost, BeginReverse, LockDocument, FindRows, tables, locks
  <2>. QED
    BY <2>1 DEF NoOversell, ReadsAreLocked, WritesFit, WritesAreLocked
<1>3. ASSUME NEW t \in Txns, NEW k \in Keys, LockRow(t, k) PROVE LockInv'
  <2>1. /\ pc[t] = "locking" /\ UNCHANGED <<balance, pc, change>>
        /\ keyLock[k] = NoTxn /\ keyLock' = [keyLock EXCEPT ![k] = t]
        /\ seen' = [seen EXCEPT ![t][k] = balance[k]]
        /\ todo' = [todo EXCEPT ![t] = @ \ {k}]
    BY <1>3 DEF LockRow, tables
  <2>2. NoOversell'
    BY <2>1 DEF NoOversell
  <2>3. ReadsAreLocked'
    BY <2>1, SetsAssumption DEF ReadsAreLocked
  <2>4. \A u \in Txns : pc'[u] = "writing" => u # t /\ seen'[u] = seen[u] /\ todo'[u] = todo[u]
    BY <2>1
  <2>5. \A u \in Txns, j \in Keys : keyLock[j] = u => keyLock'[j] = u
    BY <2>1, SetsAssumption
  <2>6. WritesFit' /\ WritesAreLocked'
    BY <2>1, <2>4, <2>5 DEF WritesFit, WritesAreLocked, ApplyMovements, Touched
  <2>. QED
    BY <2>2, <2>3, <2>6
<1>4. ASSUME NEW t \in Txns, Check(t) PROVE LockInv'
  <2>1. /\ UNCHANGED <<balance, keyLock, change, seen>> /\ ApplyMovements(seen[t], change[t])
        /\ todo' = [todo EXCEPT ![t] = {k \in Touched(change[t]) : keyLock[k] # t}]
        /\ pc' = [pc EXCEPT ![t] = "writing"]
    BY <1>4 DEF Check, tables, locks
  <2>2. NoOversell' /\ ReadsAreLocked'
    BY <2>1 DEF NoOversell, ReadsAreLocked
  <2>3. WritesFit'
    BY <2>1 DEF WritesFit, ApplyMovements, Touched
  <2>4. WritesAreLocked'
    BY <2>1 DEF WritesAreLocked, Touched
  <2>. QED
    BY <2>2, <2>3, <2>4
<1>5. ASSUME NEW t \in Txns, NEW k \in Keys, UpsertRow(t, k) PROVE LockInv'
  <2>1. /\ UNCHANGED <<balance, pc, change, seen>>
        /\ keyLock[k] = NoTxn /\ keyLock' = [keyLock EXCEPT ![k] = t]
        /\ todo' = [todo EXCEPT ![t] = @ \ {k}]
    BY <1>5 DEF UpsertRow, tables
  <2>2. \A u \in Txns, j \in Keys : keyLock[j] = u => keyLock'[j] = u
    BY <2>1, SetsAssumption
  <2>3. NoOversell' /\ ReadsAreLocked'
    BY <2>1, <2>2 DEF NoOversell, ReadsAreLocked
  <2>4. WritesFit'
    BY <2>1 DEF WritesFit, ApplyMovements, Touched
  <2>5. WritesAreLocked'
    BY <2>1, <2>2 DEF WritesAreLocked, Touched
  <2>. QED
    BY <2>3, <2>4, <2>5
<1>6. ASSUME NEW t \in Txns, CommitPost(t) \/ \E r \in Reversals : CommitReverse(t, r)
      PROVE  LockInv'
  BY <1>6, CommitKeepsLocks DEF CommitPost, CommitReverse
<1>7. ASSUME NEW t \in Txns, Refuse(t) \/ RollBack(t) \/ BreakDeadlock(t) PROVE LockInv'
  BY <1>7, EndKeepsLocks DEF Refuse, RollBack, BreakDeadlock, tables
<1>. QED
  BY <1>1, <1>2, <1>3, <1>4, <1>5, <1>6, <1>7
  DEF Next, Progress, vars, tables, locks, locals, NextDay, CreateDraft, UpdateDraft, MoveTo

LEMMA LockInit == Init => LockInv
BY SetsAssumption, OpeningAssumption
DEF Init, LockInv, NoOversell, ReadsAreLocked, WritesFit, WritesAreLocked, Nothing

LEMMA Invariant == Spec => [](TypeInv /\ LockInv)
<1>1. Init => TypeInv /\ LockInv
  BY TypeInit, LockInit
<1>2. TypeInv /\ LockInv /\ [Next]_vars => (TypeInv /\ LockInv)'
  BY TypeStep, DocStep, LockStep DEF TypeInv
<1>. QED
  BY <1>1, <1>2, PTL DEF Spec

\* No interleaving of postings and reversals takes a lot at a plant, at a
\* warehouse or in transit below zero.
THEOREM NothingOversold == Spec => []NoOversell
<1>1. TypeInv /\ LockInv => NoOversell
  BY DEF LockInv
<1>. QED
  BY <1>1, Invariant, PTL

------------------------------------------------------------------------------
(* What posting does to documents                                          *)

\* Which steps move a document to "posted", or touch what is posted: the two
\* that write.
OnlyCommitsPost ==
  \/ \E t \in Txns : CommitPost(t)
  \/ \E t \in Txns, r \in Reversals : CommitReverse(t, r)
  \/ /\ UNCHANGED <<balance, rows, entries, reverses>>
     /\ \A d \in Docs :
          \/ UNCHANGED <<status[d], revision[d], lines[d], date[d]>>
          \/ /\ d \in Documents /\ status[d] # "posted"
             /\ status'[d] \notin {"none", "posted"}
             /\ lines'[d] = lines[d] \/ lines'[d] \in Changes

LEMMA StepKinds == TypeInv /\ [Next]_vars => OnlyCommitsPost
<1>. SUFFICES ASSUME TypeInv, [Next]_vars PROVE OnlyCommitsPost
  OBVIOUS
<1>. USE DEF TypeInv, TypeOK, OnlyCommitsPost
<1>1. CASE UNCHANGED <<balance, rows, entries, reverses, status, revision, lines, date>>
  BY <1>1
<1>2. ASSUME NEW d \in Documents, CreateDraft(d) PROVE OnlyCommitsPost
  BY <1>2 DEF CreateDraft
<1>3. ASSUME NEW d \in Documents, UpdateDraft(d) PROVE OnlyCommitsPost
  BY <1>3 DEF UpdateDraft, Editable
<1>4. ASSUME NEW d \in Documents, NEW next \in Unposted, MoveTo(d, next) PROVE OnlyCommitsPost
  BY <1>4, SetsAssumption DEF MoveTo, Unposted
<1>. QED
  BY <1>1, <1>2, <1>3, <1>4
  DEF Next, vars, tables, NextDay, Begin, BeginPost, BeginReverse, Progress, LockDocument,
      FindRows, LockRow, UpsertRow, Check, Refuse, RollBack, BreakDeadlock

\* What a transaction that writes goes by.
LEMMA WriterDecided ==
  ASSUME TypeInv, NEW t \in Txns, pc[t] = "writing"
  PROVE  DecisionHolds(t) /\ Doc(t) \in Docs /\ status[Doc(t)] # "none"
BY DEF TypeInv, DocInv, DecisionsHold, AsksForDocument, Asks, Working

LEMMA SeenStep == TypeInv /\ [Next]_vars =>
  \A d \in Documents :
    status[d] # "posted" /\ status'[d] = "posted" =>
      \E t \in Txns :
        /\ Posts(t) /\ Doc(t) = d /\ status[d] = req[t].from
        /\ entries'[d] = req[t].saw /\ lines[d] = req[t].saw
<1>. SUFFICES ASSUME TypeInv, [Next]_vars,
                     NEW d \in Documents, status[d] # "posted", status'[d] = "posted"
              PROVE  \E t \in Txns :
                       /\ Posts(t) /\ Doc(t) = d /\ status[d] = req[t].from
                       /\ entries'[d] = req[t].saw /\ lines[d] = req[t].saw
  OBVIOUS
<1>1. d \in Docs /\ d \notin Reversals
  BY SetsAssumption DEF Docs
<1>2. PICK t \in Txns : CommitPost(t)
  BY <1>1, StepKinds DEF OnlyCommitsPost, CommitReverse, TypeInv, TypeOK
<1>3. DecisionHolds(t) /\ Doc(t) \in Docs /\ Posts(t)
  BY <1>2, WriterDecided DEF CommitPost
<1>4. Doc(t) = d
  BY <1>1, <1>2, <1>3 DEF CommitPost, TypeInv, TypeOK
<1>5. entries'[d] = change[t]
  BY <1>2, <1>3, <1>4 DEF CommitPost, TypeInv, TypeOK
<1>. QED
  BY <1>3, <1>4, <1>5 DEF DecisionHolds

\* Whoever posts a document posts what was on their screen, from the status
\* they asked to post it from: nobody's edit slips in between.
THEOREM PostedAsSeen == Spec => PostsWhatWasSeen
<1>1. TypeInv /\ [Next]_vars => TypeInv'
  BY TypeStep, DocStep DEF TypeInv
<1>2. TypeInv /\ [Next]_vars =>
        [\A d \in Documents :
           status[d] # "posted" /\ status'[d] = "posted" =>
             \E t \in Txns :
               /\ Posts(t) /\ Doc(t) = d /\ status[d] = req[t].from
               /\ entries'[d] = req[t].saw /\ lines[d] = req[t].saw]_vars
  BY SeenStep
<1>. QED
  BY <1>1, <1>2, TypeInit, PTL DEF Spec, PostsWhatWasSeen

LEMMA FinalStep == TypeInv /\ [Next]_vars =>
  \A d \in Docs : status[d] = "posted" =>
    /\ status'[d] = "posted"
    /\ revision'[d] = revision[d]
    /\ date'[d] = date[d]
    /\ lines'[d] = lines[d]
    /\ entries'[d] = entries[d]
    /\ reverses'[d] = reverses[d]
<1>. SUFFICES ASSUME TypeInv, [Next]_vars, NEW d \in Docs, status[d] = "posted"
              PROVE  /\ status'[d] = "posted"
                     /\ revision'[d] = revision[d]
                     /\ date'[d] = date[d]
                     /\ lines'[d] = lines[d]
                     /\ entries'[d] = entries[d]
                     /\ reverses'[d] = reverses[d]
  OBVIOUS
<1>1. ASSUME NEW t \in Txns, CommitPost(t)
      PROVE  /\ Doc(t) # d
             /\ status'[d] = "posted" /\ revision'[d] = revision[d] /\ entries'[d] = entries[d]
  <2>1. DecisionHolds(t) /\ Doc(t) \in Docs /\ Posts(t) /\ Asks(t)
    BY <1>1, WriterDecided DEF CommitPost, TypeInv, DocInv, AsksForDocument
  <2>2. Doc(t) # d
    BY <2>1, SetsAssumption DEF DecisionHolds, Asks, Unposted
  <2>. QED
    BY <1>1, <2>2 DEF CommitPost, TypeInv, TypeOK
<1>2. ASSUME NEW t \in Txns, NEW r \in Reversals, CommitReverse(t, r)
      PROVE  /\ status'[d] = "posted"
             /\ revision'[d] = revision[d] /\ date'[d] = date[d] /\ lines'[d] = lines[d]
             /\ entries'[d] = entries[d] /\ reverses'[d] = reverses[d]
  BY <1>2 DEF CommitReverse, TypeInv, TypeOK
<1>. QED
  BY <1>1, <1>2, StepKinds DEF OnlyCommitsPost, CommitPost

\* A posted document and its entries never change again.
THEOREM PostedStays == Spec => PostedIsFinal
<1>1. TypeInv /\ [Next]_vars => TypeInv'
  BY TypeStep, DocStep DEF TypeInv
<1>2. TypeInv /\ [Next]_vars =>
        [\A d \in Docs : status[d] = "posted" =>
           /\ status'[d] = "posted"
           /\ revision'[d] = revision[d]
           /\ date'[d] = date[d]
           /\ lines'[d] = lines[d]
           /\ entries'[d] = entries[d]
           /\ reverses'[d] = reverses[d]]_vars
  BY FinalStep
<1>. QED
  BY <1>1, <1>2, TypeInit, PTL DEF Spec, PostedIsFinal

------------------------------------------------------------------------------
(* Balances and entries                                                    *)

\* A document that has not posted has no entries.
Unwritten == \A d \in Docs : status[d] # "posted" => entries[d] = Nothing

\* A commit that writes entries for a document that had none adds the same to
\* the balances and to their sum.
LEMMA WriteAdds ==
  ASSUME TypeInv, Unwritten, SnapshotIsLedger, NEW t \in Txns, Written(t),
         NEW d \in Docs, status[d] # "posted", entries' = [entries EXCEPT ![d] = change[t]]
  PROVE  SnapshotIsLedger'
<1>1. /\ entries \in [Docs -> [Keys -> Int]] /\ change[t] \in [Keys -> Int]
      /\ entries[d] = Nothing /\ entries'[d] = change[t]
      /\ \A x \in Docs \ {d} : entries'[x] = entries[x]
  BY DEF TypeInv, TypeOK, Unwritten
<1>2. ASSUME NEW k \in Keys PROVE balance'[k] = LedgerSum(k)'
  <2>. DEFINE f == [x \in Docs |-> entries[x][k]]
              g == [x \in Docs |-> entries'[x][k]]
  <2>1. /\ \A x \in Docs : f[x] \in Int /\ g[x] \in Int
        /\ \A x \in Docs \ {d} : g[x] = f[x]
        /\ f[d] = 0 /\ g[d] = change[t][k] /\ DOMAIN f = Docs /\ DOMAIN g = Docs
    BY <1>1 DEF Nothing
  <2>2. LedgerSum(k) = Opening[k] + SumFunction(f) /\ LedgerSum(k)' = Opening[k] + SumFunction(g)
    BY DEF LedgerSum
  <2>. HIDE DEF f, g
  <2>3. IsFiniteSet(Docs)
    BY SetsAssumption, FS_Union DEF Docs
  <2>4. SumFunctionOnSet(g, Docs) = SumFunctionOnSet(f, Docs) + (g[d] - f[d])
        /\ SumFunctionOnSet(f, Docs) \in Int
    BY <2>1, <2>3, SumChange, SumInt
  <2>5. SumFunction(f) = SumFunctionOnSet(f, Docs) /\ SumFunction(g) = SumFunctionOnSet(g, Docs)
    BY <2>1 DEF SumFunction
  <2>6. balance'[k] = balance[k] + change[t][k] /\ balance[k] = LedgerSum(k)
    BY DEF Written, NewBalance, SnapshotIsLedger
  <2>. QED
    BY <1>1, <2>1, <2>2, <2>4, <2>5, <2>6, OpeningAssumption
<1>3. rows' = OpeningRows \cup {k \in Keys : \E x \in Docs : entries'[x][k] # 0}
  <2>1. rows' = rows \cup {k \in Keys : change[t][k] # 0}
    BY DEF Written, Touched
  <2>2. {k \in Keys : \E x \in Docs : entries'[x][k] # 0}
          = {k \in Keys : \E x \in Docs : entries[x][k] # 0} \cup {k \in Keys : change[t][k] # 0}
    BY <1>1 DEF Nothing
  <2>. QED
    BY <2>1, <2>2 DEF SnapshotIsLedger
<1>. QED
  BY <1>2, <1>3 DEF SnapshotIsLedger

LEMMA SnapshotStep ==
  TypeInv /\ Unwritten /\ SnapshotIsLedger /\ [Next]_vars => Unwritten' /\ SnapshotIsLedger'
<1>. SUFFICES ASSUME TypeInv, Unwritten, SnapshotIsLedger, [Next]_vars
              PROVE  Unwritten' /\ SnapshotIsLedger'
  OBVIOUS
<1>. USE DEF TypeInv, TypeOK
<1>1. ASSUME NEW t \in Txns, NEW d \in Docs, status[d] # "posted", Written(t),
             entries' = [entries EXCEPT ![d] = change[t]],
             status' = [status EXCEPT ![d] = "posted"]
      PROVE  Unwritten' /\ SnapshotIsLedger'
  <2>1. Unwritten'
    BY <1>1 DEF Unwritten
  <2>. QED
    BY <1>1, <2>1, WriteAdds
<1>2. ASSUME NEW t \in Txns, CommitPost(t) PROVE Unwritten' /\ SnapshotIsLedger'
  <2>1. DecisionHolds(t) /\ Doc(t) \in Docs /\ Posts(t) /\ Asks(t)
    BY <1>2, WriterDecided DEF CommitPost, DocInv, AsksForDocument
  <2>2. status[Doc(t)] # "posted"
    BY <2>1, SetsAssumption DEF DecisionHolds, Asks, Unposted
  <2>. QED
    BY <1>1, <1>2, <2>1, <2>2 DEF CommitPost
<1>3. ASSUME NEW t \in Txns, NEW r \in Reversals, CommitReverse(t, r)
      PROVE  Unwritten' /\ SnapshotIsLedger'
  <2>1. r \in Docs /\ status[r] # "posted"
    BY <1>3 DEF CommitReverse, Docs
  <2>. QED
    BY <1>1, <1>3, <2>1 DEF CommitReverse
<1>4. CASE UNCHANGED <<balance, entries, rows>> /\ \A d \in Docs : status[d] = "posted" => status'[d] = "posted"
  BY <1>4 DEF Unwritten, SnapshotIsLedger, LedgerSum
<1>. QED
  BY <1>2, <1>3, <1>4, StepKinds DEF OnlyCommitsPost

\* Whatever commits in whatever order, every balance is the sum of what was
\* written about it, and there is a row for exactly what was touched.
THEOREM BalancesAreSums == Spec => []SnapshotIsLedger
<1>1. Init => TypeInv /\ Unwritten /\ SnapshotIsLedger
  <2>. SUFFICES ASSUME Init PROVE Unwritten /\ SnapshotIsLedger
    BY TypeInit
  <2>1. Unwritten
    BY DEF Init, Unwritten
  <2>2. ASSUME NEW k \in Keys PROVE balance[k] = LedgerSum(k)
    <3>. DEFINE f == [d \in Docs |-> entries[d][k]]
    <3>1. \A d \in Docs : f[d] = 0
      BY DEF Init, Nothing
    <3>2. LedgerSum(k) = Opening[k] + SumFunctionOnSet(f, Docs)
      BY DEF LedgerSum, SumFunction
    <3>. HIDE DEF f
    <3>3. SumFunctionOnSet(f, Docs) = 0
      BY <3>1, SumZero, SetsAssumption, FS_Union DEF Docs
    <3>. QED
      BY <3>2, <3>3, OpeningAssumption DEF Init
  <2>3. \A d \in Docs, k \in Keys : entries[d][k] = 0
    BY DEF Init, Nothing
  <2>. QED
    BY <2>1, <2>2, <2>3 DEF SnapshotIsLedger, Init
<1>2. TypeInv /\ Unwritten /\ SnapshotIsLedger /\ [Next]_vars
        => (TypeInv /\ Unwritten /\ SnapshotIsLedger)'
  BY TypeStep, DocStep, SnapshotStep DEF TypeInv
<1>. QED
  BY <1>1, <1>2, PTL DEF Spec

------------------------------------------------------------------------------
(* Reversals                                                               *)

\* As long as a document reverses nothing else, and what is posted is final,
\* pairs stay pairs; a new pair is made of what its writer decided on.
LEMMA PairsStep == TypeInv /\ ReversalsPairUp /\ [Next]_vars => ReversalsPairUp'
<1>. SUFFICES ASSUME TypeInv, ReversalsPairUp, [Next]_vars,
                     NEW r \in Reversals, status'[r] = "posted"
              PROVE  /\ reverses'[r] \in Documents
                     /\ status'[reverses'[r]] = "posted"
                     /\ entries'[r] = ReversalMovements(entries'[reverses'[r]])
                     /\ date'[reverses'[r]] <= date'[r] /\ date'[r] <= today'
                     /\ \A q \in Reversals \ {r} : reverses'[q] # reverses'[r]
  BY DEF ReversalsPairUp, ReversalMovements
<1>. DEFINE Paired(q) ==
       /\ reverses[q] \in Documents
       /\ status[reverses[q]] = "posted"
       /\ entries[q] = ReversalMovements(entries[reverses[q]])
       /\ date[reverses[q]] <= date[q] /\ date[q] <= today
       /\ \A p \in Reversals \ {q} : reverses[p] # reverses[q]
<1>1. \A q \in Reversals : status[q] = "posted" => Paired(q)
  BY DEF ReversalsPairUp
<1>2. Reversals \subseteq Docs /\ Documents \subseteq Docs /\ Reversals \cap Documents = {}
  BY SetsAssumption DEF Docs
<1>3. today' \in Nat /\ today <= today'
  <2>1. today \in Nat /\ today' \in {today, today + 1}
    BY DEF TypeInv, TypeOK, Next, vars, tables, NextDay, CreateDraft, UpdateDraft, MoveTo, Begin,
           BeginPost, BeginReverse, Progress, LockDocument, FindRows, LockRow, UpsertRow, Check,
           CommitPost, CommitReverse, Refuse, RollBack, BreakDeadlock
  <2>. QED
    BY <2>1
<1>4. \A d \in Docs : status[d] = "posted" =>
        /\ status'[d] = "posted" /\ date'[d] = date[d]
        /\ entries'[d] = entries[d] /\ reverses'[d] = reverses[d]
  BY FinalStep
<1>5. CASE status[r] = "posted"
  <2>1. Paired(r)
    BY <1>1, <1>5
  <2>2. reverses'[r] = reverses[r] /\ entries'[r] = entries[r] /\ date'[r] = date[r]
    BY <1>2, <1>4, <1>5
  <2>3. /\ status'[reverses[r]] = "posted"
        /\ entries'[reverses[r]] = entries[reverses[r]] /\ date'[reverses[r]] = date[reverses[r]]
    BY <1>2, <1>4, <2>1
  <2>4. ASSUME NEW q \in Reversals \ {r} PROVE reverses'[q] # reverses[r]
    <3>1. ASSUME NEW t \in Txns, CommitReverse(t, q) PROVE reverses'[q] # reverses[r]
      <4>1. DecisionHolds(t) /\ Doc(t) \in Docs /\ ~Posts(t)
        BY <3>1, WriterDecided DEF CommitReverse
      <4>2. reverses'[q] = Doc(t)
        BY <1>2, <3>1 DEF CommitReverse, TypeInv, TypeOK
      <4>3. r \notin ReversedBy(Doc(t))
        BY <4>1 DEF DecisionHolds
      <4>. QED
        BY <4>2, <4>3 DEF ReversedBy
    <3>2. ASSUME NEW t \in Txns, NEW p \in Reversals, CommitReverse(t, p), p # q
          PROVE  reverses'[q] = reverses[q]
      BY <1>2, <3>2 DEF CommitReverse, TypeInv, TypeOK
    <3>3. (\E t \in Txns, p \in Reversals : CommitReverse(t, p)) \/ reverses' = reverses
      BY StepKinds DEF OnlyCommitsPost, CommitPost
    <3>. QED
      BY <2>1, <3>1, <3>2, <3>3
  <2>5. today \in Int /\ today' \in Int /\ date[r] \in Int
    BY <1>2, <1>3 DEF TypeInv, TypeOK
  <2>. HIDE DEF TypeInv, ReversalsPairUp
  <2>6. date'[r] <= today'
    BY <1>3, <2>1, <2>2, <2>5
  <2>. QED
    BY <2>1, <2>2, <2>3, <2>4, <2>6
<1>6. CASE status[r] # "posted"
  <2>1. PICK t \in Txns : CommitReverse(t, r)
    <3>1. ASSUME NEW t \in Txns, CommitPost(t) PROVE FALSE
      <4>1. Doc(t) \in Documents
        BY <3>1 DEF CommitPost, TypeInv, DocInv, AsksForDocument, Asks
      <4>2. r # Doc(t)
        BY <1>2, <4>1
      <4>. QED
        BY <1>2, <1>6, <3>1, <4>2 DEF CommitPost, TypeInv, TypeOK
    <3>2. ASSUME NEW t \in Txns, NEW p \in Reversals, CommitReverse(t, p), p # r PROVE FALSE
      BY <1>2, <1>6, <3>2 DEF CommitReverse, TypeInv, TypeOK
    <3>. QED
      BY <1>2, <1>6, <3>1, <3>2, StepKinds DEF OnlyCommitsPost
  <2>2. DecisionHolds(t) /\ Doc(t) \in Docs /\ ~Posts(t)
    BY <2>1, WriterDecided DEF CommitReverse
  <2>3. /\ Doc(t) \in Documents /\ status[Doc(t)] = "posted"
        /\ ReversedBy(Doc(t)) = {} /\ change[t] = ReversalMovements(entries[Doc(t)])
        /\ date[Doc(t)] <= req[t].day /\ req[t].day <= today
    BY <2>2 DEF DecisionHolds
  <2>4. /\ reverses' = [reverses EXCEPT ![r] = Doc(t)]
        /\ entries' = [entries EXCEPT ![r] = change[t]]
        /\ date' = [date EXCEPT ![r] = req[t].day] /\ today' = today
    BY <2>1 DEF CommitReverse
  <2>5. reverses'[r] = Doc(t) /\ entries'[r] = change[t] /\ date'[r] = req[t].day
    BY <1>2, <2>4 DEF TypeInv, TypeOK
  <2>6. /\ status'[Doc(t)] = "posted" /\ entries'[Doc(t)] = entries[Doc(t)]
        /\ date'[Doc(t)] = date[Doc(t)]
    BY <1>2, <1>4, <2>3
  <2>7. ASSUME NEW q \in Reversals \ {r} PROVE reverses'[q] # Doc(t)
    BY <1>2, <2>3, <2>4 DEF ReversedBy, TypeInv, TypeOK
  <2>. HIDE DEF TypeInv, ReversalsPairUp
  <2>. QED
    BY <2>3, <2>4, <2>5, <2>6, <2>7
<1>. QED
  BY <1>5, <1>6

\* However many people ask at the same moment, a document is reversed once,
\* by exactly the negative of what it did, and on or after its day.
THEOREM ReversedOnce == Spec => []ReversalsPairUp
<1>1. Init => TypeInv /\ ReversalsPairUp
  <2>1. Init => ReversalsPairUp
    BY SetsAssumption DEF Init, ReversalsPairUp, Docs
  <2>. QED
    BY <2>1, TypeInit
<1>2. TypeInv /\ ReversalsPairUp /\ [Next]_vars => (TypeInv /\ ReversalsPairUp)'
  BY TypeStep, DocStep, PairsStep DEF TypeInv
<1>. QED
  BY <1>1, <1>2, PTL DEF Spec

------------------------------------------------------------------------------
(* The refinement                                                          *)

\* A step that leaves the document's stage and lines, or rewrites them, is a
\* stutter or a Write.
LEMMA WriteMaps ==
  ASSUME TypeInv, TypeOK', NEW d \in Documents,
         CreateDraft(d) \/ UpdateDraft(d) \/ \E next \in Unposted : MoveTo(d, next)
  PROVE  [Ledger!Next]_(Ledger!vars)
<1>. USE DEF TypeInv, TypeOK
<1>1. d \in Docs /\ status[d] # "posted"
  BY SetsAssumption DEF CreateDraft, UpdateDraft, Editable, MoveTo, Unposted, Docs
<1>2. UNCHANGED <<reverses, balance, entries>>
  BY DEF CreateDraft, UpdateDraft, MoveTo
<1>3. CASE \E next \in Unposted : MoveTo(d, next)
  <2>1. PICK next \in Unposted : MoveTo(d, next)
    BY <1>3
  <2>2. status[d] \notin {"none", "posted"} /\ status' = [status EXCEPT ![d] = next] /\ lines' = lines
    BY <2>1, SetsAssumption DEF MoveTo, Unposted
  <2>3. next \notin {"none", "posted"}
    BY DEF Unposted
  <2>4. LedgerStatus' = LedgerStatus
    BY <1>1, <2>2, <2>3 DEF LedgerStatus
  <2>5. LedgerLines' = LedgerLines
    BY <1>1, <1>2, <2>2, <2>3 DEF LedgerLines
  <2>. QED
    BY <1>2, <2>4, <2>5 DEF Ledger!vars
<1>4. CASE CreateDraft(d) \/ UpdateDraft(d)
  <2>1. PICK c \in Changes : lines' = [lines EXCEPT ![d] = c]
    BY <1>4 DEF CreateDraft, UpdateDraft
  <2>2. status' = [status EXCEPT ![d] = "draft"]
    BY <1>1, <1>4 DEF CreateDraft, UpdateDraft, Editable
  <2>3. LedgerStatus[d] # "posted"
    BY <1>1 DEF LedgerStatus
  <2>4. LedgerStatus' = [LedgerStatus EXCEPT ![d] = "open"]
    BY <1>1, <2>2 DEF LedgerStatus
  <2>5. LedgerLines' = [LedgerLines EXCEPT ![d] = c]
    BY <1>1, <1>2, <2>1, <2>2 DEF LedgerLines
  <2>6. Ledger!Write(d)
    BY <1>2, <2>3, <2>4, <2>5 DEF Ledger!Write
  <2>. QED
    BY <1>1, <2>6 DEF Ledger!Next
<1>. QED
  BY <1>3, <1>4

\* What a writer adds fits, as the abstract ledger asks.
LEMMA WriterFits ==
  ASSUME TypeInv, LockInv, NEW t \in Txns, pc[t] = "writing"
  PROVE  Ledger!Fits(change[t])
BY WriteFits DEF Ledger!Fits, TypeInv

LEMMA PostMaps ==
  ASSUME TypeInv, LockInv, NEW t \in Txns, CommitPost(t)
  PROVE  Ledger!Next
<1>. DEFINE d == Doc(t)
<1>. USE DEF TypeInv, TypeOK
<1>1. /\ d \in Docs /\ Posts(t) /\ status[d] \notin {"none", "posted"}
      /\ change[t] = lines[d]
  <2>1. Posts(t) /\ DecisionHolds(t) /\ Doc(t) \in Docs
    BY WriterDecided DEF CommitPost
  <2>2. req[t].from \in PostsFrom
    BY <2>1 DEF CommitPost, DocInv, AsksForDocument, Asks
  <2>. QED
    BY <2>1, <2>2, SetsAssumption DEF DecisionHolds, Unposted
<1>2. /\ status' = [status EXCEPT ![d] = "posted"]
      /\ entries' = [entries EXCEPT ![d] = change[t]]
      /\ UNCHANGED <<lines, reverses>>
      /\ balance' = [k \in Keys |-> balance[k] + change[t][k]]
  BY DEF CommitPost, Written, NewBalance
<1>3. LedgerStatus[d] = "open" /\ LedgerLines[d] = change[t]
  BY <1>1 DEF LedgerStatus, LedgerLines
<1>4. LedgerStatus' = [LedgerStatus EXCEPT ![d] = "posted"]
  BY <1>1, <1>2 DEF LedgerStatus
<1>5. LedgerLines' = LedgerLines
  BY <1>1, <1>2, <1>3 DEF LedgerLines
<1>6. Ledger!Fits(LedgerLines[d])
  BY <1>3, WriterFits DEF CommitPost
<1>7. balance' = Ledger!Moved(LedgerLines[d])
  BY <1>2, <1>3 DEF Ledger!Moved
<1>8. Ledger!Post(d)
  BY <1>2, <1>3, <1>4, <1>5, <1>6, <1>7 DEF Ledger!Post
<1>. QED
  BY <1>1, <1>8 DEF Ledger!Next

LEMMA ReverseMaps ==
  ASSUME TypeInv, LockInv, NEW t \in Txns, NEW r \in Reversals, CommitReverse(t, r)
  PROVE  Ledger!Next
<1>. DEFINE o == Doc(t)
<1>. USE DEF TypeInv, TypeOK
<1>1. /\ o \in Documents /\ o \in Docs /\ r \in Docs /\ ~Posts(t)
      /\ status[o] = "posted" /\ status[r] = "none"
      /\ ReversedBy(o) = {} /\ change[t] = ReversalMovements(entries[o])
  BY WriterDecided DEF CommitReverse, DecisionHolds, Docs
<1>2. /\ status' = [status EXCEPT ![r] = "posted"]
      /\ entries' = [entries EXCEPT ![r] = change[t]]
      /\ lines' = [lines EXCEPT ![r] = change[t]]
      /\ reverses' = [reverses EXCEPT ![r] = o]
      /\ balance' = [k \in Keys |-> balance[k] + change[t][k]]
  BY DEF CommitReverse, Written, NewBalance
<1>3. LedgerStatus[r] = "none" /\ LedgerStatus[o] = "posted" /\ LedgerLines[o] = entries[o]
  BY <1>1 DEF LedgerStatus, LedgerLines
<1>4. change[t] = Ledger!Negated(LedgerLines[o])
  BY <1>1, <1>3 DEF Ledger!Negated, ReversalMovements
<1>5. reverses[o] = NoDoc /\ \A d \in Docs : reverses[d] # o
  BY <1>1, SetsAssumption DEF DocInv, OnlyReversalsReverse, ReversedBy
<1>6. LedgerStatus' = [LedgerStatus EXCEPT ![r] = "posted"]
  BY <1>1, <1>2 DEF LedgerStatus
<1>7. LedgerLines' = [LedgerLines EXCEPT ![r] = change[t]]
  BY <1>1, <1>2 DEF LedgerLines
<1>8. Ledger!Fits(change[t])
  BY WriterFits DEF CommitReverse
<1>9. balance' = Ledger!Moved(change[t])
  BY <1>2 DEF Ledger!Moved
<1>10. Ledger!Reverse(r, o)
  BY <1>2, <1>3, <1>4, <1>5, <1>6, <1>7, <1>8, <1>9 DEF Ledger!Reverse
<1>. QED
  BY <1>1, <1>10 DEF Ledger!Next

LEMMA StepMaps ==
  TypeInv /\ LockInv /\ [Next]_vars => [Ledger!Next]_(Ledger!vars)
<1>. SUFFICES ASSUME TypeInv, LockInv, [Next]_vars PROVE [Ledger!Next]_(Ledger!vars)
  OBVIOUS
<1>1. CASE UNCHANGED <<status, lines, entries, reverses, balance>>
  BY <1>1 DEF Ledger!vars, LedgerStatus, LedgerLines
<1>2. ASSUME NEW d \in Documents,
             CreateDraft(d) \/ UpdateDraft(d) \/ \E next \in Unposted : MoveTo(d, next)
      PROVE  [Ledger!Next]_(Ledger!vars)
  BY <1>2, WriteMaps, TypeStep
<1>3. ASSUME NEW t \in Txns, CommitPost(t) \/ \E r \in Reversals : CommitReverse(t, r)
      PROVE  Ledger!Next
  BY <1>3, PostMaps, ReverseMaps
<1>. QED
  BY <1>1, <1>2, <1>3
  DEF Next, vars, tables, NextDay, Begin, BeginPost, BeginReverse, Progress, LockDocument,
      FindRows, LockRow, UpsertRow, Check, Refuse, RollBack, BreakDeadlock

LEMMA InitMaps == Init => Ledger!Init
BY DEF Init, Nothing, Ledger!Init, LedgerStatus, LedgerLines

\* The posting transactions, with their locks, failures and interleavings,
\* are the ledger that writes, posts and reverses one document at a time.
THEOREM Refinement == Spec => ImplementsStockLedger
<1>1. TypeInv /\ LockInv /\ [Next]_vars => [Ledger!Next]_(Ledger!vars)
  BY StepMaps
<1>. QED
  BY <1>1, InitMaps, Invariant, PTL DEF Spec, ImplementsStockLedger, Ledger!Spec

------------------------------------------------------------------------------
(* The lock order                                                          *)

\* Only the key a change touches last may be without a balance row at the
\* start, and so be inserted after the locks that are taken in order.
LastOnly(c) == \A k \in Touched(c) \ OpeningRows : \A j \in Touched(c) : Rank[j] <= Rank[k]

\* What a transaction is to lock comes after every key it holds, and it holds
\* and wants none it does not touch; until it has locked what it found, each
\* touched key that had a row from the start is locked or to be locked, so
\* that only the last may be left to insert.
InOrder(t) ==
  /\ pc[t] \in {"idle", "request"} => \A d \in Docs : docLock[d] # t
  /\ pc[t] \in {"idle", "request", "planned"} => \A k \in Keys : keyLock[k] # t
  /\ pc[t] \in {"locking", "writing"} =>
       /\ todo[t] \subseteq Touched(change[t])
       /\ \A j \in Keys : keyLock[j] = t =>
            j \in Touched(change[t]) /\ \A i \in todo[t] : Rank[j] < Rank[i]
  /\ pc[t] = "locking" =>
       \A k \in Touched(change[t]) \cap OpeningRows : k \in todo[t] \/ keyLock[k] = t
  /\ pc[t] = "writing" => todo[t] \cap OpeningRows = {}

OrderInv ==
  /\ OpeningRows \subseteq rows
  /\ \A d \in Docs : LastOnly(lines[d]) /\ LastOnly(entries[d])
  /\ \A t \in Txns : LastOnly(change[t]) /\ InOrder(t)

\* The order tells keys apart.
LEMMA RanksDiffer ==
  ASSUME NEW j \in Keys, NEW i \in Keys, i # j, Rank[j] <= Rank[i]
  PROVE  Rank[j] < Rank[i]
<1>1. Rank[i] \in Nat /\ Rank[j] \in Nat /\ Rank[i] # Rank[j]
  BY RankAssumption
<1>. QED
  BY <1>1

\* The first of several keys is below the others.
LEMMA FirstIsLowest ==
  ASSUME NEW S \in SUBSET Keys, NEW k, IsFirst(k, S), NEW j \in S \ {k}
  PROVE  Rank[k] < Rank[j]
BY RanksDiffer DEF IsFirst

LEMMA LastOnlyNothing == LastOnly(Nothing)
BY DEF LastOnly, Nothing, Touched

\* A reversal touches what the reversed document did.
LEMMA ReversalTouches ==
  ASSUME NEW c \in [Keys -> Int]
  PROVE  Touched(ReversalMovements(c)) = Touched(c)
BY DEF Touched, ReversalMovements

\* The steps that leave a transaction's statement and locks alone.
LEMMA InOrderStays ==
  ASSUME TypeOK, NEW u \in Txns, InOrder(u),
         pc'[u] = pc[u], change'[u] = change[u], todo'[u] = todo[u],
         \A d \in Docs : docLock'[d] = u <=> docLock[d] = u,
         \A k \in Keys : keyLock'[k] = u <=> keyLock[k] = u
  PROVE  InOrder(u)'
<1>1. Touched(change[u])' = Touched(change[u])
  BY DEF Touched
<1>2. Touched(change[u]) \subseteq Keys
  BY DEF Touched
<1>. QED
  BY <1>1, <1>2 DEF InOrder

\* A step of one transaction keeps the order when it keeps it for that one and
\* disturbs no other.
LEMMA OthersKeepOrder ==
  ASSUME TypeOK, OrderInv, OpeningRows \subseteq rows',
         \A d \in Docs : LastOnly(lines'[d]) /\ LastOnly(entries'[d]),
         NEW t \in Txns, LastOnly(change'[t]), InOrder(t)',
         \A u \in Txns \ {t} :
           /\ pc'[u] = pc[u] /\ change'[u] = change[u] /\ todo'[u] = todo[u]
           /\ \A d \in Docs : docLock'[d] = u <=> docLock[d] = u
           /\ \A k \in Keys : keyLock'[k] = u <=> keyLock[k] = u
  PROVE  OrderInv'
<1>1. ASSUME NEW u \in Txns PROVE (LastOnly(change[u]) /\ InOrder(u))'
  <2>1. CASE u = t
    BY <2>1 DEF LastOnly, Touched
  <2>2. CASE u # t
    <3>1. InOrder(u)'
      BY <2>2, InOrderStays DEF OrderInv
    <3>2. LastOnly(change'[u])
      BY <2>2 DEF OrderInv
    <3>. QED
      BY <3>1, <3>2 DEF LastOnly, Touched
  <2>. QED
    BY <2>1, <2>2
<1>2. \A d \in Docs : (LastOnly(lines[d]) /\ LastOnly(entries[d]))'
  BY DEF LastOnly, Touched
<1>. QED
  BY <1>1, <1>2 DEF OrderInv

\* A transaction that ends leaves no lock behind, and the others theirs.
LEMMA EndKeepsOrder ==
  ASSUME TypeOK, OrderInv, NEW t \in Txns, End(t), rows \subseteq rows',
         \A d \in Docs : LastOnly(lines'[d]) /\ LastOnly(entries'[d])
  PROVE  OrderInv'
<1>. USE DEF TypeOK
<1>1. /\ pc'[t] = "idle" /\ change'[t] = Nothing
      /\ \A d \in Docs : docLock'[d] # t
      /\ \A k \in Keys : keyLock'[k] # t
      /\ \A u \in Txns \ {t} :
           /\ pc'[u] = pc[u] /\ change'[u] = change[u] /\ todo'[u] = todo[u]
           /\ \A d \in Docs : docLock'[d] = u <=> docLock[d] = u
           /\ \A k \in Keys : keyLock'[k] = u <=> keyLock[k] = u
  BY SetsAssumption DEF End
<1>2. InOrder(t)'
  BY <1>1 DEF InOrder
<1>3. LastOnly(change'[t])
  BY <1>1, LastOnlyNothing
<1>4. OpeningRows \subseteq rows'
  BY DEF OrderInv
<1>. QED
  BY <1>1, <1>2, <1>3, <1>4, OthersKeepOrder

LEMMA OrderStep ==
  ASSUME \A c \in Changes : LastOnly(c)
  PROVE  TypeInv /\ OrderInv /\ [Next]_vars => OrderInv'
<1>. SUFFICES ASSUME TypeInv, OrderInv, [Next]_vars PROVE OrderInv'
  OBVIOUS
<1>. USE DEF TypeInv, TypeOK
<1>1. CASE UNCHANGED <<rows, lines, entries, docLock, keyLock, pc, change, todo>>
  <2>1. \A t \in Txns : (LastOnly(change[t]) /\ InOrder(t))'
    BY <1>1, InOrderStays DEF OrderInv, LastOnly, Touched
  <2>. QED
    BY <1>1, <2>1 DEF OrderInv, LastOnly, Touched
<1>2. ASSUME NEW d \in Documents, CreateDraft(d) \/ UpdateDraft(d) PROVE OrderInv'
  <2>1. PICK c \in Changes : lines' = [lines EXCEPT ![d] = c]
    BY <1>2 DEF CreateDraft, UpdateDraft
  <2>2. UNCHANGED <<rows, entries, docLock, keyLock, pc, change, todo>>
    BY <1>2 DEF CreateDraft, UpdateDraft, locks, locals
  <2>3. \A e \in Docs : LastOnly(lines'[e]) /\ LastOnly(entries'[e])
    BY <2>1, <2>2 DEF OrderInv
  <2>4. \A t \in Txns : (LastOnly(change[t]) /\ InOrder(t))'
    BY <2>2, InOrderStays DEF OrderInv, LastOnly, Touched
  <2>. QED
    BY <2>2, <2>3, <2>4 DEF OrderInv, LastOnly, Touched
<1>3. ASSUME NEW t \in Txns, Begin(t) PROVE OrderInv'
  <2>1. /\ pc[t] = "idle" /\ pc'[t] = "request"
        /\ UNCHANGED <<rows, lines, entries, docLock, keyLock, change, todo>>
        /\ \A u \in Txns \ {t} : pc'[u] = pc[u]
    BY <1>3 DEF Begin, BeginPost, BeginReverse, tables, locks
  <2>2. InOrder(t)' /\ LastOnly(change'[t])
    BY <2>1 DEF OrderInv, InOrder
  <2>. QED
    BY <2>1, <2>2, OthersKeepOrder DEF OrderInv
<1>4. ASSUME NEW t \in Txns, LockDocument(t) PROVE OrderInv'
  <2>1. /\ pc[t] = "request" /\ pc'[t] = "planned"
        /\ UNCHANGED <<rows, lines, entries, keyLock, todo>>
        /\ docLock[Doc(t)] = NoTxn /\ docLock' = [docLock EXCEPT ![Doc(t)] = t]
        /\ \A u \in Txns \ {t} : pc'[u] = pc[u] /\ change'[u] = change[u]
    BY <1>4 DEF LockDocument, tables
  <2>2. Doc(t) \in Docs
    BY <2>1 DEF DocInv, AsksForDocument, Asks
  <2>3. change'[t] \in {lines[Doc(t)], ReversalMovements(entries[Doc(t)])}
    BY <1>4 DEF LockDocument
  <2>4. LastOnly(change'[t])
    BY <2>2, <2>3, ReversalTouches DEF OrderInv, LastOnly
  <2>5. InOrder(t)'
    BY <2>1 DEF OrderInv, InOrder
  <2>6. \A u \in Txns \ {t} : \A d \in Docs : docLock'[d] = u <=> docLock[d] = u
    BY <2>1, <2>2, SetsAssumption
  <2>. QED
    BY <2>1, <2>4, <2>5, <2>6, OthersKeepOrder DEF OrderInv
<1>5. ASSUME NEW t \in Txns, FindRows(t) PROVE OrderInv'
  <2>1. /\ pc[t] = "planned" /\ pc'[t] = "locking"
        /\ UNCHANGED <<rows, lines, entries, docLock, keyLock, change>>
        /\ todo'[t] = Touched(change[t]) \cap rows
        /\ \A u \in Txns \ {t} : pc'[u] = pc[u] /\ todo'[u] = todo[u]
    BY <1>5 DEF FindRows, tables, locks
  <2>2. \A k \in Keys : keyLock'[k] # t
    BY <2>1 DEF OrderInv, InOrder
  <2>3. InOrder(t)'
    BY <2>1, <2>2 DEF OrderInv, InOrder, Touched
  <2>. QED
    BY <2>1, <2>3, OthersKeepOrder DEF OrderInv
<1>6. ASSUME NEW t \in Txns, NEW k \in Keys, LockRow(t, k) \/ UpsertRow(t, k)
      PROVE  OrderInv'
  <2>1. /\ pc[t] \in {"locking", "writing"} /\ pc' = pc
        /\ UNCHANGED <<rows, lines, entries, docLock, change>> /\ IsFirst(k, todo[t])
        /\ keyLock[k] = NoTxn /\ keyLock' = [keyLock EXCEPT ![k] = t]
        /\ todo' = [todo EXCEPT ![t] = @ \ {k}]
    BY <1>6 DEF LockRow, UpsertRow, tables
  <2>2. \A j \in todo[t] \ {k} : Rank[k] < Rank[j]
    BY <2>1, FirstIsLowest
  <2>3. \A u \in Txns \ {t} : \A j \in Keys : keyLock'[j] = u <=> keyLock[j] = u
    BY <2>1, SetsAssumption
  <2>4. k \in Touched(change[t]) /\ InOrder(t)
    BY <2>1 DEF OrderInv, InOrder, IsFirst
  <2>5. todo'[t] = todo[t] \ {k} /\ Touched(change[t])' = Touched(change[t])
    BY <2>1 DEF Touched
  <2>6. \A j \in Keys : keyLock'[j] = t <=> (keyLock[j] = t \/ j = k)
    BY <2>1
  <2>7. \A j \in Keys : keyLock'[j] = t =>
          j \in Touched(change[t]) /\ \A i \in todo'[t] : Rank[j] < Rank[i]
    BY <2>1, <2>2, <2>4, <2>5, <2>6 DEF InOrder
  <2>8. pc[t] = "locking" =>
          \A j \in Touched(change[t]) \cap OpeningRows : j \in todo'[t] \/ keyLock'[j] = t
    BY <2>4, <2>5, <2>6, Touched(change[t]) \subseteq Keys DEF InOrder, Touched
  <2>9. InOrder(t)'
    BY <2>1, <2>4, <2>5, <2>7, <2>8 DEF InOrder
  <2>10. \A u \in Txns \ {t} : todo'[u] = todo[u]
    BY <2>1
  <2>. QED
    BY <2>1, <2>3, <2>9, <2>10, OthersKeepOrder DEF OrderInv
<1>7. ASSUME NEW t \in Txns, Check(t) PROVE OrderInv'
  <2>1. /\ pc[t] = "locking" /\ todo[t] = {} /\ pc'[t] = "writing"
        /\ UNCHANGED <<rows, lines, entries, docLock, keyLock, change>>
        /\ todo'[t] = {k \in Touched(change[t]) : keyLock[k] # t}
        /\ \A u \in Txns \ {t} : pc'[u] = pc[u] /\ todo'[u] = todo[u]
    BY <1>7 DEF Check, tables, locks
  <2>2. InOrder(t) /\ LastOnly(change[t])
    BY DEF OrderInv
  <2>3. todo'[t] \cap OpeningRows = {}
    BY <2>1, <2>2 DEF InOrder
  <2>4. ASSUME NEW j \in Keys, keyLock[j] = t, NEW i \in todo'[t]
        PROVE  j \in Touched(change[t]) /\ Rank[j] < Rank[i]
    <3>1. j \in Touched(change[t])
      BY <2>1, <2>2, <2>4 DEF InOrder
    <3>2. Rank[j] <= Rank[i] /\ i # j /\ i \in Keys
      BY <2>1, <2>2, <2>3, <2>4, <3>1 DEF LastOnly, Touched
    <3>. QED
      BY <3>1, <3>2, RanksDiffer
  <2>5. InOrder(t)'
    BY <2>1, <2>2, <2>3, <2>4 DEF InOrder, Touched
  <2>. QED
    BY <2>1, <2>2, <2>5, OthersKeepOrder DEF OrderInv
<1>8. ASSUME NEW t \in Txns, CommitPost(t) PROVE OrderInv'
  <2>1. /\ lines' = lines /\ entries' = [entries EXCEPT ![Doc(t)] = change[t]]
        /\ rows \subseteq rows' /\ End(t)
    BY <1>8 DEF CommitPost, Written
  <2>2. \A d \in Docs : LastOnly(lines'[d]) /\ LastOnly(entries'[d])
    BY <2>1 DEF OrderInv
  <2>. QED
    BY <2>1, <2>2, EndKeepsOrder
<1>9. ASSUME NEW t \in Txns, NEW r \in Reversals, CommitReverse(t, r) PROVE OrderInv'
  <2>1. /\ lines' = [lines EXCEPT ![r] = change[t]]
        /\ entries' = [entries EXCEPT ![r] = change[t]]
        /\ rows \subseteq rows' /\ End(t)
    BY <1>9 DEF CommitReverse, Written
  <2>2. \A d \in Docs : LastOnly(lines'[d]) /\ LastOnly(entries'[d])
    BY <2>1 DEF OrderInv
  <2>. QED
    BY <2>1, <2>2, EndKeepsOrder
<1>10. ASSUME NEW t \in Txns, Refuse(t) \/ RollBack(t) \/ BreakDeadlock(t) PROVE OrderInv'
  <2>1. End(t) /\ UNCHANGED <<rows, lines, entries>>
    BY <1>10 DEF Refuse, RollBack, BreakDeadlock, tables
  <2>. QED
    BY <2>1, EndKeepsOrder DEF OrderInv
<1>. QED
  BY <1>1, <1>2, <1>3, <1>4, <1>5, <1>6, <1>7, <1>8, <1>9, <1>10
  DEF Next, Progress, vars, tables, locks, locals, NextDay, MoveTo

LEMMA OrderInit == Init => OrderInv
<1>. SUFFICES ASSUME Init PROVE OrderInv
  OBVIOUS
<1>1. \A d \in Docs : lines[d] = Nothing /\ entries[d] = Nothing
  BY DEF Init
<1>2. \A t \in Txns : change[t] = Nothing /\ InOrder(t)
  BY SetsAssumption DEF Init, InOrder
<1>. QED
  BY <1>1, <1>2, LastOnlyNothing DEF Init, OrderInv

LEMMA OrderInvariant ==
  ASSUME \A c \in Changes : LastOnly(c)
  PROVE  Spec => [](TypeInv /\ OrderInv)
<1>1. TypeInv /\ OrderInv /\ [Next]_vars => (TypeInv /\ OrderInv)'
  BY TypeStep, DocStep, OrderStep DEF TypeInv
<1>. QED
  BY <1>1, TypeInit, OrderInit, PTL DEF Spec

LEMMA WaitsGoUp == TypeInv /\ OrderInv => WaitsClimb
BY DEF OrderInv, InOrder, WaitsClimb, Waiting, IsFirst

\* Where of the keys a document touches only the last in lock order may be
\* without a balance row, a transaction that waits for a row waits for one
\* that is further along that order, however many documents and lots there are.
THEOREM LockOrderHolds ==
  ASSUME \A c \in Changes : LastOnly(c)
  PROVE  Spec => []WaitsClimb
BY OrderInvariant, WaitsGoUp, PTL

\* Whoever is waited for is past its check of the document, and so waits, if
\* at all, for a balance row.
LEMMA WaitedForWaitsForRow ==
  ASSUME TypeInv, OrderInv, NEW t \in Txns, NEW u \in Txns, WaitsFor(t, u)
  PROVE  \A v \in Txns : WaitsFor(u, v) =>
           /\ pc[u] \in {"locking", "writing"}
           /\ \E k \in todo[u] : IsFirst(k, todo[u]) /\ keyLock[k] = v
<1>. USE DEF TypeInv, TypeOK
<1>1. CASE pc[t] = "request" /\ docLock[Doc(t)] = u
  <2>1. Doc(t) \in Docs
    BY <1>1 DEF DocInv, AsksForDocument, Asks
  <2>. QED
    BY <1>1, <2>1 DEF WaitsFor, OrderInv, InOrder
<1>2. CASE \E k \in todo[t] : keyLock[k] = u
  BY <1>2 DEF WaitsFor, OrderInv, InOrder
<1>. QED
  BY <1>1, <1>2 DEF WaitsFor

LEMMA NoCircle ==
  ASSUME IsFiniteSet(Txns), TypeInv, OrderInv, NEW S \in SUBSET Txns, Circular(S)
  PROVE  FALSE
<1>. DEFINE T == {u \in S : \E t \in S : WaitsFor(t, u)}
            next(u) == CHOOSE k \in todo[u] : IsFirst(k, todo[u])
            height == [u \in T |-> Rank[next(u)]]
<1>1. \A t \in S : \E u \in T : WaitsFor(t, u)
  BY DEF Circular
<1>2. T # {} /\ IsFiniteSet(T)
  BY <1>1, FS_Subset DEF Circular
<1>3. ASSUME NEW u \in T
      PROVE  /\ next(u) \in todo[u] /\ next(u) \in Keys /\ IsFirst(next(u), todo[u])
             /\ pc[u] \in {"locking", "writing"}
             /\ keyLock[next(u)] \in T
  <2>1. PICK v \in T : WaitsFor(u, v)
    BY <1>1
  <2>2. /\ pc[u] \in {"locking", "writing"}
        /\ \E k \in todo[u] : IsFirst(k, todo[u]) /\ keyLock[k] = v
    BY <2>1, WaitedForWaitsForRow
  <2>3. todo[u] \subseteq Keys
    BY DEF TypeInv, TypeOK
  <2>4. \A k, j \in todo[u] : IsFirst(k, todo[u]) /\ IsFirst(j, todo[u]) => k = j
    BY <2>3, RankAssumption DEF IsFirst
  <2>. QED
    BY <2>2, <2>3, <2>4
<1>. HIDE DEF next, T
<1>4. \A u \in T : height[u] \in Nat
  BY <1>3, RankAssumption
<1>5. ASSUME NEW u \in T PROVE \E v \in T : height[u] < height[v]
  <2>. DEFINE v == keyLock[next(u)]
  <2>1. v \in T
    BY <1>3
  <2>2. Waiting(u, next(u)) /\ Waiting(v, next(v)) /\ v \in Txns /\ u \in Txns
    BY <1>3, <2>1 DEF Waiting, T
  <2>3. Rank[next(u)] < Rank[next(v)]
    BY <1>3, <2>1, <2>2, WaitsGoUp DEF WaitsClimb
  <2>. QED
    BY <2>1, <2>3
<1>. HIDE DEF height
<1>6. PICK m \in T : \A u \in T : height[u] <= height[m]
  BY <1>2, <1>4, GreatestExists
<1>. QED
  BY <1>4, <1>5, <1>6

\* Under the same condition no circle of waits ever closes, be it through
\* documents or through balance rows: what the comment on lockOrder promises
\* of every pair of postings is so of those that insert, at most, the last of
\* the rows they touch.
THEOREM OrderedPostingsNeverCircle ==
  ASSUME IsFiniteSet(Txns), \A c \in Changes : LastOnly(c)
  PROVE  Spec => []NoDeadlock
<1>1. TypeInv /\ OrderInv => NoDeadlock
  BY NoCircle DEF NoDeadlock
<1>. QED
  BY <1>1, OrderInvariant, PTL
=============================================================================
