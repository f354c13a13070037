------------------------------- MODULE Posting -------------------------------
(***************************************************************************)
(* How the ledger service posts and reverses stock documents: the          *)
(* transactions behind LedgerService.post and LedgerService.reverse,       *)
(* statement by statement, as they interleave under READ COMMITTED.        *)
(*                                                                         *)
(* A transaction takes the row of its document (SELECT ... FOR UPDATE),    *)
(* decides, takes the balance rows that exist for the lots it touches in   *)
(* one order, decides again on what they hold, and then writes: a balance  *)
(* row that did not exist when it looked is inserted, or added to if       *)
(* another posting has inserted it since.  Nothing it writes is seen by    *)
(* the others before it commits.  A crash, a timeout, a rule that refuses  *)
(* or the database breaking a deadlock ends it with nothing written.       *)
(*                                                                         *)
(* A document is its net change, a function from (lot, location) keys to   *)
(* signed quantities; zero means it does not touch the key.  The document  *)
(* types decide what that change is and which statuses they go through:    *)
(* here the change is any of Changes and the moves are any of Moves.       *)
(***************************************************************************)
EXTENDS Integers, FiniteSets, FiniteSetsExt

CONSTANTS
  Documents,    \* stock documents people draft
  Reversals,    \* documents of type reversal, written by reverse alone
  Txns,         \* database connections, each running one transaction at a time
  Keys,         \* (lot, location) pairs
  Rank,         \* lockOrder: the place of a key, by lot and then location
  Strict,       \* keys whose location is not a branch
  Changes,      \* what a document may do, net, to each key
  Opening,      \* what the opening balances left at each key
  OpeningRows,  \* the keys that have a balance row at the start
  Moves,        \* the pairs <<status, next status>> of the document types
  PostsFrom,    \* the statuses a document may be posted from
  LastDay,      \* bound: business dates are the days 1 .. LastDay
  MaxRevision,  \* bound: a document is no longer changed at this revision
  NoDoc, NoTxn

Docs == Documents \cup Reversals

Days == 1 .. LastDay

Unposted == {"draft", "submitted", "approved", "released", "rejected", "cancelled"}

Statuses == Unposted \cup {"none", "posted"}

ASSUME SetsAssumption ==
  /\ IsFiniteSet(Documents) /\ IsFiniteSet(Reversals) /\ Documents \cap Reversals = {}
  /\ NoDoc \notin Docs
  /\ NoTxn \notin Txns
  /\ Strict \subseteq Keys
  /\ Moves \subseteq Unposted \X Unposted
  /\ PostsFrom \subseteq Unposted
  /\ LastDay \in Nat
  /\ MaxRevision \in Nat \ {0}

ASSUME ChangesAssumption == Changes \subseteq [Keys -> Int]

ASSUME RankAssumption ==
  /\ Rank \in [Keys -> Nat]
  /\ \A k, j \in Keys : Rank[k] = Rank[j] => k = j

ASSUME OpeningAssumption ==
  /\ Opening \in [Keys -> Int]
  /\ OpeningRows \subseteq Keys
  /\ \A k \in Strict : Opening[k] >= 0
  /\ \A k \in Keys \ OpeningRows : Opening[k] = 0

VARIABLES
  \* The tables, as committed.
  today,     \* today in the company's time zone
  status,    \* stock_documents.status; "none" before the document exists
  revision,  \* stock_documents.revision
  date,      \* stock_documents.business_date
  lines,     \* the net change of the document's lines
  reverses,  \* stock_documents.reverses_id
  entries,   \* ledger_entries of the document, net per key
  rows,      \* the keys that have a row in stock_balances
  balance,   \* stock_balances.quantity; 0 where there is no row
  \* Row locks and uncommitted inserts.
  docLock,   \* the transaction holding a document's row
  keyLock,   \* the transaction holding a balance row, or inserting it
  \* What each transaction is doing.
  pc,        \* the statement it is at
  req,       \* what it was asked
  change,    \* the net change it is to write
  seen,      \* the balances read under lock; 0 where it found no row
  todo       \* the rows still to be locked, or to be inserted

tables == <<today, status, revision, date, lines, reverses, entries, rows, balance>>
locks == <<docLock, keyLock>>
locals == <<pc, req, change, seen, todo>>
vars == <<tables, locks, locals>>

------------------------------------------------------------------------------
(* Changes to balances: domain/posting-rules.ts *)

Nothing == [k \in Keys |-> 0]

Touched(c) == {k \in Keys : c[k] # 0}

\* Mutant: a reversal that writes the original's entries again.
RepeatedMovements(c) == c

ReversalMovements(c) == [k \in Keys |-> 0 - c[k]]

\* No plant, warehouse or in-transit balance ends below zero.
ApplyMovements(current, c) ==
  \A k \in Strict \cap Touched(c) : current[k] + c[k] >= 0

\* Mutant: rows are locked in whatever order they are found.
AnyOfThem(k, S) == k \in S

IsFirst(k, S) == k \in S /\ \A j \in S : Rank[k] <= Rank[j]

------------------------------------------------------------------------------
(* Requests *)

NoRequest == [kind |-> "none", doc |-> NoDoc, from |-> "none", revision |-> 0,
              saw |-> Nothing, day |-> 1]

PostRequest(d, from) ==
  [kind |-> "post", doc |-> d, from |-> from, revision |-> revision[d],
   saw |-> lines[d], day |-> 1]

ReverseRequest(o, day) ==
  [kind |-> "reverse", doc |-> o, from |-> "none", revision |-> 0,
   saw |-> Nothing, day |-> day]

Requests ==
  [kind : {"none", "post", "reverse"}, doc : Docs \cup {NoDoc}, from : Statuses,
   revision : 0 .. MaxRevision + 1, saw : [Keys -> Int], day : Nat]

Posts(t) == req[t].kind = "post"
Doc(t) == req[t].doc

\* Mutant: the revision the person saw is not compared.
AnyRevisionProblem(d, r) == status[d] # r.from \/ date[d] > today

\* Mutant: the status the call was about is not compared.
AnyStatusProblem(d, r) == revision[d] # r.revision \/ date[d] > today

\* Why a document may not be posted as asked.
PostProblem(d, r) ==
  \/ status[d] = "posted"
  \/ revision[d] # r.revision
  \/ status[d] # r.from
  \/ date[d] > today

ReversedBy(o) == {r \in Reversals : reverses[r] = o}

\* Mutant: only the document's own status is looked at.
StatusReversalProblem(o, day) == status[o] # "posted" \/ day > today \/ day < date[o]

\* Why a document may not be reversed on that day.
ReversalProblem(o, day) ==
  \/ status[o] # "posted"
  \/ o \in Reversals
  \/ ReversedBy(o) # {}
  \/ day > today
  \/ day < date[o]

Problem(t) ==
  IF Posts(t) THEN PostProblem(Doc(t), req[t]) ELSE ReversalProblem(Doc(t), req[t].day)

------------------------------------------------------------------------------
(* Documents, outside posting: createDraft, updateDraft and moveTo, each a  *)
(* short transaction that holds nothing but the document's row.             *)

Init ==
  /\ today = 1
  /\ status = [d \in Docs |-> "none"]
  /\ revision = [d \in Docs |-> 0]
  /\ date = [d \in Docs |-> 1]
  /\ lines = [d \in Docs |-> Nothing]
  /\ reverses = [d \in Docs |-> NoDoc]
  /\ entries = [d \in Docs |-> Nothing]
  /\ rows = OpeningRows
  /\ balance = Opening
  /\ docLock = [d \in Docs |-> NoTxn]
  /\ keyLock = [k \in Keys |-> NoTxn]
  /\ pc = [t \in Txns |-> "idle"]
  /\ req = [t \in Txns |-> NoRequest]
  /\ change = [t \in Txns |-> Nothing]
  /\ seen = [t \in Txns |-> Nothing]
  /\ todo = [t \in Txns |-> {}]

NextDay ==
  /\ today < LastDay
  /\ today' = today + 1
  /\ UNCHANGED <<status, revision, date, lines, reverses, entries, rows, balance,
                 locks, locals>>

CreateDraft(d) ==
  /\ status[d] = "none"
  /\ status' = [status EXCEPT ![d] = "draft"]
  /\ revision' = [revision EXCEPT ![d] = 1]
  /\ \E c \in Changes : lines' = [lines EXCEPT ![d] = c]
  /\ \E day \in 1 .. today : date' = [date EXCEPT ![d] = day]
  /\ UNCHANGED <<today, reverses, entries, rows, balance, locks, locals>>

\* Mutant: the lines and the header each take a revision.
TwoRevisions(n) == n + 2

NextRevision(n) == n + 1

\* lockDraft: only a draft is edited; its row must be free.
Editable(d) == docLock[d] = NoTxn /\ status[d] = "draft"

UpdateDraft(d) ==
  /\ Editable(d)
  /\ revision[d] < MaxRevision
  /\ revision' = [revision EXCEPT ![d] = NextRevision(@)]
  /\ \E c \in Changes : lines' = [lines EXCEPT ![d] = c]
  /\ \E day \in 1 .. today : date' = [date EXCEPT ![d] = day]
  /\ UNCHANGED <<today, status, reverses, entries, rows, balance, locks, locals>>

MoveTo(d, next) ==
  /\ docLock[d] = NoTxn
  /\ <<status[d], next>> \in Moves
  /\ revision[d] < MaxRevision
  /\ status' = [status EXCEPT ![d] = next]
  /\ revision' = [revision EXCEPT ![d] = NextRevision(@)]
  /\ UNCHANGED <<today, date, lines, reverses, entries, rows, balance, locks, locals>>

------------------------------------------------------------------------------
(* The posting transaction *)

\* Someone presses post, on the document as they have it on the screen.
BeginPost(t, d, from) ==
  /\ pc[t] = "idle"
  /\ status[d] # "none"
  /\ pc' = [pc EXCEPT ![t] = "request"]
  /\ req' = [req EXCEPT ![t] = PostRequest(d, from)]
  /\ UNCHANGED <<tables, locks, change, seen, todo>>

\* Bound: a reversal starts only while there is an identifier left for it.
IdentifierLeft ==
  Cardinality({u \in Txns : req[u].kind = "reverse"})
    < Cardinality({r \in Reversals : status[r] = "none"})

BeginReverse(t, o, day) ==
  /\ pc[t] = "idle"
  /\ status[o] # "none"
  /\ IdentifierLeft
  /\ pc' = [pc EXCEPT ![t] = "request"]
  /\ req' = [req EXCEPT ![t] = ReverseRequest(o, day)]
  /\ UNCHANGED <<tables, locks, change, seen, todo>>

\* Mutant: the document's row stays locked when the transaction ends.
EndWithoutDocument(t) ==
  /\ keyLock' = [k \in Keys |-> IF keyLock[k] = t THEN NoTxn ELSE keyLock[k]]
  /\ pc' = [pc EXCEPT ![t] = "idle"]
  /\ req' = [req EXCEPT ![t] = NoRequest]
  /\ change' = [change EXCEPT ![t] = Nothing]
  /\ seen' = [seen EXCEPT ![t] = Nothing]
  /\ todo' = [todo EXCEPT ![t] = {}]
  /\ UNCHANGED docLock

\* The transaction is over: its locks go, and whatever it had not committed.
End(t) ==
  /\ docLock' = [d \in Docs |-> IF docLock[d] = t THEN NoTxn ELSE docLock[d]]
  /\ keyLock' = [k \in Keys |-> IF keyLock[k] = t THEN NoTxn ELSE keyLock[k]]
  /\ pc' = [pc EXCEPT ![t] = "idle"]
  /\ req' = [req EXCEPT ![t] = NoRequest]
  /\ change' = [change EXCEPT ![t] = Nothing]
  /\ seen' = [seen EXCEPT ![t] = Nothing]
  /\ todo' = [todo EXCEPT ![t] = {}]

\* lockDocument, the checks on the document, and the document type's plan.
LockDocument(t) ==
  /\ pc[t] = "request"
  /\ docLock[Doc(t)] = NoTxn
  /\ ~Problem(t)
  /\ docLock' = [docLock EXCEPT ![Doc(t)] = t]
  /\ change' = [change EXCEPT ![t] =
       IF Posts(t) THEN lines[Doc(t)] ELSE ReversalMovements(entries[Doc(t)])]
  /\ pc' = [pc EXCEPT ![t] = "planned"]
  /\ UNCHANGED <<tables, keyLock, req, seen, todo>>

\* write: SELECT ... FOR UPDATE finds the rows that are there when it starts ...
FindRows(t) ==
  /\ pc[t] = "planned"
  /\ todo' = [todo EXCEPT ![t] = Touched(change[t]) \cap rows]
  /\ pc' = [pc EXCEPT ![t] = "locking"]
  /\ UNCHANGED <<tables, locks, req, change, seen>>

\* Mutant: the rows are read without FOR UPDATE.
ReadRow(t, k) ==
  /\ pc[t] = "locking"
  /\ IsFirst(k, todo[t])
  /\ seen' = [seen EXCEPT ![t][k] = balance[k]]
  /\ todo' = [todo EXCEPT ![t] = @ \ {k}]
  /\ UNCHANGED <<tables, locks, pc, req, change>>

\* ... and locks them one by one, reading each as it is once the lock is held.
LockRow(t, k) ==
  /\ pc[t] = "locking"
  /\ IsFirst(k, todo[t])
  /\ keyLock[k] = NoTxn
  /\ keyLock' = [keyLock EXCEPT ![k] = t]
  /\ seen' = [seen EXCEPT ![t][k] = balance[k]]
  /\ todo' = [todo EXCEPT ![t] = @ \ {k}]
  /\ UNCHANGED <<tables, docLock, pc, req, change>>

Check(t) ==
  /\ pc[t] = "locking"
  /\ todo[t] = {}
  /\ ApplyMovements(seen[t], change[t])
  /\ todo' = [todo EXCEPT ![t] = {k \in Touched(change[t]) : keyLock[k] # t}]
  /\ pc' = [pc EXCEPT ![t] = "writing"]
  /\ UNCHANGED <<tables, locks, req, change, seen>>

\* INSERT ... ON CONFLICT of a key that had no row: it waits for whoever is
\* inserting or holding the key, and then inserts the row or adds to it.
UpsertRow(t, k) ==
  /\ pc[t] = "writing"
  /\ IsFirst(k, todo[t])
  /\ keyLock[k] = NoTxn
  /\ keyLock' = [keyLock EXCEPT ![k] = t]
  /\ todo' = [todo EXCEPT ![t] = @ \ {k}]
  /\ UNCHANGED <<tables, docLock, pc, req, change, seen>>

\* Mutant: the upsert writes the balance the check computed.
OverwrittenBalance(t) ==
  [k \in Keys |-> IF change[t][k] = 0 THEN balance[k] ELSE seen[t][k] + change[t][k]]

\* quantity = stock_balances.quantity + EXCLUDED.quantity
NewBalance(t) == [k \in Keys |-> balance[k] + change[t][k]]

\* What the entries record, and the balances take.
Written(t) ==
  /\ balance' = NewBalance(t)
  /\ rows' = rows \cup Touched(change[t])

CommitPost(t) ==
  /\ pc[t] = "writing" /\ todo[t] = {} /\ Posts(t)
  /\ Written(t)
  /\ entries' = [entries EXCEPT ![Doc(t)] = change[t]]
  /\ status' = [status EXCEPT ![Doc(t)] = "posted"]
  /\ revision' = [revision EXCEPT ![Doc(t)] = NextRevision(@)]
  /\ UNCHANGED <<today, date, lines, reverses>>
  /\ End(t)

\* The reversal is inserted already posted, at revision 1.
CommitReverse(t, r) ==
  /\ pc[t] = "writing" /\ todo[t] = {} /\ ~Posts(t)
  /\ status[r] = "none"
  /\ Written(t)
  /\ entries' = [entries EXCEPT ![r] = change[t]]
  /\ lines' = [lines EXCEPT ![r] = change[t]]
  /\ status' = [status EXCEPT ![r] = "posted"]
  /\ revision' = [revision EXCEPT ![r] = 1]
  /\ date' = [date EXCEPT ![r] = req[t].day]
  /\ reverses' = [reverses EXCEPT ![r] = Doc(t)]
  /\ UNCHANGED today
  /\ End(t)

------------------------------------------------------------------------------
(* Ending without writing *)

\* A rule throws: the transaction rolls back.
Refuse(t) ==
  /\ \/ pc[t] = "request" /\ docLock[Doc(t)] = NoTxn /\ Problem(t)
     \/ pc[t] = "locking" /\ todo[t] = {} /\ ~ApplyMovements(seen[t], change[t])
  /\ End(t)
  /\ UNCHANGED tables

\* The plan refuses, the process dies, the connection drops, or the
\* transaction times out.
RollBack(t) ==
  /\ pc[t] # "idle"
  /\ End(t)
  /\ UNCHANGED tables

\* t waits for a row u holds.
WaitsFor(t, u) ==
  \/ pc[t] = "request" /\ docLock[Doc(t)] = u
  \/ pc[t] \in {"locking", "writing"} /\ \E k \in todo[t] : IsFirst(k, todo[t]) /\ keyLock[k] = u

\* A circle of transactions, each waiting for the next.
Circular(S) == S # {} /\ \A t \in S : \E u \in S : WaitsFor(t, u)

\* The database finds the circle and ends one of its transactions.
BreakDeadlock(t) ==
  /\ \E S \in SUBSET Txns : t \in S /\ Circular(S)
  /\ End(t)
  /\ UNCHANGED tables

Progress(t) ==
  \/ LockDocument(t)
  \/ FindRows(t)
  \/ \E k \in Keys : LockRow(t, k) \/ UpsertRow(t, k)
  \/ Check(t)
  \/ CommitPost(t)
  \/ \E r \in Reversals : CommitReverse(t, r)
  \/ Refuse(t)

Begin(t) ==
  \/ \E d \in Documents, from \in PostsFrom : BeginPost(t, d, from)
  \/ \E o \in Docs, day \in Days : BeginReverse(t, o, day)

Next ==
  \/ NextDay
  \/ \E d \in Documents :
       CreateDraft(d) \/ UpdateDraft(d) \/ \E next \in Unposted : MoveTo(d, next)
  \/ \E t \in Txns : Begin(t) \/ Progress(t) \/ RollBack(t) \/ BreakDeadlock(t)

Spec == Init /\ [][Next]_vars

\* Postgres serves the waiters of a lock in turn, so a statement that could
\* go on again and again does go on; and it looks for deadlocks.
FairSpec ==
  /\ Spec
  /\ \A t \in Txns : SF_vars(Progress(t)) /\ WF_vars(BreakDeadlock(t))

------------------------------------------------------------------------------
(* Properties *)

\* Every variable has its type.
TypeOK ==
  /\ today \in Nat
  /\ status \in [Docs -> Statuses]
  /\ revision \in [Docs -> 0 .. MaxRevision + 1]
  /\ date \in [Docs -> Nat]
  /\ lines \in [Docs -> [Keys -> Int]]
  /\ reverses \in [Docs -> Docs \cup {NoDoc}]
  /\ entries \in [Docs -> [Keys -> Int]]
  /\ rows \in SUBSET Keys
  /\ balance \in [Keys -> Int]
  /\ docLock \in [Docs -> Txns \cup {NoTxn}]
  /\ keyLock \in [Keys -> Txns \cup {NoTxn}]
  /\ pc \in [Txns -> {"idle", "request", "planned", "locking", "writing"}]
  /\ req \in [Txns -> Requests]
  /\ change \in [Txns -> [Keys -> Int]]
  /\ seen \in [Txns -> [Keys -> Int]]
  /\ todo \in [Txns -> SUBSET Keys]

\* However postings and reversals interleave, no lot at a plant, a warehouse
\* or in transit is ever below zero: two documents cannot both take the last
\* of it, not even when the row it is counted in does not exist yet when they
\* look (ADR-0003, decisions 5 and 6; applyMovements and write).
NoOversell == \A k \in Strict : balance[k] >= 0

LedgerSum(k) == Opening[k] + SumFunction([d \in Docs |-> entries[d][k]])

\* The balance snapshot is at all times the sum of the committed entries, and
\* has a row for exactly the keys some entry touched: no posting overwrites
\* what another added meanwhile (ADR-0003, decision 2; write's upsert).
SnapshotIsLedger ==
  /\ \A k \in Keys : balance[k] = LedgerSum(k)
  /\ rows = OpeningRows \cup {k \in Keys : \E d \in Docs : entries[d][k] # 0}

\* A reversal negates exactly the entries of one posted document that is not
\* itself a reversal, is dated on or after it, and is the only one to do so,
\* whatever was asked twice at the same moment (reverse, reversalProblem).
ReversalsPairUp ==
  \A r \in Reversals : status[r] = "posted" =>
    LET o == reverses[r] IN
      /\ o \in Documents
      /\ status[o] = "posted"
      /\ entries[r] = ReversalMovements(entries[o])
      /\ date[o] <= date[r] /\ date[r] <= today
      /\ \A q \in Reversals \ {r} : reverses[q] # o

\* What is posted is what the person who posted it had on the screen, from
\* the status the call was about: an edit between their opening the document
\* and the transaction taking its row makes the posting fail (post, the
\* revision check).
PostsWhatWasSeen ==
  [][\A d \in Documents :
       status[d] # "posted" /\ status'[d] = "posted" =>
         \E t \in Txns :
           /\ Posts(t) /\ Doc(t) = d /\ status[d] = req[t].from
           /\ entries'[d] = req[t].saw /\ lines[d] = req[t].saw]_vars

\* No step, of any person or transaction, changes a posted document or its
\* entries (lockDraft, post and the steps look at the status first; ADR-0003,
\* decision 4).
PostedIsFinal ==
  [][\A d \in Docs : status[d] = "posted" =>
       /\ status'[d] = "posted"
       /\ revision'[d] = revision[d]
       /\ date'[d] = date[d]
       /\ lines'[d] = lines[d]
       /\ entries'[d] = entries[d]
       /\ reverses'[d] = reverses[d]]_vars

\* "two postings touching the same lots wait for each other instead of
\* deadlocking" (domain/posting-rules.ts, lockOrder).
NoDeadlock == \A S \in SUBSET Txns : ~Circular(S)

Waiting(t, k) == pc[t] \in {"locking", "writing"} /\ IsFirst(k, todo[t])

\* Where every row but the last a document touches is there, a transaction
\* waits only for one that, if it waits too, waits further along the lock
\* order: the reason NoDeadlock holds there (lockOrder).
WaitsClimb ==
  \A t, u \in Txns, k, j \in Keys :
    Waiting(t, k) /\ keyLock[k] = u /\ Waiting(u, j) => Rank[k] < Rank[j]

\* Every request to post or reverse ends, written or refused: no lock is left
\* behind by a transaction that is over, and no wait lasts for ever.
EveryRequestEnds == \A t \in Txns : pc[t] # "idle" ~> pc[t] = "idle"

\* A document as the abstract ledger has it: being worked on until it posts,
\* and then what its entries say.
LedgerStatus ==
  [d \in Docs |-> IF status[d] \in {"none", "posted"} THEN status[d] ELSE "open"]

LedgerLines == [d \in Docs |-> IF status[d] = "posted" THEN entries[d] ELSE lines[d]]

Ledger == INSTANCE StockLedger WITH status <- LedgerStatus, lines <- LedgerLines

\* The posting transactions, with all their locks and failures, do what
\* StockLedger says one document at a time.
ImplementsStockLedger == Ledger!Spec
=============================================================================
