# A formal model of the PaynEat ERP

PaynEat ERP is the stock side of a restaurant chain: one plant, its warehouses, the branches, and
the stock on the road between them. The backend (`src/backend`, NestJS, Prisma, PostgreSQL) keeps a
ledger of what every lot holds at every location, and the documents that move it: purchase orders,
goods receipts, production orders, requisitions, transfers and their receipts, adjustments, and the
sales the branches' POS systems send in. This directory holds TLA+ models of its core, the TLC
configurations that check them on small instances, and proofs that TLAPS checks.

How to run it, from this directory:

    tlc -workers 2 -config MCPosting_race.cfg MCPosting      # any run: its cfg, its MC module
    tlapm PostingProofs.tla                                  # the proofs of a module: its name and "Proofs"
    tlapm SumTheorems.tla                                    # and of the sums they rest on

`PROJECT.json` lists the runs with what each shows, the source lines of every definition, the
hazards and the properties that watch them, and for every property a mutation of the code under
which it fails.

## 1. The system

### What makes it hard

Every request is one or more PostgreSQL transactions at READ COMMITTED. A transaction takes the row
of the document it is about (`SELECT ... FOR UPDATE`), compares the revision with the one the person
had on the screen, decides, and writes. What goes wrong in such a system goes wrong between the
statements of two transactions, and no unit test gets there:

- a row that does not exist yet cannot be locked (balances, lots, placeholders);
- something is read before the transaction, or in an earlier one, and used after it (what is still
  outstanding, tolerances, the approval threshold, the day);
- one request takes two transactions, and may die between them (submit or approve, then post; claim
  a sale, then post its consumption);
- two modules write two sides of one fact (an order's received quantities and the lots; a sale's
  status, its attempts and its document);
- a POS delivers again, or twice at once; several replicas process sales, and people re-process them.

### Components

Each is listed with its state, its operations, whom it interacts with, and what makes it correct.
`PROJECT.json` has the same list with the sources and the status of each.

| Component | State | Operations | Interacts with | What makes it correct |
|---|---|---|---|---|
| **Stock ledger** (`modules/ledger`) | `stock_documents` (status, revision, business date), lines, `ledger_entries`, `stock_balances`, `lots` | createDraft, updateDraft, moveTo, post, reverse, as-of reading, reconcile, rebuild | every document type hands it a plan in a callback inside the posting transaction | nothing oversold; balances are the sum of entries; a reversal exactly once; posted is final; what posts is what was seen; every request ends |
| **Transfers** (`modules/transfers`) | `transfers`, picks, `transfer_receipts` and their lines and findings | create, edit, cancel, dispatch, reverse; receipt: raise, edit, submit, approve, reject, post | ledger, requisitions, receiving inspection, item tolerances | stock leaves once and arrives once, whole; one receipt posts; a loss is approved by somebody else |
| **Branch consumption and sales ingestion** (`modules/branch-consumption`, `pos-integration/sales-events.service.ts`) | `sales_events`, `sales_event_processing`, `branch_consumptions` | ingest, runBatches (timer, person), reprocess, claim, post | POS over HTTP, menu, ledger, company settings | each sale takes stock once, however often it is delivered or processed, not before its day; every sale is settled |
| **FEFO at a branch** (`core/stock/domain/fefo.ts`, `lockBalancesAt`, `lotsAt`) | balances of one item at a branch | plan the lots a sale takes | ledger | earliest expiry first; nothing is taken that another has taken |
| **Purchase orders** (`modules/purchase-orders`) | `purchase_orders`, lines with received and returned quantities | create, edit, submit, approve, reject, send, cancel, recordReceipt | goods receipts, company threshold | nothing bought unapproved; states only go forward |
| **Goods receipts** (`modules/goods-receipts`) | `goods_receipts`, lines, findings, returns | raise, edit, submit, approve, reject, post | purchase orders (row lock), ledger, inspection | never over the limit together; books agree; findings approved |
| **Receiving inspection** (`core/receiving`) | none | inspect | transfers, goods receipts | - |
| **Segregation of duties** (`core/security`) | none | segregationProblem | every approval | nobody approves their own |
| **Company settings** (`modules/company`) | one row, revision | update | thresholds, tolerances of time | - |
| Stock adjustments, opening balances | a document each | draft, submit, approve, post | ledger | as the ledger, plus approval |
| **Production orders** (`modules/production-orders`) | `production_orders`, planned lines, picks, actual outputs, `lot_genealogy` | create, edit, release, record picks and outputs, cancel, post, reverse | ledger, FEFO, BOM versions | an order follows the version of its day; value in is value out; every output traces to its inputs and outlives none of them |
| **Production BOMs** (`modules/production-boms`) | BOMs and their versions, each from a day | create, add a version, correct one that has not taken effect | production orders | what has taken effect never changes |
| **Requisitions** (`modules/requisitions`) | requisitions and their lines; how far they are fulfilled is read from transfers; par levels | create, edit, submit, cancel, create a transfer; suggestions, par misses | transfers, balances | nothing outstanding is sent twice; not cancelled while on its way |
| **Menu, items, locations, suppliers** | records under a version or revision; links, prices, successors | create, edit, price, deactivate, supersede | master-data log, every document | nobody's change is overwritten unseen; no circle of successors |
| **Master-data change log** (`modules/master-data`) | one counter, changes | nextVersion, append, changesSince | every record; POS polling | a poll never skips a change |
| **Console** (`src/web`) | the lists a page has fetched, the form it has filled | open, refetch, save | every service, by HTTP | a save replaces what the person saw |
| Identity | users, roles, sessions, second factors | sign-in, refresh, grant, revoke | guards | an administrator is always left |
| Audit, sequence, job lock, quantities, time, config, HTTP, telemetry, health | - | - | - | - |
| Schema and triggers (`prisma`), console (`src/web`), contracts, docs, scripts, `ee` | - | - | - | - |

### How they interact

A document module never writes balances. It calls `LedgerService.post(id, revision, actor, plan)`;
the ledger opens the transaction, locks the document's row, checks status and revision, calls `plan`
inside the transaction (which locks what else the module needs: the transfer's row, the order's row,
the sales event, the branch's balances), and then locks balances in one order, checks them and
writes. `reverse` has the same shape with a `guard`. The models are cut along that line: `Posting` has
the ledger's part statement by statement, for any document; the others have the module's part, with
the ledger's as one step, because `Posting` shows that postings of one lot exclude each other and that
balances are sums of entries.

## 2. The modules

| Module | What it is | Its code |
|---|---|---|
| `StockLedger` | abstract: what the ledger promises, one document at a time | ADR-0003 |
| `Posting` | posting and reversing, statement by statement | `ledger.service.ts`, `posting-rules.ts` |
| `PostingProofs`, `SalesProofs`, `TransfersProofs`, `PurchasingProofs`, `MasterDataProofs`, `ProductionProofs`, `RequisitionsProofs` | the proofs about the module each is named for (`SalesProofs`: `SalesConsumption` and `BranchStock`) | |
| `SumTheorems` | sums over finite sets, for the proofs: the algebra of the community modules' fold; and that finite sets can be sorted | |
| `SaleLifecycle` | abstract: what the company is promised about one sale | ADR-0030 |
| `SalesConsumption` | ingestion, runs, re-processing, claim and posting | `sales-events.service.ts`, `branch-consumption.service.ts`, `consumption-rules.ts` |
| `BranchStock` | FEFO at a branch: lock, read, allocate, write | `fefo.ts`, `lockBalancesAt`, `lotsAt`, `lastReceivedAt`, `plan` |
| `TransferJourney` | abstract: where the stock of a transfer is | ADR-0007, ADR-0028 |
| `Transfers` | transfers and their receipts | `transfers.service.ts`, `transfer-receipts.service.ts`, `transfer-rules.ts`, `inspection.ts` |
| `OrderReceiving` | abstract: what purchasing is promised about an order | ADR-0007 |
| `Purchasing` | an order and the goods receipts against it | `purchase-orders`, `goods-receipts`, `inspection.ts`, `segregation-of-duties.ts` |
| `MasterData` | records, the change log, the console's forms and a POS that polls | `items`, `locations`, `suppliers`, `menu`, `company`, `master-data`, `pos-integration`, the console's pages of them |
| `Production` | BOM versions, and orders from plan to reversal | `production-orders`, `production-boms`, `dated-versions.ts`, `fefo.ts` |
| `Requisitions` | a requisition and the transfers prepared from it, over `TransferJourney` | `requisitions`, `transfers.service.ts`, the `erp_requisition_guard` trigger |
| `MC*` | instances for TLC | |

An operator marked "Mutant" is the definition after it with a plausible error in it. Nothing of the
specification uses it; put in the place of its neighbour it makes a property fail, which shows that
the property depends on that code.

Each detailed module instantiates its abstract one with a refinement mapping (`Ledger`, `Lifecycle`,
`Journey`, `Receiving`) and checks it as a property (`Implements...`). `Requisitions` is composed of
steps of `TransferJourney` itself: what it needs of a transfer is what `Transfers` is shown to keep.

### Posting

A transaction goes through the program counter `request`, `planned`, `locking`, `writing`:
`LockDocument` (lockDocument and the checks in `post`, or the guard and `reversalProblem` in
`reverse`), `FindRows` and `LockRow` (the `SELECT ... FOR UPDATE` in `write`: the set of rows is fixed
when the statement begins, and then they are locked one at a time in lock order, each read as it is
once it is locked), `Check` (`applyMovements`: a row not found counts as zero), `UpsertRow`
(`INSERT ... ON CONFLICT DO UPDATE`, waiting for another's uncommitted insert of the same key) and
`CommitPost` or `CommitReverse`. `Refuse`, `RollBack` and `BreakDeadlock` end it with nothing
written. Writes show at commit. A document is its net change per (lot, location) and any of the
constant `Changes`; what the document types do between drafts and posting is any of `Moves`. `today`
passes midnight between steps.

### SalesConsumption

Per event: what was stored, its status, its attempts in order, its document and how often stock was
taken. Per processor: the run's lists (`held`, `seen`, the batch) and the sale it is at. Delivering
is one action: the unique key makes one of two racing inserts fail and read the other's row. `claim`
is `StartClaim` (the day is read before the transaction), `ClaimEvent` (with or without SKIP LOCKED)
and one of four outcomes; posting is `LockDraft`, `LockEvent`, `Commit`. Between the two nothing is
locked. `reprocess` reads the day in `AskAgain` and goes by it in `RecordRequest`. `asOf` is the day
each processor goes by, and `NextDay` may come between its reading and its use; `NeverBeforeItsDay`
is judged by the day it then is. `Stop` ends a processor at any point. The
job lock is left out: people's runs do not take it and its transaction may time out while the work
goes on, so every overlap is allowed.

### BranchStock

One item at one branch. `LockBalances`, `ReadLots`, `Allocate` and `Write` are the four statements
of a plan; `Receive` and `Adjust` are other documents coming between them. FEFO itself is the sorted
list of the lots (`FefoSorted`) and the recursive function over it (`Remaining`, the loop of
`fefoPick`), checked against what FEFO means (`PlanIsFefo`) and not against itself.

### Transfers and Purchasing

A document's short steps (create, edit, cancel, reject) are one action each, taken when the row is
free: they write nothing but their own document. Requests that read something without its lock, or
take two transactions, go step by step (`LockDocument`, `LockTransfer` / `LockOrder`, `Decide`, the
write). The revision on the page travels with the request. Master data change under them: of an
order the tolerances (`ChangeTolerance`), the threshold (`ChangeThreshold`) and, one by one, whether
the supplier, the location and each item are in use (`ChangeUse`), each looked at where the code
does. A request may die after any step. Prices are 1, one unit per item, quantities whole.

### MasterData

Records of six kinds differ in what the code does with them: whether they are locked by version or
revision, whether their changes go to the log, what rows they link to. A save goes `TakeRow`, `Link`
(a foreign key's share lock), `TakeVersion` (the counter, held to the end) and commits; `RowsToLock`
and `FirstRow` are the two rows a supersede locks and their order. A console's `page` keeps what the
list says apart from what the form was filled with: `Refetched` fills the form again only where the
page keys it by the revision. A POS applies one page of the log at a time (`Pull`). The page is the
rows' list in version order, chosen as the one list that has that order (`ByVersion`).

### Production

An order is one record with its status, its plan, its picks and its outputs; lots carry cost, expiry
and what they hold. Planning, and adding or correcting a BOM version, take two steps, because the day
and the versions are read before the transaction (`AskForPlan`, `WritePlan`; `AskForVersion`,
`AddVersion`, `CorrectVersion`). All other steps go by what they read under locks and are one action.
Releasing reserves nothing, and `Elsewhere` is any other document moving the same lots. Four
variables are kept for the properties alone and read by no action's guard: `overnight`, `raised`,
`carried`, `moves` (the last bounds `Elsewhere`).

### Requisitions

One line per requisition. A worker prepares a transfer in four steps, `Ask` and `Read` before the
transaction, `Lock` and `Write` in it, or cancels in two, `BeginCancel` and `Cancel`. The split is where
`ofRequisitions` reads a requisition's transfers: the client library turns its one `findMany` into a
statement for the transfers and one for each relation, in an order that is its own, and the lock of
the requisition's row does not keep a dispatch from committing between them. A transfer dispatched
after its picks and before its status were read is seen as dispatched with nothing (`WithPicks`, the
`seen` of a request). Read in another order, or within one statement, they are what `Read` sees when
nothing came between.

`Within(t)` is what of a transfer was outstanding when it was put in; `NothingSentTwice` says that
this stays within what was asked for. `beyond` keeps what was not: for a new transfer, `Read`
compares the quantity to send, asked for or named, with what is outstanding at that moment (the
`extra` of the request), so someone who names no more than is outstanding sends nothing beyond it.
For a draft that is raised, or dispatched with more than it planned, `TakesOn` compares with what is
outstanding then; and as neither moves the requisition's revision, it also brings up to date what
others are about to send beyond. These are kept for the property alone and read by no guard. A
transfer's dispatch, receipt and reversal are those of `TransferJourney`.

### Abstracted on purpose

- **Database triggers and check constraints** repeat the services' rules (a posted document is
  immutable, a processed sale has an attempt, ...). They are left out, so what holds in the models is
  held by the services alone. Unique keys, foreign keys' waits and row locks, which the services lean
  on, are in; so is `erp_requisition_guard` in `Requisitions`, without which a torn read would cancel a
  requisition whose transfer is on the road (the mutation of `NotServed` shows it).
- Numbers, texts, audit entries, logs, alerts, metrics, HTTP and permissions.
- Decimal arithmetic: quantities are whole numbers of base units. Piece counts.
- Placing several lots under one document line.

## 3. The runs

| Run | Shows | Instance |
|---|---|---|
| `posting_race` | nothing oversold, snapshot is the ledger, reversals pair up, waits climb the lock order, what posts was seen, posted is final; implements `StockLedger` | two documents of three shapes, two reversals, two transactions, three keys of one lot, two days, revisions to 2 |
| `posting_live` | every request ends | three documents that insert the same missing rows, two transactions |
| `posting_deadlock` | *violation*: two postings deadlock | the same |
| `sales` | answered is stored, one story, not before its day, every sale is settled; implements `SaleLifecycle` | one key, three sales that may come under it, two runs and a person, a fault in master data, midnight, one stop |
| `branch_fefo` | a plan is FEFO, a lot the branch had goes below zero only as a stated shortfall | three lots, two expiring together, one there from the start, two processors |
| `transfers_race` | what is in transit is owned on every day, one receipt posts; implements `TransferJourney` | two transfers sharing a lot and a transit location, two receipts, two requests, one death, two days |
| `transfers_judge` | a loss is approved by somebody else, and as they saw it | one transfer, one receipt of five kinds, three people, tolerances that change |
| `purchasing` | never over-received, books agree, nothing bought unapproved, findings approved, clean when posted, submitted as seen; implements `OrderReceiving` | two order lines, two receipts, two people, two requests, one death or change of master data |
| `master_data` | a POS misses nothing, no circle of successors, no save under a version that is not the record's, settings only by who has seen them, circles of waits run through foreign keys | a menu item and the group it links to, two branches, a supplier and settings never saved yet; two people, one POS |
| `master_data_unseen` | *violation*: a save replaces what its form never showed | the same |
| `production` | an order follows its version, outputs trace to their inputs and expire with the first of them, value is conserved | two BOMs, one made of the other's output, two orders, two opening lots, one planner and one cook |
| `requisitions` | nothing is sent twice, what is cancelled is not served | one requisition, two transfers, two workers, quantities of one and two |

**Bounds, and why they are enough.** What the properties are about happens between *two* actors: the
second posting of the last unit, the second reversal, the second receipt. Two transactions or
requests reach every such interleaving; a third document in `posting_live` lets a transaction come
back and take part in a second circle. Quantities are the least that make "enough for one, not for
both" and "enough for both, but not of their own" arise (two units at the plant against shipments of
one and two; three in `transfers_race`, so that one transfer's receipt could take out another's
stock). `MaxRevision`, `MaxHistory`, `MaxStops`, `MaxCrashes`, `MaxEvents`, `LastDay` and
`LastDate`, `MaxArrivals`, `MaxSales`, `MaxVersion`, `MaxCounter`, `MaxVersions`, `MaxElsewhere` are
the bounds on what could go on for ever, each named in its module and used only in guards. Two days
give a before and an after to midnight and to an expiry date.

In `posting_race` the only key that may lack its row is the last in lock order of every document
that touches it, and `WaitsClimb` holds with that reach. `posting_deadlock` is the instance with two
missing rows.

In `purchasing` every delivery carries a reason and none is expired, so that the state space stays
small; refusing for want of a reason is a guard of the single action that submits. Deaths and changes
of master data share one bound.

`production` has two beginnings, so that the two halves of the module need not be multiplied: a
plant without stock where the first BOM gets its versions, and one with stock on the last day, where
orders are worked, chained and reversed and BOMs no longer change. In `requisitions` nothing bounds
what goes beyond what was asked, by choice or unseen: each of the two transfers carries one or two.
The run's `VIEW` leaves out what no step and no property reads: the plan of a transfer that has
left, what the journey keeps for `Transfers`. The needed-by date is there as whether it has passed,
which only a draft's submission asks.

**Deadlock checking.** It is off (`CHECK_DEADLOCK FALSE`) in the branch, transfers, purchasing,
master-data, production and requisitions runs, which are driven by people and deliveries and really
stop: when every document is settled and the bounds are reached, nobody asks for more. It is on in
the posting and sales runs.

**Fairness.** Two specifications state any. `Posting!FairSpec`: strong fairness of each
transaction's progress, because PostgreSQL grants a row lock to its waiters in turn, so a statement
that can proceed again and again does; weak fairness of `BreakDeadlock`, the deadlock detector,
which runs after `deadlock_timeout`. Nothing is assumed of people, of rolling back or of new
requests. `SalesConsumption!FairSpec`: days pass; some replica's timer fires again and again (the
`setInterval` of `BranchConsumptionService.onApplicationBootstrap`); a processor that can take its
next statement takes it, strongly because it competes for row locks. How often processors stop is
bounded, as a system that is killed at each attempt settles nothing.

## 4. What is proved

Eight modules have proofs. Each states an invariant (`Inv`; in `Posting` four, in `MasterData` two,
in layers; `BranchInv` for `BranchStock`) that is inductive, proves that it holds initially and that
each action preserves it, one lemma per action, and derives the theorems from it. Every invariant
was first checked by TLC on the module's run. Of the properties the runs check, the theorems state
all but those of section 5, for every value of the constants that meets the module's assumption: any
number of documents, people, requests, lots, days and quantities; and whatever the bounds are, so
none of them hides a violation further on.

The assumptions are in the modules, and TLC evaluates them on every run: identifiers are disjoint
from one another and from the "none" values; the sets a sum runs over are finite (documents, order
lines, receipts, transfers, orders, items, opening lots, a branch's lots), as a database's tables
are, and so are the people (`MasterData`) and the tolerances an item may come to have
(`Purchasing`); quantities, days and limits are natural numbers; ranks and lot numbers tell rows
apart, as ids do; of a delivery no more is rejected than counted (`REJECTED_MORE_THAN_COUNTED`); a
recipe has an input, and its outputs' parts are positive; a sale needs at least one unit, and there
is a first day.

### SumTheorems

Balances, books, shares and values are sums over finite sets, which the models take from the
community modules: `SumFunctionOnSet`, whose recursion takes members out in an order `CHOOSE` fixes.
The prover can use no induction theorem, as these take the formula as a parameter. `SumTakeOut`,
that any member may be taken out first, is proved by a least counterexample instead: the strict
subset ordering of a finite set is well-founded, so the subsets at which the equation fails, if any,
have a minimal one, and removing a member from it gives a smaller one. From it follow what the other
proofs use: a sum of two functions, a sum with one value changed, over a filtered set, times a
number, under another index (`SumReindex`), exchanged with another sum.

The last section is about what the models take with `CHOOSE`: the last element of a finite set under
a total order (`LastExists`), and the set's sorted list (`SortExists`, `SortCovers`: it is there,
and every member is on it). With these lists in the place of the library's `SetToSortSeq`, whose
definition goes through a comparator no prover here can expand, what a loop over a sorted list
computes is within reach.

### Posting

| Theorem | States | Needs |
|---|---|---|
| `TypeCorrect` | `[]TypeOK` | `TypeInv` |
| `NothingOversold` | `[]NoOversell` | `TypeInv /\ LockInv` |
| `BalancesAreSums` | `[]SnapshotIsLedger` | `TypeInv /\ LockInv`, `Unwritten` |
| `PostedAsSeen` | `PostsWhatWasSeen` | `TypeInv` |
| `PostedStays` | `PostedIsFinal` | `TypeInv` |
| `ReversedOnce` | `[]ReversalsPairUp` | `TypeInv` |
| `Refinement` | `ImplementsStockLedger` | `TypeInv /\ LockInv` |
| `LockOrderHolds` | `[]WaitsClimb`, when every change is `LastOnly` | `TypeInv /\ OrderInv` |
| `OrderedPostingsNeverCircle` | `[]NoDeadlock`, when every change is `LastOnly` and transactions are finitely many | `[]WaitsClimb` |

The argument has four inductive invariants.

- `TypeInv` is `TypeOK` with `DocInv`. `TypeOK` alone is not inductive: that a posting's entries are
  integers, and that its revision stays in range, needs its document to exist and to have a revision
  to spare. `DocInv` says what a request is about (`AsksForDocument`: at the revision the person saw,
  the lines are still what they saw), and that from the moment a transaction has its document's row
  until it ends the document is still as it was when it decided (`DecisionsHold`). The latter is
  where the row lock is used: every step of another transaction, or of a person, that would change
  the document needs the row free. `RevisionToSpare` and `OnlyReversalsReverse` close it under the
  two commits. `PostedAsSeen`, `PostedStays` and `ReversedOnce` follow from it: what
  is written at commit is what was decided under the lock.
- `LockInv` is `NoOversell` with three facts. `ReadsAreLocked`: what a transaction has read of a
  balance is still the balance, because it has held the row since; a row it did not find counts
  nothing. `WritesFit`: what it is about to write passed the check on what it read.
  `WritesAreLocked`: it holds every key it has written. The step that could oversell is the upsert
  of a row that did not exist when it was looked for and has been inserted since: the check counted
  zero there, and what is there is not negative, so what fits on zero fits on it (`WriteFits`).
  Without `NoOversell` inside the invariant that step cannot be justified.
- `Unwritten /\ SnapshotIsLedger`: until it writes a row, a transaction has written nothing, and the
  balances are the sums of the entries. The step that matters is the commit. What it adds to the
  balances is what it wrote, the entries it adds are what it decided, and under the document's lock
  these are one function; the document had no entries before, so every key's sum gains exactly that.
- `OrderInv`: the rows there were at the start are still there; a transaction holds none before it
  looks for its rows; what it has comes before what it still wants (`InOrder`); and until it has
  locked what it found, every key it touches that had a row from the start is had or still wanted,
  so that only a key without one is left to insert. That is what `lockOrder` is for, and why it
  takes an assumption about missing rows: an insert comes after all the locks. `LastOnly(c)` says
  what is needed and no more: of the keys a change touches, only the last in lock order may lack a
  row. A receipt into a location where every other key is known meets it, and rows may be inserted
  by several at once; two missing rows in one document do not (section 6). From `WaitsClimb` it
  follows that waits never close a circle: of the finitely many that wait in one, some wait for the
  row that is last in the order, and whoever holds that waits for a later one.

`Refinement` maps a document that is neither absent nor posted to "open", and its lines to its
entries once it is posted; every step is a `Write`, a `Post`, a `Reverse` or a stutter (`StepMaps`).

No invariant says anything of the database's deadlock detection or of fairness; they hold whoever is
rolled back, and whenever.

### Purchasing

| Theorem | States |
|---|---|
| `TypeCorrect` | `[]TypeOK` |
| `NothingOverReceived` | `[]NeverOverReceived` |
| `BooksAlwaysAgree` | `[]BooksAgree` |
| `BoughtWithApproval` | `[]NothingBoughtUnapproved` |
| `FindingsSeen` | `[]FindingsApproved` |
| `CleanReceiptsAreClean` | `CleanWhenPosted` |
| `SubmitsWhatWasSeen` | `SubmittedAsSeen` |
| `OrderIsReceived` | `ImplementsOrderReceiving` |

`Inv` is the type invariant with the three properties of receiving, and what makes them inductive.
`RequestInv` says what each place in a request knows: from its first lock the receipt is as the
person saw it; from the order's lock on nobody else writes the order; and what was decided under
that lock (`DecisionHolds`) is still true at the write, although limits may have moved since: it is
stated with the *loosest* limit an item may come to have, which is what `NeverOverReceived`
promises. `OrderInv` ties the order's status to its approval and to what has been received: `Gross`
may be counted again only while nothing is posted. `ReceiptInv` keeps the approver apart from the
creator. `SubmitsWhatWasSeen` needs two facts: from a draft a receipt goes on only by a submission,
from the revision on the page (`DraftLeavesAsSeen`), and no step that writes a delivery finds a
receipt that has left its draft (`SubmittedStays`). The refinement sums the lots over the receipts;
the abstract lines (`least`) are settled when the order is agreed on and change no more.

### Transfers

| Theorem | States |
|---|---|
| `TypeCorrect` | `[]TypeOK` |
| `ReceivedOnce` | `[]OneReceiptPosts` |
| `LossNeedsApproval` | `[]LossIsApproved` |
| `ApprovesWhatWasSeen` | `ApprovedAsSeen` |
| `InTransitAlwaysOwned` | `[]InTransitIsOwned` |
| `TransferIsAJourney` | `ImplementsTransferJourney` |

Here the ledger's entries are the state the properties read, and the status columns are what the
code decides by. `TransferStands` and `ReceiptStands` say that the one follows from the other: an
unposted document has no entries, a reversed transfer has the opposite of its entries and no
receipt, a posted receipt is the one its transfer names. With them each property is a matter of
statuses. What is in transit on a day is then a sum over documents, reindexed as a sum over
transfers (`SumReindex`: a receipt stands for its transfer), because entries are dated and a receipt
or a reversal is dated no earlier than what it ends. `RequestInv` has the locks: two requests cannot
both have decided to receive a transfer, because both would hold its row.

### SalesConsumption

| Theorem | States |
|---|---|
| `AnsweredStaysStored` | `[]AnsweredIsStored` |
| `OneStory` | `[]StoriesAgree` |
| `ConsumedOnItsDay` | `[]NeverBeforeItsDay` |
| `SalesLiveOnce` | `ImplementsSaleLifecycle` |

`Story(e)` is one event's status, last attempt, document and stock taken, as they agree *between*
the two transactions of a sale as well as after them: a draft exists only while the event is
received and its last attempt, if any, asked for another. `Holds(w)` is what a processor relies on
from its claim to its commit; the day it goes by, read at any time before, is no later than today
(`Types`), so that what it finds due is due. Nothing is said of the lists a run keeps: whatever it
takes up, however stale, the event's lock, its status and its draft decide, which is why runs and
people may overlap in any way.

### BranchStock

| Theorem | States |
|---|---|
| `BranchInvariant` | `[]BranchInv`, and with it `[]BranchTypeOK` |
| `SalesTakeByFefo` | `[]PlanIsFefo` |
| `ShortfallsAreTold` | `KnownLotsAreTold` |

They are the second half of `SalesProofs`, which extends both modules of the component; that is why the
names of `BranchStock` (`BranchSpec`, `phase`, `LastDate`) are apart from those of `SalesConsumption`.

The first half is about one call of `allocateAtBranch`, whatever the lots. FEFO's order tells any
two lots apart (`FefoIsOrder`), so the list of lots exists and has each once (`FefoListed`).
`Remaining` is a recursive function over the list: that there is one (`RemainsExists`), that it
shrinks by what each lot can give (`RemainsShrinks`), that it never grows again (`RemainsDescends`)
and that the lots together give what it went down by (`PicksSum`) are each proved by the smallest
position that would refute them. `FefoPicks` says what follows of `fefoPick`, `AllocationIsFefo` of
`allocateAtBranch` with the rest on one place.

The second half is the branch. `BranchInv` is `BranchTypeOK` with three facts. `LockedInv`: the rows
a consumer found and locked are its own. `ReadInv`: what it read of those lots is still their
balance, because receipts, adjustments and other sales' postings need the row free or their own.
`PlannedInv`: its plan is what `allocateAtBranch` makes of what it read. So without a shortfall it
takes no more of such a lot than there is, and the balance stays at zero or above. A lot whose row
appeared after the lock statement is not among them (section 6), which is why the property is about
`locked`.

### Requisitions

| Theorem | States |
|---|---|
| `NothingGoesTwice` | `[]NothingSentTwice` |
| `CancelledStaysUnserved` | `[]CancelledIsUnserved` |

`Net(q)` is what of a requisition's transfers was outstanding when they were put in, as one sum over
all transfers, and `Demand(q)` all that they take up. `Inv` says that `Net` stays within what was
asked for (`RequisitionInv`), that no transfer has more within than it takes up (`TransferInv`), and
that what somebody is about to send still fits, but for its `extra`, *as long as* the requisition is
at the revision they read (`Fits`). Each step that could use up what they counted on either moves
the revision (another's write, an edit of the requisition), or gives up what it had (a cancelled or
reversed transfer), or is one that `TakesOn` accounts for, because nobody else notices it. What is
outstanding fits on top of `Net` because `Net` is at most `Demand` (`SumAtMost`), and so does a
quantity of which it is the whole but for its `extra` (`Room`); a raise adds to `Net` no more than
was outstanding (`Raise`). `HoldsApart` is the row's lock.

### MasterData

| Theorem | States |
|---|---|
| `NeverACycle` | `[]NoSupersedeCycle` |
| `OverwritesOnlyTheNamed` | `OverwritesWhatItNames` |
| `SettingsSeen` | `SettingsReplacedAreSeen` |
| `OnlyLinksCircle` | `[]CirclesRunThroughLinks` |
| `NothingPassedOver` | `[]MirrorIsPrefix` |

A supersede writes a successor only where neither branch has one, and holds both rows from that
check to the write (`Found`, `HolderInv`). So the new edge leads from a branch to one that has none,
and no closed set of branches, each superseded by another, can appear: `NoSupersedeCycle` excludes
cycles of any length. `OnlyLinksCircle`: in a circle without links everyone holds a row and waits for
one of a higher rank (`HolderInv`: rows are taken by rank, the counter after all of them), so from
each request to the one it waits for the rank of the wanted row climbs. Of finitely many requests one
wants the highest (`GreatestExists`), and nobody is left for it to wait for.

`NothingPassedOver` has an invariant of its own beside `Inv`, `FollowInv`. `LogInv`: no row of the
log has a version above the counter, no two have the same, and who is to write the next one holds
the counter's lock until it commits. So a version that commits is above every version a POS can have
reached: that is what the lock is held for (the mutant `TakeAndLetGo` lets it go). `MirrorInv`: a
POS has come no further than the counter. For a page, by the smallest position that would refute it:
after the first i changes the POS keeps, of every record, the last that was said of it up to the
i-th version; a record no change on the page names keeps what it had, and nothing lies between the
page's versions that is not on the page, because the page is the beginning of the sorted list.

### Production

| Theorem | States |
|---|---|
| `OrderFollows` | `[]OrderFollowsItsVersion` |
| `TracesAlwaysReach` | `[]TracesReach` |
| `NothingLastsLonger` | `[]NothingOutlivesItsInputs` |
| `ValueAlwaysConserved` | `[]ValueConserved` |

`Inv` has, besides two of the properties and the types:

- `VersionInv`: while its day lasts, what a request read of a BOM is still what the BOM says
  (`RequestInv`): no version is added at or before a day that has come, and none in effect is
  corrected, unless midnight overtook the request. A planned order agrees with its version for good
  (`PlanInv`).
- `RowsInv` and `LinksInv`: an order's lots have a row once it has posted, and links are of orders that
  have. So posting an order adds links only to lots that nothing was made of yet, and expiries that
  were compared do not change.
- `NetInv`: a lot that no other document brought stock into holds no more than the standing orders
  made and took of it. `TracesReach` follows: were the order that made the lot reversed and one that
  took of it standing, the lot would hold less than nothing. This is where the exception (`raised`)
  shows itself: with it, the balance no longer bounds what was taken.
- `WorthInv`: what an order put in, times the lots' costs, is what it took out and its rounding. It
  is proved at posting from the exact shares of the cost, kept because a posted lot's cost does not
  change, and needed at reversal, which must take out exactly what posting put in. `ValueConserved`
  is then an exchange of two sums.

### What the proofs found

- The mapping of a sale onto `SaleLifecycle` (`Life`) was a `CASE` with overlapping arms, which means
  whichever the tool takes first; it is now a function of the sale's status and last attempt.
- `NoSupersedeCycle` spoke of circles of two, less than what the code keeps; it now speaks of circles of
  any length.
- `OrderReceiving` took what completes a line as a constant operator, but a draft's lines may still be
  edited. It is now a variable, `least`, that only `Ask` changes, and `Purchasing` maps it.
- `TypeOK` of `Purchasing` and `Transfers` leaned on facts about constants that nothing
  stated (finite sets, nothing rejected that was not counted); they are now assumptions.
- `BranchStock` leaned on as much (finitely many lots, a first day), and its type invariant said of what
  `lotsAt` returned only that its values are positive; it now says for which lots.
- `WaitsClimb` was first proved where every row exists. What the argument needs is less: that no
  document lacks a row other than its last (`LastOnly`), which is also where the code's claim about
  deadlocks ends.

## 5. What is only model-checked

- **Liveness**, `EveryRequestEnds` and `EverySaleIsSettled`: fairness and ENABLED are out of the
  prover's reach.
- **Postings that insert two rows, or one that is not the last in lock order**: `WaitsClimb` and
  `NoDeadlock` are proved where every change is `LastOnly`. Elsewhere `NoDeadlock` does not hold
  (section 6), and what does, that every request still ends, is liveness.

Every other property that a passing run checks is stated by a theorem.

## 6. Where the code and its documents part

Two runs end in a violation on purpose, each of a sentence of the repository:

- `posting_deadlock`: "two postings touching the same lots wait for each other instead of
  deadlocking" (`posting-rules.ts`, `lockOrder`). The order covers the rows that exist, and the rows
  to insert are sorted by it too, but each posting locks what it found before it inserts. A posting
  that found neither of two rows inserts the first and waits for the second, which was inserted
  meanwhile and is held by a posting that found it, and now waits to insert the first. PostgreSQL
  ends one, nothing is lost, and `posting_live` shows that the request ends.
- `master_data_unseen`: an update is "refused when `dto.version` is not the item's current version:
  someone else changed it since the editor loaded it" (`items.service.ts:373`). The form is mounted
  under the record's id, keeps its fields when a refused save fetches the list again, and sends the
  version of the list: the second press of Save is accepted. Suppliers, locations, menu items and
  modifier groups do the same; the company settings do not (`SettingsReplacedAreSeen`).

Met while modelling. Where a property holds only but for one of these, it says so, and the case is
counted by a variable of its own; without it TLC finds the violation.

- *Torn reads of transfers* (`transfers.service.ts:816`). Someone asks for a transfer of what is
  outstanding while another transfer of the requisition is dispatched between the statements that
  read it: it counts as sent, with nothing, and its quantity is sent again. The guard does not
  notice, as a dispatch does not move the requisition's revision. ADR-0029 and the comment on
  `createTransfer` say that two people "do not both send what was outstanding". `NothingSentTwice`
  excepts it (the `extra` of `Read`); without the exception it is violated after eleven steps.
- *Unseen raises* (`transfers.service.ts:437`). A draft transfer's lines may be raised, or its lots be
  picked for more than its lines say, between somebody's reading of what is outstanding and their
  write: it does not move the requisition's revision, and both send the same units.
  `NothingSentTwice` excepts it (`TakesOn`); without, violated after twelve steps.
- *Midnight* (`production-orders.service.ts:381`, `production-boms.service.ts:355`, `411`; the menu's
  recipes and prices too). The day is read before the transaction: a version that "never changes"
  once in effect may be corrected, or replaced, by a request that midnight overtakes.
  `OrderFollowsItsVersion` excepts such requests (`overnight`); without, violated after eight steps.
- *The lot of a reversed order* (`production-orders.service.ts:679`). A reversal is refused when an
  output "has moved on", which is judged by the balance alone: another document that brought as much
  back hides it, and the genealogy drops out of traces. `TracesReach` excepts lots that were topped
  up (`raised`); without, violated after thirteen steps.
- *A draft transfer's lines* (`transfers.service.ts:437`). ADR-0029 decision 5 says a requisition's
  transfer carries only items it asks for; `createTransfer` checks that, editing the draft does not.
- *Suggestions* (`requisitions.service.ts:841`). The balance and what is on the road are read at the
  same moment in two statements; a receipt that posts between is in neither, and the stock is
  suggested again, though `transfers.service.ts:788` says it is not.
- *The first save of the settings* (`company.service.ts:92`, "two admins saving at once cannot both
  pass the revision check"). Before the row exists there is nothing to lock: both pass at revision 0.
- *First use of a branch's code* (`locations.service.ts:341`, GLOSSARY: the first posted document "or
  the first POS pull" fixes it). Only posting calls `markFirstUse` (`ledger.service.ts:791`).
- *Two processors and one lot* (`ledger.service.ts:555`, "rather than both taking one lot"). A lot
  that arrives at a branch that never held the item, after the lock statement has looked, is read
  and taken by both. The branch's balance goes below zero, which a branch's may.
- *A delivery turned away whole* "does not start receiving the order, which can still be cancelled"
  (`goods-receipt-rules.ts:244`). With a variance limit of 100 percent it makes the order received,
  for good (line 251).
- *A measured weight of zero* passes the checks of an order, has no actual yield, and fails the
  posting at `production_orders_yields_together` with a raw database error.
- The balance judged is today's whatever the business date, so stock as of a past day may be negative
  at a plant (`ledger.service.ts:1393`).
- A person's re-process is committed before their own attempt claims the sale, so a run may claim it
  first and post it as the automatic account (`branch-consumption.service.ts:176`; the comment at 142
  says "tried at once as that person").
- A receipt of a transfer that is being reversed may be approved, because approval reads the transfer
  without its lock (`transfer-receipts.service.ts:417`); posting refuses it, and it stays approved.

## 7. What is not modelled, and why

- Stock adjustments and opening balances: one document each, whose posting is `Posting`'s and whose
  approval is that of purchasing.
- Of production: measured weights, yields and the limits on them, deactivated BOMs. Of requisitions:
  several items, suggestions, par levels, par misses. Of the menu: what a recipe says and how it is
  exploded into ingredients. Of a POS: its registration and key.
- Identity and sessions: what could go wrong there is mostly a matter of security and shares no
  state with stock. Its one invariant over several records, that an administrator is always left,
  may be broken by two who remove each other at once (`users.service.ts:174`).
- Writes of an item that move no version (its tolerances and requisition unit,
  `items.service.ts:193`, `242`): `Purchasing` changes the tolerances under the orders; `MasterData`
  leaves them out.
- The rebuild of balances, which locks the whole table while postings hold rows of it; reading stock
  as of a date; placeholder lots' creation, whose order is the lines' and can deadlock as in
  `posting_deadlock`; piece counts, which are summed and never checked.
- Audit, document numbers, configuration, HTTP, telemetry, health, and the console's other pages:
  plumbing, or pure.
- The schema's triggers: see "Abstracted on purpose".

## 8. Plan

1. *Done.* `Posting` with `StockLedger`; `SalesConsumption`, `BranchStock`, `Transfers`, `Purchasing`,
   each composed with it; `MasterData`, `Production`, `Requisitions`.
2. *Proofs.* Done for every module, but for liveness.
3. `BranchStock` with two items and placeholder lots; `Posting` with the rebuild of balances.
4. `Requisitions` with balances and suggestions.
5. `Adjustments`: submit, approve and post, as a third user of the approval rule.
