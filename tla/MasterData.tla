------------------------------ MODULE MasterData ------------------------------
(***************************************************************************)
(* Master data: how people change it from the console's pages, and how     *)
(* POS instances follow it.                                                *)
(*                                                                         *)
(* A page fills a form from the list it has fetched.  Saving sends the     *)
(* record's version as the page has it by then, which may be newer than    *)
(* what the form was filled from: when the list is fetched again, a form   *)
(* keyed by the record's id stays as it is, and one keyed by the record's  *)
(* revision is filled again (the company settings; in the console, stock    *)
(* documents too).                                                         *)
(*                                                                         *)
(* The service locks the record's row, compares the version, and writes;   *)
(* most kinds then take the next company-wide version, whose row stays     *)
(* locked until they commit, and append the change to a log.  A POS asks   *)
(* for the changes after the last version it has applied.                  *)
(*                                                                         *)
(* What a record says is left out but for whether it is in use and what    *)
(* has superseded it: its version stands for the rest.                     *)
(***************************************************************************)
EXTENDS Integers, Sequences, FiniteSets, FiniteSetsExt, SequencesExt, Functions

CONSTANTS
  Records,      \* items, menu items, modifier groups, branches, suppliers, settings
  Kind,         \* what each of them is
  Existing,     \* the records that are there at the start
  Rank,         \* the order of the records' ids
  Editors,      \* people at a console, each with one page and one request
  Tills,        \* POS instances
  Limit,        \* how many changes a page of the log holds
  MaxVersion,   \* bound: a record at this version is no longer edited
  MaxCounter,   \* bound: no request starts when the log is this long
  NoRecord, NoEditor

Kinds == {"item", "group", "menu_item", "branch", "supplier", "settings"}

ASSUME MasterDataAssumption ==
  /\ IsFiniteSet(Editors)
  /\ Kind \in [Records -> Kinds]
  /\ Existing \subseteq Records
  /\ Rank \in [Records -> Nat]
  /\ \A r, s \in Records : Rank[r] = Rank[s] => r = s
  /\ NoRecord \notin Records /\ NoEditor \notin Editors
  /\ Limit \in Nat \ {0}
  /\ {MaxVersion, MaxCounter} \subseteq Nat

VARIABLES
  \* The tables, as committed.
  version,     \* the version or revision an editor must name; 0 where there is no row
  active,      \* whether the record is in use
  successor,   \* locations.superseded_by_id
  counter,     \* master_data_version.version
  log,         \* master_data_changes, a set of rows with distinct versions
  \* Locks, to the end of the transaction that took them.
  rowLock,     \* SELECT ... FOR UPDATE of a record's row
  shareLock,   \* who holds the row for a foreign key (FOR KEY SHARE)
  counterLock, \* who has taken the next version
  \* The consoles.
  page,        \* the form that is open: its record, what filled it, what the list says now
  pc,          \* where the request is
  req,         \* what was asked
  todo,        \* rows the request has still to lock
  \* The POS instances, which keep what they have applied.
  cursor,      \* the last version applied
  mirror       \* each record, as last applied

tables == <<version, active, successor, counter, log>>
locks == <<rowLock, shareLock, counterLock>>
requests == <<pc, req, todo>>
pos == <<cursor, mirror>>
vars == <<tables, locks, page, requests, pos>>

------------------------------------------------------------------------------
(* Records, pages and requests *)

Exists(r) == version[r] > 0

\* Suppliers and settings are the ERP's own; the rest is mirrored by a POS.
Logged(r) == Kind[r] \notin {"supplier", "settings"}

\* The company settings are not created by anyone: the first save inserts them.
Creatable(r) == Kind[r] # "settings"

\* What a POS is told of a record.
Told(r) == [active |-> active[r], successor |-> successor[r]]
Untold == [active |-> FALSE, successor |-> NoRecord]

NoPage == [rec |-> NoRecord, filledFrom |-> 0, shown |-> 0]
NoRequest == [kind |-> "none", rec |-> NoRecord, other |-> NoRecord, version |-> 0,
              filledFrom |-> 0, taken |-> 0]

\* Mutant: every form is keyed by the record's id.
FilledOnce(p, v) == [p EXCEPT !.shown = v]

\* The list is fetched again while the form is open.
Refetched(p, v) ==
  IF Kind[p.rec] = "settings" THEN [p EXCEPT !.shown = v, !.filledFrom = v]
  ELSE [p EXCEPT !.shown = v]

\* A menu item is saved with rows that point at its modifier groups.
LinkedGroups(r) == {g \in Records : Kind[g] = "group" /\ Kind[r] = "menu_item"}

\* What the rows a request inserts point at; a price is a row of its own.
Linked(q) ==
  CASE q.kind = "price" -> {q.other}
    [] q.kind \in {"edit", "create"} -> LinkedGroups(q.rec)
    [] OTHER -> {}

Init ==
  /\ version = [r \in Records |-> IF r \in Existing THEN 1 ELSE 0]
  /\ active = [r \in Records |-> r \in Existing]
  /\ successor = [r \in Records |-> NoRecord]
  /\ counter = 1
  /\ log = {}
  /\ rowLock = [r \in Records |-> NoEditor]
  /\ shareLock = [r \in Records |-> {}]
  /\ counterLock = NoEditor
  /\ page = [e \in Editors |-> NoPage]
  /\ pc = [e \in Editors |-> "idle"]
  /\ req = [e \in Editors |-> NoRequest]
  /\ todo = [e \in Editors |-> {}]
  /\ cursor = [p \in Tills |-> 1]
  /\ mirror = [p \in Tills |-> [r \in Records |->
       IF r \in Existing /\ Logged(r) THEN [active |-> TRUE, successor |-> NoRecord] ELSE Untold]]

------------------------------------------------------------------------------
(* The console *)

OpenForm(e, r) ==
  /\ page[e] = NoPage /\ pc[e] = "idle"
  /\ Exists(r) \/ ~Creatable(r)
  /\ version[r] < MaxVersion /\ counter < MaxCounter
  /\ page' = [page EXCEPT ![e] = [rec |-> r, filledFrom |-> version[r], shown |-> version[r]]]
  /\ UNCHANGED <<tables, locks, requests, pos>>

\* Invalidated by a refused save, by another save, or on reconnecting.
Refetch(e) ==
  /\ page[e] # NoPage /\ pc[e] = "idle"
  /\ page[e].shown # version[page[e].rec]
  /\ page' = [page EXCEPT ![e] = Refetched(@, version[@.rec])]
  /\ UNCHANGED <<tables, locks, requests, pos>>

CloseForm(e) ==
  /\ page[e] # NoPage /\ pc[e] = "idle"
  /\ page' = [page EXCEPT ![e] = NoPage]
  /\ UNCHANGED <<tables, locks, requests, pos>>

\* Mutant: the rows are locked in the order the request names them.
AsNamed(e, r) == r \in todo[e] /\ (req[e].rec \in todo[e] => r = req[e].rec)

\* Both rows of a supersede, in a fixed order.
FirstRow(e, r) == r \in todo[e] /\ \A s \in todo[e] : Rank[r] <= Rank[s]

\* Mutant: only the row of the record itself is locked.
OnlyItself(q) == {q.rec}

RowsToLock(q) == IF q.kind = "supersede" THEN {q.rec, q.other} ELSE {q.rec}

Request(e, at, q) ==
  /\ pc[e] = "idle"
  /\ pc' = [pc EXCEPT ![e] = at]
  /\ req' = [req EXCEPT ![e] = q]
  /\ todo' = [todo EXCEPT ![e] = IF at = "lock" THEN RowsToLock(q) ELSE {}]
  /\ UNCHANGED <<tables, locks, page, pos>>

\* Save, deactivate or reactivate, or supersede a branch, from the open form.
Submit(e) ==
  LET asked(kind, other) ==
        [kind |-> kind, rec |-> page[e].rec, other |-> other,
         version |-> page[e].shown, filledFrom |-> page[e].filledFrom, taken |-> 0]
  IN
  /\ page[e] # NoPage
  /\ \/ Request(e, "lock", asked("edit", NoRecord))
     \/ /\ Kind[page[e].rec] # "settings"
        /\ Request(e, "lock", asked("toggle", NoRecord))
     \/ \E s \in Records \ {page[e].rec} :
          /\ Kind[page[e].rec] = "branch" /\ Kind[s] = "branch" /\ Exists(s)
          /\ Request(e, "lock", asked("supersede", s))

\* A new record; or a menu item's price at a branch, which names no version.
Create(e, r) ==
  /\ page[e] = NoPage /\ Creatable(r) /\ ~Exists(r) /\ counter < MaxCounter
  /\ Request(e, IF Logged(r) THEN "counter" ELSE "write",
             [NoRequest EXCEPT !.kind = "create", !.rec = r])

SetPrice(e, m, b) ==
  /\ page[e] = NoPage /\ counter < MaxCounter
  /\ Kind[m] = "menu_item" /\ Exists(m)
  /\ Kind[b] = "branch" /\ Exists(b) /\ active[b]
  /\ Request(e, "lock", [NoRequest EXCEPT !.kind = "price", !.rec = m, !.other = b])

------------------------------------------------------------------------------
(* The service *)

\* The transaction is over.  A saved form closes; a refused one stays open.
End(e, saved) ==
  /\ pc' = [pc EXCEPT ![e] = "idle"]
  /\ req' = [req EXCEPT ![e] = NoRequest]
  /\ todo' = [todo EXCEPT ![e] = {}]
  /\ page' = IF saved THEN [page EXCEPT ![e] = NoPage] ELSE page
  /\ rowLock' = [r \in Records |-> IF rowLock[r] = e THEN NoEditor ELSE rowLock[r]]
  /\ shareLock' = [r \in Records |-> shareLock[r] \ {e}]
  /\ counterLock' = IF counterLock = e THEN NoEditor ELSE counterLock

Refuse(e) == End(e, FALSE) /\ UNCHANGED <<tables, pos>>

\* Mutant: the row is read without FOR UPDATE.
Read(e, r) ==
  /\ todo' = [todo EXCEPT ![e] = @ \ {r}]
  /\ UNCHANGED rowLock

\* SELECT ... FOR UPDATE; where there is no row there is nothing to lock.
TakeRow(e, r) ==
  /\ rowLock[r] = NoEditor /\ shareLock[r] \subseteq {e}
  /\ todo' = [todo EXCEPT ![e] = @ \ {r}]
  /\ rowLock' = IF Exists(r) THEN [rowLock EXCEPT ![r] = e] ELSE rowLock

LockRow(e, r) ==
  /\ pc[e] = "lock" /\ FirstRow(e, r)
  /\ TakeRow(e, r)
  /\ UNCHANGED <<tables, shareLock, counterLock, page, pc, req, pos>>

\* Not twice, and only by a branch that is in use.
SupersedeProblem(r, s) ==
  \/ successor[r] # NoRecord
  \/ ~active[s] \/ successor[s] # NoRecord

\* A superseded branch stays out of use.
EditProblem(r, becomesActive) == becomesActive /\ successor[r] # NoRecord

Problem(q) ==
  \/ q.kind # "price" /\ version[q.rec] # q.version
  \/ q.kind = "supersede" /\ SupersedeProblem(q.rec, q.other)
  \/ q.kind = "toggle" /\ EditProblem(q.rec, ~active[q.rec])

\* A save that changes nothing, or sets the price there is, writes nothing.
Decide(e) ==
  /\ pc[e] = "lock" /\ todo[e] = {}
  /\ \/ Problem(req[e]) /\ Refuse(e)
     \/ /\ ~Problem(req[e]) /\ req[e].kind \in {"edit", "price"} /\ Kind[req[e].rec] # "settings"
        /\ End(e, TRUE)
        /\ UNCHANGED <<tables, pos>>
     \/ /\ ~Problem(req[e])
        /\ pc' = [pc EXCEPT ![e] =
             IF Logged(req[e].rec) THEN "counter"
             ELSE IF Kind[req[e].rec] = "settings" THEN "upsert" ELSE "write"]
        /\ UNCHANGED <<tables, locks, page, req, todo, pos>>

\* Mutant: the version is taken in a transaction of its own.
TakeAndLetGo(e) == counterLock' = counterLock /\ counter' = counter + 1

\* UPDATE ... RETURNING: the row stays locked, and others read the old number.
TakeVersion(e) ==
  /\ counterLock = NoEditor
  /\ counterLock' = e
  /\ counter' = counter

\* MasterDataService.nextVersion
NextVersion(e) ==
  /\ pc[e] = "counter"
  /\ TakeVersion(e)
  /\ req' = [req EXCEPT ![e].taken = counter + 1]
  /\ pc' = [pc EXCEPT ![e] = "link"]
  /\ todo' = [todo EXCEPT ![e] = {g \in Linked(req[e]) : Exists(g)}]
  /\ UNCHANGED <<version, active, successor, log, rowLock, shareLock, page, pos>>

\* A row inserted with a foreign key holds the row it points at.
Link(e, r) ==
  /\ pc[e] = "link" /\ r \in todo[e]
  /\ rowLock[r] \in {NoEditor, e}
  /\ shareLock' = [shareLock EXCEPT ![r] = @ \cup {e}]
  /\ todo' = [todo EXCEPT ![e] = @ \ {r}]
  /\ UNCHANGED <<tables, rowLock, counterLock, page, pc, req, pos>>

Ready(e, kind) == pc[e] = "link" /\ todo[e] = {} /\ req[e].kind = kind

\* MasterDataService.append: the record as it is now written.
Record(e, r, now) ==
  /\ counter' = req[e].taken
  /\ log' = log \cup {[version |-> req[e].taken, rec |-> r, now |-> now]}
  /\ End(e, TRUE)
  /\ UNCHANGED pos

\* Items, menu items and groups carry the log's version; a branch counts its own.
NewVersion(e, r) == IF Kind[r] = "branch" THEN version[r] + 1 ELSE req[e].taken

CommitEdit(e) ==
  LET r == req[e].rec IN
  /\ Ready(e, "edit")
  /\ version' = [version EXCEPT ![r] = NewVersion(e, r)]
  /\ UNCHANGED <<active, successor>>
  /\ Record(e, r, Told(r))

CommitToggle(e) ==
  LET r == req[e].rec IN
  /\ Ready(e, "toggle")
  /\ version' = [version EXCEPT ![r] = NewVersion(e, r)]
  /\ active' = [active EXCEPT ![r] = ~@]
  /\ UNCHANGED successor
  /\ Record(e, r, [Told(r) EXCEPT !.active = ~@])

CommitSupersede(e) ==
  LET r == req[e].rec IN
  /\ Ready(e, "supersede")
  /\ version' = [version EXCEPT ![r] = @ + 1]
  /\ active' = [active EXCEPT ![r] = FALSE]
  /\ successor' = [successor EXCEPT ![r] = req[e].other]
  /\ Record(e, r, [active |-> FALSE, successor |-> req[e].other])

\* The price is a row of its own: the menu item's version stays.
CommitPrice(e) ==
  /\ Ready(e, "price")
  /\ UNCHANGED <<version, active, successor>>
  /\ Record(e, NoRecord, Untold)

\* A code that is taken is refused when the row is inserted.
CommitCreate(e) ==
  LET r == req[e].rec IN
  /\ Ready(e, "create")
  /\ IF Exists(r) THEN Refuse(e)
     ELSE /\ version' = [version EXCEPT ![r] = NewVersion(e, r)]
          /\ active' = [active EXCEPT ![r] = TRUE]
          /\ UNCHANGED successor
          /\ Record(e, r, [active |-> TRUE, successor |-> NoRecord])

WriteUnlogged(e) ==
  /\ version' = [version EXCEPT ![req[e].rec] = @ + 1]
  /\ UNCHANGED <<successor, counter, log, pos>>
  /\ End(e, TRUE)

CommitSupplier(e) ==
  LET r == req[e].rec IN
  /\ pc[e] = "write"
  /\ IF req[e].kind = "create" /\ Exists(r) THEN Refuse(e)
     ELSE /\ active' = [active EXCEPT ![r] = req[e].kind = "create" \/ (@ # (req[e].kind = "toggle"))]
          /\ WriteUnlogged(e)

\* The upsert of the settings looks for the row, and then inserts or updates it.
Upsert(e) ==
  /\ pc[e] = "upsert"
  /\ pc' = [pc EXCEPT ![e] = IF Exists(req[e].rec) THEN "update" ELSE "insert"]
  /\ UNCHANGED <<tables, locks, page, req, todo, pos>>

CommitSettings(e) ==
  /\ \/ pc[e] = "update" /\ rowLock[req[e].rec] \in {NoEditor, e}
     \/ pc[e] = "insert"
  /\ IF pc[e] = "insert" /\ Exists(req[e].rec) THEN Refuse(e)
     ELSE active' = [active EXCEPT ![req[e].rec] = TRUE] /\ WriteUnlogged(e)

\* e waits for a row, or for the counter, that f holds.
WaitsFor(e, f) ==
  \/ pc[e] = "lock" /\ \E r \in todo[e] :
       FirstRow(e, r) /\ (rowLock[r] = f \/ f \in shareLock[r] \ {e})
  \/ pc[e] = "counter" /\ counterLock = f
  \/ pc[e] = "link" /\ \E r \in todo[e] : rowLock[r] = f /\ f # e
  \/ pc[e] = "update" /\ f # e /\ rowLock[req[e].rec] = f

Circular(S) == S # {} /\ \A e \in S : \E f \in S : WaitsFor(e, f)

\* The database finds a circle and ends one of its transactions.
BreakDeadlock(e) ==
  /\ \E S \in SUBSET Editors : e \in S /\ Circular(S)
  /\ Refuse(e)

Serve(e) ==
  \/ \E r \in Records : LockRow(e, r) \/ Link(e, r)
  \/ Decide(e) \/ NextVersion(e)
  \/ CommitEdit(e) \/ CommitToggle(e) \/ CommitSupersede(e) \/ CommitPrice(e) \/ CommitCreate(e)
  \/ CommitSupplier(e) \/ Upsert(e) \/ CommitSettings(e)
  \/ BreakDeadlock(e)

------------------------------------------------------------------------------
(* The POS instances *)

\* The changes after version v.
Since(v) == {c \in log : c.version > v /\ c.version <= counter}

\* Rows of the log, in the order of their versions.
ByVersion(S) ==
  CHOOSE s \in [1 .. Cardinality(S) -> S] :
    \A i, j \in 1 .. Cardinality(S) : i < j => s[i].version < s[j].version

\* MasterDataService.changesSince: the counter and the rows in one snapshot.
ChangesSince(v) ==
  LET rows == ByVersion(Since(v))
  IN  SubSeq(rows, 1, IF Len(rows) > Limit THEN Limit ELSE Len(rows))

\* A POS puts what a change says in the place of what it had.
Apply(m, c) == IF c.rec = NoRecord THEN m ELSE [m EXCEPT ![c.rec] = c.now]

ApplyAll(m, changes) == FoldLeft(Apply, m, changes)

\* The POS applies the page in order and keeps the last version of it; an
\* answer that is lost leaves it where it was, to ask again.
Pull(p) ==
  LET changes == ChangesSince(cursor[p]) IN
  /\ changes # <<>>
  /\ mirror' = [mirror EXCEPT ![p] = ApplyAll(@, changes)]
  /\ cursor' = [cursor EXCEPT ![p] = Last(changes).version]
  /\ UNCHANGED <<tables, locks, page, requests>>

Edit(e) ==
  \/ \E r \in Records : OpenForm(e, r) \/ Create(e, r) \/ \E b \in Records : SetPrice(e, r, b)
  \/ Refetch(e) \/ CloseForm(e) \/ Submit(e)

Next ==
  \/ \E e \in Editors : Edit(e) \/ Serve(e)
  \/ \E p \in Tills : Pull(p)

Spec == Init /\ [][Next]_vars

------------------------------------------------------------------------------
(* Properties *)

\* What a POS keeps of a record is what the log last said of it, of all that
\* was said up to the version the POS asks from: no change is passed over,
\* whatever order the writers commit in (the header of MasterDataService).
MirrorIsPrefix ==
  \A p \in Tills, r \in Records :
    LET told == {c \in log : c.rec = r /\ c.version <= cursor[p]} IN
    told # {} => \E c \in told : mirror[p][r] = c.now /\ \A d \in told : d.version <= c.version

\* No chain of superseded branches comes back to where it began
\* (LocationsService.supersede locks both rows; supersedeProblem).
NoSupersedeCycle == \A S \in SUBSET Records : S # {} => \E r \in S : successor[r] \notin S

\* A request of e changes r.
Changes(e, r) ==
  /\ pc[e] # "idle" /\ pc'[e] = "idle" /\ req[e].rec = r
  /\ version[r] > 0 /\ version'[r] # version[r]

\* A record that is there is changed only by a request that names the version
\* it then has, however many requests are under way (ItemsService.update: "the
\* item, locked for the rest of the transaction so concurrent edits queue up").
OverwritesWhatItNames ==
  [][\A e \in Editors, r \in Records :
       Changes(e, r) /\ req[e].version > 0 => req[e].version = version[r]]_vars

\* What a save replaces is what its form was filled from.
ReplacesWhatItShowed(e, r) ==
  Changes(e, r) /\ req[e].kind = "edit" => req[e].filledFrom = version[r]

\* Once saved, the settings are only replaced by someone who has seen them
\* (CompanySettingsPage keys its form by the revision).
SettingsReplacedAreSeen ==
  [][\A e \in Editors, r \in Records :
       Kind[r] = "settings" /\ req[e].version > 0 => ReplacesWhatItShowed(e, r)]_vars

\* Nobody's change of master data is replaced by someone who has not seen it
\* (ItemsService.update: refused when "someone else changed it since the editor
\* loaded it").
ReplacedIsSeen ==
  [][\A e \in Editors, r \in Records :
       Kind[r] # "settings" => ReplacesWhatItShowed(e, r)]_vars

\* Requests wait for one another in a circle only through a foreign key: two
\* supersedes never do, nor any two edits (LocationsService.supersede).
CirclesRunThroughLinks ==
  \A S \in SUBSET Editors : Circular(S) => \E e \in S : pc[e] = "link"
=============================================================================
