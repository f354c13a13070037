-------------------------- MODULE MasterDataProofs --------------------------
(***************************************************************************)
(* Proofs about module MasterData, for any records, any number of people   *)
(* and POS instances, and any number of changes.                           *)
(***************************************************************************)
EXTENDS MasterData, SumTheorems, SequenceTheorems

Requested ==
  [kind : {"none", "edit", "toggle", "supersede", "create", "price"},
   rec : Records \cup {NoRecord}, other : Records \cup {NoRecord},
   version : Nat, filledFrom : Nat, taken : Nat]

Pages == [rec : Records \cup {NoRecord}, filledFrom : Nat, shown : Nat]

Places == {"idle", "lock", "counter", "link", "write", "upsert", "update", "insert"}

Types ==
  /\ version \in [Records -> Nat]
  /\ counter \in Nat
  /\ successor \in [Records -> Records \cup {NoRecord}]
  /\ rowLock \in [Records -> Editors \cup {NoEditor}]
  /\ shareLock \in [Records -> SUBSET Editors]
  /\ counterLock \in Editors \cup {NoEditor}
  /\ page \in [Editors -> Pages]
  /\ pc \in [Editors -> Places]
  /\ req \in [Editors -> Requested]
  /\ todo \in [Editors -> SUBSET Records]

\* A row is locked only where there is one, by a request that is under way
\* and locks its rows in the order of their ids; the rows a request points at
\* and the next version are held by requests that have nothing else to wait for
\* but rows they point at.
HolderInv(e) ==
  /\ \A r \in Records : rowLock[r] = e =>
       /\ Exists(r) /\ pc[e] # "idle" /\ r \in RowsToLock(req[e])
       /\ pc[e] = "lock" => \A s \in todo[e] : Rank[r] < Rank[s]
  /\ \A r \in Records : e \in shareLock[r] => pc[e] = "link"
  /\ counterLock = e => pc[e] = "link"

PageInv(e) ==
  page[e] # NoPage =>
    /\ page[e].rec \in Records
    /\ page[e].shown > 0 => Exists(page[e].rec)
    /\ IF Kind[page[e].rec] = "settings" THEN page[e].filledFrom = page[e].shown
       ELSE page[e].shown > 0

\* Requests that go by a row that is there.
HasRow(q) == q.version > 0 \/ q.kind = "price"

\* What is asked.
Asked(q) ==
  /\ q.rec \in Records /\ q.kind # "none"
  /\ HasRow(q) => Exists(q.rec)
  /\ q.kind = "supersede" => q.version > 0 /\ q.other \in Records \ {q.rec} /\ Exists(q.other)
  /\ q.kind \in {"create", "price"} => q.version = 0
  /\ q.kind = "price" => q.other \in Records
  /\ IF Kind[q.rec] = "settings" THEN q.kind = "edit" /\ q.filledFrom = q.version
     ELSE q.kind \in {"edit", "toggle", "supersede"} => q.version > 0

\* What a request that is under way goes by, and what it has found under its
\* locks: the version it names, and no successor where it is to write one.
Found(e) ==
  LET q == req[e] IN
  /\ pc[e] \in {"counter", "link", "write"} => Kind[q.rec] # "settings"
  /\ pc[e] \in {"upsert", "update", "insert"} => Kind[q.rec] = "settings"
  /\ pc[e] = "lock" => todo[e] \subseteq RowsToLock(q)
  /\ pc[e] = "link" => q.taken > 0
  /\ \A r \in RowsToLock(q) :
       HasRow(q) /\ (pc[e] # "lock" \/ r \notin todo[e]) => rowLock[r] = e
  /\ pc[e] # "lock" /\ q.version > 0 => version[q.rec] = q.version
  /\ pc[e] # "lock" /\ q.kind = "supersede" => successor[q.rec] = NoRecord /\ successor[q.other] = NoRecord

RequestInv(e) == pc[e] # "idle" => Asked(req[e]) /\ Found(e)

Inv ==
  /\ Types
  /\ \A e \in Editors : HolderInv(e) /\ PageInv(e) /\ RequestInv(e)
  /\ NoSupersedeCycle

------------------------------------------------------------------------------
LEMMA Names ==
  /\ NoRecord \notin Records /\ NoEditor \notin Editors
  /\ Kind \in [Records -> Kinds] /\ Rank \in [Records -> Nat]
  /\ \A r, s \in Records : Rank[r] = Rank[s] => r = s
  /\ NoPage \in Pages /\ NoRequest \in Requested
BY MasterDataAssumption DEF NoPage, NoRequest, Pages, Requested

\* What a request relies on while others step: its rows, and that no row goes.
Spares(e) ==
  /\ \A r \in Records : Exists(r) => Exists(r)'
  /\ \A r \in Records, f \in Editors \ {e} :
       /\ rowLock[r] = f <=> rowLock'[r] = f
       /\ rowLock[r] = f => version'[r] = version[r] /\ successor'[r] = successor[r]
       /\ f \in shareLock'[r] => f \in shareLock[r]
  /\ counterLock' \in {counterLock, e, NoEditor}

Apart(e) ==
  \A f \in Editors \ {e} :
    pc'[f] = pc[f] /\ req'[f] = req[f] /\ todo'[f] = todo[f] /\ page'[f] = page[f]

LEMMA OthersKeep ==
  ASSUME Inv, NEW e \in Editors, Spares(e), Apart(e), NEW f \in Editors \ {e}
  PROVE  HolderInv(f)' /\ PageInv(f)' /\ RequestInv(f)'
<1>. USE DEF Apart
<1>1. HolderInv(f) /\ PageInv(f) /\ RequestInv(f)
  BY DEF Inv
<1>2. HolderInv(f)'
  BY <1>1, Names DEF HolderInv, Spares
<1>3. PageInv(f)'
  BY <1>1 DEF PageInv, Spares
<1>4. ASSUME pc[f] # "idle" PROVE Asked(req[f])'
  BY <1>1, <1>4 DEF RequestInv, Asked, Spares
<1>5. ASSUME pc[f] # "idle" PROVE Found(f)'
  <2>1. Asked(req[f]) /\ Found(f)
    BY <1>1, <1>5 DEF RequestInv
  <2>2. \A r \in RowsToLock(req[f]) : r \in Records
    BY <2>1 DEF Asked, RowsToLock
  <2>3. \A r \in RowsToLock(req[f]) :
          HasRow(req[f]) /\ (pc[f] # "lock" \/ r \notin todo[f]) =>
            rowLock'[r] = f /\ version'[r] = version[r] /\ successor'[r] = successor[r]
    BY <2>1, <2>2 DEF Found, Spares
  <2>4. req[f].rec \in RowsToLock(req[f])
        /\ (req[f].kind = "supersede" => req[f].other \in RowsToLock(req[f]) /\ req[f].version > 0)
    BY <2>1 DEF RowsToLock, Asked
  <2>5. pc[f] # "lock" /\ req[f].version > 0 => version'[req[f].rec] = req[f].version
    BY <2>1, <2>3, <2>4 DEF Found, HasRow
  <2>6. pc[f] # "lock" /\ req[f].kind = "supersede" =>
          successor'[req[f].rec] = NoRecord /\ successor'[req[f].other] = NoRecord
    BY <2>1, <2>3, <2>4 DEF Found, HasRow
  <2>. QED
    BY <2>1, <2>3, <2>5, <2>6 DEF Found
<1>. QED
  BY <1>2, <1>3, <1>4, <1>5 DEF RequestInv

LEMMA EditorStep ==
  ASSUME Inv, Types', NEW e \in Editors, Spares(e), Apart(e),
         HolderInv(e)', PageInv(e)', RequestInv(e)', NoSupersedeCycle'
  PROVE  Inv'
BY OthersKeep DEF Inv

\* A transaction that ends, with what it wrote.
LEMMA EndStep ==
  ASSUME Inv, NEW e \in Editors, NEW saved, End(e, saved),
         version' \in [Records -> Nat], counter' \in Nat,
         successor' \in [Records -> Records \cup {NoRecord}],
         \A r \in Records : Exists(r) => Exists(r)',
         \A r \in Records : rowLock[r] \in Editors \ {e} =>
           version'[r] = version[r] /\ successor'[r] = successor[r],
         NoSupersedeCycle'
  PROVE  Inv'
<1>1. /\ pc' = [pc EXCEPT ![e] = "idle"] /\ req' = [req EXCEPT ![e] = NoRequest]
      /\ todo' = [todo EXCEPT ![e] = {}]
      /\ page' = page \/ page' = [page EXCEPT ![e] = NoPage]
      /\ rowLock' = [r \in Records |-> IF rowLock[r] = e THEN NoEditor ELSE rowLock[r]]
      /\ shareLock' = [r \in Records |-> shareLock[r] \ {e}]
      /\ counterLock' = IF counterLock = e THEN NoEditor ELSE counterLock
  BY DEF End
<1>2. Types'
  <2>1. /\ pc' \in [Editors -> Places] /\ req' \in [Editors -> Requested]
        /\ todo' \in [Editors -> SUBSET Records] /\ page' \in [Editors -> Pages]
    BY <1>1, Names DEF Inv, Types, Places
  <2>2. /\ rowLock' \in [Records -> Editors \cup {NoEditor}]
        /\ shareLock' \in [Records -> SUBSET Editors]
        /\ counterLock' \in Editors \cup {NoEditor}
    BY <1>1 DEF Inv, Types
  <2>. QED
    BY <2>1, <2>2 DEF Types
<1>3. Apart(e) /\ pc'[e] = "idle" /\ page'[e] \in {page[e], NoPage}
  BY <1>1 DEF Apart, Inv, Types
<1>4. Spares(e)
  BY <1>1, Names DEF Spares, Inv, Types
<1>5. HolderInv(e)'
  BY <1>1, Names DEF HolderInv, Inv, Types
<1>6. PageInv(e)'
  BY <1>3 DEF PageInv, Inv
<1>7. RequestInv(e)'
  BY <1>3 DEF RequestInv
<1>. QED
  BY <1>2, <1>3, <1>4, <1>5, <1>6, <1>7, EditorStep

------------------------------------------------------------------------------
(* The console *)

LEMMA PageStep ==
  ASSUME Inv, NEW e \in Editors, UNCHANGED <<tables, locks, requests>>, NEW p \in Pages,
         page' = [page EXCEPT ![e] = p],
         p # NoPage => /\ p.rec \in Records
                       /\ p.shown > 0 => Exists(p.rec)
                       /\ IF Kind[p.rec] = "settings" THEN p.filledFrom = p.shown ELSE p.shown > 0
  PROVE  Inv'
<1>. USE DEF tables, locks, requests
<1>1. Types' /\ page'[e] = p
  BY DEF Inv, Types
<1>2. Apart(e) /\ Spares(e)
  BY DEF Apart, Spares, Inv, Types, Exists
<1>3. HolderInv(e)'
  <2>1. HolderInv(e)
    BY DEF Inv
  <2>. QED
    BY <2>1 DEF HolderInv, Exists
<1>4. RequestInv(e)'
  <2>1. pc[e] # "idle" => Asked(req[e]) /\ Found(e)
    BY DEF RequestInv, Inv
  <2>2. Asked(req[e])' <=> Asked(req[e])
    BY DEF Asked, Exists
  <2>3. Found(e)' <=> Found(e)
    BY DEF Found
  <2>. QED
    BY <2>1, <2>2, <2>3 DEF RequestInv
<1>5. PageInv(e)'
  <2>1. p # NoPage => p.rec \in Records /\ (p.shown > 0 => Exists(p.rec)')
    BY DEF Exists
  <2>. QED
    BY <1>1, <2>1 DEF PageInv, Exists
<1>6. NoSupersedeCycle'
  BY DEF Inv, NoSupersedeCycle
<1>. QED
  BY <1>1, <1>2, <1>3, <1>4, <1>5, <1>6, EditorStep

LEMMA ConsoleInv ==
  \A e \in Editors :
    Inv /\ ((\E r \in Records : OpenForm(e, r)) \/ Refetch(e) \/ CloseForm(e)) => Inv'
<1>. SUFFICES ASSUME Inv, NEW e \in Editors,
                     (\E r \in Records : OpenForm(e, r)) \/ Refetch(e) \/ CloseForm(e)
              PROVE  Inv'
  OBVIOUS
<1>1. CASE CloseForm(e)
  BY <1>1, Names, PageStep DEF CloseForm
<1>2. ASSUME NEW r \in Records, OpenForm(e, r) PROVE Inv'
  <2>1. /\ page' = [page EXCEPT ![e] = [rec |-> r, filledFrom |-> version[r], shown |-> version[r]]]
        /\ Exists(r) \/ Kind[r] = "settings"
        /\ UNCHANGED <<tables, locks, requests>>
    BY <1>2 DEF OpenForm, Creatable, pos
  <2>2. version[r] \in Nat
    BY DEF Inv, Types
  <2>. QED
    BY <2>1, <2>2, PageStep DEF Pages, Exists
<1>3. CASE Refetch(e)
  <2>. DEFINE p == page[e]
              v == version[p.rec]
              new == IF Kind[p.rec] = "settings" THEN [p EXCEPT !.shown = v, !.filledFrom = v]
                     ELSE [p EXCEPT !.shown = v]
  <2>1. p # NoPage /\ page' = [page EXCEPT ![e] = new] /\ UNCHANGED <<tables, locks, requests>>
    BY <1>3 DEF Refetch, Refetched
  <2>2. p \in Pages /\ p.rec \in Records /\ (p.shown > 0 => Exists(p.rec))
        /\ (Kind[p.rec] = "settings" \/ p.shown > 0)
    BY <2>1 DEF PageInv, Inv, Types
  <2>3. v \in Nat /\ (Kind[p.rec] = "settings" \/ v > 0)
    BY <2>2 DEF Inv, Types, Exists
  <2>4. new \in Pages /\ new.rec = p.rec /\ new.shown = v
        /\ (Kind[p.rec] = "settings" => new.filledFrom = v)
    BY <2>2, <2>3 DEF Pages
  <2>. HIDE DEF new
  <2>. QED
    BY <2>1, <2>2, <2>3, <2>4, PageStep DEF Exists
<1>. QED
  BY <1>1, <1>2, <1>3

LEMMA RequestStep ==
  ASSUME Inv, NEW e \in Editors, NEW at \in {"lock", "counter", "write"}, NEW q \in Requested,
         Request(e, at, q), Asked(q), at # "lock" => q.kind = "create" /\ Kind[q.rec] # "settings"
  PROVE  Inv'
<1>. DEFINE rows == IF at = "lock" THEN RowsToLock(q) ELSE {}
<1>1. /\ pc[e] = "idle" /\ pc' = [pc EXCEPT ![e] = at] /\ req' = [req EXCEPT ![e] = q]
      /\ todo' = [todo EXCEPT ![e] = rows]
      /\ UNCHANGED <<tables, locks, page>>
  BY DEF Request
<1>2. rows \in SUBSET Records
  BY DEF Asked, RowsToLock
<1>. HIDE DEF rows
<1>3. /\ pc' \in [Editors -> Places] /\ req' \in [Editors -> Requested]
      /\ todo' \in [Editors -> SUBSET Records]
      /\ pc'[e] = at /\ req'[e] = q /\ todo'[e] = rows
      /\ \A f \in Editors \ {e} : pc'[f] = pc[f] /\ req'[f] = req[f] /\ todo'[f] = todo[f]
  BY <1>1, <1>2 DEF Inv, Types, Places
<1>4. UNCHANGED <<version, counter, successor, rowLock, shareLock, counterLock, page>>
  BY <1>1 DEF tables, locks
<1>5. Types'
  BY <1>3, <1>4 DEF Inv, Types
<1>6. Apart(e) /\ Spares(e)
  BY <1>3, <1>4 DEF Apart, Spares, Inv, Types, Exists
<1>7. HolderInv(e)'
  BY <1>1, <1>4 DEF HolderInv, Inv
<1>8. PageInv(e)'
  BY <1>4 DEF PageInv, Inv, Exists
<1>9. RequestInv(e)'
  <2>1. Asked(q)' /\ (at # "lock" => ~HasRow(q) /\ q.kind # "supersede")
    BY <1>4 DEF Asked, Exists, HasRow
  <2>2. Found(e)'
    BY <1>3, <2>1 DEF Found, rows, HasRow
  <2>. QED
    BY <1>3, <2>1, <2>2 DEF RequestInv, Asked
<1>10. NoSupersedeCycle'
  BY <1>4 DEF Inv, NoSupersedeCycle
<1>. QED
  BY <1>5, <1>6, <1>7, <1>8, <1>9, <1>10, EditorStep

LEMMA SubmitInv == \A e \in Editors : Inv /\ Submit(e) => Inv'
<1>. SUFFICES ASSUME Inv, NEW e \in Editors, Submit(e) PROVE Inv'
  OBVIOUS
<1>. DEFINE asked(kind, other) ==
        [kind |-> kind, rec |-> page[e].rec, other |-> other,
         version |-> page[e].shown, filledFrom |-> page[e].filledFrom, taken |-> 0]
<1>1. page[e] # NoPage /\ page[e] \in Pages /\ PageInv(e)
  BY DEF Submit, Inv, Types
<1>2. \/ Request(e, "lock", asked("edit", NoRecord))
      \/ Kind[page[e].rec] # "settings" /\ Request(e, "lock", asked("toggle", NoRecord))
      \/ \E s \in Records \ {page[e].rec} :
           /\ Kind[page[e].rec] = "branch" /\ Exists(s)
           /\ Request(e, "lock", asked("supersede", s))
  BY DEF Submit
<1>3. ASSUME NEW kind \in {"edit", "toggle", "supersede"}, NEW other \in Records \cup {NoRecord}
      PROVE  asked(kind, other) \in Requested
  BY <1>1 DEF Pages, Requested
<1>4. CASE Request(e, "lock", asked("edit", NoRecord))
  <2>1. Asked(asked("edit", NoRecord))
    BY <1>1 DEF Asked, PageInv, HasRow
  <2>. QED
    BY <1>3, <1>4, <2>1, RequestStep
<1>5. CASE Kind[page[e].rec] # "settings" /\ Request(e, "lock", asked("toggle", NoRecord))
  <2>1. Asked(asked("toggle", NoRecord))
    BY <1>1, <1>5 DEF Asked, PageInv, HasRow
  <2>. QED
    BY <1>3, <1>5, <2>1, RequestStep
<1>6. ASSUME NEW s \in Records \ {page[e].rec}, Kind[page[e].rec] = "branch", Exists(s),
             Request(e, "lock", asked("supersede", s))
      PROVE  Inv'
  <2>1. Asked(asked("supersede", s))
    BY <1>1, <1>6 DEF Asked, PageInv, HasRow
  <2>. QED
    BY <1>3, <1>6, <2>1, RequestStep
<1>. QED
  BY <1>2, <1>4, <1>5, <1>6

LEMMA CreateInv == \A e \in Editors, r \in Records : Inv /\ Create(e, r) => Inv'
<1>. SUFFICES ASSUME Inv, NEW e \in Editors, NEW r \in Records, Create(e, r) PROVE Inv'
  OBVIOUS
<1>. DEFINE q == [NoRequest EXCEPT !.kind = "create", !.rec = r]
<1>1. q \in Requested /\ q.rec = r /\ q.kind = "create" /\ q.version = 0
  BY DEF NoRequest, Requested
<1>2. Kind[r] # "settings" /\ \E at \in {"counter", "write"} : Request(e, at, q)
  BY DEF Create, Creatable
<1>. HIDE DEF q
<1>3. Asked(q)
  BY <1>1, <1>2 DEF Asked, HasRow
<1>. QED
  BY <1>1, <1>2, <1>3, RequestStep

LEMMA SetPriceInv == \A e \in Editors, m, b \in Records : Inv /\ SetPrice(e, m, b) => Inv'
<1>. SUFFICES ASSUME Inv, NEW e \in Editors, NEW m \in Records, NEW b \in Records, SetPrice(e, m, b)
              PROVE  Inv'
  OBVIOUS
<1>. DEFINE q == [NoRequest EXCEPT !.kind = "price", !.rec = m, !.other = b]
<1>1. q \in Requested /\ q.rec = m /\ q.other = b /\ q.kind = "price" /\ q.version = 0
  BY DEF NoRequest, Requested
<1>2. Kind[m] = "menu_item" /\ Exists(m) /\ Request(e, "lock", q)
  BY DEF SetPrice
<1>. HIDE DEF q
<1>3. Asked(q)
  BY <1>1, <1>2 DEF Asked, HasRow
<1>. QED
  BY <1>1, <1>2, <1>3, RequestStep

------------------------------------------------------------------------------
(* The service *)

\* Two stages of one request.
AsAsked(q, p) ==
  /\ q.kind = p.kind /\ q.rec = p.rec /\ q.other = p.other
  /\ q.version = p.version /\ q.filledFrom = p.filledFrom

\* A step of a request that writes nothing yet and ends no lock.
LEMMA GoesOn ==
  ASSUME Inv, NEW e \in Editors, UNCHANGED <<version, successor, counter, page>>,
         NEW at \in Places, NEW q \in Requested, NEW rows \in SUBSET Records,
         pc[e] # "idle", at # "idle", pc' = [pc EXCEPT ![e] = at],
         req' = [req EXCEPT ![e] = q], todo' = [todo EXCEPT ![e] = rows],
         rowLock' \in [Records -> Editors \cup {NoEditor}],
         shareLock' \in [Records -> SUBSET Editors],
         counterLock' \in {counterLock, e},
         \A r \in Records, f \in Editors \ {e} :
           (rowLock[r] = f <=> rowLock'[r] = f) /\ (f \in shareLock'[r] => f \in shareLock[r]),
         HolderInv(e)', Found(e)', AsAsked(q, req[e])
  PROVE  Inv'
<1>1. Types'
  BY DEF Inv, Types
<1>2. /\ pc'[e] = at /\ req'[e] = q /\ todo'[e] = rows
      /\ \A f \in Editors \ {e} : pc'[f] = pc[f] /\ req'[f] = req[f] /\ todo'[f] = todo[f]
  BY DEF Inv, Types
<1>3. Apart(e) /\ Spares(e)
  BY <1>2 DEF Apart, Spares, Exists
<1>4. PageInv(e)'
  BY DEF PageInv, Inv, Exists
<1>5. Asked(req[e])'
  <2>1. Asked(req[e])
    BY DEF Inv, RequestInv
  <2>2. Asked(q)
    BY <2>1 DEF Asked, AsAsked, HasRow
  <2>. QED
    BY <1>2, <2>2 DEF Asked, Exists
<1>6. NoSupersedeCycle'
  BY DEF Inv, NoSupersedeCycle
<1>. QED
  BY <1>1, <1>3, <1>4, <1>5, <1>6, EditorStep DEF RequestInv

\* The same where the request itself stays as it is.
LEMMA GoesOnAsIs ==
  ASSUME Inv, NEW e \in Editors, UNCHANGED <<version, successor, counter, page, req>>,
         NEW at \in Places, NEW rows \in SUBSET Records,
         pc[e] # "idle", at # "idle", pc' = [pc EXCEPT ![e] = at], todo' = [todo EXCEPT ![e] = rows],
         rowLock' \in [Records -> Editors \cup {NoEditor}],
         shareLock' \in [Records -> SUBSET Editors],
         counterLock' = counterLock,
         \A r \in Records, f \in Editors \ {e} :
           (rowLock[r] = f <=> rowLock'[r] = f) /\ (f \in shareLock'[r] => f \in shareLock[r]),
         HolderInv(e)', Found(e)'
  PROVE  Inv'
<1>1. req[e] \in Requested /\ req' = [req EXCEPT ![e] = req[e]]
  BY DEF Inv, Types
<1>. QED
  BY <1>1, GoesOn DEF AsAsked

LEMMA LockRowInv == \A e \in Editors, r \in Records : Inv /\ LockRow(e, r) => Inv'
<1>. SUFFICES ASSUME Inv, NEW e \in Editors, NEW r \in Records, LockRow(e, r) PROVE Inv'
  OBVIOUS
<1>1. /\ pc[e] = "lock" /\ r \in todo[e] /\ \A s \in todo[e] : Rank[r] <= Rank[s]
      /\ rowLock[r] = NoEditor
      /\ todo' = [todo EXCEPT ![e] = todo[e] \ {r}]
      /\ rowLock' = IF Exists(r) THEN [rowLock EXCEPT ![r] = e] ELSE rowLock
      /\ UNCHANGED <<version, successor, counter, shareLock, counterLock, page, pc, req>>
  BY DEF LockRow, FirstRow, TakeRow, tables
<1>2. Asked(req[e]) /\ Found(e) /\ HolderInv(e)
  BY <1>1 DEF Inv, RequestInv
<1>3. rowLock' \in [Records -> Editors \cup {NoEditor}]
      /\ \A x \in Records : rowLock'[x] = (IF x = r /\ Exists(r) THEN e ELSE rowLock[x])
  BY <1>1 DEF Inv, Types
<1>4. todo'[e] = todo[e] \ {r} /\ todo[e] \in SUBSET Records
  BY <1>1 DEF Inv, Types
<1>5. \A s \in todo'[e] : Rank[r] < Rank[s]
  <2>. SUFFICES ASSUME NEW s \in todo'[e] PROVE Rank[r] < Rank[s]
    OBVIOUS
  <2>1. s \in Records /\ s # r /\ Rank[r] <= Rank[s]
    BY <1>1, <1>4
  <2>. QED
    BY <2>1, Names
<1>6. r \in RowsToLock(req[e])
  BY <1>1, <1>2 DEF Found
<1>7. HolderInv(e)'
  <2>1. ASSUME NEW x \in Records, rowLock'[x] = e
        PROVE  /\ Exists(x)' /\ x \in RowsToLock(req[e])
               /\ \A s \in todo'[e] : Rank[x] < Rank[s]
    BY <1>1, <1>2, <1>3, <1>4, <1>5, <1>6, <2>1 DEF HolderInv, Exists
  <2>2. \A x \in Records : e \in shareLock[x] => pc[e] = "link"
    BY <1>2 DEF HolderInv
  <2>3. counterLock = e => pc[e] = "link"
    BY <1>2 DEF HolderInv
  <2>. QED
    BY <1>1, <2>1, <2>2, <2>3 DEF HolderInv
<1>8. Found(e)'
  <2>1. todo'[e] \subseteq RowsToLock(req[e])
    BY <1>1, <1>2, <1>4 DEF Found
  <2>2. ASSUME NEW x \in RowsToLock(req[e]), HasRow(req[e]), x \notin todo'[e]
        PROVE  rowLock'[x] = e
    <3>1. x \in Records /\ Exists(x)
      BY <1>2, <2>2 DEF Asked, RowsToLock
    <3>2. x = r \/ x \notin todo[e]
      BY <1>4, <2>2
    <3>. QED
      BY <1>2, <1>3, <2>2, <3>1, <3>2 DEF Found
  <2>. QED
    BY <1>1, <2>1, <2>2 DEF Found
<1>9. pc' = [pc EXCEPT ![e] = "lock"] /\ "lock" \in Places
  BY <1>1 DEF Inv, Types, Places
<1>10. shareLock' \in [Records -> SUBSET Editors]
  BY <1>1 DEF Inv, Types
<1>11. \A x \in Records, f \in Editors \ {e} :
         (rowLock[x] = f <=> rowLock'[x] = f) /\ (f \in shareLock'[x] => f \in shareLock[x])
  BY <1>1, <1>3, Names
<1>12. todo[e] \ {r} \in SUBSET Records
  BY <1>4
<1>. QED
  BY <1>1, <1>3, <1>7, <1>8, <1>9, <1>10, <1>11, <1>12, GoesOnAsIs

LEMMA NothingWritten ==
  ASSUME Inv, NEW e \in Editors, NEW saved, End(e, saved), UNCHANGED <<version, successor, counter>>
  PROVE  Inv'
<1>1. NoSupersedeCycle' /\ \A r \in Records : Exists(r) => Exists(r)'
  BY DEF Inv, NoSupersedeCycle, Exists
<1>. QED
  BY <1>1, EndStep DEF Inv, Types

LEMMA RefuseInv == \A e \in Editors : Inv /\ Refuse(e) => Inv'
BY NothingWritten DEF Refuse, tables

LEMMA DecideInv == \A e \in Editors : Inv /\ Decide(e) => Inv'
<1>. SUFFICES ASSUME Inv, NEW e \in Editors, Decide(e) PROVE Inv'
  OBVIOUS
<1>1. CASE Refuse(e) \/ (End(e, TRUE) /\ UNCHANGED tables)
  BY <1>1, RefuseInv, NothingWritten DEF tables
<1>2. ASSUME NEW at \in {"counter", "upsert", "write"}, pc[e] = "lock", todo[e] = {}, ~Problem(req[e]),
             pc' = [pc EXCEPT ![e] = at], UNCHANGED <<tables, locks, page, req, todo>>,
             at = "upsert" <=> Kind[req[e].rec] = "settings"
      PROVE  Inv'
  <2>1. Asked(req[e]) /\ Found(e) /\ HolderInv(e)
    BY <1>2 DEF Inv, RequestInv
  <2>2. UNCHANGED <<version, successor, counter, rowLock, shareLock, counterLock, page, req, todo>>
    BY <1>2 DEF tables, locks
  <2>3. pc'[e] = at /\ at # "idle" /\ at # "lock" /\ at # "link"
    BY <1>2 DEF Inv, Types
  <2>4. HolderInv(e)'
    BY <1>2, <2>1, <2>2, <2>3 DEF HolderInv, Exists
  <2>5. req[e].version > 0 => version[req[e].rec] = req[e].version
    <3>1. req[e].version > 0 => req[e].kind # "price"
      BY <2>1 DEF Asked
    <3>. QED
      BY <1>2, <3>1 DEF Problem
  <2>6. req[e].kind = "supersede" => successor[req[e].rec] = NoRecord /\ successor[req[e].other] = NoRecord
    BY <1>2 DEF Problem, SupersedeProblem
  <2>7. Found(e)'
    BY <1>2, <2>1, <2>2, <2>3, <2>5, <2>6 DEF Found
  <2>8. at \in Places /\ todo[e] \in SUBSET Records /\ todo' = [todo EXCEPT ![e] = todo[e]]
    BY <2>2 DEF Places, Inv, Types
  <2>9. rowLock' \in [Records -> Editors \cup {NoEditor}] /\ shareLock' \in [Records -> SUBSET Editors]
    BY <2>2 DEF Inv, Types
  <2>. QED
    BY <1>2, <2>2, <2>3, <2>4, <2>7, <2>8, <2>9, GoesOnAsIs
<1>3. PICK at \in {"counter", "upsert", "write"} :
        \/ Refuse(e) \/ (End(e, TRUE) /\ UNCHANGED tables)
        \/ /\ pc[e] = "lock" /\ todo[e] = {} /\ ~Problem(req[e])
           /\ pc' = [pc EXCEPT ![e] = at] /\ UNCHANGED <<tables, locks, page, req, todo>>
           /\ at = "upsert" <=> Kind[req[e].rec] = "settings"
  <2>1. CASE Refuse(e) \/ (End(e, TRUE) /\ UNCHANGED tables)
    BY <2>1
  <2>2. CASE ~(Refuse(e) \/ (End(e, TRUE) /\ UNCHANGED tables))
    <3>. DEFINE at == IF Logged(req[e].rec) THEN "counter"
                      ELSE IF Kind[req[e].rec] = "settings" THEN "upsert" ELSE "write"
    <3>1. /\ pc[e] = "lock" /\ todo[e] = {} /\ ~Problem(req[e])
          /\ pc' = [pc EXCEPT ![e] = at] /\ UNCHANGED <<tables, locks, page, req, todo>>
      BY <2>2 DEF Decide
    <3>2. at \in {"counter", "upsert", "write"} /\ (at = "upsert" <=> Kind[req[e].rec] = "settings")
      BY DEF Logged
    <3>. HIDE DEF at
    <3>. QED
      BY <3>1, <3>2
  <2>. QED
    BY <2>1, <2>2
<1>. QED
  BY <1>1, <1>2, <1>3

LEMMA NextVersionInv == \A e \in Editors : Inv /\ NextVersion(e) => Inv'
<1>. SUFFICES ASSUME Inv, NEW e \in Editors, NextVersion(e) PROVE Inv'
  OBVIOUS
<1>. DEFINE q == [req[e] EXCEPT !.taken = counter + 1]
            rows == {g \in Linked(req[e]) : Exists(g)}
<1>1. /\ pc[e] = "counter" /\ counterLock = NoEditor /\ counterLock' = e
      /\ req' = [req EXCEPT ![e] = q] /\ pc' = [pc EXCEPT ![e] = "link"]
      /\ todo' = [todo EXCEPT ![e] = rows]
      /\ UNCHANGED <<version, successor, counter, rowLock, shareLock, page>>
  BY DEF NextVersion, TakeVersion
<1>2. Asked(req[e]) /\ Found(e) /\ HolderInv(e)
  BY <1>1 DEF Inv, RequestInv
<1>3. rows \in SUBSET Records
  <2>1. Linked(req[e]) \in SUBSET Records
    <3>1. CASE req[e].kind = "price"
      BY <1>2, <3>1 DEF Asked, Linked
    <3>2. CASE req[e].kind \in {"edit", "create"}
      BY <3>2 DEF Linked, LinkedGroups
    <3>3. CASE req[e].kind \notin {"price", "edit", "create"}
      BY <3>3 DEF Linked
    <3>. QED
      BY <3>1, <3>2, <3>3
  <2>. QED
    BY <2>1
<1>4. req[e] \in Requested /\ counter \in Nat
  BY DEF Inv, Types
<1>5. q \in Requested /\ AsAsked(q, req[e]) /\ q.taken = counter + 1
  BY <1>4 DEF Requested, AsAsked
<1>. HIDE DEF q, rows
<1>6. req'[e] = q /\ pc'[e] = "link" /\ RowsToLock(q) = RowsToLock(req[e])
  BY <1>1, <1>5 DEF Inv, Types, RowsToLock, AsAsked
<1>7. HolderInv(e)'
  BY <1>1, <1>2, <1>6 DEF HolderInv, Exists
<1>8. Found(e)'
  BY <1>1, <1>2, <1>4, <1>5, <1>6 DEF Found, HasRow, AsAsked
<1>9. rowLock' \in [Records -> Editors \cup {NoEditor}] /\ shareLock' \in [Records -> SUBSET Editors]
      /\ "link" \in Places
  BY <1>1 DEF Inv, Types, Places
<1>. QED
  BY <1>1, <1>3, <1>5, <1>7, <1>8, <1>9, GoesOn

LEMMA LinkInv == \A e \in Editors, r \in Records : Inv /\ Link(e, r) => Inv'
<1>. SUFFICES ASSUME Inv, NEW e \in Editors, NEW r \in Records, Link(e, r) PROVE Inv'
  OBVIOUS
<1>1. /\ pc[e] = "link" /\ shareLock' = [shareLock EXCEPT ![r] = shareLock[r] \cup {e}]
      /\ todo' = [todo EXCEPT ![e] = todo[e] \ {r}]
      /\ UNCHANGED <<version, successor, counter, rowLock, counterLock, page, pc, req>>
  BY DEF Link, tables
<1>2. Asked(req[e]) /\ Found(e) /\ HolderInv(e)
  BY <1>1 DEF Inv, RequestInv
<1>3. HolderInv(e)'
  BY <1>1, <1>2 DEF HolderInv, Exists
<1>4. Found(e)'
  BY <1>1, <1>2 DEF Found
<1>5. /\ rowLock' \in [Records -> Editors \cup {NoEditor}] /\ shareLock' \in [Records -> SUBSET Editors]
      /\ "link" \in Places /\ pc' = [pc EXCEPT ![e] = "link"] /\ todo[e] \ {r} \in SUBSET Records
  BY <1>1 DEF Inv, Types, Places
<1>6. \A x \in Records, f \in Editors \ {e} :
        (rowLock[x] = f <=> rowLock'[x] = f) /\ (f \in shareLock'[x] => f \in shareLock[x])
  BY <1>1 DEF Inv, Types
<1>. QED
  BY <1>1, <1>3, <1>4, <1>5, <1>6, GoesOnAsIs

LEMMA UpsertInv == \A e \in Editors : Inv /\ Upsert(e) => Inv'
<1>. SUFFICES ASSUME Inv, NEW e \in Editors, Upsert(e) PROVE Inv'
  OBVIOUS
<1>1. PICK at \in {"update", "insert"} :
        /\ pc[e] = "upsert" /\ pc' = [pc EXCEPT ![e] = at]
        /\ UNCHANGED <<version, successor, counter, rowLock, shareLock, counterLock, page, req, todo>>
  BY DEF Upsert, tables, locks
<1>2. Asked(req[e]) /\ Found(e) /\ HolderInv(e)
  BY <1>1 DEF Inv, RequestInv
<1>3. pc'[e] = at
  BY <1>1 DEF Inv, Types
<1>4. HolderInv(e)'
  BY <1>1, <1>2, <1>3 DEF HolderInv, Exists
<1>5. Found(e)'
  BY <1>1, <1>2, <1>3 DEF Found
<1>6. /\ rowLock' \in [Records -> Editors \cup {NoEditor}] /\ shareLock' \in [Records -> SUBSET Editors]
      /\ at \in Places /\ at # "idle" /\ todo' = [todo EXCEPT ![e] = todo[e]] /\ todo[e] \in SUBSET Records
  BY <1>1 DEF Inv, Types, Places
<1>. QED
  BY <1>1, <1>4, <1>5, <1>6, GoesOnAsIs

\* A transaction that writes the row of its record, and no successor.
LEMMA RowWritten ==
  ASSUME Inv, NEW e \in Editors, NEW saved, End(e, saved), NEW r \in Records,
         NEW v \in Nat, v > 0, version' = [version EXCEPT ![r] = v],
         counter' \in Nat, UNCHANGED successor,
         rowLock[r] \in {e, NoEditor} \/ ~Exists(r)
  PROVE  Inv'
<1>1. version' \in [Records -> Nat] /\ version'[r] = v
      /\ \A x \in Records \ {r} : version'[x] = version[x]
  BY DEF Inv, Types
<1>2. \A x \in Records : Exists(x) => Exists(x)'
  BY <1>1 DEF Exists
<1>3. rowLock[r] \notin Editors \ {e}
  BY Names DEF Inv, HolderInv
<1>4. NoSupersedeCycle'
  BY DEF Inv, NoSupersedeCycle
<1>. QED
  BY <1>1, <1>2, <1>3, <1>4, EndStep DEF Inv, Types

\* What a request that is about to write goes by.
LEMMA AboutToWrite ==
  ASSUME Inv, NEW e \in Editors, pc[e] \in {"link", "write"}
  PROVE  /\ Asked(req[e]) /\ Found(e) /\ req[e] \in Requested
         /\ req[e].kind \in {"edit", "toggle", "supersede"} => rowLock[req[e].rec] = e /\ req[e].version > 0
         /\ pc[e] = "link" => /\ NewVersion(e, req[e].rec) \in Nat /\ NewVersion(e, req[e].rec) > 0
                              /\ req[e].taken \in Nat
<1>1. Asked(req[e]) /\ Found(e) /\ req[e] \in Requested
  BY DEF Inv, RequestInv, Types
<1>2. req[e].kind \in {"edit", "toggle", "supersede"} => rowLock[req[e].rec] = e /\ req[e].version > 0
  BY <1>1 DEF Asked, Found, HasRow, RowsToLock
<1>3. pc[e] = "link" => /\ NewVersion(e, req[e].rec) \in Nat /\ NewVersion(e, req[e].rec) > 0
                        /\ req[e].taken \in Nat
  BY <1>1 DEF NewVersion, Asked, Found, Inv, Types, Requested
<1>. QED
  BY <1>1, <1>2, <1>3

LEMMA CommitRecordInv ==
  \A e \in Editors :
    Inv /\ (CommitEdit(e) \/ CommitToggle(e) \/ CommitPrice(e) \/ CommitCreate(e)) => Inv'
<1>. SUFFICES ASSUME Inv, NEW e \in Editors,
                     CommitEdit(e) \/ CommitToggle(e) \/ CommitPrice(e) \/ CommitCreate(e)
              PROVE  Inv'
  OBVIOUS
<1>. DEFINE r == req[e].rec
            v == NewVersion(e, r)
<1>1. pc[e] = "link"
  BY DEF CommitEdit, CommitToggle, CommitPrice, CommitCreate, Ready
<1>2. /\ r \in Records /\ v \in Nat /\ v > 0 /\ req[e].taken \in Nat
      /\ req[e].kind \in {"edit", "toggle"} => rowLock[r] = e
  BY <1>1, AboutToWrite DEF Asked
<1>3. CASE CommitPrice(e)
  <2>1. NoSupersedeCycle' /\ \A x \in Records : Exists(x) => Exists(x)'
    BY <1>3 DEF CommitPrice, Inv, NoSupersedeCycle, Exists
  <2>2. End(e, TRUE) /\ counter' \in Nat /\ UNCHANGED <<version, successor>>
    BY <1>2, <1>3 DEF CommitPrice, Record
  <2>. QED
    BY <2>1, <2>2, EndStep DEF Inv, Types
<1>4. CASE CommitEdit(e) \/ CommitToggle(e)
  <2>1. /\ version' = [version EXCEPT ![r] = v] /\ UNCHANGED successor /\ End(e, TRUE)
        /\ counter' = req[e].taken /\ req[e].kind \in {"edit", "toggle"}
    BY <1>4 DEF CommitEdit, CommitToggle, Record, Ready
  <2>. HIDE DEF r, v
  <2>. QED
    BY <1>2, <2>1, RowWritten
<1>5. CASE CommitCreate(e) /\ ~Refuse(e)
  <2>1. /\ version' = [version EXCEPT ![r] = v] /\ UNCHANGED successor /\ End(e, TRUE)
        /\ counter' = req[e].taken /\ ~Exists(r)
    BY <1>5 DEF CommitCreate, Record
  <2>. HIDE DEF r, v
  <2>. QED
    BY <1>2, <2>1, RowWritten
<1>. QED
  BY <1>3, <1>4, <1>5, RefuseInv

LEMMA CommitSupersedeInv == \A e \in Editors : Inv /\ CommitSupersede(e) => Inv'
<1>. SUFFICES ASSUME Inv, NEW e \in Editors, CommitSupersede(e),
                     NEW r, r = req[e].rec, NEW s, s = req[e].other
              PROVE  Inv'
  OBVIOUS
<1>1. /\ pc[e] = "link" /\ req[e].kind = "supersede" /\ End(e, TRUE) /\ counter' = req[e].taken
      /\ version' = [version EXCEPT ![r] = version[r] + 1]
      /\ successor' = [successor EXCEPT ![r] = s]
  BY DEF CommitSupersede, Ready, Record
<1>2. /\ r \in Records /\ s \in Records /\ s # r /\ successor[s] = NoRecord
      /\ rowLock[r] = e /\ req[e].taken \in Nat
  BY <1>1, AboutToWrite DEF Asked, Found
<1>3. /\ version' \in [Records -> Nat] /\ version'[r] = version[r] + 1 /\ version[r] \in Nat
      /\ \A x \in Records \ {r} : version'[x] = version[x] /\ successor'[x] = successor[x]
      /\ successor' \in [Records -> Records \cup {NoRecord}] /\ successor'[r] = s
  BY <1>1, <1>2 DEF Inv, Types
<1>4. \A x \in Records : Exists(x) => Exists(x)'
  BY <1>3 DEF Exists
<1>5. NoSupersedeCycle'
  <2>. SUFFICES ASSUME NEW S \in SUBSET Records, S # {} PROVE \E x \in S : successor'[x] \notin S
    BY DEF NoSupersedeCycle
  <2>1. CASE s \in S
    BY <1>2, <1>3, <2>1, Names
  <2>2. CASE s \notin S /\ r \in S
    BY <1>3, <2>2
  <2>3. CASE r \notin S
    <3>1. PICK x \in S : successor[x] \notin S
      BY DEF Inv, NoSupersedeCycle
    <3>. QED
      BY <1>3, <2>3, <3>1
  <2>. QED
    BY <2>1, <2>2, <2>3
<1>6. \A x \in Records : rowLock[x] \in Editors \ {e} =>
        version'[x] = version[x] /\ successor'[x] = successor[x]
  BY <1>2, <1>3
<1>. QED
  BY <1>1, <1>2, <1>3, <1>4, <1>5, <1>6, EndStep

LEMMA CommitUnloggedInv == \A e \in Editors : Inv /\ (CommitSupplier(e) \/ CommitSettings(e)) => Inv'
<1>. SUFFICES ASSUME Inv, NEW e \in Editors, CommitSupplier(e) \/ CommitSettings(e), ~Refuse(e)
              PROVE  Inv'
  BY RefuseInv
<1>. DEFINE r == req[e].rec
            v == version[r] + 1
<1>1. End(e, TRUE) /\ UNCHANGED <<successor, counter>> /\ version' = [version EXCEPT ![r] = v]
  BY DEF CommitSupplier, CommitSettings, WriteUnlogged
<1>2. pc[e] \in {"write", "update", "insert"} /\ Asked(req[e]) /\ Found(e)
  BY DEF CommitSupplier, CommitSettings, Inv, RequestInv
<1>3. r \in Records /\ v \in Nat /\ v > 0 /\ counter \in Nat
  BY <1>2 DEF Asked, Inv, Types
<1>4. rowLock[r] \in {e, NoEditor} \/ ~Exists(r)
  <2>1. CASE CommitSettings(e)
    BY <2>1 DEF CommitSettings
  <2>2. CASE CommitSupplier(e)
    <3>1. pc[e] = "write" /\ (req[e].kind = "create" => ~Exists(r))
      BY <2>2 DEF CommitSupplier
    <3>2. req[e].kind = "price" => rowLock[r] = e
      BY <1>2, <3>1 DEF Found, HasRow, RowsToLock
    <3>3. req[e].kind \in {"edit", "toggle", "supersede", "create", "price"}
      BY <1>2 DEF Asked, Inv, Types, Requested
    <3>. QED
      BY <3>1, <3>2, <3>3, AboutToWrite
  <2>. QED
    BY <2>1, <2>2
<1>. HIDE DEF r, v
<1>. QED
  BY <1>1, <1>3, <1>4, RowWritten

------------------------------------------------------------------------------
LEMMA InvInit == Init => Inv
<1>. SUFFICES ASSUME Init PROVE Inv
  OBVIOUS
<1>1. Types
  BY Names DEF Init, Types, Places
<1>2. ASSUME NEW e \in Editors PROVE HolderInv(e) /\ PageInv(e) /\ RequestInv(e)
  BY Names DEF Init, HolderInv, PageInv, RequestInv
<1>3. NoSupersedeCycle
  BY Names DEF Init, NoSupersedeCycle
<1>. QED
  BY <1>1, <1>2, <1>3 DEF Inv

LEMMA PullOnlyReads == \A p \in Tills : Pull(p) => UNCHANGED <<tables, locks, page, requests>>
BY Zenon DEF Pull

LEMMA InvStep == Inv /\ [Next]_vars => Inv'
<1>. SUFFICES ASSUME Inv, [Next]_vars PROVE Inv'
  OBVIOUS
<1>1. ASSUME NEW e \in Editors, Edit(e) PROVE Inv'
  BY <1>1, ConsoleInv, SubmitInv, CreateInv, SetPriceInv DEF Edit
<1>2. ASSUME NEW e \in Editors, Serve(e) PROVE Inv'
  <2>1. CASE \E r \in Records : LockRow(e, r) \/ Link(e, r)
    BY <2>1, LockRowInv, LinkInv
  <2>2. CASE Decide(e) \/ NextVersion(e) \/ Upsert(e)
    BY <2>2, DecideInv, NextVersionInv, UpsertInv
  <2>3. CASE CommitEdit(e) \/ CommitToggle(e) \/ CommitPrice(e) \/ CommitCreate(e)
    BY <2>3, CommitRecordInv
  <2>4. CASE CommitSupersede(e) \/ CommitSupplier(e) \/ CommitSettings(e)
    BY <2>4, CommitSupersedeInv, CommitUnloggedInv
  <2>5. CASE BreakDeadlock(e)
    BY <2>5, RefuseInv DEF BreakDeadlock
  <2>. QED
    BY <1>2, <2>1, <2>2, <2>3, <2>4, <2>5 DEF Serve
<1>3. CASE UNCHANGED <<tables, locks, page, requests>>
  <2>1. UNCHANGED <<version, successor, counter, rowLock, shareLock, counterLock, page, pc, req, todo>>
    BY <1>3 DEF tables, locks, requests
  <2>2. Types'
    BY <2>1 DEF Inv, Types
  <2>3. ASSUME NEW e \in Editors PROVE HolderInv(e)' /\ PageInv(e)' /\ RequestInv(e)'
    <3>1. HolderInv(e)'
      BY <2>1 DEF Inv, HolderInv, Exists
    <3>2. PageInv(e)'
      BY <2>1 DEF Inv, PageInv, Exists
    <3>3. Asked(req[e])' <=> Asked(req[e])
      BY <2>1 DEF Asked, Exists
    <3>4. Found(e)' <=> Found(e)
      BY <2>1 DEF Found
    <3>. QED
      BY <2>1, <3>1, <3>2, <3>3, <3>4 DEF Inv, RequestInv
  <2>4. NoSupersedeCycle'
    BY <2>1 DEF Inv, NoSupersedeCycle
  <2>. QED
    BY <2>2, <2>3, <2>4 DEF Inv
<1>4. ASSUME NEW p \in Tills, Pull(p) PROVE Inv'
  BY <1>3, <1>4, PullOnlyReads
<1>. QED
  BY <1>1, <1>2, <1>3, <1>4 DEF Next, vars

LEMMA Invariant == Spec => []Inv
BY InvInit, InvStep, PTL DEF Spec

\* Branches never supersede one another in a circle, of whatever length and
\* however many supersedes run at once.
THEOREM NeverACycle == Spec => []NoSupersedeCycle
BY Invariant, PTL DEF Inv

------------------------------------------------------------------------------
(* What a save replaces *)

LEMMA RefusedWritesNothing ==
  ASSUME Inv, [Next]_vars, NEW e \in Editors, pc[e] = "lock", pc'[e] = "idle"
  PROVE  UNCHANGED version
<1>. pc \in [Editors -> Places]
  BY DEF Inv, Types
<1>1. ASSUME NEW f \in Editors, f # e, Edit(f) \/ Serve(f) PROVE FALSE
  <2>1. pc' = pc \/ \E at : pc' = [pc EXCEPT ![f] = at]
    BY <1>1 DEF Edit, OpenForm, Create, SetPrice, Refetch, CloseForm, Submit, Request, requests,
       Serve, LockRow, Link, Decide, NextVersion, CommitEdit, CommitToggle, CommitSupersede,
       CommitPrice, CommitCreate, CommitSupplier, Upsert, CommitSettings, BreakDeadlock,
       Refuse, Record, WriteUnlogged, End
  <2>. QED
    BY <1>1, <2>1
<1>2. ASSUME Edit(e) PROVE FALSE
  BY <1>2 DEF Edit, OpenForm, Create, SetPrice, Refetch, CloseForm, Submit, Request
<1>3. ASSUME Serve(e) PROVE UNCHANGED version
  BY <1>3 DEF Serve, LockRow, Link, Decide, NextVersion, CommitEdit, CommitToggle, CommitSupersede,
     CommitPrice, CommitCreate, CommitSupplier, Upsert, CommitSettings, BreakDeadlock, Ready,
     Refuse, tables
<1>4. ASSUME UNCHANGED pc PROVE FALSE
  BY <1>4
<1>. QED
  BY <1>1, <1>2, <1>3, <1>4, PullOnlyReads DEF Next, requests, vars

LEMMA NamesWhatItOverwrites ==
  ASSUME Inv, [Next]_vars, NEW e \in Editors, NEW r \in Records,
         Changes(e, r), req[e].version > 0
  PROVE  req[e].version = version[r]
<1>1. pc[e] # "lock"
  BY RefusedWritesNothing DEF Changes
<1>. QED
  BY <1>1 DEF Changes, Inv, RequestInv, Found

\* A change is never lost to one that did not name it: whatever requests are
\* under way, the record still is at the version the request names.
THEOREM OverwritesOnlyTheNamed == Spec => OverwritesWhatItNames
<1>1. Inv /\ [Next]_vars =>
        [\A e \in Editors, r \in Records :
           Changes(e, r) /\ req[e].version > 0 => req[e].version = version[r]]_vars
  BY NamesWhatItOverwrites
<1>. QED
  BY <1>1, Invariant, PTL DEF Spec, OverwritesWhatItNames

\* Settings that were saved are replaced only from a form filled from them.
THEOREM SettingsSeen == Spec => SettingsReplacedAreSeen
<1>1. Inv /\ [Next]_vars =>
        [\A e \in Editors, r \in Records :
           Kind[r] = "settings" /\ req[e].version > 0 => ReplacesWhatItShowed(e, r)]_vars
  <2>. SUFFICES ASSUME Inv, [Next]_vars, NEW e \in Editors, NEW r \in Records,
                       Kind[r] = "settings", req[e].version > 0, Changes(e, r)
                PROVE  req[e].filledFrom = version[r]
    BY DEF ReplacesWhatItShowed
  <2>1. req[e].filledFrom = req[e].version
    BY DEF Changes, Inv, RequestInv, Asked
  <2>. QED
    BY <2>1, NamesWhatItOverwrites
<1>. QED
  BY <1>1, Invariant, PTL DEF Spec, SettingsReplacedAreSeen

------------------------------------------------------------------------------
(* Circles of requests *)

\* Who waits, with no one at a link: for the next of its rows, held by the
\* other; or for the settings, of which it holds nothing itself.
LEMMA WhoWaits ==
  ASSUME Inv, NEW e \in Editors, NEW f \in Editors, WaitsFor(e, f),
         pc[e] # "link", pc[f] # "link"
  PROVE  \/ pc[e] = "lock" /\ \E r \in todo[e] : FirstRow(e, r) /\ rowLock[r] = f
         \/ /\ pc[e] = "update" /\ f # e /\ rowLock[req[e].rec] = f
            /\ \A r \in Records : rowLock[r] # e
<1>1. HolderInv(f) /\ HolderInv(e) /\ RequestInv(e)
  BY DEF Inv
<1>2. todo[e] \subseteq Records
  BY DEF Inv, Types
<1>3. counterLock # f /\ \A r \in Records : f \notin shareLock[r]
  BY <1>1 DEF HolderInv
<1>4. CASE pc[e] = "lock"
  BY <1>2, <1>3, <1>4 DEF WaitsFor
<1>5. CASE pc[e] = "update"
  <2>1. f # e /\ rowLock[req[e].rec] = f
    BY <1>5 DEF WaitsFor
  <2>2. Asked(req[e]) /\ Kind[req[e].rec] = "settings"
    BY <1>1, <1>5 DEF RequestInv, Found
  <2>3. RowsToLock(req[e]) = {req[e].rec}
    BY <2>2 DEF Asked, RowsToLock
  <2>. QED
    BY <1>1, <1>5, <2>1, <2>3 DEF HolderInv
<1>. QED
  BY <1>3, <1>4, <1>5 DEF WaitsFor

LEMMA NoOtherCircle == Inv => CirclesRunThroughLinks
<1>. SUFFICES ASSUME Inv, NEW S \in SUBSET Editors, Circular(S), \A e \in S : pc[e] # "link"
              PROVE  FALSE
  BY DEF CirclesRunThroughLinks
<1>. DEFINE T == {f \in S : \E e \in S : WaitsFor(e, f)}
            next(e) == CHOOSE r \in todo[e] : FirstRow(e, r)
            height == [e \in T |-> Rank[next(e)]]
<1>1. \A e \in S : \E f \in T : WaitsFor(e, f)
  BY DEF Circular
<1>2. T # {} /\ T \subseteq S
  BY <1>1 DEF Circular
<1>3. \A f \in T : \E r \in Records : rowLock[r] = f
  <2>. SUFFICES ASSUME NEW f \in T PROVE \E r \in Records : rowLock[r] = f
    OBVIOUS
  <2>1. PICK e \in S : WaitsFor(e, f)
    OBVIOUS
  <2>2. CASE \E r \in todo[e] : rowLock[r] = f
    BY <2>2 DEF Inv, Types
  <2>3. CASE pc[e] = "update" /\ rowLock[req[e].rec] = f
    BY <2>3 DEF Inv, RequestInv, Asked
  <2>. QED
    BY <2>1, <2>2, <2>3, WhoWaits
<1>4. ASSUME NEW f \in T
      PROVE  /\ next(f) \in todo[f] /\ FirstRow(f, next(f)) /\ pc[f] = "lock"
             /\ rowLock[next(f)] \in T
  <2>1. PICK g \in T : WaitsFor(f, g)
    BY <1>1
  <2>2. pc[f] = "lock" /\ \E r \in todo[f] : FirstRow(f, r) /\ rowLock[r] = g
    BY <1>3, <2>1, WhoWaits
  <2>3. todo[f] \subseteq Records
    BY DEF Inv, Types
  <2>4. \A r, s \in todo[f] : FirstRow(f, r) /\ FirstRow(f, s) => r = s
    BY <2>3, Names DEF FirstRow
  <2>. QED
    BY <2>2, <2>4
<1>5. \A f \in T : next(f) \in Records /\ height[f] \in Nat
  BY <1>4, Names DEF Inv, Types
<1>6. \A f \in T : \E g \in T : height[f] < height[g]
  <2>. SUFFICES ASSUME NEW f \in T, NEW g, g = rowLock[next(f)]
                PROVE  g \in T /\ height[f] < height[g]
    OBVIOUS
  <2>1. g \in T /\ pc[g] = "lock" /\ next(g) \in todo[g] /\ HolderInv(g)
    BY <1>4 DEF Inv
  <2>2. Rank[next(f)] < Rank[next(g)]
    BY <1>5, <2>1 DEF HolderInv
  <2>. QED
    BY <2>1, <2>2
<1>7. IsFiniteSet(T)
  BY FS_Subset, MasterDataAssumption
<1>8. \A f \in T : height[f] \in Nat
  BY <1>5
<1>. HIDE DEF T, height
<1>9. PICK m \in T : \A f \in T : height[f] <= height[m]
  BY <1>2, <1>7, <1>8, GreatestExists
<1>10. PICK g \in T : height[m] < height[g]
  BY <1>6, <1>9
<1>. QED
  BY <1>8, <1>9, <1>10

\* Two supersedes, or any number of edits, never wait for one another in a
\* circle: the rows are locked in the order of their ids, and the counter last.
\* A circle needs a request that inserts a row pointing at another's.
THEOREM OnlyLinksCircle == Spec => []CirclesRunThroughLinks
BY Invariant, NoOtherCircle, PTL

------------------------------------------------------------------------------
(* What a POS has applied *)

\* Rows of the log have versions of their own, none above the counter; and
\* whoever is to write the next one has the counter to itself.
LogInv ==
  /\ IsFiniteSet(log)
  /\ \A c \in log :
       c.version \in Nat /\ c.version <= counter /\ c.rec \in Records \cup {NoRecord}
  /\ \A c, d \in log : c.version = d.version => c = d
  /\ \A e \in Editors : pc[e] = "link" => counterLock = e /\ req[e].taken = counter + 1

\* A POS keeps something of every record, and asks from a version there was.
MirrorInv ==
  /\ cursor \in [Tills -> Nat]
  /\ DOMAIN mirror = Tills
  /\ \A p \in Tills : cursor[p] <= counter /\ mirror[p] = [r \in Records |-> mirror[p][r]]

FollowInv == LogInv /\ MirrorInv /\ MirrorIsPrefix

LEMMA FollowInit == Init => FollowInv
<1>. SUFFICES ASSUME Init PROVE FollowInv
  OBVIOUS
<1>1. LogInv
  BY FS_EmptySet DEF Init, LogInv
<1>2. MirrorInv
  BY DEF Init, MirrorInv
<1>3. MirrorIsPrefix
  BY DEF Init, MirrorIsPrefix
<1>. QED
  BY <1>1, <1>2, <1>3 DEF FollowInv

\* The log grows only by a row with the next version, written by the one who
\* holds the counter and then lets it go.
Appends(e) ==
  /\ pc[e] = "link" /\ End(e, TRUE) /\ counter' = req[e].taken
  /\ \E r \in Records \cup {NoRecord} : \E now :
       log' = log \cup {[version |-> req[e].taken, rec |-> r, now |-> now]}
  /\ UNCHANGED pos

LEMMA RecordAppends ==
  ASSUME Inv, NEW e \in Editors,
         CommitEdit(e) \/ CommitToggle(e) \/ CommitSupersede(e) \/ CommitPrice(e)
           \/ (CommitCreate(e) /\ ~Refuse(e))
  PROVE  Appends(e)
<1>1. pc[e] = "link"
  BY DEF CommitEdit, CommitToggle, CommitPrice, CommitCreate, CommitSupersede, Ready
<1>2. req[e].rec \in Records
  BY <1>1, AboutToWrite DEF Asked
<1>3. ASSUME NEW r \in Records \cup {NoRecord}, NEW now, Record(e, r, now) PROVE Appends(e)
  BY <1>1, <1>3 DEF Record, Appends
<1>. QED
  BY <1>2, <1>3 DEF CommitEdit, CommitToggle, CommitPrice, CommitCreate, CommitSupersede

\* What every other step leaves of the counter: no request gets to write but
\* the one that takes the next version.
KeepsCounter(e) ==
  /\ UNCHANGED <<log, counter, pos>>
  /\ \A f \in Editors \ {e} : pc'[f] = pc[f] /\ req'[f] = req[f]
  /\ \A f \in Editors \ {e} : counterLock = f => counterLock' = f
  /\ pc'[e] = "link" => counterLock' = e /\ req'[e].taken = counter + 1

LEMMA OthersKeepCounter ==
  ASSUME Inv, LogInv, NEW e \in Editors,
         Edit(e) \/ (\E r \in Records : LockRow(e, r) \/ Link(e, r)) \/ Decide(e) \/ NextVersion(e)
           \/ Refuse(e) \/ CommitSupplier(e) \/ Upsert(e) \/ CommitSettings(e)
  PROVE  KeepsCounter(e)
<1>. USE Names DEF Inv, Types, LogInv, KeepsCounter, tables, locks, requests, pos
<1>1. CASE Edit(e)
  <2>1. ASSUME NEW at \in {"lock", "counter", "write"}, NEW q, Request(e, at, q)
        PROVE  KeepsCounter(e)
    BY <2>1 DEF Request
  <2>2. CASE (\E r \in Records : OpenForm(e, r)) \/ Refetch(e) \/ CloseForm(e)
    BY <2>2 DEF OpenForm, Refetch, CloseForm
  <2>3. CASE \E r \in Records : Create(e, r) \/ \E b \in Records : SetPrice(e, r, b)
    BY <2>1, <2>3 DEF Create, SetPrice
  <2>4. CASE Submit(e)
    BY <2>1, <2>4 DEF Submit
  <2>. QED
    BY <1>1, <2>2, <2>3, <2>4 DEF Edit
<1>2. CASE \E r \in Records : LockRow(e, r) \/ Link(e, r)
  BY <1>2 DEF LockRow, TakeRow, Link
<1>3. CASE NextVersion(e)
  BY <1>3 DEF NextVersion, TakeVersion
<1>4. ASSUME NEW saved, End(e, saved), UNCHANGED <<log, counter, pos>> PROVE KeepsCounter(e)
  BY <1>4 DEF End
<1>5. CASE Refuse(e)
  BY <1>4, <1>5 DEF Refuse
<1>6. CASE Decide(e)
  BY <1>4, <1>5, <1>6 DEF Decide
<1>7. CASE CommitSupplier(e) \/ CommitSettings(e)
  BY <1>4, <1>5, <1>7 DEF CommitSupplier, CommitSettings, WriteUnlogged
<1>8. CASE Upsert(e)
  BY <1>8 DEF Upsert
<1>. QED
  BY <1>1, <1>2, <1>3, <1>5, <1>6, <1>7, <1>8

LEMMA EditorKinds ==
  ASSUME Inv, LogInv, NEW e \in Editors, Edit(e) \/ Serve(e)
  PROVE  Appends(e) \/ KeepsCounter(e)
BY RecordAppends, OthersKeepCounter DEF Serve, BreakDeadlock

LEMMA AppendFollows ==
  ASSUME Inv, FollowInv, NEW e \in Editors, Appends(e)
  PROVE  FollowInv'
<1>. USE DEF FollowInv
<1>1. PICK r \in Records \cup {NoRecord} : \E now :
        log' = log \cup {[version |-> counter + 1, rec |-> r, now |-> now]}
  BY DEF Appends, LogInv
<1>. PICK now : log' = log \cup {[version |-> counter + 1, rec |-> r, now |-> now]}
  BY <1>1
<1>. DEFINE row == [version |-> counter + 1, rec |-> r, now |-> now]
<1>2. counter' = counter + 1 /\ counter \in Nat
  BY DEF Appends, LogInv, Inv, Types
<1>3. \A f \in Editors : pc'[f] # "link"
  <2>1. pc'[e] = "idle"
    BY DEF Appends, End, Inv, Types
  <2>2. \A f \in Editors \ {e} : pc'[f] = pc[f] /\ pc[f] # "link"
    BY DEF Appends, End, LogInv, Inv, Types
  <2>. QED
    BY <2>1, <2>2
<1>4. LogInv'
  <2>1. IsFiniteSet(log')
    BY <1>1, FS_AddElement DEF LogInv
  <2>2. \A c \in log' : c \in log \/ c = row
    BY <1>1
  <2>3. \A c \in log : c.version # row.version
    BY <1>2 DEF LogInv
  <2>4. row.version = counter + 1 /\ row.rec \in Records \cup {NoRecord}
    OBVIOUS
  <2>5. \A c \in log' :
          c.version \in Nat /\ c.version <= counter' /\ c.rec \in Records \cup {NoRecord}
    <3>. HIDE DEF row
    <3>. QED
      BY <1>2, <2>2, <2>4 DEF LogInv
  <2>6. \A c, d \in log' : c.version = d.version => c = d
    <3>. HIDE DEF row
    <3>. QED
      BY <2>2, <2>3 DEF LogInv
  <2>. QED
    BY <1>3, <2>1, <2>5, <2>6 DEF LogInv
<1>5. MirrorInv' /\ cursor' = cursor /\ mirror' = mirror
  BY <1>2 DEF MirrorInv, Appends, pos
<1>6. ASSUME NEW p \in Tills, NEW x \in Records
      PROVE  {c \in log' : c.rec = x /\ c.version <= cursor'[p]}
               = {c \in log : c.rec = x /\ c.version <= cursor[p]}
  <2>1. row.version = counter + 1
    OBVIOUS
  <2>2. ~ (row.version <= cursor[p])
    BY <1>2, <2>1 DEF MirrorInv
  <2>3. log' = log \cup {row}
    BY <1>1
  <2>. HIDE DEF row
  <2>. QED
    BY <1>5, <2>2, <2>3
<1>7. MirrorIsPrefix'
  BY <1>5, <1>6 DEF MirrorIsPrefix
<1>. QED
  BY <1>4, <1>5, <1>7

\* f is the recursive function that applies to m the changes of a set of
\* places of the page, the last of them last.
Applies(f, m, changes, D) ==
  f = [s \in SUBSET D |-> IF s = {} THEN m ELSE Apply(f[s \ {Max(s)}], changes[Max(s)])]

\* The places of s whose change is of r; and what m becomes: of each record,
\* what the last change of it says.
About(s, changes, r) == {i \in s : changes[i].rec = r}

Latest(s, m, changes) ==
  [r \in Records |->
     IF About(s, changes, r) = {} THEN m[r] ELSE changes[Max(About(s, changes, r))].now]

LEMMA MaxOfPlaces ==
  ASSUME NEW n \in Nat, NEW s \in SUBSET (1 .. n), s # {}
  PROVE  Max(s) \in s /\ \A i \in s : Max(s) >= i
<1>1. IsFiniteSet(s)
  <2>1. IsFiniteSet(1 .. n)
    BY FS_Interval
  <2>. QED
    BY <2>1, FS_Subset
<1>. DEFINE f == [i \in s |-> i]
<1>2. PICK m \in s : \A i \in s : f[i] <= f[m]
  <2>1. \A i \in s : f[i] \in Nat
    OBVIOUS
  <2>. HIDE DEF f
  <2>. QED
    BY <1>1, <2>1, GreatestExists
<1>3. \A i \in s : m >= i
  BY <1>2
<1>. QED
  BY <1>3 DEF Max

\* The greatest of a set of places is the one no other is above.
LEMMA MaxIs ==
  ASSUME NEW n \in Nat, NEW s \in SUBSET (1 .. n), NEW m \in s, \A i \in s : m >= i
  PROVE  Max(s) = m
<1>. SUFFICES ASSUME NEW x, x = Max(s) PROVE x = m
  OBVIOUS
<1>1. x \in s /\ x >= m /\ m >= x
  BY MaxOfPlaces
<1>2. x \in Nat /\ m \in Nat
  BY <1>1
<1>3. x = m
  BY <1>1, <1>2
<1>. QED
  BY <1>3

LEMMA ApplyOneMore ==
  ASSUME NEW n \in Nat, NEW changes, \A i \in 1 .. n : changes[i].rec \in Records \cup {NoRecord},
         NEW m, NEW s \in SUBSET (1 .. n), s # {}
  PROVE  Latest(s, m, changes) = Apply(Latest(s \ {Max(s)}, m, changes), changes[Max(s)])
<1>. DEFINE k == Max(s)
            old == Latest(s \ {k}, m, changes)
<1>1. k \in s /\ \A i \in s : k >= i
  BY MaxOfPlaces
<1>2. changes[k].rec \in Records \cup {NoRecord}
  BY <1>1
<1>3. ASSUME NEW r \in Records, r # changes[k].rec
      PROVE  Latest(s, m, changes)[r] = old[r]
  <2>1. About(s, changes, r) = About(s \ {k}, changes, r)
    BY <1>3 DEF About
  <2>. QED
    BY <2>1 DEF Latest
<1>4. CASE changes[k].rec = NoRecord
  <2>1. \A r \in Records : Latest(s, m, changes)[r] = old[r]
    BY <1>3, <1>4, Names
  <2>2. Latest(s, m, changes) = old
    BY <2>1 DEF Latest
  <2>. QED
    BY <1>4, <2>2 DEF Apply
<1>5. CASE changes[k].rec # NoRecord
  <2>. DEFINE x == changes[k].rec
  <2>1. x \in Records
    BY <1>2, <1>5
  <2>2. Max(About(s, changes, x)) = k /\ About(s, changes, x) # {}
    <3>1. About(s, changes, x) \in SUBSET (1 .. n) /\ k \in About(s, changes, x)
          /\ \A i \in About(s, changes, x) : k >= i
      BY <1>1 DEF About
    <3>. HIDE DEF k, x
    <3>. QED
      BY <3>1, MaxIs
  <2>3. Latest(s, m, changes)[x] = changes[k].now
    BY <2>1, <2>2 DEF Latest
  <2>4. Apply(old, changes[k]) = [old EXCEPT ![x] = changes[k].now]
    BY <1>5 DEF Apply
  <2>5. DOMAIN old = Records /\ DOMAIN Latest(s, m, changes) = Records
    BY DEF Latest
  <2>6. \A r \in Records : Latest(s, m, changes)[r] = [old EXCEPT ![x] = changes[k].now][r]
    <3>. HIDE DEF k, old
    <3>. QED
      BY <1>3, <2>3, <2>5
  <2>7. Latest(s, m, changes) = [old EXCEPT ![x] = changes[k].now]
    <3>1. Latest(s, m, changes) = [r \in Records |-> Latest(s, m, changes)[r]]
      BY DEF Latest
    <3>2. [old EXCEPT ![x] = changes[k].now]
            = [r \in Records |-> [old EXCEPT ![x] = changes[k].now][r]]
      <4>. HIDE DEF old
      <4>. QED
        BY <2>5
    <3>. QED
      BY <2>6, <3>1, <3>2
  <2>. QED
    BY <2>4, <2>7
<1>. QED
  BY <1>4, <1>5

\* Applying the changes of a page in order leaves of each record what the
\* last change of it says, and of the others what there was.
LEMMA PageIsLatest ==
  ASSUME NEW n \in Nat, NEW changes, DOMAIN changes = 1 .. n,
         \A i \in 1 .. n : changes[i].rec \in Records \cup {NoRecord},
         NEW m, m = [r \in Records |-> m[r]]
  PROVE  ApplyAll(m, changes) = Latest(1 .. n, m, changes)
<1>. DEFINE D == 1 .. n
            F == CHOOSE f : Applies(f, m, changes, D)
            last == [s \in SUBSET D |-> Latest(s, m, changes)]
<1>1. ApplyAll(m, changes) = F[D]
  BY DEF ApplyAll, FoldLeft, MapThenFoldSet, Applies
<1>2. Applies(last, m, changes, D)
  <2>1. ASSUME NEW s \in SUBSET D
        PROVE  last[s] = IF s = {} THEN m ELSE Apply(last[s \ {Max(s)}], changes[Max(s)])
    <3>1. CASE s = {}
      BY <3>1 DEF Latest, About
    <3>2. CASE s # {}
      <4>1. last[s \ {Max(s)}] = Latest(s \ {Max(s)}, m, changes)
        OBVIOUS
      <4>2. Latest(s, m, changes) = Apply(Latest(s \ {Max(s)}, m, changes), changes[Max(s)])
        BY <3>2, ApplyOneMore
      <4>. QED
        BY <3>2, <4>1, <4>2
    <3>. QED
      BY <3>1, <3>2
  <2>2. last = [s \in SUBSET D |-> last[s]]
    OBVIOUS
  <2>. HIDE DEF last, D
  <2>. QED
    BY <2>1, <2>2 DEF Applies
<1>3. Applies(F, m, changes, D)
  <2>. HIDE DEF last
  <2>. QED
    BY <1>2
<1>4. \A s \in SUBSET D : F[s] = last[s]
  <2>. DEFINE C == {s \in SUBSET D : F[s] # last[s]}
  <2>. HIDE DEF F, last
  <2>. SUFFICES ASSUME C # {} PROVE FALSE
    OBVIOUS
  <2>1. IsFiniteSet(D)
    BY FS_Interval
  <2>2. PICK s \in C : \A u \in C : u \subseteq s => u = s
    <3>1. C \in SUBSET SUBSET D
      OBVIOUS
    <3>. HIDE DEF C
    <3>. QED
      BY <2>1, <3>1, MinimalSubset
  <2>3. /\ F[s] = IF s = {} THEN m ELSE Apply(F[s \ {Max(s)}], changes[Max(s)])
        /\ last[s] = IF s = {} THEN m ELSE Apply(last[s \ {Max(s)}], changes[Max(s)])
    BY <1>2, <1>3, <2>2 DEF Applies
  <2>4. s # {} => Max(s) \in s
    BY <2>2, MaxOfPlaces
  <2>5. s # {} => F[s \ {Max(s)}] = last[s \ {Max(s)}]
    BY <2>2, <2>4
  <2>. QED
    BY <2>2, <2>3, <2>5
<1>. QED
  <2>1. D \in SUBSET D /\ last[D] = Latest(D, m, changes)
    OBVIOUS
  <2>. QED
    BY <1>1, <1>4, <2>1

\* The rows of the log that are asked for, as they are listed: by version,
\* and all of them.
LEMMA ListedByVersion ==
  ASSUME LogInv, NEW S \in SUBSET log, NEW n, n = Cardinality(S), NEW s, s = ByVersion(S)
  PROVE  /\ n \in Nat /\ s \in [1 .. n -> S]
         /\ \A i, j \in 1 .. n : i < j => s[i].version < s[j].version
         /\ \A c \in S : \E i \in 1 .. n : s[i] = c
<1>. DEFINE R == {c \in S \X S : c[1].version < c[2].version}
<1>1. IsFiniteSet(S) /\ n \in Nat
  BY FS_Subset, FS_CardinalityType DEF LogInv
<1>2. \A c, d \in S : <<c, d>> \in R <=> c.version < d.version
  OBVIOUS
<1>3. /\ \A c \in S : c.version \in Nat
      /\ \A c, d \in S : c # d => c.version # d.version
  BY DEF LogInv
<1>. HIDE DEF R
<1>4. TotalOrder(R, S)
  BY <1>2, <1>3 DEF TotalOrder
<1>5. \A r : SortedBy(r, R, S) <=>
        /\ r \in [1 .. n -> S]
        /\ \A i, j \in 1 .. n : i < j => r[i].version < r[j].version
  BY <1>2 DEF SortedBy
<1>6. \E r : SortedBy(r, R, S)
  BY <1>1, <1>4, SortExists
<1>7. \E r \in [1 .. n -> S] : \A i, j \in 1 .. n : i < j => r[i].version < r[j].version
  BY <1>5, <1>6
<1>8. /\ s \in [1 .. n -> S]
      /\ \A i, j \in 1 .. n : i < j => s[i].version < s[j].version
  BY <1>7 DEF ByVersion
<1>9. \A c \in S : \E i \in 1 .. n : s[i] = c
  BY <1>1, <1>4, <1>5, <1>8, SortCovers
<1>. QED
  BY <1>1, <1>8, <1>9

\* What an answer holds: rows of the log past the version asked from, in
\* order, and every one of those up to the last it holds.
LEMMA AnswerIsPrefix ==
  ASSUME LogInv, NEW v \in Nat, NEW changes, changes = ChangesSince(v), changes # <<>>
  PROVE  \E k \in Nat \ {0} :
           /\ DOMAIN changes = 1 .. k /\ Last(changes) = changes[k]
           /\ \A i \in 1 .. k : changes[i] \in log /\ changes[i].version > v
           /\ \A i, j \in 1 .. k : i < j => changes[i].version < changes[j].version
           /\ \A c \in log : c.version > v /\ c.version <= changes[k].version =>
                \E i \in 1 .. k : changes[i] = c
<1>. DEFINE S == Since(v)
            n == Cardinality(S)
            s == ByVersion(S)
            k == IF n > Limit THEN Limit ELSE n
<1>1. S \in SUBSET log /\ \A c \in log : c \in S <=> c.version > v
  BY DEF Since, LogInv
<1>2. /\ n \in Nat /\ s \in [1 .. n -> S]
      /\ \A i, j \in 1 .. n : i < j => s[i].version < s[j].version
      /\ \A c \in S : \E i \in 1 .. n : s[i] = c
  <2>. HIDE DEF S
  <2>. QED
    BY <1>1, ListedByVersion
<1>3. s \in Seq(S) /\ Len(s) = n
  BY <1>2
<1>4. Limit \in Nat \ {0}
  BY MasterDataAssumption
<1>5. k \in Nat /\ k <= n
  BY <1>2, <1>4
<1>6. changes = SubSeq(s, 1, k)
  BY <1>3 DEF ChangesSince
<1>. HIDE DEF S, s, n, k
<1>7. /\ changes \in Seq(S) /\ Len(changes) = k
      /\ \A i \in 1 .. k : changes[i] = s[i]
  BY <1>2, <1>3, <1>5, <1>6
<1>8. k # 0
  BY <1>7
<1>9. DOMAIN changes = 1 .. k /\ Last(changes) = changes[k]
  BY <1>7 DEF Last
<1>10. \A i \in 1 .. k : i \in 1 .. n
  BY <1>2, <1>5
<1>11. /\ \A i \in 1 .. k : changes[i] \in log /\ changes[i].version > v
       /\ \A i, j \in 1 .. k : i < j => changes[i].version < changes[j].version
  BY <1>1, <1>2, <1>7, <1>10
<1>12. ASSUME NEW c \in log, c.version > v, c.version <= changes[k].version
       PROVE  \E i \in 1 .. k : changes[i] = c
  <2>1. PICK i \in 1 .. n : s[i] = c
    BY <1>1, <1>2, <1>12
  <2>2. ASSUME ~(i <= k) PROVE FALSE
    <3>1. k \in 1 .. n /\ k < i /\ k \in 1 .. k
      BY <1>2, <1>5, <1>8, <2>1, <2>2
    <3>2. s[k].version < c.version /\ changes[k] = s[k] /\ s[k] \in log
      BY <1>1, <1>2, <1>7, <2>1, <3>1
    <3>3. s[k].version \in Nat /\ c.version \in Nat
      BY <3>2 DEF LogInv
    <3>. QED
      BY <1>12, <3>2, <3>3
  <2>3. i \in 1 .. k
    BY <1>5, <2>1, <2>2
  <2>. QED
    BY <1>7, <2>1, <2>3
<1>. QED
  BY <1>5, <1>8, <1>9, <1>11, <1>12

LEMMA PullFollows ==
  ASSUME Inv, FollowInv, NEW p \in Tills, Pull(p)
  PROVE  FollowInv'
<1>. USE DEF FollowInv
<1>. DEFINE changes == ChangesSince(cursor[p])
<1>1. /\ changes # <<>>
      /\ mirror' = [mirror EXCEPT ![p] = ApplyAll(mirror[p], changes)]
      /\ cursor' = [cursor EXCEPT ![p] = Last(changes).version]
      /\ UNCHANGED <<log, counter, counterLock, pc, req>>
  BY DEF Pull, tables, locks, requests
<1>2. cursor[p] \in Nat /\ cursor[p] <= counter
  BY DEF MirrorInv
<1>. HIDE DEF changes
<1>3. PICK k \in Nat \ {0} :
        /\ DOMAIN changes = 1 .. k /\ Last(changes) = changes[k]
        /\ \A i \in 1 .. k : changes[i] \in log /\ changes[i].version > cursor[p]
        /\ \A i, j \in 1 .. k : i < j => changes[i].version < changes[j].version
        /\ \A c \in log : c.version > cursor[p] /\ c.version <= changes[k].version =>
             \E i \in 1 .. k : changes[i] = c
  BY <1>1, <1>2, AnswerIsPrefix DEF changes
<1>4. /\ \A i \in 1 .. k : changes[i].rec \in Records \cup {NoRecord} /\ changes[i].version \in Nat
      /\ changes[k].version \in Nat /\ changes[k].version <= counter
      /\ changes[k].version > cursor[p] /\ k \in 1 .. k
  BY <1>3 DEF LogInv
<1>5. /\ cursor' \in [Tills -> Nat] /\ DOMAIN mirror' = Tills
      /\ cursor'[p] = changes[k].version
      /\ \A q \in Tills \ {p} : cursor'[q] = cursor[q] /\ mirror'[q] = mirror[q]
  BY <1>1, <1>3, <1>4 DEF MirrorInv
<1>6. mirror'[p] = Latest(1 .. k, mirror[p], changes)
  <2>1. ApplyAll(mirror[p], changes) = Latest(1 .. k, mirror[p], changes)
    BY <1>3, <1>4, PageIsLatest DEF MirrorInv
  <2>. QED
    BY <1>1, <2>1 DEF MirrorInv
<1>7. mirror'[p] = [r \in Records |-> mirror'[p][r]]
  BY <1>6 DEF Latest
<1>8. LogInv'
  BY <1>1 DEF LogInv
<1>9. MirrorInv'
  BY <1>1, <1>4, <1>5, <1>7 DEF MirrorInv
<1>. DEFINE Heard(q, r) == {c \in log : c.rec = r /\ c.version <= cursor[q]}
            HeardThen(q, r) == {c \in log : c.rec = r /\ c.version <= cursor'[q]}
<1>10. ASSUME NEW r \in Records, HeardThen(p, r) # {}
       PROVE  \E c \in HeardThen(p, r) :
                mirror'[p][r] = c.now /\ \A d \in HeardThen(p, r) : d.version <= c.version
  <2>. DEFINE I == About(1 .. k, changes, r)
  <2>1. \A c \in HeardThen(p, r) : c \in Heard(p, r) \/ \E i \in I : changes[i] = c
    <3>. SUFFICES ASSUME NEW c \in HeardThen(p, r), c \notin Heard(p, r)
                  PROVE  \E i \in I : changes[i] = c
      OBVIOUS
    <3>1. c \in log /\ c.rec = r /\ c.version <= changes[k].version /\ ~(c.version <= cursor[p])
      BY <1>5
    <3>2. c.version > cursor[p]
      BY <1>2, <3>1 DEF LogInv
    <3>. QED
      BY <1>3, <3>1, <3>2 DEF About
  <2>2. CASE I = {}
    <3>1. HeardThen(p, r) = Heard(p, r)
      <4>1. \A c \in Heard(p, r) : c \in HeardThen(p, r)
        <5>. SUFFICES ASSUME NEW c \in Heard(p, r) PROVE c.version <= cursor'[p]
          OBVIOUS
        <5>1. c.version \in Nat /\ c.version <= cursor[p]
          BY DEF LogInv
        <5>. QED
          BY <1>2, <1>4, <1>5, <5>1
      <4>. QED
        BY <2>1, <2>2, <4>1
    <3>2. mirror'[p][r] = mirror[p][r]
      BY <1>6, <2>2 DEF Latest
    <3>. QED
      BY <1>10, <3>1, <3>2 DEF MirrorIsPrefix
  <2>3. CASE I # {}
    <3>. DEFINE m == Max(I)
    <3>1. I \in SUBSET (1 .. k)
      BY DEF About
    <3>2. m \in I /\ \A i \in I : m >= i
      <4>. HIDE DEF I
      <4>. QED
        BY <2>3, <3>1, MaxOfPlaces
    <3>3. mirror'[p][r] = changes[m].now
      BY <1>6, <2>3 DEF Latest
    <3>. HIDE DEF m
    <3>4. m \in 1 .. k /\ changes[m].rec = r /\ changes[m] \in log
      BY <1>3, <3>2 DEF About
    <3>5. changes[m].version <= changes[k].version
      <4>1. CASE m = k
        BY <1>4, <4>1
      <4>2. CASE m # k
        <5>1. m < k
          BY <3>4, <4>2
        <5>. QED
          BY <1>3, <1>4, <3>4, <5>1
      <4>. QED
        BY <4>1, <4>2
    <3>6. changes[m] \in HeardThen(p, r)
      BY <1>5, <3>4, <3>5
    <3>7. ASSUME NEW d \in HeardThen(p, r) PROVE d.version <= changes[m].version
      <4>1. CASE d \in Heard(p, r)
        <5>1. d.version \in Nat /\ d.version <= cursor[p] /\ changes[m].version > cursor[p]
              /\ changes[m].version \in Nat
          BY <1>3, <1>4, <3>4, <4>1 DEF LogInv
        <5>. QED
          BY <1>2, <5>1
      <4>2. CASE \E i \in I : changes[i] = d
        <5>1. PICK i \in I : changes[i] = d
          BY <4>2
        <5>2. i \in 1 .. k /\ m >= i /\ changes[i].version \in Nat /\ changes[m].version \in Nat
          BY <1>4, <3>1, <3>2, <3>4
        <5>3. CASE i = m
          BY <5>1, <5>2, <5>3
        <5>4. CASE i # m
          <6>1. i < m
            BY <3>4, <5>2, <5>4
          <6>2. changes[i].version < changes[m].version
            BY <1>3, <3>4, <5>2, <6>1
          <6>. QED
            BY <5>1, <5>2, <6>2
        <5>. QED
          BY <5>3, <5>4
      <4>. QED
        BY <2>1, <4>1, <4>2
    <3>. QED
      BY <3>3, <3>6, <3>7
  <2>. QED
    BY <2>2, <2>3
<1>11. ASSUME NEW q \in Tills \ {p}, NEW r \in Records, HeardThen(q, r) # {}
       PROVE  \E c \in HeardThen(q, r) :
                mirror'[q][r] = c.now /\ \A d \in HeardThen(q, r) : d.version <= c.version
  <2>1. HeardThen(q, r) = Heard(q, r) /\ mirror'[q] = mirror[q]
    BY <1>5
  <2>. QED
    BY <1>11, <2>1 DEF MirrorIsPrefix
<1>12. MirrorIsPrefix'
  BY <1>1, <1>10, <1>11 DEF MirrorIsPrefix
<1>. QED
  BY <1>8, <1>9, <1>12

LEMMA FollowStep == Inv /\ FollowInv /\ [Next]_vars => FollowInv'
<1>. SUFFICES ASSUME Inv, FollowInv, [Next]_vars PROVE FollowInv'
  OBVIOUS
<1>1. ASSUME NEW e \in Editors, Edit(e) \/ Serve(e) PROVE FollowInv'
  <2>1. CASE Appends(e)
    BY <2>1, AppendFollows
  <2>2. CASE KeepsCounter(e)
    <3>1. LogInv /\ UNCHANGED <<log, counter, cursor, mirror>>
      BY <2>2 DEF FollowInv, KeepsCounter, pos
    <3>2. ASSUME NEW f \in Editors, pc'[f] = "link"
          PROVE  counterLock' = f /\ req'[f].taken = counter + 1
      <4>1. CASE f = e
        BY <2>2, <3>2, <4>1 DEF KeepsCounter
      <4>2. CASE f # e
        BY <2>2, <3>1, <3>2, <4>2 DEF KeepsCounter, LogInv
      <4>. QED
        BY <4>1, <4>2
    <3>3. LogInv' /\ MirrorInv' /\ MirrorIsPrefix'
      BY <3>1, <3>2 DEF FollowInv, LogInv, MirrorInv, MirrorIsPrefix
    <3>. QED
      BY <3>3 DEF FollowInv
  <2>. QED
    BY <1>1, <2>1, <2>2, EditorKinds DEF FollowInv
<1>2. ASSUME NEW p \in Tills, Pull(p) PROVE FollowInv'
  BY <1>2, PullFollows
<1>3. CASE UNCHANGED vars
  BY <1>3 DEF vars, tables, locks, requests, pos, FollowInv, LogInv, MirrorInv, MirrorIsPrefix
<1>. QED
  BY <1>1, <1>2, <1>3 DEF Next

\* However many POS instances follow the log and however many people write it,
\* in whatever order their transactions commit, a POS keeps of each record
\* what the log last said of it, of all it said up to where the POS has come.
THEOREM NothingPassedOver == Spec => []MirrorIsPrefix
<1>1. Init => Inv /\ FollowInv
  BY InvInit, FollowInit
<1>2. Inv /\ FollowInv /\ [Next]_vars => (Inv /\ FollowInv)'
  BY InvStep, FollowStep
<1>. QED
  BY <1>1, <1>2, PTL DEF Spec, FollowInv
=============================================================================
