----------------------------- MODULE StockLedger -----------------------------
(***************************************************************************)
(* What the stock ledger promises, with no database in sight (ADR-0003):   *)
(* documents are written and rewritten until they post; posting moves the  *)
(* balance of every lot at every location by exactly what the document     *)
(* says, in one step, and only if no plant, warehouse or in-transit        *)
(* balance would end below zero; a posted document never changes again,    *)
(* and is undone once at most, by another posted document.                 *)
(*                                                                         *)
(* Module Posting, the transactions, row locks and statements that do it,  *)
(* implements this specification.                                          *)
(***************************************************************************)
EXTENDS Integers

CONSTANTS
  Docs,       \* stock documents, reversals included
  Keys,       \* (lot, location) pairs: one balance each
  Strict,     \* the keys of locations other than branches
  Changes,    \* the net changes a document may make: functions Keys -> Int
  Opening,    \* the stock that was there at the start
  NoDoc       \* "reverses nothing"

VARIABLES
  status,     \* "none", "open" (still being worked on) or "posted"
  lines,      \* the net change a document's lines make
  reverses,   \* the document a reversal negates
  balance     \* what each lot holds at each location

vars == <<status, lines, reverses, balance>>

Negated(c) == [k \in Keys |-> 0 - c[k]]

Moved(c) == [k \in Keys |-> balance[k] + c[k]]

\* A plant, warehouse or in-transit balance may not be taken below zero.
Fits(c) == \A k \in Strict : c[k] # 0 => balance[k] + c[k] >= 0

Init ==
  /\ status = [d \in Docs |-> "none"]
  /\ lines = [d \in Docs |-> [k \in Keys |-> 0]]
  /\ reverses = [d \in Docs |-> NoDoc]
  /\ balance = Opening

Write(d) ==
  /\ status[d] # "posted"
  /\ status' = [status EXCEPT ![d] = "open"]
  /\ \E c \in Changes : lines' = [lines EXCEPT ![d] = c]
  /\ UNCHANGED <<reverses, balance>>

Post(d) ==
  /\ status[d] = "open"
  /\ Fits(lines[d])
  /\ status' = [status EXCEPT ![d] = "posted"]
  /\ balance' = Moved(lines[d])
  /\ UNCHANGED <<lines, reverses>>

\* r is the new document that negates o.
Reverse(r, o) ==
  /\ status[r] = "none"
  /\ status[o] = "posted"
  /\ reverses[o] = NoDoc
  /\ \A d \in Docs : reverses[d] # o
  /\ Fits(Negated(lines[o]))
  /\ status' = [status EXCEPT ![r] = "posted"]
  /\ lines' = [lines EXCEPT ![r] = Negated(lines[o])]
  /\ reverses' = [reverses EXCEPT ![r] = o]
  /\ balance' = Moved(Negated(lines[o]))

Next ==
  \/ \E d \in Docs : Write(d) \/ Post(d)
  \/ \E r, o \in Docs : Reverse(r, o)

Spec == Init /\ [][Next]_vars
=============================================================================
