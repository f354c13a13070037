------------------------------- MODULE MCSales -------------------------------
(* A small instance of SalesConsumption for TLC.                            *)
EXTENDS SalesConsumption

\* A sale of the first day, one dated the next day by a clock a little fast,
\* and one by a clock far too fast.
MCSales == {"today", "midnight", "ahead"}
MCDay == [s \in MCSales |-> IF s = "today" THEN 1 ELSE 2]
MCAhead == {"ahead"}
=============================================================================
