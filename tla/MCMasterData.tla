----------------------------- MODULE MCMasterData -----------------------------
(* Small instances of MasterData for TLC.                                  *)
EXTENDS MasterData, TLC

\* A menu item and its modifier group, two branches of which one is still to
\* be created, the settings, never saved yet, and a supplier to be created.
MCRecords == {"m", "g", "b1", "b2", "s", "v"}

MCKind == [r \in MCRecords |->
  CASE r = "m" -> "menu_item" [] r = "g" -> "group" [] r = "s" -> "settings"
    [] r = "v" -> "supplier" [] OTHER -> "branch"]

MCRank == [r \in MCRecords |->
  CASE r = "m" -> 1 [] r = "g" -> 2 [] r = "b1" -> 3 [] r = "b2" -> 4 [] r = "s" -> 5 [] OTHER -> 6]

Symmetry == Permutations(Editors)
=============================================================================
