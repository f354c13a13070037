SPECIFICATION Spec
CONSTANTS
  Documents = {d1, d2}
  Reversals = {r1, r2}
  Txns = {t1, t2}
  Keys <- MCKeys
  Rank <- MCRank
  Strict <- MCStrict
  Changes <- PlantMovements
  Opening <- TwoAtPlant
  OpeningRows = {"plant"}
  Moves <- Releases
  PostsFrom = {"draft", "released"}
  LastDay = 2
  MaxRevision = 2
  NoDoc = NoDoc
  NoTxn = NoTxn
SYMMETRY Symmetry
INVARIANTS TypeOK NoOversell SnapshotIsLedger ReversalsPairUp WaitsClimb
PROPERTIES PostsWhatWasSeen PostedIsFinal ImplementsStockLedger
