SPECIFICATION FairSpec
CONSTANTS
  Documents = {d1, d2, d3}
  Reversals = {}
  Txns = {t1, t2}
  Keys <- MCKeys
  Rank <- MCRank
  Strict <- MCStrict
  Changes <- BranchArrivals
  Opening <- Empty
  OpeningRows = {}
  Moves <- NoMoves
  PostsFrom = {"draft"}
  LastDay = 1
  MaxRevision = 1
  NoDoc = NoDoc
  NoTxn = NoTxn
PROPERTIES EveryRequestEnds
