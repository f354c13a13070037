SPECIFICATION Spec
CONSTANTS
  Boms = {"cut", "slice"}
  Orders = {"o1", "o2"}
  Planners = {p1}
  Cooks = {c1}
  OpeningLots <- MCOpeningLots
  Number <- MCNumber
  OpeningCost <- MCOpeningCost
  OpeningExpiry <- MCOpeningExpiry
  ShelfLife <- MCShelfLife
  Recipes <- MCRecipes
  RatioTotal = 3
  Planned = {2}
  Taken = {1}
  Yields = {2}
  LastDay = 2
  MaxVersions <- MCMaxVersions
  Beginnings <- MCBeginnings
  MaxRevision = 2
  MaxElsewhere = 1
  NoBom = NoBom
  NoOrder = NoOrder
CHECK_DEADLOCK FALSE
INVARIANTS OrderFollowsItsVersion TracesReach ValueConserved NothingOutlivesItsInputs
