SPECIFICATION Spec
CONSTANTS
  Records <- MCRecords
  Kind <- MCKind
  Rank <- MCRank
  Existing = {"m", "g", "b1"}
  Editors = {e1, e2}
  Tills = {p1}
  Limit = 2
  MaxVersion = 2
  MaxCounter = 3
  NoRecord = NoRecord
  NoEditor = NoEditor
SYMMETRY Symmetry
CHECK_DEADLOCK FALSE
INVARIANTS MirrorIsPrefix NoSupersedeCycle CirclesRunThroughLinks
PROPERTIES OverwritesWhatItNames SettingsReplacedAreSeen
