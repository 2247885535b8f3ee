SPECIFICATION FairSpec
CONSTANTS
  Mode = {"PAPER", "LIVE"}
  LiveMode = {"LIVE"}
  StartMode = "PAPER"
  Qty = 3
  Kinds = {"market", "limit"}
  Lossy = TRUE
INVARIANTS
  TypeOK
  FilledMeansWhole
PROPERTIES
  FateSpec
  TaskEnds
