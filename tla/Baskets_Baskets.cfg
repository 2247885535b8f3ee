SPECIFICATION FairSpec
CONSTANTS
  Mode = {"PAPER", "LIVE"}
  LiveMode = {"LIVE"}
  StartMode = "PAPER"
  Legs = 3
  Buys = {2}
  Lots = 2
  Kinds = {"opening", "closing"}
INVARIANTS
  TypeOK
  FilledByTrade
  SellsFollowBuys
  QueuedOnce
PROPERTIES
  RefusalIsFinal
  BasketEnds
