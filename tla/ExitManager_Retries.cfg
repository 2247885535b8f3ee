SPECIFICATION FairSpec
CONSTANTS
  Mode = {PAPER, LIVE}
  StartMode = PAPER
  Option = TRUE
  Rearm = rearm
  MaxRetries = 2
  Plan = {p1}
  EntryQty = {2}
  Written = {TRUE}
  MaxOut = 1
  MaxRestarts = 1
PROPERTIES
  ExitsGetThrough
