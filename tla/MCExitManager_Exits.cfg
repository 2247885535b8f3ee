SPECIFICATION Spec
CONSTANTS
  Mode = {PAPER}
  StartMode = PAPER
  Option = TRUE
  Rearm = rearm
  MaxRetries = 0
  Plan = {p1, p2}
  EntryQty = {3}
  Written = {TRUE, FALSE}
  MaxOut = 2
  MaxRestarts = 1
SYMMETRY PlansAlike
CONSTRAINT OneExitAtATime
INVARIANTS
  TypeOK
  Covered
  NeverThroughZero
PROPERTIES
  ReleasedByFill
