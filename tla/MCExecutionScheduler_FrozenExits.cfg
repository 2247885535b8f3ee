SPECIFICATION Spec
CONSTANTS
  e1 = e1
  e2 = e2
  x1 = x1
  kEntry = kEntry
  kExit1 = kExit1
  NIFTY = NIFTY
  NoIntent = NoIntent
  Mode = {"PAPER", "LIVE"}
  LiveMode = {"LIVE"}
  StartMode = "PAPER"
  Key = {kEntry, kExit1}
  Symbol = {NIFTY}
  Intent <- IntentModes
  Attr <- AttrModes
  InitialHeld <- HeldOne
  MaxQueue = 1
PROPERTIES
  ReductionsFlowUnderKill
