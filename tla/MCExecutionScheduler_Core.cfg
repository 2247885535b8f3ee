SPECIFICATION Spec
CONSTANTS
  e1 = e1
  e2 = e2
  x1 = x1
  kEntry = kEntry
  kExit1 = kExit1
  NIFTY = NIFTY
  NoIntent = NoIntent
  Mode = {"LIVE"}
  LiveMode = {"LIVE"}
  StartMode = "LIVE"
  Key = {kEntry, kExit1}
  Symbol = {NIFTY}
  Intent <- IntentDup
  Attr <- AttrDup
  InitialHeld <- HeldOne
  MaxQueue = 2
SYMMETRY EntriesAlike
CONSTRAINT RowsAreKept
INVARIANTS
  TypeOK
  TripStopsOpenings
  OvertakenAtMostOnce
PROPERTIES
  OnceSpec
  LedgerSpec
