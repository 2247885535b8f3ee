SPECIFICATION FairSpec
CONSTANTS
  Caller = {op}
  MaxTrades = 1
  MaxRestarts = 1
INVARIANTS
  TypeOK
  TripStands
  OneFillNeverTrips
PROPERTIES
  BreachTrips
  DriftTrips
