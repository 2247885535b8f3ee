SPECIFICATION Spec
CONSTANTS
  MaxLoop = 2
  LastDay = 2
  TradingDays = {1, 2}
  DayLength = 40
  Premarket = 10
  McxOpen = 10
  EquityOpen = 12
  SnapshotStart = 19
  EquityCutoff = 21
  EquityEod = 22
  EquityClose = 25
  McxEod = 32
  McxClose = 35
  Interval = 3
  LongSleep = 6
  MaxTick = 2
  AutoStart = TRUE
  Stored = {TRUE, FALSE}
  MaxCommands = 2
INVARIANTS
  TypeOK
  OneLoop
  NothingCarried
PROPERTIES
  BaselineKept
CHECK_DEADLOCK FALSE
