SPECIFICATION FairSpec
CONSTANTS
  Login = {broker, history, feed}
  Threshold = 3
INVARIANTS
  TypeOK
  QuotaSpared
  OutagesReported
PROPERTIES
  ClosesAgain
