SPECIFICATION FairSpec
CONSTANTS
  Loop = {l1, l2}
  Symbol = {x, y}
  Token = {x}
  MaxSymbols = 1
  MaxUpsets = 2
  Nobody = Nobody
INVARIANTS
  TypeOK
  SymbolsCarried
  OneDialAfterClose
PROPERTIES
  FeedReturns
