SPECIFICATION FairSpec
CONSTANTS
  thcnt = 3
  Calls = 4
  amx <- Amx
PROPERTIES ImplementsPivotReduction EveryCallReturns
CHECK_DEADLOCK FALSE
