CONSTANTS
  m = 13
  n = 4
  mb = 4
  nbthrd = 3
  Storages = {"TILED", "LAPACK"}
  PivotRows <- MCPivotRows
SPECIFICATION FairSpec
INVARIANT NoConflict
INVARIANT SameCall
INVARIANT PivotsUpToDate
INVARIANT Factorized
PROPERTY EveryThreadReturns
CHECK_DEADLOCK FALSE
