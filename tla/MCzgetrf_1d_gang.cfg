SPECIFICATION FairSpec
CONSTANTS
  mt = 5
  nt = 2
  nbmaxthrd = 2
  Q = 2
  rank_of <- ColumnCyclic
INVARIANTS ProductsOfFactors
CHECK_DEADLOCK FALSE
