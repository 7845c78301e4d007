SPECIFICATION FairSpec
CONSTANTS
  mt = 3
  nt = 3
  nbmaxthrd = 2
  Q = 2
  rank_of <- ColumnCyclic
INVARIANTS NoStrayDependency NoRace OperandsCurrent
PROPERTIES Completion
CHECK_DEADLOCK FALSE
