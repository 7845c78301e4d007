SPECIFICATION FairSpec
CONSTANTS
  mt = 3
  P = 2
  Q = 1
  rank_of <- Grid
INVARIANTS NoStrayDependency OperandsCurrent NoRace
PROPERTIES Completion
CHECK_DEADLOCK FALSE
