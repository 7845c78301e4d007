SPECIFICATION FairSpec
CONSTANTS
  mt = 4
  P = 2
  Q = 1
  rank_of <- Grid
INVARIANTS TypeOK NoStrayDependency OperandsCurrent NoRace
PROPERTIES Completion ImplementsTiledCholesky
CHECK_DEADLOCK FALSE
