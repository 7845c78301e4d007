CONSTANTS
  Heights = {1, 5, 9}
  Widths = {3, 7}
  Grids <- MCGrids
  Shapes <- MCShapes
  ZeroTiles <- MCZeroTiles
SPECIFICATION MCSpec
INVARIANTS
  ListsAgree
  PanelReduced
  LevelsHold
  NormExact
  EveryProcessKnows
