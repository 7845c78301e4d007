CONSTANTS
  m = 3
  n = 5
  mb = 6
  nbthrd = 1
  Storages = {"TILED", "LAPACK"}
  PivotRows <- WidePivotRows
SPECIFICATION Spec
INVARIANT SwapsKnown
CHECK_DEADLOCK FALSE
