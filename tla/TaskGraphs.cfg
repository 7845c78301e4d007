CONSTANTS
  Sizes = {1, 2, 3}
  TreeHeights = {1, 3, 6}
  Interleaved = 6
SPECIFICATION Spec
INVARIANTS
  ArrowsMatch
  OneSource
  LocalMemory
  Current
  ConflictsOrdered
  ResultStored
  Complete
