SPECIFICATION DriversSpec
CONSTANTS
  m = 7
  mb = 3
  smallnb = 2
  P = 2
  Q = 1
  DeviceSets = {{"CPU"}, {"CPU", "RECURSIVE"}, {"CPU", "CUDA", "RECURSIVE"}}
  Threads = {"caller", "body", "other"}
  Addresses = {1, 2, 3, 4}
  Calls <- MCCalls
INVARIANTS SequentialExact NoFalseAlarm TypesExact TableClean LegalSolved FailureStops TogetherIfReduced
CHECK_DEADLOCK FALSE
