SPECIFICATION Spec
CONSTANTS
  m = 8
  mb = 3
  smallnb = 2
  P = 1
  Q = 1
  DeviceSets = {{"CPU", "RECURSIVE"}}
INVARIANTS ZeroIffDefinite
CHECK_DEADLOCK FALSE
