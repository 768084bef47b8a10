SPECIFICATION Spec
CONSTANTS
  Nodes = {1, 2}
  DetachOrder <- TwoNodes
  DangerHold = 1
  WarnHold = 2
  StaleAfter = 2
  Cooldown = 1
  ProbeMax = 1
CHECK_DEADLOCK FALSE
PROPERTIES
  RawDangerStops
