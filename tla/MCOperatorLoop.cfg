SPECIFICATION Spec
CONSTANTS
  Nodes = {1, 2}
  DetachOrder <- TwoNodes
  DangerHold = 1
  WarnHold = 2
  StaleAfter = 3
  Cooldown = 2
  ProbeMax = 2
PROPERTIES
  DriveIsEarned
  StopStands
  DetachIsEarned
CHECK_DEADLOCK FALSE
