SPECIFICATION FairSpec
CONSTANTS
  Pids = {p1, p2, p3}
  None = None
  MaxFaults = 3
  MaxRuns = 1
INVARIANTS
  UartExclusive
  EndedIsSilent
  FreshlyConfigured
  RunningIsWhole
  ShowsVerified
PROPERTIES
  StopEnds
  NoneLeftBehind
  Recovers
CHECK_DEADLOCK FALSE
