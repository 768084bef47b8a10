SPECIFICATION Spec
CONSTANTS
  Profiles = {0, 1, 2}
  AckTimeout = 2
  RetryDelay = 1
  MaxRequests = 4
  MaxChanges = 3
INVARIANTS
  CameraMatches
