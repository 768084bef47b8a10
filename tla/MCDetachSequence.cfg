\* The head releases node1 while node2 is active too; one command besides the
\* release, one restart.
CONSTANTS
  Targets = {"head", "node1", "node2"}
  Actuator <- HeadReleases
  MaxCommands = 1
  MaxRestarts = 1
SPECIFICATION Spec
INVARIANTS
  PressedOnce
  DetachedStays
PROPERTIES
  PressOnlyAtRest
  EndsAtRest
CHECK_DEADLOCK FALSE
