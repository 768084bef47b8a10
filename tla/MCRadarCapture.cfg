SPECIFICATION Spec
CONSTANTS
  PacketLen = 3
  Counter = 8
  Starts = {1, 6}
  Chunks = {2}
  WireRoom = 1
  MaxFrames = 3
  MaxHarm = 1
  MaxResets = 1
  MaxRefusals = 1
  MaxHealths = 2
INVARIANTS
  CleanEndIsWhole
  LoggedIsRaw
PROPERTY Implements
CHECK_DEADLOCK FALSE
