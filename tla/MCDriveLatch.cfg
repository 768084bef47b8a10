\* Up to two failed operations in every transaction, crashes anywhere.
CONSTANT MaxFaults = 2
SPECIFICATION LatchSpec
INVARIANTS
  HoldSurvivesCrash
  HardwareAgrees
  EnableSurvivesCrash
