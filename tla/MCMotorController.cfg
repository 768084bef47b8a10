\* GPIO calls of the main thread succeed; the two loops may fail anywhere.
CONSTANT GpioRaises = FALSE
SPECIFICATION Spec
INVARIANTS
  HeldStaysStill
  TargetIsWatched
PROPERTIES
  SilenceStops
  FaultStops
