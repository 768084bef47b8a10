\* Two requests, two posts at a time, up to two failures of any kind.
CONSTANTS
  r1 = r1
  r2 = r2
  p1 = p1
  p2 = p2
  Requests = {r1, r2}
  Phones = {r1}
  Slots = {p1, p2}
  BatchSize = 2
  FirstOverflow = 1025
  Installs = {{}, {"field", "receiver"}}
  FaultKinds = {"slow", "loss", "foreign", "abort", "crash"}
  MaxFaults = 2
SPECIFICATION Spec
INVARIANTS
  StoredOnce
PROPERTIES
  Implements
  Settles
