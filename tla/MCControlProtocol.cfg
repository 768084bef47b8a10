\* Two sessions over a table of one: every delay, loss, repetition and order of
\* three
\* datagrams of the one session and two of the other, with evictions, re-entries
\* and restarts.
CONSTANTS
  s1 = s1
  s2 = s2
  Sessions = {s1, s2}
  MaxSessions = 1
  TTL = 1
  Origin <- TwoOrigins
  MaxSeq <- ThreeAndTwo
  MaxClock = 3
SPECIFICATION Spec
INVARIANTS
  AppliedInOrder
  AppliedFresh
  PromptNotRefused
  BaselineIsStop
