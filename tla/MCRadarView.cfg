SPECIFICATION ViewSpec
CONSTANTS
  Gaps = {0, 1}
  Sightings <- NearestFirst
  Ttl = 1
  StaleAfter = 1
  FaultAfter = 2
  MaxFrames = 3
  MaxHarm = 1
  MaxUnread = 1
PROPERTIES
  LevelIsEarned
  RedStays
  LiveIsWhole
