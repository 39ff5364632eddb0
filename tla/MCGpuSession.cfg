SPECIFICATION FairSession
CONSTANTS
  Instances = {i1, i2}
  NoId = NoId
  Grace = 2
PROPERTIES StopsOnIdleSamples ArmedSessionEnds
CHECK_DEADLOCK FALSE
