CONSTANTS
  a = a
  b = b
  c = c
  None = None
  Absent = Absent
  Torn = Torn
  Keep = Keep
  Actors = {a, b}
  MaxId = 2
  Starts <- StartsLive
SPECIFICATION FairSpec
PROPERTY OperationsEnd
CHECK_DEADLOCK FALSE
