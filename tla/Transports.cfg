CONSTANTS
  Clock = Clock
  p = p
  q = q
  Callers = {p, q, Clock}
  Patient = {p}
  Events = {1, 2, 3}
  MaxBatch = 2
  Configs <- Uploaders
SPECIFICATION FairSpec
INVARIANTS TypeOK NothingVanishes ArriveInOrder
PROPERTIES ChannelSpec FlushMeansSent CallsReturn
CHECK_DEADLOCK FALSE
