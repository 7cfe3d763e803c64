CONSTANTS
  m1 = m1
  m2 = m2
  m3 = m3
  r1 = r1
  r2 = r2
  Messages = {m1, m2, m3}
  From <- Senders
  Lead = "lead"
  Protocol = {m3}
  Readers = {r1, r2}
  Setups <- Fresh
  MaxCrashes = 0
  None = None
  Absent = Absent
  Empty = Empty
  Corrupt = Corrupt
SPECIFICATION Spec
INVARIANT OnlyCrashesLoseMessages
CHECK_DEADLOCK FALSE
