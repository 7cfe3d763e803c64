CONSTANTS
  p1 = p1
  p2 = p2
  p3 = p3
  Processes = {p1, p2, p3}
  Session <- Sessions
  Untouchable = {}
  MaxDeaths = 2
  MaxStarts = 4
  Nobody = Nobody
SPECIFICATION FairLockSpec
INVARIANTS LockTypeOK OwnersAreAlone
PROPERTY SomebodyOwns
CHECK_DEADLOCK FALSE
