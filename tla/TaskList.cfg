CONSTANTS
  a = a
  b = b
  c = c
  None = None
  Absent = Absent
  Torn = Torn
  Keep = Keep
  Actors = {a, b, c}
  MaxId = 3
  Starts <- StartsSafe
SPECIFICATION Spec
INVARIANTS TypeOK IdsNeverReused ClaimsAreSound
PROPERTY RegistrySpec
CHECK_DEADLOCK FALSE
