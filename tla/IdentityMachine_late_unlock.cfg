SPECIFICATION Spec
CONSTANTS
  Keys = {k1}
  Setups = {}
  Unlocks = {u}
  Rotates = {}
  Wipes = {}
  Overlap = TRUE
  Heavy <- LightOnly
  MaxSecret = 1
  None = None
PROPERTY
  LockHolds
