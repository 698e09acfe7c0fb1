SPECIFICATION Spec
CONSTANTS
  Keys = {k1, k2, k3}
  Setups = {}
  Unlocks = {u}
  Rotates = {r1, r2}
  Wipes = {}
  Overlap = TRUE
  Heavy <- LightOnly
  MaxSecret = 1
  None = None
INVARIANT
  KeysRetained
