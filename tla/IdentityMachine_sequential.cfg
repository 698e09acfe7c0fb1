SPECIFICATION Spec
CONSTANTS
  Keys = {k1, k2, k3}
  Setups = {s}
  Unlocks = {u}
  Rotates = {r}
  Wipes = {w}
  Overlap = FALSE
  Heavy <- EitherKdf
  MaxSecret = 3
  None = None
SYMMETRY Symmetry
INVARIANTS
  TypeOK
  KeysRetained
  MemoryMatchesDisk
  WipeIrreversible
PROPERTIES
  NeverOverwritten
