\* Three keys: an identity rotated before and its next key, or a setup and two more.
CONSTANTS
  Keys = {k1, k2, k3}
  Phrases = {p1, p2}
  Setups = {s1}
  Unlocks = {u1, u2}
  Rotates = {r1}
  Wipes = {w1}
  MaxEpoch = 1
  MaxSlips = 1
  None = None
SPECIFICATION FairSpec
INVARIANTS
  TypeOK
  KeysRetained
  WipeIrreversible
  MemoryMatchesDisk
PROPERTIES
  LockHolds
  RetiredArrive
