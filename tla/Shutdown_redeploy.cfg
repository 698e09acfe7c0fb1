SPECIFICATION FairSpec
CONSTANTS
  Slots = {s1, s2, s3}
  None = None
INVARIANTS
  TypeOK
  NothingTornOut
PROPERTIES
  AlwaysExits
CHECK_DEADLOCK FALSE
