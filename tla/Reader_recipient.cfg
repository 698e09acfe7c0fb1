SPECIFICATION FairSpec
CONSTANTS
  Links = {a, b}
  Opens = {1, 2}
  Threads = {t1, t2}
  MaxSlips = 1
  None = None
INVARIANTS
  TypeOK
  OpenedOnce
  GuardHolds
PROPERTIES
  SpinnerOnlyAwaitsBody
