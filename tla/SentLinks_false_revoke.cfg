CONSTANTS
  Links = {l1}
  Opens = {}
  Calls = {c1}
  MaxSlips = 1
  None = None
SPECIFICATION Spec
INVARIANT
  ToldRevokedIsDead
CHECK_DEADLOCK FALSE
