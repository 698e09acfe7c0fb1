\* A cancelled send and the submit that follows it.
CONSTANTS
  Links = {l1, l2}
  Opens = {}
  Calls = {}
  MaxSlips = 1
  None = None
SPECIFICATION Spec
INVARIANT
  CancelledNotAnnounced
CHECK_DEADLOCK FALSE
