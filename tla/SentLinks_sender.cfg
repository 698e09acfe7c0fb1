\* Two messages overlap each other, one revocation and the wipe; one slip is spent
\* anywhere.  No symmetry: a liveness property is checked.
CONSTANTS
  Links = {l1, l2}
  Opens = {o1}
  Calls = {c1}
  MaxSlips = 1
  None = None
SPECIFICATION FairSpec
INVARIANTS
  TypeOK
  NoOrphanRecord
  GoneIsGone
  HistoryExact
  CarefulRevocation
  NothingStranded
  CancelledStaysSilent
PROPERTIES
  OverlayOnlyAwaitsBody
\* Every message sent and every link dead: the sender may stop.
CHECK_DEADLOCK FALSE
