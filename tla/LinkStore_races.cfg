\* Two creates naming one id, two opens, one sweep; every interleaving.  Two opens
\* overspend a budget of 1, meet one of 2 and never spend an unlimited one.
CONSTANTS
  Ids = {i1}
  Creates = {c1, c2}
  Opens = {o1, o2}
  Workers = {w1}
  Budgets <- OneTwoAny
  LegacyBudget = 2
  MaxLifetime = 1
  Retention = 0
  MaxTime = 2
  None = None
SYMMETRY Symmetry
SPECIFICATION Spec
INVARIANTS
  TypeOK
  OpensAccounted
  WithinBudget
  CiphertextRationed
  NeverLiveButEmpty
  OnlyPastDueAwaitsErasure
  RevokedByRightHolder
PROPERTIES
  RowKeepsIdentity
  TerminalIsFinal
  NoLateOpen
  KeepsPromise
