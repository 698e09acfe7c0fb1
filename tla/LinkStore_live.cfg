\* Liveness: no symmetry, one request of each kind.
CONSTANTS
  Ids = {i1}
  Creates = {c1}
  Opens = {o1}
  Workers = {w1}
  Budgets <- OneAny
  LegacyBudget <- OnlyAny
  MaxLifetime = 2
  Retention = 1
  MaxTime = 4
  None = None
SPECIFICATION FairSpec
PROPERTIES
  PastDueErased
  TerminalForgotten
