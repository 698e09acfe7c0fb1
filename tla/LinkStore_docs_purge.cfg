CONSTANTS
  Ids = {i1}
  Creates = {c1}
  Opens = {o1}
  Workers = {w1}
  Budgets = {1}
  LegacyBudget = 1
  MaxLifetime = 1
  Retention = 1
  MaxTime = 2
  None = None
SPECIFICATION Spec
INVARIANT TerminalHasNoCiphertext
