\* Two callers spend under shared budgets.
SPECIFICATION Spec
CONSTANTS
  Callers = {c1, c2}
  Workflows = {w1, w2}
  AgentIds = {a1}
  LastDay = 2
  Limits <- MCLimits
  RouterBudget = 1
  Estimates = {1}
  MaxCost = 2
SYMMETRY MCSymmetry
INVARIANTS
  TypeOK
  OvershootBounded
  LedgersAgree
  RouterUndercounts
  VerdictIsStrictest
CHECK_DEADLOCK FALSE
