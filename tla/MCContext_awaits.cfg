\* Loads and compactions while skills are registered and the thread grows.
SPECIFICATION Spec
CONSTANTS
  a = a
  b = b
  c = c
  x = x
  y = y
  i1 = i1
  i2 = i2
  i3 = i3
  Loads = {l1}
  Skills = {a, b, c}
  Selections <- MCSelections
  References = {x, y}
  Requests <- MCRequests
  Thread = {i1, i2, i3}
  Tokens <- MCTokens
  Claims <- MCClaims
  Threshold = 2
  Compactions = {k1, k2}
INVARIANTS
  ContextComplete
  RecordAccounts
CHECK_DEADLOCK FALSE
