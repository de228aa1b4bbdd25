\* Unusable model output: does a completed loop hold a build?
SPECIFICATION Spec
CONSTANTS
  Workflows = {w1}
  Tasks <- MCAllTasks
  Forced <- MCSelected
  Budget = 9
  CallTokens = {1, 3}
  Parses = {TRUE, FALSE}
  Decisions <- MCDecisions
  Faults = {}
INVARIANTS
  CompletedLoopWasBuilt
CHECK_DEADLOCK FALSE
