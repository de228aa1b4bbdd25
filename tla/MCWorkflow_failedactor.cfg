\* A model call throws: which agent does the failure name?
SPECIFICATION Spec
CONSTANTS
  Workflows = {w1}
  Tasks <- MCAllTasks
  Forced <- MCSelected
  Budget = 9
  CallTokens = {1, 3}
  Parses = {TRUE, FALSE}
  Decisions <- MCDecisions
  Faults = {"model"}
INVARIANTS
  FailureNamesFailedAgent
CHECK_DEADLOCK FALSE
