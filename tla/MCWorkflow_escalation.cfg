\* Escalation without any fault: does it defer to a human?
SPECIFICATION Spec
CONSTANTS
  Workflows = {w1}
  Tasks <- MCAllTasks
  Forced <- MCSelected
  Budget = 9
  CallTokens = {1, 3}
  Parses = {TRUE, FALSE}
  Decisions <- MCDecisions
  Faults = {}
INVARIANTS
  EscalationDefersToHuman
CHECK_DEADLOCK FALSE
