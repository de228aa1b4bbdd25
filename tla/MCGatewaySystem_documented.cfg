\* High-risk work over the documented fleet, fault-free, no approval.
SPECIFICATION Spec
CONSTANTS
  primary = primary
  backup = backup
  Workflows = {w1}
  Tasks <- MCDemo
  Forced <- MCSelected
  Budget = 9
  CallTokens = {1}
  Parses = {TRUE}
  Decisions <- MCDenied
  Faults = {"model"}
  Registry <- MCRegistry
  Serves <- MCDocumentedFleet
  Tier <- MCTier
  Retries = 2
  Failures <- MCNone
  TransportThrows = FALSE
INVARIANTS
  HighRiskHalts
CHECK_DEADLOCK FALSE
