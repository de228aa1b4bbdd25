\* Two workflows share a fleet that fails in every way; so do
\* their store, audit log and approval provider.
SPECIFICATION FairSpec
CONSTANTS
  primary = primary
  backup = backup
  Workflows = {w1, w2}
  Tasks <- MCTasks
  Forced <- MCVoting
  Budget = 2
  CallTokens = {1}
  Parses = {TRUE}
  Decisions <- MCDecisions
  Faults = {"model", "audit", "memory", "approval"}
  Registry <- MCRegistry
  Serves <- MCMixedFleet
  Tier <- MCTier
  Retries = 2
  Failures <- MCFailures
  TransportThrows = FALSE
INVARIANTS
  DeliveryHasCaller
  HighRiskStaysInClass
  FailedCallEndsRun
PROPERTIES
  WorkflowsBehave
  ConciergeBehaves
  Settles
CHECK_DEADLOCK FALSE
