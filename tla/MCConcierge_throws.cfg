\* With transport throws: is a container given up on marked unhealthy?
SPECIFICATION Spec
CONSTANTS
  p1 = p1
  p2 = p2
  b1 = b1
  Callers = {r1}
  Classes = {"cloud-reasoning", "cloud-coding"}
  Registry <- MCRegistry
  Serves <- MCServes
  Tier <- MCTier
  Retries = 2
  Failures <- MCFailures
  TransportThrows = TRUE
INVARIANTS
  FailureMarksContainer
