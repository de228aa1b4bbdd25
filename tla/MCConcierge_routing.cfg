\* Two callers over three containers; every way a delivery can end.
SPECIFICATION FairSpec
CONSTANTS
  p1 = p1
  p2 = p2
  b1 = b1
  Callers = {r1, r2}
  Classes = {"cloud-reasoning", "cloud-coding"}
  Registry <- MCRegistry
  Serves <- MCServes
  Tier <- MCTier
  Retries = 2
  Failures <- MCFailures
  TransportThrows = TRUE
INVARIANTS
  TypeOK
  NoDowngrade
  TierOrder
  ReportIsHonest
  AttemptsBounded
PROPERTIES
  OutageEarned
  GivingUpMarks
  Settles
  KeepsContract
