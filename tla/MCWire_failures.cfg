\* Requests over a wire and servers that fail in every way the code knows.
SPECIFICATION FairSpec
CONSTANTS
  p1 = p1
  b1 = b1
  b2 = b2
  org = org
  dev = dev
  Core = core
  Callers = {r1}
  Classes = {"cloud-reasoning"}
  Registry <- MCRegistry
  Serves <- MCServes
  Tier <- MCTier
  Retries = 2
  Mode <- MCMode
  Materials = {org, dev}
  Parsed = {org, dev}
  FromDevCa = {dev}
  IssuedLater = {}
  OtherVersion = {b2}
  Detours = {"401", "404", "503", "null"}
INVARIANTS
  WorkAccounted
  ProductionTrust
PROPERTIES
  ConciergeBehaves
  Resolves
CHECK_DEADLOCK FALSE
