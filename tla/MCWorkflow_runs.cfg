\* Every strategy, forced or selected, on every task, with every collaborator able to throw.
SPECIFICATION FairSpec
CONSTANTS
  Workflows = {w1}
  Tasks <- MCAllTasks
  Forced <- MCForced
  Budget = 9
  CallTokens = {1, 3}
  Parses = {TRUE, FALSE}
  Decisions <- MCDecisions
  Faults = {"audit", "memory", "approval", "model"}
INVARIANTS
  TypeOK
  GatedProposal
  TrailMatchesOutcome
  TrailMatchesResults
  EvidencePreserved
  SensitiveNeedsHuman
  StopsExactlyAtBlock
  BudgetOvershootBounded
  EscalatedNeverBuilt
PROPERTIES
  Settles
  KeepsContract
\* A call that has returned takes no further step.
CHECK_DEADLOCK FALSE
