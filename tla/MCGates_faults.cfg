\* An invocation and a use of an advanced strategy; the audit log and tools may throw.
SPECIFICATION Spec
CONSTANTS
  Calls = {c1}
  MoreTools <- MCMoreTools
  Users = {u1}
  Advanced = {"chain-of-debates", "aufheben"}
  Faults = {"audit", "run"}
INVARIANTS
  EffectIsCleared
  OutcomeIsTold
  SelectionMatchesAudit
