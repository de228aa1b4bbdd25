------------------------------- MODULE Gates --------------------------------
(***************************************************************************)
(* The two gates createHarpSystem sets before agents: the ToolRegistry and *)
(* the StrategyActivationPolicy.  They run side by side and have one thing *)
(* in common, the audit log, which may fail under either.                  *)
(***************************************************************************)
CONSTANTS Calls, MoreTools, Users, Advanced, Faults

VARIABLES tools, phase, agent, name, approved, run, trail, writeLost, reply

VARIABLES environment, stage, strategy, verdict, entry, sequence, seen

T == INSTANCE Tools

P == INSTANCE Activation

ASSUME MoreToolsAssumption == MoreTools \subseteq T!ToolDefinition
ASSUME AdvancedAssumption == Advanced \subseteq P!AdvancedStrategyName
ASSUME FaultsAssumption == Faults \subseteq {"audit", "run"}

toolVars == <<tools, phase, agent, name, approved, run, trail, writeLost, reply>>

policyVars == <<environment, stage, strategy, verdict, entry, sequence, seen>>

vars == <<toolVars, policyVars>>

Init == T!Init /\ P!Init

Next ==
  \/ T!Next /\ UNCHANGED policyVars
  \/ P!Next /\ UNCHANGED toolVars

Spec == Init /\ [][Next]_vars

-----------------------------------------------------------------------------
(* No tool has run without permission and, where it changes state,         *)
(* approval.                                                               *)
EffectIsCleared == T!EffectIsCleared

(* Of a tool's invocation, the reply, the trail and what happened agree.   *)
OutcomeIsTold == T!OutcomeIsTold

(* Of an advanced strategy, the audit and the sequence handed out agree as *)
(* long as the environment stays as it is.                                 *)
SelectionMatchesAudit == P!SelectionMatchesAudit
=============================================================================
