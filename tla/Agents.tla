------------------------------- MODULE Agents -------------------------------
(***************************************************************************)
(* The Core Four agents and the task attributes they decide on: which      *)
(* model class an agent asks for, which artifact it emits, and whether the *)
(* result it builds asks for human approval.  Constant-level; no state.    *)
(***************************************************************************)
EXTENDS Naturals

AgentId == {"pharaoh", "horus-nexus", "anubis-sentinel", "ra"}

RiskLevel == {"low", "medium", "high", "critical"}

ModelClass == {"cloud-reasoning", "cloud-coding", "frontier-reasoning",
               "security-specialist", "long-context"}

ArtifactType == {"final_report", "review", "risk_report", "code",
                 "approval_request"}

(* The task attributes any decision of the core reads.  The optional       *)
(* booleans are tested only for === true (requiresRepoWrite,               *)
(* touchesSecrets) and === false (reversible), so two values are enough.   *)
AgentTask == [riskLevel : RiskLevel, requiresRepoWrite : BOOLEAN,
              touchesSecrets : BOOLEAN, reversible : BOOLEAN]

AgentResult == [agentId : AgentId, status : {"success", "blocked"},
                approvalRequired : BOOLEAN]

HighRisk(task) == task.riskLevel \in {"high", "critical"}

PreferredModel ==
  [agent \in AgentId |->
     IF agent \in {"horus-nexus", "ra"} THEN "cloud-coding" ELSE "cloud-reasoning"]

HighRiskModel ==
  [agent \in AgentId |->
     CASE agent = "horus-nexus"     -> "long-context"
       [] agent = "anubis-sentinel" -> "security-specialist"
       [] OTHER                     -> "frontier-reasoning"]

(* Fault seed: the risk level is not looked at.                            *)
ModelClassIgnoringRisk(agent, task) == PreferredModel[agent]

ModelClassFor(agent, task) ==
  IF HighRisk(task) THEN HighRiskModel[agent] ELSE PreferredModel[agent]

(* Fault seed: the security review is filed under another type.            *)
ArtifactTypeMislabelled ==
  [agent \in AgentId |->
     CASE agent = "pharaoh"         -> "final_report"
       [] agent = "horus-nexus"     -> "review"
       [] agent = "anubis-sentinel" -> "security_report"
       [] agent = "ra"              -> "code"]

ArtifactTypeOf ==
  [agent \in AgentId |->
     CASE agent = "pharaoh"         -> "final_report"
       [] agent = "horus-nexus"     -> "review"
       [] agent = "anubis-sentinel" -> "risk_report"
       [] agent = "ra"              -> "code"]

(* Fault seed: Anubis does not look at touchesSecrets.                     *)
AsksApprovalIgnoringSecrets(agent, task) ==
  \/ agent = "ra"
  \/ agent \in {"pharaoh", "anubis-sentinel"} /\ HighRisk(task)
  \/ agent = "anubis-sentinel" /\ task.requiresRepoWrite

(* approvalRequired of the result each agent builds from parsed output.    *)
AsksApproval(agent, task) ==
  \/ agent = "ra"
  \/ agent \in {"pharaoh", "anubis-sentinel"} /\ HighRisk(task)
  \/ agent = "anubis-sentinel" /\ (task.requiresRepoWrite \/ task.touchesSecrets)

BuildResult(agent, task) ==
  [agentId |-> agent, status |-> "success",
   approvalRequired |-> AsksApproval(agent, task)]

(* Model output that does not parse: block rather than guess.              *)
BuildBlockedResult(agent) ==
  [agentId |-> agent, status |-> "blocked", approvalRequired |-> TRUE]

ResultOf(agent, task, parsed) ==
  IF parsed THEN BuildResult(agent, task) ELSE BuildBlockedResult(agent)
=============================================================================
