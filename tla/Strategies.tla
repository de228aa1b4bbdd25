----------------------------- MODULE Strategies -----------------------------
(***************************************************************************)
(* The six coordination strategies (pure planners), the approval gate's    *)
(* decision whether approval is needed, and the selector that scores the   *)
(* strategies.  Constant-level; no state.                                  *)
(***************************************************************************)
EXTENDS Agents, Sequences

StrategyName == {"sequential-review", "parallel-review", "arbitration",
                 "negotiation", "voting", "escalation"}

(* The agents a strategy runs, in order.                                   *)
SelectSequence(strategy) ==
  CASE strategy = "sequential-review" ->
         <<"pharaoh", "horus-nexus", "anubis-sentinel", "ra",
           "horus-nexus", "anubis-sentinel", "pharaoh">>
    [] strategy \in {"parallel-review", "arbitration"} ->
         <<"pharaoh", "horus-nexus", "anubis-sentinel", "pharaoh">>
    [] strategy = "negotiation" ->
         <<"pharaoh", "horus-nexus", "anubis-sentinel", "horus-nexus", "pharaoh">>
    [] strategy = "voting" ->
         <<"pharaoh", "ra", "horus-nexus", "anubis-sentinel", "pharaoh">>
    [] strategy = "escalation" ->
         <<"pharaoh", "anubis-sentinel", "pharaoh">>

AnyBlocked(results) ==
  \E i \in DOMAIN results : results[i].status = "blocked"

(* Fault seed: unusable output does not stop a strategy.                   *)
ShouldStopNever(strategy, results) == FALSE

(* The early-stop test after each agent.  The orchestrator returns at once *)
(* when the gate blocks, so blockedForApproval is false whenever it asks.  *)
ShouldStop(strategy, results) ==
  /\ strategy \in {"sequential-review", "parallel-review"}
  /\ AnyBlocked(results)

-----------------------------------------------------------------------------
(* Approval gate: state-changing action markers are substrings; an action  *)
(* is represented by whether it contains one.                              *)
StateChangingActions == {"repo.write", "repo:write", "schedule.create",
  "schedule:create", "deploy", "migration", "secrets", "auth.change",
  "billing", "delete"}

RequiresApproval(task, action) ==
  \/ HighRisk(task)
  \/ task.requiresRepoWrite
  \/ task.touchesSecrets
  \/ action \in StateChangingActions

-----------------------------------------------------------------------------
(* Strategy selection.                                                     *)

MustEscalate(task) ==
  \/ task.riskLevel = "critical"
  \/ task.touchesSecrets
  \/ ~task.reversible

RiskWeight ==
  [risk \in RiskLevel |->
     CASE risk = "low" -> 1 [] risk = "medium" -> 2
       [] risk = "high" -> 3 [] risk = "critical" -> 4]

(* The candidates in the selector's order; ties go to the earlier one.     *)
Candidates == <<"sequential-review", "parallel-review", "arbitration",
                "negotiation", "voting", "escalation">>

CoversPostBuildReview(strategy) ==
  LET seq == SelectSequence(strategy) IN
  \E i, j \in DOMAIN seq :
     /\ i < j
     /\ seq[i] = "ra"
     /\ seq[j] \in {"horus-nexus", "anubis-sentinel"}

(* The share of the base risk a strategy leaves, in percent.               *)
ResidualPercent(strategy) ==
  CASE strategy = "sequential-review" -> 50
    [] strategy = "escalation" -> 40
    [] OTHER -> IF CoversPostBuildReview(strategy) THEN 65 ELSE 80

(* Expected quality in percent: 45 plus 8 a step, at most 100.             *)
QualityPercent(steps) == IF 45 + 8 * steps > 100 THEN 100 ELSE 45 + 8 * steps

(* The composite score times 280000, the common denominator of its terms,  *)
(* so that the comparison is exact.  All candidates have at most 7 steps.  *)
Composite(strategy, risk) ==
  LET steps    == Len(SelectSequence(strategy))
      weight   == RiskWeight[risk]
      safety   == 315 * (400 - weight * ResidualPercent(strategy))
      quality  == 28 * (20 + 5 * weight) * QualityPercent(steps)
      cost     == 1500 * (4 - weight) * (7 - steps)
      time     == 2000 * (7 - steps)
      burden   == 500 * steps * weight
  IN  safety + quality + cost + time - burden

(* The head of the stably sorted ranking: no earlier candidate scores as   *)
(* much, no later one scores more.                                         *)
HeadsRanking(strategy, risk) ==
  \E i \in DOMAIN Candidates :
     /\ Candidates[i] = strategy
     /\ \A j \in DOMAIN Candidates :
          LET lead == Composite(strategy, risk) - Composite(Candidates[j], risk)
          IN  IF j < i THEN lead > 0 ELSE lead >= 0

(* Fault seed: only critical work is forced to escalate.                   *)
ChosenCriticalOnly(strategy, task) ==
  IF task.riskLevel = "critical" THEN strategy = "escalation"
                                 ELSE HeadsRanking(strategy, task.riskLevel)

(* Select(task) chooses this strategy: forced escalation before scoring.   *)
Chosen(strategy, task) ==
  IF MustEscalate(task) THEN strategy = "escalation"
                        ELSE HeadsRanking(strategy, task.riskLevel)
=============================================================================
