-------------------------- MODULE MCGatewaySystem ---------------------------
(***************************************************************************)
(* Instances of GatewaySystem for TLC: two workflows over a primary and a  *)
(* backup container.                                                       *)
(***************************************************************************)
EXTENDS GatewaySystem

CONSTANTS primary, backup

MCRegistry == <<primary, backup>>
MCTier == [c \in {primary, backup} |-> IF c = primary THEN "primary" ELSE "backup"]

\* The classes the documented fleet (docker-compose.yml, GATEWAY.md) serves.
MCDocumentedFleet ==
  [c \in {primary, backup} |->
     {"cloud-reasoning", "cloud-coding", "frontier-reasoning"}]

\* The primary serves the everyday classes only, the backup all.
MCMixedFleet ==
  [c \in {primary, backup} |->
     IF c = backup THEN W!ModelClass ELSE {"cloud-reasoning", "cloud-coding"}]

MCDenied == {[required |-> TRUE, approved |-> FALSE]}
MCDecisions == MCDenied \cup {[required |-> TRUE, approved |-> TRUE]}

Task(risk) == [riskLevel |-> risk, requiresRepoWrite |-> TRUE,
               touchesSecrets |-> FALSE, reversible |-> TRUE]

\* The demo's task, and the same at low risk.
MCDemo == {Task("high")}
MCTasks == {Task("low"), Task("high")}

MCSelected == {"none"}
MCVoting == {"voting"}

MCNone == {}

MCFailures == {[kind |-> "overloaded", retryable |-> TRUE],
               [kind |-> "bad_request", retryable |-> FALSE]}
=============================================================================
