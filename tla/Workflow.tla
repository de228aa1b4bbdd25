------------------------------ MODULE Workflow ------------------------------
(***************************************************************************)
(* HarpOrchestrator.execute: each member of Workflows is one call, run as  *)
(* a state machine whose steps are the code between two awaits.  The       *)
(* action that starts an awaited call also makes the change the call makes *)
(* when it succeeds; a failing write is an action of its own.              *)
(*                                                                         *)
(* The audit trail, the artifact store and the router's token usage are    *)
(* shared by all calls but only ever read by workflow id, so they are      *)
(* functions of the workflow.                                              *)
(***************************************************************************)
EXTENDS Strategies, FiniteSets

CONSTANTS
  Workflows,     \* the calls of execute
  Tasks,         \* the tasks they may be given
  Forced,        \* forceStrategy of a call: strategy names, or "none"
  Budget,        \* workflowTokenBudget
  CallTokens,    \* input + output tokens a model call may take
  Parses,        \* whether model output parses: TRUE, FALSE or either
  Decisions,     \* what the approval provider may answer
  Faults         \* which collaborators may throw

ASSUME TasksAssumption == Tasks \subseteq AgentTask
ASSUME ForcedAssumption == Forced \subseteq StrategyName \cup {"none"}
ASSUME BudgetAssumption == Budget \in Nat /\ CallTokens \subseteq Nat
ASSUME ParsesAssumption == Parses \subseteq BOOLEAN
ASSUME DecisionsAssumption == Decisions \subseteq [required : BOOLEAN, approved : BOOLEAN]
ASSUME FaultsAssumption == Faults \subseteq {"audit", "memory", "approval", "model"}

VARIABLES
  pc,         \* where each call is
  task,       \* its task
  forceStrategy,  \* its forceStrategy, or "none"
  strategy,   \* the strategy it runs
  produced,   \* the result of the agent that just completed
  results,    \* agentResults
  artifacts,  \* the artifacts array of the call
  memory,     \* memoryStore.byWorkflow
  audit,      \* auditLogger.query by workflowId
  used,       \* usageByWorkflow of the model router
  error,      \* the exception being handled
  outcome     \* what execute returned, or that it threw

chosen == <<task, forceStrategy, strategy>>    \* fixed once the call is under way

vars == <<pc, chosen, produced, results, artifacts, memory, audit, used, error,
          outcome>>

Phases == {"idle", "loop", "started", "calling", "produced", "gate", "denied",
           "raised", "done"}

Artifact == [author : AgentId, type : ArtifactType]

Event == [actor : AgentId \cup {"system"},
          action : {"workflow.started", "agent.started", "agent.completed",
                    "workflow.approval_evaluated", "workflow.approval_required",
                    "workflow.completed", "workflow.failed"},
          note : {"", "success", "blocked", "granted", "not_required", "denied"}]

NoOutcome == [status |-> "none", approvalRequired |-> FALSE, failedActor |-> "none"]

Outcome == [status : {"none", "completed", "approval_required", "failed", "rejected"},
            approvalRequired : BOOLEAN,
            failedActor : AgentId \cup {"system", "none"}]

NoTask == [riskLevel |-> "low", requiresRepoWrite |-> FALSE,
           touchesSecrets |-> FALSE, reversible |-> TRUE]

Init ==
  /\ pc = [w \in Workflows |-> "idle"]
  /\ task = [w \in Workflows |-> NoTask]
  /\ forceStrategy = [w \in Workflows |-> "none"]
  /\ strategy = [w \in Workflows |-> "sequential-review"]
  /\ produced = [w \in Workflows |-> BuildBlockedResult("pharaoh")]
  /\ results = [w \in Workflows |-> <<>>]
  /\ artifacts = [w \in Workflows |-> <<>>]
  /\ memory = [w \in Workflows |-> <<>>]
  /\ audit = [w \in Workflows |-> <<>>]
  /\ used = [w \in Workflows |-> 0]
  /\ error = [w \in Workflows |-> "none"]
  /\ outcome = [w \in Workflows |-> NoOutcome]

-----------------------------------------------------------------------------
Goto(w, phase) == pc' = [pc EXCEPT ![w] = phase]

(* auditLogger.write *)
Write(w, actor, action, note) ==
  audit' = [audit EXCEPT ![w] =
              Append(@, [actor |-> actor, action |-> action, note |-> note])]

Raise(w, kind) ==
  /\ Goto(w, "raised")
  /\ error' = [error EXCEPT ![w] = kind]

Return(w, status, approvalRequired, failedActor) ==
  /\ Goto(w, "done")
  /\ outcome' = [outcome EXCEPT ![w] =
       [status |-> status, approvalRequired |-> approvalRequired,
        failedActor |-> failedActor]]

NextAgent(w) == SelectSequence(strategy[w])[Len(results[w]) + 1]

(* The loop goes on: an agent is left and the strategy does not stop.      *)
MoreToRun(w) ==
  /\ Len(results[w]) < Len(SelectSequence(strategy[w]))
  /\ ~ShouldStop(strategy[w], results[w])

(* What the gate answers: it asks the provider only when it must.          *)
GateDecisions(t) ==
  IF RequiresApproval(t, "repo.write")
    THEN Decisions
    ELSE {[required |-> FALSE, approved |-> TRUE]}

Cleared(decision) == ~decision.required \/ decision.approved
-----------------------------------------------------------------------------
(* A strategy is selected or forced and workflow.started is written.       *)
Begun(w, t, force) ==
  /\ pc[w] = "idle"
  /\ task' = [task EXCEPT ![w] = t]
  /\ forceStrategy' = [forceStrategy EXCEPT ![w] = force]
  /\ \E s \in StrategyName :
        /\ IF force = "none" THEN Chosen(s, t) ELSE s = force
        /\ strategy' = [strategy EXCEPT ![w] = s]
  /\ UNCHANGED <<produced, results, artifacts, memory, used, error>>

Execute(w, t, force) ==
  /\ Begun(w, t, force)
  /\ Write(w, "system", "workflow.started", "")
  /\ Goto(w, "loop")
  /\ UNCHANGED outcome

(* The write of workflow.started is outside the try block: the caller gets *)
(* the exception.                                                          *)
ExecuteRejected(w, t, force) ==
  /\ "audit" \in Faults
  /\ Begun(w, t, force)
  /\ Return(w, "rejected", FALSE, "none")
  /\ UNCHANGED audit

(* The loop's next agent is asked to execute and writes agent.started.     *)
StartAgent(w) ==
  /\ pc[w] = "loop"
  /\ MoreToRun(w)
  /\ Write(w, NextAgent(w), "agent.started", "")
  /\ Goto(w, "started")
  /\ UNCHANGED <<chosen, produced, results, artifacts, memory, used,
                 error, outcome>>

(* Fault seed: the budget may be reached, not only approached.             *)
CallModelAtBudget(w) ==
  /\ pc[w] = "started"
  /\ used[w] <= Budget
  /\ Goto(w, "calling")
  /\ UNCHANGED <<chosen, produced, results, artifacts, memory, audit,
                 used, error, outcome>>

(* The router lets the call through while the usage is below the budget.   *)
CallModel(w) ==
  /\ pc[w] = "started"
  /\ used[w] < Budget
  /\ Goto(w, "calling")
  /\ UNCHANGED <<chosen, produced, results, artifacts, memory, audit,
                 used, error, outcome>>

RefuseBudget(w) ==
  /\ pc[w] = "started"
  /\ used[w] >= Budget
  /\ Raise(w, "budget")
  /\ UNCHANGED <<chosen, produced, results, artifacts, memory, audit,
                 used, outcome>>

(* Fault seed: unusable output is recorded as a success.                   *)
ModelAnswersRecordedAsSuccess(w, tokens, parsed) ==
  /\ pc[w] = "calling"
  /\ used' = [used EXCEPT ![w] = @ + tokens]
  /\ LET result == ResultOf(NextAgent(w), task[w], parsed) IN
       /\ produced' = [produced EXCEPT ![w] = result]
       /\ Write(w, result.agentId, "agent.completed", "success")
  /\ Goto(w, "produced")
  /\ UNCHANGED <<chosen, results, artifacts, memory, error, outcome>>

(* The provider answers: usage is charged, the output parsed, and          *)
(* agent.completed written.                                                *)
ModelAnswers(w, tokens, parsed) ==
  /\ pc[w] = "calling"
  /\ used' = [used EXCEPT ![w] = @ + tokens]
  /\ LET result == ResultOf(NextAgent(w), task[w], parsed) IN
       /\ produced' = [produced EXCEPT ![w] = result]
       /\ Write(w, result.agentId, "agent.completed", result.status)
  /\ Goto(w, "produced")
  /\ UNCHANGED <<chosen, results, artifacts, memory, error, outcome>>

(* Fault seed: a failed model call is made again, without a limit.         *)
ModelFailsRetried(w) ==
  /\ "model" \in Faults
  /\ pc[w] = "calling"
  /\ Goto(w, "started")
  /\ UNCHANGED <<chosen, produced, results, artifacts, memory, audit,
                 used, error, outcome>>

ModelFails(w) ==
  /\ "model" \in Faults
  /\ pc[w] = "calling"
  /\ Raise(w, "other")
  /\ UNCHANGED <<chosen, produced, results, artifacts, memory, audit,
                 used, outcome>>

(* The result and its artifact are collected; after Ra the gate is asked.  *)
Collect(w) ==
  /\ pc[w] = "produced"
  /\ results' = [results EXCEPT ![w] = Append(@, produced[w])]
  /\ artifacts' = [artifacts EXCEPT ![w] =
       Append(@, [author |-> produced[w].agentId,
                  type |-> ArtifactTypeOf[produced[w].agentId]])]
  /\ UNCHANGED <<chosen, produced, audit, used, outcome>>

(* Fault seed: Ra's result does not go to the gate.                        *)
StoreResultUngated(w) ==
  /\ Collect(w)
  /\ memory' = [memory EXCEPT ![w] =
       Append(@, [author |-> produced[w].agentId,
                  type |-> ArtifactTypeOf[produced[w].agentId]])]
  /\ Goto(w, "loop")
  /\ UNCHANGED error

StoreResult(w) ==
  /\ Collect(w)
  /\ memory' = [memory EXCEPT ![w] =
       Append(@, [author |-> produced[w].agentId,
                  type |-> ArtifactTypeOf[produced[w].agentId]])]
  /\ Goto(w, IF produced[w].agentId = "ra" THEN "gate" ELSE "loop")
  /\ UNCHANGED error

(* memoryStore.append throws: the result is collected but not stored.      *)
StoreFails(w) ==
  /\ "memory" \in Faults
  /\ Collect(w)
  /\ Raise(w, "other")
  /\ UNCHANGED memory

(* Not required or approved: the evaluation is recorded, the loop goes on. *)
ApproveGate(w, decision) ==
  /\ pc[w] = "gate"
  /\ Cleared(decision)
  /\ Write(w, "system", "workflow.approval_evaluated",
           IF decision.required THEN "granted" ELSE "not_required")
  /\ Goto(w, "loop")
  /\ UNCHANGED <<chosen, produced, results, artifacts, memory, used,
                 error, outcome>>

(* Denied: an approval request joins the artifacts.                        *)
Deny(w, decision) ==
  /\ pc[w] = "gate"
  /\ ~Cleared(decision)
  /\ artifacts' = [artifacts EXCEPT ![w] =
       Append(@, [author |-> "pharaoh", type |-> "approval_request"])]
  /\ UNCHANGED <<chosen, produced, results, audit, used, outcome>>

(* Fault seed: the approval request is not stored.                         *)
DenyGateUnstored(w, decision) ==
  /\ Deny(w, decision)
  /\ Goto(w, "denied")
  /\ UNCHANGED <<memory, error>>

DenyGate(w, decision) ==
  /\ Deny(w, decision)
  /\ memory' = [memory EXCEPT ![w] =
       Append(@, [author |-> "pharaoh", type |-> "approval_request"])]
  /\ Goto(w, "denied")
  /\ UNCHANGED error

DenialNotStored(w, decision) ==
  /\ "memory" \in Faults
  /\ Deny(w, decision)
  /\ Raise(w, "other")
  /\ UNCHANGED memory

(* Fault seed: the blocking result is not returned.                        *)
HaltForApprovalUnreturned(w) ==
  /\ pc[w] = "denied"
  /\ Write(w, "system", "workflow.approval_required", "denied")
  /\ Goto(w, "loop")
  /\ UNCHANGED <<chosen, produced, results, artifacts, memory, used,
                 error, outcome>>

HaltForApproval(w) ==
  /\ pc[w] = "denied"
  /\ Write(w, "system", "workflow.approval_required", "denied")
  /\ Return(w, "approval_required", TRUE, "none")
  /\ UNCHANGED <<chosen, produced, results, artifacts, memory, used, error>>

Complete(w) ==
  /\ pc[w] = "loop"
  /\ ~MoreToRun(w)
  /\ Write(w, "system", "workflow.completed", "")
  /\ Return(w, "completed",
            \E i \in DOMAIN results[w] : results[w][i].approvalRequired, "none")
  /\ UNCHANGED <<chosen, produced, results, artifacts, memory, used, error>>

(* handleFailure: the last agent whose result was collected is named.      *)
HandleFailure(w) ==
  /\ pc[w] = "raised"
  /\ Write(w, "system", "workflow.failed", "")
  /\ Return(w, "failed", TRUE,
            IF results[w] = <<>> THEN "system"
                                 ELSE results[w][Len(results[w])].agentId)
  /\ UNCHANGED <<chosen, produced, results, artifacts, memory, used, error>>

(* The failure cannot be recorded either: handleFailure throws.            *)
FailureRejected(w) ==
  /\ "audit" \in Faults
  /\ pc[w] = "raised"
  /\ Return(w, "rejected", FALSE, "none")
  /\ UNCHANGED <<chosen, produced, results, artifacts, memory, audit,
                 used, error>>

(* An audit write inside the try block throws, or the approval provider    *)
(* does: agent.started or workflow.completed (loop), the gate's answer or  *)
(* its record (gate), workflow.approval_required (denied).                 *)
StepThrows(w) ==
  /\ \/ "audit" \in Faults /\ pc[w] \in {"loop", "gate", "denied"}
     \/ "approval" \in Faults /\ pc[w] = "gate"
  /\ Raise(w, "other")
  /\ UNCHANGED <<chosen, produced, results, artifacts, memory, audit,
                 used, outcome>>

(* The model answered and was charged, but agent.completed is not written. *)
AnswerUnrecorded(w, tokens) ==
  /\ "audit" \in Faults
  /\ pc[w] = "calling"
  /\ used' = [used EXCEPT ![w] = @ + tokens]
  /\ Raise(w, "other")
  /\ UNCHANGED <<chosen, produced, results, artifacts, memory, audit, outcome>>
-----------------------------------------------------------------------------
(* Everything a call does once it is under way.                            *)
Proceed(w) ==
  \/ StartAgent(w)
  \/ CallModel(w)
  \/ RefuseBudget(w)
  \/ \E tokens \in CallTokens, parsed \in Parses : ModelAnswers(w, tokens, parsed)
  \/ ModelFails(w)
  \/ StoreResult(w)
  \/ StoreFails(w)
  \/ \E decision \in GateDecisions(task[w]) :
        \/ ApproveGate(w, decision)
        \/ DenyGate(w, decision)
        \/ DenialNotStored(w, decision)
  \/ HaltForApproval(w)
  \/ Complete(w)
  \/ HandleFailure(w)
  \/ FailureRejected(w)
  \/ StepThrows(w)
  \/ \E tokens \in CallTokens : AnswerUnrecorded(w, tokens)

Call(w) ==
  \E t \in Tasks, force \in Forced :
     Execute(w, t, force) \/ ExecuteRejected(w, t, force)

Next == \E w \in Workflows : Call(w) \/ Proceed(w)

Spec == Init /\ [][Next]_vars

(* Every awaited call of a workflow under way settles: the in-memory       *)
(* stores, both approval providers and the stub model answer at once, and  *)
(* Concierge says when the gateway does.  A caller need not call.          *)
FairSpec == Spec /\ \A w \in Workflows : WF_vars(Proceed(w))
-----------------------------------------------------------------------------
TypeOK ==
  /\ pc \in [Workflows -> Phases]
  /\ task \in [Workflows -> AgentTask]
  /\ forceStrategy \in [Workflows -> StrategyName \cup {"none"}]
  /\ strategy \in [Workflows -> StrategyName]
  /\ produced \in [Workflows -> AgentResult]
  /\ results \in [Workflows -> Seq(AgentResult)]
  /\ artifacts \in [Workflows -> Seq(Artifact)]
  /\ memory \in [Workflows -> Seq(Artifact)]
  /\ audit \in [Workflows -> Seq(Event)]
  /\ used \in [Workflows -> Nat]
  /\ error \in [Workflows -> {"none", "budget", "other"}]
  /\ outcome \in [Workflows -> Outcome]

(* The decisions the configured provider can clear a proposal with.        *)
ClearingNotes ==
  {IF d.required THEN "granted" ELSE "not_required" :
     d \in {e \in Decisions : Cleared(e)}}

(* Once Ra has completed, no further agent is started and the run does not *)
(* complete unless the gate cleared the proposal in between.               *)
GatedProposal ==
  \A w \in Workflows : \A i, k \in DOMAIN audit[w] :
     /\ i < k
     /\ audit[w][i].actor = "ra" /\ audit[w][i].action = "agent.completed"
     /\ audit[w][k].action \in {"agent.started", "workflow.completed"}
     => \E j \in i .. k : /\ audit[w][j].action = "workflow.approval_evaluated"
                          /\ audit[w][j].note \in ClearingNotes

ClosingEvent(status) ==
  CASE status = "completed"         -> "workflow.completed"
    [] status = "approval_required" -> "workflow.approval_required"
    [] status = "failed"            -> "workflow.failed"

ClosingEvents == {"workflow.completed", "workflow.approval_required", "workflow.failed"}

(* The audit trail and the returned status tell the same story: a closing  *)
(* event is the last of the trail and is written exactly when execute      *)
(* returns the status it stands for; a rejected call leaves none.          *)
TrailMatchesOutcome ==
  \A w \in Workflows :
     LET trail == audit[w]  status == outcome[w].status IN
     /\ \A i \in DOMAIN trail :
          trail[i].action \in ClosingEvents => i = Len(trail) /\ pc[w] = "done"
     /\ status \in {"none", "rejected"} =>
          \A i \in DOMAIN trail : trail[i].action \notin ClosingEvents
     /\ status \notin {"none", "rejected"} =>
          trail # <<>> /\ trail[Len(trail)].action = ClosingEvent(status)
     /\ (pc[w] = "done") = (status # "none")

(* The results of a run so far, the one still to be collected included.    *)
ResultsSoFar(w) ==
  IF pc[w] = "produced" THEN Append(results[w], produced[w]) ELSE results[w]

(* Where a trail has its agent.completed events, and which one is at i.    *)
Completions(trail) == {i \in DOMAIN trail : trail[i].action = "agent.completed"}
Rank(trail, i) == Cardinality({j \in Completions(trail) : j <= i})

(* The agent.completed events are, in order, the results of the run: those *)
(* collected and at most the one still to be; so are the agents the        *)
(* strategy planned.                                                       *)
TrailMatchesResults ==
  \A w \in Workflows :
     LET trail == audit[w]  agents == ResultsSoFar(w) IN
     /\ Cardinality(Completions(trail)) = Len(agents)
     /\ \A i \in Completions(trail) :
          /\ trail[i].actor = agents[Rank(trail, i)].agentId
          /\ trail[i].note = agents[Rank(trail, i)].status
     /\ \A i \in DOMAIN agents : agents[i].agentId = SelectSequence(strategy[w])[i]

(* Every completed artifact is preserved: the artifacts are those of the   *)
(* results in order and then at most one approval request; the store holds *)
(* them all, except the one whose append threw, and then the run fails.    *)
EvidencePreserved ==
  \A w \in Workflows :
     LET made == artifacts[w]  agents == results[w] IN
     /\ \A i \in DOMAIN agents :
          made[i] = [author |-> agents[i].agentId,
                     type |-> ArtifactTypeOf[agents[i].agentId]]
     /\ Len(made) - Len(agents) \in {0, 1}
     /\ outcome[w].status = "approval_required" =>
          Len(made) = Len(agents) + 1 /\ made[Len(made)].type = "approval_request"
     /\ outcome[w].status = "completed" => Len(made) = Len(agents)
     /\ memory[w] = SubSeq(made, 1, Len(memory[w]))
     /\ Len(made) - Len(memory[w]) \in
          IF error[w] = "other" THEN {0, 1} ELSE {0}

Sensitive(t) == HighRisk(t) \/ t.requiresRepoWrite \/ t.touchesSecrets

(* Whatever strategy ran and however the run ended, a result returned for  *)
(* sensitive work says that a human must approve.                          *)
SensitiveNeedsHuman ==
  \A w \in Workflows :
     outcome[w].status \notin {"none", "rejected"} /\ Sensitive(task[w])
       => outcome[w].approvalRequired

StopsOnBlock(s) == s \in {"sequential-review", "parallel-review"}

(* A completed run ran its whole sequence, except that the two strategies  *)
(* that stop on unusable output end at the first blocked agent.            *)
StopsExactlyAtBlock ==
  \A w \in Workflows :
     LET agents == results[w] IN
     /\ StopsOnBlock(strategy[w]) =>
          \A i \in 1 .. Len(agents) - 1 : agents[i].status # "blocked"
     /\ outcome[w].status = "completed"
          /\ Len(agents) # Len(SelectSequence(strategy[w]))
          => StopsOnBlock(strategy[w]) /\ agents[Len(agents)].status = "blocked"

(* No model call is let through at or over the budget, so a run overshoots *)
(* by less than one call; it fails for budget only when it is spent.       *)
BudgetOvershootBounded ==
  \A w \in Workflows :
     /\ pc[w] = "calling" => used[w] < Budget
     /\ used[w] = 0 \/ \E tokens \in CallTokens : used[w] < Budget + tokens
     /\ error[w] = "budget" => used[w] >= Budget

(* With the selector in charge (no forced strategy), Ra is never started   *)
(* on critical, secret-touching or irreversible work.                      *)
EscalatedNeverBuilt ==
  \A w \in Workflows :
     forceStrategy[w] = "none" /\ MustEscalate(task[w]) =>
        \A i \in DOMAIN audit[w] : audit[w][i].actor # "ra"

(* Every call that was made returns or throws.                             *)
Settles == \A w \in Workflows : pc[w] # "idle" ~> pc[w] = "done"

(* The run as its caller sees it.                                          *)
StageOf(w) ==
  IF pc[w] = "idle" THEN "idle"
  ELSE IF pc[w] # "done" THEN "active" ELSE outcome[w].status

ProposalOf(w) ==
  IF \A i \in DOMAIN results[w] : results[w][i].agentId # "ra" THEN "none"
  ELSE IF \E i \in DOMAIN audit[w] :
            audit[w][i].action = "workflow.approval_evaluated" THEN "granted"
  ELSE "open"

C == INSTANCE WorkflowContract WITH
       stage <- [w \in Workflows |-> StageOf(w)],
       proposal <- [w \in Workflows |-> ProposalOf(w)],
       runs <- [w \in Workflows |-> Len(results[w])]

(* The orchestrator keeps the contract of a run.                           *)
KeepsContract == C!Contract
-----------------------------------------------------------------------------
(* Statements the repository makes of a run that the code does not keep.   *)

(* The failure names the agent that failed: a run that fails between an    *)
(* agent.started and its agent.completed failed in that agent.             *)
FailureNamesFailedAgent ==
  \A w \in Workflows :
     LET trail == audit[w]  n == Len(audit[w]) IN
     outcome[w].status = "failed" /\ n > 1 /\ trail[n - 1].action = "agent.started"
       => outcome[w].failedActor = trail[n - 1].actor

(* Escalation always defers to human approval.                             *)
EscalationDefersToHuman ==
  \A w \in Workflows :
     outcome[w].status = "completed" /\ strategy[w] = "escalation"
       => outcome[w].approvalRequired

(* A completed run of the full loop was reviewed, built and validated.     *)
CompletedLoopWasBuilt ==
  \A w \in Workflows :
     outcome[w].status = "completed" /\ strategy[w] = "sequential-review"
       => \E i \in DOMAIN results[w] : results[w][i].agentId = "ra"
=============================================================================
