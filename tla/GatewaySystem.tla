--------------------------- MODULE GatewaySystem ----------------------------
(***************************************************************************)
(* H.A.R.P. in HARP_MODEL_MODE=concierge: concurrent workflows whose model *)
(* calls all go through one Concierge.  The ModelRouter hands an agent's   *)
(* request to the Concierge, waits, and gets its answer or its error.  The *)
(* workflows meet only in the health of the containers.                    *)
(***************************************************************************)
EXTENDS Naturals, Sequences

CONSTANTS Workflows, Tasks, Forced, Budget, CallTokens, Parses, Decisions, Faults,
          Registry, Serves, Tier, Retries, Failures, TransportThrows

VARIABLES pc, task, forceStrategy, strategy, produced, results, artifacts, memory,
          audit, used, error, outcome

VARIABLES healthy, phase, class, plan, untried, at, attempt, lastKind, failed

W == INSTANCE Workflow

G == INSTANCE Concierge WITH Callers <- Workflows, Classes <- W!ModelClass

ASSUME RunsAssumption ==          \* as Workflow assumes
  /\ Tasks \subseteq W!AgentTask
  /\ Forced \subseteq W!StrategyName \cup {"none"}
  /\ Budget \in Nat /\ CallTokens \subseteq Nat
  /\ Parses \subseteq BOOLEAN
  /\ Decisions \subseteq [required : BOOLEAN, approved : BOOLEAN]
  /\ Faults \subseteq {"audit", "memory", "approval", "model"}
ASSUME FleetAssumption ==         \* as Concierge assumes
  /\ Registry \in Seq(G!Containers)
  /\ \A i, j \in DOMAIN Registry : Registry[i] = Registry[j] => i = j
  /\ Serves \in [G!Containers -> SUBSET W!ModelClass]
  /\ Tier \in [G!Containers -> {"primary", "backup"}]
ASSUME FailuresAssumption ==
  /\ Retries \in Nat \ {0}
  /\ Failures \subseteq G!WireFailures
  /\ TransportThrows \in BOOLEAN

workflowVars == <<pc, task, forceStrategy, strategy, produced, results,
                  artifacts, memory, audit, used, error, outcome>>

gatewayVars == <<healthy, phase, class, plan, untried, at, attempt, lastKind,
                 failed>>

vars == <<workflowVars, gatewayVars>>

Init == W!Init /\ G!Init

NextModelClass(w) == W!ModelClassFor(W!NextAgent(w), task[w])

(* Fault seed: the class is chosen without the risk of the task.           *)
CallModelPreferred(w) ==
  /\ W!CallModel(w)
  /\ G!Submit(w, W!PreferredModel[W!NextAgent(w)])

(* Fault seed: the previous call's route is used again.                    *)
CallModelUnplanned(w) ==
  /\ W!CallModel(w)
  /\ phase' = [phase EXCEPT ![w] = "delivering"]
  /\ UNCHANGED <<healthy, class, plan, untried, at, attempt, lastKind, failed>>

(* An agent's call passes the budget check and is routed.                  *)
CallModel(w) ==
  /\ W!CallModel(w)
  /\ G!Submit(w, NextModelClass(w))

Deliver(w) ==
  /\ G!Reply(w)
  /\ UNCHANGED workflowVars

(* The Concierge returned: the router charges the call, the agent parses.  *)
ModelAnswers(w) ==
  /\ phase[w] = "answered"
  /\ \E tokens \in CallTokens, parsed \in Parses : W!ModelAnswers(w, tokens, parsed)
  /\ UNCHANGED gatewayVars

(* It returned, but the agent's agent.completed is not written.            *)
AnswerUnrecorded(w) ==
  /\ phase[w] = "answered"
  /\ \E tokens \in CallTokens : W!AnswerUnrecorded(w, tokens)
  /\ UNCHANGED gatewayVars

(* Fault seed: a failed call is taken for output that does not parse.      *)
ModelFailsBlocked(w) ==
  /\ phase[w] \in {"refused", "reported"}
  /\ \E tokens \in CallTokens : W!ModelAnswers(w, tokens, FALSE)
  /\ UNCHANGED gatewayVars

(* Fault seed: the call is made again instead of failing the run.          *)
ModelFailsRetried(w) ==
  /\ pc[w] = "calling" /\ phase[w] \in {"refused", "reported"}
  /\ pc' = [pc EXCEPT ![w] = "started"]
  /\ UNCHANGED <<task, forceStrategy, strategy, produced, results, artifacts,
                 memory, audit, used, error, outcome, gatewayVars>>

(* Fault seed: a refusal is not raised.                                    *)
ModelFailsReportedOnly(w) ==
  /\ phase[w] = "reported"
  /\ W!ModelFails(w)
  /\ UNCHANGED gatewayVars

(* The Concierge threw: ConciergeError reaches the orchestrator.           *)
ModelFails(w) ==
  /\ phase[w] \in {"refused", "reported"}
  /\ W!ModelFails(w)
  /\ UNCHANGED gatewayVars

Call(w) == W!Call(w) /\ UNCHANGED gatewayVars

(* The steps of a workflow under way that make no model call, whatever the *)
(* store, the audit log and the approval provider do.                      *)
WorkLocally(w) ==
  /\ \/ W!StartAgent(w)
     \/ W!RefuseBudget(w)
     \/ W!StoreResult(w)
     \/ W!StoreFails(w)
     \/ \E decision \in W!GateDecisions(task[w]) :
           \/ W!ApproveGate(w, decision)
           \/ W!DenyGate(w, decision)
           \/ W!DenialNotStored(w, decision)
     \/ W!HaltForApproval(w)
     \/ W!Complete(w)
     \/ W!HandleFailure(w)
     \/ W!FailureRejected(w)
     \/ W!StepThrows(w)
  /\ UNCHANGED gatewayVars

Proceed(w) ==
  \/ CallModel(w)
  \/ Deliver(w)
  \/ ModelAnswers(w)
  \/ AnswerUnrecorded(w)
  \/ ModelFails(w)
  \/ WorkLocally(w)

Next == \E w \in Workflows : Call(w) \/ Proceed(w)

Spec == Init /\ [][Next]_vars

(* As in Workflow and Concierge: whatever is awaited is answered.          *)
FairSpec == Spec /\ \A w \in Workflows : WF_vars(Proceed(w))

-----------------------------------------------------------------------------
(* A delivery is under way only for the agent that awaits it, for the      *)
(* class this agent asks for on this task; what the Concierge concluded is *)
(* consumed once.                                                          *)
DeliveryHasCaller ==
  \A w \in Workflows :
     /\ phase[w] = "delivering" => pc[w] = "calling"
     /\ pc[w] = "calling" => phase[w] # "idle" /\ class[w] = NextModelClass(w)

(* High-risk work is only ever seen by containers that serve the class of  *)
(* the high-risk model of the agent at work.                               *)
HighRiskStaysInClass ==
  \A w \in Workflows :
     pc[w] = "calling" /\ W!HighRisk(task[w]) /\ at[w] # "none" =>
        W!HighRiskModel[W!NextAgent(w)] \in Serves[at[w]]

(* A model call the Concierge gave up on ends its run: the agent that made *)
(* it is the last one started and never completes, nothing but the failure *)
(* is recorded after it, and the caller sees a failed run or, when that    *)
(* cannot be recorded, an exception.                                       *)
FailedCallEndsRun ==
  \A w \in Workflows : phase[w] \in {"refused", "reported"} =>
     /\ pc[w] \in {"calling", "raised", "done"}
     /\ outcome[w].status \in {"none", "failed", "rejected"}
     /\ \E i \in DOMAIN audit[w] :
          /\ audit[w][i].actor = W!NextAgent(w)
          /\ audit[w][i].action = "agent.started"
          /\ \A k \in DOMAIN audit[w] : k > i => audit[w][k].action = "workflow.failed"

(* The composed workflows and the composed Concierge are the ones that     *)
(* Workflow and Concierge describe.                                        *)
WorkflowsBehave == W!Spec
ConciergeBehaves == G!Spec

(* Every workflow settles, through the gateway too.                        *)
Settles == \A w \in Workflows : pc[w] # "idle" ~> pc[w] = "done"

(* The demo's reversible high-risk work halts at approval_required, with   *)
(* the documented fleet behind it too.                                     *)
HighRiskHalts ==
  \A w \in Workflows :
     pc[w] = "done" /\ task[w].riskLevel = "high" /\ task[w].reversible
       => outcome[w].status = "approval_required"
=============================================================================
