------------------------- MODULE GatewaySystemProofs -------------------------
(***************************************************************************)
(* The workflows and the Concierge they share, for any set of workflows,   *)
(* any fleet and any failures: each side is what its own module says, and  *)
(* the two keep in step.                                                   *)
(***************************************************************************)
EXTENDS GatewaySystem, TLAPS

(* What is proved of the orchestrator, and of the Concierge.               *)
WP == INSTANCE WorkflowProofs

GP == INSTANCE ConciergeProofs WITH Callers <- Workflows, Classes <- W!ModelClass

(* The trail ends with the start of the agent at work.                     *)
AgentAtWork(w) ==
  /\ audit[w] # <<>>
  /\ audit[w][Len(audit[w])].actor = W!NextAgent(w)
  /\ audit[w][Len(audit[w])].action = "agent.started"

(* The agent at work was started, and only a failure was recorded since.   *)
LeftAtWork(w) ==
  \E i \in DOMAIN audit[w] :
     /\ audit[w][i].actor = W!NextAgent(w)
     /\ audit[w][i].action = "agent.started"
     /\ \A k \in DOMAIN audit[w] : k > i => audit[w][k].action = "workflow.failed"

(* How a run stands with its requests: it awaits the delivery under way,   *)
(* for the class its agent asks for, and a request that failed is the last *)
(* thing it did.                                                           *)
Linked(w) ==
  /\ phase[w] = "delivering" => pc[w] = "calling"
  /\ pc[w] = "calling" => phase[w] # "idle" /\ class[w] = NextModelClass(w)
  /\ at[w] # "none" => at[w] \in plan[w]
  /\ pc[w] \in {"started", "calling"} => AgentAtWork(w)
  /\ phase[w] \in {"refused", "reported"} =>
       /\ pc[w] \in {"calling", "raised", "done"}
       /\ outcome[w].status \in {"none", "failed", "rejected"}
       /\ LeftAtWork(w)

(* The inductive invariant: those of the two sides, and what ties them.    *)
IInv ==
  /\ WP!IInv
  /\ GP!IInv
  /\ \A w \in Workflows : Linked(w)

-----------------------------------------------------------------------------
(* What the two sides assume of their constants is assumed here.           *)
LEMMA RunsAssumptions ==
  /\ WP!TasksAssumption /\ WP!ForcedAssumption /\ WP!BudgetAssumption
  /\ WP!ParsesAssumption /\ WP!DecisionsAssumption /\ WP!FaultsAssumption
BY RunsAssumption DEF WP!TasksAssumption, WP!ForcedAssumption, WP!BudgetAssumption,
   WP!ParsesAssumption, WP!DecisionsAssumption, WP!FaultsAssumption,
   WP!AgentTask, W!AgentTask, WP!RiskLevel, W!RiskLevel, WP!StrategyName, W!StrategyName

LEMMA FleetAssumptions ==
  /\ GP!RegistryAssumption /\ GP!DescriptorAssumption /\ GP!RetriesAssumption
  /\ GP!FailuresAssumption /\ GP!ThrowsAssumption
BY FleetAssumption, FailuresAssumption
DEF GP!WireFailures, G!WireFailures, GP!Containers, G!Containers,
    GP!RegistryAssumption, GP!DescriptorAssumption, GP!RetriesAssumption,
    GP!FailuresAssumption, GP!ThrowsAssumption

(* The module of the proofs and the model speak of the same Concierge ...  *)
LEMMA SameConcierge ==
  /\ GP!Init <=> G!Init
  /\ GP!Next <=> G!Next
  /\ GP!vars = gatewayVars /\ G!vars = gatewayVars
<1>1. GP!Init <=> G!Init
  BY DEF GP!Init, G!Init, GP!Containers, G!Containers
<1>2. \A r, cl : GP!Submit(r, cl) <=> G!Submit(r, cl)
  BY DEF GP!Submit, GP!Serving, GP!Containers, GP!DeliverToFirst, GP!IsFirst,
     GP!Before, GP!Settle, G!Submit, G!Serving, G!Containers, G!DeliverToFirst,
     G!IsFirst, G!Before, G!Settle
<1>3. \A r : GP!MoveOn(r) <=> G!MoveOn(r)
  BY DEF GP!MoveOn, GP!DeliverToFirst, GP!IsFirst, GP!Before, GP!Settle,
     G!MoveOn, G!DeliverToFirst, G!IsFirst, G!Before, G!Settle
<1>4. \A r, k : GP!Fails(r, k) <=> G!Fails(r, k)
  BY DEF GP!Fails, G!Fails
<1>5. \A r : GP!TryAgain(r) <=> G!TryAgain(r)
  BY DEF GP!TryAgain, G!TryAgain
<1>6. \A r : GP!Answers(r) <=> G!Answers(r)
  BY DEF GP!Answers, G!Answers, GP!Settle, G!Settle
<1>7. \A r : GP!Throws(r) <=> G!Throws(r)
  BY <1>3, <1>4, <1>5 DEF G!Throws, GP!Throws
<1>8. \A r, f : GP!FailsFatally(r, f) <=> G!FailsFatally(r, f)
  BY <1>4 DEF G!FailsFatally, GP!FailsFatally, G!FatalKinds, GP!FatalKinds,
     G!Settle, GP!Settle
<1>9. \A r, f : GP!FailsRetryably(r, f) <=> G!FailsRetryably(r, f)
  BY <1>4, <1>5 DEF G!FailsRetryably, GP!FailsRetryably, G!FatalKinds, GP!FatalKinds,
     G!WillRetrySame, GP!WillRetrySame
<1>10. \A r, f : GP!FailsOver(r, f) <=> G!FailsOver(r, f)
  BY <1>3, <1>4 DEF G!FailsOver, GP!FailsOver, G!FatalKinds, GP!FatalKinds,
     G!MarkUnhealthy, GP!MarkUnhealthy, G!WillRetrySame, GP!WillRetrySame
<1>11. GP!Next <=> G!Next
  BY <1>2, <1>6, <1>7, <1>8, <1>9, <1>10 DEF G!Next, GP!Next, G!Reply, GP!Reply
<1> QED BY <1>1, <1>11 DEF GP!vars, G!vars, gatewayVars

(* ... and of the same runs.                                               *)
LEMMA SameRuns ==
  /\ WP!Init <=> W!Init
  /\ WP!Next <=> W!Next
  /\ WP!vars = W!vars
  /\ \A w : (WP!Call(w) <=> W!Call(w)) /\ (WP!Proceed(w) <=> W!Proceed(w))
<1>1. WP!Init <=> W!Init
  BY DEF WP!Init, W!Init, WP!NoTask, W!NoTask, WP!NoOutcome, W!NoOutcome,
     WP!BuildBlockedResult, W!BuildBlockedResult
<1>2. \A w : WP!NextAgent(w) = W!NextAgent(w)
  BY DEF WP!NextAgent, W!NextAgent, WP!SelectSequence, W!SelectSequence
<1>3. \A w : WP!MoreToRun(w) <=> W!MoreToRun(w)
  BY DEF WP!MoreToRun, W!MoreToRun, WP!SelectSequence, W!SelectSequence,
     WP!ShouldStop, W!ShouldStop, WP!AnyBlocked, W!AnyBlocked
<1>4. \A w, agent, action, note :
        WP!Write(w, agent, action, note) <=> W!Write(w, agent, action, note)
  BY DEF WP!Write, W!Write
<1>5. \A w, place, kind : /\ WP!Goto(w, place) <=> W!Goto(w, place)
                          /\ WP!Raise(w, kind) <=> W!Raise(w, kind)
  BY DEF WP!Goto, W!Goto, WP!Raise, W!Raise
<1>6. \A w, status, asks, agent :
        WP!Return(w, status, asks, agent) <=> W!Return(w, status, asks, agent)
  BY DEF WP!Return, W!Return, WP!Goto, W!Goto
<1>7. WP!StrategyName = W!StrategyName /\ WP!ArtifactTypeOf = W!ArtifactTypeOf
  BY DEF WP!StrategyName, W!StrategyName, WP!ArtifactTypeOf, W!ArtifactTypeOf,
     WP!AgentId, W!AgentId
<1>8. \A s, t : WP!Chosen(s, t) <=> W!Chosen(s, t)
  BY DEF WP!Chosen, W!Chosen, WP!MustEscalate, W!MustEscalate, WP!HeadsRanking,
     W!HeadsRanking, WP!Candidates, W!Candidates, WP!Composite, W!Composite,
     WP!SelectSequence, W!SelectSequence, WP!RiskWeight, W!RiskWeight, WP!RiskLevel,
     W!RiskLevel, WP!ResidualPercent, W!ResidualPercent, WP!CoversPostBuildReview,
     W!CoversPostBuildReview, WP!QualityPercent, W!QualityPercent
<1>9. \A agent, t, parsed : WP!ResultOf(agent, t, parsed) = W!ResultOf(agent, t, parsed)
  BY DEF WP!ResultOf, W!ResultOf, WP!BuildResult, W!BuildResult, WP!BuildBlockedResult,
     W!BuildBlockedResult, WP!AsksApproval, W!AsksApproval, WP!HighRisk, W!HighRisk
<1>10. \A t : WP!GateDecisions(t) = W!GateDecisions(t)
  BY DEF WP!GateDecisions, W!GateDecisions, WP!RequiresApproval, W!RequiresApproval,
     WP!HighRisk, W!HighRisk, WP!StateChangingActions, W!StateChangingActions
<1>11. \A w, t, force : WP!Begun(w, t, force) <=> W!Begun(w, t, force)
  BY <1>7, <1>8 DEF WP!Begun, W!Begun
<1>12. \A w, t, force : WP!Execute(w, t, force) <=> W!Execute(w, t, force)
  BY <1>11, <1>4, <1>5 DEF WP!Execute, W!Execute
<1>13. \A w, t, force :
         WP!ExecuteRejected(w, t, force) <=> W!ExecuteRejected(w, t, force)
  BY <1>11, <1>6 DEF WP!ExecuteRejected, W!ExecuteRejected
<1>14. \A w : WP!Call(w) <=> W!Call(w)
  BY <1>12, <1>13 DEF WP!Call, W!Call
<1>15. \A w : WP!StartAgent(w) <=> W!StartAgent(w)
  BY <1>2, <1>3, <1>4, <1>5 DEF WP!StartAgent, W!StartAgent, WP!chosen, W!chosen
<1>16. \A w : WP!CallModel(w) <=> W!CallModel(w)
  BY <1>5 DEF WP!CallModel, W!CallModel, WP!chosen, W!chosen
<1>17. \A w : WP!RefuseBudget(w) <=> W!RefuseBudget(w)
  BY <1>5 DEF WP!RefuseBudget, W!RefuseBudget, WP!chosen, W!chosen
<1>18. \A w, tokens, parsed :
         WP!ModelAnswers(w, tokens, parsed) <=> W!ModelAnswers(w, tokens, parsed)
  BY <1>2, <1>4, <1>5, <1>9 DEF WP!ModelAnswers, W!ModelAnswers, WP!chosen, W!chosen
<1>19. \A w : WP!ModelFails(w) <=> W!ModelFails(w)
  BY <1>5 DEF WP!ModelFails, W!ModelFails, WP!chosen, W!chosen
<1>20. \A w : WP!StoreResult(w) <=> W!StoreResult(w)
  BY <1>5, <1>7 DEF WP!StoreResult, W!StoreResult, WP!Collect, W!Collect, WP!chosen,
     W!chosen
<1>21. \A w : WP!StoreFails(w) <=> W!StoreFails(w)
  BY <1>5, <1>7 DEF WP!StoreFails, W!StoreFails, WP!Collect, W!Collect, WP!chosen,
     W!chosen
<1>22. \A w, decision : WP!ApproveGate(w, decision) <=> W!ApproveGate(w, decision)
  BY <1>4, <1>5 DEF WP!ApproveGate, W!ApproveGate, WP!Cleared, W!Cleared, WP!chosen,
     W!chosen
<1>23. \A w, decision : WP!DenyGate(w, decision) <=> W!DenyGate(w, decision)
  BY <1>5 DEF WP!DenyGate, W!DenyGate, WP!Deny, W!Deny, WP!Cleared, W!Cleared,
     WP!chosen, W!chosen
<1>24. \A w, decision :
         WP!DenialNotStored(w, decision) <=> W!DenialNotStored(w, decision)
  BY <1>5 DEF WP!DenialNotStored, W!DenialNotStored, WP!Deny, W!Deny, WP!Cleared,
     W!Cleared, WP!chosen, W!chosen
<1>25. \A w : WP!HaltForApproval(w) <=> W!HaltForApproval(w)
  BY <1>4, <1>6 DEF WP!HaltForApproval, W!HaltForApproval, WP!chosen, W!chosen
<1>26. \A w : WP!Complete(w) <=> W!Complete(w)
  BY <1>3, <1>4, <1>6 DEF WP!Complete, W!Complete, WP!chosen, W!chosen
<1>27. \A w : WP!HandleFailure(w) <=> W!HandleFailure(w)
  BY <1>4, <1>6 DEF WP!HandleFailure, W!HandleFailure, WP!chosen, W!chosen
<1>28. \A w : WP!FailureRejected(w) <=> W!FailureRejected(w)
  BY <1>6 DEF WP!FailureRejected, W!FailureRejected, WP!chosen, W!chosen
<1>29. \A w : WP!StepThrows(w) <=> W!StepThrows(w)
  BY <1>5 DEF WP!StepThrows, W!StepThrows, WP!chosen, W!chosen
<1>30. \A w, tokens : WP!AnswerUnrecorded(w, tokens) <=> W!AnswerUnrecorded(w, tokens)
  BY <1>5 DEF WP!AnswerUnrecorded, W!AnswerUnrecorded, WP!chosen, W!chosen
<1>31. \A w : WP!Proceed(w) <=> W!Proceed(w)
  BY <1>10, <1>15, <1>16, <1>17, <1>18, <1>19, <1>20, <1>21, <1>22, <1>23, <1>24,
     <1>25, <1>26, <1>27, <1>28, <1>29, <1>30 DEF WP!Proceed, W!Proceed
<1>32. WP!Next <=> W!Next
  BY <1>14, <1>31 DEF WP!Next, W!Next
<1> QED BY <1>1, <1>14, <1>31, <1>32 DEF WP!vars, W!vars, WP!chosen, W!chosen

-----------------------------------------------------------------------------
(* An agent that is about to call a model asks for a class there is.       *)
LEMMA NextClassKnown ==
  ASSUME WP!IInv, NEW w \in Workflows, pc[w] = "started"
  PROVE  NextModelClass(w) \in W!ModelClass
<1>1. WP!TypeOK /\ WP!MoreToRun(w) /\ WP!NextAgent(w) = W!NextAgent(w)
  BY DEF WP!IInv, WP!RunOK, WP!PlaceOK, WP!NextAgent, W!NextAgent, WP!SelectSequence,
     W!SelectSequence
<1>2. W!NextAgent(w) \in W!AgentId
  BY <1>1, RunsAssumptions, WP!NextAgentPlanned DEF WP!AgentId, W!AgentId
<1> QED BY <1>2 DEF NextModelClass, W!ModelClassFor, W!HighRiskModel, W!PreferredModel,
           W!ModelClass, W!AgentId

(* Every step is one of the workflows and one of the Concierge, or leaves  *)
(* that side alone.                                                        *)
LEMMA SidesStep ==
  ASSUME WP!IInv, [Next]_vars
  PROVE  [W!Next]_(W!vars) /\ [G!Next]_(G!vars)
<1>1. ASSUME NEW w \in Workflows, CallModel(w) PROVE W!Next /\ G!Next
  <2>1. W!CallModel(w) /\ G!Submit(w, NextModelClass(w)) /\ pc[w] = "started"
    BY <1>1 DEF CallModel, W!CallModel
  <2>2. NextModelClass(w) \in W!ModelClass
    BY <2>1, NextClassKnown
  <2>3. W!Proceed(w)
    BY <2>1 DEF W!Proceed
  <2> QED BY <2>1, <2>2, <2>3 DEF W!Next, G!Next
<1>2. ASSUME NEW w \in Workflows, Deliver(w) PROVE UNCHANGED W!vars /\ G!Next
  BY <1>2 DEF Deliver, workflowVars, W!vars, W!chosen, G!Next
<1>3. ASSUME NEW w \in Workflows,
             \/ Call(w) \/ ModelAnswers(w) \/ AnswerUnrecorded(w) \/ ModelFails(w)
             \/ WorkLocally(w)
      PROVE  W!Next /\ UNCHANGED G!vars
  <2>1. UNCHANGED gatewayVars
    BY <1>3 DEF Call, ModelAnswers, AnswerUnrecorded, ModelFails, WorkLocally
  <2>2. W!Call(w) \/ W!Proceed(w)
    BY <1>3 DEF Call, ModelAnswers, AnswerUnrecorded, ModelFails, WorkLocally, W!Proceed
  <2> QED BY <2>1, <2>2 DEF W!Next, gatewayVars, G!vars
<1>4. CASE UNCHANGED vars
  BY <1>4 DEF vars, workflowVars, gatewayVars, W!vars, W!chosen, G!vars
<1> QED BY <1>1, <1>2, <1>3, <1>4 DEF Next, Proceed

-----------------------------------------------------------------------------
LEMMA InitIInv == Init => IInv
<1> SUFFICES ASSUME Init PROVE IInv
  OBVIOUS
<1>1. WP!IInv
  BY RunsAssumptions, SameRuns, WP!InitIInv DEF Init
<1>2. GP!IInv
  BY FleetAssumptions, SameConcierge, GP!InitIInv DEF Init
<1>3. ASSUME NEW w \in Workflows PROVE Linked(w)
  BY <1>3 DEF Init, W!Init, G!Init, Linked
<1> QED BY <1>1, <1>2, <1>3 DEF IInv

(* A step of one workflow touches no other, in the gateway neither.        *)
LEMMA OthersKeepLinked ==
  ASSUME IInv, NEW w \in Workflows, NEW v \in Workflows, v # w, Call(w) \/ Proceed(w)
  PROVE  Linked(v)'
<1>1. WP!TypeOK /\ Linked(v)
  BY DEF IInv, WP!IInv
<1>2. \/ W!Call(w) \/ W!Proceed(w)
      \/ UNCHANGED workflowVars
  BY DEF Call, Proceed, CallModel, Deliver, ModelAnswers, AnswerUnrecorded, ModelFails,
     WorkLocally, W!Proceed
<1>3. /\ pc'[v] = pc[v] /\ error'[v] = error[v] /\ outcome'[v] = outcome[v]
      /\ task'[v] = task[v] /\ strategy'[v] = strategy[v] /\ results'[v] = results[v]
      /\ audit'[v] = audit[v]
  <2>1. CASE W!Call(w) \/ W!Proceed(w)
    BY <1>1, <2>1, SameRuns, RunsAssumptions, WP!StepIsLocal
  <2>2. CASE UNCHANGED workflowVars
    BY <2>2 DEF workflowVars
  <2> QED BY <1>2, <2>1, <2>2
<1>4. /\ phase'[v] = phase[v] /\ class'[v] = class[v]
      /\ at'[v] = at[v] /\ plan'[v] = plan[v]
  <2>1. G!Submit(w, NextModelClass(w)) \/ G!Reply(w) \/ UNCHANGED gatewayVars
    BY DEF Call, Proceed, CallModel, Deliver, ModelAnswers, AnswerUnrecorded, ModelFails,
       WorkLocally
  <2>2. GP!TypeOK
    BY DEF IInv, GP!IInv
  <2> QED BY <2>1, <2>2 DEF G!Submit, G!Reply, G!Answers, G!Throws, G!FailsFatally,
             G!FailsRetryably, G!FailsOver, G!Fails, G!TryAgain, G!MoveOn,
             G!DeliverToFirst, G!Settle, gatewayVars, GP!TypeOK
<1>5. NextModelClass(v)' = NextModelClass(v) /\ W!NextAgent(v)' = W!NextAgent(v)
  BY <1>3 DEF NextModelClass, W!NextAgent
<1>6. AgentAtWork(v)' = AgentAtWork(v) /\ LeftAtWork(v)' = LeftAtWork(v)
  BY <1>3, <1>5 DEF AgentAtWork, LeftAtWork
<1> QED BY <1>1, <1>3, <1>4, <1>5, <1>6 DEF Linked

(* What the invariant of the runs says of the places where Linked changes. *)
LEMMA WhereItRuns ==
  ASSUME IInv, NEW w \in Workflows
  PROVE  /\ pc \in [Workflows -> WP!Phases]
         /\ audit \in [Workflows -> Seq(WP!Event)]
         /\ outcome \in [Workflows -> WP!Outcome]
         /\ pc[w] # "done" => outcome[w].status = "none"
         /\ Linked(w)
BY DEF IInv, WP!IInv, WP!TypeOK, WP!RunOK, WP!TrailOK

(* An agent that is at work has only just been started.                    *)
LEMMA AtWorkIsLeft ==
  ASSUME IInv, NEW w \in Workflows, AgentAtWork(w)
  PROVE  LeftAtWork(w)
<1>1. audit[w] \in Seq(WP!Event)
  BY WhereItRuns
<1>2. Len(audit[w]) \in DOMAIN audit[w] /\ \A k \in DOMAIN audit[w] : ~(k > Len(audit[w]))
  BY <1>1 DEF AgentAtWork
<1> QED BY <1>2 DEF AgentAtWork, LeftAtWork

LEMMA CallModelLinks ==
  ASSUME IInv, NEW w \in Workflows, CallModel(w)
  PROVE  Linked(w)'
<1>1. /\ pc[w] = "started" /\ pc'[w] = "calling" /\ outcome'[w] = outcome[w]
      /\ NextModelClass(w)' = NextModelClass(w)
  BY WhereItRuns DEF CallModel, W!CallModel, W!Goto, W!chosen, NextModelClass, W!NextAgent
<1>2. AgentAtWork(w)' = AgentAtWork(w) /\ LeftAtWork(w)' = LeftAtWork(w)
  BY DEF CallModel, W!CallModel, W!chosen, AgentAtWork, LeftAtWork, W!NextAgent
<1>3. AgentAtWork(w) /\ LeftAtWork(w) /\ outcome[w].status = "none"
  BY <1>1, WhereItRuns, AtWorkIsLeft DEF Linked
<1>4. G!Submit(w, NextModelClass(w)) /\ GP!TypeOK
  BY DEF CallModel, IInv, GP!IInv
<1>5. phase'[w] \in {"delivering", "reported"} /\ class'[w] = NextModelClass(w)
  BY <1>4 DEF G!Submit, G!Settle, GP!TypeOK
<1>6. at'[w] # "none" => at'[w] \in plan'[w]
  BY <1>4 DEF G!Submit, G!DeliverToFirst, G!IsFirst, GP!TypeOK
<1> QED BY <1>1, <1>2, <1>3, <1>5, <1>6 DEF Linked

LEMMA DeliverLinks ==
  ASSUME IInv, NEW w \in Workflows, Deliver(w)
  PROVE  Linked(w)'
<1>1. /\ pc'[w] = pc[w] /\ outcome'[w] = outcome[w]
      /\ NextModelClass(w)' = NextModelClass(w)
      /\ AgentAtWork(w)' = AgentAtWork(w) /\ LeftAtWork(w)' = LeftAtWork(w)
  BY DEF Deliver, workflowVars, NextModelClass, W!NextAgent, AgentAtWork, LeftAtWork
<1>2. G!Reply(w) /\ GP!TypeOK /\ GP!RouteOK(w) /\ Linked(w)
  BY DEF Deliver, IInv, GP!IInv
<1>3. phase[w] = "delivering" /\ class'[w] = class[w] /\ plan'[w] = plan[w]
  BY <1>2 DEF G!Reply, G!Answers, G!Throws, G!FailsFatally, G!FailsRetryably, G!FailsOver,
     G!Fails
<1>4. phase'[w] \in {"delivering", "answered", "refused", "reported"}
  BY <1>2, <1>3 DEF G!Reply, G!Answers, G!Throws, G!FailsFatally, G!FailsRetryably,
     G!FailsOver, G!TryAgain, G!MoveOn, G!Settle, GP!TypeOK
<1>5. at'[w] = at[w] \/ at'[w] \in untried[w]
  BY <1>2 DEF G!Reply, G!Answers, G!Throws, G!FailsFatally, G!FailsRetryably, G!FailsOver,
     G!TryAgain, G!MoveOn, G!DeliverToFirst, G!IsFirst, GP!TypeOK
<1>6. pc[w] = "calling" /\ at[w] \in plan[w] /\ untried[w] \subseteq plan[w]
  BY <1>2, <1>3 DEF Linked, GP!RouteOK
<1>7. AgentAtWork(w) /\ LeftAtWork(w) /\ outcome[w].status = "none"
  BY <1>2, <1>6, WhereItRuns, AtWorkIsLeft DEF Linked
<1> QED BY <1>1, <1>2, <1>3, <1>4, <1>5, <1>6, <1>7 DEF Linked

(* What an append leaves and adds.                                         *)
LEMMA AppendAdds ==
  ASSUME NEW S, NEW s \in Seq(S), NEW e
  PROVE  /\ Append(s, e) # <<>> /\ Len(Append(s, e)) = Len(s) + 1
         /\ DOMAIN Append(s, e) = DOMAIN s \cup {Len(s) + 1}
         /\ \A i \in DOMAIN s : Append(s, e)[i] = s[i]
         /\ Append(s, e)[Len(s) + 1] = e
OBVIOUS

(* A step of a run that has no failed request: it leads to a model call    *)
(* only through an agent it has just started.                              *)
LEMMA WorkingLinks ==
  ASSUME IInv, NEW w \in Workflows, pc[w] \notin {"calling", "raised", "done"},
         Call(w) \/ WorkLocally(w)
  PROVE  Linked(w)'
<1>1. UNCHANGED gatewayVars
  BY DEF Call, WorkLocally
<1>2. Linked(w) /\ phase[w] \notin {"delivering", "refused", "reported"}
  BY WhereItRuns DEF Linked
<1>3. CASE W!StartAgent(w)
  <2>1. pc'[w] = "started" /\ W!NextAgent(w)' = W!NextAgent(w)
    BY <1>3, WhereItRuns DEF W!StartAgent, W!Goto, W!chosen, W!NextAgent
  <2>2. PICK e : e = [actor |-> W!NextAgent(w), action |-> "agent.started", note |-> ""]
    OBVIOUS
  <2>3. AgentAtWork(w)'
    <3>1. audit[w] \in Seq(WP!Event) /\ audit'[w] = Append(audit[w], e)
      BY <1>3, <2>2, WhereItRuns DEF W!StartAgent, W!Write
    <3>2. /\ Len(audit'[w]) = Len(audit[w]) + 1 /\ audit'[w] # <<>>
          /\ audit'[w][Len(audit'[w])] = e
      BY <3>1, AppendAdds
    <3>3. e.actor = W!NextAgent(w) /\ e.action = "agent.started"
      BY <2>2
    <3> QED BY <2>1, <3>2, <3>3 DEF AgentAtWork
  <2> QED BY <1>1, <1>2, <2>1, <2>3 DEF Linked, gatewayVars
<1>4. CASE ~W!StartAgent(w)
  <2>1. pc'[w] \notin {"started", "calling"}
    BY <1>4, WhereItRuns DEF Call, W!Call, W!Execute, W!ExecuteRejected, WorkLocally,
       W!RefuseBudget, W!StoreResult, W!StoreFails, W!ApproveGate, W!DenyGate,
       W!DenialNotStored, W!HaltForApproval, W!Complete, W!HandleFailure,
       W!FailureRejected, W!StepThrows, W!Return, W!Raise, W!Goto
  <2> QED BY <1>1, <1>2, <2>1 DEF Linked, gatewayVars
<1> QED BY <1>3, <1>4

(* The step after a request that settled: an answer goes on, a failure is  *)
(* raised.                                                                 *)
LEMMA ReturnLinks ==
  ASSUME IInv, NEW w \in Workflows,
         ModelAnswers(w) \/ AnswerUnrecorded(w) \/ ModelFails(w)
  PROVE  Linked(w)'
<1>1. UNCHANGED gatewayVars /\ Linked(w)
  BY WhereItRuns DEF ModelAnswers, AnswerUnrecorded, ModelFails
<1>2. CASE ModelAnswers(w) \/ AnswerUnrecorded(w)
  <2>1. phase[w] = "answered" /\ pc'[w] \in {"produced", "raised"}
    BY <1>2, WhereItRuns DEF ModelAnswers, W!ModelAnswers, AnswerUnrecorded,
       W!AnswerUnrecorded, W!Raise, W!Goto
  <2> QED BY <1>1, <2>1 DEF Linked, gatewayVars
<1>3. CASE ModelFails(w)
  <2>1. /\ phase[w] # "delivering" /\ pc'[w] = "raised" /\ outcome' = outcome
        /\ LeftAtWork(w)' = LeftAtWork(w)
    BY <1>3, WhereItRuns DEF ModelFails, W!ModelFails, W!Raise, W!Goto, W!chosen,
       LeftAtWork, W!NextAgent
  <2> QED BY <1>1, <2>1 DEF Linked, gatewayVars
<1> QED BY <1>2, <1>3

(* The end of a run that raised.                                           *)
LEMMA FailureLinks ==
  ASSUME IInv, NEW w \in Workflows, W!HandleFailure(w) \/ W!FailureRejected(w),
         UNCHANGED gatewayVars
  PROVE  Linked(w)'
<1>1. Linked(w) /\ pc'[w] = "done" /\ outcome'[w].status \in {"failed", "rejected"}
  <2>1. /\ pc \in [Workflows -> WP!Phases] /\ outcome \in [Workflows -> WP!Outcome]
        /\ Linked(w)
    BY WhereItRuns
  <2>2. \E status \in {"failed", "rejected"} : \E asks, agent :
          W!Return(w, status, asks, agent)
    BY DEF W!HandleFailure, W!FailureRejected
  <2> QED BY <2>1, <2>2 DEF W!Return, W!Goto
<1>2. W!NextAgent(w)' = W!NextAgent(w)
  BY DEF W!HandleFailure, W!FailureRejected, W!chosen, W!NextAgent
<1>3. LeftAtWork(w) => LeftAtWork(w)'
  <2>1. CASE W!HandleFailure(w)
    <3>0. PICK e : e = [actor |-> "system", action |-> "workflow.failed", note |-> ""]
      OBVIOUS
    <3>1. audit[w] \in Seq(WP!Event) /\ audit'[w] = Append(audit[w], e)
      BY <2>1, <3>0, WhereItRuns DEF W!HandleFailure, W!Write
    <3>2. /\ DOMAIN audit'[w] = DOMAIN audit[w] \cup {Len(audit[w]) + 1}
          /\ \A i \in DOMAIN audit[w] : audit'[w][i] = audit[w][i]
          /\ audit'[w][Len(audit[w]) + 1] = e
      BY <3>1, AppendAdds
    <3>3. Len(audit[w]) \in Nat /\ DOMAIN audit[w] = 1 .. Len(audit[w])
      BY <3>1
    <3>4. e.action = "workflow.failed"
      BY <3>0
    <3> QED BY <1>2, <3>2, <3>3, <3>4 DEF LeftAtWork
  <2>2. CASE W!FailureRejected(w)
    BY <1>2, <2>2 DEF W!FailureRejected, LeftAtWork
  <2> QED BY <2>1, <2>2
<1>4. phase[w] # "delivering"
  BY <1>1 DEF Linked, W!HandleFailure, W!FailureRejected
<1> QED BY <1>1, <1>3, <1>4 DEF Linked, gatewayVars

(* A step the workflow takes without the gateway.                          *)
LEMMA RunLinks ==
  ASSUME IInv, NEW w \in Workflows,
         \/ Call(w) \/ ModelAnswers(w) \/ AnswerUnrecorded(w) \/ ModelFails(w)
         \/ WorkLocally(w)
  PROVE  Linked(w)'
<1>1. CASE ModelAnswers(w) \/ AnswerUnrecorded(w) \/ ModelFails(w)
  BY <1>1, ReturnLinks
<1>2. CASE (W!HandleFailure(w) \/ W!FailureRejected(w)) /\ UNCHANGED gatewayVars
  BY <1>2, FailureLinks
<1>3. CASE /\ Call(w) \/ WorkLocally(w)
           /\ ~(W!HandleFailure(w) \/ W!FailureRejected(w))
  <2>1. pc[w] \notin {"calling", "raised", "done"}
    BY <1>3 DEF Call, W!Call, W!Execute, W!ExecuteRejected, W!Begun, WorkLocally,
       W!StartAgent, W!RefuseBudget, W!StoreResult, W!StoreFails, W!Collect,
       W!ApproveGate, W!DenyGate, W!DenialNotStored, W!Deny, W!HaltForApproval,
       W!Complete, W!StepThrows
  <2> QED BY <1>3, <2>1, WorkingLinks
<1> QED BY <1>1, <1>2, <1>3 DEF Call, WorkLocally

-----------------------------------------------------------------------------
LEMMA NextIInv == IInv /\ [Next]_vars => IInv'
<1> SUFFICES ASSUME IInv, [Next]_vars PROVE IInv'
  OBVIOUS
<1>1. [W!Next]_(W!vars) /\ [G!Next]_(G!vars)
  BY SidesStep DEF IInv
<1>2. WP!IInv'
  <2>1. [WP!Next]_(WP!vars)
    BY <1>1, SameRuns DEF WP!vars, W!vars, WP!chosen, W!chosen
  <2> QED BY <2>1, RunsAssumptions, WP!NextIInv DEF IInv
<1>3. GP!IInv'
  <2>1. [GP!Next]_(GP!vars)
    BY <1>1, SameConcierge DEF GP!vars, G!vars
  <2> QED BY <2>1, FleetAssumptions, GP!NextIInv DEF IInv
<1>4. ASSUME NEW w \in Workflows, Call(w) \/ Proceed(w), NEW v \in Workflows
      PROVE  Linked(v)'
  BY <1>4, OthersKeepLinked, CallModelLinks, DeliverLinks, RunLinks DEF Proceed
<1>5. ASSUME UNCHANGED vars, NEW v \in Workflows PROVE Linked(v)'
  <2>1. Linked(v)
    BY DEF IInv
  <2> QED BY <1>5, <2>1 DEF Linked, AgentAtWork, LeftAtWork, NextModelClass, W!NextAgent,
             vars, workflowVars, gatewayVars
<1> QED BY <1>2, <1>3, <1>4, <1>5 DEF Next, IInv

LEMMA SpecIInv == Spec => []IInv
BY InitIInv, NextIInv, PTL DEF Spec

-----------------------------------------------------------------------------
(* Every delivery has the caller that awaits it, and the class the caller  *)
(* asked for is the one its next agent runs on for this task.              *)
THEOREM DeliveriesHaveCallers == Spec => []DeliveryHasCaller
<1>1. IInv => DeliveryHasCaller
  BY DEF IInv, Linked, DeliveryHasCaller
<1> QED BY <1>1, SpecIInv, PTL

(* Only containers that serve the class of an agent's high-risk model ever *)
(* hold its work on a high-risk task, whatever fails over to whatever.     *)
THEOREM HighRiskConfined == Spec => []HighRiskStaysInClass
<1>1. IInv => HighRiskStaysInClass
  <2> SUFFICES ASSUME IInv, NEW w \in Workflows, pc[w] = "calling",
                      W!HighRisk(task[w]), at[w] # "none"
               PROVE  W!HighRiskModel[W!NextAgent(w)] \in Serves[at[w]]
    BY DEF HighRiskStaysInClass
  <2>1. class[w] = W!HighRiskModel[W!NextAgent(w)] /\ at[w] \in plan[w]
    BY DEF IInv, Linked, NextModelClass, W!ModelClassFor
  <2> QED BY <2>1 DEF IInv, GP!IInv, GP!RouteOK
<1> QED BY <1>1, SpecIInv, PTL

(* A request the Concierge gave up on is the last thing its run did: its   *)
(* agent never completes, and the run ends with the failure.               *)
THEOREM FailedCallsEndRuns == Spec => []FailedCallEndsRun
<1>1. IInv => FailedCallEndsRun
  BY DEF IInv, Linked, LeftAtWork, FailedCallEndsRun
<1> QED BY <1>1, SpecIInv, PTL

(* Behind the gateway a workflow is still the workflow of Workflow: what   *)
(* is proved of it there holds here, whichever requests fail.              *)
THEOREM WorkflowsImplemented == Spec => WorkflowsBehave
<1>1. Init => W!Init
  BY DEF Init
<1>2. IInv /\ [Next]_vars => [W!Next]_(W!vars)
  BY SidesStep DEF IInv
<1> QED BY <1>1, <1>2, SpecIInv, PTL DEF Spec, WorkflowsBehave, W!Spec

(* The workflows are callers the Concierge knows: one request each at a    *)
(* time, for the classes there are.                                        *)
THEOREM ConciergeImplemented == Spec => ConciergeBehaves
<1>1. Init => G!Init
  BY DEF Init
<1>2. IInv /\ [Next]_vars => [G!Next]_(G!vars)
  BY SidesStep DEF IInv
<1> QED BY <1>1, <1>2, SpecIInv, PTL DEF Spec, ConciergeBehaves, G!Spec

(* So what is proved of the orchestrator holds of every workflow of the    *)
(* gateway: proposals are gated, trails and stored evidence tell what the  *)
(* run did, and sensitive work asks for a human.                           *)
THEOREM RunsStaySafe ==
  Spec => [](/\ W!GatedProposal /\ W!TrailMatchesOutcome /\ W!TrailMatchesResults
             /\ W!EvidencePreserved /\ W!SensitiveNeedsHuman)
<1>1. Spec => WP!Spec
  <2>1. Init => WP!Init
    BY SameRuns DEF Init
  <2>2. IInv /\ [Next]_vars => [W!Next]_(W!vars)
    BY SidesStep DEF IInv
  <2>3. [W!Next]_(W!vars) => [WP!Next]_(WP!vars)
    BY SameRuns DEF WP!vars, W!vars, WP!chosen, W!chosen
  <2> QED BY <2>1, <2>2, <2>3, SpecIInv, PTL DEF Spec, WP!Spec
<1>2. WP!GatedProposal => W!GatedProposal
  <2>1. WP!ClearingNotes = W!ClearingNotes
    BY DEF WP!ClearingNotes, W!ClearingNotes, WP!Cleared, W!Cleared
  <2> QED BY <2>1 DEF WP!GatedProposal, W!GatedProposal
<1>3. WP!TrailMatchesOutcome => W!TrailMatchesOutcome
  <2>1. \A st : WP!ClosingEvent(st) = W!ClosingEvent(st)
    BY DEF WP!ClosingEvent, W!ClosingEvent
  <2>2. WP!ClosingEvents = W!ClosingEvents
    BY DEF WP!ClosingEvents, W!ClosingEvents
  <2> QED BY <2>1, <2>2 DEF WP!TrailMatchesOutcome, W!TrailMatchesOutcome
<1>4. WP!TrailMatchesResults => W!TrailMatchesResults
  <2>1. \A w : WP!ResultsSoFar(w) = W!ResultsSoFar(w)
    BY DEF WP!ResultsSoFar, W!ResultsSoFar
  <2>2. \A trail : WP!Completions(trail) = W!Completions(trail)
    BY DEF WP!Completions, W!Completions
  <2>3. \A S : WP!Cardinality(S) = W!Cardinality(S)
    BY DEF WP!Cardinality, W!Cardinality
  <2>4. \A trail, i : WP!Rank(trail, i) = W!Rank(trail, i)
    BY <2>2, <2>3 DEF WP!Rank, W!Rank
  <2>5. \A s : WP!SelectSequence(s) = W!SelectSequence(s)
    BY DEF WP!SelectSequence, W!SelectSequence
  <2> QED BY <2>1, <2>2, <2>3, <2>4, <2>5
          DEF WP!TrailMatchesResults, W!TrailMatchesResults
<1>5. WP!EvidencePreserved => W!EvidencePreserved
  BY SameRuns DEF WP!EvidencePreserved, W!EvidencePreserved, WP!ArtifactTypeOf,
     W!ArtifactTypeOf, WP!AgentId, W!AgentId
<1>6. WP!SensitiveNeedsHuman => W!SensitiveNeedsHuman
  BY DEF WP!SensitiveNeedsHuman, W!SensitiveNeedsHuman, WP!Sensitive, W!Sensitive,
     WP!HighRisk, W!HighRisk
<1> QED BY <1>1, <1>2, <1>3, <1>4, <1>5, <1>6, RunsAssumptions,
           WP!ProposalsGated, WP!TrailsAgree, WP!TrailsListResults, WP!EvidenceKept,
           WP!SensitiveWorkAsks, PTL

(* And what is proved of the Concierge holds of every model call: it never *)
(* leaves its class, tries primaries first, is reported as it went and is  *)
(* delivered only so often.                                                *)
THEOREM RequestsStaySafe ==
  Spec => [](G!NoDowngrade /\ G!TierOrder /\ G!ReportIsHonest /\ G!AttemptsBounded)
<1>1. Spec => GP!Spec
  <2>1. Init => GP!Init
    BY SameConcierge DEF Init
  <2>2. IInv /\ [Next]_vars => [G!Next]_(G!vars)
    BY SidesStep DEF IInv
  <2>3. [G!Next]_(G!vars) => [GP!Next]_(GP!vars)
    BY SameConcierge DEF GP!vars, G!vars
  <2> QED BY <2>1, <2>2, <2>3, SpecIInv, PTL DEF Spec, GP!Spec
<1>2. GP!NoDowngrade => G!NoDowngrade
  BY DEF GP!NoDowngrade, G!NoDowngrade
<1>3. GP!TierOrder => G!TierOrder
  BY DEF GP!TierOrder, G!TierOrder, GP!Before, G!Before, GP!Exhausted, G!Exhausted
<1>4. GP!ReportIsHonest => G!ReportIsHonest
  BY DEF GP!ReportIsHonest, G!ReportIsHonest, GP!Exhausted, G!Exhausted, GP!FatalKinds,
     G!FatalKinds
<1>5. GP!AttemptsBounded => G!AttemptsBounded
  BY DEF GP!AttemptsBounded, G!AttemptsBounded
<1> QED BY <1>1, <1>2, <1>3, <1>4, <1>5, FleetAssumptions, GP!NeverDowngraded, GP!TiersRespected,
           GP!ReportsHonest, GP!DeliveriesBounded, PTL
=============================================================================
