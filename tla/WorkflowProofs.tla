--------------------------- MODULE WorkflowProofs ---------------------------
(***************************************************************************)
(* The orchestrator's type correctness and its safety invariants, and that *)
(* it implements WorkflowContract, for any set of workflows and tasks, any *)
(* budget and token costs, any approval answers and any collaborators that *)
(* may throw.  IInv is inductive; HInv, what a run leaves behind, and      *)
(* RInv, where its proposal stands, are inductive given IInv.              *)
(***************************************************************************)
EXTENDS Workflow, SequenceTheorems, FiniteSetTheorems, TLAPS

(* The agents a strategy runs.                                             *)
Planned(s) == {SelectSequence(s)[i] : i \in DOMAIN SelectSequence(s)}

(* Where a run is and what it has collected fit its strategy: an agent is  *)
(* under way only if the sequence goes on and did not stop.                *)
PlaceOK(w) ==
  /\ pc[w] = "idle" => results[w] = <<>> /\ audit[w] = <<>> /\ used[w] = 0
  /\ Len(results[w]) <= Len(SelectSequence(strategy[w]))
  /\ pc[w] \in {"started", "calling", "produced"} => MoreToRun(w)

(* The collected results, and the one about to be, are what the planned    *)
(* agents build.                                                           *)
BuiltBy(result, agent, t) ==
  /\ result.agentId = agent
  /\ result.approvalRequired = (result.status = "blocked" \/ AsksApproval(agent, t))

ResultsOK(w) ==
  /\ \A i \in DOMAIN results[w] :
       BuiltBy(results[w][i], SelectSequence(strategy[w])[i], task[w])
  /\ pc[w] = "produced" => BuiltBy(produced[w], NextAgent(w), task[w])
  /\ StopsOnBlock(strategy[w]) =>
       \A i \in 1 .. Len(results[w]) - 1 : results[w][i].status # "blocked"

(* What GatedProposal says of one trail, and that none of its proposals    *)
(* is waiting for the gate.                                                *)
RaCompletes(event) == event.actor = "ra" /\ event.action = "agent.completed"

Clears(event) ==
  event.action = "workflow.approval_evaluated" /\ event.note \in ClearingNotes

GatedTrail(trail) ==
  \A i, k \in DOMAIN trail :
     /\ i < k /\ RaCompletes(trail[i])
     /\ trail[k].action \in {"agent.started", "workflow.completed"}
     => \E j \in i .. k : Clears(trail[j])

NoneOpen(trail) ==
  \A i \in DOMAIN trail :
     RaCompletes(trail[i]) => \E j \in i .. Len(trail) : Clears(trail[j])

GateOK(w) ==
  /\ GatedTrail(audit[w])
  /\ \/ pc[w] \in {"idle", "loop", "started", "calling"}
     \/ pc[w] = "produced" /\ produced[w].agentId # "ra"
     => NoneOpen(audit[w])

(* What TrailMatchesOutcome says of one run.                               *)
NoneClosing(trail) == \A i \in DOMAIN trail : trail[i].action \notin ClosingEvents

ClosedBy(trail, event) ==
  /\ trail # <<>> /\ trail[Len(trail)].action = event
  /\ \A i \in 1 .. Len(trail) - 1 : trail[i].action \notin ClosingEvents

TrailOK(w) ==
  /\ (pc[w] = "done") = (outcome[w].status # "none")
  /\ outcome[w].status \in {"none", "rejected"} => NoneClosing(audit[w])
  /\ outcome[w].status \notin {"none", "rejected"} =>
       ClosedBy(audit[w], ClosingEvent(outcome[w].status))

SpendingOK(w) ==
  /\ pc[w] = "calling" => used[w] < Budget
  /\ used[w] = 0 \/ \E tokens \in CallTokens : used[w] < Budget + tokens
  /\ error[w] = "budget" => used[w] >= Budget /\ pc[w] \in {"raised", "done"}

(* Only planned agents act, and the selector escalates what it must.       *)
StrategyOK(w) ==
  /\ \A i \in DOMAIN audit[w] : audit[w][i].actor \in Planned(strategy[w]) \cup {"system"}
  /\ pc[w] # "idle" /\ forceStrategy[w] = "none" /\ MustEscalate(task[w]) =>
       strategy[w] = "escalation"

OutcomeOK(w) ==
  /\ outcome[w].status \notin {"none", "rejected"} /\ Sensitive(task[w])
       => outcome[w].approvalRequired
  /\ outcome[w].status = "completed"
       /\ Len(results[w]) # Len(SelectSequence(strategy[w]))
       => /\ StopsOnBlock(strategy[w])
          /\ results[w][Len(results[w])].status = "blocked"

(* The inductive invariant.                                                *)
RunOK(w) ==
  /\ PlaceOK(w) /\ ResultsOK(w) /\ GateOK(w) /\ TrailOK(w)
  /\ SpendingOK(w) /\ StrategyOK(w) /\ OutcomeOK(w)

IInv == TypeOK /\ \A w \in Workflows : RunOK(w)

-----------------------------------------------------------------------------
(* What the six sequences have in common.                                  *)
LEMMA Sequences6 ==
  ASSUME NEW s \in StrategyName
  PROVE  /\ SelectSequence(s) \in Seq(AgentId)
         /\ Len(SelectSequence(s)) > 0
         /\ SelectSequence(s)[1] = "pharaoh"
         /\ \E i \in DOMAIN SelectSequence(s) : SelectSequence(s)[i] = "anubis-sentinel"
<1>1. CASE s = "sequential-review"
  <2>1. SelectSequence(s) = <<"pharaoh", "horus-nexus", "anubis-sentinel", "ra",
           "horus-nexus", "anubis-sentinel", "pharaoh">>
    BY <1>1 DEF SelectSequence
  <2>2. 3 \in DOMAIN SelectSequence(s) /\ SelectSequence(s)[3] = "anubis-sentinel"
    BY <2>1
  <2> QED BY <2>1, <2>2 DEF AgentId
<1>2. CASE s \in {"parallel-review", "arbitration"}
  <2>1. SelectSequence(s) = <<"pharaoh", "horus-nexus", "anubis-sentinel", "pharaoh">>
    BY <1>2 DEF SelectSequence
  <2>2. 3 \in DOMAIN SelectSequence(s) /\ SelectSequence(s)[3] = "anubis-sentinel"
    BY <2>1
  <2> QED BY <2>1, <2>2 DEF AgentId
<1>3. CASE s = "negotiation"
  <2>1. SelectSequence(s) = <<"pharaoh", "horus-nexus", "anubis-sentinel",
                              "horus-nexus", "pharaoh">>
    BY <1>3 DEF SelectSequence
  <2>2. 3 \in DOMAIN SelectSequence(s) /\ SelectSequence(s)[3] = "anubis-sentinel"
    BY <2>1
  <2> QED BY <2>1, <2>2 DEF AgentId
<1>4. CASE s = "voting"
  <2>1. SelectSequence(s) = <<"pharaoh", "ra", "horus-nexus", "anubis-sentinel", "pharaoh">>
    BY <1>4 DEF SelectSequence
  <2>2. 4 \in DOMAIN SelectSequence(s) /\ SelectSequence(s)[4] = "anubis-sentinel"
    BY <2>1
  <2> QED BY <2>1, <2>2 DEF AgentId
<1>5. CASE s = "escalation"
  <2>1. SelectSequence(s) = <<"pharaoh", "anubis-sentinel", "pharaoh">>
    BY <1>5 DEF SelectSequence
  <2>2. 2 \in DOMAIN SelectSequence(s) /\ SelectSequence(s)[2] = "anubis-sentinel"
    BY <2>1
  <2> QED BY <2>1, <2>2 DEF AgentId
<1> QED BY <1>1, <1>2, <1>3, <1>4, <1>5 DEF StrategyName

(* Escalation never runs Ra.                                               *)
LEMMA EscalationPlansNoBuild == "ra" \notin Planned("escalation")
<1>1. SelectSequence("escalation") = <<"pharaoh", "anubis-sentinel", "pharaoh">>
  BY DEF SelectSequence
<1> QED BY <1>1 DEF Planned

(* The next agent of a run that goes on is one of the planned agents.      *)
LEMMA NextAgentPlanned ==
  ASSUME NEW w \in Workflows, TypeOK, MoreToRun(w)
  PROVE  NextAgent(w) \in AgentId /\ NextAgent(w) \in Planned(strategy[w])
<1>1. strategy[w] \in StrategyName /\ Len(results[w]) \in Nat
  BY DEF TypeOK
<1>2. Len(results[w]) + 1 \in DOMAIN SelectSequence(strategy[w])
  BY <1>1, Sequences6 DEF MoreToRun
<1> QED BY <1>1, <1>2, Sequences6 DEF NextAgent, Planned

(* The gate always asks its provider: "repo.write" changes state.          *)
LEMMA GateAlwaysAsks == \A t : GateDecisions(t) = Decisions
BY DEF GateDecisions, RequiresApproval, StateChangingActions

(* Whatever an agent makes of the model's output is a result of its own.   *)
LEMMA ResultIsBuilt ==
  ASSUME NEW agent \in AgentId, NEW t \in AgentTask, NEW parsed \in BOOLEAN
  PROVE  /\ ResultOf(agent, t, parsed) \in AgentResult
         /\ BuiltBy(ResultOf(agent, t, parsed), agent, t)
<1>1. AsksApproval(agent, t) \in BOOLEAN
  BY DEF AsksApproval
<1> QED BY <1>1 DEF ResultOf, BuildResult, BuildBlockedResult, AgentResult, BuiltBy

-----------------------------------------------------------------------------
(* Lemmas on trails: what an appended event does to GatedTrail, NoneOpen   *)
(* and NoneClosing.                                                        *)
LEMMA AppendIndex ==
  ASSUME NEW S, NEW trail \in Seq(S), NEW e \in S
  PROVE  /\ Append(trail, e) \in Seq(S)
         /\ Len(Append(trail, e)) = Len(trail) + 1
         /\ DOMAIN Append(trail, e) = 1 .. Len(trail) + 1
         /\ DOMAIN trail = 1 .. Len(trail) /\ Len(trail) \in Nat
         /\ \A i \in 1 .. Len(trail) : Append(trail, e)[i] = trail[i]
         /\ Append(trail, e)[Len(trail) + 1] = e
         /\ Append(trail, e) # <<>>
OBVIOUS

LEMMA AppendKeepsNoneOpen ==
  ASSUME NEW trail \in Seq(Event), NEW e \in Event, NoneOpen(trail), ~RaCompletes(e)
  PROVE  NoneOpen(Append(trail, e))
BY AppendIndex DEF NoneOpen

LEMMA AppendClears ==
  ASSUME NEW trail \in Seq(Event), NEW e \in Event, Clears(e)
  PROVE  NoneOpen(Append(trail, e))
BY AppendIndex DEF NoneOpen

LEMMA AppendKeepsGated ==
  ASSUME NEW trail \in Seq(Event), NEW e \in Event, GatedTrail(trail),
         e.action \in {"agent.started", "workflow.completed"} => NoneOpen(trail)
  PROVE  GatedTrail(Append(trail, e))
<1> DEFINE longer == Append(trail, e)
<1> SUFFICES ASSUME NEW i \in DOMAIN longer, NEW k \in DOMAIN longer, i < k,
                    RaCompletes(longer[i]),
                    longer[k].action \in {"agent.started", "workflow.completed"}
             PROVE  \E j \in i .. k : Clears(longer[j])
  BY DEF GatedTrail
<1>1. i \in DOMAIN trail /\ longer[i] = trail[i]
  BY AppendIndex
<1>2. CASE k \in DOMAIN trail
  <2>1. PICK j \in i .. k : Clears(trail[j])
    BY <1>1, <1>2, AppendIndex DEF GatedTrail
  <2> QED BY <1>2, <2>1, AppendIndex
<1>3. CASE k = Len(trail) + 1
  <2>1. NoneOpen(trail)
    BY <1>3, AppendIndex
  <2>2. PICK j \in i .. Len(trail) : Clears(trail[j])
    BY <1>1, <2>1 DEF NoneOpen
  <2> QED BY <1>3, <2>2, AppendIndex
<1> QED BY <1>2, <1>3, AppendIndex

LEMMA AppendKeepsOpen ==
  ASSUME NEW trail \in Seq(Event), NEW e \in Event, NoneClosing(trail)
  PROVE  /\ e.action \notin ClosingEvents => NoneClosing(Append(trail, e))
         /\ ClosedBy(Append(trail, e), e.action)
BY AppendIndex DEF NoneClosing, ClosedBy

-----------------------------------------------------------------------------
(* Appending to the sequence of one run keeps the type of them all.        *)
LEMMA AppendType ==
  ASSUME NEW S, NEW f \in [Workflows -> Seq(S)], NEW w \in Workflows, NEW e \in S
  PROVE  [f EXCEPT ![w] = Append(@, e)] \in [Workflows -> Seq(S)]
OBVIOUS

(* Writing the trail and returning keep their types.                       *)
LEMMA WriteType ==
  ASSUME TypeOK, NEW w \in Workflows, NEW actor, NEW action, NEW note,
         [actor |-> actor, action |-> action, note |-> note] \in Event,
         Write(w, actor, action, note)
  PROVE  audit' \in [Workflows -> Seq(Event)]
<1> DEFINE e == [actor |-> actor, action |-> action, note |-> note]
<1>1. e \in Event /\ audit \in [Workflows -> Seq(Event)]
  BY DEF TypeOK
<1>2. audit' = [audit EXCEPT ![w] = Append(@, e)]
  BY DEF Write
<1> HIDE DEF e
<1> QED BY <1>1, <1>2, AppendType

LEMMA ReturnType ==
  ASSUME TypeOK, NEW w \in Workflows, NEW asks \in BOOLEAN,
         NEW status \in {"completed", "approval_required", "failed", "rejected"},
         NEW agent \in AgentId \cup {"system", "none"},
         Return(w, status, asks, agent)
  PROVE  outcome' \in [Workflows -> Outcome] /\ pc' \in [Workflows -> Phases]
<1> DEFINE end == [status |-> status, approvalRequired |-> asks, failedActor |-> agent]
<1>1. end \in Outcome
  BY DEF Outcome
<1>2. outcome \in [Workflows -> Outcome] /\ pc \in [Workflows -> Phases]
      /\ "done" \in Phases
  BY DEF TypeOK, Phases
<1>3. outcome' = [outcome EXCEPT ![w] = end] /\ pc' = [pc EXCEPT ![w] = "done"]
  BY DEF Return, Goto
<1> HIDE DEF end
<1> QED BY <1>1, <1>2, <1>3

(* A non-empty sequence ends in one of its elements.                       *)
LEMMA LastElement ==
  ASSUME NEW S, NEW s \in Seq(S), s # <<>>
  PROVE  Len(s) \in DOMAIN s /\ s[Len(s)] \in S
<1>1. Len(s) \in Nat /\ Len(s) # 0
  BY EmptySeq
<1> QED BY <1>1

(* The invariant holds initially.                                          *)
LEMMA InitIInv == Init => IInv
<1> SUFFICES ASSUME Init PROVE IInv
  OBVIOUS
<1>1. /\ BuildBlockedResult("pharaoh") \in AgentResult
      /\ NoTask \in AgentTask /\ NoOutcome \in Outcome
      /\ "idle" \in Phases /\ "sequential-review" \in StrategyName
  BY DEF BuildBlockedResult, AgentResult, AgentId, NoTask, AgentTask, RiskLevel,
         NoOutcome, Outcome, Phases, StrategyName
<1>2. TypeOK
  BY <1>1 DEF Init, TypeOK
<1>3. ASSUME NEW w \in Workflows PROVE RunOK(w)
  <2>1. Len(SelectSequence("sequential-review")) > 0
    BY <1>1, Sequences6
  <2>2. PlaceOK(w) /\ ResultsOK(w)
    BY <1>3, <2>1 DEF Init, PlaceOK, ResultsOK
  <2>3. GateOK(w) /\ TrailOK(w)
    BY <1>3 DEF Init, GateOK, GatedTrail, NoneOpen, TrailOK, NoneClosing, NoOutcome
  <2>4. SpendingOK(w) /\ StrategyOK(w) /\ OutcomeOK(w)
    BY <1>3 DEF Init, SpendingOK, StrategyOK, OutcomeOK, NoOutcome
  <2> QED BY <2>2, <2>3, <2>4 DEF RunOK
<1> QED BY <1>2, <1>3 DEF IInv

(* Where an agent works, the event and the result are of their types.      *)
LEMMA WorkingAgent ==
  ASSUME NEW w \in Workflows, TypeOK, MoreToRun(w), NEW parsed \in Parses
  PROVE  /\ NextAgent(w) \in AgentId
         /\ ResultOf(NextAgent(w), task[w], parsed) \in AgentResult
         /\ BuiltBy(ResultOf(NextAgent(w), task[w], parsed), NextAgent(w), task[w])
BY NextAgentPlanned, ResultIsBuilt, ParsesAssumption DEF TypeOK

LEMMA TypeStep ==
  ASSUME TypeOK, NEW w \in Workflows, PlaceOK(w), Call(w) \/ Proceed(w)
  PROVE  TypeOK'
<1>0. /\ Phases = {"idle", "loop", "started", "calling", "produced", "gate", "denied",
                   "raised", "done"}
      /\ task[w] \in AgentTask /\ produced[w] \in AgentResult
      /\ results[w] \in Seq(AgentResult) /\ used[w] \in Nat /\ CallTokens \subseteq Nat
  BY BudgetAssumption DEF TypeOK, Phases
<1>1. ASSUME NEW t \in Tasks, NEW force \in Forced,
             Execute(w, t, force) \/ ExecuteRejected(w, t, force)
      PROVE  TypeOK'
  <2>1. t \in AgentTask /\ force \in StrategyName \cup {"none"}
    BY TasksAssumption, ForcedAssumption
  <2>2. [actor |-> "system", action |-> "workflow.started", note |-> ""] \in Event
    BY DEF Event
  <2>3. audit' \in [Workflows -> Seq(Event)]
    BY <1>1, <2>2, WriteType DEF TypeOK, Execute, ExecuteRejected
  <2>4. outcome' \in [Workflows -> Outcome] /\ pc' \in [Workflows -> Phases]
    BY <1>0, <1>1, ReturnType DEF TypeOK, Execute, ExecuteRejected, Goto
  <2>5. /\ task' \in [Workflows -> AgentTask]
        /\ forceStrategy' \in [Workflows -> StrategyName \cup {"none"}]
        /\ strategy' \in [Workflows -> StrategyName]
    <3>1. Begun(w, t, force)
      BY <1>1 DEF Execute, ExecuteRejected
    <3>2. PICK s \in StrategyName : strategy' = [strategy EXCEPT ![w] = s]
      BY <3>1 DEF Begun
    <3>3. /\ task' = [task EXCEPT ![w] = t]
          /\ forceStrategy' = [forceStrategy EXCEPT ![w] = force]
      BY <3>1 DEF Begun
    <3> QED BY <2>1, <3>2, <3>3 DEF TypeOK
  <2> QED BY <1>1, <2>3, <2>4, <2>5 DEF TypeOK, Execute, ExecuteRejected, Begun
<1>2. CASE StartAgent(w)
  <2>1. [actor |-> NextAgent(w), action |-> "agent.started", note |-> ""] \in Event
    BY <1>2, NextAgentPlanned DEF StartAgent, Event
  <2>2. audit' \in [Workflows -> Seq(Event)]
    BY <1>2, <2>1, WriteType DEF StartAgent
  <2> QED BY <1>0, <1>2, <2>2 DEF TypeOK, StartAgent, Goto, chosen
<1>3. CASE CallModel(w)
  BY <1>0, <1>3 DEF TypeOK, CallModel, Goto, chosen
<1>4. CASE RefuseBudget(w) \/ ModelFails(w) \/ StepThrows(w)
  BY <1>0, <1>4 DEF TypeOK, RefuseBudget, ModelFails, StepThrows, Raise, Goto, chosen
<1>5. ASSUME NEW tokens \in CallTokens, NEW parsed \in Parses,
             ModelAnswers(w, tokens, parsed)
      PROVE  TypeOK'
  <2> DEFINE result == ResultOf(NextAgent(w), task[w], parsed)
  <2>1. result \in AgentResult
    BY <1>5, WorkingAgent DEF ModelAnswers, PlaceOK
  <2>2. [actor |-> result.agentId, action |-> "agent.completed",
         note |-> result.status] \in Event
    BY <2>1 DEF AgentResult, Event
  <2>3. audit' \in [Workflows -> Seq(Event)]
    BY <1>5, <2>2, WriteType DEF ModelAnswers
  <2>4. produced' \in [Workflows -> AgentResult]
    BY <1>5, <2>1 DEF TypeOK, ModelAnswers
  <2>5. pc' \in [Workflows -> Phases] /\ used' \in [Workflows -> Nat]
    BY <1>0, <1>5 DEF TypeOK, ModelAnswers, Goto
  <2> QED BY <1>5, <2>3, <2>4, <2>5 DEF TypeOK, ModelAnswers, chosen
<1>6. CASE StoreResult(w) \/ StoreFails(w)
  <2>1. [author |-> produced[w].agentId, type |-> ArtifactTypeOf[produced[w].agentId]]
          \in Artifact
    BY <1>0 DEF AgentResult, Artifact, ArtifactTypeOf, ArtifactType, AgentId
  <2> DEFINE made == [author |-> produced[w].agentId,
                      type |-> ArtifactTypeOf[produced[w].agentId]]
  <2>7. /\ [artifacts EXCEPT ![w] = Append(@, made)] \in [Workflows -> Seq(Artifact)]
        /\ [memory EXCEPT ![w] = Append(@, made)] \in [Workflows -> Seq(Artifact)]
        /\ [results EXCEPT ![w] = Append(@, produced[w])] \in [Workflows -> Seq(AgentResult)]
    <3>1. /\ made \in Artifact /\ produced[w] \in AgentResult
          /\ artifacts \in [Workflows -> Seq(Artifact)]
          /\ memory \in [Workflows -> Seq(Artifact)]
          /\ results \in [Workflows -> Seq(AgentResult)]
      BY <1>0, <2>1 DEF TypeOK
    <3> HIDE DEF made
    <3>2. [artifacts EXCEPT ![w] = Append(@, made)] \in [Workflows -> Seq(Artifact)]
      BY <3>1, AppendType
    <3>3. [memory EXCEPT ![w] = Append(@, made)] \in [Workflows -> Seq(Artifact)]
      BY <3>1, AppendType
    <3>4. [results EXCEPT ![w] = Append(@, produced[w])] \in [Workflows -> Seq(AgentResult)]
      BY <3>1, AppendType
    <3> QED BY <3>2, <3>3, <3>4
  <2>2. artifacts' \in [Workflows -> Seq(Artifact)] /\ memory' \in [Workflows -> Seq(Artifact)]
    BY <1>6, <2>7 DEF TypeOK, StoreResult, StoreFails, Collect
  <2>3. results' \in [Workflows -> Seq(AgentResult)]
    BY <1>6, <2>7 DEF StoreResult, StoreFails, Collect
  <2>4. pc' \in [Workflows -> Phases] /\ error' \in [Workflows -> {"none", "budget", "other"}]
    BY <1>0, <1>6 DEF TypeOK, StoreResult, StoreFails, Goto, Raise
  <2> QED BY <1>6, <2>2, <2>3, <2>4 DEF TypeOK, StoreResult, StoreFails, Collect, chosen
<1>7. ASSUME NEW decision \in Decisions, ApproveGate(w, decision) PROVE TypeOK'
  <2>1. [actor |-> "system", action |-> "workflow.approval_evaluated",
         note |-> IF decision.required THEN "granted" ELSE "not_required"] \in Event
    BY DEF Event
  <2>2. audit' \in [Workflows -> Seq(Event)]
    BY <1>7, <2>1, WriteType DEF ApproveGate
  <2> QED BY <1>0, <1>7, <2>2 DEF TypeOK, ApproveGate, Goto, chosen
<1>8. ASSUME NEW decision \in Decisions,
             DenyGate(w, decision) \/ DenialNotStored(w, decision)
      PROVE  TypeOK'
  <2>1. [author |-> "pharaoh", type |-> "approval_request"] \in Artifact
    BY DEF Artifact, AgentId, ArtifactType
  <2> DEFINE made == [author |-> "pharaoh", type |-> "approval_request"]
  <2>7. /\ [artifacts EXCEPT ![w] = Append(@, made)] \in [Workflows -> Seq(Artifact)]
        /\ [memory EXCEPT ![w] = Append(@, made)] \in [Workflows -> Seq(Artifact)]
    <3>1. /\ made \in Artifact
          /\ artifacts \in [Workflows -> Seq(Artifact)]
          /\ memory \in [Workflows -> Seq(Artifact)]
      BY <2>1 DEF TypeOK
    <3> HIDE DEF made
    <3>2. [artifacts EXCEPT ![w] = Append(@, made)] \in [Workflows -> Seq(Artifact)]
      BY <3>1, AppendType
    <3>3. [memory EXCEPT ![w] = Append(@, made)] \in [Workflows -> Seq(Artifact)]
      BY <3>1, AppendType
    <3> QED BY <3>2, <3>3
  <2>2. artifacts' \in [Workflows -> Seq(Artifact)] /\ memory' \in [Workflows -> Seq(Artifact)]
    BY <1>8, <2>7 DEF TypeOK, DenyGate, DenialNotStored, Deny
  <2> QED BY <1>0, <1>8, <2>2 DEF TypeOK, DenyGate, DenialNotStored, Deny, Goto, Raise, chosen
<1>9. CASE HaltForApproval(w) \/ Complete(w) \/ HandleFailure(w)
  <2>1. \A action \in ClosingEvents, note \in {"", "denied"} :
          [actor |-> "system", action |-> action, note |-> note] \in Event
    BY DEF Event, ClosingEvents
  <2>2. audit' \in [Workflows -> Seq(Event)]
    BY <1>9, <2>1, WriteType DEF HaltForApproval, Complete, HandleFailure, ClosingEvents
  <2>3. ASSUME results[w] # <<>> PROVE results[w][Len(results[w])].agentId \in AgentId
    <3>1. results[w][Len(results[w])] \in AgentResult
      BY <1>0, <2>3, LastElement
    <3> QED BY <3>1 DEF AgentResult
  <2> DEFINE asks == \E i \in DOMAIN results[w] : results[w][i].approvalRequired
             last == IF results[w] = <<>> THEN "system"
                                          ELSE results[w][Len(results[w])].agentId
  <2>4. asks \in BOOLEAN /\ last \in AgentId \cup {"system"}
    BY <2>3
  <2> HIDE DEF asks, last
  <2>5. \/ Return(w, "approval_required", TRUE, "none")
        \/ Return(w, "completed", asks, "none")
        \/ Return(w, "failed", TRUE, last)
    BY <1>9 DEF HaltForApproval, Complete, HandleFailure, asks, last
  <2>6. outcome' \in [Workflows -> Outcome] /\ pc' \in [Workflows -> Phases]
    BY <2>4, <2>5, ReturnType
  <2> QED BY <1>9, <2>2, <2>6 DEF TypeOK, HaltForApproval, Complete, HandleFailure, chosen
<1>10. CASE FailureRejected(w)
  <2>1. outcome' \in [Workflows -> Outcome] /\ pc' \in [Workflows -> Phases]
    BY <1>10, ReturnType DEF FailureRejected
  <2> QED BY <1>10, <2>1 DEF TypeOK, FailureRejected, chosen
<1>11. ASSUME NEW tokens \in CallTokens, AnswerUnrecorded(w, tokens) PROVE TypeOK'
  BY <1>0, <1>11 DEF TypeOK, AnswerUnrecorded, Raise, Goto, chosen
<1> QED BY <1>1, <1>2, <1>3, <1>4, <1>5, <1>6, <1>7, <1>8, <1>9, <1>10, <1>11,
           GateAlwaysAsks DEF Call, Proceed

-----------------------------------------------------------------------------
(* A step of one run touches no other run.                                 *)
LEMMA StepIsLocal ==
  ASSUME TypeOK, NEW w \in Workflows, NEW v \in Workflows, v # w, Call(w) \/ Proceed(w)
  PROVE  /\ pc'[v] = pc[v] /\ error'[v] = error[v] /\ outcome'[v] = outcome[v]
         /\ task'[v] = task[v] /\ forceStrategy'[v] = forceStrategy[v]
         /\ strategy'[v] = strategy[v] /\ produced'[v] = produced[v]
         /\ results'[v] = results[v] /\ audit'[v] = audit[v] /\ used'[v] = used[v]
<1>1. pc'[v] = pc[v] /\ error'[v] = error[v]
  BY DEF TypeOK, Call, Proceed, Execute, ExecuteRejected, Begun, StartAgent, CallModel,
     RefuseBudget, ModelAnswers, ModelFails, StoreResult, StoreFails, Collect, ApproveGate,
     DenyGate, DenialNotStored, Deny, HaltForApproval, Complete, HandleFailure,
     FailureRejected, StepThrows, AnswerUnrecorded, Goto, Raise, Return, chosen
<1>2. outcome'[v] = outcome[v]
  BY DEF TypeOK, Call, Proceed, Execute, ExecuteRejected, Begun, StartAgent, CallModel,
     RefuseBudget, ModelAnswers, ModelFails, StoreResult, StoreFails, Collect, ApproveGate,
     DenyGate, DenialNotStored, Deny, HaltForApproval, Complete, HandleFailure,
     FailureRejected, StepThrows, AnswerUnrecorded, Return, chosen
<1>3. /\ task'[v] = task[v] /\ forceStrategy'[v] = forceStrategy[v]
      /\ strategy'[v] = strategy[v]
  BY DEF TypeOK, Call, Proceed, Execute, ExecuteRejected, Begun, StartAgent, CallModel,
     RefuseBudget, ModelAnswers, ModelFails, StoreResult, StoreFails, Collect, ApproveGate,
     DenyGate, DenialNotStored, Deny, HaltForApproval, Complete, HandleFailure,
     FailureRejected, StepThrows, AnswerUnrecorded, chosen
<1>4. /\ produced'[v] = produced[v] /\ results'[v] = results[v]
      /\ audit'[v] = audit[v] /\ used'[v] = used[v]
  BY DEF TypeOK, Call, Proceed, Execute, ExecuteRejected, Begun, StartAgent, CallModel,
     RefuseBudget, ModelAnswers, ModelFails, StoreResult, StoreFails, Collect, ApproveGate,
     DenyGate, DenialNotStored, Deny, HaltForApproval, Complete, HandleFailure,
     FailureRejected, StepThrows, AnswerUnrecorded, Write, chosen
<1> QED BY <1>1, <1>2, <1>3, <1>4

LEMMA OthersKeepRun ==
  ASSUME TypeOK, NEW w \in Workflows, NEW v \in Workflows, v # w, RunOK(v),
         Call(w) \/ Proceed(w)
  PROVE  RunOK(v)'
<1>1. (MoreToRun(v))' = MoreToRun(v) /\ NextAgent(v)' = NextAgent(v)
  BY StepIsLocal DEF MoreToRun, NextAgent
<1> QED BY <1>1, StepIsLocal DEF RunOK, PlaceOK, ResultsOK, GateOK, TrailOK, SpendingOK,
           StrategyOK, OutcomeOK

(* A step that keeps the collected results, the trail, the spending and    *)
(* what was chosen, and does not return, can disturb only what depends on  *)
(* where the run is.                                                       *)
LEMMA QuietStep ==
  ASSUME TypeOK, NEW w \in Workflows, RunOK(w), pc[w] \notin {"idle", "done"},
         pc'[w] \in {"started", "calling", "produced", "gate", "denied", "raised"},
         pc'[w] \in {"started", "calling"} => MoreToRun(w) /\ NoneOpen(audit[w]),
         pc'[w] = "calling" => used[w] < Budget,
         pc'[w] # "produced",
         task'[w] = task[w], forceStrategy'[w] = forceStrategy[w],
         strategy'[w] = strategy[w], produced'[w] = produced[w],
         results'[w] = results[w], audit'[w] = audit[w], outcome'[w] = outcome[w],
         used'[w] = used[w],
         error'[w] = "budget" => used[w] >= Budget /\ pc'[w] = "raised"
  PROVE  RunOK(w)'
<1>1. (MoreToRun(w))' = MoreToRun(w)
  BY DEF MoreToRun
<1> QED BY <1>1 DEF RunOK, PlaceOK, ResultsOK, GateOK, TrailOK, SpendingOK,
           StrategyOK, OutcomeOK

(* A step that writes an event that closes nothing, keeps the results and  *)
(* does not return: what is left to show is where it goes and the gate.    *)
LEMMA WritingStep ==
  ASSUME TypeOK, NEW w \in Workflows, RunOK(w), NEW e \in Event, pc[w] \notin {"idle", "done"},
         audit'[w] = Append(audit[w], e), e.action \notin ClosingEvents,
         e.actor \in Planned(strategy[w]) \cup {"system"},
         pc'[w] \in {"loop", "started"},
         pc'[w] = "started" => MoreToRun(w),
         e.action \in {"agent.started", "workflow.completed"} => NoneOpen(audit[w]),
         NoneOpen(Append(audit[w], e)),
         task'[w] = task[w], forceStrategy'[w] = forceStrategy[w],
         strategy'[w] = strategy[w], produced'[w] = produced[w],
         results'[w] = results[w], outcome'[w] = outcome[w],
         used'[w] = used[w], error'[w] = error[w], pc[w] # "raised"
  PROVE  RunOK(w)'
<1>0. audit[w] \in Seq(Event)
  BY DEF TypeOK
<1>1. (MoreToRun(w))' = MoreToRun(w)
  BY DEF MoreToRun
<1>2. PlaceOK(w)' /\ ResultsOK(w)'
  BY <1>1 DEF RunOK, PlaceOK, ResultsOK
<1>3. GateOK(w)'
  BY <1>0, AppendKeepsGated DEF RunOK, GateOK
<1>4. TrailOK(w)'
  BY <1>0, AppendKeepsOpen DEF RunOK, TrailOK
<1>5. SpendingOK(w)' /\ OutcomeOK(w)'
  BY DEF RunOK, SpendingOK, OutcomeOK
<1>6. StrategyOK(w)'
  BY <1>0, AppendIndex DEF RunOK, StrategyOK
<1> QED BY <1>2, <1>3, <1>4, <1>5, <1>6 DEF RunOK

(* A step that closes the trail with the event of the status it returns.   *)
LEMMA ClosingStep ==
  ASSUME TypeOK, NEW w \in Workflows, RunOK(w), NEW e \in Event, pc[w] \notin {"idle", "done"},
         NEW status \in {"completed", "approval_required", "failed"},
         e.actor = "system", e.action = ClosingEvent(status),
         audit'[w] = Append(audit[w], e),
         pc'[w] = "done", outcome'[w].status = status,
         status = "completed" => NoneOpen(audit[w]) /\ ~MoreToRun(w),
         Sensitive(task[w]) => outcome'[w].approvalRequired,
         task'[w] = task[w], forceStrategy'[w] = forceStrategy[w],
         strategy'[w] = strategy[w], produced'[w] = produced[w],
         results'[w] = results[w], used'[w] = used[w], error'[w] = error[w]
  PROVE  RunOK(w)'
<1>0. audit[w] \in Seq(Event) /\ results[w] \in Seq(AgentResult)
  BY DEF TypeOK
<1>1. /\ e.action \in ClosingEvents /\ e.action # "agent.started"
      /\ e.action = "workflow.completed" => status = "completed"
  BY DEF ClosingEvent, ClosingEvents
<1>2. PlaceOK(w)' /\ ResultsOK(w)'
  BY DEF RunOK, PlaceOK, ResultsOK
<1>3. GateOK(w)'
  BY <1>0, <1>1, AppendKeepsGated DEF RunOK, GateOK
<1>4. NoneClosing(audit[w])
  BY DEF RunOK, TrailOK
<1>5. TrailOK(w)'
  BY <1>0, <1>4, AppendKeepsOpen DEF RunOK, TrailOK
<1>6. SpendingOK(w)'
  BY DEF RunOK, SpendingOK
<1>7. OutcomeOK(w)'
  <2>1. ASSUME status = "completed", Len(results[w]) # Len(SelectSequence(strategy[w]))
        PROVE  StopsOnBlock(strategy[w]) /\ results[w][Len(results[w])].status = "blocked"
    <3>1. AnyBlocked(results[w]) /\ StopsOnBlock(strategy[w])
      BY <1>0, <2>1, Sequences6 DEF TypeOK, RunOK, PlaceOK, MoreToRun, ShouldStop, StopsOnBlock
    <3>2. PICK i \in DOMAIN results[w] : results[w][i].status = "blocked"
      BY <3>1 DEF AnyBlocked
    <3>3. i = Len(results[w])
      BY <1>0, <3>1, <3>2 DEF RunOK, ResultsOK
    <3> QED BY <3>1, <3>2, <3>3
  <2> QED BY <2>1 DEF OutcomeOK
<1>8. StrategyOK(w)'
  BY <1>0, AppendIndex DEF RunOK, StrategyOK
<1> QED BY <1>2, <1>3, <1>5, <1>6, <1>7, <1>8 DEF RunOK

(* On sensitive work a run that is over with its sequence, or stopped it,  *)
(* holds a result that asks for approval.                                  *)
LEMMA SensitiveAsks ==
  ASSUME TypeOK, NEW w \in Workflows, RunOK(w), ~MoreToRun(w), Sensitive(task[w])
  PROVE  \E i \in DOMAIN results[w] : results[w][i].approvalRequired
<1>0. /\ results[w] \in Seq(AgentResult) /\ strategy[w] \in StrategyName
      /\ SelectSequence(strategy[w]) \in Seq(AgentId)
  BY Sequences6 DEF TypeOK
<1>1. CASE AnyBlocked(results[w])
  <2>1. PICK i \in DOMAIN results[w] : results[w][i].status = "blocked"
    BY <1>1 DEF AnyBlocked
  <2> QED BY <2>1 DEF RunOK, ResultsOK, BuiltBy
<1>2. CASE ~AnyBlocked(results[w])
  <2>1. DOMAIN results[w] = DOMAIN SelectSequence(strategy[w])
    BY <1>0, <1>2 DEF RunOK, PlaceOK, MoreToRun, ShouldStop
  <2>2. PICK i \in DOMAIN results[w] : SelectSequence(strategy[w])[i] = "anubis-sentinel"
    BY <1>0, <2>1, Sequences6
  <2>3. AsksApproval("anubis-sentinel", task[w])
    BY DEF AsksApproval, Sensitive
  <2>4. BuiltBy(results[w][i], "anubis-sentinel", task[w])
    BY <2>2 DEF RunOK, ResultsOK
  <2>5. results[w][i].approvalRequired
    BY <2>3, <2>4 DEF BuiltBy
  <2> QED BY <2>5
<1> QED BY <1>1, <1>2

-----------------------------------------------------------------------------
(* One lemma for each way the actions change a run.                        *)
LEMMA BeginStep ==
  ASSUME TypeOK, TypeOK', NEW w \in Workflows, RunOK(w), Call(w)
  PROVE  RunOK(w)'
<1>1. PICK t \in Tasks, force \in Forced :
        Execute(w, t, force) \/ ExecuteRejected(w, t, force)
  BY DEF Call
<1>2. Begun(w, t, force)
  BY <1>1 DEF Execute, ExecuteRejected
<1>3. /\ pc[w] = "idle" /\ results[w] = <<>> /\ audit[w] = <<>> /\ used[w] = 0
      /\ outcome[w].status = "none" /\ error[w] # "budget"
  BY <1>2 DEF Begun, RunOK, PlaceOK, TrailOK, SpendingOK
<1>4. /\ results'[w] = <<>> /\ used'[w] = 0 /\ error'[w] # "budget"
  BY <1>2, <1>3 DEF Begun
<1>5. forceStrategy'[w] = "none" /\ MustEscalate(task'[w]) => strategy'[w] = "escalation"
  <2>1. PICK s \in StrategyName :
          /\ IF force = "none" THEN Chosen(s, t) ELSE s = force
          /\ strategy' = [strategy EXCEPT ![w] = s]
    BY <1>2 DEF Begun
  <2>2. strategy'[w] = s /\ forceStrategy'[w] = force /\ task'[w] = t
    BY <1>2, <2>1 DEF Begun, TypeOK
  <2>3. force = "none" /\ MustEscalate(t) => s = "escalation"
    BY <2>1 DEF Chosen
  <2> QED BY <2>2, <2>3
<1>6. strategy'[w] \in StrategyName
  BY DEF TypeOK
<1>7. Len(results'[w]) = 0 /\ DOMAIN results'[w] = {}
  BY <1>4
<1>8. CASE Execute(w, t, force)
  <2> DEFINE e == [actor |-> "system", action |-> "workflow.started", note |-> ""]
  <2>1. /\ pc'[w] = "loop" /\ outcome'[w].status = "none"
        /\ audit'[w] = Append(<<>>, e)
    BY <1>3, <1>8 DEF Execute, Goto, Write, TypeOK
  <2>2. Append(<<>>, e) = <<e>> /\ e.actor = "system" /\ e.action = "workflow.started"
    OBVIOUS
  <2> HIDE DEF e
  <2>3. audit'[w] = <<e>>
    BY <2>1, <2>2
  <2>4. PlaceOK(w)' /\ ResultsOK(w)'
    BY <1>6, <1>7, <2>1, Sequences6 DEF PlaceOK, ResultsOK
  <2>5. GateOK(w)' /\ TrailOK(w)'
    BY <2>1, <2>2, <2>3 DEF GateOK, GatedTrail, NoneOpen, RaCompletes, TrailOK, NoneClosing,
       ClosingEvents
  <2>6. SpendingOK(w)' /\ OutcomeOK(w)' /\ StrategyOK(w)'
    BY <1>4, <1>5, <2>1, <2>2, <2>3 DEF SpendingOK, OutcomeOK, StrategyOK
  <2> QED BY <2>4, <2>5, <2>6 DEF RunOK
<1>9. CASE ExecuteRejected(w, t, force)
  <2>1. pc'[w] = "done" /\ outcome'[w].status = "rejected" /\ audit'[w] = <<>>
    BY <1>3, <1>9 DEF ExecuteRejected, Return, Goto, TypeOK
  <2>2. PlaceOK(w)' /\ ResultsOK(w)'
    BY <1>6, <1>7, <2>1, Sequences6 DEF PlaceOK, ResultsOK
  <2>3. GateOK(w)' /\ TrailOK(w)'
    BY <2>1 DEF GateOK, GatedTrail, NoneOpen, TrailOK, NoneClosing
  <2>4. SpendingOK(w)' /\ OutcomeOK(w)' /\ StrategyOK(w)'
    BY <1>4, <1>5, <2>1 DEF SpendingOK, OutcomeOK, StrategyOK
  <2> QED BY <2>2, <2>3, <2>4 DEF RunOK
<1> QED BY <1>1, <1>8, <1>9

(* The model's answer: charged, built into a result, and recorded.         *)
LEMMA AnswerStep ==
  ASSUME TypeOK, TypeOK', NEW w \in Workflows, RunOK(w),
         NEW tokens \in CallTokens, NEW parsed \in Parses, ModelAnswers(w, tokens, parsed)
  PROVE  RunOK(w)'
<1> DEFINE result == ResultOf(NextAgent(w), task[w], parsed)
           e == [actor |-> result.agentId, action |-> "agent.completed",
                 note |-> result.status]
<1>1. pc[w] = "calling" /\ MoreToRun(w) /\ NoneOpen(audit[w])
  BY DEF ModelAnswers, RunOK, PlaceOK, GateOK
<1>2. /\ result \in AgentResult /\ BuiltBy(result, NextAgent(w), task[w])
      /\ NextAgent(w) \in Planned(strategy[w])
  BY <1>1, WorkingAgent, NextAgentPlanned
<1>3. e \in Event /\ e.actor = result.agentId /\ e.action = "agent.completed"
  BY <1>2 DEF AgentResult, Event
<1>4. /\ pc'[w] = "produced" /\ produced'[w] = result /\ audit'[w] = Append(audit[w], e)
      /\ used'[w] = used[w] + tokens
  BY DEF ModelAnswers, Goto, Write, TypeOK
<1>5. /\ task'[w] = task[w] /\ forceStrategy'[w] = forceStrategy[w]
      /\ strategy'[w] = strategy[w] /\ results'[w] = results[w]
      /\ error'[w] = error[w] /\ outcome'[w] = outcome[w]
  BY DEF ModelAnswers, chosen
<1> HIDE DEF result, e
<1>6. (MoreToRun(w))' /\ NextAgent(w)' = NextAgent(w) /\ audit[w] \in Seq(Event)
  BY <1>1, <1>5 DEF MoreToRun, NextAgent, TypeOK
<1>7. PlaceOK(w)' /\ ResultsOK(w)'
  BY <1>2, <1>4, <1>5, <1>6 DEF RunOK, PlaceOK, ResultsOK
<1>8. GateOK(w)'
  <2>1. GatedTrail(Append(audit[w], e))
    BY <1>3, <1>6, AppendKeepsGated DEF RunOK, GateOK
  <2>2. result.agentId # "ra" => NoneOpen(Append(audit[w], e))
    BY <1>1, <1>3, <1>6, AppendKeepsNoneOpen DEF RaCompletes
  <2> QED BY <1>4, <2>1, <2>2 DEF GateOK
<1>9. TrailOK(w)'
  BY <1>1, <1>3, <1>4, <1>5, <1>6, AppendKeepsOpen DEF RunOK, TrailOK, ClosingEvents
<1>10. SpendingOK(w)'
  <2>1. used[w] \in Nat /\ Budget \in Nat /\ tokens \in Nat
    BY BudgetAssumption DEF TypeOK
  <2> QED BY <1>1, <1>4, <1>5, <2>1 DEF RunOK, SpendingOK
<1>11. OutcomeOK(w)'
  BY <1>5 DEF RunOK, OutcomeOK
<1>12. StrategyOK(w)'
  <2>1. e.actor \in Planned(strategy[w])
    BY <1>2, <1>3 DEF BuiltBy
  <2> QED BY <1>1, <1>3, <1>4, <1>5, <1>6, <2>1, AppendIndex DEF RunOK, StrategyOK
<1> QED BY <1>7, <1>8, <1>9, <1>10, <1>11, <1>12 DEF RunOK

(* The result is collected; only Ra's leaves the gate open.                *)
LEMMA CollectStep ==
  ASSUME TypeOK, TypeOK', NEW w \in Workflows, RunOK(w), StoreResult(w) \/ StoreFails(w)
  PROVE  RunOK(w)'
<1>1. /\ pc[w] = "produced" /\ MoreToRun(w)
      /\ results[w] \in Seq(AgentResult) /\ produced[w] \in AgentResult
      /\ strategy[w] \in StrategyName
  BY DEF StoreResult, StoreFails, Collect, RunOK, PlaceOK, TypeOK
<1>2. /\ pc'[w] \in {"gate", "loop", "raised"}
      /\ pc'[w] = "loop" => produced[w].agentId # "ra"
      /\ error'[w] # "budget" \/ error'[w] = error[w]
  BY DEF StoreResult, StoreFails, Goto, Raise, TypeOK
<1>3. /\ task'[w] = task[w] /\ forceStrategy'[w] = forceStrategy[w]
      /\ strategy'[w] = strategy[w] /\ produced'[w] = produced[w]
      /\ audit'[w] = audit[w] /\ used'[w] = used[w] /\ outcome'[w] = outcome[w]
      /\ results'[w] = Append(results[w], produced[w])
  BY DEF StoreResult, StoreFails, Collect, chosen, TypeOK
<1>4. PlaceOK(w)'
  BY <1>1, <1>2, <1>3, AppendIndex, Sequences6 DEF PlaceOK, MoreToRun
<1>5. ResultsOK(w)'
  <2>1. StopsOnBlock(strategy[w]) => \A i \in DOMAIN results[w] : results[w][i].status # "blocked"
    BY <1>1 DEF MoreToRun, ShouldStop, AnyBlocked, StopsOnBlock
  <2>2. BuiltBy(produced[w], SelectSequence(strategy[w])[Len(results[w]) + 1], task[w])
    BY <1>1 DEF RunOK, ResultsOK, NextAgent
  <2> QED BY <1>1, <1>2, <1>3, <2>1, <2>2, AppendIndex DEF RunOK, ResultsOK
<1>6. GateOK(w)' /\ TrailOK(w)' /\ StrategyOK(w)'
  BY <1>1, <1>2, <1>3 DEF RunOK, GateOK, TrailOK, StrategyOK
<1>7. SpendingOK(w)'
  BY <1>1, <1>2, <1>3 DEF RunOK, SpendingOK
<1>8. OutcomeOK(w)'
  BY <1>1, <1>3 DEF RunOK, TrailOK, OutcomeOK
<1> QED BY <1>4, <1>5, <1>6, <1>7, <1>8 DEF RunOK

(* An answer that was charged but not recorded.                            *)
LEMMA UnrecordedStep ==
  ASSUME TypeOK, TypeOK', NEW w \in Workflows, RunOK(w),
         NEW tokens \in CallTokens, AnswerUnrecorded(w, tokens)
  PROVE  RunOK(w)'
<1>1. /\ pc[w] = "calling" /\ pc'[w] = "raised" /\ error'[w] = "other"
      /\ used'[w] = used[w] + tokens
  BY DEF AnswerUnrecorded, Raise, Goto, TypeOK
<1>2. /\ task'[w] = task[w] /\ forceStrategy'[w] = forceStrategy[w]
      /\ strategy'[w] = strategy[w] /\ produced'[w] = produced[w]
      /\ results'[w] = results[w] /\ audit'[w] = audit[w] /\ outcome'[w] = outcome[w]
  BY DEF AnswerUnrecorded, chosen
<1>3. used[w] \in Nat /\ Budget \in Nat /\ tokens \in Nat
  BY BudgetAssumption DEF TypeOK
<1>4. SpendingOK(w)'
  BY <1>1, <1>3 DEF RunOK, SpendingOK
<1>5. PlaceOK(w)' /\ ResultsOK(w)'
  BY <1>1, <1>2 DEF RunOK, PlaceOK, ResultsOK
<1>6. GateOK(w)' /\ TrailOK(w)' /\ StrategyOK(w)' /\ OutcomeOK(w)'
  BY <1>1, <1>2 DEF RunOK, GateOK, TrailOK, StrategyOK, OutcomeOK
<1> QED BY <1>4, <1>5, <1>6 DEF RunOK

(* The caller gets an exception in place of the failure.                   *)
LEMMA RejectedStep ==
  ASSUME TypeOK, TypeOK', NEW w \in Workflows, RunOK(w), FailureRejected(w)
  PROVE  RunOK(w)'
<1>1. pc[w] = "raised" /\ pc'[w] = "done" /\ outcome'[w].status = "rejected"
  BY DEF FailureRejected, Return, Goto, TypeOK
<1>2. /\ task'[w] = task[w] /\ forceStrategy'[w] = forceStrategy[w]
      /\ strategy'[w] = strategy[w] /\ produced'[w] = produced[w]
      /\ results'[w] = results[w] /\ audit'[w] = audit[w] /\ used'[w] = used[w]
      /\ error'[w] = error[w]
  BY DEF FailureRejected, chosen
<1>3. PlaceOK(w)' /\ ResultsOK(w)' /\ GateOK(w)'
  BY <1>1, <1>2 DEF RunOK, PlaceOK, ResultsOK, GateOK
<1>4. TrailOK(w)' /\ SpendingOK(w)' /\ StrategyOK(w)' /\ OutcomeOK(w)'
  BY <1>1, <1>2 DEF RunOK, TrailOK, SpendingOK, StrategyOK, OutcomeOK
<1> QED BY <1>3, <1>4 DEF RunOK

(* The actions that write one event and go on: an agent starts, or the     *)
(* gate cleared the proposal.                                              *)
LEMMA GoOnStep ==
  ASSUME TypeOK, NEW w \in Workflows, RunOK(w),
         StartAgent(w) \/ \E decision \in Decisions : ApproveGate(w, decision)
  PROVE  RunOK(w)'
<1>0. audit[w] \in Seq(Event)
  BY DEF TypeOK
<1>1. /\ task'[w] = task[w] /\ forceStrategy'[w] = forceStrategy[w]
      /\ strategy'[w] = strategy[w] /\ produced'[w] = produced[w]
      /\ results'[w] = results[w] /\ used'[w] = used[w] /\ error'[w] = error[w]
      /\ outcome'[w] = outcome[w]
  BY DEF StartAgent, ApproveGate, chosen
<1>2. CASE StartAgent(w)
  <2> DEFINE e == [actor |-> NextAgent(w), action |-> "agent.started", note |-> ""]
  <2>1. /\ pc[w] = "loop" /\ MoreToRun(w) /\ pc'[w] = "started"
        /\ audit'[w] = Append(audit[w], e)
    BY <1>2 DEF StartAgent, Write, Goto, TypeOK
  <2>2. NextAgent(w) \in AgentId /\ NextAgent(w) \in Planned(strategy[w])
    BY <2>1, NextAgentPlanned
  <2>3. /\ e \in Event /\ e.actor \in Planned(strategy[w]) /\ e.action = "agent.started"
        /\ e.action \notin ClosingEvents /\ ~RaCompletes(e)
    BY <2>2 DEF Event, ClosingEvents, RaCompletes
  <2> HIDE DEF e
  <2>4. NoneOpen(audit[w])
    BY <2>1 DEF RunOK, GateOK
  <2>5. NoneOpen(Append(audit[w], e))
    BY <1>0, <2>3, <2>4, AppendKeepsNoneOpen
  <2> QED BY <1>1, <2>1, <2>3, <2>4, <2>5, WritingStep
<1>3. ASSUME NEW decision \in Decisions, ApproveGate(w, decision) PROVE RunOK(w)'
  <2> DEFINE note == IF decision.required THEN "granted" ELSE "not_required"
             e == [actor |-> "system", action |-> "workflow.approval_evaluated",
                   note |-> note]
  <2>1. /\ pc[w] = "gate" /\ pc'[w] = "loop" /\ Cleared(decision)
        /\ audit'[w] = Append(audit[w], e)
    BY <1>3 DEF ApproveGate, Write, Goto, TypeOK
  <2>2. note \in ClearingNotes
    BY <2>1 DEF ClearingNotes
  <2>3. /\ e \in Event /\ e.actor = "system"
        /\ e.action = "workflow.approval_evaluated" /\ e.note \in ClearingNotes
    BY <2>2 DEF Event
  <2> HIDE DEF e
  <2>4. NoneOpen(Append(audit[w], e))
    BY <1>0, <2>3, AppendClears DEF Clears
  <2>5. e.action \notin ClosingEvents
    BY <2>3 DEF ClosingEvents
  <2> QED BY <1>1, <2>1, <2>3, <2>4, <2>5, WritingStep
<1> QED BY <1>2, <1>3

(* The actions that write the closing event and return its status.         *)
LEMMA CloseStep ==
  ASSUME TypeOK, NEW w \in Workflows, RunOK(w),
         HaltForApproval(w) \/ Complete(w) \/ HandleFailure(w)
  PROVE  RunOK(w)'
<1>1. /\ task'[w] = task[w] /\ forceStrategy'[w] = forceStrategy[w]
      /\ strategy'[w] = strategy[w] /\ produced'[w] = produced[w]
      /\ results'[w] = results[w] /\ used'[w] = used[w] /\ error'[w] = error[w]
  BY DEF HaltForApproval, Complete, HandleFailure, chosen
<1> DEFINE Closing(status, note) ==
             [actor |-> "system", action |-> ClosingEvent(status), note |-> note]
<1>2. CASE HaltForApproval(w)
  <2>1. /\ pc[w] = "denied" /\ pc'[w] = "done" /\ outcome'[w].status = "approval_required"
        /\ outcome'[w].approvalRequired
        /\ audit'[w] = Append(audit[w], Closing("approval_required", "denied"))
    BY <1>2 DEF HaltForApproval, Write, Return, Goto, TypeOK, ClosingEvent
  <2>2. Closing("approval_required", "denied") \in Event
    BY DEF Event, ClosingEvent
  <2> QED BY <1>1, <2>1, <2>2, ClosingStep
<1>3. CASE Complete(w)
  <2> DEFINE asks == \E i \in DOMAIN results[w] : results[w][i].approvalRequired
  <2>1. /\ pc[w] = "loop" /\ ~MoreToRun(w) /\ pc'[w] = "done"
        /\ outcome'[w].status = "completed"
        /\ audit'[w] = Append(audit[w], Closing("completed", ""))
    BY <1>3 DEF Complete, Write, Return, Goto, TypeOK, ClosingEvent
  <2>2. outcome'[w].approvalRequired = asks
    BY <1>3 DEF Complete, Return, TypeOK
  <2>3. Sensitive(task[w]) => outcome'[w].approvalRequired
    BY <2>1, <2>2, SensitiveAsks
  <2>4. NoneOpen(audit[w])
    BY <2>1 DEF RunOK, GateOK
  <2>5. Closing("completed", "") \in Event
    BY DEF Event, ClosingEvent
  <2> QED BY <1>1, <2>1, <2>3, <2>4, <2>5, ClosingStep
<1>4. CASE HandleFailure(w)
  <2>1. /\ pc[w] = "raised" /\ pc'[w] = "done" /\ outcome'[w].status = "failed"
        /\ outcome'[w].approvalRequired
        /\ audit'[w] = Append(audit[w], Closing("failed", ""))
    BY <1>4 DEF HandleFailure, Write, Return, Goto, TypeOK, ClosingEvent
  <2>2. Closing("failed", "") \in Event
    BY DEF Event, ClosingEvent
  <2> QED BY <1>1, <2>1, <2>2, ClosingStep
<1> QED BY <1>2, <1>3, <1>4

(* The steps that only move on, towards a model call, a denial or a        *)
(* failure.                                                                *)
LEMMA MovingStep ==
  ASSUME TypeOK, NEW w \in Workflows, RunOK(w),
         \/ CallModel(w) \/ RefuseBudget(w) \/ ModelFails(w) \/ StepThrows(w)
         \/ \E decision \in Decisions : DenyGate(w, decision) \/ DenialNotStored(w, decision)
  PROVE  RunOK(w)'
<1>1. /\ task'[w] = task[w] /\ forceStrategy'[w] = forceStrategy[w]
      /\ strategy'[w] = strategy[w] /\ produced'[w] = produced[w]
      /\ results'[w] = results[w] /\ audit'[w] = audit[w]
      /\ outcome'[w] = outcome[w] /\ used'[w] = used[w]
  BY DEF CallModel, RefuseBudget, ModelFails, StepThrows, DenyGate, DenialNotStored, Deny,
     chosen
<1>2. CASE CallModel(w)
  <2>1. /\ pc[w] = "started" /\ pc'[w] = "calling" /\ used[w] < Budget
        /\ error'[w] = error[w]
    BY <1>2 DEF CallModel, Goto, TypeOK
  <2>2. MoreToRun(w) /\ NoneOpen(audit[w]) /\ error[w] # "budget"
    BY <2>1 DEF RunOK, PlaceOK, GateOK, SpendingOK
  <2> QED BY <1>1, <2>1, <2>2, QuietStep
<1>3. CASE RefuseBudget(w)
  <2>1. /\ pc[w] = "started" /\ pc'[w] = "raised" /\ used[w] >= Budget
    BY <1>3 DEF RefuseBudget, Raise, Goto, TypeOK
  <2> QED BY <1>1, <2>1, QuietStep
<1>4. CASE ModelFails(w) \/ StepThrows(w)
           \/ \E decision \in Decisions : DenialNotStored(w, decision)
  <2>1. /\ pc[w] \notin {"idle", "done"} /\ pc'[w] = "raised" /\ error'[w] = "other"
    BY <1>4 DEF ModelFails, StepThrows, DenialNotStored, Deny, Raise, Goto, TypeOK
  <2> QED BY <1>1, <2>1, QuietStep
<1>5. CASE \E decision \in Decisions : DenyGate(w, decision)
  <2>1. pc[w] = "gate" /\ pc'[w] = "denied" /\ error'[w] = error[w]
    BY <1>5 DEF DenyGate, Deny, Goto, TypeOK
  <2>2. error[w] # "budget"
    BY <2>1 DEF RunOK, SpendingOK
  <2> QED BY <1>1, <2>1, <2>2, QuietStep
<1> QED BY <1>2, <1>3, <1>4, <1>5

-----------------------------------------------------------------------------
(* The invariant is inductive.                                             *)
LEMMA NextIInv == IInv /\ [Next]_vars => IInv'
<1> SUFFICES ASSUME IInv, [Next]_vars PROVE IInv'
  OBVIOUS
<1>1. TypeOK /\ \A v \in Workflows : RunOK(v)
  BY DEF IInv
<1>2. CASE UNCHANGED vars
  <2>1. TypeOK'
    BY <1>1, <1>2 DEF TypeOK, vars, chosen
  <2>2. ASSUME NEW v \in Workflows PROVE RunOK(v)'
    <3>1. (MoreToRun(v))' = MoreToRun(v) /\ NextAgent(v)' = NextAgent(v)
      BY <1>2 DEF MoreToRun, NextAgent, vars, chosen
    <3> QED BY <1>1, <1>2, <2>2, <3>1 DEF RunOK, PlaceOK, ResultsOK, GateOK, TrailOK,
               SpendingOK, StrategyOK, OutcomeOK, vars, chosen
  <2> QED BY <2>1, <2>2 DEF IInv
<1>3. ASSUME NEW w \in Workflows, Call(w) \/ Proceed(w) PROVE IInv'
  <2>1. TypeOK'
    BY <1>1, <1>3, TypeStep DEF RunOK
  <2>2. RunOK(w)'
    BY <1>1, <1>3, <2>1, GateAlwaysAsks, BeginStep, AnswerStep, CollectStep, UnrecordedStep,
       RejectedStep, GoOnStep, CloseStep, MovingStep DEF Proceed
  <2>3. ASSUME NEW v \in Workflows, v # w PROVE RunOK(v)'
    BY <1>1, <1>3, <2>3, OthersKeepRun
  <2> QED BY <2>1, <2>2, <2>3 DEF IInv
<1> QED BY <1>2, <1>3 DEF Next

LEMMA IInvHolds == Spec => []IInv
BY InitIInv, NextIInv, PTL DEF Spec

-----------------------------------------------------------------------------
(* Every variable keeps its type, whatever execute is called with and      *)
(* whoever throws.                                                         *)
THEOREM TypeCorrect == Spec => []TypeOK
<1>1. IInv => TypeOK
  BY DEF IInv
<1> QED BY <1>1, IInvHolds, PTL

(* No agent starts and no run completes on a proposal of Ra that the gate  *)
(* has not cleared (HarpOrchestrator.execute, every strategy).             *)
THEOREM ProposalsGated == Spec => []GatedProposal
<1>1. IInv => GatedProposal
  BY DEF IInv, RunOK, GateOK, GatedTrail, RaCompletes, Clears, GatedProposal
<1> QED BY <1>1, IInvHolds, PTL

(* The audit trail's closing event and the returned status always agree.   *)
THEOREM TrailsAgree == Spec => []TrailMatchesOutcome
<1>1. ASSUME IInv, NEW w \in Workflows
      PROVE  LET trail == audit[w]  status == outcome[w].status IN
             /\ \A i \in DOMAIN trail :
                  trail[i].action \in ClosingEvents => i = Len(trail) /\ pc[w] = "done"
             /\ status \in {"none", "rejected"} =>
                  \A i \in DOMAIN trail : trail[i].action \notin ClosingEvents
             /\ status \notin {"none", "rejected"} =>
                  trail # <<>> /\ trail[Len(trail)].action = ClosingEvent(status)
             /\ (pc[w] = "done") = (status # "none")
  <2>1. TrailOK(w) /\ audit[w] \in Seq(Event)
    BY <1>1 DEF IInv, RunOK, TypeOK
  <2> QED BY <2>1 DEF TrailOK, NoneClosing, ClosedBy
<1>2. IInv => TrailMatchesOutcome
  BY <1>1 DEF TrailMatchesOutcome
<1> QED BY <1>2, IInvHolds, PTL

(* A result for sensitive work always asks for a human, whichever strategy *)
(* ran and however the run ended.                                          *)
THEOREM SensitiveWorkAsks == Spec => []SensitiveNeedsHuman
<1>1. IInv => SensitiveNeedsHuman
  BY DEF IInv, RunOK, OutcomeOK, SensitiveNeedsHuman
<1> QED BY <1>1, IInvHolds, PTL

(* Only the strategies that stop on unusable output end early, and exactly *)
(* at the first blocked agent.                                             *)
THEOREM EarlyStopsExact == Spec => []StopsExactlyAtBlock
<1>1. IInv => StopsExactlyAtBlock
  BY DEF IInv, RunOK, ResultsOK, OutcomeOK, StopsExactlyAtBlock
<1> QED BY <1>1, IInvHolds, PTL

(* A run overshoots its token budget by less than one call.                *)
THEOREM OvershootBounded == Spec => []BudgetOvershootBounded
<1>1. IInv => BudgetOvershootBounded
  BY DEF IInv, RunOK, SpendingOK, BudgetOvershootBounded
<1> QED BY <1>1, IInvHolds, PTL

(* With the selector in charge, Ra never acts on work that must escalate.  *)
THEOREM NeverBuiltUnescalated == Spec => []EscalatedNeverBuilt
<1>1. ASSUME IInv, NEW w \in Workflows, forceStrategy[w] = "none", MustEscalate(task[w]),
             NEW i \in DOMAIN audit[w]
      PROVE  audit[w][i].actor # "ra"
  <2>1. strategy[w] = "escalation" /\ StrategyOK(w)
    BY <1>1 DEF IInv, RunOK, PlaceOK, StrategyOK
  <2> QED BY <1>1, <2>1, EscalationPlansNoBuild DEF StrategyOK
<1>2. IInv => EscalatedNeverBuilt
  BY <1>1 DEF EscalatedNeverBuilt
<1> QED BY <1>2, IInvHolds, PTL
-----------------------------------------------------------------------------
(* What a run leaves behind: its artifacts, what of them is stored, and    *)
(* the completions its trail lists.  Nothing of IInv depends on them, so   *)
(* they are a second invariant that is inductive given the first.          *)
ArtifactBy(result) == [author |-> result.agentId, type |-> ArtifactTypeOf[result.agentId]]

EndsDenied(made, agents) ==
  Len(made) = Len(agents) + 1 /\ made[Len(made)].type = "approval_request"

(* An artifact is missing from the store, and the approval request is      *)
(* among the artifacts, only from where a step can leave it so.            *)
EvidenceOK(w) ==
  /\ pc[w] = "idle" => artifacts[w] = <<>> /\ memory[w] = <<>>
  /\ \A i \in DOMAIN results[w] : artifacts[w][i] = ArtifactBy(results[w][i])
  /\ \A i \in DOMAIN memory[w] : memory[w][i] = artifacts[w][i]
  /\ Len(artifacts[w]) \in {Len(results[w]), Len(results[w]) + 1}
  /\ Len(artifacts[w]) \in {Len(memory[w]), Len(memory[w]) + 1}
  /\ error[w] # "other" => Len(artifacts[w]) = Len(memory[w])
  /\ pc[w] \notin {"raised", "done"} => error[w] = "none"
  /\ pc[w] \notin {"denied", "raised", "done"} => Len(artifacts[w]) = Len(results[w])
  /\ pc[w] = "denied" \/ outcome[w].status = "approval_required"
       => EndsDenied(artifacts[w], results[w])
  /\ outcome[w].status = "completed" => Len(artifacts[w]) = Len(results[w])

(* What TrailMatchesResults says of a trail and the results it lists.      *)
Lists(trail, agents) ==
  /\ Cardinality(Completions(trail)) = Len(agents)
  /\ \A i \in Completions(trail) :
       /\ trail[i].actor = agents[Rank(trail, i)].agentId
       /\ trail[i].note = agents[Rank(trail, i)].status

HistoryOK(w) == EvidenceOK(w) /\ Lists(audit[w], ResultsSoFar(w))

HInv == IInv /\ \A w \in Workflows : HistoryOK(w)

-----------------------------------------------------------------------------
(* The completions of a trail are numbered from 1 on.                      *)
LEMMA CompletionsFinite ==
  ASSUME NEW trail \in Seq(Event)
  PROVE  /\ IsFiniteSet(Completions(trail)) /\ Cardinality(Completions(trail)) \in Nat
         /\ \A i \in Completions(trail) : Rank(trail, i) \in 1 .. Cardinality(Completions(trail))
<1>1. IsFiniteSet(Completions(trail))
  <2>1. IsFiniteSet(1 .. Len(trail)) /\ Completions(trail) \subseteq 1 .. Len(trail)
    BY FS_Interval DEF Completions
  <2> QED BY <2>1, FS_Subset
<1>2. ASSUME NEW i \in Completions(trail)
      PROVE  Rank(trail, i) \in 1 .. Cardinality(Completions(trail))
  <2> DEFINE S == {j \in Completions(trail) : j <= i}
  <2>1. i \in S /\ S \subseteq Completions(trail)
    BY DEF Completions
  <2>2. IsFiniteSet(S) /\ Cardinality(S) <= Cardinality(Completions(trail))
    BY <1>1, <2>1, FS_Subset
  <2>3. Cardinality(S) # 0 /\ Cardinality(S) \in Nat
    BY <2>1, <2>2, FS_EmptySet, FS_CardinalityType
  <2> QED BY <1>1, <2>2, <2>3, FS_CardinalityType DEF Rank
<1> QED BY <1>1, <1>2, FS_CardinalityType

LEMMA AppendOther ==
  ASSUME NEW trail \in Seq(Event), NEW e \in Event, NEW agents, Lists(trail, agents),
         e.action # "agent.completed"
  PROVE  Lists(Append(trail, e), agents)
<1> DEFINE longer == Append(trail, e)
<1>1. Completions(longer) = Completions(trail)
  BY AppendIndex DEF Completions
<1>2. \A i \in Completions(trail) : longer[i] = trail[i]
  BY AppendIndex DEF Completions
<1> HIDE DEF longer
<1>3. \A i : Rank(longer, i) = Rank(trail, i)
  BY <1>1 DEF Rank
<1> QED BY <1>1, <1>2, <1>3 DEF Lists, longer

LEMMA AppendCompletion ==
  ASSUME NEW trail \in Seq(Event), NEW e \in Event, NEW agents \in Seq(AgentResult),
         NEW result \in AgentResult, Lists(trail, agents),
         e.action = "agent.completed", e.actor = result.agentId, e.note = result.status
  PROVE  Lists(Append(trail, e), Append(agents, result))
<1> DEFINE longer == Append(trail, e)
           more == Append(agents, result)
           n == Len(trail) + 1
<1>0. /\ longer \in Seq(Event) /\ n \in Nat \ {0} /\ Len(agents) \in Nat
      /\ DOMAIN longer = 1 .. n /\ DOMAIN trail = 1 .. n - 1
      /\ longer[n] = e /\ \A i \in 1 .. n - 1 : longer[i] = trail[i]
      /\ Len(more) = Len(agents) + 1 /\ more[Len(agents) + 1] = result
      /\ \A i \in 1 .. Len(agents) : more[i] = agents[i]
  OBVIOUS
<1> HIDE DEF longer, more, n
<1>1. Completions(longer) = Completions(trail) \cup {n} /\ n \notin Completions(trail)
  <2>1. 1 .. n = (1 .. n - 1) \cup {n} /\ n \notin 1 .. n - 1
    BY <1>0
  <2> QED BY <1>0, <2>1 DEF Completions
<1>2. Cardinality(Completions(longer)) = Len(agents) + 1
  BY <1>1, CompletionsFinite, FS_AddElement DEF Lists
<1>3. ASSUME NEW i \in Completions(trail)
      PROVE  longer[i].actor = more[Rank(longer, i)].agentId /\
             longer[i].note = more[Rank(longer, i)].status
  <2>1. i \in 1 .. n - 1
    BY <1>0 DEF Completions
  <2>2. {j \in Completions(longer) : j <= i} = {j \in Completions(trail) : j <= i}
    BY <1>0, <1>1, <2>1
  <2>3. Rank(longer, i) = Rank(trail, i)
    BY <2>2 DEF Rank
  <2>4. Rank(trail, i) \in 1 .. Len(agents)
    BY CompletionsFinite DEF Lists
  <2> QED BY <1>0, <2>1, <2>3, <2>4 DEF Lists
<1>4. Rank(longer, n) = Len(agents) + 1
  <2>1. {j \in Completions(longer) : j <= n} = Completions(longer)
    BY <1>0 DEF Completions
  <2> QED BY <1>2, <2>1 DEF Rank
<1>5. Lists(longer, more)
  BY <1>0, <1>1, <1>2, <1>3, <1>4 DEF Lists
<1> QED BY <1>5 DEF longer, more

(* The trail of a run under way lists what it has produced.                *)
LEMMA ListsStep ==
  ASSUME TypeOK, TypeOK', NEW w \in Workflows, RunOK(w), Lists(audit[w], ResultsSoFar(w)),
         Call(w) \/ Proceed(w)
  PROVE  Lists(audit[w], ResultsSoFar(w))'
<1>0. /\ audit[w] \in Seq(Event) /\ audit'[w] \in Seq(Event)
      /\ results[w] \in Seq(AgentResult) /\ produced[w] \in AgentResult
      /\ audit \in [Workflows -> Seq(Event)] /\ pc \in [Workflows -> Phases]
  BY DEF TypeOK
<1>1. ASSUME NEW e \in Event, e.action # "agent.completed", audit'[w] = Append(audit[w], e),
             results'[w] = results[w], pc[w] # "produced", pc'[w] # "produced"
      PROVE  Lists(audit[w], ResultsSoFar(w))'
  <2>1. ResultsSoFar(w)' = ResultsSoFar(w)
    BY <1>1 DEF ResultsSoFar
  <2> QED BY <1>0, <1>1, <2>1, AppendOther
<1>2. ASSUME audit'[w] = audit[w], results'[w] = results[w],
             pc[w] # "produced", pc'[w] # "produced"
      PROVE  Lists(audit[w], ResultsSoFar(w))'
  BY <1>2 DEF ResultsSoFar
<1>3. ASSUME NEW actor, NEW action, NEW note, Write(w, actor, action, note),
             action # "agent.completed", results'[w] = results[w],
             pc[w] # "produced", pc'[w] # "produced"
      PROVE  Lists(audit[w], ResultsSoFar(w))'
  <2> DEFINE e == [actor |-> actor, action |-> action, note |-> note]
  <2>1. audit'[w] = Append(audit[w], e) /\ e.action = action
    BY <1>0, <1>3 DEF Write
  <2> HIDE DEF e
  <2>2. e \in Event
    <3>1. Append(audit[w], e) \in Seq(Event)
      BY <1>0, <2>1
    <3>2. Append(audit[w], e)[Len(audit[w]) + 1] = e /\ Len(Append(audit[w], e)) = Len(audit[w]) + 1
      BY <1>0
    <3> QED BY <1>0, <3>1, <3>2
  <2> QED BY <1>1, <1>3, <2>1, <2>2
<1>4. ASSUME NEW t \in Tasks, NEW force \in Forced,
             Execute(w, t, force) \/ ExecuteRejected(w, t, force)
      PROVE  Lists(audit[w], ResultsSoFar(w))'
  <2>1. pc[w] = "idle" /\ pc'[w] # "produced" /\ results'[w] = results[w]
    BY <1>0, <1>4 DEF Execute, ExecuteRejected, Begun, Goto, Return
  <2>2. CASE Execute(w, t, force)
    BY <1>3, <2>1, <2>2 DEF Execute
  <2>3. CASE ExecuteRejected(w, t, force)
    BY <1>2, <2>1, <2>3 DEF ExecuteRejected
  <2> QED BY <1>4, <2>2, <2>3
<1>5. CASE StartAgent(w)
  <2>1. pc[w] # "produced" /\ pc'[w] # "produced" /\ results'[w] = results[w]
    BY <1>0, <1>5 DEF StartAgent, Goto
  <2> QED BY <1>3, <1>5, <2>1 DEF StartAgent
<1>6. CASE CallModel(w) \/ RefuseBudget(w) \/ ModelFails(w) \/ StepThrows(w) \/ FailureRejected(w)
  <2>1. /\ pc[w] # "produced" /\ pc'[w] # "produced" /\ results'[w] = results[w]
        /\ audit'[w] = audit[w]
    BY <1>0, <1>6 DEF CallModel, RefuseBudget, ModelFails, StepThrows, FailureRejected, Goto,
       Raise, Return
  <2> QED BY <1>2, <2>1
<1>7. ASSUME NEW tokens \in CallTokens, NEW parsed \in Parses, ModelAnswers(w, tokens, parsed)
      PROVE  Lists(audit[w], ResultsSoFar(w))'
  <2> DEFINE result == ResultOf(NextAgent(w), task[w], parsed)
             e == [actor |-> result.agentId, action |-> "agent.completed",
                   note |-> result.status]
  <2>1. result \in AgentResult
    BY <1>7, WorkingAgent DEF ModelAnswers, RunOK, PlaceOK
  <2>2. /\ e \in Event /\ e.actor = result.agentId /\ e.action = "agent.completed"
        /\ e.note = result.status
    BY <2>1 DEF AgentResult, Event
  <2>3. /\ pc[w] = "calling" /\ pc'[w] = "produced" /\ produced'[w] = result
        /\ audit'[w] = Append(audit[w], e) /\ results'[w] = results[w]
    BY <1>7 DEF ModelAnswers, Goto, Write, TypeOK
  <2> HIDE DEF result, e
  <2>4. ResultsSoFar(w) = results[w] /\ ResultsSoFar(w)' = Append(results[w], result)
    BY <2>3 DEF ResultsSoFar
  <2> QED BY <1>0, <2>1, <2>2, <2>3, <2>4, AppendCompletion
<1>8. CASE StoreResult(w) \/ StoreFails(w)
  <2>1. /\ pc[w] = "produced" /\ pc'[w] # "produced" /\ audit'[w] = audit[w]
        /\ results'[w] = Append(results[w], produced[w])
    BY <1>0, <1>8 DEF StoreResult, StoreFails, Collect, Goto, Raise, TypeOK
  <2>2. ResultsSoFar(w)' = ResultsSoFar(w)
    BY <2>1 DEF ResultsSoFar
  <2> QED BY <2>1, <2>2
<1>9. ASSUME NEW decision \in Decisions, ApproveGate(w, decision)
      PROVE  Lists(audit[w], ResultsSoFar(w))'
  <2>1. pc[w] # "produced" /\ pc'[w] # "produced" /\ results'[w] = results[w]
    BY <1>0, <1>9 DEF ApproveGate, Goto
  <2> QED BY <1>3, <1>9, <2>1 DEF ApproveGate
<1>10. ASSUME NEW decision \in Decisions, DenyGate(w, decision) \/ DenialNotStored(w, decision)
       PROVE  Lists(audit[w], ResultsSoFar(w))'
  <2>1. /\ pc[w] # "produced" /\ pc'[w] # "produced" /\ results'[w] = results[w]
        /\ audit'[w] = audit[w]
    BY <1>0, <1>10 DEF DenyGate, DenialNotStored, Deny, Goto, Raise
  <2> QED BY <1>2, <2>1
<1>11. CASE HaltForApproval(w) \/ Complete(w) \/ HandleFailure(w)
  <2>1. pc[w] # "produced" /\ pc'[w] # "produced" /\ results'[w] = results[w]
    BY <1>0, <1>11 DEF HaltForApproval, Complete, HandleFailure, Return, Goto
  <2> QED BY <1>3, <1>11, <2>1 DEF HaltForApproval, Complete, HandleFailure
<1>12. ASSUME NEW tokens \in CallTokens, AnswerUnrecorded(w, tokens)
       PROVE  Lists(audit[w], ResultsSoFar(w))'
  <2>1. /\ pc[w] # "produced" /\ pc'[w] # "produced" /\ results'[w] = results[w]
        /\ audit'[w] = audit[w]
    BY <1>0, <1>12 DEF AnswerUnrecorded, Raise, Goto
  <2> QED BY <1>2, <2>1
<1> QED BY <1>4, <1>5, <1>6, <1>7, <1>8, <1>9, <1>10, <1>11, <1>12, GateAlwaysAsks
        DEF Call, Proceed

-----------------------------------------------------------------------------
(* A step that makes and stores nothing.                                   *)
LEMMA NothingMade ==
  ASSUME NEW w \in Workflows, EvidenceOK(w), RunOK(w),
         results'[w] = results[w], artifacts'[w] = artifacts[w], memory'[w] = memory[w],
         pc'[w] # "idle", pc'[w] = "denied" => pc[w] = "denied",
         pc[w] \in {"denied", "raised", "done"} => pc'[w] \in {"denied", "raised", "done"},
         error'[w] = "other" \/ error'[w] = error[w] \/ error[w] = "none",
         pc'[w] \notin {"raised", "done"} => error'[w] = error[w] /\ pc[w] \notin {"raised", "done"},
         outcome'[w].status = "approval_required" => pc[w] = "denied",
         outcome'[w].status = "completed" => pc[w] \notin {"denied", "raised", "done"}
  PROVE  EvidenceOK(w)'
BY DEF EvidenceOK

(* An artifact is made; storing it may fail.                               *)
LEMMA SomethingMade ==
  ASSUME NEW w \in Workflows, EvidenceOK(w), NEW made \in Artifact,
         results[w] \in Seq(AgentResult), results'[w] \in Seq(AgentResult),
         artifacts[w] \in Seq(Artifact), memory[w] \in Seq(Artifact),
         pc[w] \in {"produced", "gate"},
         artifacts'[w] = Append(artifacts[w], made),
         \/ memory'[w] = Append(memory[w], made) /\ error'[w] = error[w]
         \/ memory'[w] = memory[w] /\ error'[w] = "other" /\ pc'[w] = "raised",
         \/ /\ pc'[w] \in {"loop", "gate", "raised"}
            /\ \E result \in AgentResult :
                  results'[w] = Append(results[w], result) /\ made = ArtifactBy(result)
         \/ /\ pc'[w] \in {"denied", "raised"}
            /\ results'[w] = results[w] /\ made.type = "approval_request",
         outcome'[w].status \notin {"completed", "approval_required"}
  PROVE  EvidenceOK(w)'
<1>1. /\ error[w] = "none" /\ Len(artifacts[w]) = Len(results[w])
      /\ Len(artifacts[w]) = Len(memory[w])
      /\ \A i \in DOMAIN results[w] : artifacts[w][i] = ArtifactBy(results[w][i])
      /\ \A i \in DOMAIN memory[w] : memory[w][i] = artifacts[w][i]
  BY DEF EvidenceOK
<1>2. /\ DOMAIN results[w] = 1 .. Len(artifacts[w]) /\ DOMAIN memory[w] = 1 .. Len(artifacts[w])
      /\ Len(artifacts[w]) \in Nat /\ Len(artifacts'[w]) = Len(artifacts[w]) + 1
      /\ \A i \in 1 .. Len(artifacts[w]) : artifacts'[w][i] = artifacts[w][i]
      /\ artifacts'[w][Len(artifacts[w]) + 1] = made
  <2>1. DOMAIN results[w] = 1 .. Len(results[w]) /\ DOMAIN memory[w] = 1 .. Len(memory[w])
    OBVIOUS
  <2> QED BY <1>1, <2>1, AppendIndex
<1>3. /\ \A i \in DOMAIN memory'[w] : memory'[w][i] = artifacts'[w][i]
      /\ Len(artifacts'[w]) \in {Len(memory'[w]), Len(memory'[w]) + 1}
      /\ error'[w] # "other" => Len(artifacts'[w]) = Len(memory'[w])
      /\ pc'[w] \notin {"raised", "done"} => error'[w] = "none"
  <2>1. CASE memory'[w] = Append(memory[w], made) /\ error'[w] = error[w]
    BY <1>1, <1>2, <2>1
  <2>2. CASE memory'[w] = memory[w] /\ error'[w] = "other" /\ pc'[w] = "raised"
    BY <1>1, <1>2, <2>2
  <2> QED BY <2>1, <2>2
<1>4. CASE /\ pc'[w] \in {"loop", "gate", "raised"}
           /\ \E result \in AgentResult :
                 results'[w] = Append(results[w], result) /\ made = ArtifactBy(result)
  <2>1. PICK result \in AgentResult :
               results'[w] = Append(results[w], result) /\ made = ArtifactBy(result)
    BY <1>4
  <2>2. /\ \A i \in DOMAIN results'[w] : artifacts'[w][i] = ArtifactBy(results'[w][i])
        /\ Len(artifacts'[w]) = Len(results'[w])
    BY <1>1, <1>2, <2>1, AppendIndex
  <2> QED BY <1>2, <1>3, <1>4, <2>2 DEF EvidenceOK
<1>5. CASE /\ pc'[w] \in {"denied", "raised"}
           /\ results'[w] = results[w] /\ made.type = "approval_request"
  <2>1. /\ \A i \in DOMAIN results'[w] : artifacts'[w][i] = ArtifactBy(results'[w][i])
        /\ Len(artifacts'[w]) = Len(results'[w]) + 1
        /\ EndsDenied(artifacts'[w], results'[w])
    BY <1>1, <1>2, <1>5 DEF EndsDenied
  <2> QED BY <1>2, <1>3, <1>5, <2>1 DEF EvidenceOK
<1> QED BY <1>4, <1>5

LEMMA EvidenceStep ==
  ASSUME TypeOK, TypeOK', NEW w \in Workflows, RunOK(w), EvidenceOK(w),
         Call(w) \/ Proceed(w)
  PROVE  EvidenceOK(w)'
<1>0. /\ results[w] \in Seq(AgentResult) /\ produced[w] \in AgentResult
      /\ results'[w] \in Seq(AgentResult)
      /\ artifacts[w] \in Seq(Artifact) /\ memory[w] \in Seq(Artifact)
      /\ pc \in [Workflows -> Phases] /\ outcome \in [Workflows -> Outcome]
      /\ error \in [Workflows -> {"none", "budget", "other"}]
      /\ (pc[w] = "done") = (outcome[w].status # "none")
  BY DEF TypeOK, RunOK, TrailOK
<1>1. ASSUME NEW t \in Tasks, NEW force \in Forced,
             Execute(w, t, force) \/ ExecuteRejected(w, t, force)
      PROVE  EvidenceOK(w)'
  <2>1. /\ pc[w] = "idle" /\ results'[w] = results[w] /\ artifacts'[w] = artifacts[w]
        /\ memory'[w] = memory[w] /\ error'[w] = error[w]
    BY <1>1 DEF Execute, ExecuteRejected, Begun
  <2>2. CASE Execute(w, t, force)
    <3>1. pc'[w] = "loop" /\ outcome'[w] = outcome[w]
      BY <1>0, <2>2 DEF Execute, Goto
    <3> QED BY <1>0, <2>1, <3>1, NothingMade
  <2>3. CASE ExecuteRejected(w, t, force)
    <3>1. pc'[w] = "done" /\ outcome'[w].status = "rejected"
      BY <1>0, <2>3 DEF ExecuteRejected, Goto, Return
    <3> QED BY <1>0, <2>1, <3>1, NothingMade
  <2> QED BY <1>1, <2>2, <2>3
<1>2. CASE \/ StartAgent(w) \/ CallModel(w)
           \/ \E tokens \in CallTokens, parsed \in Parses : ModelAnswers(w, tokens, parsed)
           \/ \E decision \in Decisions : ApproveGate(w, decision)
  <2>1. /\ pc[w] \in {"loop", "started", "calling", "gate"}
        /\ pc'[w] \in {"loop", "started", "calling", "produced"}
        /\ results'[w] = results[w] /\ artifacts'[w] = artifacts[w]
        /\ memory'[w] = memory[w] /\ error'[w] = error[w] /\ outcome'[w] = outcome[w]
    BY <1>0, <1>2 DEF StartAgent, CallModel, ModelAnswers, ApproveGate, Goto
  <2> QED BY <1>0, <2>1, NothingMade
<1>3. CASE \/ RefuseBudget(w) \/ ModelFails(w) \/ StepThrows(w)
           \/ \E tokens \in CallTokens : AnswerUnrecorded(w, tokens)
  <2>1. /\ pc[w] \in {"loop", "started", "calling", "gate", "denied"} /\ pc'[w] = "raised"
        /\ results'[w] = results[w] /\ artifacts'[w] = artifacts[w]
        /\ memory'[w] = memory[w] /\ outcome'[w] = outcome[w]
    BY <1>0, <1>3 DEF RefuseBudget, ModelFails, StepThrows, AnswerUnrecorded, Goto, Raise
  <2>2. error[w] = "none"
    BY <2>1 DEF EvidenceOK
  <2> QED BY <1>0, <2>1, <2>2, NothingMade
<1>4. CASE StoreResult(w) \/ StoreFails(w)
  <2> DEFINE made == ArtifactBy(produced[w])
  <2>1. made \in Artifact
    BY <1>0 DEF AgentResult, Artifact, ArtifactTypeOf, ArtifactType, AgentId, ArtifactBy
  <2>2. /\ pc[w] = "produced" /\ pc'[w] \in {"loop", "gate", "raised"}
        /\ results'[w] = Append(results[w], produced[w])
        /\ artifacts'[w] = Append(artifacts[w], made)
        /\ outcome'[w] = outcome[w]
        /\ \/ memory'[w] = Append(memory[w], made) /\ error'[w] = error[w]
           \/ memory'[w] = memory[w] /\ error'[w] = "other" /\ pc'[w] = "raised"
    BY <1>0, <1>4 DEF StoreResult, StoreFails, Collect, Goto, Raise, TypeOK, ArtifactBy
  <2>3. outcome[w].status = "none"
    BY <1>0, <2>2
  <2> HIDE DEF made
  <2>4. \E result \in AgentResult :
           results'[w] = Append(results[w], result) /\ made = ArtifactBy(result)
    BY <1>0, <2>2 DEF made
  <2> QED BY <1>0, <2>1, <2>2, <2>3, <2>4, SomethingMade
<1>5. ASSUME NEW decision \in Decisions, DenyGate(w, decision) \/ DenialNotStored(w, decision)
      PROVE  EvidenceOK(w)'
  <2> DEFINE made == [author |-> "pharaoh", type |-> "approval_request"]
  <2>1. made \in Artifact /\ made.type = "approval_request"
    BY DEF Artifact, AgentId, ArtifactType
  <2>2. /\ pc[w] = "gate" /\ pc'[w] \in {"denied", "raised"}
        /\ results'[w] = results[w] /\ outcome'[w] = outcome[w]
        /\ artifacts'[w] = Append(artifacts[w], made)
        /\ \/ memory'[w] = Append(memory[w], made) /\ error'[w] = error[w]
           \/ memory'[w] = memory[w] /\ error'[w] = "other" /\ pc'[w] = "raised"
    BY <1>0, <1>5 DEF DenyGate, DenialNotStored, Deny, Goto, Raise, TypeOK
  <2>3. outcome[w].status = "none"
    BY <1>0, <2>2
  <2> HIDE DEF made
  <2> QED BY <1>0, <2>1, <2>2, <2>3, SomethingMade
<1>6. CASE HaltForApproval(w) \/ Complete(w) \/ HandleFailure(w) \/ FailureRejected(w)
  <2>1. /\ pc'[w] = "done" /\ results'[w] = results[w] /\ artifacts'[w] = artifacts[w]
        /\ memory'[w] = memory[w] /\ error'[w] = error[w]
    BY <1>0, <1>6 DEF HaltForApproval, Complete, HandleFailure, FailureRejected, Goto, Return
  <2>2. HaltForApproval(w) => pc[w] = "denied" /\ outcome'[w].status = "approval_required"
    BY <1>0 DEF HaltForApproval, Return
  <2>3. ASSUME Complete(w)
        PROVE  pc[w] = "loop" /\ outcome'[w].status = "completed"
    <3> DEFINE asks == \E i \in DOMAIN results[w] : results[w][i].approvalRequired
    <3>1. pc[w] = "loop" /\ Return(w, "completed", asks, "none")
      BY <2>3 DEF Complete
    <3> HIDE DEF asks
    <3> QED BY <1>0, <3>1 DEF Return
  <2>4. ASSUME HandleFailure(w)
        PROVE  pc[w] = "raised" /\ outcome'[w].status = "failed"
    <3> DEFINE last == IF results[w] = <<>> THEN "system"
                                            ELSE results[w][Len(results[w])].agentId
    <3>1. pc[w] = "raised" /\ Return(w, "failed", TRUE, last)
      BY <2>4 DEF HandleFailure
    <3> HIDE DEF last
    <3> QED BY <1>0, <3>1 DEF Return
  <2>5. FailureRejected(w) => pc[w] = "raised" /\ outcome'[w].status = "rejected"
    BY <1>0 DEF FailureRejected, Return
  <2> QED BY <1>0, <1>6, <2>1, <2>2, <2>3, <2>4, <2>5, NothingMade
<1> QED BY <1>1, <1>2, <1>3, <1>4, <1>5, <1>6, GateAlwaysAsks DEF Call, Proceed

-----------------------------------------------------------------------------
LEMMA OthersKeepHistory ==
  ASSUME TypeOK, NEW w \in Workflows, NEW v \in Workflows, v # w, HistoryOK(v),
         Call(w) \/ Proceed(w)
  PROVE  HistoryOK(v)'
<1>1. artifacts'[v] = artifacts[v] /\ memory'[v] = memory[v]
  BY DEF TypeOK, Call, Proceed, Execute, ExecuteRejected, Begun, StartAgent, CallModel,
     RefuseBudget, ModelAnswers, ModelFails, StoreResult, StoreFails, Collect, ApproveGate,
     DenyGate, DenialNotStored, Deny, HaltForApproval, Complete, HandleFailure,
     FailureRejected, StepThrows, AnswerUnrecorded, chosen
<1> QED BY <1>1, StepIsLocal DEF HistoryOK, EvidenceOK, ResultsSoFar

LEMMA InitHInv == Init => HInv
<1> SUFFICES ASSUME Init, NEW w \in Workflows PROVE HistoryOK(w)
  BY InitIInv DEF HInv
<1>1. /\ pc[w] = "idle" /\ results[w] = <<>> /\ artifacts[w] = <<>> /\ memory[w] = <<>>
      /\ audit[w] = <<>> /\ error[w] = "none" /\ outcome[w].status = "none"
  BY DEF Init, NoOutcome
<1>2. EvidenceOK(w)
  BY <1>1 DEF EvidenceOK
<1>3. Completions(<<>>) = {}
  BY DEF Completions
<1> QED BY <1>1, <1>2, <1>3, FS_EmptySet DEF HistoryOK, Lists, ResultsSoFar

LEMMA NextHInv == HInv /\ [Next]_vars => HInv'
<1> SUFFICES ASSUME HInv, [Next]_vars PROVE HInv'
  OBVIOUS
<1>1. IInv /\ IInv' /\ TypeOK /\ TypeOK' /\ \A v \in Workflows : RunOK(v) /\ HistoryOK(v)
  BY NextIInv DEF HInv, IInv
<1>2. CASE UNCHANGED vars
  BY <1>1, <1>2 DEF HInv, HistoryOK, EvidenceOK, ResultsSoFar, vars, chosen
<1>3. ASSUME NEW w \in Workflows, Call(w) \/ Proceed(w) PROVE HInv'
  <2>1. HistoryOK(w)'
    BY <1>1, <1>3, EvidenceStep, ListsStep DEF HistoryOK
  <2>2. ASSUME NEW v \in Workflows, v # w PROVE HistoryOK(v)'
    BY <1>1, <1>3, <2>2, OthersKeepHistory
  <2> QED BY <1>1, <2>1, <2>2 DEF HInv
<1> QED BY <1>2, <1>3 DEF Next

LEMMA HInvHolds == Spec => []HInv
BY InitHInv, NextHInv, PTL DEF Spec

-----------------------------------------------------------------------------
(* Every completed artifact is among those returned, in order, and in the  *)
(* store, but for the one whose append threw (HarpOrchestrator.execute).   *)
THEOREM EvidenceKept == Spec => []EvidencePreserved
<1>1. ASSUME HInv, NEW w \in Workflows
      PROVE  LET made == artifacts[w]  agents == results[w] IN
             /\ \A i \in DOMAIN agents :
                  made[i] = [author |-> agents[i].agentId,
                             type |-> ArtifactTypeOf[agents[i].agentId]]
             /\ Len(made) - Len(agents) \in {0, 1}
             /\ outcome[w].status = "approval_required" =>
                  Len(made) = Len(agents) + 1 /\ made[Len(made)].type = "approval_request"
             /\ outcome[w].status = "completed" => Len(made) = Len(agents)
             /\ memory[w] = SubSeq(made, 1, Len(memory[w]))
             /\ Len(made) - Len(memory[w]) \in
                  IF error[w] = "other" THEN {0, 1} ELSE {0}
  <2>1. EvidenceOK(w)
    BY <1>1 DEF HInv, HistoryOK
  <2>2. artifacts[w] \in Seq(Artifact) /\ memory[w] \in Seq(Artifact) /\ results[w] \in Seq(AgentResult)
    BY <1>1 DEF HInv, IInv, TypeOK
  <2>3. memory[w] = SubSeq(artifacts[w], 1, Len(memory[w]))
    BY <2>1, <2>2 DEF EvidenceOK
  <2>4. /\ Len(artifacts[w]) \in Nat /\ Len(memory[w]) \in Nat /\ Len(results[w]) \in Nat
    BY <2>2
  <2>5. /\ Len(artifacts[w]) - Len(results[w]) \in {0, 1}
        /\ Len(artifacts[w]) - Len(memory[w]) \in IF error[w] = "other" THEN {0, 1} ELSE {0}
    <3>1. /\ Len(artifacts[w]) \in {Len(results[w]), Len(results[w]) + 1}
          /\ Len(artifacts[w]) \in {Len(memory[w]), Len(memory[w]) + 1}
          /\ error[w] # "other" => Len(artifacts[w]) = Len(memory[w])
      BY <2>1 DEF EvidenceOK
    <3>2. \A m, n \in Nat : (m \in {n, n + 1} => m - n \in {0, 1}) /\ (m = n => m - n = 0)
      OBVIOUS
    <3>3. CASE error[w] = "other"
      BY <2>4, <3>1, <3>2, <3>3
    <3>4. CASE error[w] # "other"
      BY <2>4, <3>1, <3>2, <3>4
    <3> QED BY <3>3, <3>4
  <2>6. \A i \in DOMAIN results[w] :
          artifacts[w][i] = [author |-> results[w][i].agentId,
                             type |-> ArtifactTypeOf[results[w][i].agentId]]
    BY <2>1 DEF EvidenceOK, ArtifactBy
  <2> QED BY <2>1, <2>3, <2>5, <2>6 DEF EvidenceOK, EndsDenied
<1>2. HInv => EvidencePreserved
  BY <1>1 DEF EvidencePreserved
<1> QED BY <1>2, HInvHolds, PTL

(* The completions a trail records are, in order, the results of the run,  *)
(* and both are of the agents the strategy planned.                        *)
THEOREM TrailsListResults == Spec => []TrailMatchesResults
<1>1. ASSUME HInv, NEW w \in Workflows, NEW i \in DOMAIN ResultsSoFar(w)
      PROVE  ResultsSoFar(w)[i].agentId = SelectSequence(strategy[w])[i]
  <2>1. RunOK(w) /\ results[w] \in Seq(AgentResult) /\ produced[w] \in AgentResult
    BY <1>1 DEF HInv, IInv, TypeOK
  <2>2. CASE pc[w] # "produced"
    BY <1>1, <2>1, <2>2 DEF ResultsSoFar, RunOK, ResultsOK, BuiltBy
  <2>3. CASE pc[w] = "produced"
    <3>1. ResultsSoFar(w) = Append(results[w], produced[w])
      BY <2>3 DEF ResultsSoFar
    <3>2. CASE i = Len(results[w]) + 1
      BY <2>1, <2>3, <3>1, <3>2 DEF RunOK, ResultsOK, BuiltBy, NextAgent
    <3>3. CASE i \in DOMAIN results[w]
      BY <2>1, <3>1, <3>3 DEF RunOK, ResultsOK, BuiltBy
    <3> QED BY <1>1, <2>1, <3>1, <3>2, <3>3
  <2> QED BY <2>2, <2>3
<1>2. HInv => TrailMatchesResults
  BY <1>1 DEF HInv, HistoryOK, Lists, TrailMatchesResults
<1> QED BY <1>2, HInvHolds, PTL

-----------------------------------------------------------------------------
(* WorkflowContract: each run's stage, proposal and number of results move *)
(* as the contract allows, whatever strategy runs and whoever throws.      *)
HasBuild(w) == \E i \in DOMAIN results[w] : results[w][i].agentId = "ra"

Evaluated(w) ==
  \E i \in DOMAIN audit[w] : audit[w][i].action = "workflow.approval_evaluated"

(* Where a run is tells how its proposal stands.  GateOK does not say so:  *)
(* it speaks of the trail, the contract of the collected results.          *)
ProposalOK(w) ==
  /\ Evaluated(w) => HasBuild(w)
  /\ pc[w] \in {"loop", "started", "calling", "produced"} /\ HasBuild(w) => Evaluated(w)
  /\ pc[w] \in {"gate", "denied"} => HasBuild(w) /\ ~Evaluated(w)

RInv == IInv /\ \A w \in Workflows : ProposalOK(w)

-----------------------------------------------------------------------------
(* Every strategy runs Ra at most once.                                    *)
LEMMA OneBuild ==
  ASSUME NEW s \in StrategyName,
         NEW i \in DOMAIN SelectSequence(s), NEW j \in DOMAIN SelectSequence(s),
         SelectSequence(s)[i] = "ra", SelectSequence(s)[j] = "ra"
  PROVE  i = j
<1>1. CASE s = "sequential-review"
  <2>1. SelectSequence(s) = <<"pharaoh", "horus-nexus", "anubis-sentinel", "ra",
           "horus-nexus", "anubis-sentinel", "pharaoh">>
    BY <1>1 DEF SelectSequence
  <2> QED BY <2>1
<1>2. CASE s \in {"parallel-review", "arbitration"}
  <2>1. SelectSequence(s) = <<"pharaoh", "horus-nexus", "anubis-sentinel", "pharaoh">>
    BY <1>2 DEF SelectSequence
  <2> QED BY <2>1
<1>3. CASE s = "negotiation"
  <2>1. SelectSequence(s) = <<"pharaoh", "horus-nexus", "anubis-sentinel",
                              "horus-nexus", "pharaoh">>
    BY <1>3 DEF SelectSequence
  <2> QED BY <2>1
<1>4. CASE s = "voting"
  <2>1. SelectSequence(s) = <<"pharaoh", "ra", "horus-nexus", "anubis-sentinel", "pharaoh">>
    BY <1>4 DEF SelectSequence
  <2> QED BY <2>1
<1>5. CASE s = "escalation"
  <2>1. SelectSequence(s) = <<"pharaoh", "anubis-sentinel", "pharaoh">>
    BY <1>5 DEF SelectSequence
  <2> QED BY <2>1
<1> QED BY <1>1, <1>2, <1>3, <1>4, <1>5 DEF StrategyName

(* What one run shows its caller.                                          *)
LEMMA ProposalCases ==
  ASSUME NEW w \in Workflows
  PROVE  /\ ~HasBuild(w) => ProposalOf(w) = "none"
         /\ HasBuild(w) /\ Evaluated(w) => ProposalOf(w) = "granted"
         /\ HasBuild(w) /\ ~Evaluated(w) => ProposalOf(w) = "open"
BY DEF ProposalOf, HasBuild, Evaluated

(* Appending an event that is not an evaluation keeps Evaluated; an        *)
(* evaluation establishes it.                                              *)
LEMMA AppendEvaluated ==
  ASSUME NEW w \in Workflows, NEW e, audit[w] \in Seq(Event), e \in Event,
         audit'[w] = Append(audit[w], e)
  PROVE  /\ e.action # "workflow.approval_evaluated" => Evaluated(w)' = Evaluated(w)
         /\ e.action = "workflow.approval_evaluated" => Evaluated(w)'
BY AppendIndex DEF Evaluated

(* What a step does to a run, as its caller sees it: nothing, or one of    *)
(* the changes of the contract.  The proposal invariant goes along.        *)
Changes(s1, p1, n1, s2, p2, n2) ==
  \/ s2 = s1 /\ p2 = p1 /\ n2 = n1
  \/ s1 = "idle" /\ s2 \in {"active", "rejected"} /\ p2 = p1 /\ n2 = n1
  \/ /\ s1 = "active" /\ s2 = "active" /\ p1 # "open" /\ n2 = n1 + 1
     /\ p2 = p1 \/ (p1 = "none" /\ p2 = "open")
  \/ s1 = "active" /\ s2 = "active" /\ p1 = "open" /\ p2 = "granted" /\ n2 = n1
  \/ s1 = "active" /\ s2 = "approval_required" /\ p1 = "open" /\ p2 = p1 /\ n2 = n1
  \/ s1 = "active" /\ s2 = "completed" /\ p1 # "open" /\ n1 > 0 /\ p2 = p1 /\ n2 = n1
  \/ s1 = "active" /\ s2 \in {"failed", "rejected"} /\ p2 = p1 /\ n2 = n1

Moves(w) ==
  Changes(StageOf(w), ProposalOf(w), Len(results[w]),
          StageOf(w)', ProposalOf(w)', Len(results[w])')

-----------------------------------------------------------------------------
LEMMA BeginMoves ==
  ASSUME RInv, NEW w \in Workflows, Call(w)
  PROVE  ProposalOK(w)' /\ Moves(w)
<1>1. PICK t \in Tasks, force \in Forced :
        Execute(w, t, force) \/ ExecuteRejected(w, t, force)
  BY DEF Call
<1>2. TypeOK /\ pc[w] = "idle" /\ results[w] = <<>> /\ audit[w] = <<>>
  BY <1>1 DEF RInv, IInv, RunOK, PlaceOK, Execute, ExecuteRejected, Begun
<1>3. results'[w] = <<>> /\ ~HasBuild(w) /\ ~HasBuild(w)' /\ ~Evaluated(w)
  <2>1. results'[w] = <<>>
    BY <1>1, <1>2 DEF Execute, ExecuteRejected, Begun
  <2> QED BY <1>2, <2>1 DEF HasBuild, Evaluated
<1>4. ProposalOf(w) = "none" /\ ProposalOf(w)' = "none" /\ StageOf(w) = "idle"
  BY <1>2, <1>3 DEF ProposalOf, HasBuild, StageOf
<1>5. CASE Execute(w, t, force)
  <2> DEFINE e == [actor |-> "system", action |-> "workflow.started", note |-> ""]
  <2>1. audit'[w] = Append(audit[w], e) /\ pc'[w] = "loop"
    BY <1>2, <1>5 DEF Execute, Write, Goto, TypeOK
  <2>2. e \in Event /\ e.action = "workflow.started" /\ audit[w] \in Seq(Event)
    BY <1>2 DEF Event, TypeOK
  <2> HIDE DEF e
  <2>3. ~Evaluated(w)'
    BY <1>3, <2>1, <2>2, AppendEvaluated
  <2>4. StageOf(w)' = "active"
    BY <2>1 DEF StageOf
  <2> QED BY <1>2, <1>3, <1>4, <2>1, <2>3, <2>4 DEF ProposalOK, Moves, Changes
<1>6. CASE ExecuteRejected(w, t, force)
  <2>1. pc'[w] = "done" /\ outcome'[w].status = "rejected" /\ audit'[w] = audit[w]
    BY <1>2, <1>6 DEF ExecuteRejected, Return, Goto, TypeOK
  <2>2. StageOf(w)' = "rejected" /\ ~Evaluated(w)'
    BY <1>3, <2>1 DEF StageOf, Evaluated
  <2> QED BY <1>2, <1>3, <1>4, <2>1, <2>2 DEF ProposalOK, Moves, Changes
<1> QED BY <1>1, <1>5, <1>6

(* A result is collected: with Ra's a proposal opens.                      *)
LEMMA CollectMoves ==
  ASSUME RInv, NEW w \in Workflows, StoreResult(w) \/ StoreFails(w)
  PROVE  ProposalOK(w)' /\ Moves(w)
<1>1. /\ TypeOK /\ pc[w] = "produced" /\ RunOK(w) /\ ProposalOK(w)
      /\ results[w] \in Seq(AgentResult) /\ produced[w] \in AgentResult
      /\ strategy[w] \in StrategyName /\ MoreToRun(w)
  BY DEF StoreResult, StoreFails, Collect, RInv, IInv, TypeOK, RunOK, PlaceOK
<1>2. /\ pc'[w] \in {"gate", "loop", "raised"}
      /\ pc'[w] = "gate" => produced[w].agentId = "ra"
      /\ pc'[w] = "loop" => produced[w].agentId # "ra"
      /\ audit'[w] = audit[w] /\ results'[w] = Append(results[w], produced[w])
  BY <1>1 DEF StoreResult, StoreFails, Collect, Goto, Raise, TypeOK
<1>3. /\ HasBuild(w)' = (HasBuild(w) \/ produced[w].agentId = "ra")
      /\ Len(results[w])' = Len(results[w]) + 1
  <2> DEFINE longer == Append(results[w], produced[w])
  <2>1. /\ Len(longer) = Len(results[w]) + 1 /\ Len(results[w]) \in Nat
        /\ DOMAIN longer = 1 .. Len(results[w]) + 1 /\ DOMAIN results[w] = 1 .. Len(results[w])
        /\ \A i \in 1 .. Len(results[w]) : longer[i] = results[w][i]
        /\ longer[Len(results[w]) + 1] = produced[w]
    BY <1>1, AppendIndex
  <2> HIDE DEF longer
  <2>2. (\E i \in DOMAIN longer : longer[i].agentId = "ra")
          <=> HasBuild(w) \/ produced[w].agentId = "ra"
    BY <2>1 DEF HasBuild
  <2>3. results'[w] = longer
    BY <1>2 DEF longer
  <2> QED BY <2>1, <2>2, <2>3 DEF HasBuild
<1>4. Evaluated(w)' = Evaluated(w)
  BY <1>2 DEF Evaluated
<1>5. ASSUME produced[w].agentId = "ra" PROVE ~HasBuild(w)
  <2> SUFFICES ASSUME NEW i \in DOMAIN results[w], results[w][i].agentId = "ra"
               PROVE  FALSE
    BY DEF HasBuild
  <2>1. /\ SelectSequence(strategy[w])[i] = "ra"
        /\ SelectSequence(strategy[w])[Len(results[w]) + 1] = "ra"
    BY <1>1, <1>5 DEF RunOK, ResultsOK, BuiltBy, NextAgent
  <2>2. /\ i \in DOMAIN SelectSequence(strategy[w]) /\ i # Len(results[w]) + 1
        /\ Len(results[w]) + 1 \in DOMAIN SelectSequence(strategy[w])
    BY <1>1, Sequences6 DEF MoreToRun
  <2> QED BY <1>1, <2>1, <2>2, OneBuild
<1>6. StageOf(w) = "active" /\ StageOf(w)' = "active"
  BY <1>1, <1>2 DEF StageOf
<1>7. ProposalOK(w)'
  BY <1>1, <1>2, <1>3, <1>4, <1>5 DEF ProposalOK
<1>8. ProposalOf(w) # "open"
  BY <1>1, ProposalCases DEF ProposalOK
<1>9. CASE produced[w].agentId = "ra"
  <2>1. ProposalOf(w) = "none" /\ ~Evaluated(w)
    BY <1>1, <1>5, <1>9, ProposalCases DEF ProposalOK
  <2>2. ProposalOf(w)' = "open"
    BY <1>3, <1>4, <1>9, <2>1 DEF ProposalOf, HasBuild, Evaluated
  <2> QED BY <1>3, <1>6, <1>7, <1>8, <2>1, <2>2 DEF Moves, Changes
<1>10. CASE produced[w].agentId # "ra"
  <2>1. ProposalOf(w)' = ProposalOf(w)
    BY <1>3, <1>4, <1>10 DEF ProposalOf, HasBuild, Evaluated
  <2> QED BY <1>3, <1>6, <1>7, <1>8, <2>1 DEF Moves, Changes
<1> QED BY <1>9, <1>10

(* A step inside a run that neither collects nor evaluates: the caller     *)
(* sees nothing of it.                                                     *)
LEMMA HiddenStep ==
  ASSUME RInv, NEW w \in Workflows, pc[w] \notin {"idle", "done"},
         pc'[w] \notin {"idle", "done"}, results'[w] = results[w],
         Evaluated(w)' = Evaluated(w),
         \/ pc'[w] = "raised"
         \/ pc[w] = "gate" /\ pc'[w] = "denied"
         \/ /\ pc[w] \in {"loop", "started", "calling"}
            /\ pc'[w] \in {"started", "calling", "produced"}
  PROVE  ProposalOK(w)' /\ Moves(w)
<1>1. HasBuild(w)' = HasBuild(w)
  BY DEF HasBuild
<1>2. StageOf(w)' = StageOf(w) /\ ProposalOf(w)' = ProposalOf(w)
  BY <1>1 DEF StageOf, ProposalOf, HasBuild, Evaluated
<1>3. ProposalOK(w)'
  BY <1>1 DEF RInv, ProposalOK
<1> QED BY <1>2, <1>3 DEF Moves, Changes

LEMMA HiddenMoves ==
  ASSUME RInv, NEW w \in Workflows,
         \/ StartAgent(w) \/ CallModel(w) \/ RefuseBudget(w) \/ ModelFails(w)
         \/ StepThrows(w)
         \/ \E tokens \in CallTokens : AnswerUnrecorded(w, tokens)
         \/ \E tokens \in CallTokens, parsed \in Parses : ModelAnswers(w, tokens, parsed)
         \/ \E decision \in Decisions : DenyGate(w, decision) \/ DenialNotStored(w, decision)
  PROVE  ProposalOK(w)' /\ Moves(w)
<1>1. TypeOK /\ RunOK(w) /\ audit[w] \in Seq(Event)
  BY DEF RInv, IInv, TypeOK
<1>2. CASE StartAgent(w)
  <2> DEFINE e == [actor |-> NextAgent(w), action |-> "agent.started", note |-> ""]
  <2>1. /\ pc[w] = "loop" /\ pc'[w] = "started" /\ MoreToRun(w)
        /\ audit'[w] = Append(audit[w], e) /\ results'[w] = results[w]
    BY <1>1, <1>2 DEF StartAgent, Write, Goto, TypeOK
  <2>2. e \in Event /\ e.action = "agent.started"
    BY <1>1, <2>1, NextAgentPlanned DEF Event
  <2> HIDE DEF e
  <2>3. Evaluated(w)' = Evaluated(w)
    BY <1>1, <2>1, <2>2, AppendEvaluated
  <2> QED BY <2>1, <2>3, HiddenStep
<1>3. ASSUME NEW tokens \in CallTokens, NEW parsed \in Parses,
             ModelAnswers(w, tokens, parsed)
      PROVE  ProposalOK(w)' /\ Moves(w)
  <2> DEFINE result == ResultOf(NextAgent(w), task[w], parsed)
             e == [actor |-> result.agentId, action |-> "agent.completed",
                   note |-> result.status]
  <2>1. /\ pc[w] = "calling" /\ pc'[w] = "produced"
        /\ audit'[w] = Append(audit[w], e) /\ results'[w] = results[w]
    BY <1>1, <1>3 DEF ModelAnswers, Write, Goto, TypeOK
  <2>2. result \in AgentResult
    BY <1>1, <2>1, WorkingAgent DEF RunOK, PlaceOK
  <2>3. e \in Event /\ e.action = "agent.completed"
    BY <2>2 DEF AgentResult, Event
  <2> HIDE DEF e
  <2>4. Evaluated(w)' = Evaluated(w)
    BY <1>1, <2>1, <2>3, AppendEvaluated
  <2> QED BY <2>1, <2>4, HiddenStep
<1>4. CASE \/ CallModel(w) \/ RefuseBudget(w) \/ ModelFails(w) \/ StepThrows(w)
           \/ \E tokens \in CallTokens : AnswerUnrecorded(w, tokens)
           \/ \E decision \in Decisions :
                 DenyGate(w, decision) \/ DenialNotStored(w, decision)
  <2>1. audit'[w] = audit[w] /\ results'[w] = results[w]
    BY <1>4 DEF CallModel, RefuseBudget, ModelFails, StepThrows, AnswerUnrecorded,
       DenyGate, DenialNotStored, Deny
  <2>2. /\ pc[w] \notin {"idle", "done"}
        /\ \/ pc'[w] = "raised"
           \/ pc[w] = "started" /\ pc'[w] = "calling"
           \/ pc[w] = "gate" /\ pc'[w] = "denied"
    BY <1>1, <1>4 DEF CallModel, RefuseBudget, ModelFails, StepThrows, AnswerUnrecorded,
       DenyGate, DenialNotStored, Deny, Raise, Goto, TypeOK
  <2>3. Evaluated(w)' = Evaluated(w)
    BY <2>1 DEF Evaluated
  <2> QED BY <2>1, <2>2, <2>3, HiddenStep
<1> QED BY <1>2, <1>3, <1>4

(* The gate clears the proposal: the contract's Grant.                     *)
LEMMA GrantMoves ==
  ASSUME RInv, NEW w \in Workflows, NEW decision \in Decisions, ApproveGate(w, decision)
  PROVE  ProposalOK(w)' /\ Moves(w)
<1> DEFINE note == IF decision.required THEN "granted" ELSE "not_required"
           e == [actor |-> "system", action |-> "workflow.approval_evaluated",
                 note |-> note]
<1>1. TypeOK /\ ProposalOK(w) /\ audit[w] \in Seq(Event)
  BY DEF RInv, IInv, TypeOK
<1>2. /\ pc[w] = "gate" /\ pc'[w] = "loop" /\ results'[w] = results[w]
      /\ audit'[w] = Append(audit[w], e)
  BY <1>1 DEF ApproveGate, Write, Goto, TypeOK
<1>3. e \in Event /\ e.action = "workflow.approval_evaluated"
  BY DEF Event
<1> HIDE DEF e
<1>4. HasBuild(w) /\ HasBuild(w)' /\ ~Evaluated(w) /\ Evaluated(w)'
  BY <1>1, <1>2, <1>3, AppendEvaluated DEF ProposalOK, HasBuild
<1>5. ProposalOf(w) = "open" /\ ProposalOf(w)' = "granted"
  BY <1>4 DEF ProposalOf, HasBuild, Evaluated
<1>6. StageOf(w) = "active" /\ StageOf(w)' = "active"
  BY <1>2 DEF StageOf
<1> QED BY <1>2, <1>4, <1>5, <1>6 DEF ProposalOK, Moves, Changes

(* The run ends: Halt, Finish or Abort.                                    *)
LEMMA CloseMoves ==
  ASSUME RInv, NEW w \in Workflows,
         HaltForApproval(w) \/ Complete(w) \/ HandleFailure(w) \/ FailureRejected(w)
  PROVE  ProposalOK(w)' /\ Moves(w)
<1>1. TypeOK /\ RunOK(w) /\ ProposalOK(w) /\ audit[w] \in Seq(Event)
  BY DEF RInv, IInv, TypeOK
<1>2. pc[w] \notin {"idle", "done"} /\ pc'[w] = "done" /\ results'[w] = results[w]
  BY <1>1 DEF HaltForApproval, Complete, HandleFailure, FailureRejected, Return, Goto, TypeOK
<1>3. /\ HaltForApproval(w) => outcome'[w].status = "approval_required"
      /\ Complete(w) => outcome'[w].status = "completed"
      /\ HandleFailure(w) => outcome'[w].status = "failed"
      /\ FailureRejected(w) => outcome'[w].status = "rejected"
  <2>1. ASSUME NEW status, NEW asks, NEW agent, Return(w, status, asks, agent)
        PROVE  outcome'[w].status = status
    BY <1>1, <2>1 DEF Return, TypeOK
  <2>2. HaltForApproval(w) => Return(w, "approval_required", TRUE, "none")
    BY DEF HaltForApproval
  <2>3. Complete(w) =>
          Return(w, "completed",
                 \E i \in DOMAIN results[w] : results[w][i].approvalRequired, "none")
    BY DEF Complete
  <2>4. HandleFailure(w) =>
          \E agent \in AgentId \cup {"system"} : Return(w, "failed", TRUE, agent)
    <3>1. results[w] # <<>> => results[w][Len(results[w])] \in AgentResult
      BY <1>1, LastElement DEF TypeOK
    <3> QED BY <3>1 DEF HandleFailure, AgentResult
  <2>5. FailureRejected(w) => Return(w, "rejected", FALSE, "none")
    BY DEF FailureRejected
  <2> QED BY <2>1, <2>2, <2>3, <2>4, <2>5
<1>4. Evaluated(w)' = Evaluated(w)
  <2>1. CASE FailureRejected(w)
    BY <2>1 DEF FailureRejected, Evaluated
  <2>2. CASE HaltForApproval(w) \/ Complete(w) \/ HandleFailure(w)
    <3>1. PICK action \in ClosingEvents, note \in {"", "denied"} :
            Write(w, "system", action, note)
      BY <2>2 DEF HaltForApproval, Complete, HandleFailure, ClosingEvents
    <3> DEFINE e == [actor |-> "system", action |-> action, note |-> note]
    <3>2. audit'[w] = Append(audit[w], e)
      BY <1>1, <3>1 DEF Write, TypeOK
    <3>3. e \in Event /\ e.action # "workflow.approval_evaluated"
      BY DEF Event, ClosingEvents
    <3> HIDE DEF e
    <3> QED BY <1>1, <3>2, <3>3, AppendEvaluated
  <2> QED BY <2>1, <2>2
<1>5. HasBuild(w)' = HasBuild(w)
  BY <1>2 DEF HasBuild
<1>6. /\ ProposalOf(w)' = ProposalOf(w) /\ Len(results[w])' = Len(results[w])
      /\ StageOf(w) = "active" /\ StageOf(w)' = outcome'[w].status
  BY <1>2, <1>4, <1>5 DEF ProposalOf, StageOf, HasBuild, Evaluated
<1>7. ProposalOK(w)'
  BY <1>1, <1>2, <1>4, <1>5 DEF ProposalOK
<1>8. HaltForApproval(w) => ProposalOf(w) = "open"
  BY <1>1, ProposalCases DEF HaltForApproval, ProposalOK
<1>9. ASSUME Complete(w) PROVE ProposalOf(w) # "open" /\ Len(results[w]) > 0
  <2>1. ProposalOf(w) # "open"
    BY <1>1, <1>9, ProposalCases DEF Complete, ProposalOK
  <2>2. results[w] \in Seq(AgentResult) /\ strategy[w] \in StrategyName
    BY <1>1 DEF TypeOK
  <2>3. ASSUME Len(results[w]) = 0 PROVE FALSE
    <3>1. ~AnyBlocked(results[w])
      BY <2>2, <2>3 DEF AnyBlocked
    <3> QED BY <1>9, <2>2, <2>3, <3>1, Sequences6 DEF Complete, MoreToRun, ShouldStop
  <2> QED BY <2>1, <2>2, <2>3
<1> QED BY <1>3, <1>6, <1>7, <1>8, <1>9 DEF Moves, Changes

-----------------------------------------------------------------------------
(* One run's change is a step of the contract.                             *)
LEMMA MoveIsContractStep ==
  ASSUME TypeOK, NEW w \in Workflows, Call(w) \/ Proceed(w), Moves(w)
  PROVE  [C!ContractNext]_(C!contractVars)
<1> DEFINE stage == [v \in Workflows |-> StageOf(v)]
           proposal == [v \in Workflows |-> ProposalOf(v)]
           runs == [v \in Workflows |-> Len(results[v])]
<1>1. ASSUME NEW v \in Workflows, v # w
      PROVE  /\ StageOf(v)' = StageOf(v) /\ ProposalOf(v)' = ProposalOf(v)
             /\ Len(results[v])' = Len(results[v])
  BY <1>1, StepIsLocal DEF StageOf, ProposalOf
<1>2. /\ stage' = [stage EXCEPT ![w] = StageOf(w)']
      /\ proposal' = [proposal EXCEPT ![w] = ProposalOf(w)']
      /\ runs' = [runs EXCEPT ![w] = Len(results[w])']
  BY <1>1
<1>3. stage[w] = StageOf(w) /\ proposal[w] = ProposalOf(w) /\ runs[w] = Len(results[w])
  OBVIOUS
<1>4. /\ stage = [stage EXCEPT ![w] = StageOf(w)]
      /\ proposal = [proposal EXCEPT ![w] = ProposalOf(w)]
      /\ runs = [runs EXCEPT ![w] = Len(results[w])]
  OBVIOUS
<1> DEFINE s1 == StageOf(w)  p1 == ProposalOf(w)  n1 == Len(results[w])
           s2 == StageOf(w)'  p2 == ProposalOf(w)'  n2 == Len(results[w])'
<1>5. CASE s2 = s1 /\ p2 = p1 /\ n2 = n1
  BY <1>2, <1>4, <1>5 DEF C!contractVars
<1>6. CASE s1 = "idle" /\ s2 = "active" /\ p2 = p1 /\ n2 = n1
  <2>1. C!Begin(w)
    BY <1>2, <1>3, <1>4, <1>6 DEF C!Begin
  <2> QED BY <2>1 DEF C!ContractNext
<1>7. CASE s1 \in {"idle", "active"} /\ s2 \in {"failed", "rejected"} /\ p2 = p1 /\ n2 = n1
           /\ (s1 = "idle" => s2 = "rejected")
  <2>1. C!Abort(w)
    BY <1>2, <1>3, <1>4, <1>7 DEF C!Abort
  <2> QED BY <2>1 DEF C!ContractNext
<1>8. CASE /\ s1 = "active" /\ s2 = "active" /\ p1 # "open" /\ n2 = n1 + 1
           /\ p2 = p1 \/ (p1 = "none" /\ p2 = "open")
  <2>1. C!Work(w)
    BY <1>2, <1>3, <1>4, <1>8 DEF C!Work
  <2> QED BY <2>1 DEF C!ContractNext
<1>9. CASE s1 = "active" /\ s2 = "active" /\ p1 = "open" /\ p2 = "granted" /\ n2 = n1
  <2>1. C!Grant(w)
    BY <1>2, <1>3, <1>4, <1>9 DEF C!Grant
  <2> QED BY <2>1 DEF C!ContractNext
<1>10. CASE s1 = "active" /\ s2 = "approval_required" /\ p1 = "open" /\ p2 = p1 /\ n2 = n1
  <2>1. C!Halt(w)
    BY <1>2, <1>3, <1>4, <1>10 DEF C!Halt
  <2> QED BY <2>1 DEF C!ContractNext
<1>11. CASE /\ s1 = "active" /\ s2 = "completed" /\ p1 # "open" /\ n1 > 0
            /\ p2 = p1 /\ n2 = n1
  <2>1. C!Finish(w)
    BY <1>2, <1>3, <1>4, <1>11 DEF C!Finish
  <2> QED BY <2>1 DEF C!ContractNext
<1> QED BY <1>5, <1>6, <1>7, <1>8, <1>9, <1>10, <1>11 DEF Moves, Changes

(* The initial states and the steps of a run map to the contract's.        *)
LEMMA RefinesInit == Init => RInv /\ C!ContractInit
<1> SUFFICES ASSUME Init PROVE RInv /\ C!ContractInit
  OBVIOUS
<1>1. IInv
  BY InitIInv
<1>2. ASSUME NEW w \in Workflows
      PROVE  /\ ProposalOK(w) /\ StageOf(w) = "idle"
             /\ ProposalOf(w) = "none" /\ Len(results[w]) = 0
  BY <1>2 DEF Init, ProposalOK, HasBuild, Evaluated, StageOf, ProposalOf
<1> QED BY <1>1, <1>2 DEF RInv, C!ContractInit

LEMMA RefinesNext == RInv /\ [Next]_vars => RInv' /\ [C!ContractNext]_(C!contractVars)
<1> SUFFICES ASSUME RInv, [Next]_vars PROVE RInv' /\ [C!ContractNext]_(C!contractVars)
  OBVIOUS
<1>1. IInv /\ IInv' /\ TypeOK /\ \A v \in Workflows : ProposalOK(v)
  BY NextIInv DEF RInv, IInv
<1>2. CASE UNCHANGED vars
  <2>1. ASSUME NEW v \in Workflows
        PROVE  /\ ProposalOK(v)' /\ StageOf(v)' = StageOf(v)
               /\ ProposalOf(v)' = ProposalOf(v) /\ Len(results[v])' = Len(results[v])
    BY <1>1, <1>2, <2>1 DEF ProposalOK, HasBuild, Evaluated, StageOf, ProposalOf, vars
  <2> QED BY <1>1, <2>1 DEF RInv, C!contractVars
<1>3. ASSUME NEW w \in Workflows, Call(w) \/ Proceed(w)
      PROVE  RInv' /\ [C!ContractNext]_(C!contractVars)
  <2>1. ProposalOK(w)' /\ Moves(w)
    BY <1>3, GateAlwaysAsks, BeginMoves, CollectMoves, HiddenMoves, GrantMoves, CloseMoves
       DEF Proceed
  <2>2. ASSUME NEW v \in Workflows, v # w PROVE ProposalOK(v)'
    BY <1>1, <1>3, <2>2, StepIsLocal DEF ProposalOK, HasBuild, Evaluated
  <2> QED BY <1>1, <1>3, <2>1, <2>2, MoveIsContractStep DEF RInv
<1> QED BY <1>2, <1>3 DEF Next

(* The orchestrator keeps the contract of a run: nothing further runs on   *)
(* an open proposal, and every run ends once, in one of the four ways.     *)
THEOREM ContractKept == Spec => KeepsContract
BY RefinesInit, RefinesNext, PTL DEF Spec, KeepsContract, C!Contract
=============================================================================
