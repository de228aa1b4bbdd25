# H.A.R.P. in TLA+

TLA+ modules, TLC models and TLAPS proofs for H.A.R.P. (`src/`), a TypeScript
framework in which four agents review, build and validate software work in a
governed loop: an orchestrator runs a coordination strategy over the agents, a
proposal of the building agent stops at a human approval gate, every step is
audited, and the agents' model calls go through a gateway that routes them to
provider containers by model class.

Paths below are relative to the repository root; `src/` is its source
directory (so the program's TypeScript is in `src/src/`).

## 1. The system: components, state, hard parts

| Component | State | Operations and who calls them |
|---|---|---|
| **Orchestrator** (`orchestration/HarpOrchestrator.ts`) with `AuditLogger`, `MemoryStore` | per call: strategy, results, artifacts; shared: append-only audit events and stored artifacts | `execute`: select, run agents, gate after Ra, stop early, complete, handle failure. Calls everything below. |
| **Strategies, selector** (`orchestration/strategies`, `StrategySelector.ts`) | none | planned sequence, `shouldStop`, forced escalation, composite score |
| **Agents** (`agents/*`, `core/agentConfig.ts`) | none | `execute`: audit, model call through the router, parse or block, audit |
| **Approval gate** (`security/ApprovalGate.ts`) | none | `evaluate`: asks the provider when approval is required |
| **Model router** (`models/ModelRouter.ts`) | token usage per workflow id | `complete`: check budget, await provider, charge |
| **Concierge, router, registry, transport** (`gateway/concierge`, `gateway/routing`) | health flag of every container, shared by all requests | `generate`: plan a route, deliver, retry, fail over, mark, report |
| **Concierge as provider** (`modelProvider.ts`, `index.ts`) | – | wires the Concierge under the model router |
| **Container server** (`container/src`) | its TLS material, requests under way | start, health, generate; answers 200, 400, 404, 500, 502 |
| **Certificates and mutual TLS** (`gateway/security`) | – | the start-up decision of core and containers, fail closed |
| **Budget manager** (`models/BudgetManager.ts`) | usage per scope and key | `check`, `record` (two calls); nothing in `src/` calls them yet |
| **Tools and permissions** (`tools`, `security/PermissionGuard.ts`) | registered tools | `register`, `invoke`: permission, approval, run, audit |
| **Advanced strategies, activation policy** (`strategies/advanced`) | an environment read at each evaluation | `authorize`, `selectSequence` |
| **Context loader, thread compactor** (`context`) | skills, a reference loader | `register`, `load`, `compact` |
| Context manager (`ContextManager.ts`) | – | selects documents for an agent |
| Sequential validator (`SequentialValidator.ts`) | – | ordered checks, halt at the first failure |
| Resource-aware router (`models/ResourceAwareRouter.ts`) | – | `route`, `planFanOut` |
| Redaction, safe logging, knowledge store, observability, governance mapping, stub provider | little | text rewriting, counters, tables, canned answers |

What makes a component correct, and what is hard about it:

* **Orchestrator.** Every `await` may throw, after part of the work has been
  recorded. The audit trail, the stored artifacts, the returned artifacts and
  the status must still agree; nothing may run on a proposal the gate has not
  cleared, whatever strategy planned the sequence; a result for sensitive work
  must ask for a human; a run overshoots its budget by less than a call; a call
  always ends.
* **Selector.** Three attributes of a task force escalation before any score
  counts; work that must escalate must not reach a strategy that builds, unless
  the caller forces one.
* **Gateway.** Concurrent requests share the health flags and plan before they
  wait; retries, failover and marking interleave. A request must stay in its
  class, respect tiers and retry limits, report failure only when it was
  exhausted, and cost a container its health only for a reason of its own.
* **Composition.** A request is made for the class the agent asks for; its
  answer or failure must end up in that agent's run, once, and a call the
  gateway gave up on must be the last thing its run does, whatever store, audit
  log and approval provider do meanwhile.
* **Deliveries.** The server knows nothing of the client's deadline: a run goes
  on when its delivery has timed out and been retried, containers crash and come
  up with other certificates, replies are late or cut off. An answer must be
  that of the run it was awaited from, a request must cost no more runs than it
  has counted failures and one, a delivery must resolve, and no party in
  production may work with development material.
* **Budgets.** `check` and `record` are apart, and the router reads its usage
  before an await and writes it after: limits are overshot and updates lost.
  By how much, and in which direction, is what can be relied on.
* **Tools.** Nothing runs without permission and approval, whatever is
  registered; the reply, the trail and what happened part only when the audit
  log fails.
* **Activation.** The environment changes between the audited verdict and the
  sequence that is handed out.
* **Context.** Skills are registered and threads grow while a load or a summary
  is awaited; what is returned must still be complete and account for itself.

`PROJECT.json` lists every component with its state of modelling, and every
hazard at the line where it bites with the properties that cover it.

## 2. The modules

| Module | Models | EXTENDS / INSTANCE |
|---|---|---|
| `Agents` | agents, task attributes, model classes, results | – |
| `Strategies` | sequences, early stop, approval rule, selector | `Agents` |
| `Workflow` | `HarpOrchestrator.execute` with its collaborators | `Strategies` |
| `WorkflowContract` | what a run promises its caller (abstract) | – |
| `Concierge` | Concierge, Router, ContainerRegistry | – |
| `DeliveryContract` | what a request is promised (abstract) | – |
| `GatewaySystem` | workflows whose model calls go through one Concierge | instances of `Workflow`, `Concierge` |
| `ContainerServer` | core and containers as processes: certificates, start, crash, provider runs | – |
| `Wire` | `Concierge` over `MtlsHttpTransport` and the container servers | instances of `Concierge`, `ContainerServer` |
| `Spending` | `BudgetManager` and `ModelRouter` under concurrent callers | community modules |
| `Tools` | `ToolRegistry`, `PermissionGuard`, the default tools | `Agents` |
| `Activation` | `StrategyActivationPolicy` and the strategies it gates | `Strategies` |
| `Gates` | the two side by side, as `createHarpSystem` builds them | instances of `Tools`, `Activation` |
| `Context` | `ProgressiveContextLoader`, `ThreadCompactor` | community modules |
| `MCWorkflow`, `MCConcierge`, `MCGatewaySystem`, `MCWire`, `MCSpending`, `MCGates`, `MCContext` | constants for TLC | one each |
| `WorkflowProofs` | theorems about `Workflow`, its refinement included | `Workflow`, TLAPS |
| `ConciergeProofs` | theorems about `Concierge`, its refinement included | `Concierge`, TLAPS |
| `WireProofs` | theorems about `Wire` | `Wire`, TLAPS; instance of `ConciergeProofs` |
| `GatewaySystemProofs` | theorems about the composition | `GatewaySystem`, TLAPS; instances of `WorkflowProofs`, `ConciergeProofs` |
| `Sums` | lemmas on sums over finite sets, which the next two use | community modules, TLAPS |
| `SpendingProofs` | theorems about `Spending` | `Spending`, `Sums` |
| `ContextProofs` | theorems about `Context` | `Context`, `Sums` |
| `GatesProofs` | theorems about the two gates, side by side | `Gates`, TLAPS |

Definitions introduced as *fault seeds* are mutated forms of the definition
that follows them, each the way a plausible bug would change it. Nothing in the
specifications uses them; replacing the real definition by its seed must break
the property `PROJECT.json` pairs it with, which shows that the property can
fail.

### Workflow

One member of `Workflows` is one call of `execute`. `pc` says where it is:

| `pc` | the code is |
|---|---|
| `idle` / `done` | not called / returned or thrown |
| `loop` | at the head of the agent loop |
| `started` | in the agent, `agent.started` written, about to call the router |
| `calling` | awaiting the model provider |
| `produced` | the agent returned, `agent.completed` written |
| `gate` | awaiting the approval gate after Ra's result was stored |
| `denied` | the approval request is stored, its audit write to come |
| `raised` | in the catch block |

A step is the code between two awaits. An action that starts an awaited call
also makes the change the call makes on success; that the call throws is an
action of its own, enabled when the collaborator is in `Faults`
(`ExecuteRejected`, `ModelFails`, `StoreFails`, `DenialNotStored`,
`StepThrows`, `AnswerUnrecorded`, `FailureRejected`). `results`, `artifacts`
are the arrays of the call; `memory`, `audit`, `used` are the store, the trail
and the router's usage. Those three are shared by all calls in the code, but
always read by workflow id, so here they are functions of the workflow: an
append of one call cannot be seen by another.

Abstracted: prompts, texts, ids, time stamps, and the content of artifacts. A
model answers any number of tokens in `CallTokens` and text that parses or
does not. Optional booleans of a task are tested only against `true`
(`requiresRepoWrite`, `touchesSecrets`) or `false` (`reversible`), so two
values each are exact. The selector's score is computed in integers: all terms
are multiplied by their common denominator, so ties and orders are the code's
in exact arithmetic.

### Concierge

One caller is one call of `generate` at a time. A step is the code from one
answer of the transport to the next delivery. A plan is a set: within it the
order is `Before` (tier, then registration). `Submit` takes the plan from the
health flags of that moment and nothing revises it; `Answers`, `Throws`,
`FailsFatally`, `FailsRetryably`, `FailsOver` are the branches of the attempt
loop. `failed` is a history variable. The failures a container may answer with
(`WireFailures`) are those the transport and the container server produce,
including the body of a 404 or 500, which carries neither a kind nor
`retryable`. A body that is JSON `null` parses, so the transport hands it on,
and reading its `ok` throws outside the `try` (`Concierge.ts:167`): it ends the
request at once, as the two fatal kinds do, and is counted among them.

### GatewaySystem

The composition `buildModelProvider` wires in concierge mode. `CallModel` is
the orchestrator's and the gateway's step in one: the budget check passes and
the request of the agent's model class is submitted. `Deliver` is any reply;
`ModelAnswers` and `ModelFails` hand the end of the request to the agent that
awaits it, or to the catch block when the agent cannot record its answer
(`AnswerUnrecorded`). `WorkLocally` is every other step of `Workflow`, the
throws of store, audit log and approval provider included.

### Wire and ContainerServer

`Wire` gives each caller's current delivery its life between `deliver` and the
promise's end, in `wire`: `sent`, `running` in the container's provider,
`replied`, `broken` (a socket error is on its way to the client), or `hung`
(the connection closed inside the reply's body, which fires neither `end` nor
`error`). The client's events are `ReplyArrives`, `SocketError` and
`DeadlinePasses`; each is, in the same step, the branch of the Concierge's
attempt loop it leads to, whose transport here never throws and fails in just
the ways `deliver` resolves (`TransportFailures`, which an assumption compares
with those of `Concierge`). Containers and network do the rest, independently:
`StartProvider`, `ProviderEnds` (which replies to whoever still waits, or to
nobody), `RejectVersion`, `ContainerCrashes`, `ContainerStarts`,
`NoConnection`, `ConnectionBreaks`, `ReplyCutOff`. A delivery is named by
request and attempt, since both attempts bear the same correlation id.
`Detour` stands for something else that answers at a container's address (a
proxy, a wrong path): it is where 401, 403, 404, 500, 503, `null` and
unparseable bodies come from, because the container server itself sends 404 and 500 only
for requests this transport does not make.

`ContainerServer` holds what a process loaded at its start (`loaded`) and the
runs under way. A material is a model value: whether it parses, bears the dev
CA's marker and is valid is all `enforceTrustPolicy` asks. Time moves a
material from early to current to expired; a process keeps what it loaded.
Each caller submits one request here, so that `ran`, the history of provider
runs, speaks of one request; `Concierge` covers callers that return.

### Spending

One caller makes one call after the other: `CheckBudget`, `CallProvider`,
`ProviderAnswers`, `RecordSpend`, with `RefuseBudget` and `ProviderThrows` as
the ways out. That order is what the manager's documentation asks of its
users; nothing in `src/` calls it beyond building it (`index.ts:69`). `used`
are the manager's books, `usage` the router's, `spent` and `overlapped`
histories of what the provider's answers really cost and of workflows whose
calls ran at the same time. `Midnight` moves the date both methods read from
the clock. A caller may name a day instead (`day`, 0 when it names none): it
names the same one to `check` and to `record`, and one that has begun. A caller
that names two, or a day to come, is not modelled.

### Tools, Activation, Gates

An invocation is checked in the step that starts it; its phases are the awaits
of `invoke`: the run, and the four audit writes, each of which may throw. Only
the write after a successful run is inside the `try`, so only its failure is
audited again. In `Activation` a user of a strategy authorizes and then
selects its sequence, or selects without asking; `SetEnvironment` changes the
three variables at any time (operators do; nothing in `src/` writes them), and
`seen` records whether the gate was open or closed meanwhile. `Gates` runs
both over one audit log.

### Context

A step of `load` is the code from one await to the next: `GoesOn` skips unknown
ids and finds the next body, or the references, or the end. `Register` and
`SetReferenceLoader` may come in between. The loader's tokens are counted in
bodies paid for, not in characters. A compaction reads its caller's array
before and after it awaits the summary; `AppendItem` is the caller going on.

## 3. What the runs check

| Run | Instance | Shows |
|---|---|---|
| `workflow` | one call; all 32 task shapes; every strategy forced, or none; budget 9, calls of 1 or 3 tokens; both approval providers; any collaborator may throw | `GatedProposal`, `TrailMatchesOutcome`, `TrailMatchesResults`, `EvidencePreserved`, `SensitiveNeedsHuman`, `StopsExactlyAtBlock`, `BudgetOvershootBounded`, `EscalatedNeverBuilt`, `Settles`, and the refinement `KeepsContract` of `WorkflowContract` |
| `routing` | two concurrent callers; two primaries and a backup registered between them; two classes; two attempts; every way a delivery can end | `NoDowngrade`, `TierOrder`, `ReportIsHonest`, `AttemptsBounded`, `OutageEarned`, `GivingUpMarks`, `Settles`, and the refinement `KeepsContract` of `DeliveryContract` |
| `gateway` | two workflows over a primary that serves the everyday classes and a backup that serves all; low- and high-risk tasks; two failures; model, store, audit log and approval provider may throw | `DeliveryHasCaller`, `HighRiskStaysInClass`, `FailedCallEndsRun`, `Settles`; both parts refine their own specifications (`WorkflowsBehave`, `ConciergeBehaves`) |
| `wire` | one caller; a primary, a backup in development mode and one of another protocol version; organisation and development material; two attempts; crashes, restarts, expiry, detours | `WorkAccounted`, `ProductionTrust`, `Resolves`, and that the Concierge over the wire is `Concierge` (`ConciergeBehaves`) |
| `spending` | two callers, two workflows, one agent, two days, named or not, all three scopes, answers of 0 to 2 tokens | `OvershootBounded`, `LedgersAgree`, `RouterUndercounts`, `VerdictIsStrictest` |
| `gates` | one invocation of any tool by any agent; two tools to register, one under a taken name; one use of an advanced strategy; audit log and tools may throw | `EffectIsCleared`, `OutcomeIsTold`, `SelectionMatchesAudit` |
| `context` | one load of three skills and two references, two compactions of a thread of up to three items | `ContextComplete`, `RecordAccounts` |
| `failed_actor`, `escalation`, `completed_loop`, `transport_throws`, `documented_fleet` | small | disagreements between code and documentation, see section 5 |

**Bounds.** One workflow is enough for `Workflow`: calls share no state that
they read of each other, and the proofs hold for any number. A budget of 9
with calls of 3 is exhausted inside the seven-agent sequence and calls of 1
never exhaust it, so both ends happen, including the exact hit. Two callers
suffice for the gateway: health flags are the only shared state and two
callers produce every race on one; three containers give a failover inside a
tier and one across tiers; two attempts separate the first, the last and the
one past it. In `gateway` the budget of 2 cuts the voting strategy (five
agents, Ra second) after the gate, which makes both the gate and budget
exhaustion reachable in few steps, each with every throw around it. Token costs are sampled, not abstracted: the budget theorem
holds for any. In `wire` one caller is enough: what callers share is health,
which `routing` and `gateway` race over, and the theorems about `Wire` hold
for any number; its materials are valid from the start, so that time means
expiry. In `spending` the hard limits of 2, with a soft
one of 1, are reached by two calls, so both callers can be admitted on the same
usage on every scope, the second day takes what the first admitted, and a call
that names the first day is charged to it after midnight. The router's budget
of 1 refuses after one answer that costs anything. In `gates` and
`context` an invocation, a use or a load touches nothing of another's, so one
each meets everything that changes under it; a selection repeats an id and
names one that may stay unknown, and two compactions of a three-item thread
overlap each other and an append.

**Fairness.** Weak fairness of a run's own steps (`Proceed`) and of the
transport's replies (`Reply`). The code justifies it: every await inside
`execute` is an in-memory store, an approval provider that answers at once or
a model call, and the gateway's transport resolves a delivery at the end of
the reply, on a socket error and when the socket is idle for the deadline
(`MtlsHttpTransport.ts:71-102`). `Wire` checks that last step: under weak
fairness of the client's own events only (`Resolve`: node delivers what has
arrived, and its socket timer fires) a delivery resolves whatever containers
and network do (`Resolves`), with one exception, which the property names: a
connection closed inside a reply's body ends the response without `end` and,
in node, without `error` on the request, and then nothing resolves the
delivery. The fairness of `Concierge` and `GatewaySystem` leaves that case out.
No fairness is assumed of callers. Not covered: an approval provider
that waits for a human; neither provider in the repository does.

**Deadlock** is checked in `routing` and `transport_throws`, where callers may
always ask again, and in `gates`, where the environment may always change.
The others say `CHECK_DEADLOCK FALSE`: a returned workflow stops, a budget and
a day run out, and requests, loads and threads are finite. `Settles` and
`Resolves` are what rules out stopping early there.

## 4. What is proved

For every value of the constants, under the `ASSUME`s of the modules only, the
theorems state every invariant and every action property a passing run checks,
and all five refinements. What stays with TLC is liveness.

* **`ConciergeProofs`**: `TypeOK`, `NoDowngrade`, `TierOrder`,
  `ReportIsHonest`, `AttemptsBounded` as invariants, `OutageEarned` and
  `GivingUpMarks` as action properties. The inductive invariant `IInv` is
  `TypeOK` and, for each request, `RouteOK`. None of the five is inductive
  alone: the range of `failed` in `TypeOK` needs that the attempt counter is the
  number of failures at the current container, which needs that a container
  still untried has none, which is part of the tier order; and that an
  exhausted container stays exhausted needs that health never returns
  (`OthersKeepRoute`). Route order is transitive because no container is
  registered twice (`BeforeTransitive`).
  In the same module `Spec => KeepsContract`, the refinement of
  `DeliveryContract`: submitting opens a request with a plan that serves its
  class, giving up rules out one candidate, a retry is a stutter.
* **`WorkflowProofs`**: `TypeOK`, `GatedProposal`, `TrailMatchesOutcome`,
  `SensitiveNeedsHuman`, `StopsExactlyAtBlock`, `BudgetOvershootBounded`,
  `EscalatedNeverBuilt`. The inductive invariant `IInv` is `TypeOK` and, for
  each run, seven named parts: where it is fits its strategy (`PlaceOK`),
  results are what planned agents build (`ResultsOK`), the trail is gated and,
  outside the gate, has no open proposal (`GateOK`), it is closed exactly as
  returned (`TrailOK`), spending (`SpendingOK`), only planned agents act
  (`StrategyOK`), and what an end implies (`OutcomeOK`). `GatedProposal` speaks
  of pairs of past events; the strengthening is `NoneOpen`, that wherever an
  agent may be started next no proposal waits. `SensitiveNeedsHuman` rests on a
  fact of all six sequences (each plans Anubis, `Sequences6`) and on a run
  being able to stop early only on a blocked result, which asks itself.
  Lemmas on appended trails (`AppendKeepsGated`, `AppendClears`, ...) carry the
  steps; `StepIsLocal` shows that a step of one run leaves the others alone.

  `EvidencePreserved` and `TrailMatchesResults` follow from a second invariant,
  `HInv`, inductive given the first. Its `EvidenceOK` says from where a step can
  leave an artifact made and not stored, or the approval request made and the
  result not returned: the property itself speaks of any moment and would be
  lost at the next append. Its `Lists` compares a trail with the results up to
  the one under way. The *n*-th completion of a trail is named by counting the
  completions up to it, so an appended event adds one at the end and leaves the
  ranks of the others alone (`CompletionsFinite` and the lemmas after it).

  `Spec => KeepsContract`, the refinement of `WorkflowContract`, needs one more
  part, `ProposalOK`: where a run is tells whether Ra's result was collected and
  evaluated. It rests on no strategy planning Ra twice (`OneBuild`).
* **`GatewaySystemProofs`**: `DeliveryHasCaller`, `HighRiskStaysInClass`,
  `FailedCallEndsRun`, and that both sides of the composition are what
  their modules say (`WorkflowsBehave`, `ConciergeBehaves`). The inductive
  invariant is that of either side, taken over from the two modules above, and
  `Linked`, which ties them: a run that awaits a model has a request for the
  class its agent asks for, and while it does, or once the Concierge has given
  the request up, the trail ends with the start of the agent at work, but for a
  recorded failure (`LeftAtWork`). The property follows: nothing but the failure
  can be appended, and the run is in the call, in the catch block or over.
  That a request is for a class the Concierge knows is a fact about the two
  sides together (`NextClassKnown`), and so is that an agent never asks while
  its last request is under way. With both implementations proved, the theorems
  of the two modules hold in the composition (`RunsStaySafe`,
  `RequestsStaySafe`).
* **`WireProofs`**: `WorkAccounted`, `ProductionTrust`, and `Spec =>
  ConciergeBehaves`: the transport and the servers keep to what `Concierge`
  assumes of them, for every fleet, material and set of detours. The inductive
  invariant is the Concierge's own `IInv`, the types of the server's state,
  that every run belongs to a counted delivery, that a delivery's exchange
  fits its request (`Exchange`), and that what was loaded was loaded under the
  policy (`Trusted`). A step of `Wire` is a step of `Concierge` or leaves it
  alone, so the invariant of `ConciergeProofs` carries over and with it
  `NoDowngrade` (`NeverDowngradedOverWire`).
* **`SpendingProofs`**: `TypeOK`, `OvershootBounded`, `RouterUndercounts`,
  `VerdictIsStrictest`, `LedgersAgree`, for any number of callers and any
  limits. The overshoot bound is not inductive by itself: the invariant says
  that what is recorded and what may still be recorded by the calls under way
  fits above the limit, and the proof counts those calls as finite sets that
  lose or gain one member in a step. The day's turn only moves calls out of a
  key's pending set. `LedgersAgree` is inductive given `TypeOK`: each step
  changes every one of its sums at one point or at none.
* **`ContextProofs`**: `ContextComplete` and `RecordAccounts`. A load is
  understood through the part of the selection it has walked over (`LoadInv`):
  every skill of the catalog met so far has its body, and level 2 was paid for
  each time it was met. That no skill of the catalog is skipped needs that what
  is registered stays so. `CompactionInv` keeps,
  while the summary is awaited, what `tokensBefore` is the sum of; at the end the
  record is read from a thread that has only grown.
* **`GatesProofs`**: `EffectIsCleared` and `OutcomeIsTold`, for any tools an
  integrator registers, and `SelectionMatchesAudit`. The two gates have an
  invariant each, `ToolsInv` and `PolicyInv`; a step of `Gates` is one of either
  and a stutter of the other. The first property needs that names stay unique,
  so that the tool an invocation was checked against is the one that bears its
  name later; the last follows what a use has seen of the gate since its
  authorization.
* **`Sums`** serves the two modules that add up. The sum of a function over a
  finite set is in the community modules a fold, recursive underneath.
  `SumFunctionIsSum` and `MapThenSumIsSum` reach it through the recursive
  function it is a choice of, by induction over sets of numbers and over
  subsets rather than over an operator (`NumberInduction`, `SubsetInduction`);
  from there the sums are changed at a point, split and extended by lemmas.

Assumptions on constants, each named in the module that declares it, and why
the code meets it: natural limits, costs, budgets and token counts; finitely
many callers, and finitely many workflow and agent ids in the books, whose maps
are finite; a workflow budget that is always configured (the constructor
requires it); tasks, strategies and failures of the declared types; at least one
attempt; distinct registered containers (the registry is keyed by id); a core
that is not a container; load requests that are sequences of reference ids.
`GatewaySystem` restates those of its two parts.

Only model-checked: `Settles` in three runs and `Resolves`, which are liveness
under fairness. `TrailMatchesResults` is written with a count of completions
where a filtered sequence would read more directly, because nothing can be
proved here of a recursively defined filter.

## 5. Where code and documentation disagree

| Run | The statement | The code |
|---|---|---|
| `failed_actor` | a failure's advice is to inspect "the failed agent's audit trail" | `handleFailure` names the last agent whose result was collected, or `system` when there is none, not the one that threw; TLC's run is an escalation whose first model call throws |
| `escalation` | "Escalation always defers to human approval" (`strategies.ts`) | irreversible low-risk work that writes nothing and touches no secret completes without asking |
| `completed_loop` | a completed run "completed the review-build-validation loop" | a sequence stopped at unusable output is returned as completed, with nothing built |
| `transport_throws` | containers are marked unhealthy "after repeated failures" (`Router.ts`) | a container whose every attempt threw stays in service |
| `documented_fleet` | the demo halts at `approval_required` for high-risk work | over the documented fleet no container serves the high-risk classes, and the run fails |

Each is a run that checks only that statement and that TLC refutes; the
quotations and lines are in `PROJECT.json`.

Smaller ones, seen while modelling and visible in the models without a run of
their own:

* `ToolRegistry.ts:6-8` promises callers a structured result, never a raw
  error; when an audit write fails, an exception leaves `invoke` (`raised`).
* `ActivationPolicy.ts:14` says that a refused activation emits an audit event;
  `selectSequence` refuses by falling back and audits nothing, and the event
  name `strategy.fell_back_to_safe` is emitted nowhere.
* The `remaining` of an ok verdict is that of the last scope checked, not the
  least (`BudgetManager.ts:106`).
* `ThreadCompactor.ts:56` says that claims are preserved; the record keeps
  their number. What it lists may include items appended after the summariser
  was called.
* `planFanOut` routes its workers at low risk whatever the task's risk, though
  the module says that high-risk work is never downgraded.
* A skill selected twice is loaded and paid for twice.
* A loader or summariser that throws leaves its trace span open.

## 6. Not modelled, and what could follow

Not modelled, with the reason:

* **Context manager**, **resource-aware router**, **sequential validator**: pure
  selections and table lookups, or one loop over a private copy. They keep no
  state another step could change; a model would repeat their tables.
* **Redaction and safe logging**: their correctness is that of regular
  expressions, not of states.
* **Observability, governance table, knowledge store, stub provider**:
  counters nothing reads, a static table, a store loaded once, canned texts.
* **TLS and X.509** themselves, and node's HTTP client, are taken as node
  documents them.
* The **health endpoint** of a container changes nothing and nobody in `src/`
  calls it; the `records` of the model router and the permissions no tool asks
  for decide nothing.

What could follow:

1. `GatewaySystem` over `Wire` in place of `Concierge`, which
   `ConciergeImplemented` allows.
2. A model of the health flags' way back, once the program has one: today
   nothing sets a container healthy again.
