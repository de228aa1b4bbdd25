------------------------------ MODULE Spending ------------------------------
(***************************************************************************)
(* What a system with a BudgetManager and a ModelRouter spends when        *)
(* several callers use them at once.  A caller checks its budgets, calls   *)
(* the model through the router and records what the answer cost: three    *)
(* steps, between which others take theirs.  Both keep their own books;    *)
(* the manager's record is one step, the router's charge spans the call.   *)
(* Nothing in the program calls the manager yet: the order of the three is *)
(* the use its documentation gives it.                                     *)
(***************************************************************************)
EXTENDS Naturals, FiniteSets, Functions

CONSTANTS
  Callers,       \* who may have a call under way at the same time
  Workflows,     \* workflow ids; "unscoped" is one of them to the router
  AgentIds,      \* agent ids
  LastDay,       \* days are 1 .. LastDay
  Limits,        \* BudgetConfig: the configured scopes with their limits
  RouterBudget,  \* workflowTokenBudget
  Estimates,     \* tokens a caller may ask for
  MaxCost        \* an answer costs 0 .. MaxCost tokens

BudgetScope == {"workflow", "agent", "day"}

Days == 1 .. LastDay
Keys == Workflows \cup AgentIds \cup Days

ASSUME CallersAssumption == IsFiniteSet(Callers)
ASSUME KeysAssumption == IsFiniteSet(Workflows) /\ IsFiniteSet(AgentIds)
ASSUME CountsAssumption ==
  LastDay \in Nat \ {0} /\ RouterBudget \in Nat /\ MaxCost \in Nat /\ Estimates \subseteq Nat
ASSUME NoneAssumption == "none" \notin Workflows \cup AgentIds
ASSUME LimitsAssumption ==
  /\ "workflow" \in DOMAIN Limits /\ DOMAIN Limits \subseteq BudgetScope
  /\ \A s \in DOMAIN Limits : Limits[s].hard \in Nat /\ Limits[s].soft \in Nat

VARIABLES
  used,       \* the manager's books: tokens of each scope and key
  today,      \* the day check and record read from the clock
  usage,      \* the router's usageByWorkflow
  phase,      \* how each caller's call stands
  workflow,   \* the workflow it is for
  agent,      \* the agent it is for, or "none"
  day,        \* the day it names to check and to record, or 0: the clock's
  usedSoFar,  \* what generate read before it awaited the provider
  cost,       \* what the answer cost
  spent,      \* history: what the provider's answers cost each workflow
  overlapped  \* history: a workflow whose calls have run at the same time

managerVars == <<used, today>>
routerVars == <<usage, spent, overlapped>>
callVars == <<phase, workflow, agent, day, usedSoFar, cost>>
vars == <<managerVars, routerVars, callVars>>

Init ==
  /\ used = [s \in DOMAIN Limits |-> [k \in Keys |-> 0]]
  /\ today = 1
  /\ usage = [w \in Workflows |-> 0]
  /\ phase = [c \in Callers |-> "idle"]
  /\ workflow = [c \in Callers |-> "none"]
  /\ agent = [c \in Callers |-> "none"]
  /\ day = [c \in Callers |-> 0]
  /\ usedSoFar = [c \in Callers |-> 0]
  /\ cost = [c \in Callers |-> 0]
  /\ spent = [w \in Workflows |-> 0]
  /\ overlapped = {}

-----------------------------------------------------------------------------
(* BudgetManager.                                                          *)

(* The key a call for w by a on d is charged to.                           *)
KeyOf(s, w, a, d) ==
  CASE s = "workflow" -> w
    [] s = "agent"    -> a
    [] s = "day"      -> IF d = 0 THEN today ELSE d

(* The scopes that look at it: the agent's only when it names one.         *)
Active(s, a) == s \in DOMAIN Limits /\ (s = "agent" => a # "none")

Remaining(s, k) ==
  IF used[s][k] >= Limits[s].hard THEN 0 ELSE Limits[s].hard - used[s][k]

Over(s, w, a, d, tokens, limit) ==
  Active(s, a) /\ used[s][KeyOf(s, w, a, d)] + tokens > limit

(* Fault seed: a later scope's ok replaces a downshift.                    *)
NarrowedLastWins(v, s, w, a, d, tokens) ==
  IF ~Active(s, a) \/ v.decision = "cutoff" THEN v
  ELSE IF Over(s, w, a, d, tokens, Limits[s].hard)
         THEN [decision |-> "cutoff", remaining |-> 0]
  ELSE [decision |-> IF Over(s, w, a, d, tokens, Limits[s].soft) THEN "downshift" ELSE "ok",
        remaining |-> Remaining(s, KeyOf(s, w, a, d))]

(* What looking at one more scope makes of the verdict v.                  *)
Narrowed(v, s, w, a, d, tokens) ==
  IF ~Active(s, a) \/ v.decision = "cutoff" THEN v
  ELSE IF Over(s, w, a, d, tokens, Limits[s].hard)
         THEN [decision |-> "cutoff", remaining |-> 0]
  ELSE IF v.decision = "downshift" THEN v
  ELSE [decision |-> IF Over(s, w, a, d, tokens, Limits[s].soft) THEN "downshift" ELSE "ok",
        remaining |-> Remaining(s, KeyOf(s, w, a, d))]

(* Before any scope is looked at; remaining is Infinity in the code, and   *)
(* the workflow's scope, always there, replaces it.                        *)
Unlimited == [decision |-> "ok", remaining |-> 0]

(* check: the workflow's budget, then the agent's, then the day's.         *)
Verdict(w, a, d, tokens) ==
  Narrowed(Narrowed(Narrowed(Unlimited,
    "workflow", w, a, d, tokens), "agent", w, a, d, tokens), "day", w, a, d, tokens)

(* Fault seed: a call that names no agent is not charged to the day.       *)
ChargedToNamedAgents(w, a, d, tokens) ==
  [s \in DOMAIN Limits |->
     IF s # "workflow" /\ a = "none" THEN used[s]
     ELSE [used[s] EXCEPT ![KeyOf(s, w, a, d)] = @ + tokens]]

(* record: every scope the call is charged to, on the day it names or else *)
(* the day it is recorded.                                                 *)
Charged(w, a, d, tokens) ==
  [s \in DOMAIN Limits |->
     IF ~Active(s, a) THEN used[s]
     ELSE [used[s] EXCEPT ![KeyOf(s, w, a, d)] = @ + tokens]]

-----------------------------------------------------------------------------
(* A caller's call.                                                        *)

(* Its local variables are gone when it ends.                              *)
End(c) ==
  /\ phase' = [phase EXCEPT ![c] = "idle"]
  /\ workflow' = [workflow EXCEPT ![c] = "none"]
  /\ agent' = [agent EXCEPT ![c] = "none"]
  /\ day' = [day EXCEPT ![c] = 0]
  /\ usedSoFar' = [usedSoFar EXCEPT ![c] = 0]
  /\ cost' = [cost EXCEPT ![c] = 0]

(* Fault seed: a cutoff is advice, like a downshift.                       *)
CheckBudgetAdvisory(c, w, a, d, tokens) ==
  /\ phase[c] = "idle"
  /\ phase' = [phase EXCEPT ![c] = "admitted"]
  /\ workflow' = [workflow EXCEPT ![c] = w]
  /\ agent' = [agent EXCEPT ![c] = a]
  /\ day' = [day EXCEPT ![c] = d]
  /\ UNCHANGED <<managerVars, routerVars, usedSoFar, cost>>

(* It may spend unless the check says cutoff.                              *)
CheckBudget(c, w, a, d, tokens) ==
  /\ phase[c] = "idle"
  /\ Verdict(w, a, d, tokens).decision # "cutoff"
  /\ phase' = [phase EXCEPT ![c] = "admitted"]
  /\ workflow' = [workflow EXCEPT ![c] = w]
  /\ agent' = [agent EXCEPT ![c] = a]
  /\ day' = [day EXCEPT ![c] = d]
  /\ UNCHANGED <<managerVars, routerVars, usedSoFar, cost>>

(* TokenBudgetExceededError.                                               *)
RefuseBudget(c) ==
  /\ phase[c] = "admitted"
  /\ usage[workflow[c]] >= RouterBudget
  /\ End(c)
  /\ UNCHANGED <<managerVars, routerVars>>

Calling(w) == {c \in Callers : phase[c] = "calling" /\ workflow[c] = w}

(* The router reads the usage and awaits the provider.                     *)
CallProvider(c) ==
  /\ phase[c] = "admitted"
  /\ usage[workflow[c]] < RouterBudget
  /\ usedSoFar' = [usedSoFar EXCEPT ![c] = usage[workflow[c]]]
  /\ overlapped' = IF Calling(workflow[c]) = {} THEN overlapped
                   ELSE overlapped \cup {workflow[c]}
  /\ phase' = [phase EXCEPT ![c] = "calling"]
  /\ UNCHANGED <<managerVars, usage, spent, workflow, agent, day, cost>>

(* Fault seed: input tokens are counted twice.                             *)
ProviderAnswersDoubled(c, tokens) ==
  /\ phase[c] = "calling"
  /\ usage' = [usage EXCEPT ![workflow[c]] = usedSoFar[c] + tokens + tokens]
  /\ spent' = [spent EXCEPT ![workflow[c]] = @ + tokens]
  /\ cost' = [cost EXCEPT ![c] = tokens + tokens]
  /\ phase' = [phase EXCEPT ![c] = "answered"]
  /\ UNCHANGED <<managerVars, overlapped, workflow, agent, day, usedSoFar>>

(* The answer is charged to what was read before the call, and recorded.   *)
ProviderAnswers(c, tokens) ==
  /\ phase[c] = "calling"
  /\ usage' = [usage EXCEPT ![workflow[c]] = usedSoFar[c] + tokens]
  /\ spent' = [spent EXCEPT ![workflow[c]] = @ + tokens]
  /\ cost' = [cost EXCEPT ![c] = tokens]
  /\ phase' = [phase EXCEPT ![c] = "answered"]
  /\ UNCHANGED <<managerVars, overlapped, workflow, agent, day, usedSoFar>>

ProviderThrows(c) ==
  /\ phase[c] = "calling"
  /\ End(c)
  /\ UNCHANGED <<managerVars, routerVars>>

(* It records what the answer cost.                                        *)
RecordSpend(c) ==
  /\ phase[c] = "answered"
  /\ used' = Charged(workflow[c], agent[c], day[c], cost[c])
  /\ End(c)
  /\ UNCHANGED <<today, routerVars>>

Midnight ==
  /\ today < LastDay
  /\ today' = today + 1
  /\ UNCHANGED <<used, routerVars, callVars>>

(* A caller names the same day to check and record, if it names one, and   *)
(* none that has not begun.                                                *)
Next ==
  \/ \E c \in Callers :
       \/ \E w \in Workflows, a \in AgentIds \cup {"none"}, d \in 0 .. today,
             tokens \in Estimates : CheckBudget(c, w, a, d, tokens)
       \/ RefuseBudget(c)
       \/ CallProvider(c)
       \/ \E tokens \in 0 .. MaxCost : ProviderAnswers(c, tokens)
       \/ ProviderThrows(c)
       \/ RecordSpend(c)
  \/ Midnight

Spec == Init /\ [][Next]_vars

-----------------------------------------------------------------------------
Underway == {"admitted", "calling", "answered"}

TypeOK ==
  /\ used \in [DOMAIN Limits -> [Keys -> Nat]]
  /\ today \in Days
  /\ usage \in [Workflows -> Nat]
  /\ phase \in [Callers -> {"idle"} \cup Underway]
  /\ workflow \in [Callers -> Workflows \cup {"none"}]
  /\ agent \in [Callers -> AgentIds \cup {"none"}]
  /\ day \in [Callers -> 0 .. today]
  /\ usedSoFar \in [Callers -> Nat]
  /\ cost \in [Callers -> 0 .. MaxCost]
  /\ spent \in [Workflows -> Nat]
  /\ overlapped \in SUBSET Workflows
  /\ \A c \in Callers : phase[c] \in Underway => workflow[c] \in Workflows

(* The calls under way that will be charged to k, were they recorded now.  *)
Pending(s, k) ==
  {c \in Callers : /\ phase[c] \in Underway
                   /\ Active(s, agent[c])
                   /\ KeyOf(s, workflow[c], agent[c], day[c]) = k}

(* check and record are two calls, so a hard limit is overshot; but by no  *)
(* more than what can be under way at once, on every scope and key, and    *)
(* although a call checked before midnight is recorded on a day that never *)
(* admitted it.                                                            *)
OvershootBounded ==
  \A s \in DOMAIN Limits, k \in Keys :
     used[s][k] + MaxCost * Cardinality(Pending(s, k))
        <= Limits[s].hard + MaxCost * Cardinality(Callers)

Unrecorded(w) ==
  SumFunctionOnSet(cost, {c \in Callers : phase[c] = "answered" /\ workflow[c] = w})

(* No scope loses or doubles a token another has: a workflow's books and   *)
(* what its callers still have to record are what its answers cost, the    *)
(* days add up to the workflows and the agents to no more.                 *)
LedgersAgree ==
  /\ \A w \in Workflows : spent[w] = used["workflow"][w] + Unrecorded(w)
  /\ LET total == SumFunctionOnSet(used["workflow"], Workflows)
     IN /\ "day" \in DOMAIN Limits => SumFunctionOnSet(used["day"], Days) = total
        /\ "agent" \in DOMAIN Limits =>
             SumFunctionOnSet(used["agent"], AgentIds) <= total

(* The router may lose count of a workflow, never add to it: its usage is  *)
(* at most what was spent, and exactly that as long as no two calls of the *)
(* workflow ran at the same time.                                          *)
RouterUndercounts ==
  \A w \in Workflows :
     /\ usage[w] <= spent[w]
     /\ w \notin overlapped => usage[w] = spent[w]

(* What check decides is the strictest of what its scopes would, whatever  *)
(* their order, and leaves at least what was asked for.  (To name no day   *)
(* is to name today.)                                                      *)
VerdictIsStrictest ==
  \A w \in Workflows, a \in AgentIds \cup {"none"}, d \in Days,
     tokens \in Estimates :
     LET v == Verdict(w, a, d, tokens)
         hard == \E s \in DOMAIN Limits : Over(s, w, a, d, tokens, Limits[s].hard)
         soft == \E s \in DOMAIN Limits : Over(s, w, a, d, tokens, Limits[s].soft)
     IN /\ v.decision = "cutoff" <=> hard
        /\ v.decision = "downshift" <=> soft /\ ~hard
        /\ v.decision # "cutoff" => v.remaining >= tokens
=============================================================================
