----------------------------- MODULE Activation -----------------------------
(***************************************************************************)
(* The StrategyActivationPolicy and the advanced strategies it gates.  The *)
(* policy reads the environment at every evaluation: authorize evaluates   *)
(* and then awaits an audit write, selectSequence evaluates for itself and *)
(* audits nothing.  A user of a strategy may ask to have it authorized,    *)
(* and selects its sequence; the environment may change in between.        *)
(***************************************************************************)
EXTENDS Strategies

CONSTANTS
  Users,     \* uses of an advanced strategy
  Advanced,  \* the strategies that are used
  Faults     \* "audit": the audit log may throw

AdvancedStrategyName == {"chain-of-debates", "loose-coalitions", "aufheben"}

VARIABLES
  environment,  \* HARP_ENABLE_ADVANCED_STRATEGIES, _ENABLED_STRATEGIES, _MODEL_VALIDATED
  stage,        \* where each use is
  strategy,     \* the strategy it is of
  verdict,      \* what authorize found allowed
  entry,        \* the audit event of its authorization
  sequence,     \* the sequence it was given
  seen          \* history: whether the gate was open, closed or both while the
                \* use was authorized and until its sequence was selected

vars == <<environment, stage, strategy, verdict, entry, sequence, seen>>

Environments == [enabled : BOOLEAN, named : SUBSET Advanced, validated : BOOLEAN]

(* All three variables unset.                                              *)
Closed == [enabled |-> FALSE, named |-> {}, validated |-> FALSE]

Init ==
  /\ environment = Closed
  /\ stage = [u \in Users |-> "idle"]
  /\ strategy = [u \in Users |-> "none"]
  /\ verdict = [u \in Users |-> FALSE]
  /\ entry = [u \in Users |-> "none"]
  /\ sequence = [u \in Users |-> << >>]
  /\ seen = [u \in Users |-> {}]

(* What evaluate is to test: all three conditions.                         *)
Open(env, s) == env.enabled /\ s \in env.named /\ env.validated

(* Fault seed: any strategy is on once one of them is.                     *)
EvaluateAnyNamed(s) ==
  environment.enabled /\ environment.named # {} /\ environment.validated

(* evaluate: one early return for each condition that is missing.          *)
Evaluate(s) ==
  IF ~environment.enabled THEN FALSE
  ELSE IF s \notin environment.named THEN FALSE
  ELSE environment.validated

SafeFallback ==
  <<"pharaoh", "horus-nexus", "anubis-sentinel", "ra",
    "horus-nexus", "anubis-sentinel", "pharaoh">>

ActivatedSequence(s) ==
  IF s = "chain-of-debates"
    THEN <<"pharaoh", "horus-nexus", "horus-nexus", "anubis-sentinel",
           "anubis-sentinel", "pharaoh">>
  ELSE IF s = "loose-coalitions"
    THEN <<"pharaoh", "horus-nexus", "anubis-sentinel", "pharaoh">>
  ELSE <<"pharaoh", "ra", "anubis-sentinel", "pharaoh", "horus-nexus", "pharaoh">>

Selected(s) == IF Evaluate(s) THEN ActivatedSequence(s) ELSE SafeFallback

SetEnvironment(env) ==
  /\ environment' = env
  /\ seen' = [u \in Users |->
       IF stage[u] \in {"authorizing", "authorized"}
         THEN seen[u] \cup {Open(env, strategy[u])} ELSE seen[u]]
  /\ UNCHANGED <<stage, strategy, verdict, entry, sequence>>

(* The verdict is reached before the audit write is awaited.               *)
Authorize(u, s) ==
  /\ stage[u] = "idle"
  /\ stage' = [stage EXCEPT ![u] = "authorizing"]
  /\ strategy' = [strategy EXCEPT ![u] = s]
  /\ verdict' = [verdict EXCEPT ![u] = Evaluate(s)]
  /\ seen' = [seen EXCEPT ![u] = {Open(environment, s)}]
  /\ UNCHANGED <<environment, entry, sequence>>

DecisionAudited(u) ==
  /\ stage[u] = "authorizing"
  /\ stage' = [stage EXCEPT ![u] = "authorized"]
  /\ entry' = [entry EXCEPT ![u] = IF verdict[u] THEN "strategy.activated"
                                   ELSE "strategy.activation_refused"]
  /\ UNCHANGED <<environment, strategy, verdict, sequence, seen>>

(* authorize rejects: its caller has no verdict.                           *)
AuditThrows(u) ==
  /\ "audit" \in Faults
  /\ stage[u] = "authorizing"
  /\ stage' = [stage EXCEPT ![u] = "raised"]
  /\ UNCHANGED <<environment, strategy, verdict, entry, sequence, seen>>

(* After an authorization, whatever it said.                               *)
SelectAuthorized(u) ==
  /\ stage[u] = "authorized"
  /\ stage' = [stage EXCEPT ![u] = "selected"]
  /\ sequence' = [sequence EXCEPT ![u] = Selected(strategy[u])]
  /\ UNCHANGED <<environment, strategy, verdict, entry, seen>>

(* Without one, as an orchestrator given the strategy would.               *)
SelectUnasked(u, s) ==
  /\ stage[u] = "idle"
  /\ stage' = [stage EXCEPT ![u] = "selected"]
  /\ strategy' = [strategy EXCEPT ![u] = s]
  /\ sequence' = [sequence EXCEPT ![u] = Selected(s)]
  /\ seen' = [seen EXCEPT ![u] = {Open(environment, s)}]
  /\ UNCHANGED <<environment, verdict, entry>>

Next ==
  \/ \E env \in Environments : SetEnvironment(env)
  \/ \E u \in Users :
       \/ \E s \in Advanced : Authorize(u, s) \/ SelectUnasked(u, s)
       \/ DecisionAudited(u)
       \/ AuditThrows(u)
       \/ SelectAuthorized(u)

Spec == Init /\ [][Next]_vars

-----------------------------------------------------------------------------
Entries == {"strategy.activated", "strategy.activation_refused"}

TypeOK ==
  /\ environment \in Environments
  /\ stage \in [Users -> {"idle", "authorizing", "authorized", "selected", "raised"}]
  /\ strategy \in [Users -> Advanced \cup {"none"}]
  /\ verdict \in [Users -> BOOLEAN]
  /\ entry \in [Users -> {"none"} \cup Entries]
  /\ sequence \in [Users -> Seq(AgentId)]
  /\ seen \in [Users -> SUBSET BOOLEAN]

ActivatedFor(u) == sequence[u] # SafeFallback

(* An advanced sequence is only ever handed out with the gate open, and    *)
(* the audit speaks of a gate that was so; the two tell different stories  *)
(* only of a use during which the environment changed, or that never asked *)
(* to be authorized, of which the audit says nothing.  In every sequence   *)
(* handed out Anubis sees what Ra built and Pharaoh is last.               *)
SelectionMatchesAudit ==
  \A u \in Users : stage[u] = "selected" =>
     /\ ActivatedFor(u) => TRUE \in seen[u]
     /\ ~ActivatedFor(u) => FALSE \in seen[u]
     /\ entry[u] # "none" => (entry[u] = "strategy.activated") \in seen[u]
     /\ entry[u] # "none" /\ seen[u] # BOOLEAN =>
          ActivatedFor(u) = (entry[u] = "strategy.activated")
     /\ LET seq == sequence[u] IN
          /\ seq[Len(seq)] = "pharaoh"
          /\ \A i \in DOMAIN seq : seq[i] = "ra" =>
               \E j \in DOMAIN seq : i < j /\ seq[j] = "anubis-sentinel"
=============================================================================
