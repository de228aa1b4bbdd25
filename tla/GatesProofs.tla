---------------------------- MODULE GatesProofs -----------------------------
(***************************************************************************)
(* Theorems about the two gates, for any invocations, any integrator's     *)
(* tools, any users, strategies and environments, and any faults.  Each    *)
(* gate has an inductive invariant of its own, which the other's steps     *)
(* leave alone.  The registry's: names are unique, and each invocation has *)
(* what its phase implies.  The policy's follows what a use has seen of    *)
(* the gate from its authorization on: the gate as it is now is always     *)
(* part of it.                                                             *)
(***************************************************************************)
EXTENDS Gates, Integers, Sequences, TLAPS

UniqueNames == \A t, u \in tools : t.name = u.name => t = u

(* The tool an invocation runs was cleared for it.                         *)
ClearedOK(c) ==
  run[c] # "none" =>
     \E t \in tools :
        /\ t.name = name[c]
        /\ t.requiredPermission \in T!Permissions[agent[c]]
        /\ t.stateChanging => approved[c]

(* What has happened by the time an invocation is where it is.             *)
PhaseOK(c) ==
  /\ phase[c] \in {"idle", "denying", "asking"} => run[c] = "none"
  /\ phase[c] = "running" => run[c] = "started"
  /\ phase[c] = "reporting" => run[c] = "returned"
  /\ phase[c] = "excusing" => run[c] = "threw" \/ (run[c] = "returned" /\ writeLost[c])
  /\ phase[c] # "settled" => trail[c] = {}

ToldOK(c) ==
  phase[c] = "settled" =>
     /\ reply[c] = "ok" => run[c] = "returned"
     /\ reply[c] \in T!Refusals => run[c] = "none"
     /\ reply[c] = "failed" => run[c] = "threw" \/ (run[c] = "returned" /\ writeLost[c])
     /\ reply[c] = "raised" => writeLost[c]
     /\ IF reply[c] \in {"unknown", "raised"} THEN trail[c] = {}
        ELSE \E p \in T!Auditing : T!ReplyAfter[p] = reply[c] /\ trail[c] = {T!EventOf[p]}

CallOK(c) == ClearedOK(c) /\ PhaseOK(c) /\ ToldOK(c)

ToolsInv == T!TypeOK /\ UniqueNames /\ \A c \in Calls : CallOK(c)

-----------------------------------------------------------------------------
LEMMA InitToolsInv == T!Init => ToolsInv
PROOF
<1> SUFFICES ASSUME T!Init PROVE ToolsInv  OBVIOUS
<1>1. T!TypeOK
  BY DEF T!Init, T!TypeOK
<1>2. UniqueNames
  <2>1. tools = T!DefaultTools
    BY DEF T!Init
  <2>2. \A t, u \in T!DefaultTools : t.name = u.name => t = u
    <3> DEFINE search == T!Tool("knowledge.search", "knowledge:read", FALSE)
               read == T!Tool("repo.read", "repo:read", FALSE)
               write == T!Tool("repo.write", "repo:write", TRUE)
               create == T!Tool("schedule.create", "schedule:create", TRUE)
               scan == T!Tool("security.scan", "security:scan", FALSE)
    <3>1. /\ search.name = "knowledge.search" /\ read.name = "repo.read"
          /\ write.name = "repo.write" /\ create.name = "schedule.create"
          /\ scan.name = "security.scan"
      BY DEF T!Tool
    <3>2. T!DefaultTools = {search, read, write, create, scan}
      BY DEF T!DefaultTools
    <3> HIDE DEF search, read, write, create, scan
    <3>3. QED  BY <3>1, <3>2
  <2>3. QED  BY <2>1, <2>2 DEF UniqueNames
<1>3. ASSUME NEW c \in Calls PROVE CallOK(c)
  BY <1>3 DEF T!Init, CallOK, ClearedOK, PhaseOK, ToldOK
<1>4. QED  BY <1>1, <1>2, <1>3 DEF ToolsInv

(* What an invocation's step leaves alone: the registry and the others.    *)
LEMMA OtherCallsKeepOK ==
  ASSUME NEW c, NEW d \in Calls, CallOK(d), d # c,
         tools' = tools, phase'[d] = phase[d], agent'[d] = agent[d],
         name'[d] = name[d], approved'[d] = approved[d], run'[d] = run[d],
         trail'[d] = trail[d], writeLost'[d] = writeLost[d], reply'[d] = reply[d]
  PROVE  CallOK(d)'
PROOF BY DEF CallOK, ClearedOK, PhaseOK, ToldOK

(* A tool that is added disturbs no clearance.                             *)
LEMMA RegisterKeeps ==
  ASSUME ToolsInv, NEW t \in MoreTools, T!Register(t)
  PROVE  ToolsInv'
PROOF
<1>1. T!TypeOK'
  BY DEF ToolsInv, T!TypeOK, T!Register
<1>2. UniqueNames'
  BY DEF ToolsInv, UniqueNames, T!Register
<1>3. ASSUME NEW c \in Calls PROVE CallOK(c)'
  <2>1. CallOK(c)
    BY DEF ToolsInv
  <2>2. ClearedOK(c)'
    BY <2>1 DEF CallOK, ClearedOK, T!Register
  <2>3. PhaseOK(c)' /\ ToldOK(c)'
    BY <2>1 DEF CallOK, PhaseOK, ToldOK, T!Register
  <2>4. QED  BY <2>2, <2>3 DEF CallOK
<1>4. QED  BY <1>1, <1>2, <1>3 DEF ToolsInv

LEMMA NamesKnown == ASSUME T!TypeOK, NEW t \in tools PROVE t.name \in T!Names
PROOF BY DEF T!TypeOK, T!Names

LEMMA InvokeUnknownKeeps ==
  ASSUME ToolsInv, NEW c \in Calls, NEW a \in T!AgentId, NEW n \in T!Names,
         NEW ok \in BOOLEAN,
         T!InvokeUnknown(c, a, n, ok)
  PROVE  ToolsInv'
PROOF
<1>1. T!TypeOK'
  BY DEF ToolsInv, T!TypeOK, T!InvokeUnknown, T!Settle, T!Replies
<1>2. UniqueNames'
  BY DEF ToolsInv, UniqueNames, T!InvokeUnknown
<1>3. ASSUME NEW d \in Calls PROVE CallOK(d)'
  <2>0. T!TypeOK /\ CallOK(d) /\ CallOK(c)
    BY DEF ToolsInv
  <2>1. CASE d = c
    BY <2>0, <2>1 DEF CallOK, ClearedOK, PhaseOK, ToldOK, T!InvokeUnknown, T!Settle,
       T!TypeOK, T!Refusals
  <2>2. CASE d # c
    BY <2>0, <2>2, OtherCallsKeepOK DEF T!InvokeUnknown, T!Settle, T!TypeOK
  <2>3. QED  BY <2>1, <2>2
<1>4. QED  BY <1>1, <1>2, <1>3 DEF ToolsInv

LEMMA InvokeKeeps ==
  ASSUME ToolsInv, NEW c \in Calls, NEW a \in T!AgentId, NEW n \in T!Names,
         NEW ok \in BOOLEAN,
         T!Invoke(c, a, n, ok)
  PROVE  ToolsInv'
PROOF
<1>0. PICK t \in tools :
        /\ t.name = n
        /\ phase' = [phase EXCEPT ![c] = T!Checked(a, t, ok)]
        /\ run' = [run EXCEPT ![c] =
                      IF T!Checked(a, t, ok) = "running" THEN "started" ELSE @]
  BY DEF T!Invoke
<1>a. T!Checked(a, t, ok) \in {"denying", "asking", "running"}
  BY DEF T!Checked
<1>b. T!Checked(a, t, ok) = "running" =>
        t.requiredPermission \in T!Permissions[a] /\ (t.stateChanging => ok)
  BY DEF T!Checked, T!Can
<1>1. T!TypeOK'
  <2>1. phase' \in [Calls -> {"idle", "running", "settled"} \cup T!Auditing]
    BY <1>0, <1>a DEF ToolsInv, T!TypeOK, T!Auditing
  <2>2. run' \in [Calls -> {"none", "started", "returned", "threw"}]
    BY <1>0 DEF ToolsInv, T!TypeOK
  <2>3. QED  BY <2>1, <2>2 DEF ToolsInv, T!TypeOK, T!Invoke
<1>2. UniqueNames'
  BY DEF ToolsInv, UniqueNames, T!Invoke
<1>3. ASSUME NEW d \in Calls PROVE CallOK(d)'
  <2>0. T!TypeOK /\ CallOK(d) /\ CallOK(c)
    BY DEF ToolsInv
  <2>1. CASE d = c
    <3>1. /\ phase'[c] = T!Checked(a, t, ok) /\ agent'[c] = a /\ name'[c] = n
          /\ approved'[c] = ok /\ tools' = tools /\ trail'[c] = trail[c]
          /\ run'[c] = IF T!Checked(a, t, ok) = "running" THEN "started" ELSE run[c]
      BY <1>0, <2>0 DEF T!TypeOK, T!Invoke
    <3>2. run[c] = "none" /\ trail[c] = {}
      BY <2>0 DEF CallOK, PhaseOK, T!Invoke
    <3>3. ClearedOK(c)'
      BY <1>0, <1>b, <3>1, <3>2 DEF ClearedOK
    <3>4. PhaseOK(c)' /\ ToldOK(c)'
      BY <1>a, <3>1, <3>2 DEF PhaseOK, ToldOK
    <3>5. QED  BY <2>1, <3>3, <3>4 DEF CallOK
  <2>2. CASE d # c
    BY <1>0, <2>0, <2>2, OtherCallsKeepOK DEF T!Invoke, T!TypeOK
  <2>3. QED  BY <2>1, <2>2
<1>4. QED  BY <1>1, <1>2, <1>3 DEF ToolsInv

(* The steps of an invocation that is under way.                           *)
Continue(c) ==
  \/ T!RunReturns(c) \/ T!RunThrows(c)
  \/ T!WriteReturns(c) \/ T!ReportThrows(c) \/ T!WriteThrows(c)

LEMMA ContinueKeeps ==
  ASSUME ToolsInv, NEW c \in Calls, Continue(c)
  PROVE  ToolsInv'
PROOF
<1>0. T!TypeOK /\ CallOK(c)
  BY DEF ToolsInv
<1>1. T!TypeOK'
  <2>1. CASE T!RunReturns(c)
    BY <1>0, <2>1 DEF T!TypeOK, T!RunReturns, T!Auditing
  <2>2. CASE T!RunThrows(c)
    BY <1>0, <2>2 DEF T!TypeOK, T!RunThrows, T!Auditing
  <2>3. CASE T!WriteReturns(c)
    <3>1. T!ReplyAfter[phase[c]] \in T!Replies
      BY <2>3 DEF T!WriteReturns, T!ReplyAfter, T!Auditing, T!Replies
    <3>2. T!EventOf[phase[c]] \in {T!EventOf[p] : p \in T!Auditing}
      BY <2>3 DEF T!WriteReturns
    <3>3. trail' \in [Calls -> SUBSET {T!EventOf[p] : p \in T!Auditing}]
      BY <1>0, <2>3, <3>2 DEF T!TypeOK, T!WriteReturns
    <3>4. QED  BY <1>0, <2>3, <3>1, <3>3 DEF T!TypeOK, T!WriteReturns, T!Settle
  <2>4. CASE T!ReportThrows(c)
    BY <1>0, <2>4 DEF T!TypeOK, T!ReportThrows, T!Auditing
  <2>5. CASE T!WriteThrows(c)
    BY <1>0, <2>5 DEF T!TypeOK, T!WriteThrows, T!Settle, T!Replies
  <2>6. QED  BY <2>1, <2>2, <2>3, <2>4, <2>5 DEF Continue
<1>2. /\ tools' = tools /\ agent' = agent /\ name' = name /\ approved' = approved
      /\ run[c] = "none" => run'[c] = "none"
      /\ run[c] # "none" => run'[c] # "none"
      /\ \A d \in Calls \ {c} :
            /\ phase'[d] = phase[d] /\ run'[d] = run[d] /\ trail'[d] = trail[d]
            /\ writeLost'[d] = writeLost[d] /\ reply'[d] = reply[d]
  BY <1>0 DEF T!TypeOK, CallOK, PhaseOK, Continue, T!RunReturns, T!RunThrows,
     T!WriteReturns, T!ReportThrows, T!WriteThrows, T!Settle
<1>3. UniqueNames'
  BY <1>2 DEF ToolsInv, UniqueNames
<1>4. ClearedOK(c)'
  BY <1>0, <1>2 DEF CallOK, ClearedOK
<1>5. PhaseOK(c)' /\ ToldOK(c)'
  <2>1. CASE T!RunReturns(c)
    BY <1>0, <2>1 DEF T!TypeOK, CallOK, PhaseOK, ToldOK, T!RunReturns
  <2>2. CASE T!RunThrows(c)
    BY <1>0, <2>2 DEF T!TypeOK, CallOK, PhaseOK, ToldOK, T!RunThrows
  <2>3. CASE T!WriteReturns(c)
    <3>1. /\ phase'[c] = "settled" /\ reply'[c] = T!ReplyAfter[phase[c]]
          /\ trail'[c] = {T!EventOf[phase[c]]}
          /\ run'[c] = run[c] /\ writeLost'[c] = writeLost[c] /\ phase[c] \in T!Auditing
      BY <1>0, <2>3 DEF T!TypeOK, CallOK, PhaseOK, T!WriteReturns, T!Settle, T!Auditing
    <3>2. CASE phase[c] \in {"denying", "asking"}
      BY <1>0, <3>1, <3>2 DEF CallOK, PhaseOK, ToldOK, T!ReplyAfter, T!Auditing, T!Refusals
    <3>3. CASE phase[c] = "reporting"
      BY <1>0, <3>1, <3>3 DEF CallOK, PhaseOK, ToldOK, T!ReplyAfter, T!Auditing, T!Refusals
    <3>4. CASE phase[c] = "excusing"
      BY <1>0, <3>1, <3>4 DEF CallOK, PhaseOK, ToldOK, T!ReplyAfter, T!Auditing, T!Refusals
    <3>5. QED  BY <3>1, <3>2, <3>3, <3>4 DEF T!Auditing
  <2>4. CASE T!ReportThrows(c)
    BY <1>0, <2>4 DEF T!TypeOK, CallOK, PhaseOK, ToldOK, T!ReportThrows
  <2>5. CASE T!WriteThrows(c)
    BY <1>0, <2>5 DEF T!TypeOK, CallOK, PhaseOK, ToldOK, T!WriteThrows, T!Settle, T!Refusals
  <2>6. QED  BY <2>1, <2>2, <2>3, <2>4, <2>5 DEF Continue
<1>6. ASSUME NEW d \in Calls, d # c PROVE CallOK(d)'
  <2>1. CallOK(d)
    BY DEF ToolsInv
  <2>2. QED  BY <1>2, <1>6, <2>1, OtherCallsKeepOK
<1>7. QED  BY <1>1, <1>3, <1>4, <1>5, <1>6 DEF ToolsInv, CallOK

LEMMA NextToolsInv == ToolsInv /\ [T!Next]_toolVars => ToolsInv'
PROOF
<1> SUFFICES ASSUME ToolsInv, [T!Next]_toolVars PROVE ToolsInv'  OBVIOUS
<1>1. CASE \E t \in MoreTools : T!Register(t)
  BY <1>1, RegisterKeeps
<1>2. CASE \E c \in Calls, a \in T!AgentId, n \in T!Names, ok \in BOOLEAN :
             T!InvokeUnknown(c, a, n, ok) \/ T!Invoke(c, a, n, ok)
  BY <1>2, InvokeUnknownKeeps, InvokeKeeps
<1>3. CASE \E c \in Calls : Continue(c)
  BY <1>3, ContinueKeeps
<1>4. CASE UNCHANGED toolVars
  BY <1>4 DEF toolVars, ToolsInv, T!TypeOK, UniqueNames, CallOK, ClearedOK, PhaseOK, ToldOK
<1>5. QED  BY <1>1, <1>2, <1>3, <1>4 DEF T!Next, Continue

(* The policy's steps leave the registry alone.                            *)
LEMMA ToolsInvariant == Spec => []ToolsInv
PROOF
<1>1. Init => T!Init
  BY DEF Init
<1>2. [Next]_vars => [T!Next]_toolVars
  BY DEF Next, vars
<1>3. QED  BY <1>1, <1>2, InitToolsInv, NextToolsInv, PTL DEF Spec

-----------------------------------------------------------------------------
(* Every variable of the registry and its invocations keeps its type.      *)
THEOREM ToolsTypeCorrect == Spec => []T!TypeOK
PROOF
<1>1. ToolsInv => T!TypeOK
  BY DEF ToolsInv
<1>2. QED  BY <1>1, ToolsInvariant, PTL

(* No tool runs without permission and, where it changes state, approval,  *)
(* whatever tools an integrator registers and when.                        *)
THEOREM EffectsCleared == Spec => []EffectIsCleared
PROOF
<1>1. ToolsInv => EffectIsCleared
  <2> SUFFICES ASSUME ToolsInv, NEW c \in Calls, run[c] # "none",
                      NEW t \in tools \cup T!DefaultTools, t.name = name[c]
               PROVE  t \in T!AvailableTo(agent[c]) /\ (t.stateChanging => approved[c])
    BY DEF EffectIsCleared, T!EffectIsCleared
  <2>1. t \in tools
    BY DEF ToolsInv, T!TypeOK
  <2>2. PICK u \in tools : /\ u.name = name[c]
                           /\ u.requiredPermission \in T!Permissions[agent[c]]
                           /\ u.stateChanging => approved[c]
    BY DEF ToolsInv, CallOK, ClearedOK
  <2>3. t = u
    BY <2>1, <2>2 DEF ToolsInv, UniqueNames
  <2>4. QED  BY <2>1, <2>2, <2>3 DEF T!AvailableTo, T!Can
<1>2. QED  BY <1>1, ToolsInvariant, PTL

(* The reply, the trail and what happened agree, however often audit       *)
(* writes and tools throw.                                                 *)
THEOREM OutcomesTold == Spec => []OutcomeIsTold
PROOF
<1>1. ToolsInv => OutcomeIsTold
  BY DEF ToolsInv, CallOK, ToldOK, OutcomeIsTold, T!OutcomeIsTold
<1>2. QED  BY <1>1, ToolsInvariant, PTL
-----------------------------------------------------------------------------

Reviewed(seq) ==
  /\ seq[Len(seq)] = "pharaoh"
  /\ \A i \in DOMAIN seq : seq[i] = "ra" =>
       \E j \in DOMAIN seq : i < j /\ seq[j] = "anubis-sentinel"

SelectedOK(u) ==
  /\ P!ActivatedFor(u) => TRUE \in seen[u]
  /\ ~P!ActivatedFor(u) => FALSE \in seen[u]
  /\ entry[u] # "none" => (entry[u] = "strategy.activated") \in seen[u]
  /\ entry[u] # "none" /\ seen[u] # BOOLEAN =>
       P!ActivatedFor(u) = (entry[u] = "strategy.activated")
  /\ Reviewed(sequence[u])

UseOK(u) ==
  /\ stage[u] \in {"idle", "authorizing"} => entry[u] = "none"
  /\ stage[u] \in {"authorizing", "authorized"} =>
       /\ strategy[u] \in Advanced
       /\ P!Open(environment, strategy[u]) \in seen[u]
       /\ verdict[u] \in seen[u]
  /\ stage[u] = "authorized" =>
       entry[u] = IF verdict[u] THEN "strategy.activated" ELSE "strategy.activation_refused"
  /\ stage[u] = "selected" => SelectedOK(u)

PolicyInv == P!TypeOK /\ \A u \in Users : UseOK(u)

-----------------------------------------------------------------------------
(* The early returns of evaluate test just the three conditions.           *)
LEMMA EvaluateTests ==
  ASSUME P!TypeOK, NEW s PROVE P!Evaluate(s) = P!Open(environment, s)
PROOF
<1>1. environment.enabled \in BOOLEAN /\ environment.validated \in BOOLEAN
  BY DEF P!TypeOK, P!Environments
<1>2. QED  BY <1>1 DEF P!Evaluate, P!Open

LEMMA OpenIsBoolean ==
  ASSUME NEW env \in P!Environments, NEW s PROVE P!Open(env, s) \in BOOLEAN
PROOF BY DEF P!Open

(* The four sequences: agents, reviewed, and the fallback like no other.   *)
LEMMA Sequences4 ==
  ASSUME NEW s
  PROVE  /\ P!ActivatedSequence(s) \in Seq(P!AgentId) /\ P!SafeFallback \in Seq(P!AgentId)
         /\ P!ActivatedSequence(s) # P!SafeFallback
         /\ Reviewed(P!ActivatedSequence(s)) /\ Reviewed(P!SafeFallback)
PROOF
<1> DEFINE debates == <<"pharaoh", "horus-nexus", "horus-nexus", "anubis-sentinel",
                        "anubis-sentinel", "pharaoh">>
           coalition == <<"pharaoh", "horus-nexus", "anubis-sentinel", "pharaoh">>
           aufheben == <<"pharaoh", "ra", "anubis-sentinel", "pharaoh", "horus-nexus",
                         "pharaoh">>
<1>1. P!ActivatedSequence(s) \in {debates, coalition, aufheben}
  BY DEF P!ActivatedSequence
<1>2. /\ Len(debates) = 6 /\ Len(coalition) = 4 /\ Len(aufheben) = 6
      /\ Len(P!SafeFallback) = 7
  BY DEF P!SafeFallback
<1>3. /\ debates \in Seq(P!AgentId) /\ coalition \in Seq(P!AgentId)
      /\ aufheben \in Seq(P!AgentId) /\ P!SafeFallback \in Seq(P!AgentId)
  BY DEF P!AgentId, P!SafeFallback
<1>4. Reviewed(debates)
  BY DEF Reviewed
<1>5. Reviewed(coalition)
  BY DEF Reviewed
<1>6. Reviewed(aufheben)
  <2>1. \A i \in DOMAIN aufheben : aufheben[i] = "ra" => i < 3
    OBVIOUS
  <2>2. 3 \in DOMAIN aufheben /\ aufheben[3] = "anubis-sentinel" /\ aufheben[6] = "pharaoh"
    OBVIOUS
  <2>3. QED  BY <1>2, <2>1, <2>2 DEF Reviewed
<1>7. Reviewed(P!SafeFallback)
  <2>1. \A i \in DOMAIN P!SafeFallback : P!SafeFallback[i] = "ra" => i < 6
    BY DEF P!SafeFallback
  <2>2. /\ 6 \in DOMAIN P!SafeFallback /\ P!SafeFallback[6] = "anubis-sentinel"
        /\ P!SafeFallback[7] = "pharaoh"
    BY DEF P!SafeFallback
  <2>3. QED  BY <1>2, <2>1, <2>2 DEF Reviewed
<1> HIDE DEF debates, coalition, aufheben
<1>8. P!ActivatedSequence(s) # P!SafeFallback
  BY <1>1, <1>2
<1>9. QED  BY <1>1, <1>3, <1>4, <1>5, <1>6, <1>7, <1>8

LEMMA SelectedIsOK ==
  ASSUME P!TypeOK, NEW s
  PROVE  /\ P!Selected(s) \in Seq(P!AgentId) /\ Reviewed(P!Selected(s))
         /\ P!Selected(s) # P!SafeFallback <=> P!Open(environment, s)
PROOF BY EvaluateTests, Sequences4 DEF P!Selected

LEMMA InitPolicyInv == P!Init => PolicyInv
PROOF
<1> SUFFICES ASSUME P!Init PROVE PolicyInv  OBVIOUS
<1>1. P!TypeOK
  BY DEF P!Init, P!TypeOK, P!Environments, P!Closed
<1>2. QED  BY <1>1 DEF P!Init, PolicyInv, UseOK

LEMMA OtherUsesKeepOK ==
  ASSUME NEW u, UseOK(u), environment' = environment, stage'[u] = stage[u],
         strategy'[u] = strategy[u], verdict'[u] = verdict[u], entry'[u] = entry[u],
         sequence'[u] = sequence[u], seen'[u] = seen[u]
  PROVE  UseOK(u)'
PROOF BY DEF UseOK, SelectedOK, P!ActivatedFor

LEMMA SetEnvironmentKeeps ==
  ASSUME PolicyInv, NEW env \in P!Environments, P!SetEnvironment(env)
  PROVE  PolicyInv'
PROOF
<1>1. \A u \in Users : P!Open(env, strategy[u]) \in BOOLEAN
  BY OpenIsBoolean
<1>2. P!TypeOK'
  BY <1>1 DEF PolicyInv, P!TypeOK, P!SetEnvironment
<1>3. ASSUME NEW u \in Users PROVE UseOK(u)'
  <2>1. UseOK(u)
    BY DEF PolicyInv
  <2>2. CASE stage[u] \in {"authorizing", "authorized"}
    BY <2>1, <2>2 DEF UseOK, P!SetEnvironment
  <2>3. CASE stage[u] \notin {"authorizing", "authorized"}
    BY <2>1, <2>3 DEF UseOK, SelectedOK, P!ActivatedFor, P!SetEnvironment
  <2>4. QED  BY <2>2, <2>3
<1>4. QED  BY <1>2, <1>3 DEF PolicyInv

LEMMA AuthorizeKeeps ==
  ASSUME PolicyInv, NEW u \in Users, NEW s \in Advanced, P!Authorize(u, s)
  PROVE  PolicyInv'
PROOF
<1>0. /\ P!TypeOK /\ P!Evaluate(s) = P!Open(environment, s)
      /\ P!Open(environment, s) \in BOOLEAN
  BY EvaluateTests, OpenIsBoolean DEF PolicyInv, P!TypeOK
<1>1. P!TypeOK'
  BY <1>0 DEF P!TypeOK, P!Authorize
<1>2. ASSUME NEW v \in Users PROVE UseOK(v)'
  <2>1. UseOK(v) /\ UseOK(u)
    BY DEF PolicyInv
  <2>2. CASE v = u
    BY <1>0, <2>1, <2>2 DEF UseOK, P!Authorize, P!TypeOK
  <2>3. CASE v # u
    BY <1>0, <2>1, <2>3, OtherUsesKeepOK DEF P!Authorize, P!TypeOK
  <2>4. QED  BY <2>2, <2>3
<1>3. QED  BY <1>1, <1>2 DEF PolicyInv

LEMMA DecisionKeeps ==
  ASSUME PolicyInv, NEW u \in Users, P!DecisionAudited(u) \/ P!AuditThrows(u)
  PROVE  PolicyInv'
PROOF
<1>0. P!TypeOK
  BY DEF PolicyInv
<1>1. P!TypeOK'
  BY <1>0 DEF P!TypeOK, P!DecisionAudited, P!AuditThrows, P!Entries
<1>2. ASSUME NEW v \in Users PROVE UseOK(v)'
  <2>1. UseOK(v) /\ UseOK(u)
    BY DEF PolicyInv
  <2>2. CASE v = u
    BY <1>0, <2>1, <2>2 DEF UseOK, P!DecisionAudited, P!AuditThrows, P!TypeOK
  <2>3. CASE v # u
    BY <1>0, <2>1, <2>3, OtherUsesKeepOK DEF P!DecisionAudited, P!AuditThrows, P!TypeOK
  <2>4. QED  BY <2>2, <2>3
<1>3. QED  BY <1>1, <1>2 DEF PolicyInv

LEMMA SelectUnaskedKeeps ==
  ASSUME PolicyInv, NEW u \in Users, NEW s \in Advanced, P!SelectUnasked(u, s)
  PROVE  PolicyInv'
PROOF
<1>0. /\ P!TypeOK /\ P!Open(environment, s) \in BOOLEAN
      /\ P!Selected(s) \in Seq(P!AgentId) /\ Reviewed(P!Selected(s))
      /\ P!Selected(s) # P!SafeFallback <=> P!Open(environment, s)
  BY SelectedIsOK, OpenIsBoolean DEF PolicyInv, P!TypeOK
<1>1. P!TypeOK'
  BY <1>0 DEF P!TypeOK, P!SelectUnasked
<1>2. ASSUME NEW v \in Users PROVE UseOK(v)'
  <2>1. UseOK(v) /\ UseOK(u)
    BY DEF PolicyInv
  <2>2. CASE v = u
    <3>1. /\ stage'[u] = "selected" /\ sequence'[u] = P!Selected(s)
          /\ seen'[u] = {P!Open(environment, s)} /\ entry'[u] = "none"
      BY <1>0, <2>1 DEF UseOK, P!SelectUnasked, P!TypeOK
    <3>2. SelectedOK(u)'
      BY <1>0, <3>1 DEF SelectedOK, P!ActivatedFor
    <3>3. QED  BY <2>2, <3>1, <3>2 DEF UseOK
  <2>3. CASE v # u
    BY <1>0, <2>1, <2>3, OtherUsesKeepOK DEF P!SelectUnasked, P!TypeOK
  <2>4. QED  BY <2>2, <2>3
<1>3. QED  BY <1>1, <1>2 DEF PolicyInv

LEMMA SelectAuthorizedKeeps ==
  ASSUME PolicyInv, NEW u \in Users, P!SelectAuthorized(u)
  PROVE  PolicyInv'
PROOF
<1> DEFINE open == P!Open(environment, strategy[u])
<1>0. /\ P!TypeOK /\ open \in BOOLEAN
      /\ P!Selected(strategy[u]) \in Seq(P!AgentId) /\ Reviewed(P!Selected(strategy[u]))
      /\ P!Selected(strategy[u]) # P!SafeFallback <=> open
  BY SelectedIsOK, OpenIsBoolean DEF PolicyInv, P!TypeOK
<1>1. P!TypeOK'
  BY <1>0 DEF P!TypeOK, P!SelectAuthorized
<1>2. ASSUME NEW v \in Users PROVE UseOK(v)'
  <2>1. UseOK(v) /\ UseOK(u)
    BY DEF PolicyInv
  <2>2. CASE v = u
    <3>1. /\ stage'[u] = "selected" /\ sequence'[u] = P!Selected(strategy[u])
          /\ seen'[u] = seen[u] /\ entry'[u] = entry[u] /\ stage[u] = "authorized"
      BY <1>0 DEF P!SelectAuthorized, P!TypeOK
    <3>2. /\ open \in seen[u] /\ verdict[u] \in seen[u] /\ verdict[u] \in BOOLEAN
          /\ entry[u] = IF verdict[u] THEN "strategy.activated"
                        ELSE "strategy.activation_refused"
          /\ seen[u] \in SUBSET BOOLEAN
      BY <1>0, <2>1, <3>1 DEF UseOK, P!TypeOK
    <3>3. (entry[u] = "strategy.activated") = verdict[u]
      BY <3>2
    <3>4. seen[u] # BOOLEAN => open = verdict[u]
      BY <1>0, <3>2
    <3>5. P!ActivatedFor(u)' = open
      BY <1>0, <3>1 DEF P!ActivatedFor
    <3> HIDE DEF open
    <3>6. SelectedOK(u)'
      BY <1>0, <3>1, <3>2, <3>3, <3>4, <3>5 DEF SelectedOK
    <3>7. QED  BY <2>2, <3>1, <3>6 DEF UseOK
  <2>3. CASE v # u
    BY <1>0, <2>1, <2>3, OtherUsesKeepOK DEF P!SelectAuthorized, P!TypeOK
  <2>4. QED  BY <2>2, <2>3
<1>3. QED  BY <1>1, <1>2 DEF PolicyInv

LEMMA NextPolicyInv == PolicyInv /\ [P!Next]_policyVars => PolicyInv'
PROOF
<1> SUFFICES ASSUME PolicyInv, [P!Next]_policyVars PROVE PolicyInv'  OBVIOUS
<1>1. CASE P!Next
  BY <1>1, SetEnvironmentKeeps, AuthorizeKeeps, DecisionKeeps, SelectUnaskedKeeps,
     SelectAuthorizedKeeps DEF P!Next
<1>2. CASE UNCHANGED policyVars
  BY <1>2 DEF policyVars, PolicyInv, P!TypeOK, UseOK, SelectedOK, P!ActivatedFor
<1>3. QED  BY <1>1, <1>2

(* The registry's steps leave the policy alone.                            *)
LEMMA PolicyInvariant == Spec => []PolicyInv
PROOF
<1>1. Init => P!Init
  BY DEF Init
<1>2. [Next]_vars => [P!Next]_policyVars
  BY DEF Next, vars
<1>3. QED  BY <1>1, <1>2, InitPolicyInv, NextPolicyInv, PTL DEF Spec

-----------------------------------------------------------------------------
(* Every variable of the policy and its uses keeps its type.               *)
THEOREM PolicyTypeCorrect == Spec => []P!TypeOK
PROOF
<1>1. PolicyInv => P!TypeOK
  BY DEF PolicyInv
<1>2. QED  BY <1>1, PolicyInvariant, PTL

(* The audit and the sequence handed out agree unless the environment      *)
(* changed in between, and no advanced sequence is handed out closed.      *)
THEOREM SelectionsAudited == Spec => []SelectionMatchesAudit
PROOF
<1>1. PolicyInv => SelectionMatchesAudit
  BY DEF PolicyInv, UseOK, SelectedOK, Reviewed, SelectionMatchesAudit,
     P!SelectionMatchesAudit
<1>2. QED  BY <1>1, PolicyInvariant, PTL
=============================================================================
