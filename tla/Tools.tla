------------------------------- MODULE Tools --------------------------------
(***************************************************************************)
(* The ToolRegistry and its PermissionGuard.  An invocation is checked     *)
(* against the agent's permissions and, for a state-changing tool, against *)
(* the approval it carries; it is run, and its outcome is audited.  Every  *)
(* audit write is awaited and may fail, which is where an outcome and what *)
(* is said of it can part.                                                 *)
(***************************************************************************)
EXTENDS Agents

CONSTANTS
  Calls,      \* invocations that may be under way at the same time
  MoreTools,  \* tools an integrator may register besides the default ones
  Faults      \* what may throw: "audit", "run"

(* The permissions a tool asks for; what agents hold besides is left out.  *)
Permission == {"knowledge:read", "repo:read", "repo:write", "security:scan",
               "schedule:create"}

ToolDefinition ==
  [name : STRING, requiredPermission : Permission, stateChanging : BOOLEAN]

VARIABLES
  tools,      \* the registered tools
  phase,      \* where each invocation is; "settled" when it has ended
  agent,      \* the agent that invokes
  name,       \* the tool name it gives
  approved,   \* context.approvalGranted
  run,        \* history: whether tool.run was called, and how it ended
  trail,      \* the audit events of the invocation
  writeLost,  \* history: an audit write of it failed
  reply       \* what the caller gets; "raised" is an exception

vars == <<tools, phase, agent, name, approved, run, trail, writeLost, reply>>

Permissions ==
  [a \in AgentId |->
     IF a = "pharaoh" THEN {"knowledge:read"}
     ELSE IF a = "horus-nexus" THEN {"repo:read", "knowledge:read"}
     ELSE IF a = "anubis-sentinel" THEN {"repo:read", "knowledge:read", "security:scan"}
     ELSE {"repo:read", "repo:write", "knowledge:read", "schedule:create"}]

Tool(n, permission, changes) ==
  [name |-> n, requiredPermission |-> permission, stateChanging |-> changes]

DefaultTools ==
  {Tool("knowledge.search", "knowledge:read", FALSE),
   Tool("repo.read", "repo:read", FALSE),
   Tool("repo.write", "repo:write", TRUE),
   Tool("schedule.create", "schedule:create", TRUE),
   Tool("security.scan", "security:scan", FALSE)}

(* createHarpSystem registers the default tools before anything else.      *)
Init ==
  /\ tools = DefaultTools
  /\ phase = [c \in Calls |-> "idle"]
  /\ agent = [c \in Calls |-> "none"]
  /\ name = [c \in Calls |-> "none"]
  /\ approved = [c \in Calls |-> FALSE]
  /\ run = [c \in Calls |-> "none"]
  /\ trail = [c \in Calls |-> {}]
  /\ writeLost = [c \in Calls |-> FALSE]
  /\ reply = [c \in Calls |-> "none"]

Names == {t.name : t \in DefaultTools \cup MoreTools}

Can(a, permission) == permission \in Permissions[a]

AvailableTo(a) == {t \in tools : Can(a, t.requiredPermission)}

(* Fault seed: a tool replaces one of the same name.                       *)
RegisterReplaces(t) ==
  /\ tools' = {u \in tools : u.name # t.name} \cup {t}
  /\ UNCHANGED <<phase, agent, name, approved, run, trail, writeLost, reply>>

(* A name that is taken is refused.                                        *)
Register(t) ==
  /\ \A u \in tools : u.name # t.name
  /\ tools' = tools \cup {t}
  /\ UNCHANGED <<phase, agent, name, approved, run, trail, writeLost, reply>>

Settle(c, how) ==
  /\ phase' = [phase EXCEPT ![c] = "settled"]
  /\ reply' = [reply EXCEPT ![c] = how]

InvokeUnknown(c, a, n, ok) ==
  /\ phase[c] = "idle"
  /\ \A t \in tools : t.name # n
  /\ agent' = [agent EXCEPT ![c] = a]
  /\ name' = [name EXCEPT ![c] = n]
  /\ approved' = [approved EXCEPT ![c] = ok]
  /\ Settle(c, "unknown")
  /\ UNCHANGED <<tools, run, trail, writeLost>>

(* What the two checks let an invocation do next: have its denial or its   *)
(* want of approval audited, or run.                                       *)
Checked(a, t, ok) ==
  IF ~Can(a, t.requiredPermission) THEN "denying"
  ELSE IF t.stateChanging /\ ~ok THEN "asking"
  ELSE "running"

Invoke(c, a, n, ok) ==
  /\ phase[c] = "idle"
  /\ \E t \in tools :
       /\ t.name = n
       /\ phase' = [phase EXCEPT ![c] = Checked(a, t, ok)]
       /\ run' = [run EXCEPT ![c] = IF Checked(a, t, ok) = "running" THEN "started" ELSE @]
  /\ agent' = [agent EXCEPT ![c] = a]
  /\ name' = [name EXCEPT ![c] = n]
  /\ approved' = [approved EXCEPT ![c] = ok]
  /\ UNCHANGED <<tools, trail, writeLost, reply>>

RunReturns(c) ==
  /\ phase[c] = "running"
  /\ run' = [run EXCEPT ![c] = "returned"]
  /\ phase' = [phase EXCEPT ![c] = "reporting"]
  /\ UNCHANGED <<tools, agent, name, approved, trail, writeLost, reply>>

RunThrows(c) ==
  /\ "run" \in Faults
  /\ phase[c] = "running"
  /\ run' = [run EXCEPT ![c] = "threw"]
  /\ phase' = [phase EXCEPT ![c] = "excusing"]
  /\ UNCHANGED <<tools, agent, name, approved, trail, writeLost, reply>>

(* The event each awaited write adds, and the reply that follows it.       *)
Auditing == {"denying", "asking", "reporting", "excusing"}

EventOf == [p \in Auditing |->
  IF p = "denying" THEN "tool.permission_denied"
  ELSE IF p = "asking" THEN "tool.approval_required"
  ELSE IF p = "reporting" THEN "tool.invoked" ELSE "tool.failed"]

ReplyAfter == [p \in Auditing |->
  IF p = "denying" THEN "denied"
  ELSE IF p = "asking" THEN "approval required"
  ELSE IF p = "reporting" THEN "ok" ELSE "failed"]

WriteReturns(c) ==
  /\ phase[c] \in Auditing
  /\ trail' = [trail EXCEPT ![c] = @ \cup {EventOf[phase[c]]}]
  /\ Settle(c, ReplyAfter[phase[c]])
  /\ UNCHANGED <<tools, agent, name, approved, run, writeLost>>

(* Fault seed: a lost report of a run is passed over.                    *)
ReportThrowsSilently(c) ==
  /\ "audit" \in Faults
  /\ phase[c] = "reporting"
  /\ writeLost' = [writeLost EXCEPT ![c] = TRUE]
  /\ Settle(c, "ok")
  /\ UNCHANGED <<tools, agent, name, approved, run, trail>>

(* Only the write after a run is inside the try: the catch audits again.   *)
ReportThrows(c) ==
  /\ "audit" \in Faults
  /\ phase[c] = "reporting"
  /\ phase' = [phase EXCEPT ![c] = "excusing"]
  /\ writeLost' = [writeLost EXCEPT ![c] = TRUE]
  /\ UNCHANGED <<tools, agent, name, approved, run, trail, reply>>

WriteThrows(c) ==
  /\ "audit" \in Faults
  /\ phase[c] \in {"denying", "asking", "excusing"}
  /\ writeLost' = [writeLost EXCEPT ![c] = TRUE]
  /\ Settle(c, "raised")
  /\ UNCHANGED <<tools, agent, name, approved, run, trail>>

Next ==
  \/ \E t \in MoreTools : Register(t)
  \/ \E c \in Calls :
       \/ \E a \in AgentId, n \in Names, ok \in BOOLEAN :
            InvokeUnknown(c, a, n, ok) \/ Invoke(c, a, n, ok)
       \/ RunReturns(c)
       \/ RunThrows(c)
       \/ WriteReturns(c)
       \/ ReportThrows(c)
       \/ WriteThrows(c)

Spec == Init /\ [][Next]_vars

-----------------------------------------------------------------------------
Replies == {"unknown", "denied", "approval required", "ok", "failed", "raised"}

TypeOK ==
  /\ DefaultTools \subseteq tools /\ tools \subseteq DefaultTools \cup MoreTools
  /\ phase \in [Calls -> {"idle", "running", "settled"} \cup Auditing]
  /\ agent \in [Calls -> AgentId \cup {"none"}]
  /\ name \in [Calls -> Names \cup {"none"}]
  /\ approved \in [Calls -> BOOLEAN]
  /\ run \in [Calls -> {"none", "started", "returned", "threw"}]
  /\ trail \in [Calls -> SUBSET {EventOf[p] : p \in Auditing}]
  /\ writeLost \in [Calls -> BOOLEAN]
  /\ reply \in [Calls -> {"none"} \cup Replies]

(* A tool that has run, whatever was registered before or since, was       *)
(* available to its agent, and approved if anything by that name changes   *)
(* state: no registration weakens or replaces a tool that is guarded.      *)
EffectIsCleared ==
  \A c \in Calls : run[c] # "none" =>
     \A t \in tools \cup DefaultTools : t.name = name[c] =>
        /\ t \in AvailableTo(agent[c])
        /\ t.stateChanging => approved[c]

Refusals == {"unknown", "denied", "approval required"}

(* What the caller is told, what the trail says and what happened agree:   *)
(* ok means the tool returned, a refusal that it never ran, and the one    *)
(* event is the reply's.  Only a lost audit write makes a tool that        *)
(* returned a failed one, or lets an exception out; and then the trail has *)
(* nothing, not even of a tool that ran.                                   *)
OutcomeIsTold ==
  \A c \in Calls : phase[c] = "settled" =>
     /\ reply[c] = "ok" => run[c] = "returned"
     /\ reply[c] \in Refusals => run[c] = "none"
     /\ reply[c] = "failed" => run[c] = "threw" \/ (run[c] = "returned" /\ writeLost[c])
     /\ reply[c] = "raised" => writeLost[c]
     /\ IF reply[c] \in {"unknown", "raised"} THEN trail[c] = {}
        ELSE \E p \in Auditing : ReplyAfter[p] = reply[c] /\ trail[c] = {EventOf[p]}
=============================================================================
