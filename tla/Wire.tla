-------------------------------- MODULE Wire --------------------------------
(***************************************************************************)
(* The Concierge over MtlsHttpTransport and the container servers.  A      *)
(* delivery is the current attempt of a request: it is sent, taken up by   *)
(* the server, run by the provider, replied to, and resolved by what       *)
(* reaches the client first, the reply, a socket error or the deadline.    *)
(* The server knows nothing of the deadline and goes on; what it then      *)
(* replies is dropped, while the Concierge may already try again.          *)
(*                                                                         *)
(* Each caller submits one request.                                        *)
(***************************************************************************)
EXTENDS Naturals, Sequences

CONSTANTS
  Callers, Classes, Registry, Serves, Tier, Retries,      \* of Concierge
  Core, Mode, Materials, Parsed, FromDevCa, IssuedLater,  \* of ContainerServer
  OtherVersion,  \* containers built for another protocol version
  Detours        \* what something on the way may answer instead of a container

VARIABLES healthy, phase, class, plan, untried, at, attempt, lastKind, failed

VARIABLES validity, loaded, running, ran

VARIABLES
  wire,   \* how the exchange of each caller's delivery stands
  reply   \* the HTTP reply under way to it

Failure(kind, retryable) == [kind |-> kind, retryable |-> retryable]

(* Replies by status; "garbage" is a 200 whose body is not JSON, "null"    *)
(* one whose body is JSON null.                                            *)
ServerReplies == {"200", "400", "502"}
Replies == ServerReplies \cup {"401", "403", "404", "500", "503", "garbage", "null"}

(* What deliver resolves with.  The bodies of a 404 or 500 are passed on   *)
(* as they are, with neither a kind nor retryable, and so is null.         *)
Response(x) ==
  IF x \in {"401", "403"} THEN Failure("unauthorized", FALSE)
  ELSE IF x = "503" THEN Failure("overloaded", TRUE)
  ELSE IF x = "garbage" THEN Failure("internal", TRUE)
  ELSE IF x = "400" THEN Failure("bad_request", FALSE)
  ELSE IF x = "502" THEN Failure("provider_error", TRUE)
  ELSE IF x = "null" THEN Failure("null", FALSE)
  ELSE Failure("undefined", FALSE)

TransportFailures ==
  {Response(x) : x \in Replies \ {"200"}}
    \cup {Failure("timeout", TRUE), Failure("internal", TRUE)}

G == INSTANCE Concierge WITH Failures <- TransportFailures, TransportThrows <- FALSE

S == INSTANCE ContainerServer WITH
       Containers <- G!Containers, Concierge <- Core,
       Deliveries <- Callers \X (1 .. Retries)

ASSUME RegistryAssumption ==
  /\ Registry \in Seq(G!Containers)
  /\ \A i, j \in DOMAIN Registry : Registry[i] = Registry[j] => i = j
ASSUME DescriptorAssumption ==
  /\ Serves \in [G!Containers -> SUBSET Classes]
  /\ Tier \in [G!Containers -> {"primary", "backup"}]
ASSUME RetriesAssumption == Retries \in Nat \ {0}
ASSUME PartiesAssumption == Core \notin G!Containers /\ "none" \notin Materials
ASSUME MaterialsAssumption ==
  FromDevCa \subseteq Parsed /\ Parsed \cup IssuedLater \subseteq Materials
ASSUME DetoursAssumption == Detours \subseteq Replies \ ServerReplies
ASSUME TransportFailsAsAssumed == TransportFailures \subseteq G!WireFailures

conciergeVars == <<healthy, phase, class, plan, untried, at, attempt, lastKind, failed>>
serverVars == <<validity, loaded, running, ran>>
vars == <<conciergeVars, serverVars, wire, reply>>

Init ==
  /\ G!Init
  /\ S!Init
  /\ wire = [r \in Callers |-> "none"]
  /\ reply = [r \in Callers |-> "none"]

(* The delivery under way.  Its correlation id is the request's, so it is  *)
(* the attempt that tells it from earlier ones at the same container.      *)
Delivery(r) == <<r, attempt[r]>>

-----------------------------------------------------------------------------
(* The client: deliver and its promise.                                    *)

(* What the Concierge did in this step decides whether it delivers again.  *)
NextExchange(r) ==
  /\ wire' = [wire EXCEPT ![r] = IF phase'[r] = "delivering" THEN "sent" ELSE "none"]
  /\ reply' = [reply EXCEPT ![r] = "none"]
  /\ UNCHANGED serverVars

Submit(r, cl) ==
  /\ phase[r] = "idle"
  /\ G!Submit(r, cl)
  /\ NextExchange(r)

ResolvesWith(r, failure) ==
  /\ \/ G!FailsFatally(r, failure)
     \/ G!FailsRetryably(r, failure)
     \/ G!FailsOver(r, failure)
  /\ NextExchange(r)

ReplyArrives(r) ==
  /\ wire[r] = "replied"
  /\ \/ reply[r] = "200" /\ G!Answers(r) /\ NextExchange(r)
     \/ reply[r] # "200" /\ ResolvesWith(r, Response(reply[r]))

(* Fault seed: nobody listens for the request's errors.                    *)
SocketErrorUnheard(r) ==
  /\ wire[r] = "broken"
  /\ UNCHANGED vars

(* The request's error event.                                              *)
SocketError(r) ==
  /\ wire[r] = "broken"
  /\ ResolvesWith(r, Failure("internal", TRUE))

(* Fault seed: the request is not destroyed, its reply may still arrive.   *)
DeadlinePassesUndestroyed(r) ==
  /\ wire[r] \in {"sent", "running", "replied"}
  /\ \/ G!FailsRetryably(r, Failure("timeout", TRUE))
     \/ G!FailsOver(r, Failure("timeout", TRUE))
  /\ UNCHANGED <<serverVars, wire, reply>>

(* Fault seed: the transport sends the request again by itself.            *)
DeadlinePassesResent(r) ==
  /\ wire[r] \in {"sent", "running", "replied"}
  /\ attempt[r] < Retries
  /\ attempt' = [attempt EXCEPT ![r] = @ + 1]
  /\ wire' = [wire EXCEPT ![r] = "sent"]
  /\ reply' = [reply EXCEPT ![r] = "none"]
  /\ UNCHANGED <<healthy, phase, class, plan, untried, at, lastKind, failed, serverVars>>

(* The socket is idle for deadlineMs: the request is destroyed.            *)
DeadlinePasses(r) ==
  /\ wire[r] \in {"sent", "running", "replied"}
  /\ ResolvesWith(r, Failure("timeout", TRUE))

-----------------------------------------------------------------------------
(* The network and the servers.                                            *)

NoConnection(r) ==
  /\ wire[r] = "sent"
  /\ S!MayFailToConnect(at[r])
  /\ wire' = [wire EXCEPT ![r] = "broken"]
  /\ UNCHANGED <<conciergeVars, serverVars, reply>>

Detour(r, x) ==
  /\ wire[r] = "sent"
  /\ wire' = [wire EXCEPT ![r] = "replied"]
  /\ reply' = [reply EXCEPT ![r] = x]
  /\ UNCHANGED <<conciergeVars, serverVars>>

RejectVersion(r) ==
  /\ wire[r] = "sent"
  /\ at[r] \in OtherVersion /\ S!MayConnect(at[r])
  /\ wire' = [wire EXCEPT ![r] = "replied"]
  /\ reply' = [reply EXCEPT ![r] = "400"]
  /\ UNCHANGED <<conciergeVars, serverVars>>

StartProvider(r) ==
  /\ wire[r] = "sent"
  /\ at[r] \notin OtherVersion /\ S!MayConnect(at[r])
  /\ S!Generate(at[r], Delivery(r))
  /\ wire' = [wire EXCEPT ![r] = "running"]
  /\ UNCHANGED <<conciergeVars, reply>>

Awaited(c, r, n) == wire[r] = "running" /\ at[r] = c /\ attempt[r] = n

(* The reply goes to who awaits it, or nowhere.                            *)
ProviderEnds(c, r, n, x) ==
  /\ S!Finish(c, <<r, n>>)
  /\ IF Awaited(c, r, n)
       THEN /\ wire' = [wire EXCEPT ![r] = "replied"]
            /\ reply' = [reply EXCEPT ![r] = x]
       ELSE UNCHANGED <<wire, reply>>
  /\ UNCHANGED conciergeVars

ConnectionBreaks(r) ==
  /\ wire[r] \in {"sent", "running", "replied"}
  /\ wire' = [wire EXCEPT ![r] = "broken"]
  /\ UNCHANGED <<conciergeVars, serverVars, reply>>

(* The connection closes inside the reply's body: neither end nor error.   *)
ReplyCutOff(r) ==
  /\ wire[r] = "replied"
  /\ wire' = [wire EXCEPT ![r] = "hung"]
  /\ UNCHANGED <<conciergeVars, serverVars, reply>>

ContainerCrashes(c) ==
  /\ S!Crash(c)
  /\ wire' = [r \in Callers |->
       IF wire[r] = "running" /\ at[r] = c THEN "broken" ELSE wire[r]]
  /\ UNCHANGED <<conciergeVars, reply>>

ContainerStarts(c) ==
  /\ \E source \in S!CertSources, m \in Materials : S!StartContainerServer(c, source, m)
  /\ UNCHANGED <<conciergeVars, wire, reply>>

TimePasses(m) ==
  /\ S!TimePasses(m)
  /\ UNCHANGED <<conciergeVars, wire, reply>>

-----------------------------------------------------------------------------
Resolve(r) == ReplyArrives(r) \/ SocketError(r) \/ DeadlinePasses(r)

Next ==
  \/ \E r \in Callers :
       \/ \E cl \in Classes : Submit(r, cl)
       \/ Resolve(r)
       \/ NoConnection(r)
       \/ \E x \in Detours : Detour(r, x)
       \/ RejectVersion(r)
       \/ StartProvider(r)
       \/ ConnectionBreaks(r)
       \/ ReplyCutOff(r)
  \/ \E c \in G!Containers :
       \/ \E r \in Callers, n \in 1 .. Retries, x \in {"200", "502"} :
            ProviderEnds(c, r, n, x)
       \/ ContainerCrashes(c)
       \/ ContainerStarts(c)
  \/ \E m \in Materials : TimePasses(m)

Spec == Init /\ [][Next]_vars

(* The client resolves its promise: node delivers what has arrived, and    *)
(* its socket timer fires.  Of containers and providers nothing is asked.  *)
FairSpec == Spec /\ \A r \in Callers : WF_vars(Resolve(r))

-----------------------------------------------------------------------------
TypeOK ==
  /\ G!TypeOK
  /\ S!TypeOK
  /\ wire \in [Callers -> {"none", "sent", "running", "replied", "broken", "hung"}]
  /\ reply \in [Callers -> {"none"} \cup Replies]
  /\ \A r \in Callers : wire[r] # "none" <=> phase[r] = "delivering"

(* The provider ran a request only for deliveries the Concierge has        *)
(* counted: those that failed there, and the one that answered or is under *)
(* way; so a request costs no more runs than it has failures, and one.     *)
(* An answer is the end of the very run it was awaited from, never of one  *)
(* that was given up.                                                      *)
WorkAccounted ==
  /\ \A c \in G!Containers : \A r \in Callers, n \in 1 .. Retries :
       <<r, n>> \in ran[c] =>
          n <= failed[r][c] \/ (at[r] = c /\ n = attempt[r])
  /\ \A r \in Callers : phase[r] = "answered" =>
       Delivery(r) \in ran[at[r]] \ running[at[r]]

(* A party in production never runs with development material, and a core  *)
(* in production has nothing run by a container that does, although that   *)
(* container's own mode may allow it.                                      *)
ProductionTrust ==
  /\ S!NoDevInProduction
  /\ Mode[Core] = "production" =>
       \A r \in Callers : wire[r] = "running" => loaded[at[r]] \in Materials \ FromDevCa

(* The Concierge over the wire is the one Concierge describes.             *)
ConciergeBehaves == G!Spec

(* A delivery resolves whatever containers and network do, unless its      *)
(* reply is cut off in the body: then it never does.                       *)
Resolves ==
  \A r \in Callers :
     phase[r] = "delivering" ~> (phase[r] # "delivering" \/ wire[r] = "hung")
=============================================================================
