----------------------------- MODULE Concierge ------------------------------
(***************************************************************************)
(* The Concierge, its Router and the ContainerRegistry: concurrent callers *)
(* ask for a model class; each request plans a route over the containers   *)
(* that are healthy at that moment, then delivers along the plan, retrying *)
(* and failing over.  The health flags are shared by all requests, a plan  *)
(* is not revised when they change.                                        *)
(*                                                                         *)
(* A step is the code from one answer of the transport to the next         *)
(* delivery.  A plan is the set of planned containers: their order, tier   *)
(* first and registration order within a tier, is Before.                  *)
(***************************************************************************)
EXTENDS Naturals, Sequences

CONSTANTS
  Callers,          \* who asks; each has at most one request under way
  Classes,          \* the model classes they ask for
  Registry,         \* the registered containers, in order
  Serves,           \* servesClasses of each container
  Tier,             \* "primary" or "backup"
  Retries,          \* retriesPerContainer
  Failures,         \* the structured failures containers may answer with
  TransportThrows   \* whether the transport may throw

Containers == {Registry[i] : i \in DOMAIN Registry}

(* What ends a request at once: the two kinds the Concierge surfaces, and  *)
(* a body of JSON null, at which reading "ok" throws a TypeError.          *)
FatalKinds == {"unauthorized", "bad_request", "null"}

(* What the transport turns replies into: HTTP 401/403, 503, unparseable   *)
(* bodies, deadlines and socket errors, the container server's own         *)
(* failures, a 404/500 body, which has neither kind nor retryable, and a   *)
(* body that is no object at all.                                          *)
WireFailures ==
  {[kind |-> "unauthorized", retryable |-> FALSE],
   [kind |-> "bad_request", retryable |-> FALSE],
   [kind |-> "overloaded", retryable |-> TRUE],
   [kind |-> "timeout", retryable |-> TRUE],
   [kind |-> "internal", retryable |-> TRUE],
   [kind |-> "provider_error", retryable |-> TRUE],
   [kind |-> "undefined", retryable |-> FALSE],
   [kind |-> "null", retryable |-> FALSE]}

Kinds == {f.kind : f \in WireFailures} \cup {"none", "transport", "no_route"}

ASSUME RegistryAssumption ==      \* register refuses a known id
  /\ Registry \in Seq(Containers)
  /\ \A i, j \in DOMAIN Registry : Registry[i] = Registry[j] => i = j
ASSUME DescriptorAssumption ==
  /\ Serves \in [Containers -> SUBSET Classes]
  /\ Tier \in [Containers -> {"primary", "backup"}]
ASSUME RetriesAssumption == Retries \in Nat \ {0}
ASSUME FailuresAssumption == Failures \subseteq WireFailures
ASSUME ThrowsAssumption == TransportThrows \in BOOLEAN

VARIABLES
  healthy,    \* the registry's health flags
  phase,      \* how each caller's request stands
  class,      \* the class it asks for
  plan,       \* the containers its route was planned over
  untried,    \* those not delivered to yet
  at,         \* the container it is delivering to
  attempt,    \* which attempt at that container is under way
  lastKind,   \* how the last attempt failed
  failed      \* history: failed attempts of the request at each container

vars == <<healthy, phase, class, plan, untried, at, attempt, lastKind, failed>>

Init ==
  /\ healthy = [c \in Containers |-> TRUE]
  /\ phase = [r \in Callers |-> "idle"]
  /\ class = [r \in Callers |-> "none"]
  /\ plan = [r \in Callers |-> {}]
  /\ untried = [r \in Callers |-> {}]
  /\ at = [r \in Callers |-> "none"]
  /\ attempt = [r \in Callers |-> 0]
  /\ lastKind = [r \in Callers |-> "none"]
  /\ failed = [r \in Callers |-> [c \in Containers |-> 0]]

-----------------------------------------------------------------------------
(* Registry and Router.                                                    *)

(* Fault seed: any healthy container will do.                              *)
ServingAnyClass(cl) == {c \in Containers : healthy[c]}

Serving(cl) == {c \in Containers : healthy[c] /\ cl \in Serves[c]}

(* Primaries go first; within a tier the registration order is kept.       *)
Before(c, d) ==
  \/ Tier[c] = "primary" /\ Tier[d] = "backup"
  \/ /\ Tier[c] = Tier[d]
     /\ \E i, j \in DOMAIN Registry : i < j /\ Registry[i] = c /\ Registry[j] = d

IsFirst(c, S) == c \in S /\ \A d \in S \ {c} : Before(c, d)

(* Fault seed: the mark is lost.                                           *)
MarkUnhealthyLost(c) == UNCHANGED healthy

MarkUnhealthy(c) == healthy' = [healthy EXCEPT ![c] = FALSE]

-----------------------------------------------------------------------------
(* Steps of Concierge.generate.                                            *)

Settle(r, how) == phase' = [phase EXCEPT ![r] = how]

(* Fault seed: any container of S will do.                                 *)
DeliverToAny(r, S) ==
  \E c \in S :
     /\ at' = [at EXCEPT ![r] = c]
     /\ untried' = [untried EXCEPT ![r] = S \ {c}]
     /\ attempt' = [attempt EXCEPT ![r] = 1]

(* The envelope goes to the first container of S, its first attempt.       *)
DeliverToFirst(r, S) ==
  \E c \in S :
     /\ IsFirst(c, S)
     /\ at' = [at EXCEPT ![r] = c]
     /\ untried' = [untried EXCEPT ![r] = S \ {c}]
     /\ attempt' = [attempt EXCEPT ![r] = 1]

(* Fault seed: the first container given up ends the request.              *)
MoveOnReportsAtOnce(r) ==
  Settle(r, "reported") /\ UNCHANGED <<at, untried, attempt>>

(* The container is given up: the next of the plan is tried, and when none *)
(* is left the failure is reported to the core.                            *)
MoveOn(r) ==
  IF untried[r] = {}
    THEN Settle(r, "reported") /\ UNCHANGED <<at, untried, attempt>>
    ELSE DeliverToFirst(r, untried[r]) /\ UNCHANGED phase

TryAgain(r) ==
  /\ attempt' = [attempt EXCEPT ![r] = @ + 1]
  /\ UNCHANGED <<at, untried, phase>>

Fails(r, kind) ==
  /\ phase[r] = "delivering"
  /\ lastKind' = [lastKind EXCEPT ![r] = kind]
  /\ failed' = [failed EXCEPT ![r][at[r]] = @ + 1]
  /\ UNCHANGED <<class, plan>>

(* A new request: the route is planned over what is healthy now.           *)
Submit(r, cl) ==
  /\ phase[r] # "delivering"
  /\ class' = [class EXCEPT ![r] = cl]
  /\ plan' = [plan EXCEPT ![r] = Serving(cl)]
  /\ failed' = [failed EXCEPT ![r] = [c \in Containers |-> 0]]
  /\ IF Serving(cl) = {}
       THEN /\ Settle(r, "reported")
            /\ lastKind' = [lastKind EXCEPT ![r] = "no_route"]
            /\ untried' = [untried EXCEPT ![r] = {}]
            /\ at' = [at EXCEPT ![r] = "none"]
            /\ attempt' = [attempt EXCEPT ![r] = 0]
       ELSE /\ Settle(r, "delivering")
            /\ lastKind' = [lastKind EXCEPT ![r] = "none"]
            /\ DeliverToFirst(r, Serving(cl))
  /\ UNCHANGED healthy

Answers(r) ==
  /\ phase[r] = "delivering"
  /\ Settle(r, "answered")
  /\ UNCHANGED <<healthy, class, plan, untried, at, attempt, lastKind, failed>>

(* Fault seed: one attempt too many.                                       *)
ThrowsOffByOne(r) ==
  /\ TransportThrows
  /\ Fails(r, "transport")
  /\ IF attempt[r] <= Retries THEN TryAgain(r) ELSE MoveOn(r)
  /\ UNCHANGED healthy

(* deliver throws: counted as an attempt, never as a health problem.       *)
Throws(r) ==
  /\ TransportThrows
  /\ Fails(r, "transport")
  /\ IF attempt[r] < Retries THEN TryAgain(r) ELSE MoveOn(r)
  /\ UNCHANGED healthy

(* Fault seed: a backup is tried after a refusal too.                      *)
FailsFatallyOver(r, failure) ==
  /\ failure.kind \in FatalKinds
  /\ Fails(r, failure.kind)
  /\ MarkUnhealthy(at[r])
  /\ MoveOn(r)

(* A fatal failure surfaces at once: no retry, no backup, no health lost.  *)
FailsFatally(r, failure) ==
  /\ failure.kind \in FatalKinds
  /\ Fails(r, failure.kind)
  /\ Settle(r, "refused")
  /\ UNCHANGED <<healthy, at, untried, attempt>>

(* Fault seed: attempts are not counted.                                   *)
WillRetrySameForever(r, failure) == failure.retryable

WillRetrySame(r, failure) == failure.retryable /\ attempt[r] < Retries

(* Fault seed: the first failure already costs the container its health.   *)
FailsRetryablyAndMarks(r, failure) ==
  /\ failure.kind \notin FatalKinds
  /\ WillRetrySame(r, failure)
  /\ Fails(r, failure.kind)
  /\ MarkUnhealthy(at[r])
  /\ TryAgain(r)

FailsRetryably(r, failure) ==
  /\ failure.kind \notin FatalKinds
  /\ WillRetrySame(r, failure)
  /\ Fails(r, failure.kind)
  /\ TryAgain(r)
  /\ UNCHANGED healthy

(* Fault seed: the loop is not left, the container is asked again.         *)
FailsOverStuck(r, failure) ==
  /\ failure.kind \notin FatalKinds
  /\ ~WillRetrySame(r, failure)
  /\ phase[r] = "delivering"
  /\ lastKind' = [lastKind EXCEPT ![r] = failure.kind]
  /\ MarkUnhealthy(at[r])
  /\ UNCHANGED <<phase, class, plan, untried, at, attempt, failed>>

FailsOver(r, failure) ==
  /\ failure.kind \notin FatalKinds
  /\ ~WillRetrySame(r, failure)
  /\ Fails(r, failure.kind)
  /\ MarkUnhealthy(at[r])
  /\ MoveOn(r)

-----------------------------------------------------------------------------
(* What the transport may answer to the delivery under way.                *)
Reply(r) ==
  \/ Answers(r)
  \/ Throws(r)
  \/ \E failure \in Failures :
        FailsFatally(r, failure) \/ FailsRetryably(r, failure) \/ FailsOver(r, failure)

Next ==
  \E r \in Callers :
     \/ \E cl \in Classes : Submit(r, cl)
     \/ Reply(r)

Spec == Init /\ [][Next]_vars

(* Every delivery is answered: the transport resolves at the end of a      *)
(* reply, on a socket error and when the socket is idle for the deadline.  *)
(* A reply cut off inside its body, with no error on the request, is not   *)
(* covered.                                                                *)
FairSpec == Spec /\ \A r \in Callers : WF_vars(Reply(r))

-----------------------------------------------------------------------------
Settled == {"answered", "refused", "reported"}

TypeOK ==
  /\ healthy \in [Containers -> BOOLEAN]
  /\ phase \in [Callers -> {"idle", "delivering"} \cup Settled]
  /\ class \in [Callers -> Classes \cup {"none"}]
  /\ plan \in [Callers -> SUBSET Containers]
  /\ untried \in [Callers -> SUBSET Containers]
  /\ at \in [Callers -> Containers \cup {"none"}]
  /\ attempt \in [Callers -> 0 .. Retries]
  /\ lastKind \in [Callers -> Kinds]
  /\ failed \in [Callers -> [Containers -> 0 .. Retries]]

(* Never a weaker model: whatever container holds a request, now or as its *)
(* answer, serves the class that was asked for, and so does every one that *)
(* may still be tried.                                                     *)
NoDowngrade ==
  \A r \in Callers :
     /\ \A c \in plan[r] : class[r] \in Serves[c]
     /\ phase[r] \in {"delivering", "answered", "refused"} =>
          at[r] \in plan[r] /\ class[r] \in Serves[at[r]]
     /\ untried[r] \subseteq plan[r]

Exhausted(r, c) == failed[r][c] = Retries \/ (failed[r][c] > 0 /\ ~healthy[c])

(* Tiers are respected: while a container holds a request, those planned   *)
(* and still untried come after it, and all others of the plan come before *)
(* it, so a backup is reached only when every planned primary is exhausted *)
(* for this request.                                                       *)
TierOrder ==
  \A r \in Callers : phase[r] \in {"delivering", "answered", "refused"} =>
     /\ at[r] \notin untried[r]
     /\ \A c \in untried[r] : Before(at[r], c) /\ failed[r][c] = 0
     /\ \A c \in plan[r] \ (untried[r] \cup {at[r]}) :
          Before(c, at[r]) /\ Exhausted(r, c)

(* A request reported to the core without a refusal tried every container  *)
(* its plan held and left each one exhausted; "no_route" means the plan    *)
(* held none.  What a report says last is never a refusal.                 *)
ReportIsHonest ==
  \A r \in Callers : phase[r] = "reported" =>
     /\ \A c \in plan[r] : Exhausted(r, c)
     /\ (lastKind[r] = "no_route") = (plan[r] = {})
     /\ lastKind[r] \notin FatalKinds

(* The attempt counter is the number of failures at the container plus the *)
(* delivery under way, so no container is delivered to more than Retries   *)
(* times for one request.                                                  *)
AttemptsBounded ==
  \A r \in Callers :
     phase[r] \in {"delivering", "answered"} =>
       attempt[r] \in 1 .. Retries /\ failed[r][at[r]] = attempt[r] - 1

(* A container loses its health only to a request that gave up on it, on   *)
(* its last attempt or on a failure that may not be retried; one request's *)
(* retryable failure never adds up with another's, and a fatal failure,    *)
(* which says nothing of the container, costs nothing.  It never gets its  *)
(* health back.                                                            *)
OutageEarned ==
  [][\A c \in Containers :
       /\ ~healthy[c] => ~healthy'[c]
       /\ healthy[c] /\ ~healthy'[c] =>
            \E r \in Callers :
               /\ phase[r] = "delivering" /\ at[r] = c
               /\ phase'[r] = "reported" \/ at'[r] # c
               /\ lastKind'[r] \notin FatalKinds
               /\ \/ attempt[r] = Retries
                  \/ [kind |-> lastKind'[r], retryable |-> FALSE] \in WireFailures
    ]_vars

(* A request that gives up on a container takes it out of service for all, *)
(* unless the last thing it saw there was a throw of the transport.        *)
GivingUpMarks ==
  [][\A r \in Callers :
       /\ phase[r] = "delivering"
       /\ phase'[r] = "reported" \/ (phase'[r] = "delivering" /\ at'[r] # at[r])
       /\ lastKind'[r] # "transport"
       => ~healthy'[at[r]]
    ]_vars

(* Every request is settled.                                               *)
Settles == \A r \in Callers : phase[r] = "delivering" ~> phase[r] \in Settled

D == INSTANCE DeliveryContract WITH
       standing <- [r \in Callers |-> IF phase[r] = "delivering" THEN "open" ELSE phase[r]],
       wanted <- class,
       candidates <- [r \in Callers |->
                        IF phase[r] \in {"idle", "reported"}
                          THEN {} ELSE untried[r] \cup {at[r]}]

(* The Concierge keeps the contract of a delivery.                         *)
KeepsContract == D!Contract

(* A container is marked unhealthy by the concierge after repeated         *)
(* failures: a request reported to the core leaves none of its plan in     *)
(* service.  The registry says so; a throw of the transport does not mark. *)
FailureMarksContainer ==
  \A r \in Callers : phase[r] = "reported" => \A c \in plan[r] : ~healthy[c]
=============================================================================
