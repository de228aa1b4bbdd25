-------------------------- MODULE ConciergeProofs ---------------------------
(***************************************************************************)
(* The Concierge's type correctness and its routing invariants, for every  *)
(* set of callers and classes, every registry and every retry count.       *)
(***************************************************************************)
EXTENDS Concierge, TLAPS

(* The routing invariants of one caller's request.                         *)
RouteOK(r) ==
  /\ \A c \in plan[r] : class[r] \in Serves[c]
  /\ untried[r] \subseteq plan[r]
  /\ phase[r] \in {"delivering", "answered", "refused"} =>
       /\ at[r] \in plan[r] /\ at[r] \notin untried[r]
       /\ \A c \in untried[r] : Before(at[r], c) /\ failed[r][c] = 0
       /\ \A c \in plan[r] \ (untried[r] \cup {at[r]}) :
            Before(c, at[r]) /\ Exhausted(r, c)
  /\ phase[r] \in {"delivering", "answered"} =>
       attempt[r] \in 1 .. Retries /\ failed[r][at[r]] = attempt[r] - 1
  /\ phase[r] = "reported" =>
       /\ \A c \in plan[r] : Exhausted(r, c)
       /\ (lastKind[r] = "no_route") = (plan[r] = {})
       /\ lastKind[r] \notin FatalKinds

(* The inductive invariant: the routing invariants need each other (a      *)
(* container still untried has no failures, so its attempts start at one)  *)
(* and the bound on failed in TypeOK needs them.                           *)
IInv == TypeOK /\ \A r \in Callers : RouteOK(r)

-----------------------------------------------------------------------------
(* Route order is transitive: tiers first, then the registry's order,      *)
(* in which no container has two places.                                   *)
LEMMA BeforeTransitive ==
  ASSUME NEW a \in Containers, NEW b \in Containers, NEW c \in Containers,
         Before(a, b), Before(b, c)
  PROVE  Before(a, c)
<1>0. /\ DOMAIN Registry = 1 .. Len(Registry) /\ Len(Registry) \in Nat
      /\ Tier[a] \in {"primary", "backup"} /\ Tier[b] \in {"primary", "backup"}
      /\ Tier[c] \in {"primary", "backup"}
  BY RegistryAssumption, DescriptorAssumption
<1>1. CASE Tier[a] = Tier[b] /\ Tier[b] = Tier[c]
  <2>1. PICK i, j \in DOMAIN Registry : i < j /\ Registry[i] = a /\ Registry[j] = b
    BY <1>1 DEF Before
  <2>2. PICK k, l \in DOMAIN Registry : k < l /\ Registry[k] = b /\ Registry[l] = c
    BY <1>1 DEF Before
  <2>3. j = k
    BY <2>1, <2>2, RegistryAssumption
  <2>4. i < l
    BY <1>0, <2>1, <2>2, <2>3
  <2> QED BY <1>1, <2>1, <2>2, <2>4 DEF Before
<1>2. CASE ~(Tier[a] = Tier[b] /\ Tier[b] = Tier[c])
  BY <1>0, <1>2 DEF Before
<1> QED BY <1>1, <1>2

LEMMA InitIInv == Init => IInv
<1> SUFFICES ASSUME Init PROVE IInv
  OBVIOUS
<1>1. TypeOK
  BY RetriesAssumption DEF Init, TypeOK, Settled, Kinds
<1>2. ASSUME NEW r \in Callers PROVE RouteOK(r)
  BY DEF Init, RouteOK
<1> QED BY <1>1, <1>2 DEF IInv

(* What a step leaves alone for a caller that takes no part in it: health  *)
(* only falls, so an exhausted container stays exhausted.                  *)
LEMMA OthersKeepRoute ==
  ASSUME TypeOK, NEW r \in Callers, RouteOK(r),
         \A c \in Containers : ~healthy[c] => ~healthy'[c],
         phase'[r] = phase[r], class'[r] = class[r], plan'[r] = plan[r],
         untried'[r] = untried[r], at'[r] = at[r], attempt'[r] = attempt[r],
         lastKind'[r] = lastKind[r], failed'[r] = failed[r]
  PROVE  RouteOK(r)'
<1>1. plan[r] \subseteq Containers
  BY DEF TypeOK
<1>2. \A c \in plan[r] : Exhausted(r, c) => Exhausted(r, c)'
  BY <1>1 DEF Exhausted
<1>3. \A c, d \in Containers : Before(c, d)' = Before(c, d)
  BY DEF Before
<1> QED BY <1>1, <1>2 DEF RouteOK, Before

-----------------------------------------------------------------------------
(* A failed attempt: what Fails does to the history of the request.        *)
LEMMA FailsCounts ==
  ASSUME TypeOK, NEW r \in Callers, RouteOK(r), NEW kind \in Kinds, Fails(r, kind)
  PROVE  /\ phase[r] = "delivering"
         /\ at[r] \in Containers /\ at[r] \in plan[r]
         /\ attempt[r] \in 1 .. Retries
         /\ lastKind' \in [Callers -> Kinds] /\ lastKind'[r] = kind
         /\ failed' \in [Callers -> [Containers -> 0 .. Retries]]
         /\ failed'[r][at[r]] = attempt[r]
         /\ \A c \in Containers \ {at[r]} : failed'[r][c] = failed[r][c]
         /\ class' = class /\ plan' = plan
         /\ \A o \in Callers \ {r} :
              failed'[o] = failed[o] /\ lastKind'[o] = lastKind[o]
<1>1. phase[r] = "delivering" /\ at[r] \in plan[r] /\ at[r] \in Containers
  BY DEF Fails, RouteOK, TypeOK
<1>2. attempt[r] \in 1 .. Retries /\ failed[r][at[r]] = attempt[r] - 1
  BY <1>1 DEF RouteOK
<1>3. failed' = [failed EXCEPT ![r] = [failed[r] EXCEPT ![at[r]] = failed[r][at[r]] + 1]]
  BY DEF Fails
<1>4. failed[r] \in [Containers -> 0 .. Retries]
  BY DEF TypeOK
<1>5. [failed[r] EXCEPT ![at[r]] = failed[r][at[r]] + 1] \in [Containers -> 0 .. Retries]
  BY <1>1, <1>2, <1>4, RetriesAssumption
<1>6. failed' \in [Callers -> [Containers -> 0 .. Retries]]
  BY <1>3, <1>5 DEF TypeOK
<1>7. /\ failed'[r] = [failed[r] EXCEPT ![at[r]] = failed[r][at[r]] + 1]
      /\ \A o \in Callers \ {r} : failed'[o] = failed[o]
  BY <1>3 DEF TypeOK
<1>8. /\ failed'[r][at[r]] = attempt[r]
      /\ \A c \in Containers \ {at[r]} : failed'[r][c] = failed[r][c]
  BY <1>1, <1>2, <1>4, <1>7, RetriesAssumption
<1>9. lastKind' \in [Callers -> Kinds] /\ lastKind'[r] = kind
      /\ \A o \in Callers \ {r} : lastKind'[o] = lastKind[o]
  BY DEF Fails, TypeOK
<1> QED BY <1>1, <1>2, <1>6, <1>7, <1>8, <1>9 DEF Fails

(* Retrying the container keeps the invariants of the request.             *)
LEMMA TryAgainKeepsRoute ==
  ASSUME TypeOK, NEW r \in Callers, RouteOK(r), NEW kind \in Kinds, Fails(r, kind),
         attempt[r] < Retries, TryAgain(r), UNCHANGED healthy
  PROVE  TypeOK' /\ \A o \in Callers : RouteOK(o) => RouteOK(o)'
<1>1. attempt' \in [Callers -> 0 .. Retries] /\ attempt'[r] = attempt[r] + 1
      /\ \A o \in Callers \ {r} : attempt'[o] = attempt[o]
  BY RetriesAssumption DEF TryAgain, TypeOK
<1>2. TypeOK'
  BY <1>1, FailsCounts DEF TypeOK, TryAgain
<1>3. RouteOK(r)'
  <2>1. plan[r] \subseteq Containers /\ untried[r] \subseteq plan[r]
        /\ at[r] \notin untried[r]
    BY FailsCounts DEF TypeOK, RouteOK
  <2>2. \A c \in plan[r] \ {at[r]} : Exhausted(r, c) => Exhausted(r, c)'
    BY <2>1, FailsCounts DEF Exhausted
  <2>3. attempt'[r] \in 1 .. Retries /\ failed'[r][at[r]] = attempt'[r] - 1
    BY <1>1, FailsCounts, RetriesAssumption
  <2>4. phase'[r] = "delivering" /\ at' = at /\ untried' = untried
    BY FailsCounts DEF TryAgain
  <2> QED BY <2>1, <2>2, <2>3, <2>4, FailsCounts DEF RouteOK, Before
<1>4. ASSUME NEW o \in Callers \ {r}, RouteOK(o) PROVE RouteOK(o)'
  BY <1>1, <1>4, FailsCounts, OthersKeepRoute DEF TryAgain
<1> QED BY <1>2, <1>3, <1>4

(* Moving on from an exhausted container keeps them too.                   *)
LEMMA MoveOnKeepsRoute ==
  ASSUME TypeOK, NEW r \in Callers, RouteOK(r),
         NEW kind \in Kinds \ ({"no_route"} \cup FatalKinds), Fails(r, kind),
         healthy' \in [Containers -> BOOLEAN],
         \A c \in Containers : ~healthy[c] => ~healthy'[c],
         failed'[r][at[r]] = Retries \/ ~healthy'[at[r]], MoveOn(r)
  PROVE  TypeOK' /\ \A o \in Callers : RouteOK(o) => RouteOK(o)'
<1> USE RetriesAssumption
<1>0. /\ plan[r] \subseteq Containers /\ untried[r] \subseteq plan[r]
      /\ at[r] \notin untried[r] /\ at[r] \in plan[r]
      /\ \A c \in untried[r] : Before(at[r], c) /\ failed[r][c] = 0
      /\ \A c \in plan[r] \ (untried[r] \cup {at[r]}) :
            Before(c, at[r]) /\ Exhausted(r, c)
  BY FailsCounts DEF TypeOK, RouteOK
<1>1. /\ \A c \in plan[r] \ {at[r]} : Exhausted(r, c) => Exhausted(r, c)'
      /\ \A c \in plan[r] : c = at[r] => Exhausted(r, c)'
  BY <1>0, FailsCounts DEF Exhausted
<1>2. CASE untried[r] = {}
  <2>1. /\ phase' \in [Callers -> {"idle", "delivering"} \cup Settled]
        /\ phase'[r] = "reported"
        /\ \A o \in Callers \ {r} : phase'[o] = phase[o]
        /\ UNCHANGED <<at, untried, attempt>>
    BY <1>2 DEF MoveOn, Settle, TypeOK, Settled
  <2>2. TypeOK'
    BY <2>1, FailsCounts DEF TypeOK
  <2>3. RouteOK(r)'
    BY <1>0, <1>1, <1>2, <2>1, FailsCounts DEF RouteOK
  <2>4. ASSUME NEW o \in Callers \ {r}, RouteOK(o) PROVE RouteOK(o)'
    BY <2>1, <2>4, FailsCounts, OthersKeepRoute
  <2> QED BY <2>2, <2>3, <2>4
<1>3. CASE untried[r] # {}
  <2>1. PICK c \in untried[r] :
          /\ IsFirst(c, untried[r])
          /\ at' = [at EXCEPT ![r] = c]
          /\ untried' = [untried EXCEPT ![r] = untried[r] \ {c}]
          /\ attempt' = [attempt EXCEPT ![r] = 1]
    BY <1>3 DEF MoveOn, DeliverToFirst
  <2>2. phase' = phase
    BY <1>3 DEF MoveOn
  <2>3. /\ c \in Containers /\ c \in plan[r]
        /\ at'[r] = c /\ untried'[r] = untried[r] \ {c} /\ attempt'[r] = 1
        /\ \A o \in Callers \ {r} : at'[o] = at[o] /\ untried'[o] = untried[o]
                                    /\ attempt'[o] = attempt[o]
    BY <1>0, <2>1 DEF TypeOK
  <2>4. TypeOK'
    <3>1. /\ at' \in [Callers -> Containers \cup {"none"}]
          /\ untried' \in [Callers -> SUBSET Containers]
          /\ attempt' \in [Callers -> 0 .. Retries]
      BY <2>1, <2>3 DEF TypeOK
    <3> QED BY <3>1, <2>2, FailsCounts DEF TypeOK
  <2>5. RouteOK(r)'
    <3>1. \A d \in untried'[r] : Before(c, d) /\ failed'[r][d] = 0
      BY <1>0, <2>1, <2>3, FailsCounts DEF IsFirst
    <3>2. \A d \in plan[r] \ (untried'[r] \cup {c}) : Before(d, c) /\ Exhausted(r, d)'
      <4>1. ASSUME NEW d \in plan[r] \ (untried'[r] \cup {c}), d # at[r]
            PROVE  Before(d, c) /\ Exhausted(r, d)'
        <5>1. Before(d, at[r]) /\ Exhausted(r, d)
          BY <1>0, <2>3, <4>1
        <5>2. Before(at[r], c)
          BY <1>0, <2>1
        <5> QED BY <5>1, <5>2, <1>0, <1>1, <2>3, <4>1, BeforeTransitive
      <4>2. ASSUME NEW d \in plan[r], d = at[r]
            PROVE  Before(d, c) /\ Exhausted(r, d)'
        BY <1>0, <1>1, <2>1, <4>2
      <4> QED BY <4>1, <4>2
    <3>3. failed'[r][c] = 0
      BY <1>0, <2>3, FailsCounts
    <3> QED BY <1>0, <2>2, <2>3, <3>1, <3>2, <3>3, FailsCounts DEF RouteOK, Before
  <2>6. ASSUME NEW o \in Callers \ {r}, RouteOK(o) PROVE RouteOK(o)'
    BY <2>2, <2>3, <2>6, FailsCounts, OthersKeepRoute
  <2> QED BY <2>4, <2>5, <2>6
<1> QED BY <1>2, <1>3

-----------------------------------------------------------------------------
(* A new request starts with a plan nobody has tried, in Before's order.   *)
LEMMA SubmitKeeps ==
  ASSUME IInv, NEW r \in Callers, NEW cl \in Classes, Submit(r, cl)
  PROVE  IInv'
<1> USE RetriesAssumption
<1>0. TypeOK /\ \A o \in Callers : RouteOK(o)
  BY DEF IInv
<1>1. /\ Serving(cl) \subseteq Containers
      /\ \A c \in Serving(cl) : cl \in Serves[c]
  BY DEF Serving
<1>2. /\ class' \in [Callers -> Classes \cup {"none"}] /\ class'[r] = cl
      /\ plan' \in [Callers -> SUBSET Containers] /\ plan'[r] = Serving(cl)
      /\ failed' \in [Callers -> [Containers -> 0 .. Retries]]
      /\ \A c \in Containers : failed'[r][c] = 0
      /\ \A o \in Callers \ {r} :
           class'[o] = class[o] /\ plan'[o] = plan[o] /\ failed'[o] = failed[o]
      /\ healthy' = healthy
  BY <1>0, <1>1 DEF Submit, TypeOK
<1>3. CASE Serving(cl) = {}
  <2>0. "no_route" \in Kinds /\ 0 \in 0 .. Retries
    BY DEF Kinds
  <2>a. /\ phase' = [phase EXCEPT ![r] = "reported"]
        /\ lastKind' = [lastKind EXCEPT ![r] = "no_route"]
        /\ untried' = [untried EXCEPT ![r] = {}]
        /\ at' = [at EXCEPT ![r] = "none"]
        /\ attempt' = [attempt EXCEPT ![r] = 0]
    BY <1>3 DEF Submit, Settle
  <2>1. /\ phase' \in [Callers -> {"idle", "delivering"} \cup Settled]
        /\ phase'[r] = "reported"
        /\ lastKind' \in [Callers -> Kinds] /\ lastKind'[r] = "no_route"
        /\ untried' \in [Callers -> SUBSET Containers] /\ untried'[r] = {}
        /\ at' \in [Callers -> Containers \cup {"none"}]
        /\ attempt' \in [Callers -> 0 .. Retries]
        /\ \A o \in Callers \ {r} :
             /\ phase'[o] = phase[o] /\ lastKind'[o] = lastKind[o]
             /\ untried'[o] = untried[o] /\ at'[o] = at[o] /\ attempt'[o] = attempt[o]
    BY <1>0, <2>0, <2>a DEF TypeOK, Settled
  <2>2. TypeOK'
    BY <1>0, <1>2, <2>1 DEF TypeOK
  <2>3. RouteOK(r)'
    BY <1>2, <1>3, <2>1 DEF RouteOK, FatalKinds
  <2>4. ASSUME NEW o \in Callers \ {r} PROVE RouteOK(o)'
    BY <1>0, <1>2, <2>1, OthersKeepRoute
  <2> QED BY <2>2, <2>3, <2>4 DEF IInv
<1>4. CASE Serving(cl) # {}
  <2>1. PICK c \in Serving(cl) :
          /\ IsFirst(c, Serving(cl))
          /\ at' = [at EXCEPT ![r] = c]
          /\ untried' = [untried EXCEPT ![r] = Serving(cl) \ {c}]
          /\ attempt' = [attempt EXCEPT ![r] = 1]
    BY <1>4 DEF Submit, DeliverToFirst
  <2>2. /\ phase' \in [Callers -> {"idle", "delivering"} \cup Settled]
        /\ phase'[r] = "delivering"
        /\ lastKind' \in [Callers -> Kinds] /\ lastKind'[r] = "none"
        /\ \A o \in Callers \ {r} : phase'[o] = phase[o] /\ lastKind'[o] = lastKind[o]
    BY <1>0, <1>4 DEF Submit, Settle, TypeOK, Settled, Kinds
  <2>3. /\ untried' \in [Callers -> SUBSET Containers]
        /\ untried'[r] = Serving(cl) \ {c}
        /\ at' \in [Callers -> Containers \cup {"none"}] /\ at'[r] = c
        /\ attempt' \in [Callers -> 0 .. Retries] /\ attempt'[r] = 1
        /\ \A o \in Callers \ {r} :
             untried'[o] = untried[o] /\ at'[o] = at[o] /\ attempt'[o] = attempt[o]
    BY <1>0, <1>1, <2>1 DEF TypeOK
  <2>4. TypeOK'
    BY <1>0, <1>2, <2>2, <2>3 DEF TypeOK
  <2>5. RouteOK(r)'
    <3>1. \A d \in untried'[r] : Before(c, d)
      BY <2>1, <2>3 DEF IsFirst
    <3> QED BY <1>1, <1>2, <2>1, <2>2, <2>3, <3>1 DEF RouteOK, Before
  <2>6. ASSUME NEW o \in Callers \ {r} PROVE RouteOK(o)'
    BY <1>0, <1>2, <2>2, <2>3, OthersKeepRoute
  <2> QED BY <2>4, <2>5, <2>6 DEF IInv
<1> QED BY <1>3, <1>4

(* Settling a delivery where it stands keeps the invariant.                *)
LEMMA AnswersKeeps ==
  ASSUME IInv, NEW r \in Callers, Answers(r)
  PROVE  IInv'
<1>0. TypeOK /\ \A o \in Callers : RouteOK(o)
  BY DEF IInv
<1>1. /\ phase' \in [Callers -> {"idle", "delivering"} \cup Settled]
      /\ phase[r] = "delivering" /\ phase'[r] = "answered"
      /\ \A o \in Callers \ {r} : phase'[o] = phase[o]
      /\ UNCHANGED <<healthy, class, plan, untried, at, attempt, lastKind, failed>>
  BY <1>0 DEF Answers, Settle, TypeOK, Settled
<1>2. TypeOK'
  BY <1>0, <1>1 DEF TypeOK
<1>3. RouteOK(r)'
  BY <1>0, <1>1 DEF RouteOK, Exhausted, Before
<1>4. ASSUME NEW o \in Callers \ {r} PROVE RouteOK(o)'
  BY <1>0, <1>1, OthersKeepRoute
<1> QED BY <1>2, <1>3, <1>4 DEF IInv

LEMMA FailsFatallyKeeps ==
  ASSUME IInv, NEW r \in Callers, NEW failure \in Failures, FailsFatally(r, failure)
  PROVE  IInv'
<1>0. TypeOK /\ \A o \in Callers : RouteOK(o)
  BY DEF IInv
<1>1. failure.kind \in Kinds /\ Fails(r, failure.kind)
  BY FailuresAssumption DEF Kinds, FailsFatally
<1>2. /\ phase' \in [Callers -> {"idle", "delivering"} \cup Settled]
      /\ phase'[r] = "refused"
      /\ \A o \in Callers \ {r} : phase'[o] = phase[o]
      /\ UNCHANGED <<healthy, at, untried, attempt>>
  BY <1>0 DEF FailsFatally, Settle, TypeOK, Settled
<1>3. TypeOK'
  BY <1>0, <1>1, <1>2, FailsCounts DEF TypeOK
<1>4. RouteOK(r)'
  <2>1. /\ plan[r] \subseteq Containers /\ untried[r] \subseteq plan[r]
        /\ at[r] \notin untried[r]
    BY <1>0, <1>1, FailsCounts DEF TypeOK, RouteOK
  <2>2. \A c \in plan[r] \ {at[r]} : Exhausted(r, c) => Exhausted(r, c)'
    BY <1>0, <1>1, <1>2, <2>1, FailsCounts DEF Exhausted
  <2> QED BY <1>0, <1>1, <1>2, <2>1, <2>2, FailsCounts DEF RouteOK, Before
<1>5. ASSUME NEW o \in Callers \ {r} PROVE RouteOK(o)'
  BY <1>0, <1>1, <1>2, FailsCounts, OthersKeepRoute
<1> QED BY <1>3, <1>4, <1>5 DEF IInv

LEMMA ThrowsKeeps ==
  ASSUME IInv, NEW r \in Callers, Throws(r)
  PROVE  IInv'
<1>0. TypeOK /\ \A o \in Callers : RouteOK(o)
  BY DEF IInv
<1>1. /\ "transport" \in Kinds \ ({"no_route"} \cup FatalKinds)
      /\ Fails(r, "transport") /\ healthy' = healthy
  BY DEF Throws, Kinds, FatalKinds
<1>2. CASE attempt[r] < Retries
  BY <1>0, <1>1, <1>2, TryAgainKeepsRoute DEF Throws, IInv
<1>3. CASE ~(attempt[r] < Retries)
  <2>1. failed'[r][at[r]] = Retries
    BY <1>0, <1>1, <1>3, FailsCounts, RetriesAssumption
  <2>2. healthy' \in [Containers -> BOOLEAN] /\ MoveOn(r)
    BY <1>0, <1>1, <1>3 DEF TypeOK, Throws
  <2> QED BY <1>0, <1>1, <2>1, <2>2, MoveOnKeepsRoute DEF IInv
<1> QED BY <1>2, <1>3

LEMMA FailsRetryablyKeeps ==
  ASSUME IInv, NEW r \in Callers, NEW failure \in Failures, FailsRetryably(r, failure)
  PROVE  IInv'
<1>1. failure.kind \in Kinds
  BY FailuresAssumption DEF Kinds
<1> QED BY <1>1, TryAgainKeepsRoute DEF FailsRetryably, WillRetrySame, IInv

LEMMA FailsOverKeeps ==
  ASSUME IInv, NEW r \in Callers, NEW failure \in Failures, FailsOver(r, failure)
  PROVE  IInv'
<1>0. TypeOK /\ \A o \in Callers : RouteOK(o)
  BY DEF IInv
<1>1. failure.kind \in Kinds \ ({"no_route"} \cup FatalKinds) /\ Fails(r, failure.kind)
  BY FailuresAssumption DEF Kinds, WireFailures, FailsOver
<1>2. at[r] \in Containers
  BY <1>0, <1>1, FailsCounts
<1>3. /\ healthy' \in [Containers -> BOOLEAN] /\ ~healthy'[at[r]]
      /\ \A c \in Containers : ~healthy[c] => ~healthy'[c]
  BY <1>0, <1>2 DEF FailsOver, MarkUnhealthy, TypeOK
<1> QED BY <1>0, <1>1, <1>3, MoveOnKeepsRoute DEF FailsOver, IInv

(* Every step keeps the inductive invariant.                               *)
LEMMA NextIInv == IInv /\ [Next]_vars => IInv'
<1> SUFFICES ASSUME IInv, [Next]_vars PROVE IInv'
  OBVIOUS
<1>1. ASSUME NEW r \in Callers, NEW cl \in Classes, Submit(r, cl) PROVE IInv'
  BY <1>1, SubmitKeeps
<1>2. ASSUME NEW r \in Callers, Answers(r) PROVE IInv'
  BY <1>2, AnswersKeeps
<1>3. ASSUME NEW r \in Callers, Throws(r) PROVE IInv'
  BY <1>3, ThrowsKeeps
<1>4. ASSUME NEW r \in Callers, NEW failure \in Failures, FailsFatally(r, failure)
      PROVE  IInv'
  BY <1>4, FailsFatallyKeeps
<1>5. ASSUME NEW r \in Callers, NEW failure \in Failures, FailsRetryably(r, failure)
      PROVE  IInv'
  BY <1>5, FailsRetryablyKeeps
<1>6. ASSUME NEW r \in Callers, NEW failure \in Failures, FailsOver(r, failure)
      PROVE  IInv'
  BY <1>6, FailsOverKeeps
<1>7. CASE UNCHANGED vars
  BY <1>7 DEF vars, IInv, TypeOK, RouteOK, Exhausted, Before
<1> QED BY <1>1, <1>2, <1>3, <1>4, <1>5, <1>6, <1>7 DEF Next, Reply

LEMMA SpecIInv == Spec => []IInv
BY InitIInv, NextIInv, PTL DEF Spec

-----------------------------------------------------------------------------
(* The registry, the requests and the attempt counters stay in their       *)
(* ranges; in particular no request counts more than Retries failures at   *)
(* one container.                                                          *)
THEOREM TypeCorrect == Spec => []TypeOK
<1>1. IInv => TypeOK
  BY DEF IInv
<1> QED BY <1>1, SpecIInv, PTL

(* A request is only ever held by a container that serves its class,       *)
(* whatever becomes unhealthy while it is under way.                       *)
THEOREM NeverDowngraded == Spec => []NoDowngrade
<1>1. IInv => NoDowngrade
  BY DEF IInv, RouteOK, NoDowngrade
<1> QED BY <1>1, SpecIInv, PTL

(* A container is reached only when all planned ones before it, hence all  *)
(* planned primaries before any backup, are exhausted for this request.    *)
THEOREM TiersRespected == Spec => []TierOrder
<1>1. IInv => TierOrder
  BY DEF IInv, RouteOK, TierOrder
<1> QED BY <1>1, SpecIInv, PTL

(* A failure reported to the core was earned at every planned container.   *)
THEOREM ReportsHonest == Spec => []ReportIsHonest
<1>1. IInv => ReportIsHonest
  BY DEF IInv, RouteOK, ReportIsHonest
<1> QED BY <1>1, SpecIInv, PTL

(* No container sees more than Retries deliveries for one request.         *)
THEOREM DeliveriesBounded == Spec => []AttemptsBounded
<1>1. IInv => AttemptsBounded
  BY DEF IInv, RouteOK, AttemptsBounded
<1> QED BY <1>1, SpecIInv, PTL

-----------------------------------------------------------------------------
(* Only giving up on a container takes its health, and only after its last *)
(* attempt or a failure that may not be retried: no interleaving of the    *)
(* requests that share the registry makes an outage of anything less.      *)
THEOREM OutagesEarned == Spec => OutageEarned
<1> DEFINE Earned ==
      \A c \in Containers :
        /\ ~healthy[c] => ~healthy'[c]
        /\ healthy[c] /\ ~healthy'[c] =>
             \E r \in Callers :
               /\ phase[r] = "delivering" /\ at[r] = c
               /\ phase'[r] = "reported" \/ at'[r] # c
               /\ lastKind'[r] \notin FatalKinds
               /\ \/ attempt[r] = Retries
                  \/ [kind |-> lastKind'[r], retryable |-> FALSE] \in WireFailures
<1>1. ASSUME IInv, Next PROVE Earned
  <2>1. CASE UNCHANGED healthy
    BY <2>1
  <2>2. ASSUME NEW r \in Callers, NEW failure \in Failures, FailsOver(r, failure)
        PROVE  Earned
    <3>1. TypeOK /\ RouteOK(r)
      BY <1>1 DEF IInv
    <3>2. /\ failure.kind \in Kinds /\ Fails(r, failure.kind)
          /\ healthy' = [healthy EXCEPT ![at[r]] = FALSE]
      BY <2>2, FailuresAssumption DEF Kinds, FailsOver, MarkUnhealthy
    <3>3. /\ phase[r] = "delivering" /\ at[r] \in Containers
          /\ lastKind'[r] = failure.kind /\ attempt[r] \in 1 .. Retries
      BY <3>1, <3>2, FailsCounts
    <3>4. phase'[r] = "reported" \/ at'[r] # at[r]
      <4>1. CASE untried[r] = {}
        BY <2>2, <3>1, <4>1 DEF FailsOver, MoveOn, Settle, TypeOK
      <4>2. CASE untried[r] # {}
        BY <2>2, <3>1, <3>3, <4>2 DEF FailsOver, MoveOn, DeliverToFirst, TypeOK, RouteOK
      <4> QED BY <4>1, <4>2
    <3>5. \/ attempt[r] = Retries
          \/ [kind |-> lastKind'[r], retryable |-> FALSE] \in WireFailures
      <4>1. attempt[r] = Retries \/ ~failure.retryable
        BY <2>2, <3>3, RetriesAssumption DEF FailsOver, WillRetrySame
      <4>2. ~failure.retryable =>
              [kind |-> failure.kind, retryable |-> FALSE] \in WireFailures
        <5>1. ~failure.retryable =>
                failure.kind \in {"unauthorized", "bad_request", "undefined", "null"}
          BY FailuresAssumption DEF WireFailures
        <5>2. \A kind \in {"unauthorized", "bad_request", "undefined", "null"} :
                [kind |-> kind, retryable |-> FALSE] \in WireFailures
          BY DEF WireFailures
        <5> QED BY <5>1, <5>2
      <4> QED BY <3>3, <4>1, <4>2
    <3>6. \A c \in Containers : c # at[r] => healthy'[c] = healthy[c]
      BY <3>1, <3>2 DEF TypeOK
    <3>7. lastKind'[r] \notin FatalKinds
      BY <2>2, <3>3 DEF FailsOver
    <3>8. ~healthy'[at[r]]
      BY <3>1, <3>2, <3>3 DEF TypeOK
    <3> QED BY <3>3, <3>4, <3>5, <3>6, <3>7, <3>8
  <2> QED
    BY <1>1, <2>1, <2>2 DEF Next, Reply, Submit, Answers, Throws, FailsFatally, FailsRetryably
<1>2. IInv /\ [Next]_vars => [Earned]_vars
  BY <1>1
<1> QED BY <1>2, SpecIInv, PTL DEF Spec, OutageEarned

(* A container that is given up on after a failure it reported itself is   *)
(* out of service at once, whoever else is using it.                       *)
THEOREM GivenUpIsMarked == Spec => GivingUpMarks
<1> DEFINE Marked ==
      \A r \in Callers :
        /\ phase[r] = "delivering"
        /\ phase'[r] = "reported" \/ (phase'[r] = "delivering" /\ at'[r] # at[r])
        /\ lastKind'[r] # "transport"
        => ~healthy'[at[r]]
<1>1. ASSUME IInv, Next PROVE Marked
  <2> SUFFICES ASSUME NEW o \in Callers, phase[o] = "delivering",
                      phase'[o] = "reported"
                        \/ (phase'[o] = "delivering" /\ at'[o] # at[o]),
                      lastKind'[o] # "transport"
               PROVE  ~healthy'[at[o]]
    OBVIOUS
  <2>0. TypeOK /\ RouteOK(o)
    BY <1>1 DEF IInv
  <2>1. ASSUME NEW r \in Callers, NEW cl \in Classes, Submit(r, cl) PROVE FALSE
    BY <2>0, <2>1 DEF Submit, Settle, DeliverToFirst, TypeOK
  <2>2. ASSUME NEW r \in Callers, Answers(r) PROVE FALSE
    BY <2>0, <2>2 DEF Answers, Settle, TypeOK
  <2>3. ASSUME NEW r \in Callers, Throws(r) PROVE FALSE
    <3>1. CASE r = o
      BY <2>0, <2>3, <3>1 DEF Throws, Fails, TypeOK
    <3>2. CASE r # o
      BY <2>0, <2>3, <3>2
        DEF Throws, TryAgain, MoveOn, Settle, DeliverToFirst, TypeOK
    <3> QED BY <3>1, <3>2
  <2>4. ASSUME NEW r \in Callers, NEW failure \in Failures, FailsFatally(r, failure)
        PROVE  FALSE
    BY <2>0, <2>4 DEF FailsFatally, Settle, TypeOK
  <2>5. ASSUME NEW r \in Callers, NEW failure \in Failures, FailsRetryably(r, failure)
        PROVE  FALSE
    BY <2>0, <2>5 DEF FailsRetryably, TryAgain, TypeOK
  <2>6. ASSUME NEW r \in Callers, NEW failure \in Failures, FailsOver(r, failure)
        PROVE  ~healthy'[at[o]]
    <3>1. CASE r = o
      BY <2>0, <2>6, <3>1 DEF FailsOver, MarkUnhealthy, TypeOK, RouteOK
    <3>2. CASE r # o
      BY <2>0, <2>6, <3>2 DEF FailsOver, MoveOn, Settle, DeliverToFirst, TypeOK
    <3> QED BY <3>1, <3>2
  <2> QED BY <1>1, <2>1, <2>2, <2>3, <2>4, <2>5, <2>6 DEF Next, Reply
<1>2. IInv /\ [Next]_vars => [Marked]_vars
  BY <1>1
<1> QED BY <1>2, SpecIInv, PTL DEF Spec, GivingUpMarks

-----------------------------------------------------------------------------
(* Refinement: the Concierge implements DeliveryContract.                  *)

Standing(r) == IF phase[r] = "delivering" THEN "open" ELSE phase[r]

Remaining(r) ==
  IF phase[r] \in {"idle", "reported"} THEN {} ELSE untried[r] \cup {at[r]}

(* What a step of the Concierge does for its caller: nothing (a retry), a  *)
(* container ruled out, or an end.                                         *)
RulesOut(r) ==
  /\ phase[r] = "delivering" /\ at[r] \in Containers
  /\ Remaining(r)' = Remaining(r) \ {at[r]}
  /\ Standing(r)' = IF Remaining(r) = {at[r]} THEN "reported" ELSE "open"

(* Moving on rules out the container the request was at.                   *)
LEMMA MoveOnRulesOut ==
  ASSUME IInv, IInv', NEW r \in Callers, phase[r] = "delivering", MoveOn(r)
  PROVE  RulesOut(r)
<1>0. /\ TypeOK /\ TypeOK' /\ at[r] \in plan[r] /\ plan[r] \subseteq Containers
      /\ at[r] \notin untried[r]
  BY DEF IInv, TypeOK, RouteOK
<1>1. Remaining(r) = untried[r] \cup {at[r]}
  BY <1>0 DEF Remaining
<1>2. CASE untried[r] = {}
  <2>1. phase'[r] = "reported"
    BY <1>0, <1>2 DEF MoveOn, Settle, TypeOK
  <2>2. Remaining(r)' = {} /\ Standing(r)' = "reported"
    BY <2>1 DEF Remaining, Standing
  <2> QED BY <1>0, <1>1, <1>2, <2>2 DEF RulesOut
<1>3. CASE untried[r] # {}
  <2>1. PICK c \in untried[r] : /\ at' = [at EXCEPT ![r] = c]
                                /\ untried' = [untried EXCEPT ![r] = untried[r] \ {c}]
    BY <1>3 DEF MoveOn, DeliverToFirst
  <2>2. at'[r] = c /\ untried'[r] = untried[r] \ {c} /\ phase'[r] = "delivering"
    BY <1>0, <1>3, <2>1 DEF MoveOn, TypeOK
  <2>3. Remaining(r)' = untried[r] /\ Standing(r)' = "open"
    BY <2>1, <2>2 DEF Remaining, Standing
  <2> QED BY <1>0, <1>1, <1>3, <2>3 DEF RulesOut
<1> QED BY <1>2, <1>3

-----------------------------------------------------------------------------
(* A step of one request leaves the others as they stand.                  *)
LEMMA OthersStand ==
  ASSUME TypeOK, NEW r \in Callers, NEW o \in Callers, o # r,
         Reply(r) \/ \E cl \in Classes : Submit(r, cl)
  PROVE  Standing(o)' = Standing(o) /\ Remaining(o)' = Remaining(o)
<1>1. phase'[o] = phase[o]
  BY DEF Reply, Submit, Answers, Throws, FailsFatally, FailsRetryably, FailsOver, MoveOn,
     TryAgain, DeliverToFirst, Settle, TypeOK
<1>2. at'[o] = at[o] /\ untried'[o] = untried[o]
  BY DEF Reply, Submit, Answers, Throws, FailsFatally, FailsRetryably, FailsOver, MoveOn,
     TryAgain, DeliverToFirst, TypeOK
<1> QED BY <1>1, <1>2 DEF Standing, Remaining

(* The ways a step of one request shows to its caller.                     *)
LEMMA SubmitOpens ==
  ASSUME IInv, NEW r \in Callers, NEW cl \in Classes, Submit(r, cl)
  PROVE  /\ Standing(r) # "open" /\ class' = [class EXCEPT ![r] = cl]
         /\ Standing(r)' = IF Serving(cl) = {} THEN "reported" ELSE "open"
         /\ Remaining(r)' = Serving(cl)
<1>1. TypeOK /\ phase[r] # "delivering" /\ Standing(r) # "open"
  BY DEF IInv, Submit, TypeOK, Settled, Standing
<1>2. CASE Serving(cl) = {}
  <2>1. phase'[r] = "reported"
    BY <1>1, <1>2 DEF Submit, Settle, TypeOK
  <2> QED BY <1>1, <1>2, <2>1 DEF Submit, Standing, Remaining
<1>3. CASE Serving(cl) # {}
  <2>1. phase'[r] = "delivering" /\ DeliverToFirst(r, Serving(cl))
    BY <1>1, <1>3 DEF Submit, Settle, TypeOK
  <2>2. PICK c \in Serving(cl) : at'[r] = c /\ untried'[r] = Serving(cl) \ {c}
    BY <1>1, <2>1 DEF DeliverToFirst, TypeOK
  <2>3. Remaining(r)' = Serving(cl) /\ Standing(r)' = "open"
    BY <2>1, <2>2 DEF Remaining, Standing
  <2> QED BY <1>1, <1>3, <2>3 DEF Submit
<1> QED BY <1>2, <1>3

LEMMA ReplyMoves ==
  ASSUME IInv, IInv', NEW r \in Callers, Reply(r)
  PROVE  /\ class' = class /\ Standing(r) = "open"
         /\ \/ Standing(r)' = Standing(r) /\ Remaining(r)' = Remaining(r)
            \/ /\ Standing(r)' \in {"answered", "refused"}
               /\ Remaining(r)' = Remaining(r) /\ Remaining(r) # {}
            \/ RulesOut(r)
<1>0. TypeOK /\ phase[r] = "delivering" /\ Standing(r) = "open" /\ class' = class
  BY DEF IInv, Reply, Answers, Throws, FailsFatally, FailsRetryably, FailsOver, Fails, Standing
<1>1. Remaining(r) = untried[r] \cup {at[r]}
  BY <1>0 DEF Remaining
<1>2. CASE Answers(r) \/ \E failure \in Failures : FailsFatally(r, failure)
  <2>1. phase'[r] \in {"answered", "refused"} /\ at' = at /\ untried' = untried
    BY <1>0, <1>2 DEF Answers, FailsFatally, Settle, TypeOK
  <2>2. Standing(r)' \in {"answered", "refused"} /\ Remaining(r)' = untried[r] \cup {at[r]}
    BY <2>1 DEF Standing, Remaining
  <2> QED BY <1>0, <1>1, <2>2
<1>3. CASE \/ Throws(r) /\ attempt[r] < Retries
           \/ \E failure \in Failures : FailsRetryably(r, failure)
  <2>1. phase' = phase /\ at' = at /\ untried' = untried
    BY <1>3 DEF Throws, FailsRetryably, TryAgain
  <2> QED BY <1>0, <2>1 DEF Standing, Remaining
<1>4. CASE \/ Throws(r) /\ ~(attempt[r] < Retries)
           \/ \E failure \in Failures : FailsOver(r, failure)
  <2>1. MoveOn(r)
    BY <1>4 DEF Throws, FailsOver
  <2> QED BY <1>0, <2>1, MoveOnRulesOut
<1> QED BY <1>2, <1>3, <1>4 DEF Reply

-----------------------------------------------------------------------------
LEMMA RefinesInit == Init => D!ContractInit
BY DEF Init, D!ContractInit

LEMMA RefinesNext ==
  ASSUME IInv, [Next]_vars
  PROVE  [D!ContractNext]_(D!contractVars)
<1> DEFINE standing == [o \in Callers |-> Standing(o)]
           candidates == [o \in Callers |-> Remaining(o)]
<1>0. TypeOK /\ IInv'
  BY NextIInv DEF IInv
<1>1. CASE UNCHANGED vars
  BY <1>1 DEF vars, D!contractVars
<1>2. ASSUME NEW r \in Callers, Reply(r) \/ \E cl \in Classes : Submit(r, cl)
      PROVE  [D!ContractNext]_(D!contractVars)
  <2>1. ASSUME NEW o \in Callers, o # r
        PROVE  Standing(o)' = Standing(o) /\ Remaining(o)' = Remaining(o)
    BY <1>0, <1>2, <2>1, OthersStand
  <2>2. /\ standing' = [standing EXCEPT ![r] = Standing(r)']
        /\ candidates' = [candidates EXCEPT ![r] = Remaining(r)']
    BY <2>1
  <2>3. /\ standing[r] = Standing(r) /\ candidates[r] = Remaining(r)
        /\ standing = [standing EXCEPT ![r] = Standing(r)]
        /\ candidates = [candidates EXCEPT ![r] = Remaining(r)]
    OBVIOUS
  <2>4. ASSUME NEW cl \in Classes, Submit(r, cl) PROVE D!ContractNext
    <3>1. PICK S \in SUBSET Containers : S = Serving(cl) /\ \A c \in S : cl \in Serves[c]
      <4>1. Serving(cl) \in SUBSET Containers /\ \A c \in Serving(cl) : cl \in Serves[c]
        BY DEF Serving
      <4> QED BY <4>1
    <3>2. D!Open(r, cl, S)
      <4>1. /\ standing[r] # "open" /\ class' = [class EXCEPT ![r] = cl]
            /\ standing' = [standing EXCEPT ![r] =
                              IF S = {} THEN "reported" ELSE "open"]
            /\ candidates' = [candidates EXCEPT ![r] = S]
        BY <2>2, <2>3, <2>4, <3>1, SubmitOpens
      <4> QED BY <3>1, <4>1 DEF D!Open, Standing, Remaining
    <3> QED BY <3>1, <3>2 DEF D!ContractNext
  <2>5. CASE Reply(r)
    <3>1. CASE Standing(r)' = Standing(r) /\ Remaining(r)' = Remaining(r)
      BY <1>0, <2>2, <2>3, <2>5, <3>1, ReplyMoves DEF D!contractVars, Standing, Remaining
    <3>2. CASE /\ Standing(r)' \in {"answered", "refused"}
               /\ Remaining(r)' = Remaining(r) /\ Remaining(r) # {}
      <4>1. D!Conclude(r)
        BY <1>0, <2>2, <2>3, <2>5, <3>2, ReplyMoves DEF D!Conclude, Standing, Remaining
      <4> QED BY <4>1 DEF D!ContractNext
    <3>3. CASE RulesOut(r)
      <4>0. PICK c \in Containers : c = at[r]
        BY <3>3 DEF RulesOut
      <4>1. D!RuleOut(r, c)
        <5>1. standing[r] = "open" /\ c \in candidates[r] /\ class' = class
          BY <1>0, <2>3, <2>5, <3>3, <4>0, ReplyMoves DEF RulesOut, Remaining
        <5>2. candidates' = [candidates EXCEPT ![r] = candidates[r] \ {c}]
          BY <2>2, <2>3, <3>3, <4>0 DEF RulesOut
        <5>3. standing' = [standing EXCEPT ![r] =
                IF candidates[r] = {c} THEN "reported" ELSE standing[r]]
          BY <2>2, <2>3, <3>3, <4>0, <5>1 DEF RulesOut
        <5> QED BY <5>1, <5>2, <5>3 DEF D!RuleOut, Standing, Remaining
      <4> QED BY <4>1 DEF D!ContractNext
    <3> QED BY <1>0, <2>5, <3>1, <3>2, <3>3, ReplyMoves
  <2> QED BY <1>2, <2>4, <2>5
<1> QED BY <1>1, <1>2 DEF Next

(* The Concierge keeps the contract of a delivery: candidates that serve   *)
(* the class, ruled out one at a time, and no other container ever joins.  *)
THEOREM ContractKept == Spec => KeepsContract
<1>1. IInv /\ [Next]_vars => [D!ContractNext]_(D!contractVars)
  BY RefinesNext
<1> QED BY <1>1, RefinesInit, SpecIInv, PTL DEF Spec, KeepsContract, D!Contract
=============================================================================
