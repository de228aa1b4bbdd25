----------------------------- MODULE WireProofs ------------------------------
(***************************************************************************)
(* The Concierge over the wire, for every set of callers and containers,   *)
(* every registry, retry count, material and mode: it is the Concierge of  *)
(* Concierge, the work it causes is accounted for, and a production core   *)
(* has nothing run with development material.                              *)
(***************************************************************************)
EXTENDS Wire, TLAPS

(* What is proved of the Concierge.                                        *)
GP == INSTANCE ConciergeProofs WITH Failures <- TransportFailures, TransportThrows <- FALSE

Stages == {"none", "sent", "running", "replied", "broken", "hung"}

WireTypeOK ==
  /\ wire \in [Callers -> Stages]
  /\ reply \in [Callers -> {"none"} \cup Replies]

(* How the exchange of a caller stands with its request and with the runs  *)
(* of the providers.                                                       *)
Exchange(r) ==
  /\ wire[r] # "none" <=> phase[r] = "delivering"
  /\ wire[r] = "replied" => reply[r] # "none"
  /\ wire[r] = "running" => Delivery(r) \in running[at[r]]
  /\ (wire[r] = "replied" /\ reply[r] = "200") \/ phase[r] = "answered" =>
       Delivery(r) \in ran[at[r]] \ running[at[r]]
  /\ \A c \in G!Containers : \A n \in 1 .. Retries : <<r, n>> \in ran[c] =>
       /\ phase[r] # "idle"
       /\ n <= failed[r][c] \/ (at[r] = c /\ n = attempt[r])

(* A provider that is awaited runs where material was accepted.            *)
Trusted(r) ==
  wire[r] = "running" =>
    /\ loaded[at[r]] # "none"
    /\ Mode[Core] = "production" => loaded[at[r]] \notin FromDevCa

(* The inductive invariant: that of the Concierge (which ties attempts to  *)
(* failures, so that a run of an earlier attempt is one of a failure), and *)
(* for each caller what ties its exchange to the two sides.                *)
IInv ==
  /\ GP!IInv
  /\ S!TypeOK
  /\ S!NoDevInProduction
  /\ WireTypeOK
  /\ \A c \in G!Containers : running[c] \subseteq ran[c]
  /\ \A r \in Callers : Exchange(r) /\ Trusted(r)

-----------------------------------------------------------------------------
(* The assumptions of the Concierge hold of it over the wire.              *)
LEMMA ConciergeAssumptions ==
  /\ GP!RegistryAssumption /\ GP!DescriptorAssumption /\ GP!RetriesAssumption
  /\ GP!FailuresAssumption /\ GP!ThrowsAssumption
BY RegistryAssumption, DescriptorAssumption, RetriesAssumption, TransportFailsAsAssumed
DEF GP!WireFailures, G!WireFailures, GP!Containers, G!Containers,
    GP!RegistryAssumption, GP!DescriptorAssumption, GP!RetriesAssumption,
    GP!FailuresAssumption, GP!ThrowsAssumption

(* The module of the proofs and the model speak of the same Concierge.     *)
LEMMA SameConcierge ==
  /\ GP!Init <=> G!Init
  /\ GP!Next <=> G!Next
  /\ GP!vars = conciergeVars /\ G!vars = conciergeVars
<1>1. GP!Init <=> G!Init
  BY DEF GP!Init, G!Init, GP!Containers, G!Containers
<1>2. \A r, cl : GP!Submit(r, cl) <=> G!Submit(r, cl)
  BY DEF GP!Submit, GP!Serving, GP!Containers, GP!DeliverToFirst, GP!IsFirst,
     GP!Before, GP!Settle, G!Submit, G!Serving, G!Containers, G!DeliverToFirst,
     G!IsFirst, G!Before, G!Settle
<1>3. \A r : GP!Answers(r) <=> G!Answers(r)
  BY DEF GP!Answers, G!Answers, GP!Settle, G!Settle
<1>4. \A r : GP!Throws(r) <=> G!Throws(r)
  BY DEF G!Throws, GP!Throws
<1>5. \A r, f : GP!FailsFatally(r, f) <=> G!FailsFatally(r, f)
  BY DEF G!FailsFatally, GP!FailsFatally, G!FatalKinds, GP!FatalKinds, G!Fails,
     GP!Fails, G!Settle, GP!Settle
<1>6. \A r, f : GP!FailsRetryably(r, f) <=> G!FailsRetryably(r, f)
  BY DEF G!FailsRetryably, GP!FailsRetryably, G!FatalKinds, GP!FatalKinds, G!Fails,
     GP!Fails, G!TryAgain, GP!TryAgain, G!WillRetrySame, GP!WillRetrySame
<1>7. \A r : GP!MoveOn(r) <=> G!MoveOn(r)
  BY DEF GP!MoveOn, GP!DeliverToFirst, GP!IsFirst, GP!Before, GP!Settle,
     G!MoveOn, G!DeliverToFirst, G!IsFirst, G!Before, G!Settle
<1>8. \A r, f : GP!FailsOver(r, f) <=> G!FailsOver(r, f)
  BY <1>7 DEF G!FailsOver, GP!FailsOver, G!FatalKinds, GP!FatalKinds, G!Fails,
     GP!Fails, G!MarkUnhealthy, GP!MarkUnhealthy, G!WillRetrySame, GP!WillRetrySame
<1>9. GP!Next <=> G!Next
  BY <1>2, <1>3, <1>4, <1>5, <1>6, <1>8 DEF G!Next, GP!Next, G!Reply, GP!Reply
<1> QED BY <1>1, <1>9 DEF GP!vars, G!vars, conciergeVars

LEMMA ResponsesAreFailures ==
  \A x \in Replies \ {"200"} : Response(x) \in TransportFailures
BY DEF TransportFailures

LEMMA ResolvesIsReply ==
  ASSUME NEW r \in Callers, NEW failure \in TransportFailures, ResolvesWith(r, failure)
  PROVE  G!Next
BY DEF ResolvesWith, G!Next, G!Reply

(* Every step is one of the Concierge or leaves it alone.                  *)
LEMMA ConciergeSteps ==
  ASSUME WireTypeOK, \A r \in Callers : Exchange(r), [Next]_vars
  PROVE  [G!Next]_conciergeVars
<1>1. ASSUME NEW r \in Callers, NEW cl \in Classes, Submit(r, cl)
      PROVE  G!Next
  BY <1>1 DEF Submit, G!Next
<1>2. ASSUME NEW r \in Callers, Resolve(r) PROVE G!Next
  <2>1. CASE ReplyArrives(r)
    <3>1. CASE G!Answers(r)
      BY <3>1 DEF G!Next, G!Reply
    <3>2. CASE reply[r] # "200" /\ ResolvesWith(r, Response(reply[r]))
      <4>1. reply[r] \in Replies \ {"200"}
        BY <2>1, <3>2 DEF ReplyArrives, WireTypeOK, Exchange
      <4> QED BY <3>2, <4>1, ResponsesAreFailures, ResolvesIsReply
    <3> QED BY <2>1, <3>1, <3>2 DEF ReplyArrives
  <2>2. CASE SocketError(r)
    BY <2>2, ResolvesIsReply DEF SocketError, TransportFailures
  <2>3. CASE DeadlinePasses(r)
    BY <2>3, ResolvesIsReply DEF DeadlinePasses, TransportFailures
  <2> QED BY <1>2, <2>1, <2>2, <2>3 DEF Resolve
<1>3. ASSUME NEW r \in Callers,
             \/ NoConnection(r)
             \/ \E x \in Detours : Detour(r, x)
             \/ RejectVersion(r)
             \/ StartProvider(r)
             \/ ConnectionBreaks(r)
             \/ ReplyCutOff(r)
      PROVE  UNCHANGED conciergeVars
  BY <1>3 DEF NoConnection, Detour, RejectVersion, StartProvider, ConnectionBreaks,
     ReplyCutOff
<1>4. ASSUME NEW c \in G!Containers,
             \/ \E r \in Callers, n \in 1 .. Retries, x \in {"200", "502"} :
                  ProviderEnds(c, r, n, x)
             \/ ContainerCrashes(c)
             \/ ContainerStarts(c)
      PROVE  UNCHANGED conciergeVars
  BY <1>4 DEF ProviderEnds, ContainerCrashes, ContainerStarts
<1>5. ASSUME NEW m \in Materials, TimePasses(m) PROVE UNCHANGED conciergeVars
  BY <1>5 DEF TimePasses
<1>6. CASE UNCHANGED vars
  BY <1>6 DEF vars
<1> QED BY <1>1, <1>2, <1>3, <1>4, <1>5, <1>6 DEF Next

-----------------------------------------------------------------------------
(* What the Concierge's invariant says of a request's current delivery.    *)
LEMMA Current ==
  ASSUME GP!IInv, NEW r \in Callers
  PROVE  /\ phase \in [Callers -> {"idle", "delivering", "answered", "refused", "reported"}]
         /\ at \in [Callers -> G!Containers \cup {"none"}]
         /\ attempt \in [Callers -> 0 .. Retries]
         /\ failed \in [Callers -> [G!Containers -> 0 .. Retries]]
         /\ untried[r] \subseteq G!Containers
         /\ phase[r] \in {"delivering", "answered"} =>
              /\ at[r] \in G!Containers
              /\ attempt[r] \in 1 .. Retries
              /\ failed[r][at[r]] = attempt[r] - 1
<1>1. GP!TypeOK /\ GP!RouteOK(r) /\ GP!Containers = G!Containers
  BY DEF GP!IInv, GP!Containers, G!Containers
<1> QED BY <1>1 DEF GP!TypeOK, GP!RouteOK, GP!Settled

(* A step that leaves a caller's request and exchange alone, and whose     *)
(* runs are not its own, keeps what ties them.                             *)
LEMMA OthersKeepExchange ==
  ASSUME GP!IInv, NEW o \in Callers, Exchange(o),
         phase'[o] = phase[o], at'[o] = at[o], attempt'[o] = attempt[o],
         failed'[o] = failed[o], wire'[o] = wire[o], reply'[o] = reply[o],
         \A c \in G!Containers, n \in 1 .. Retries :
            /\ <<o, n>> \in ran'[c] <=> <<o, n>> \in ran[c]
            /\ <<o, n>> \in running'[c] <=> <<o, n>> \in running[c]
  PROVE  Exchange(o)'
<1>1. phase[o] \in {"delivering", "answered"} =>
        at[o] \in G!Containers /\ attempt[o] \in 1 .. Retries
  BY Current
<1>2. Delivery(o)' = Delivery(o)
  BY DEF Delivery
<1>3. wire[o] # "none" => phase[o] = "delivering"
  BY DEF Exchange
<1>4. phase[o] \in {"delivering", "answered"} =>
        /\ Delivery(o) \in ran'[at[o]] <=> Delivery(o) \in ran[at[o]]
        /\ Delivery(o) \in running'[at[o]] <=> Delivery(o) \in running[at[o]]
  BY <1>1 DEF Delivery
<1>5. wire'[o] = "running" => Delivery(o)' \in running'[at'[o]]
  BY <1>2, <1>3, <1>4 DEF Exchange
<1>6. (wire'[o] = "replied" /\ reply'[o] = "200") \/ phase'[o] = "answered" =>
        Delivery(o)' \in ran'[at'[o]] \ running'[at'[o]]
  BY <1>2, <1>3, <1>4 DEF Exchange
<1>7. ASSUME NEW c \in G!Containers, NEW n \in 1 .. Retries, <<o, n>> \in ran'[c]
      PROVE  phase'[o] # "idle" /\ (n <= failed'[o][c] \/ (at'[o] = c /\ n = attempt'[o]))
  BY <1>7 DEF Exchange
<1>8. (wire'[o] # "none" <=> phase'[o] = "delivering")
      /\ (wire'[o] = "replied" => reply'[o] # "none")
  BY DEF Exchange
<1>9. G!Containers' = G!Containers
  BY DEF G!Containers
<1> QED BY <1>5, <1>6, <1>7, <1>8, <1>9 DEF Exchange

(* A failed delivery is counted, whatever the Concierge makes of it.       *)
LEMMA FailureCounted ==
  ASSUME GP!IInv, NEW r \in Callers, NEW failure, ResolvesWith(r, failure)
  PROVE  /\ phase[r] = "delivering"
         /\ phase'[r] \in {"delivering", "refused", "reported"}
         /\ phase' = [phase EXCEPT ![r] = phase'[r]]
         /\ at' = [at EXCEPT ![r] = at'[r]]
         /\ attempt' = [attempt EXCEPT ![r] = attempt'[r]]
         /\ failed' = [failed EXCEPT ![r][at[r]] = @ + 1]
<1>1. G!Fails(r, failure.kind)
  BY DEF ResolvesWith, G!FailsFatally, G!FailsRetryably, G!FailsOver
<1>2. phase[r] = "delivering" /\ failed' = [failed EXCEPT ![r][at[r]] = @ + 1]
  BY <1>1 DEF G!Fails
<1>3. /\ phase \in [Callers -> {"idle", "delivering", "answered", "refused", "reported"}]
      /\ at \in [Callers -> G!Containers \cup {"none"}]
      /\ attempt \in [Callers -> 0 .. Retries]
  BY Current
<1>4. CASE G!FailsFatally(r, failure)
  BY <1>2, <1>3, <1>4 DEF G!FailsFatally, G!Settle
<1>5. CASE G!TryAgain(r)
  BY <1>2, <1>3, <1>5 DEF G!TryAgain
<1>6. CASE G!MoveOn(r)
  <2>1. CASE untried[r] = {}
    BY <1>2, <1>3, <1>6, <2>1 DEF G!MoveOn, G!Settle
  <2>2. CASE untried[r] # {}
    <3>1. PICK c \in untried[r] : at' = [at EXCEPT ![r] = c]
                                 /\ attempt' = [attempt EXCEPT ![r] = 1]
      BY <1>6, <2>2 DEF G!MoveOn, G!DeliverToFirst
    <3>2. phase' = phase
      BY <1>6, <2>2 DEF G!MoveOn
    <3> QED BY <1>2, <1>3, <3>1, <3>2
  <2> QED BY <2>1, <2>2
<1> QED BY <1>4, <1>5, <1>6 DEF ResolvesWith, G!FailsRetryably, G!FailsOver

LEMMA InitIInv == Init => IInv
<1> SUFFICES ASSUME Init PROVE IInv
  OBVIOUS
<1>1. GP!IInv
  BY ConciergeAssumptions, SameConcierge, GP!InitIInv DEF Init
<1>2. PICK m \in Materials, source \in S!CertSources :
        /\ S!Provides(Core, source, m)
        /\ loaded = [p \in S!Parties |-> IF p = Core THEN m ELSE "none"]
  BY DEF Init, S!Init
<1>3. S!TypeOK
  BY <1>2, PartiesAssumption DEF Init, S!Init, S!TypeOK, S!Parties
<1>4. S!NoDevInProduction
  BY <1>2 DEF S!NoDevInProduction, S!Provides, S!Enforced, S!LooksLikeDevMaterial, S!Parties
<1>5. WireTypeOK
  BY DEF Init, WireTypeOK, Stages
<1>6. ASSUME NEW r \in Callers PROVE Exchange(r) /\ Trusted(r)
  BY DEF Init, G!Init, S!Init, Exchange, Trusted
<1>7. \A c \in G!Containers : running[c] \subseteq ran[c]
  BY DEF Init, S!Init
<1> QED BY <1>1, <1>3, <1>4, <1>5, <1>6, <1>7 DEF IInv

-----------------------------------------------------------------------------
(* The servers' part of the invariant, and the types of the exchange.      *)
ServersOK ==
  /\ S!TypeOK
  /\ S!NoDevInProduction
  /\ \A c \in G!Containers : running[c] \subseteq ran[c]

(* Whatever the servers do keeps their part: only material that was        *)
(* enforced is ever loaded, and the modes do not change.                   *)
LEMMA ServersKeep ==
  ASSUME ServersOK,
         \/ UNCHANGED serverVars
         \/ \E m \in Materials : S!TimePasses(m)
         \/ \E c \in G!Containers :
              \/ \E d \in Callers \X (1 .. Retries) : S!Generate(c, d) \/ S!Finish(c, d)
              \/ S!Crash(c)
              \/ \E source \in S!CertSources, m \in Materials :
                   S!StartContainerServer(c, source, m)
  PROVE  ServersOK'
<1> USE DEF ServersOK, S!TypeOK, S!NoDevInProduction, S!Parties, G!Containers
<1>0. G!Containers' = G!Containers
  OBVIOUS
<1>1. CASE UNCHANGED serverVars
  BY <1>1 DEF serverVars
<1>2. ASSUME NEW m \in Materials, S!TimePasses(m) PROVE ServersOK'
  BY <1>2 DEF S!TimePasses
<1>3. ASSUME NEW c \in G!Containers, NEW d \in Callers \X (1 .. Retries), S!Generate(c, d)
      PROVE  ServersOK'
  BY <1>3 DEF S!Generate
<1>4. ASSUME NEW c \in G!Containers, NEW d \in Callers \X (1 .. Retries), S!Finish(c, d)
      PROVE  ServersOK'
  BY <1>4 DEF S!Finish
<1>5. ASSUME NEW c \in G!Containers, S!Crash(c) PROVE ServersOK'
  <2>1. c # Core /\ c \in S!Parties
    BY PartiesAssumption
  <2> QED BY <1>5, <2>1, PartiesAssumption DEF S!Crash
<1>6. ASSUME NEW c \in G!Containers, NEW source \in S!CertSources, NEW m \in Materials,
             S!StartContainerServer(c, source, m)
      PROVE  ServersOK'
  <2>1. c # Core /\ c \in S!Parties /\ loaded' = [loaded EXCEPT ![c] = m]
    BY <1>6, PartiesAssumption DEF S!StartContainerServer
  <2>2. Mode[c] = "production" => m \notin FromDevCa
    BY <1>6 DEF S!StartContainerServer, S!Provides, S!Enforced, S!LooksLikeDevMaterial
  <2> QED BY <1>6, <2>1, <2>2, PartiesAssumption DEF S!StartContainerServer
<1> QED BY <1>1, <1>2, <1>3, <1>4, <1>5, <1>6

(* A step of the client's side: the request moves as the Concierge says,   *)
(* the next exchange begins or none.                                       *)
ExchangesOK == \A r \in Callers : Exchange(r) /\ Trusted(r)

LEMMA NextExchangeTypes ==
  ASSUME WireTypeOK, NEW r \in Callers, NextExchange(r)
  PROVE  /\ WireTypeOK'
         /\ wire'[r] = IF phase'[r] = "delivering" THEN "sent" ELSE "none"
         /\ \A o \in Callers \ {r} : wire'[o] = wire[o] /\ reply'[o] = reply[o]
         /\ UNCHANGED serverVars
<1>1. wire' = [wire EXCEPT ![r] = IF phase'[r] = "delivering" THEN "sent" ELSE "none"]
      /\ reply' = [reply EXCEPT ![r] = "none"] /\ UNCHANGED serverVars
  BY DEF NextExchange
<1>2. (IF phase'[r] = "delivering" THEN "sent" ELSE "none") \in Stages
  BY DEF Stages
<1> QED BY <1>1, <1>2 DEF WireTypeOK

LEMMA OthersKeepTrust ==
  ASSUME NEW o \in Callers, Trusted(o), at'[o] = at[o], wire'[o] = wire[o],
         UNCHANGED loaded
  PROVE  Trusted(o)'
BY DEF Trusted

LEMMA SubmitKeeps ==
  ASSUME IInv, NEW r \in Callers, NEW cl \in Classes, Submit(r, cl)
  PROVE  ExchangesOK'
<1>0. /\ phase[r] = "idle" /\ Exchange(r) /\ G!Submit(r, cl) /\ NextExchange(r)
      /\ WireTypeOK /\ GP!IInv
  BY DEF Submit, IInv
<1>1. /\ phase' = [phase EXCEPT ![r] = phase'[r]] /\ phase'[r] \in {"reported", "delivering"}
      /\ at' = [at EXCEPT ![r] = at'[r]] /\ attempt' = [attempt EXCEPT ![r] = attempt'[r]]
      /\ \A o \in Callers \ {r} : failed'[o] = failed[o]
  <2>1. CASE G!Serving(cl) = {}
    BY <1>0, <2>1, Current DEF G!Submit, G!Settle, IInv
  <2>2. CASE G!Serving(cl) # {}
    <3>1. PICK c \in G!Serving(cl) : at' = [at EXCEPT ![r] = c]
                                     /\ attempt' = [attempt EXCEPT ![r] = 1]
      BY <1>0, <2>2 DEF G!Submit, G!DeliverToFirst
    <3> QED BY <1>0, <2>2, <3>1, Current DEF G!Submit, G!Settle, IInv
  <2> QED BY <2>1, <2>2
<1>2. ASSUME NEW o \in Callers \ {r} PROVE Exchange(o)' /\ Trusted(o)'
  <2>1. /\ GP!IInv /\ Exchange(o) /\ Trusted(o)
        /\ wire'[o] = wire[o] /\ reply'[o] = reply[o] /\ UNCHANGED serverVars
    BY <1>0, NextExchangeTypes DEF IInv
  <2>2. phase'[o] = phase[o] /\ at'[o] = at[o] /\ attempt'[o] = attempt[o]
        /\ failed'[o] = failed[o]
    BY <1>0, <1>1, Current
  <2> QED BY <2>1, <2>2, OthersKeepExchange, OthersKeepTrust DEF serverVars
<1>3. Exchange(r)'
  <2>1. wire'[r] = (IF phase'[r] = "delivering" THEN "sent" ELSE "none")
        /\ ran' = ran
    BY <1>0, NextExchangeTypes DEF serverVars
  <2>2. \A c \in G!Containers : \A n \in 1 .. Retries : <<r, n>> \notin ran[c]
    BY <1>0 DEF Exchange
  <2> QED BY <1>1, <2>1, <2>2 DEF Exchange, G!Containers
<1>4. Trusted(r)'
  BY <1>0, NextExchangeTypes DEF Trusted
<1> QED BY <1>2, <1>3, <1>4 DEF ExchangesOK

LEMMA ResolvesWithKeeps ==
  ASSUME IInv, NEW r \in Callers, NEW failure, ResolvesWith(r, failure)
  PROVE  ExchangesOK'
<1>0. /\ GP!IInv /\ Exchange(r) /\ NextExchange(r) /\ WireTypeOK
  BY DEF ResolvesWith, IInv
<1>1. /\ phase[r] = "delivering" /\ phase'[r] \in {"delivering", "refused", "reported"}
      /\ phase' = [phase EXCEPT ![r] = phase'[r]] /\ at' = [at EXCEPT ![r] = at'[r]]
      /\ attempt' = [attempt EXCEPT ![r] = attempt'[r]]
      /\ failed' = [failed EXCEPT ![r][at[r]] = @ + 1]
  BY <1>0, FailureCounted
<1>2. ASSUME NEW o \in Callers \ {r} PROVE Exchange(o)' /\ Trusted(o)'
  <2>1. /\ Exchange(o) /\ Trusted(o)
        /\ wire'[o] = wire[o] /\ reply'[o] = reply[o] /\ UNCHANGED serverVars
    BY <1>0, NextExchangeTypes DEF IInv
  <2>2. phase'[o] = phase[o] /\ at'[o] = at[o] /\ attempt'[o] = attempt[o]
        /\ failed'[o] = failed[o]
    BY <1>0, <1>1, Current
  <2> QED BY <1>0, <2>1, <2>2, OthersKeepExchange, OthersKeepTrust DEF serverVars
<1>3. Exchange(r)'
  <2>1. wire'[r] = (IF phase'[r] = "delivering" THEN "sent" ELSE "none")
        /\ ran' = ran
    BY <1>0, NextExchangeTypes DEF serverVars
  <2>2. /\ at[r] \in G!Containers /\ attempt[r] \in 1 .. Retries
        /\ failed[r][at[r]] = attempt[r] - 1
        /\ failed \in [Callers -> [G!Containers -> 0 .. Retries]]
    BY <1>0, <1>1, Current
  <2>3. failed'[r][at[r]] = attempt[r]
        /\ \A c \in G!Containers \ {at[r]} : failed'[r][c] = failed[r][c]
    BY <1>1, <2>2, RetriesAssumption
  <2>4. ASSUME NEW c \in G!Containers, NEW n \in 1 .. Retries, <<r, n>> \in ran[c]
        PROVE  n <= failed'[r][c]
    <3>1. n <= failed[r][c] \/ (at[r] = c /\ n = attempt[r])
      BY <1>0, <2>4 DEF Exchange
    <3>2. CASE c = at[r]
      BY <2>2, <2>3, <3>1, <3>2, RetriesAssumption
    <3>3. CASE c # at[r]
      BY <2>3, <3>1, <3>3
    <3> QED BY <3>2, <3>3
  <2> QED BY <1>1, <2>1, <2>4 DEF Exchange, G!Containers
<1>4. Trusted(r)'
  BY <1>0, NextExchangeTypes DEF Trusted
<1> QED BY <1>2, <1>3, <1>4 DEF ExchangesOK

LEMMA ReplyArrivesKeeps ==
  ASSUME IInv, NEW r \in Callers, ReplyArrives(r)
  PROVE  ExchangesOK'
<1>1. CASE reply[r] = "200" /\ G!Answers(r) /\ NextExchange(r)
  <2>0. GP!IInv /\ WireTypeOK /\ Exchange(r) /\ wire[r] = "replied"
    BY DEF ReplyArrives, IInv
  <2>1. /\ phase' = [phase EXCEPT ![r] = "answered"] /\ phase[r] = "delivering"
        /\ UNCHANGED <<at, attempt, failed>>
    BY <1>1 DEF G!Answers, G!Settle
  <2>2. ASSUME NEW o \in Callers \ {r} PROVE Exchange(o)' /\ Trusted(o)'
    <3>1. /\ Exchange(o) /\ Trusted(o)
          /\ wire'[o] = wire[o] /\ reply'[o] = reply[o] /\ UNCHANGED serverVars
      BY <1>1, <2>0, NextExchangeTypes DEF IInv
    <3>2. phase'[o] = phase[o]
      BY <2>1
    <3> QED BY <2>0, <2>1, <3>1, <3>2, OthersKeepExchange, OthersKeepTrust DEF serverVars
  <2>3. phase'[r] = "answered"
    BY <2>0, <2>1, Current
  <2>4. wire'[r] = "none" /\ UNCHANGED serverVars
    BY <1>1, <2>0, <2>3, NextExchangeTypes
  <2>5. Delivery(r) \in ran[at[r]] \ running[at[r]]
    BY <1>1, <2>0 DEF Exchange
  <2>6. Exchange(r)'
    BY <2>0, <2>1, <2>3, <2>4, <2>5 DEF Exchange, Delivery, serverVars, G!Containers
  <2>7. Trusted(r)'
    BY <2>4 DEF Trusted
  <2> QED BY <2>2, <2>6, <2>7 DEF ExchangesOK
<1>2. CASE ResolvesWith(r, Response(reply[r]))
  BY <1>2, ResolvesWithKeeps
<1> QED BY <1>1, <1>2 DEF ReplyArrives

-----------------------------------------------------------------------------
(* The exchange fails, or is answered by something that ran nothing.       *)
LEMMA UnservedKeeps ==
  ASSUME IInv, NEW r \in Callers, NEW w \in {"broken", "hung", "replied"},
         NEW x \in {"none"} \cup Replies,
         w = "replied" => x \notin {"none", "200"},
         wire[r] # "none",
         wire' = [wire EXCEPT ![r] = w], reply' = [reply EXCEPT ![r] = x],
         UNCHANGED <<conciergeVars, serverVars>>
  PROVE  WireTypeOK' /\ ExchangesOK'
<1>0. GP!IInv /\ WireTypeOK /\ UNCHANGED <<phase, at, attempt, failed, running, ran, loaded>>
  BY DEF IInv, conciergeVars, serverVars
<1>1. WireTypeOK'
  BY <1>0 DEF WireTypeOK, Stages
<1>2. ASSUME NEW o \in Callers \ {r} PROVE Exchange(o)' /\ Trusted(o)'
  <2>1. Exchange(o) /\ Trusted(o) /\ wire'[o] = wire[o] /\ reply'[o] = reply[o]
    BY <1>0 DEF IInv, WireTypeOK
  <2> QED BY <1>0, <2>1, OthersKeepExchange, OthersKeepTrust
<1>3. wire'[r] = w /\ reply'[r] = x
  BY <1>0 DEF WireTypeOK
<1>4. Exchange(r)' /\ Trusted(r)'
  <2>1. Exchange(r)
    BY DEF IInv
  <2> QED BY <1>0, <1>3, <2>1 DEF Exchange, Trusted, Delivery, G!Containers
<1> QED BY <1>1, <1>2, <1>4 DEF ExchangesOK

LEMMA StartProviderKeeps ==
  ASSUME IInv, NEW r \in Callers, StartProvider(r)
  PROVE  WireTypeOK' /\ ExchangesOK'
<1>0. /\ GP!IInv /\ WireTypeOK /\ S!TypeOK /\ S!NoDevInProduction
      /\ wire[r] = "sent" /\ phase[r] = "delivering" /\ Exchange(r)
      /\ UNCHANGED <<phase, at, attempt, failed, loaded, reply>>
      /\ wire' = [wire EXCEPT ![r] = "running"]
  BY DEF IInv, StartProvider, Exchange, conciergeVars, S!Generate
<1>1. /\ at[r] \in G!Containers /\ attempt[r] \in 1 .. Retries
      /\ running' = [running EXCEPT ![at[r]] = @ \cup {<<r, attempt[r]>>}]
      /\ ran' = [ran EXCEPT ![at[r]] = @ \cup {<<r, attempt[r]>>}]
  BY <1>0, Current DEF StartProvider, S!Generate, Delivery
<1>2. running \in [G!Containers -> SUBSET (Callers \X (1 .. Retries))]
      /\ ran \in [G!Containers -> SUBSET (Callers \X (1 .. Retries))]
  BY <1>0 DEF S!TypeOK
<1>3. WireTypeOK' /\ wire'[r] = "running"
  BY <1>0 DEF WireTypeOK, Stages
<1>4. ASSUME NEW o \in Callers \ {r} PROVE Exchange(o)' /\ Trusted(o)'
  <2>1. Exchange(o) /\ Trusted(o) /\ wire'[o] = wire[o] /\ reply'[o] = reply[o]
    BY <1>0 DEF IInv, WireTypeOK
  <2>2. \A c \in G!Containers, n \in 1 .. Retries :
          /\ <<o, n>> \in ran'[c] <=> <<o, n>> \in ran[c]
          /\ <<o, n>> \in running'[c] <=> <<o, n>> \in running[c]
    BY <1>1, <1>2
  <2> QED BY <1>0, <2>1, <2>2, OthersKeepExchange, OthersKeepTrust
<1>5. Exchange(r)'
  <2>1. Delivery(r)' = <<r, attempt[r]>> /\ Delivery(r)' \in running'[at'[r]]
    BY <1>0, <1>1, <1>2 DEF Delivery
  <2>2. ASSUME NEW c \in G!Containers, NEW n \in 1 .. Retries, <<r, n>> \in ran'[c]
        PROVE  phase'[r] # "idle" /\ (n <= failed'[r][c] \/ (at'[r] = c /\ n = attempt'[r]))
    <3>1. <<r, n>> \in ran[c] \/ (c = at[r] /\ n = attempt[r])
      BY <1>1, <1>2, <2>2
    <3> QED BY <1>0, <3>1 DEF Exchange
  <2> QED BY <1>0, <1>3, <2>1, <2>2 DEF Exchange, G!Containers
<1>6. Trusted(r)'
  <2>1. S!MayConnect(at[r])
    BY DEF StartProvider
  <2>2. loaded[at[r]] # "none" /\ S!Issuer(loaded[at[r]]) = S!Issuer(loaded[Core])
    BY <2>1 DEF S!MayConnect
  <2>3. Mode[Core] = "production" => loaded[Core] \notin FromDevCa
    BY <1>0 DEF S!NoDevInProduction, S!TypeOK, S!Parties
  <2> QED BY <1>0, <2>2, <2>3 DEF Trusted, S!Issuer
<1> QED BY <1>3, <1>4, <1>5, <1>6 DEF ExchangesOK

LEMMA ProviderEndsKeeps ==
  ASSUME IInv, NEW c \in G!Containers, NEW r \in Callers, NEW n \in 1 .. Retries,
         NEW x \in {"200", "502"}, ProviderEnds(c, r, n, x)
  PROVE  WireTypeOK' /\ ExchangesOK'
<1>0. /\ GP!IInv /\ WireTypeOK /\ Exchange(r) /\ Trusted(r)
      /\ running[c] \subseteq ran[c] /\ <<r, n>> \in running[c]
      /\ running' = [running EXCEPT ![c] = @ \ {<<r, n>>}]
      /\ running \in [G!Containers -> SUBSET (Callers \X (1 .. Retries))]
      /\ UNCHANGED <<phase, at, attempt, failed, loaded, ran>>
  BY DEF IInv, ProviderEnds, S!Finish, S!TypeOK, conciergeVars
<1>1. WireTypeOK'
  BY <1>0 DEF ProviderEnds, WireTypeOK, Stages, Replies, ServerReplies
<1>2. ASSUME NEW o \in Callers \ {r} PROVE Exchange(o)' /\ Trusted(o)'
  <2>1. Exchange(o) /\ Trusted(o) /\ wire'[o] = wire[o] /\ reply'[o] = reply[o]
    BY <1>0 DEF IInv, WireTypeOK, ProviderEnds
  <2>2. \A d \in G!Containers, k \in 1 .. Retries :
          <<o, k>> \in running'[d] <=> <<o, k>> \in running[d]
    BY <1>0
  <2> QED BY <1>0, <2>1, <2>2, OthersKeepExchange, OthersKeepTrust
<1>3. CASE Awaited(c, r, n)
  <2>1. wire'[r] = "replied" /\ reply'[r] = x /\ phase[r] = "delivering"
    BY <1>0, <1>3 DEF ProviderEnds, WireTypeOK, Awaited, Exchange
  <2>2. Delivery(r)' = <<r, n>> /\ at'[r] = c
    BY <1>0, <1>3 DEF Awaited, Delivery
  <2>3. Delivery(r)' \in ran'[at'[r]] \ running'[at'[r]]
    BY <1>0, <2>2
  <2>4. Exchange(r)'
    BY <1>0, <2>1, <2>3 DEF Exchange, G!Containers
  <2>5. Trusted(r)'
    BY <2>1 DEF Trusted
  <2> QED BY <1>1, <1>2, <2>4, <2>5 DEF ExchangesOK
<1>4. CASE ~Awaited(c, r, n)
  <2>1. wire' = wire /\ reply' = reply /\ Delivery(r)' = Delivery(r)
    BY <1>0, <1>4 DEF ProviderEnds, Delivery
  <2>2. wire[r] = "running" => Delivery(r) \in running'[at[r]]
    <3> SUFFICES ASSUME wire[r] = "running" PROVE Delivery(r) \in running'[at[r]]
      OBVIOUS
    <3>1. at[r] \in G!Containers /\ Delivery(r) \in running[at[r]]
      BY <1>0, Current DEF Exchange
    <3>2. at[r] # c \/ Delivery(r) # <<r, n>>
      BY <1>4 DEF Awaited, Delivery
    <3> QED BY <1>0, <3>1, <3>2
  <2>3. \A d : Delivery(r) \notin running[d] /\ d \in G!Containers
                  => Delivery(r) \notin running'[d]
    BY <1>0
  <2>4. phase[r] \in {"delivering", "answered"} => at[r] \in G!Containers
    BY <1>0, Current
  <2>5. Exchange(r)'
    BY <1>0, <2>1, <2>2, <2>3, <2>4 DEF Exchange, G!Containers
  <2>6. Trusted(r)'
    BY <1>0, <2>1 DEF Trusted
  <2> QED BY <1>1, <1>2, <2>5, <2>6 DEF ExchangesOK
<1> QED BY <1>3, <1>4

LEMMA CrashKeeps ==
  ASSUME IInv, NEW c \in G!Containers, ContainerCrashes(c)
  PROVE  WireTypeOK' /\ ExchangesOK'
<1>0. /\ GP!IInv /\ WireTypeOK /\ S!TypeOK
      /\ wire' = [r \in Callers |->
                    IF wire[r] = "running" /\ at[r] = c THEN "broken" ELSE wire[r]]
      /\ running' = [running EXCEPT ![c] = {}]
      /\ loaded' = [loaded EXCEPT ![c] = "none"]
      /\ UNCHANGED <<phase, at, attempt, failed, ran, reply>>
  BY DEF IInv, ContainerCrashes, S!Crash, conciergeVars
<1>1. WireTypeOK'
  BY <1>0 DEF WireTypeOK, Stages
<1>2. ASSUME NEW r \in Callers PROVE Exchange(r)' /\ Trusted(r)'
  <2>1. Exchange(r) /\ Trusted(r) /\ Delivery(r)' = Delivery(r)
    BY <1>0 DEF IInv, Delivery
  <2>2. phase[r] \in {"delivering", "answered"} => at[r] \in G!Containers
    BY <1>0, Current
  <2>3. /\ running'[c] = {}
        /\ \A d \in G!Containers \ {c} : running'[d] = running[d] /\ loaded'[d] = loaded[d]
    BY <1>0 DEF S!TypeOK, S!Parties
  <2>4. CASE wire[r] = "running" /\ at[r] = c
    BY <1>0, <2>1, <2>2, <2>3, <2>4 DEF Exchange, Trusted, G!Containers
  <2>5. CASE ~(wire[r] = "running" /\ at[r] = c)
    <3>1. wire'[r] = wire[r]
      BY <1>0, <2>5
    <3>2. Exchange(r)'
      BY <1>0, <2>1, <2>2, <2>3, <2>5, <3>1 DEF Exchange, G!Containers
    <3>3. Trusted(r)'
      <4> SUFFICES ASSUME wire[r] = "running" PROVE Trusted(r)'
        BY <3>1 DEF Trusted
      <4>1. at[r] \in G!Containers \ {c}
        BY <2>1, <2>2, <2>5 DEF Exchange
      <4> QED BY <1>0, <2>1, <2>3, <3>1, <4>1 DEF Trusted
    <3> QED BY <3>2, <3>3
  <2> QED BY <2>4, <2>5
<1> QED BY <1>1, <1>2 DEF ExchangesOK

(* A container comes up, or time passes.                                   *)
LEMMA UpKeeps ==
  ASSUME IInv,
         \/ \E c \in G!Containers : ContainerStarts(c)
         \/ \E m \in Materials : TimePasses(m)
  PROVE  WireTypeOK' /\ ExchangesOK'
<1>0. /\ GP!IInv /\ WireTypeOK /\ S!TypeOK
      /\ UNCHANGED <<phase, at, attempt, failed, running, ran, wire, reply>>
  BY DEF IInv, ContainerStarts, TimePasses, S!StartContainerServer, S!TimePasses,
     conciergeVars
<1>1. WireTypeOK'
  BY <1>0 DEF WireTypeOK
<1>2. ASSUME NEW r \in Callers PROVE Exchange(r)' /\ Trusted(r)'
  <2>1. Exchange(r) /\ Trusted(r)
    BY DEF IInv
  <2>2. Exchange(r)'
    BY <1>0, <2>1 DEF Exchange, Delivery, G!Containers
  <2>3. wire[r] = "running" => loaded'[at[r]] = loaded[at[r]]
    <3> SUFFICES ASSUME wire[r] = "running" PROVE loaded'[at[r]] = loaded[at[r]]
      OBVIOUS
    <3>1. loaded[at[r]] # "none"
      BY <2>1 DEF Trusted
    <3>2. at[r] \in G!Containers /\ loaded \in [S!Parties -> Materials \cup {"none"}]
          /\ at[r] \in S!Parties
      BY <1>0, <2>1, Current DEF Exchange, S!TypeOK, S!Parties
    <3>3. CASE \E m \in Materials : TimePasses(m)
      BY <3>3 DEF TimePasses, S!TimePasses
    <3>4. ASSUME NEW c \in G!Containers, ContainerStarts(c)
          PROVE  loaded'[at[r]] = loaded[at[r]]
      <4>1. loaded[c] = "none" /\ \E m \in Materials : loaded' = [loaded EXCEPT ![c] = m]
        BY <3>4 DEF ContainerStarts, S!StartContainerServer
      <4> QED BY <3>1, <3>2, <4>1
    <3> QED BY <3>3, <3>4
  <2>4. Trusted(r)'
    BY <1>0, <2>1, <2>3 DEF Trusted
  <2> QED BY <2>2, <2>4
<1> QED BY <1>1, <1>2 DEF ExchangesOK

-----------------------------------------------------------------------------
LEMMA NextIInv == IInv /\ [Next]_vars => IInv'
<1> SUFFICES ASSUME IInv, [Next]_vars PROVE IInv'
  OBVIOUS
<1> DEFINE Rest == ServersOK /\ WireTypeOK /\ ExchangesOK
<1>0. ServersOK /\ WireTypeOK /\ ExchangesOK
  BY DEF IInv, ServersOK, ExchangesOK
<1>1. GP!IInv'
  <2>1. [G!Next]_conciergeVars
    BY <1>0, ConciergeSteps DEF ExchangesOK
  <2>2. [GP!Next]_GP!vars
    BY <2>1, SameConcierge DEF GP!vars, conciergeVars
  <2> QED BY <2>2, ConciergeAssumptions, GP!NextIInv DEF IInv
<1>2. ASSUME NEW r \in Callers, NextExchange(r) PROVE WireTypeOK' /\ ServersOK'
  BY <1>0, <1>2, NextExchangeTypes, ServersKeep
<1>3. ASSUME NEW r \in Callers, NEW cl \in Classes, Submit(r, cl) PROVE Rest'
  BY <1>2, <1>3, SubmitKeeps DEF Submit
<1>4. ASSUME NEW r \in Callers, Resolve(r) PROVE Rest'
  <2>1. NextExchange(r)
    BY <1>4 DEF Resolve, ReplyArrives, SocketError, DeadlinePasses, ResolvesWith
  <2>2. ExchangesOK'
    BY <1>4, ReplyArrivesKeeps, ResolvesWithKeeps DEF Resolve, SocketError, DeadlinePasses
  <2> QED BY <1>2, <2>1, <2>2
<1>5. ASSUME NEW r \in Callers, NoConnection(r) \/ ConnectionBreaks(r) \/ ReplyCutOff(r)
      PROVE  Rest'
  <2>1. PICK w \in {"broken", "hung"} : wire' = [wire EXCEPT ![r] = w]
    BY <1>5 DEF NoConnection, ConnectionBreaks, ReplyCutOff
  <2>2. wire[r] # "none" /\ UNCHANGED <<conciergeVars, serverVars>>
        /\ reply' = [reply EXCEPT ![r] = reply[r]] /\ reply[r] \in {"none"} \cup Replies
    BY <1>0, <1>5 DEF NoConnection, ConnectionBreaks, ReplyCutOff, WireTypeOK
  <2> QED BY <1>0, <2>1, <2>2, UnservedKeeps, ServersKeep
<1>6. ASSUME NEW r \in Callers, RejectVersion(r) \/ \E x \in Detours : Detour(r, x)
      PROVE  Rest'
  <2>1. PICK x \in Replies \ {"200"} : reply' = [reply EXCEPT ![r] = x]
    BY <1>6, DetoursAssumption DEF RejectVersion, Detour, Replies, ServerReplies
  <2>2. wire[r] = "sent" /\ wire' = [wire EXCEPT ![r] = "replied"]
        /\ UNCHANGED <<conciergeVars, serverVars>>
    BY <1>6 DEF RejectVersion, Detour
  <2>3. x # "none"
    BY DEF Replies, ServerReplies
  <2> QED BY <1>0, <2>1, <2>2, <2>3, UnservedKeeps, ServersKeep
<1>7. ASSUME NEW r \in Callers, StartProvider(r) PROVE Rest'
  <2>1. at[r] \in G!Containers /\ Delivery(r) \in Callers \X (1 .. Retries)
        /\ S!Generate(at[r], Delivery(r))
    BY <1>0, <1>7, Current DEF StartProvider, Exchange, ExchangesOK, IInv, Delivery
  <2> QED BY <1>0, <1>7, <2>1, StartProviderKeeps, ServersKeep
<1>8. ASSUME NEW c \in G!Containers, NEW r \in Callers, NEW n \in 1 .. Retries,
             NEW x \in {"200", "502"}, ProviderEnds(c, r, n, x)
      PROVE  Rest'
  <2>1. S!Finish(c, <<r, n>>) /\ <<r, n>> \in Callers \X (1 .. Retries)
    BY <1>8 DEF ProviderEnds
  <2> QED BY <1>0, <1>8, <2>1, ProviderEndsKeeps, ServersKeep
<1>9. ASSUME NEW c \in G!Containers, ContainerCrashes(c) PROVE Rest'
  BY <1>0, <1>9, CrashKeeps, ServersKeep DEF ContainerCrashes
<1>10. ASSUME NEW c \in G!Containers, ContainerStarts(c) PROVE Rest'
  BY <1>0, <1>10, UpKeeps, ServersKeep DEF ContainerStarts
<1>11. ASSUME NEW m \in Materials, TimePasses(m) PROVE Rest'
  BY <1>0, <1>11, UpKeeps, ServersKeep DEF TimePasses
<1>12. ASSUME UNCHANGED vars PROVE Rest'
  <2>1. /\ UNCHANGED <<phase, at, attempt, failed, running, ran, loaded, wire, reply>>
        /\ UNCHANGED serverVars
    BY <1>12 DEF vars, conciergeVars, serverVars
  <2>2. ServersOK'
    BY <1>0, <2>1, ServersKeep
  <2>3. WireTypeOK'
    BY <1>0, <2>1 DEF WireTypeOK
  <2>4. ASSUME NEW r \in Callers PROVE Exchange(r)' /\ Trusted(r)'
    <3>1. GP!IInv /\ Exchange(r) /\ Trusted(r)
      BY DEF IInv
    <3> QED BY <2>1, <3>1, OthersKeepExchange, OthersKeepTrust
  <2> QED BY <2>2, <2>3, <2>4 DEF ExchangesOK
<1> HIDE DEF Rest
<1>13. Rest'
  <2>1. ASSUME NEW r \in Callers,
               \/ \E cl \in Classes : Submit(r, cl)
               \/ Resolve(r)
               \/ NoConnection(r)
               \/ \E x \in Detours : Detour(r, x)
               \/ RejectVersion(r)
               \/ StartProvider(r)
               \/ ConnectionBreaks(r)
               \/ ReplyCutOff(r)
        PROVE  Rest'
    BY <1>3, <1>4, <1>5, <1>6, <1>7, <2>1
  <2>2. ASSUME NEW c \in G!Containers,
               \/ \E r \in Callers, n \in 1 .. Retries, x \in {"200", "502"} :
                    ProviderEnds(c, r, n, x)
               \/ ContainerCrashes(c)
               \/ ContainerStarts(c)
        PROVE  Rest'
    BY <1>8, <1>9, <1>10, <2>2
  <2> QED BY <1>11, <1>12, <2>1, <2>2 DEF Next
<1> QED BY <1>1, <1>13 DEF Rest, IInv, ServersOK, ExchangesOK

LEMMA SpecIInv == Spec => []IInv
BY InitIInv, NextIInv, PTL DEF Spec

-----------------------------------------------------------------------------
(* The variables of both sides and of the exchanges between them keep      *)
(* their types, and an exchange is under way exactly for the requests      *)
(* that are being delivered.                                               *)
THEOREM TypeCorrect == Spec => []TypeOK
<1>1. IInv => TypeOK
  BY DEF IInv, TypeOK, WireTypeOK, Stages, Exchange, GP!IInv, GP!TypeOK, G!TypeOK,
     GP!Containers, G!Containers, GP!Settled, G!Settled, GP!Kinds, G!Kinds,
     GP!WireFailures, G!WireFailures
<1> QED BY <1>1, SpecIInv, PTL

(* The work of the providers is accounted for: although a server never     *)
(* learns of the deadline of MtlsHttpTransport, a request is run once for  *)
(* each of its failures at most, and once more.                            *)
THEOREM WorkIsAccounted == Spec => []WorkAccounted
<1>1. IInv => WorkAccounted
  BY DEF IInv, WorkAccounted, Exchange
<1> QED BY <1>1, SpecIInv, PTL

(* enforceTrustPolicy keeps development material out of production, of the *)
(* parties in it and of what runs on behalf of a core in it.               *)
THEOREM ProductionIsTrusted == Spec => []ProductionTrust
<1>1. IInv => ProductionTrust
  <2> SUFFICES ASSUME IInv, Mode[Core] = "production",
                      NEW r \in Callers, wire[r] = "running"
               PROVE  loaded[at[r]] \in Materials \ FromDevCa
    BY DEF IInv, ProductionTrust
  <2>1. Trusted(r) /\ Exchange(r) /\ S!TypeOK /\ GP!IInv
    BY DEF IInv
  <2>2. at[r] \in G!Containers
    BY <2>1, Current DEF Exchange
  <2> QED BY <2>1, <2>2 DEF Trusted, S!TypeOK, S!Parties
<1> QED BY <1>1, SpecIInv, PTL

(* With MtlsHttpTransport under it the Concierge still does what Concierge *)
(* says, whatever network and containers do.                               *)
THEOREM ConciergeImplemented == Spec => ConciergeBehaves
<1>1. Init => G!Init
  BY DEF Init
<1>2. IInv /\ [Next]_vars => [G!Next]_G!vars
  BY ConciergeSteps DEF IInv, G!vars, conciergeVars
<1> QED BY <1>1, <1>2, SpecIInv, PTL DEF Spec, ConciergeBehaves, G!Spec

(* So what is proved of the Concierge holds over the wire, first of all    *)
(* that no request is ever answered by a container of another class.       *)
THEOREM NeverDowngradedOverWire == Spec => []GP!NoDowngrade
<1>1. GP!IInv => GP!NoDowngrade
  BY DEF GP!IInv, GP!RouteOK, GP!NoDowngrade
<1> QED BY <1>1, SpecIInv, PTL DEF IInv
=============================================================================
