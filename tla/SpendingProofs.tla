--------------------------- MODULE SpendingProofs ---------------------------
(***************************************************************************)
(* The bound on what concurrent callers overshoot, what the router's count *)
(* is worth and how the ledgers add up, for every number of callers, limit *)
(* and cost.                                                               *)
(***************************************************************************)
EXTENDS Spending, Sums

(* Nothing has been spent on a day that has not begun.                     *)
FutureUnspent ==
  "day" \in DOMAIN Limits => \A d \in Days : d > today => used["day"][d] = 0

(* What a call under way read is never more than was spent, and still the  *)
(* usage where it is the only one.                                         *)
ReadsOK ==
  /\ \A c \in Callers : phase[c] = "calling" =>
       /\ usedSoFar[c] <= spent[workflow[c]]
       /\ workflow[c] \notin overlapped => usedSoFar[c] = usage[workflow[c]]
  /\ \A c, d \in Callers :
       phase[c] = "calling" /\ phase[d] = "calling" /\ workflow[c] = workflow[d] /\ c # d
         => workflow[c] \in overlapped

(* The inductive invariant.                                                *)
IInv == TypeOK /\ FutureUnspent /\ OvershootBounded /\ ReadsOK /\ RouterUndercounts

-----------------------------------------------------------------------------
LEMMA TimesMonotone ==
  ASSUME NEW c \in Nat, NEW m \in Nat, NEW n \in Nat, m <= n
  PROVE  c * m <= c * n
<1>1. PICK d \in Nat : n = m + d
  <2>1. n - m \in Nat
    OBVIOUS
  <2> QED BY <2>1
<1>2. c * n = c * m + c * d
  BY <1>1
<1>3. c * d \in Nat
  OBVIOUS
<1> QED BY <1>2, <1>3

LEMMA TimesLessOne ==
  ASSUME NEW c \in Nat, NEW n \in Nat, n # 0
  PROVE  c * (n - 1) = c * n - c
OBVIOUS

(* The calls charged to a key are finitely many, no more than callers.     *)
LEMMA PendingFinite ==
  ASSUME NEW s, NEW k
  PROVE  /\ IsFiniteSet(Pending(s, k))
         /\ Cardinality(Pending(s, k)) \in Nat /\ Cardinality(Callers) \in Nat
         /\ Cardinality(Pending(s, k)) <= Cardinality(Callers)
<1>1. Pending(s, k) \subseteq Callers
  BY DEF Pending
<1>2. IsFiniteSet(Pending(s, k)) /\ Cardinality(Pending(s, k)) <= Cardinality(Callers)
  BY <1>1, CallersAssumption, FS_Subset
<1> QED BY <1>2, CallersAssumption, FS_CardinalityType

LEMMA PendingFinitePrimed ==
  ASSUME NEW s, NEW k
  PROVE  /\ IsFiniteSet(Pending(s, k)')
         /\ Cardinality(Pending(s, k)') \in Nat
         /\ Cardinality(Pending(s, k)') <= Cardinality(Callers)
<1>1. Pending(s, k)' \subseteq Callers
  BY DEF Pending
<1>2. IsFiniteSet(Pending(s, k)') /\ Cardinality(Pending(s, k)') <= Cardinality(Callers)
  BY <1>1, CallersAssumption, FS_Subset
<1> QED BY <1>2, CallersAssumption, FS_CardinalityType

Bound(s, k) ==
  used[s][k] + MaxCost * Cardinality(Pending(s, k))
     <= Limits[s].hard + MaxCost * Cardinality(Callers)

(* A key nothing was charged to, and that lost calls under way or none,    *)
(* keeps its bound.                                                        *)
LEMMA FewerPendingKeepsBound ==
  ASSUME TypeOK, NEW s \in DOMAIN Limits, NEW k \in Keys, Bound(s, k),
         Pending(s, k)' \subseteq Pending(s, k), used'[s][k] = used[s][k]
  PROVE  Bound(s, k)'
<1>1. used[s][k] \in Nat /\ Limits[s].hard \in Nat /\ MaxCost \in Nat
  BY LimitsAssumption, CountsAssumption DEF TypeOK
<1>2. Cardinality(Pending(s, k)') <= Cardinality(Pending(s, k))
  BY PendingFinite, FS_Subset
<1>3. MaxCost * Cardinality(Pending(s, k)') <= MaxCost * Cardinality(Pending(s, k))
  BY <1>1, <1>2, PendingFinite, PendingFinitePrimed, TimesMonotone
<1>4. /\ MaxCost * Cardinality(Pending(s, k)) \in Nat
      /\ MaxCost * Cardinality(Pending(s, k)') \in Nat
      /\ MaxCost * Cardinality(Callers) \in Nat
  BY <1>1, PendingFinite, PendingFinitePrimed
<1> QED BY <1>1, <1>3, <1>4 DEF Bound

(* A key below its hard limit is within its bound, whatever is under way.  *)
LEMMA BelowHardIsBounded ==
  ASSUME NEW s \in DOMAIN Limits, NEW k, used[s][k] \in Nat,
         used'[s][k] = used[s][k], used[s][k] <= Limits[s].hard
  PROVE  Bound(s, k)'
<1>1. Limits[s].hard \in Nat /\ MaxCost \in Nat
  BY LimitsAssumption, CountsAssumption
<1>2. MaxCost * Cardinality(Pending(s, k)') <= MaxCost * Cardinality(Callers)
  BY <1>1, PendingFinite, PendingFinitePrimed, TimesMonotone
<1>3. /\ MaxCost * Cardinality(Pending(s, k)') \in Nat
      /\ MaxCost * Cardinality(Callers) \in Nat
  BY <1>1, PendingFinite, PendingFinitePrimed
<1> QED BY <1>1, <1>2, <1>3 DEF Bound

(* The key of an active scope; the day's has begun when the day named has. *)
LEMMA DayRange ==
  ASSUME TypeOK
  PROVE  /\ today \in 1 .. LastDay /\ LastDay \in Nat
         /\ \A d \in 0 .. today : d \in 0 .. LastDay
BY CountsAssumption DEF TypeOK, Days

LEMMA KeyKnown ==
  ASSUME TypeOK, NEW w \in Workflows, NEW a \in AgentIds \cup {"none"},
         NEW d \in 0 .. LastDay, NEW s \in DOMAIN Limits, Active(s, a)
  PROVE  /\ KeyOf(s, w, a, d) \in Keys
         /\ s = "day" => /\ KeyOf(s, w, a, d) \in Days
                         /\ d <= today => KeyOf(s, w, a, d) <= today
<1>1. CASE s = "workflow"
  BY <1>1 DEF KeyOf, Keys
<1>2. CASE s = "agent"
  BY <1>2 DEF KeyOf, Keys, Active
<1>3. CASE s = "day"
  BY <1>3, DayRange DEF KeyOf, Keys, Days
<1> QED BY <1>1, <1>2, <1>3, LimitsAssumption DEF BudgetScope

(* A verdict that is no cutoff was within the hard limit of each scope.    *)
LEMMA AdmittedBelowHard ==
  ASSUME TypeOK, NEW w \in Workflows, NEW a \in AgentIds \cup {"none"},
         NEW d \in 0 .. LastDay, NEW tokens \in Nat, Verdict(w, a, d, tokens).decision # "cutoff",
         NEW s \in DOMAIN Limits, Active(s, a)
  PROVE  /\ KeyOf(s, w, a, d) \in Keys /\ used[s][KeyOf(s, w, a, d)] \in Nat
         /\ used[s][KeyOf(s, w, a, d)] <= Limits[s].hard
<1>1. s \in {"workflow", "agent", "day"}
  BY LimitsAssumption DEF BudgetScope
<1>2. KeyOf(s, w, a, d) \in Keys
  BY KeyKnown
<1>3. used[s][KeyOf(s, w, a, d)] \in Nat /\ Limits[s].hard \in Nat
  BY <1>2, LimitsAssumption DEF TypeOK
<1>4. ~Over(s, w, a, d, tokens, Limits[s].hard)
  <2> DEFINE v1 == Narrowed(Unlimited, "workflow", w, a, d, tokens)
             v2 == Narrowed(v1, "agent", w, a, d, tokens)
             v3 == Narrowed(v2, "day", w, a, d, tokens)
  <2>1. v3.decision # "cutoff"
    BY DEF Verdict
  <2>2. v2.decision # "cutoff" /\ (s = "day" => ~Over(s, w, a, d, tokens, Limits[s].hard))
    <3> HIDE DEF v2
    <3> QED BY <2>1 DEF Narrowed
  <2>3. v1.decision # "cutoff" /\ (s = "agent" => ~Over(s, w, a, d, tokens, Limits[s].hard))
    <3> HIDE DEF v1
    <3> QED BY <2>2 DEF Narrowed
  <2>4. s = "workflow" => ~Over(s, w, a, d, tokens, Limits[s].hard)
    BY <2>3 DEF Narrowed, Unlimited
  <2> QED BY <1>1, <2>2, <2>3, <2>4
<1> QED BY <1>2, <1>3, <1>4 DEF Over

-----------------------------------------------------------------------------
(* Each step keeps the types and the bound.                                *)
LEMMA InitIInv == Init => IInv
<1> SUFFICES ASSUME Init PROVE IInv
  OBVIOUS
<1>1. TypeOK
  BY CountsAssumption, LimitsAssumption DEF Init, TypeOK, Days, Underway
<1>2. FutureUnspent
  BY DEF Init, FutureUnspent, Keys
<1>3. ASSUME NEW s \in DOMAIN Limits, NEW k \in Keys PROVE Bound(s, k)
  <2>1. used[s][k] = 0 /\ Pending(s, k) = {} /\ Limits[s].hard \in Nat /\ MaxCost \in Nat
    BY LimitsAssumption, CountsAssumption DEF Init, Pending, Underway
  <2>2. Cardinality(Pending(s, k)) = 0 /\ Cardinality(Callers) \in Nat
    BY <2>1, FS_EmptySet, CallersAssumption, FS_CardinalityType
  <2>3. MaxCost * 0 = 0 /\ MaxCost * Cardinality(Callers) \in Nat
    BY <2>1, <2>2
  <2> QED BY <2>1, <2>2, <2>3 DEF Bound
<1>4. OvershootBounded
  BY <1>3 DEF OvershootBounded, Bound
<1>5. ReadsOK /\ RouterUndercounts
  BY DEF Init, ReadsOK, RouterUndercounts
<1> QED BY <1>1, <1>2, <1>4, <1>5 DEF IInv

LEMMA CheckBudgetKeeps ==
  ASSUME IInv, NEW c \in Callers, NEW w \in Workflows,
         NEW a \in AgentIds \cup {"none"}, NEW d \in 0 .. today, NEW tokens \in Estimates,
         CheckBudget(c, w, a, d, tokens)
  PROVE  IInv'
<1>0. TypeOK /\ tokens \in Nat
  BY CountsAssumption DEF IInv
<1>1. TypeOK'
  BY <1>0 DEF CheckBudget, TypeOK, managerVars, routerVars, Underway
<1>2. FutureUnspent' /\ used' = used /\ today' = today
  BY DEF CheckBudget, IInv, FutureUnspent, managerVars
<1>3. ASSUME NEW s \in DOMAIN Limits, NEW k \in Keys PROVE Bound(s, k)'
  <2>0. Bound(s, k)
    BY DEF IInv, OvershootBounded, Bound
  <2>1. CASE Active(s, a) /\ KeyOf(s, w, a, d) = k
    <3>1. used[s][k] \in Nat /\ used[s][k] <= Limits[s].hard
      BY <1>0, <2>1, DayRange, AdmittedBelowHard DEF CheckBudget
    <3> QED BY <1>2, <3>1, BelowHardIsBounded
  <2>2. CASE ~(Active(s, a) /\ KeyOf(s, w, a, d) = k)
    <3>1. Pending(s, k)' \subseteq Pending(s, k)
      BY <1>0, <1>2, <2>2 DEF Pending, CheckBudget, TypeOK, Active, KeyOf
    <3> QED BY <1>0, <1>2, <2>0, <3>1, FewerPendingKeepsBound
  <2> QED BY <2>1, <2>2
<1>4. OvershootBounded'
  BY <1>3 DEF OvershootBounded, Bound
<1>5. ReadsOK'
  BY <1>0 DEF CheckBudget, IInv, ReadsOK, TypeOK, routerVars
<1>6. RouterUndercounts'
  BY DEF CheckBudget, IInv, RouterUndercounts, routerVars
<1> QED BY <1>1, <1>2, <1>4, <1>5, <1>6 DEF IInv

(* A call that ends without being recorded.                                *)
LEMMA EndKeeps ==
  ASSUME IInv, NEW c \in Callers, End(c), UNCHANGED <<managerVars, routerVars>>
  PROVE  IInv'
<1>0. TypeOK /\ MaxCost \in Nat
  BY CountsAssumption DEF IInv
<1>1. TypeOK'
  BY <1>0, DayRange DEF End, TypeOK, managerVars, routerVars, Underway
<1>2. FutureUnspent' /\ used' = used /\ today' = today
  BY DEF IInv, FutureUnspent, managerVars
<1>3. ASSUME NEW s \in DOMAIN Limits, NEW k \in Keys PROVE Bound(s, k)'
  <2>1. Bound(s, k)
    BY DEF IInv, OvershootBounded, Bound
  <2>2. Pending(s, k)' \subseteq Pending(s, k)
    BY <1>0, <1>2 DEF Pending, End, TypeOK, Active, KeyOf, Underway
  <2> QED BY <1>0, <1>2, <2>1, <2>2, FewerPendingKeepsBound
<1>4. OvershootBounded'
  BY <1>3 DEF OvershootBounded, Bound
<1>5. ReadsOK'
  BY <1>0 DEF End, IInv, ReadsOK, TypeOK, routerVars
<1>6. RouterUndercounts'
  BY DEF IInv, RouterUndercounts, routerVars
<1> QED BY <1>1, <1>2, <1>4, <1>5, <1>6 DEF IInv

LEMMA CallProviderKeeps ==
  ASSUME IInv, NEW c \in Callers, CallProvider(c)
  PROVE  IInv'
<1>0. TypeOK /\ workflow[c] \in Workflows
  BY DEF IInv, CallProvider, TypeOK, Underway
<1>1. TypeOK'
  BY <1>0 DEF CallProvider, TypeOK, managerVars, Underway
<1>2. FutureUnspent' /\ used' = used /\ today' = today
  BY DEF CallProvider, IInv, FutureUnspent, managerVars
<1>3. ASSUME NEW s \in DOMAIN Limits, NEW k \in Keys PROVE Bound(s, k)'
  <2>1. Bound(s, k)
    BY DEF IInv, OvershootBounded, Bound
  <2>2. Pending(s, k)' \subseteq Pending(s, k)
    BY <1>0, <1>2 DEF Pending, CallProvider, TypeOK, Active, KeyOf, Underway
  <2> QED BY <1>0, <1>2, <2>1, <2>2, FewerPendingKeepsBound
<1>4. OvershootBounded'
  BY <1>3 DEF OvershootBounded, Bound
<1>5. ReadsOK'
  <2>1. ReadsOK /\ RouterUndercounts
    BY DEF IInv
  <2>2. /\ usedSoFar'[c] = usage[workflow[c]] /\ phase'[c] = "calling"
        /\ \A d \in Callers \ {c} : usedSoFar'[d] = usedSoFar[d] /\ phase'[d] = phase[d]
        /\ workflow' = workflow /\ usage' = usage /\ spent' = spent
        /\ overlapped \subseteq overlapped'
        /\ Calling(workflow[c]) # {} => workflow[c] \in overlapped'
    BY <1>0 DEF CallProvider, TypeOK
  <2>3. ASSUME NEW d \in Callers \ {c}, phase[d] = "calling", workflow[d] = workflow[c]
        PROVE  workflow[c] \in overlapped'
    BY <2>2, <2>3 DEF Calling
  <2> HIDE DEF CallProvider
  <2> QED BY <1>0, <2>1, <2>2, <2>3 DEF ReadsOK, RouterUndercounts, TypeOK
<1>6. RouterUndercounts'
  BY <1>0 DEF CallProvider, IInv, RouterUndercounts
<1> QED BY <1>1, <1>2, <1>4, <1>5, <1>6 DEF IInv

LEMMA ProviderAnswersKeeps ==
  ASSUME IInv, NEW c \in Callers, NEW tokens \in 0 .. MaxCost, ProviderAnswers(c, tokens)
  PROVE  IInv'
<1>0. TypeOK /\ MaxCost \in Nat /\ workflow[c] \in Workflows /\ tokens \in Nat
  BY CountsAssumption DEF IInv, ProviderAnswers, TypeOK, Underway
<1>1. TypeOK'
  BY <1>0 DEF ProviderAnswers, TypeOK, managerVars, Underway
<1>2. FutureUnspent' /\ used' = used /\ today' = today
  BY DEF ProviderAnswers, IInv, FutureUnspent, managerVars
<1>3. ASSUME NEW s \in DOMAIN Limits, NEW k \in Keys PROVE Bound(s, k)'
  <2>1. Bound(s, k)
    BY DEF IInv, OvershootBounded, Bound
  <2>2. Pending(s, k)' \subseteq Pending(s, k)
    BY <1>0, <1>2 DEF Pending, ProviderAnswers, TypeOK, Active, KeyOf, Underway
  <2> QED BY <1>0, <1>2, <2>1, <2>2, FewerPendingKeepsBound
<1>4. OvershootBounded'
  BY <1>3 DEF OvershootBounded, Bound
<1>5. ReadsOK' /\ RouterUndercounts'
  <2>1. ReadsOK /\ RouterUndercounts
    BY DEF IInv
  <2>2. /\ phase[c] = "calling" /\ phase'[c] = "answered"
        /\ \A d \in Callers \ {c} : phase'[d] = phase[d]
        /\ usage'[workflow[c]] = usedSoFar[c] + tokens
        /\ spent'[workflow[c]] = spent[workflow[c]] + tokens
        /\ \A v \in Workflows \ {workflow[c]} : usage'[v] = usage[v] /\ spent'[v] = spent[v]
        /\ workflow' = workflow /\ usedSoFar' = usedSoFar /\ overlapped' = overlapped
    BY <1>0 DEF ProviderAnswers, TypeOK
  <2>3. /\ \A v \in Workflows : spent[v] \in Nat /\ usage[v] \in Nat
        /\ \A d \in Callers : usedSoFar[d] \in Nat
        /\ \A d \in Callers : phase[d] = "calling" => workflow[d] \in Workflows
    BY <1>0 DEF TypeOK, Underway
  <2>4. RouterUndercounts'
    BY <1>0, <2>1, <2>2, <2>3 DEF ReadsOK, RouterUndercounts
  <2>5. ReadsOK'
    BY <1>0, <2>1, <2>2, <2>3 DEF ReadsOK
  <2> QED BY <2>4, <2>5
<1> QED BY <1>1, <1>2, <1>4, <1>5 DEF IInv

(* Recording a call takes it from what is pending to what is used.         *)
LEMMA RecordSpendKeeps ==
  ASSUME IInv, NEW c \in Callers, RecordSpend(c)
  PROVE  IInv'
<1>0. /\ TypeOK /\ MaxCost \in Nat /\ workflow[c] \in Workflows
      /\ agent[c] \in AgentIds \cup {"none"} /\ cost[c] \in 0 .. MaxCost
      /\ day[c] \in 0 .. LastDay /\ day[c] <= today /\ phase[c] = "answered"
  BY CountsAssumption, DayRange DEF IInv, RecordSpend, TypeOK, Underway
<1> DEFINE K(s) == KeyOf(s, workflow[c], agent[c], day[c])
<1>1. ASSUME NEW s \in DOMAIN Limits, Active(s, agent[c])
      PROVE  K(s) \in Keys
  BY <1>0, <1>1, KeyKnown
<1>2. ASSUME NEW s \in DOMAIN Limits
      PROVE  used'[s] = IF Active(s, agent[c])
                          THEN [used[s] EXCEPT ![K(s)] = used[s][K(s)] + cost[c]]
                          ELSE used[s]
  BY DEF RecordSpend, Charged
<1>3. used' \in [DOMAIN Limits -> [Keys -> Nat]]
  <2>1. ASSUME NEW s \in DOMAIN Limits PROVE used'[s] \in [Keys -> Nat]
    <3>1. used[s] \in [Keys -> Nat] /\ cost[c] \in Nat
      BY <1>0 DEF TypeOK
    <3>2. CASE Active(s, agent[c])
      <4>1. PICK k \in Keys : k = K(s)
        BY <1>1, <3>2
      <4>2. used'[s] = [used[s] EXCEPT ![k] = used[s][k] + cost[c]]
        BY <1>2, <3>2, <4>1
      <4> QED BY <3>1, <4>2
    <3>3. CASE ~Active(s, agent[c])
      BY <1>2, <3>1, <3>3
    <3> QED BY <3>2, <3>3
  <2>2. used' = [s \in DOMAIN Limits |-> used'[s]]
    BY DEF RecordSpend, Charged
  <2> QED BY <2>1, <2>2
<1>4. TypeOK'
  BY <1>0, <1>3, DayRange DEF RecordSpend, End, TypeOK, routerVars, Underway
<1>5. FutureUnspent'
  <2>1. ASSUME "day" \in DOMAIN Limits, NEW d \in Days, d > today
        PROVE  used'["day"][d] = 0
    <3>1. d # K("day")
      <4>1. Active("day", agent[c])
        BY <2>1 DEF Active
      <4>2. K("day") \in Days /\ K("day") <= today
        BY <1>0, <2>1, <4>1, KeyKnown
      <4> QED BY <1>0, <2>1, <4>2, DayRange DEF Days
    <3>2. used["day"][d] = 0 /\ used["day"] \in [Keys -> Nat] /\ d \in Keys
      BY <1>0, <2>1 DEF IInv, FutureUnspent, TypeOK, Keys
    <3> QED BY <1>2, <2>1, <3>1, <3>2
  <2> QED BY <2>1 DEF FutureUnspent, RecordSpend
<1>6. ASSUME NEW s \in DOMAIN Limits, NEW k \in Keys PROVE Bound(s, k)'
  <2>0. Bound(s, k)
    BY DEF IInv, OvershootBounded, Bound
  <2>1. Pending(s, k)' = Pending(s, k) \ {c}
    BY <1>0 DEF Pending, RecordSpend, End, TypeOK, Active, KeyOf, Underway
  <2>2. CASE Active(s, agent[c]) /\ K(s) = k
    <3>1. c \in Pending(s, k)
      BY <1>0, <2>2 DEF Pending, Underway
    <3>2. Cardinality(Pending(s, k)') = Cardinality(Pending(s, k)) - 1
      BY <2>1, <3>1, PendingFinite, FS_RemoveElement
    <3>3. Cardinality(Pending(s, k)) # 0
      BY <3>1, PendingFinite, FS_EmptySet
    <3>4. MaxCost * Cardinality(Pending(s, k)')
            = MaxCost * Cardinality(Pending(s, k)) - MaxCost
      BY <1>0, <3>2, <3>3, PendingFinite, TimesLessOne
    <3>5. used'[s][k] = used[s][k] + cost[c] /\ used[s][k] \in Nat
      BY <1>0, <1>1, <1>2, <2>2 DEF TypeOK
    <3>6. /\ MaxCost * Cardinality(Pending(s, k)) \in Nat
          /\ MaxCost * Cardinality(Callers) \in Nat /\ Limits[s].hard \in Nat
      BY <1>0, PendingFinite, LimitsAssumption
    <3> QED BY <1>0, <2>0, <3>4, <3>5, <3>6 DEF Bound
  <2>3. CASE ~(Active(s, agent[c]) /\ K(s) = k)
    <3>1. used'[s][k] = used[s][k]
      BY <1>0, <1>1, <1>2, <2>3 DEF TypeOK
    <3> QED BY <1>0, <2>0, <2>1, <3>1, FewerPendingKeepsBound
  <2> QED BY <2>2, <2>3
<1>7. OvershootBounded'
  BY <1>6 DEF OvershootBounded, Bound
<1>8. ReadsOK'
  BY <1>0 DEF RecordSpend, End, IInv, ReadsOK, TypeOK, routerVars
<1>9. RouterUndercounts'
  BY DEF RecordSpend, IInv, RouterUndercounts, routerVars
<1> QED BY <1>4, <1>5, <1>7, <1>8, <1>9 DEF IInv

(* A day that begins has nothing charged to it, whoever is under way; the  *)
(* day that ends is left to those who named it.                            *)
LEMMA MidnightKeeps == IInv /\ Midnight => IInv'
<1> SUFFICES ASSUME IInv, Midnight PROVE IInv'
  OBVIOUS
<1>0. TypeOK /\ MaxCost \in Nat /\ LastDay \in Nat
  BY CountsAssumption DEF IInv
<1>1. TypeOK'
  BY <1>0 DEF Midnight, TypeOK, routerVars, callVars, Days
<1>2. FutureUnspent'
  BY <1>0 DEF Midnight, IInv, FutureUnspent, TypeOK, Days
<1>3. ASSUME NEW s \in DOMAIN Limits, NEW k \in Keys PROVE Bound(s, k)'
  <2>0. Bound(s, k) /\ used' = used /\ used[s][k] \in Nat /\ Limits[s].hard \in Nat
    BY <1>0, LimitsAssumption DEF IInv, OvershootBounded, Bound, Midnight, TypeOK
  <2>1. CASE s = "day" /\ k = today'
    <3>1. used[s][k] = 0
      BY <1>0, <2>1 DEF Midnight, IInv, FutureUnspent, TypeOK, Days
    <3> QED BY <2>0, <3>1, BelowHardIsBounded
  <2>2. CASE s # "day" \/ k # today'
    <3>1. s \in BudgetScope
      BY LimitsAssumption
    <3>2. Pending(s, k)' \subseteq Pending(s, k)
      BY <2>2, <3>1 DEF Pending, Midnight, callVars, Active, KeyOf, BudgetScope
    <3> QED BY <1>0, <2>0, <3>2, FewerPendingKeepsBound
  <2> QED BY <2>1, <2>2
<1>4. OvershootBounded'
  BY <1>3 DEF OvershootBounded, Bound
<1>5. ReadsOK' /\ RouterUndercounts'
  BY DEF Midnight, IInv, ReadsOK, RouterUndercounts, routerVars, callVars
<1> QED BY <1>1, <1>2, <1>4, <1>5 DEF IInv

LEMMA StepIInv == IInv /\ [Next]_vars => IInv'
<1> SUFFICES ASSUME IInv, [Next]_vars PROVE IInv'
  OBVIOUS
<1>1. ASSUME NEW c \in Callers, NEW w \in Workflows, NEW a \in AgentIds \cup {"none"},
             NEW d \in 0 .. today, NEW tokens \in Estimates, CheckBudget(c, w, a, d, tokens)
      PROVE  IInv'
  BY <1>1, CheckBudgetKeeps
<1>2. ASSUME NEW c \in Callers, RefuseBudget(c) PROVE IInv'
  BY <1>2, EndKeeps DEF RefuseBudget
<1>3. ASSUME NEW c \in Callers, CallProvider(c) PROVE IInv'
  BY <1>3, CallProviderKeeps
<1>4. ASSUME NEW c \in Callers, NEW tokens \in 0 .. MaxCost, ProviderAnswers(c, tokens)
      PROVE  IInv'
  BY <1>4, ProviderAnswersKeeps
<1>5. ASSUME NEW c \in Callers, ProviderThrows(c) PROVE IInv'
  BY <1>5, EndKeeps DEF ProviderThrows
<1>6. ASSUME NEW c \in Callers, RecordSpend(c) PROVE IInv'
  BY <1>6, RecordSpendKeeps
<1>7. CASE Midnight
  BY <1>7, MidnightKeeps
<1>8. CASE UNCHANGED vars
  <2>1. /\ UNCHANGED <<used, today, usage, spent, overlapped>>
        /\ UNCHANGED <<phase, workflow, agent, day, usedSoFar, cost>>
    BY <1>8 DEF vars, managerVars, routerVars, callVars
  <2>2. \A s, k : Pending(s, k)' = Pending(s, k)
    BY <2>1 DEF Pending, Active, KeyOf
  <2>3. OvershootBounded'
    BY <2>1, <2>2 DEF IInv, OvershootBounded
  <2>4. TypeOK' /\ FutureUnspent' /\ ReadsOK' /\ RouterUndercounts'
    BY <2>1 DEF IInv, TypeOK, FutureUnspent, ReadsOK, RouterUndercounts
  <2> QED BY <2>3, <2>4 DEF IInv
<1> QED BY <1>1, <1>2, <1>3, <1>4, <1>5, <1>6, <1>7, <1>8 DEF Next

-----------------------------------------------------------------------------
(* The ledgers.  A token is charged to one key of each scope, so the sums  *)
(* of the scopes move together; what a call has yet to record is its cost. *)
Answered(w) == {c \in Callers : phase[c] = "answered" /\ workflow[c] = w}

LedgersBalance ==
  /\ \A w \in Workflows : spent[w] = used["workflow"][w] + SumOf(cost, Answered(w))
  /\ "day" \in DOMAIN Limits =>
       SumOf(used["day"], Days) = SumOf(used["workflow"], Workflows)
  /\ "agent" \in DOMAIN Limits =>
       SumOf(used["agent"], AgentIds) <= SumOf(used["workflow"], Workflows)

LEMMA BalanceIsAgreement == LedgersBalance => LedgersAgree
BY SumFunctionIsSum DEF LedgersBalance, LedgersAgree, Unrecorded, Answered

LEMMA AnsweredFinite ==
  ASSUME TypeOK, NEW w
  PROVE  /\ IsFiniteSet(Answered(w))
         /\ \A c \in Answered(w) : c \in Callers /\ cost[c] \in Nat
<1>1. Answered(w) \subseteq Callers
  BY DEF Answered
<1> QED BY <1>1, CallersAssumption, CountsAssumption, FS_Subset DEF TypeOK

LEMMA DaysFinite == IsFiniteSet(Days)
BY CountsAssumption, FS_Interval DEF Days

LEMMA InitBalance == Init => LedgersBalance
<1> SUFFICES ASSUME Init PROVE LedgersBalance
  OBVIOUS
<1>1. /\ "workflow" \in DOMAIN Limits
      /\ \A s \in DOMAIN Limits, k \in Keys : used[s][k] = 0
  BY LimitsAssumption DEF Init
<1>2. ASSUME NEW w \in Workflows PROVE spent[w] = used["workflow"][w] + SumOf(cost, Answered(w))
  <2>1. Answered(w) = {}
    BY DEF Init, Answered
  <2> QED BY <1>1, <2>1, SumEmpty DEF Init, Keys
<1>3. SumOf(used["workflow"], Workflows) = 0
  BY <1>1, KeysAssumption, SumZero DEF Keys
<1>4. "day" \in DOMAIN Limits => SumOf(used["day"], Days) = 0
  BY <1>1, DaysFinite, SumZero DEF Keys
<1>5. "agent" \in DOMAIN Limits => SumOf(used["agent"], AgentIds) = 0
  BY <1>1, KeysAssumption, SumZero DEF Keys
<1> QED BY <1>2, <1>3, <1>4, <1>5 DEF LedgersBalance

(* A step that charges nobody and answers nobody.                          *)
LEMMA UnchargedKeepsBalance ==
  ASSUME TypeOK, LedgersBalance, used' = used, spent' = spent,
         \A w \in Workflows : Answered(w)' = Answered(w),
         \A w \in Workflows : \A c \in Answered(w) : cost'[c] = cost[c]
  PROVE  LedgersBalance'
<1>1. ASSUME NEW w \in Workflows
      PROVE  SumOf(cost, Answered(w))' = SumOf(cost, Answered(w))
  <2>1. SumOf(cost', Answered(w)) = SumOf(cost, Answered(w))
    BY AnsweredFinite, SumAgree
  <2> QED BY <2>1
<1> QED BY <1>1 DEF LedgersBalance

LEMMA ProviderAnswersBalance ==
  ASSUME TypeOK, LedgersBalance, NEW c \in Callers, NEW tokens \in 0 .. MaxCost,
         ProviderAnswers(c, tokens)
  PROVE  LedgersBalance'
<1>1. /\ tokens \in Nat /\ workflow[c] \in Workflows /\ phase[c] = "calling"
      /\ used' = used /\ workflow' = workflow
      /\ \A w \in Workflows : spent'[w] = IF w = workflow[c] THEN spent[w] + tokens ELSE spent[w]
      /\ \A d \in Callers : cost'[d] = IF d = c THEN tokens ELSE cost[d]
      /\ \A d \in Callers : phase'[d] = IF d = c THEN "answered" ELSE phase[d]
  BY CountsAssumption DEF ProviderAnswers, TypeOK, Underway, managerVars
<1>2. ASSUME NEW w \in Workflows
      PROVE  (spent[w] = used["workflow"][w] + SumOf(cost, Answered(w)))'
  <2>1. /\ IsFiniteSet(Answered(w)) /\ c \notin Answered(w)
        /\ \A d \in Answered(w) : cost'[d] = cost[d] /\ cost[d] \in Nat
    BY <1>1, AnsweredFinite DEF Answered
  <2>2. SumOf(cost', Answered(w)) = SumOf(cost, Answered(w))
    BY <2>1, SumAgree
  <2>3. spent[w] = used["workflow"][w] + SumOf(cost, Answered(w))
    BY DEF LedgersBalance
  <2>4. CASE w = workflow[c]
    <3>1. Answered(w)' = Answered(w) \cup {c}
      BY <1>1, <2>4 DEF Answered
    <3>2. SumOf(cost', Answered(w) \cup {c}) = tokens + SumOf(cost', Answered(w))
      BY <1>1, <2>1, SumAdd
    <3>3. SumOf(cost, Answered(w)) \in Nat /\ used["workflow"][w] \in Nat
      BY <2>1, SumType, LimitsAssumption DEF TypeOK, Keys
    <3>4. SumOf(cost, Answered(w))' = tokens + SumOf(cost, Answered(w))
      BY <2>2, <3>1, <3>2
    <3> QED BY <1>1, <2>3, <2>4, <3>3, <3>4
  <2>5. CASE w # workflow[c]
    <3>1. Answered(w)' = Answered(w)
      BY <1>1, <2>5 DEF Answered
    <3> QED BY <1>1, <2>2, <2>3, <2>5, <3>1
  <2> QED BY <2>4, <2>5
<1> QED BY <1>1, <1>2 DEF LedgersBalance

(* Recording adds the cost to one workflow, to the day, and to the agent   *)
(* if there is one.                                                        *)
LEMMA RecordSpendBalance ==
  ASSUME TypeOK, LedgersBalance, NEW c \in Callers, RecordSpend(c)
  PROVE  LedgersBalance'
<1> DEFINE K(s) == KeyOf(s, workflow[c], agent[c], day[c])
<1>1. /\ cost[c] \in Nat /\ workflow[c] \in Workflows /\ phase[c] = "answered"
      /\ agent[c] \in AgentIds \cup {"none"} /\ spent' = spent
      /\ \A d \in Callers \ {c} :
           cost'[d] = cost[d] /\ phase'[d] = phase[d] /\ workflow'[d] = workflow[d]
      /\ phase'[c] = "idle" /\ day[c] \in 0 .. LastDay
  BY CountsAssumption, DayRange DEF RecordSpend, End, TypeOK, Underway, routerVars
<1>2. ASSUME NEW s \in DOMAIN Limits, Active(s, agent[c]), K(s) \in Keys, NEW k \in Keys
      PROVE  used'[s][k] = IF k = K(s) THEN used[s][k] + cost[c] ELSE used[s][k]
  <2>1. used'[s] = [used[s] EXCEPT ![K(s)] = @ + cost[c]]
    BY <1>2 DEF RecordSpend, Charged
  <2>2. used[s] \in [Keys -> Nat]
    BY DEF TypeOK
  <2> HIDE DEF K
  <2> QED BY <1>2, <2>1, <2>2
<1>3. \A s \in DOMAIN Limits, k \in Keys : used[s][k] \in Nat
  BY DEF TypeOK
<1>4. "workflow" \in DOMAIN Limits /\ Active("workflow", agent[c]) /\ K("workflow") = workflow[c]
  BY LimitsAssumption DEF Active, KeyOf
<1>5. \A k \in Workflows : used'["workflow"][k] =
        IF k = workflow[c] THEN used["workflow"][k] + cost[c] ELSE used["workflow"][k]
  BY <1>1, <1>2, <1>4 DEF Keys
<1>6. SumOf(used'["workflow"], Workflows) = SumOf(used["workflow"], Workflows) + cost[c]
  BY <1>1, <1>3, <1>4, <1>5, KeysAssumption, SumChange DEF Keys
<1>7. ASSUME "day" \in DOMAIN Limits
      PROVE  SumOf(used'["day"], Days) = SumOf(used["day"], Days) + cost[c]
  <2>1. Active("day", agent[c]) /\ K("day") \in Days
    BY <1>1, <1>7, KeyKnown DEF Active
  <2>2. \A k \in Days : used'["day"][k] =
          IF k = K("day") THEN used["day"][k] + cost[c] ELSE used["day"][k]
    BY <1>2, <1>7, <2>1 DEF Keys
  <2> QED BY <1>1, <1>3, <1>7, <2>1, <2>2, DaysFinite, SumChange DEF Keys
<1>8. ASSUME "agent" \in DOMAIN Limits
      PROVE  SumOf(used'["agent"], AgentIds) \in
               {SumOf(used["agent"], AgentIds), SumOf(used["agent"], AgentIds) + cost[c]}
  <2>1. CASE agent[c] = "none"
    <3>1. used'["agent"] = used["agent"]
      BY <1>8, <2>1 DEF RecordSpend, Charged, Active
    <3> QED BY <3>1
  <2>2. CASE agent[c] # "none"
    <3>1. Active("agent", agent[c]) /\ K("agent") = agent[c] /\ agent[c] \in AgentIds
      BY <1>1, <1>8, <2>2 DEF Active, KeyOf
    <3>2. \A k \in AgentIds : used'["agent"][k] =
            IF k = agent[c] THEN used["agent"][k] + cost[c] ELSE used["agent"][k]
      BY <1>2, <1>8, <3>1 DEF Keys
    <3>3. SumOf(used'["agent"], AgentIds) = SumOf(used["agent"], AgentIds) + cost[c]
      BY <1>1, <1>3, <1>8, <3>1, <3>2, KeysAssumption, SumChange DEF Keys
    <3> QED BY <3>3
  <2> QED BY <2>1, <2>2
<1>9. ASSUME NEW w \in Workflows
      PROVE  (spent[w] = used["workflow"][w] + SumOf(cost, Answered(w)))'
  <2>1. IsFiniteSet(Answered(w)) /\ \A d \in Answered(w) : cost[d] \in Nat
    BY AnsweredFinite
  <2>2. Answered(w)' = Answered(w) \ {c}
    BY <1>1 DEF Answered
  <2>3. \A d \in Answered(w) \ {c} : cost'[d] = cost[d]
    BY <1>1 DEF Answered
  <2>4. IsFiniteSet(Answered(w) \ {c})
    BY <2>1, FS_Subset
  <2>5. SumOf(cost', Answered(w) \ {c}) = SumOf(cost, Answered(w) \ {c})
    BY <2>3, <2>4, SumAgree
  <2>6. SumOf(cost, Answered(w))' = SumOf(cost, Answered(w) \ {c})
    BY <2>2, <2>5
  <2>7. SumOf(cost, Answered(w) \ {c}) \in Nat /\ used["workflow"][w] \in Nat
    BY <1>3, <1>4, <2>1, <2>4, SumType DEF Keys
  <2>8. spent[w] = used["workflow"][w] + SumOf(cost, Answered(w))
    BY DEF LedgersBalance
  <2>9. CASE w = workflow[c]
    <3>1. c \in Answered(w)
      BY <1>1, <2>9 DEF Answered
    <3>2. SumOf(cost, Answered(w)) = cost[c] + SumOf(cost, Answered(w) \ {c})
      BY <2>1, <3>1, SumRemove
    <3> QED BY <1>1, <1>5, <2>6, <2>7, <2>8, <2>9, <3>2
  <2>10. CASE w # workflow[c]
    <3>1. Answered(w) \ {c} = Answered(w)
      BY <2>10 DEF Answered
    <3> QED BY <1>1, <1>5, <2>6, <2>8, <2>10, <3>1
  <2> QED BY <2>9, <2>10
<1>10. SumOf(used["workflow"], Workflows) \in Nat
  BY <1>3, <1>4, KeysAssumption, SumType DEF Keys
<1>11. "day" \in DOMAIN Limits =>
         SumOf(used'["day"], Days) = SumOf(used'["workflow"], Workflows)
  BY <1>6, <1>7 DEF LedgersBalance
<1>12. "agent" \in DOMAIN Limits =>
         SumOf(used'["agent"], AgentIds) <= SumOf(used'["workflow"], Workflows)
  <2> SUFFICES ASSUME "agent" \in DOMAIN Limits
               PROVE  SumOf(used'["agent"], AgentIds) <= SumOf(used'["workflow"], Workflows)
    OBVIOUS
  <2>1. SumOf(used["agent"], AgentIds) \in Nat
    BY <1>3, KeysAssumption, SumType DEF Keys
  <2>2. SumOf(used["agent"], AgentIds) <= SumOf(used["workflow"], Workflows)
    BY DEF LedgersBalance
  <2> QED BY <1>1, <1>6, <1>8, <1>10, <2>1, <2>2
<1> QED BY <1>9, <1>11, <1>12 DEF LedgersBalance

LEMMA StepBalance == TypeOK /\ LedgersBalance /\ [Next]_vars => LedgersBalance'
<1> SUFFICES ASSUME TypeOK, LedgersBalance, [Next]_vars PROVE LedgersBalance'
  OBVIOUS
<1>1. ASSUME NEW c \in Callers, NEW w \in Workflows, NEW a \in AgentIds \cup {"none"},
             NEW d \in 0 .. today, NEW tokens \in Estimates, CheckBudget(c, w, a, d, tokens)
      PROVE  LedgersBalance'
  BY <1>1, UnchargedKeepsBalance
     DEF CheckBudget, TypeOK, Answered, managerVars, routerVars
<1>2. ASSUME NEW c \in Callers, phase[c] \in {"admitted", "calling"}, End(c),
             UNCHANGED <<managerVars, routerVars>>
      PROVE  LedgersBalance'
  BY <1>2, UnchargedKeepsBalance DEF End, TypeOK, Answered, managerVars, routerVars
<1>3. ASSUME NEW c \in Callers, CallProvider(c) PROVE LedgersBalance'
  BY <1>3, UnchargedKeepsBalance DEF CallProvider, TypeOK, Answered, managerVars
<1>4. ASSUME NEW c \in Callers, NEW tokens \in 0 .. MaxCost, ProviderAnswers(c, tokens)
      PROVE  LedgersBalance'
  BY <1>4, ProviderAnswersBalance
<1>5. ASSUME NEW c \in Callers, RecordSpend(c) PROVE LedgersBalance'
  BY <1>5, RecordSpendBalance
<1>6. CASE Midnight
  BY <1>6, UnchargedKeepsBalance DEF Midnight, Answered, routerVars, callVars
<1>7. CASE UNCHANGED vars
  BY <1>7, UnchargedKeepsBalance DEF vars, Answered, managerVars, routerVars, callVars
<1> QED BY <1>1, <1>2, <1>3, <1>4, <1>5, <1>6, <1>7 DEF Next, RefuseBudget, ProviderThrows

-----------------------------------------------------------------------------
(* The books of manager and router stay in their ranges, for any limits,   *)
(* number of callers and costs.                                            *)
THEOREM TypeCorrect == Spec => []TypeOK
<1>1. IInv => TypeOK
  BY DEF IInv
<1> QED BY <1>1, InitIInv, StepIInv, PTL DEF Spec

(* BudgetManager.check and record: on every scope and key, concurrent      *)
(* callers overshoot the hard limit by at most one call each.              *)
THEOREM OvershootIsBounded == Spec => []OvershootBounded
<1>1. IInv => OvershootBounded
  BY DEF IInv
<1> QED BY <1>1, InitIInv, StepIInv, PTL DEF Spec

(* BudgetManager.record with ModelRouter.generate: what the answers of a   *)
(* workflow cost is in its books or still to be recorded, the days add up  *)
(* to the workflows and the agents to no more, for any number of keys.     *)
THEOREM LedgersAlwaysAgree == Spec => []LedgersAgree
<1>1. Init => IInv /\ LedgersBalance
  BY InitIInv, InitBalance
<1>2. IInv /\ LedgersBalance /\ [Next]_vars => IInv' /\ LedgersBalance'
  BY StepIInv, StepBalance DEF IInv
<1>3. LedgersBalance => LedgersAgree
  BY BalanceIsAgreement
<1> QED BY <1>1, <1>2, <1>3, PTL DEF Spec

(* ModelRouter.generate: its usage never exceeds what was spent, and is    *)
(* what was spent unless calls of the workflow overlapped.                 *)
THEOREM RouterNeverOvercounts == Spec => []RouterUndercounts
<1>1. IInv => RouterUndercounts
  BY DEF IInv
<1> QED BY <1>1, InitIInv, StepIInv, PTL DEF Spec

(* BudgetManager.check: in every state and for every input, its decision   *)
(* is that of the strictest scope, and it leaves what was asked for.       *)
THEOREM VerdictsStrictest == Spec => []VerdictIsStrictest
<1>1. ASSUME TypeOK PROVE VerdictIsStrictest
  <2> SUFFICES ASSUME NEW w \in Workflows, NEW a \in AgentIds \cup {"none"},
                      NEW d \in Days, NEW tokens \in Estimates
      PROVE LET v == Verdict(w, a, d, tokens)
                hard == \E s \in DOMAIN Limits : Over(s, w, a, d, tokens, Limits[s].hard)
                soft == \E s \in DOMAIN Limits : Over(s, w, a, d, tokens, Limits[s].soft)
            IN /\ v.decision = "cutoff" <=> hard
               /\ v.decision = "downshift" <=> soft /\ ~hard
               /\ v.decision # "cutoff" => v.remaining >= tokens
    BY DEF VerdictIsStrictest
  <2> DEFINE H(s) == Over(s, w, a, d, tokens, Limits[s].hard)
             S(s) == Over(s, w, a, d, tokens, Limits[s].soft)
             Good(v, hard, soft) ==
               /\ v.decision = "cutoff" <=> hard
               /\ v.decision = "downshift" <=> soft /\ ~hard
               /\ v.decision \in {"ok", "downshift", "cutoff"}
               /\ v.decision # "cutoff" => v.remaining >= tokens
             v1 == Narrowed(Unlimited, "workflow", w, a, d, tokens)
             v2 == Narrowed(v1, "agent", w, a, d, tokens)
             v3 == Narrowed(v2, "day", w, a, d, tokens)
  <2>1. ASSUME NEW s \in DOMAIN Limits, Active(s, a), ~H(s)
        PROVE  Remaining(s, KeyOf(s, w, a, d)) >= tokens
    <3>1. s \in BudgetScope
      BY LimitsAssumption
    <3>2. KeyOf(s, w, a, d) \in Keys
      BY <1>1, <2>1, <3>1 DEF KeyOf, Keys, Active, TypeOK, BudgetScope
    <3>3. used[s][KeyOf(s, w, a, d)] \in Nat /\ Limits[s].hard \in Nat /\ tokens \in Nat
      BY <1>1, <3>2, LimitsAssumption, CountsAssumption DEF TypeOK
    <3> QED BY <2>1, <3>3 DEF Over, Remaining
  <2>2. ASSUME NEW v, NEW hard \in BOOLEAN, NEW soft \in BOOLEAN, Good(v, hard, soft), NEW s
        PROVE  Good(Narrowed(v, s, w, a, d, tokens), hard \/ H(s), soft \/ S(s))
    <3>1. CASE ~Active(s, a)
      BY <2>2, <3>1 DEF Narrowed, Over
    <3>2. CASE Active(s, a) /\ v.decision = "cutoff"
      BY <2>2, <3>2 DEF Narrowed
    <3>3. CASE Active(s, a) /\ v.decision # "cutoff" /\ H(s)
      BY <2>2, <3>3 DEF Narrowed
    <3>4. CASE Active(s, a) /\ v.decision = "downshift" /\ ~H(s)
      BY <2>2, <3>4 DEF Narrowed
    <3>5. CASE Active(s, a) /\ v.decision = "ok" /\ ~H(s)
      <4>1. Remaining(s, KeyOf(s, w, a, d)) >= tokens
        BY <2>1, <3>5 DEF Active
      <4> QED BY <2>2, <3>5, <4>1 DEF Narrowed
    <3> QED BY <2>2, <3>1, <3>2, <3>3, <3>4, <3>5
  <2>3. Good(v1, H("workflow"), S("workflow"))
    <3>1. Active("workflow", a)
      BY LimitsAssumption DEF Active
    <3>2. ~H("workflow") => Remaining("workflow", KeyOf("workflow", w, a, d)) >= tokens
      BY <2>1, <3>1 DEF Active
    <3> QED BY <3>1, <3>2 DEF Narrowed, Unlimited
  <2> HIDE DEF v1
  <2>4. Good(v2, H("workflow") \/ H("agent"), S("workflow") \/ S("agent"))
    BY <2>2, <2>3
  <2> HIDE DEF v2
  <2>5. Good(v3, (H("workflow") \/ H("agent")) \/ H("day"),
                 (S("workflow") \/ S("agent")) \/ S("day"))
    BY <2>2, <2>4
  <2>6. Verdict(w, a, d, tokens) = v3
    BY DEF Verdict, v1, v2
  <2>7. /\ (\E s \in DOMAIN Limits : H(s)) <=> H("workflow") \/ H("agent") \/ H("day")
        /\ (\E s \in DOMAIN Limits : S(s)) <=> S("workflow") \/ S("agent") \/ S("day")
    BY LimitsAssumption DEF Over, Active, BudgetScope
  <2> QED BY <2>5, <2>6, <2>7
<1> QED BY <1>1, TypeCorrect, PTL
=============================================================================
