-------------------------------- MODULE Sums --------------------------------
(***************************************************************************)
(* The sum of a function over a finite set, as the folds of the community  *)
(* modules compute it, and what the proofs about ledgers and totals need   *)
(* of it.  The provers cannot instantiate an induction theorem with a      *)
(* property, so the inductions below are over sets of numbers and of       *)
(* subsets.                                                                *)
(***************************************************************************)
EXTENDS Naturals, FiniteSetsExt, Functions, FiniteSetTheorems, WellFoundedInduction, TLAPS

Pick(s) == CHOOSE x \in s : TRUE

(* The equation that the recursive function of a fold satisfies, over a    *)
(* family of sets.                                                         *)
Adds(h, f, family) ==
  h = [s \in family |-> IF s = {} THEN 0 ELSE f[Pick(s)] + h[s \ {Pick(s)}]]

SumOf(f, S) == (CHOOSE h : Adds(h, f, SUBSET S))[S]

-----------------------------------------------------------------------------
LEMMA NumberInduction ==
  ASSUME NEW Q \in SUBSET Nat, 0 \in Q, \A n \in Q : n + 1 \in Q
  PROVE  Q = Nat
<1> SUFFICES ASSUME Nat \ Q # {} PROVE FALSE
  OBVIOUS
<1>1. IsWellFoundedOn(OpToRel(<, Nat), Nat)
  BY NatLessThanWellFounded
<1>2. \E n \in Nat \ Q : \A m \in Nat \ Q : ~ (<<m, n>> \in OpToRel(<, Nat))
  BY <1>1, WFMin
<1>3. PICK n \in Nat \ Q : \A m \in Nat \ Q : ~ (m < n)
  BY <1>2 DEF OpToRel
<1>4. n # 0 /\ n - 1 \in Nat /\ n - 1 < n /\ (n - 1) + 1 = n
  BY <1>3
<1>5. n - 1 \in Q
  BY <1>3, <1>4
<1> QED BY <1>3, <1>4, <1>5

LEMMA LeastOfNumbers ==
  ASSUME NEW R \in SUBSET Nat, R # {}
  PROVE  \E m \in R : \A n \in R : m <= n
<1>1. IsWellFoundedOn(OpToRel(<, Nat), Nat)
  BY NatLessThanWellFounded
<1>2. PICK m \in R : \A n \in R : ~ (<<n, m>> \in OpToRel(<, Nat))
  BY <1>1, WFMin
<1>3. \A n \in R : ~ (n < m)
  BY <1>2 DEF OpToRel
<1>4. \A n \in R : n \in Nat /\ m \in Nat
  OBVIOUS
<1> QED BY <1>3, <1>4

(* Among subsets of a finite set there is one that has no other below it.  *)
LEMMA MinimalSubset ==
  ASSUME NEW S, IsFiniteSet(S), NEW R \in SUBSET (SUBSET S), R # {}
  PROVE  \E U \in R : \A V \in R : V \subseteq U => V = U
<1>1. IsWellFoundedOn(StrictSubsetOrdering(S), SUBSET S)
  BY FS_StrictSubsetOrderingWellFounded, FS_FiniteSubsetsOfFinite
<1>2. \E U \in R : \A V \in R : ~ (<<V, U>> \in StrictSubsetOrdering(S))
  BY <1>1, WFMin
<1> QED BY <1>2 DEF StrictSubsetOrdering

LEMMA SubsetInduction ==
  ASSUME NEW S, IsFiniteSet(S), NEW Q \in SUBSET (SUBSET S), {} \in Q,
         \A U \in Q : \A x \in S \ U : U \cup {x} \in Q
  PROVE  S \in Q
<1> DEFINE R == (SUBSET S) \ Q
<1> SUFFICES ASSUME R # {} PROVE FALSE
  OBVIOUS
<1>1. PICK U \in R : \A V \in R : V \subseteq U => V = U
  <2> HIDE DEF R
  <2>1. R \in SUBSET (SUBSET S)
    BY DEF R
  <2> QED BY <2>1, MinimalSubset
<1>2. PICK x \in U : TRUE
  BY <1>1
<1>3. U \ {x} \in Q /\ x \in S \ (U \ {x}) /\ U = (U \ {x}) \cup {x}
  BY <1>1, <1>2
<1> QED BY <1>1, <1>3

-----------------------------------------------------------------------------
(* The recursion of a fold over a finite set defines a function: one that  *)
(* does so for the sets of up to k elements extends to those of k + 1.     *)
UpTo(S, k) == {s \in SUBSET S : Cardinality(s) <= k}

LEMMA AddsSomething ==
  ASSUME NEW f, NEW S, IsFiniteSet(S)
  PROVE  \E h : Adds(h, f, SUBSET S)
<1> DEFINE Q == {k \in Nat : \E h : Adds(h, f, UpTo(S, k))}
<1>1. \A s \in SUBSET S : IsFiniteSet(s) /\ Cardinality(s) \in Nat
  BY FS_Subset, FS_CardinalityType
<1>2. \A s \in SUBSET S : s # {} =>
        /\ Pick(s) \in s /\ s \ {Pick(s)} \in SUBSET S
        /\ Cardinality(s \ {Pick(s)}) = Cardinality(s) - 1
  BY <1>1, FS_RemoveElement DEF Pick
<1>3. 0 \in Q
  <2>1. UpTo(S, 0) = {{}}
    BY <1>1, FS_EmptySet DEF UpTo
  <2>2. Adds([s \in {{}} |-> 0], f, {{}})
    BY DEF Adds
  <2> QED BY <2>1, <2>2
<1>4. ASSUME NEW k \in Q PROVE k + 1 \in Q
  <2>1. PICK h : Adds(h, f, UpTo(S, k))
    OBVIOUS
  <2>2. UpTo(S, k) \subseteq UpTo(S, k + 1)
    BY <1>1 DEF UpTo
  <2>3. \A s \in UpTo(S, k + 1) : s # {} => s \ {Pick(s)} \in UpTo(S, k)
    BY <1>1, <1>2 DEF UpTo
  <2> DEFINE longer == [s \in UpTo(S, k + 1) |->
                          IF s = {} THEN 0 ELSE f[Pick(s)] + h[s \ {Pick(s)}]]
  <2>4. \A s \in UpTo(S, k) : longer[s] = h[s]
    BY <2>1, <2>2 DEF Adds
  <2>5. longer = [s \in UpTo(S, k + 1) |->
                    IF s = {} THEN 0 ELSE f[Pick(s)] + longer[s \ {Pick(s)}]]
    <3> HIDE DEF longer
    <3>1. longer = [s \in UpTo(S, k + 1) |->
                    IF s = {} THEN 0 ELSE f[Pick(s)] + h[s \ {Pick(s)}]]
      BY DEF longer
    <3>2. \A s \in UpTo(S, k + 1) : s # {} => longer[s \ {Pick(s)}] = h[s \ {Pick(s)}]
      BY <2>3, <2>4
    <3> QED BY <3>1, <3>2
  <2>6. Adds(longer, f, UpTo(S, k + 1))
    BY <2>5 DEF Adds
  <2> QED BY <2>6
<1>5. Q = Nat
  <2> HIDE DEF Q
  <2>1. Q \in SUBSET Nat
    BY DEF Q
  <2> QED BY <1>3, <1>4, <2>1, NumberInduction
<1>6. UpTo(S, Cardinality(S)) = SUBSET S /\ Cardinality(S) \in Nat
  BY FS_Subset, FS_CardinalityType DEF UpTo
<1>7. PICK h : Adds(h, f, UpTo(S, Cardinality(S)))
  <2>1. Cardinality(S) \in Q
    BY <1>5, <1>6
  <2> QED BY <2>1
<1>8. Adds(h, f, SUBSET S)
  BY <1>6, <1>7
<1> QED BY <1>8

LEMMA SumAdds ==
  ASSUME NEW f, NEW S, IsFiniteSet(S)
  PROVE  \E h : Adds(h, f, SUBSET S) /\ SumOf(f, S) = h[S]
BY AddsSomething DEF SumOf

(* Sums over the subsets are determined by the function on the elements.   *)
Agree(f, g, T) == \A x \in T : f[x] = g[x]

LEMMA AddsAgree ==
  ASSUME NEW f, NEW g, NEW S, NEW T, NEW h, NEW k, IsFiniteSet(S), T \subseteq S,
         Agree(f, g, T), Adds(h, f, SUBSET S), Adds(k, g, SUBSET T)
  PROVE  h[T] = k[T]
<1> DEFINE R == {s \in SUBSET T : h[s] # k[s]}
<1> SUFFICES ASSUME R # {} PROVE FALSE
  OBVIOUS
<1>1. PICK U \in R : \A V \in R : V \subseteq U => V = U
  <2> HIDE DEF R
  <2>1. R \in SUBSET (SUBSET T) /\ IsFiniteSet(T)
    BY FS_Subset DEF R
  <2> QED BY <2>1, MinimalSubset
<1>2. /\ h[U] = IF U = {} THEN 0 ELSE f[Pick(U)] + h[U \ {Pick(U)}]
      /\ k[U] = IF U = {} THEN 0 ELSE g[Pick(U)] + k[U \ {Pick(U)}]
  BY <1>1 DEF Adds
<1>3. U # {}
  BY <1>1, <1>2
<1>4. Pick(U) \in U
  BY <1>3 DEF Pick
<1>5. h[U \ {Pick(U)}] = k[U \ {Pick(U)}]
  BY <1>1, <1>4
<1> QED BY <1>1, <1>2, <1>3, <1>4, <1>5 DEF Agree

(* Any element may be added last.                                          *)
LEMMA AddsAny ==
  ASSUME NEW f, NEW S, IsFiniteSet(S), \A x \in S : f[x] \in Nat,
         NEW h, Adds(h, f, SUBSET S)
  PROVE  \A s \in SUBSET S : /\ h[s] \in Nat
                            /\ \A y \in s : h[s] = f[y] + h[s \ {y}]
<1> DEFINE R == {s \in SUBSET S :
                  ~ (h[s] \in Nat /\ \A y \in s : h[s] = f[y] + h[s \ {y}])}
<1> SUFFICES ASSUME R # {} PROVE FALSE
  OBVIOUS
<1>1. PICK U \in R : \A V \in R : V \subseteq U => V = U
  <2> HIDE DEF R
  <2>1. R \in SUBSET (SUBSET S)
    BY DEF R
  <2> QED BY <2>1, MinimalSubset
<1>2. h[U] = IF U = {} THEN 0 ELSE f[Pick(U)] + h[U \ {Pick(U)}]
  BY <1>1 DEF Adds
<1>3. U # {}
  BY <1>1, <1>2
<1>4. PICK p \in U : f[p] \in Nat /\ h[U] = f[p] + h[U \ {p}]
  BY <1>1, <1>2, <1>3 DEF Pick
<1>5. ASSUME NEW V \in SUBSET U, V # U
      PROVE  h[V] \in Nat /\ \A y \in V : h[V] = f[y] + h[V \ {y}]
  BY <1>1, <1>5
<1>6. h[U \ {p}] \in Nat
  BY <1>5
<1>7. h[U] \in Nat
  BY <1>4, <1>6
<1>8. ASSUME NEW y \in U, y # p PROVE h[U] = f[y] + h[U \ {y}]
  <2>1. h[U \ {p}] = f[y] + h[(U \ {p}) \ {y}]
    <3>1. U \ {p} # U /\ y \in U \ {p}
      BY <1>8
    <3> QED BY <1>5, <3>1
  <2>2. h[U \ {y}] = f[p] + h[(U \ {p}) \ {y}]
    <3>1. U \ {y} # U /\ p \in U \ {y}
      BY <1>8
    <3>2. h[U \ {y}] = f[p] + h[(U \ {y}) \ {p}]
      BY <1>5, <3>1
    <3>3. (U \ {y}) \ {p} = (U \ {p}) \ {y}
      OBVIOUS
    <3> QED BY <3>2, <3>3
  <2>3. h[(U \ {p}) \ {y}] \in Nat
    BY <1>5
  <2>4. f[y] \in Nat
    BY <1>1
  <2> QED BY <1>4, <2>1, <2>2, <2>3, <2>4
<1> QED BY <1>1, <1>4, <1>7, <1>8

-----------------------------------------------------------------------------
LEMMA SumType ==
  ASSUME NEW f, NEW S, IsFiniteSet(S), \A x \in S : f[x] \in Nat
  PROVE  SumOf(f, S) \in Nat
<1>1. PICK h : Adds(h, f, SUBSET S) /\ SumOf(f, S) = h[S]
  BY SumAdds
<1>2. S \in SUBSET S
  OBVIOUS
<1>3. h[S] \in Nat
  BY <1>1, <1>2, AddsAny
<1> QED BY <1>1, <1>3

LEMMA SumEmpty ==
  ASSUME NEW f PROVE SumOf(f, {}) = 0
<1>1. IsFiniteSet({})
  BY FS_EmptySet
<1>2. PICK h : Adds(h, f, SUBSET {}) /\ SumOf(f, {}) = h[{}]
  BY <1>1, SumAdds
<1> QED BY <1>2 DEF Adds

LEMMA SumAgree ==
  ASSUME NEW f, NEW g, NEW S, IsFiniteSet(S), \A x \in S : f[x] = g[x]
  PROVE  SumOf(f, S) = SumOf(g, S)
<1>1. PICK h : Adds(h, f, SUBSET S) /\ SumOf(f, S) = h[S]
  BY SumAdds
<1>2. PICK k : Adds(k, g, SUBSET S) /\ SumOf(g, S) = k[S]
  BY SumAdds
<1>3. S \subseteq S /\ Adds(h, f, SUBSET S) /\ Adds(k, g, SUBSET S) /\ Agree(f, g, S)
  BY <1>1, <1>2 DEF Agree
<1>4. h[S] = k[S]
  BY <1>3, AddsAgree, Zenon
<1> QED BY <1>1, <1>2, <1>4

(* A sum is that of any of its elements and of the others.                 *)
LEMMA SumRemove ==
  ASSUME NEW f, NEW S, IsFiniteSet(S), \A x \in S : f[x] \in Nat, NEW y \in S
  PROVE  SumOf(f, S) = f[y] + SumOf(f, S \ {y})
<1> DEFINE rest == S \ {y}
<1>1. IsFiniteSet(rest) /\ rest \subseteq S
  BY FS_Subset
<1>2. PICK h : Adds(h, f, SUBSET S) /\ SumOf(f, S) = h[S]
  BY SumAdds
<1>3. h[S] = f[y] + h[rest]
  BY <1>2, AddsAny
<1> HIDE DEF rest
<1>4. PICK k : Adds(k, f, SUBSET rest) /\ SumOf(f, rest) = k[rest]
  BY <1>1, SumAdds
<1>5. /\ Agree(f, f, rest) /\ rest \subseteq S
      /\ Adds(h, f, SUBSET S) /\ Adds(k, f, SUBSET rest)
  BY <1>1, <1>2, <1>4 DEF Agree
<1>6. h[rest] = k[rest]
  BY <1>5, AddsAgree, Zenon
<1>7. SumOf(f, S) = f[y] + SumOf(f, rest)
  BY <1>2, <1>3, <1>4, <1>6
<1> QED BY <1>7 DEF rest

LEMMA SumAdd ==
  ASSUME NEW f, NEW S, IsFiniteSet(S), NEW y, y \notin S,
         \A x \in S \cup {y} : f[x] \in Nat
  PROVE  SumOf(f, S \cup {y}) = f[y] + SumOf(f, S)
<1>1. IsFiniteSet(S \cup {y}) /\ (S \cup {y}) \ {y} = S
  BY FS_AddElement
<1> QED BY <1>1, SumRemove

(* It is what the folds of the community modules compute.                  *)
LEMMA SumFunctionIsSum ==
  ASSUME NEW f, NEW S
  PROVE  SumFunctionOnSet(f, S) = SumOf(f, S)
BY Zenon DEF SumFunctionOnSet, FoldFunctionOnSet, MapThenFoldSet, SumOf, Adds, Pick

LEMMA MapThenSumIsSum ==
  ASSUME NEW f, NEW S
  PROVE  MapThenSumSet(LAMBDA i : f[i], S) = SumOf(f, S)
BY Zenon DEF MapThenSumSet, MapThenFoldSet, SumOf, Adds, Pick

(* Adding d to one value adds d to the sum.                                *)
LEMMA SumChange ==
  ASSUME NEW f, NEW g, NEW S, IsFiniteSet(S), NEW y \in S, NEW d \in Nat,
         \A x \in S : f[x] \in Nat, \A x \in S \ {y} : g[x] = f[x], g[y] = f[y] + d
  PROVE  SumOf(g, S) = SumOf(f, S) + d
<1>1. IsFiniteSet(S \ {y})
  BY FS_Subset
<1>2. SumOf(f, S \ {y}) = SumOf(g, S \ {y}) /\ SumOf(f, S \ {y}) \in Nat
  BY <1>1, SumAgree, SumType
<1>3. SumOf(f, S) = f[y] + SumOf(f, S \ {y})
  BY SumRemove
<1>4. SumOf(g, S) = g[y] + SumOf(g, S \ {y})
  <2>1. \A x \in S : g[x] \in Nat
    OBVIOUS
  <2> QED BY <2>1, SumRemove
<1>5. f[y] \in Nat
  OBVIOUS
<1> QED BY <1>2, <1>3, <1>4, <1>5

LEMMA SumZero ==
  ASSUME NEW f, NEW S, IsFiniteSet(S), \A x \in S : f[x] = 0
  PROVE  SumOf(f, S) = 0
<1> DEFINE Q == {U \in SUBSET S : SumOf(f, U) = 0}
<1>1. {} \in Q
  BY SumEmpty
<1>2. ASSUME NEW U \in Q, NEW x \in S \ U PROVE U \cup {x} \in Q
  <2>1. IsFiniteSet(U) /\ \A z \in U \cup {x} : f[z] \in Nat
    BY FS_Subset
  <2>2. SumOf(f, U \cup {x}) = f[x] + SumOf(f, U)
    BY <2>1, SumAdd
  <2> QED BY <2>2
<1> HIDE DEF Q
<1>3. Q \in SUBSET (SUBSET S)
  BY DEF Q
<1>4. S \in Q
  BY <1>1, <1>2, <1>3, SubsetInduction
<1> QED BY <1>4 DEF Q

(* A sum over a part and one over the rest make the whole.                 *)
LEMMA SumSplit ==
  ASSUME NEW f, NEW S, IsFiniteSet(S), \A x \in S : f[x] \in Nat, NEW T \in SUBSET S
  PROVE  SumOf(f, S) = SumOf(f, T) + SumOf(f, S \ T)
<1> DEFINE Q == {U \in SUBSET (S \ T) : SumOf(f, T \cup U) = SumOf(f, T) + SumOf(f, U)}
<1>1. IsFiniteSet(T) /\ IsFiniteSet(S \ T)
  BY FS_Subset
<1>2. {} \in Q
  <2>1. SumOf(f, T) \in Nat
    BY <1>1, SumType
  <2>2. T \cup {} = T
    OBVIOUS
  <2> QED BY <2>1, <2>2, SumEmpty
<1>3. ASSUME NEW U \in Q, NEW x \in (S \ T) \ U PROVE U \cup {x} \in Q
  <2>1. IsFiniteSet(U) /\ IsFiniteSet(T \cup U)
    BY FS_Subset
  <2>2. SumOf(f, U \cup {x}) = f[x] + SumOf(f, U)
    BY <2>1, SumAdd
  <2>3. SumOf(f, (T \cup U) \cup {x}) = f[x] + SumOf(f, T \cup U)
    BY <2>1, SumAdd
  <2>4. SumOf(f, T) \in Nat /\ SumOf(f, U) \in Nat /\ f[x] \in Nat
    BY <1>1, <2>1, SumType
  <2>5. (T \cup U) \cup {x} = T \cup (U \cup {x})
    OBVIOUS
  <2> QED BY <2>2, <2>3, <2>4, <2>5
<1>4. S \ T \in Q
  <2> HIDE DEF Q
  <2>1. Q \in SUBSET (SUBSET (S \ T))
    BY DEF Q
  <2> QED BY <1>1, <1>2, <1>3, <2>1, SubsetInduction
<1>5. T \cup (S \ T) = S
  OBVIOUS
<1> QED BY <1>4, <1>5
=============================================================================
