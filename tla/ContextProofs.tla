---------------------------- MODULE ContextProofs ----------------------------
(***************************************************************************)
(* The context a load returns and the record a compaction returns, for     *)
(* every selection, thread and number of loads and compactions at work.    *)
(*                                                                         *)
(* A load is understood through the part of the selection it has walked    *)
(* over: a skill of its catalog is never skipped, because the catalog only *)
(* names registered skills and nothing is ever unregistered.               *)
(***************************************************************************)
EXTENDS Context, Sums

(* How many of the first n ids are in S.                                   *)
Places(ids, n, S) == {i \in 1 .. n : ids[i] \in S}
Count(ids, n, S) == Cardinality(Places(ids, n, S))

(* What a walk over the first n ids has loaded and paid for.               *)
Walked(ids, n, known, loaded, paid) ==
  /\ \A i \in 1 .. n : ids[i] \in known => ids[i] \in loaded
  /\ loaded \subseteq {ids[i] : i \in 1 .. n}
  /\ paid \in Count(ids, n, known) .. Count(ids, n, loaded)

WalkedTo(l) == IF stage[l] = "bodies" THEN place[l] - 1 ELSE Len(selected[l])

TypeOK ==
  /\ stage \in [Loads -> {"idle", "bodies", "references", "done", "failed"}]
  /\ place \in [Loads -> Nat]
  /\ selected \in [Loads -> Seq(Skills)]
  /\ requested \in [Loads -> Seq(References)]
  /\ catalog \in [Loads -> SUBSET registered]
  /\ bodies \in [Loads -> SUBSET registered]
  /\ references \in [Loads -> SUBSET References]
  /\ level2 \in [Loads -> Nat]
  /\ registered \in SUBSET Skills

(* A load that has begun: the walk so far, and the references so far.      *)
LoadOK(l) ==
  /\ stage[l] = "idle" => bodies[l] = {} /\ references[l] = {} /\ level2[l] = 0
  /\ stage[l] = "bodies" =>
       place[l] \in DOMAIN selected[l] /\ selected[l][place[l]] \in registered
  /\ stage[l] = "references" =>
       /\ place[l] \in DOMAIN requested[l]
       /\ references[l] = {requested[l][i] : i \in 1 .. place[l] - 1}
  /\ stage[l] = "bodies" => references[l] = {}
  /\ stage[l] \in {"bodies", "references", "done"} =>
       Walked(selected[l], WalkedTo(l), catalog[l], bodies[l], level2[l])
  /\ stage[l] = "done" => references[l] \in {{}, Mentioned(requested[l])}

LoadInv == TypeOK /\ \A l \in Loads : LoadOK(l)

CompactionTypeOK ==
  /\ items \in SUBSET Thread
  /\ IsFiniteSet(items)
  /\ compacting \in [Compactions -> {"idle", "summarising", "done", "failed"}]
  /\ summarised \in [Compactions -> SUBSET items]
  /\ record \in [Compactions -> [ids : SUBSET items, preservedDecisionCount : Nat,
                                 tokensBefore : Nat]]

(* A compaction that has begun knows what it gave the summariser.          *)
RecordOK(k) ==
  /\ compacting[k] \in {"summarising", "done"} =>
       record[k].tokensBefore = SumOf(Tokens, summarised[k])
  /\ compacting[k] = "done" =>
       /\ summarised[k] \subseteq record[k].ids
       /\ record[k].preservedDecisionCount = SumOf(Claims, record[k].ids)

CompactionInv == CompactionTypeOK /\ \A k \in Compactions : RecordOK(k)

-----------------------------------------------------------------------------
(* Counting the places of a walk.                                          *)
LEMMA PlacesFinite ==
  ASSUME NEW ids, NEW n \in Nat, NEW S
  PROVE  IsFiniteSet(Places(ids, n, S)) /\ Count(ids, n, S) \in Nat
<1>1. IsFiniteSet(1 .. n) /\ Places(ids, n, S) \subseteq 1 .. n
  BY FS_Interval DEF Places
<1> QED BY <1>1, FS_Subset, FS_CardinalityType DEF Count

LEMMA CountMonotone ==
  ASSUME NEW ids, NEW m \in Nat, NEW n \in Nat, NEW S, NEW T,
         Places(ids, m, S) \subseteq Places(ids, n, T)
  PROVE  Count(ids, m, S) <= Count(ids, n, T)
BY PlacesFinite, FS_Subset DEF Count

LEMMA CountNext ==
  ASSUME NEW ids, NEW n \in Nat, NEW S
  PROVE  Count(ids, n + 1, S) = IF ids[n + 1] \in S THEN Count(ids, n, S) + 1
                                ELSE Count(ids, n, S)
<1>1. n + 1 \notin Places(ids, n, S)
  BY DEF Places
<1>2. CASE ids[n + 1] \in S
  <2>1. Places(ids, n + 1, S) = Places(ids, n, S) \cup {n + 1}
    BY <1>2 DEF Places
  <2> QED BY <1>1, <1>2, <2>1, PlacesFinite, FS_AddElement DEF Count
<1>3. CASE ids[n + 1] \notin S
  <2>1. Places(ids, n + 1, S) = Places(ids, n, S)
    BY <1>3 DEF Places
  <2> QED BY <1>3, <2>1 DEF Count
<1> QED BY <1>2, <1>3

LEMMA WalkBegins ==
  ASSUME NEW ids, NEW known
  PROVE  Walked(ids, 0, known, {}, 0)
<1>1. Places(ids, 0, known) = {} /\ Places(ids, 0, {}) = {}
  BY DEF Places
<1> QED BY <1>1, FS_EmptySet DEF Walked, Count

(* What is not known may be walked over.                                   *)
LEMMA WalkSkips ==
  ASSUME NEW ids, NEW m \in Nat, NEW n \in Nat, m <= n, NEW known, NEW loaded, NEW paid \in Nat,
         Walked(ids, m, known, loaded, paid),
         \A i \in m + 1 .. n : ids[i] \notin known
  PROVE  Walked(ids, n, known, loaded, paid)
<1>1. \A i \in 1 .. n : i \in 1 .. m \/ i \in m + 1 .. n
  OBVIOUS
<1>2. 1 .. m \subseteq 1 .. n
  OBVIOUS
<1>3. Places(ids, n, known) = Places(ids, m, known)
  BY <1>1, <1>2 DEF Places
<1>4. Count(ids, m, loaded) <= Count(ids, n, loaded)
  BY <1>2, CountMonotone DEF Places
<1>5. paid \in Count(ids, n, known) .. Count(ids, n, loaded)
  BY <1>3, <1>4, PlacesFinite DEF Walked, Count
<1> QED BY <1>1, <1>2, <1>5 DEF Walked

(* The next is loaded and paid for, known or not.                          *)
LEMMA WalkLoads ==
  ASSUME NEW ids, NEW n \in Nat, NEW known, NEW loaded, NEW paid \in Nat,
         Walked(ids, n, known, loaded, paid)
  PROVE  Walked(ids, n + 1, known, loaded \cup {ids[n + 1]}, paid + 1)
<1> DEFINE more == loaded \cup {ids[n + 1]}
<1>1. 1 .. n + 1 = (1 .. n) \cup {n + 1}
  OBVIOUS
<1>2. \A i \in 1 .. n + 1 : ids[i] \in known => ids[i] \in more
  BY <1>1 DEF Walked
<1>3. more \subseteq {ids[i] : i \in 1 .. n + 1}
  BY <1>1 DEF Walked
<1>4. Count(ids, n, loaded) <= Count(ids, n, more)
  BY CountMonotone DEF Places
<1>5. Count(ids, n + 1, more) = Count(ids, n, more) + 1
  BY CountNext
<1>6. Count(ids, n + 1, known) <= Count(ids, n, known) + 1
  BY CountNext, PlacesFinite
<1>7. paid + 1 \in Count(ids, n + 1, known) .. Count(ids, n + 1, more)
  <2>1. /\ Count(ids, n, known) \in Nat /\ Count(ids, n, loaded) \in Nat
        /\ Count(ids, n, more) \in Nat /\ Count(ids, n + 1, known) \in Nat
        /\ Count(ids, n + 1, more) \in Nat
    BY PlacesFinite
  <2>2. Count(ids, n, known) <= paid /\ paid <= Count(ids, n, loaded)
    BY <2>1 DEF Walked
  <2> HIDE DEF more
  <2> QED BY <1>4, <1>5, <1>6, <2>1, <2>2
<1> QED BY <1>2, <1>3, <1>7 DEF Walked

-----------------------------------------------------------------------------
(* ProgressiveContextLoader.                                               *)

(* The other loads keep what they have when skills are only added.         *)
SameLoad(l) ==
  /\ stage'[l] = stage[l] /\ selected'[l] = selected[l] /\ requested'[l] = requested[l]
  /\ place'[l] = place[l] /\ catalog'[l] = catalog[l] /\ bodies'[l] = bodies[l]
  /\ references'[l] = references[l] /\ level2'[l] = level2[l]

LEMMA OthersKeepLoadOK ==
  ASSUME NEW l \in Loads, LoadOK(l), SameLoad(l), registered \subseteq registered'
  PROVE  LoadOK(l)'
BY DEF LoadOK, SameLoad, WalkedTo

(* Wherever a load goes from the i-th id on, it has walked over all that   *)
(* comes before.                                                           *)
LEMMA GoesOnWalks ==
  ASSUME LoadInv, NEW l \in Loads, NEW ids \in Seq(Skills), NEW refs \in Seq(References),
         NEW n \in 0 .. Len(ids), NEW known \in SUBSET registered,
         NEW loaded \in SUBSET registered, NEW paid \in Nat,
         Walked(ids, n, known, loaded, paid), GoesOn(l, ids, refs, n + 1), references[l] = {},
         registered' = registered, references'[l] = {},
         selected'[l] = ids, requested'[l] = refs, catalog'[l] = known,
         bodies'[l] = loaded, level2'[l] = paid
  PROVE  /\ LoadOK(l)'
         /\ stage'[l] \in {"bodies", "references", "done"} /\ place'[l] \in Nat
         /\ stage' = [stage EXCEPT ![l] = stage'[l]] /\ place' = [place EXCEPT ![l] = place'[l]]
<1>0. /\ DOMAIN ids = 1 .. Len(ids) /\ Len(ids) \in Nat /\ n \in Nat
      /\ DOMAIN refs = 1 .. Len(refs) /\ Len(refs) \in Nat
  OBVIOUS
<1>t. stage \in [Loads -> {"idle", "bodies", "references", "done", "failed"}] /\ place \in [Loads -> Nat]
  BY DEF LoadInv, TypeOK
<1>1. CASE \E j \in DOMAIN ids : IsNextKnown(ids, n + 1, j) /\ MoveTo(l, "bodies", j)
  <2>1. PICK j \in DOMAIN ids : IsNextKnown(ids, n + 1, j) /\ MoveTo(l, "bodies", j)
    BY <1>1
  <2>2. /\ stage'[l] = "bodies" /\ place'[l] = j /\ j \in Nat /\ ids[j] \in registered
        /\ n <= j - 1 /\ j - 1 \in Nat
        /\ stage' = [stage EXCEPT ![l] = stage'[l]] /\ place' = [place EXCEPT ![l] = place'[l]]
    BY <1>0, <1>t, <2>1 DEF IsNextKnown, MoveTo
  <2>3. \A i \in n + 1 .. j - 1 : ids[i] \notin known
    BY <2>1 DEF IsNextKnown
  <2>4. Walked(ids, j - 1, known, loaded, paid)
    BY <1>0, <2>2, <2>3, WalkSkips
  <2> QED BY <2>1, <2>2, <2>4 DEF LoadOK, WalkedTo
<1>2. CASE ~\E j \in DOMAIN ids : IsNextKnown(ids, n + 1, j)
  <2>1. \A i \in n + 1 .. Len(ids) : ids[i] \notin known
    <3> DEFINE R == {i \in n + 1 .. Len(ids) : ids[i] \in registered}
    <3> SUFFICES ASSUME R # {} PROVE FALSE
      BY <1>0
    <3>1. PICK j \in R : \A i \in R : j <= i
      <4>1. R \in SUBSET Nat
        BY <1>0
      <4> HIDE DEF R
      <4> QED BY <4>1, LeastOfNumbers
    <3>2. IsNextKnown(ids, n + 1, j) /\ j \in DOMAIN ids
      BY <1>0, <3>1 DEF IsNextKnown
    <3> QED BY <1>2, <3>2
  <2>2. Walked(ids, Len(ids), known, loaded, paid)
    BY <1>0, <2>1, WalkSkips
  <2>3. CASE referenceLoader /\ refs # <<>>
    <3>1. MoveTo(l, "references", 1)
      BY <1>2, <2>3 DEF GoesOn
    <3>2. /\ stage'[l] = "references" /\ place'[l] = 1 /\ 1 \in DOMAIN refs
          /\ stage' = [stage EXCEPT ![l] = stage'[l]] /\ place' = [place EXCEPT ![l] = place'[l]]
      BY <1>0, <1>t, <2>3, <3>1 DEF MoveTo
    <3>3. {refs[i] : i \in 1 .. 1 - 1} = {}
      OBVIOUS
    <3> QED BY <2>2, <3>2, <3>3 DEF LoadOK, WalkedTo
  <2>4. CASE ~(referenceLoader /\ refs # <<>>)
    <3>1. MoveTo(l, "done", 0)
      BY <1>2, <2>4 DEF GoesOn
    <3>2. /\ stage'[l] = "done" /\ place'[l] = 0
          /\ stage' = [stage EXCEPT ![l] = stage'[l]] /\ place' = [place EXCEPT ![l] = place'[l]]
      BY <1>t, <3>1 DEF MoveTo
    <3> QED BY <2>2, <3>2 DEF LoadOK, WalkedTo
  <2> QED BY <2>3, <2>4
<1> QED BY <1>1, <1>2 DEF GoesOn

LEMMA InitLoadInv == Init => LoadInv
BY DEF Init, LoadInv, TypeOK, LoadOK

LEMMA LoadKeeps ==
  ASSUME LoadInv, NEW l \in Loads, NEW ids \in Selections, NEW refs \in Requests,
         Load(l, ids, refs)
  PROVE  LoadInv'
<1>1. ids \in Seq(Skills) /\ refs \in Seq(References) /\ Len(ids) \in Nat
  BY SelectionsAssumption, RequestsAssumption
<1>2. /\ selected' = [selected EXCEPT ![l] = ids] /\ requested' = [requested EXCEPT ![l] = refs]
      /\ catalog' = [catalog EXCEPT ![l] = registered] /\ registered' = registered
      /\ bodies' = bodies /\ references' = references /\ level2' = level2
      /\ GoesOn(l, ids, refs, 1) /\ stage[l] = "idle"
  BY DEF Load
<1>3. TypeOK /\ bodies[l] = {} /\ references[l] = {} /\ level2[l] = 0
  BY <1>2 DEF LoadInv, LoadOK
<1>4. /\ LoadOK(l)'
      /\ stage'[l] \in {"bodies", "references", "done"} /\ place'[l] \in Nat
      /\ stage' = [stage EXCEPT ![l] = stage'[l]] /\ place' = [place EXCEPT ![l] = place'[l]]
  <2>1. Walked(ids, 0, registered, {}, 0)
    BY WalkBegins
  <2>2. /\ selected'[l] = ids /\ requested'[l] = refs /\ catalog'[l] = registered
        /\ bodies'[l] = {} /\ references'[l] = {} /\ level2'[l] = 0
        /\ GoesOn(l, ids, refs, 0 + 1) /\ 0 \in 0 .. Len(ids)
    BY <1>1, <1>2, <1>3 DEF TypeOK
  <2> QED BY <1>1, <1>2, <1>3, <2>1, <2>2, GoesOnWalks
<1>5. TypeOK'
  BY <1>1, <1>2, <1>3, <1>4 DEF TypeOK
<1>6. \A m \in Loads \ {l} : SameLoad(m)
  BY <1>2, <1>3, <1>4 DEF SameLoad, TypeOK
<1> QED BY <1>2, <1>4, <1>5, <1>6, OthersKeepLoadOK DEF LoadInv

LEMMA BodyLoadedKeeps ==
  ASSUME LoadInv, NEW l \in Loads, BodyLoaded(l)
  PROVE  LoadInv'
<1> DEFINE ids == selected[l]
           loaded == bodies[l] \cup {ids[place[l]]}
<1>1. /\ bodies' = [bodies EXCEPT ![l] = loaded] /\ level2' = [level2 EXCEPT ![l] = @ + 1]
      /\ GoesOn(l, ids, requested[l], place[l] + 1) /\ stage[l] = "bodies"
      /\ registered' = registered /\ selected' = selected /\ requested' = requested
      /\ catalog' = catalog /\ references' = references
  BY DEF BodyLoaded
<1>2. TypeOK /\ LoadOK(l)
  BY DEF LoadInv
<1>3. /\ ids \in Seq(Skills) /\ requested[l] \in Seq(References) /\ Len(ids) \in Nat
      /\ place[l] \in 1 .. Len(ids) /\ ids[place[l]] \in registered /\ references[l] = {}
      /\ bodies[l] \in SUBSET registered /\ catalog[l] \in SUBSET registered /\ level2[l] \in Nat
      /\ Walked(ids, place[l] - 1, catalog[l], bodies[l], level2[l])
  BY <1>1, <1>2 DEF TypeOK, LoadOK, WalkedTo
<1>4. Walked(ids, place[l], catalog[l], loaded, level2[l] + 1)
  <2>1. place[l] - 1 \in Nat /\ (place[l] - 1) + 1 = place[l]
    BY <1>3
  <2>2. Walked(ids, (place[l] - 1) + 1, catalog[l],
               bodies[l] \cup {ids[(place[l] - 1) + 1]}, level2[l] + 1)
    BY <1>3, <2>1, WalkLoads
  <2> QED BY <2>1, <2>2
<1>5. /\ LoadOK(l)'
      /\ stage'[l] \in {"bodies", "references", "done"} /\ place'[l] \in Nat
      /\ stage' = [stage EXCEPT ![l] = stage'[l]] /\ place' = [place EXCEPT ![l] = place'[l]]
  <2>1. /\ selected'[l] = ids /\ requested'[l] = requested[l] /\ catalog'[l] = catalog[l]
        /\ bodies'[l] = loaded /\ references'[l] = {} /\ level2'[l] = level2[l] + 1
        /\ loaded \in SUBSET registered /\ level2[l] + 1 \in Nat /\ place[l] \in 0 .. Len(ids)
    BY <1>1, <1>2, <1>3 DEF TypeOK
  <2> HIDE DEF ids, loaded
  <2> QED BY <1>1, <1>3, <1>4, <2>1, GoesOnWalks
<1>6. TypeOK'
  <2>1. loaded \in SUBSET registered /\ level2[l] + 1 \in Nat
    BY <1>3
  <2> HIDE DEF loaded
  <2> QED BY <1>1, <1>2, <2>1, <1>5 DEF TypeOK
<1>7. \A m \in Loads \ {l} : SameLoad(m)
  BY <1>1, <1>2, <1>5 DEF SameLoad, TypeOK
<1> QED BY <1>1, <1>5, <1>6, <1>7, OthersKeepLoadOK DEF LoadInv

LEMMA ReferenceLoadedKeeps ==
  ASSUME LoadInv, NEW l \in Loads, ReferenceLoaded(l)
  PROVE  LoadInv'
<1> DEFINE refs == requested[l]
           more == references[l] \cup {refs[place[l]]}
<1>1. /\ references' = [references EXCEPT ![l] = more] /\ stage[l] = "references"
      /\ registered' = registered /\ selected' = selected /\ requested' = requested
      /\ catalog' = catalog /\ bodies' = bodies /\ level2' = level2
  BY DEF ReferenceLoaded
<1>2. TypeOK /\ LoadOK(l)
  BY DEF LoadInv
<1>3. /\ refs \in Seq(References) /\ Len(refs) \in Nat /\ place[l] \in 1 .. Len(refs)
      /\ references[l] = {refs[i] : i \in 1 .. place[l] - 1}
      /\ Walked(selected[l], Len(selected[l]), catalog[l], bodies[l], level2[l])
  BY <1>1, <1>2 DEF TypeOK, LoadOK, WalkedTo
<1>4. more = {refs[i] : i \in 1 .. place[l]}
  <2>1. 1 .. place[l] = (1 .. place[l] - 1) \cup {place[l]}
    BY <1>3
  <2> QED BY <1>3, <2>1
<1>5. more \in SUBSET References /\ references'[l] = more
  BY <1>1, <1>2, <1>3 DEF TypeOK
<1>6. CASE place[l] < Len(refs)
  <2>1. MoveTo(l, "references", place[l] + 1)
    BY <1>6 DEF ReferenceLoaded
  <2>2. /\ stage' = [stage EXCEPT ![l] = "references"]
        /\ place' = [place EXCEPT ![l] = place[l] + 1]
    BY <2>1 DEF MoveTo
  <2>3. /\ stage'[l] = "references" /\ place'[l] = place[l] + 1
        /\ place'[l] \in DOMAIN refs /\ place'[l] - 1 = place[l]
    BY <1>2, <1>3, <1>6, <2>2 DEF TypeOK
  <2>4. LoadOK(l)'
    BY <1>1, <1>3, <1>4, <1>5, <2>3 DEF LoadOK, WalkedTo
  <2>5. TypeOK'
    BY <1>1, <1>2, <1>3, <1>5, <2>2 DEF TypeOK
  <2>6. \A m \in Loads \ {l} : SameLoad(m)
    BY <1>1, <1>2, <2>2 DEF SameLoad, TypeOK
  <2> QED BY <1>1, <2>4, <2>5, <2>6, OthersKeepLoadOK DEF LoadInv
<1>7. CASE ~(place[l] < Len(refs))
  <2>1. MoveTo(l, "done", 0)
    BY <1>7 DEF ReferenceLoaded
  <2>2. stage' = [stage EXCEPT ![l] = "done"] /\ place' = [place EXCEPT ![l] = 0]
    BY <2>1 DEF MoveTo
  <2>3. stage'[l] = "done" /\ place[l] = Len(refs)
    BY <1>2, <1>3, <1>7, <2>2 DEF TypeOK
  <2>4. references'[l] = Mentioned(requested[l])
    BY <1>3, <1>4, <1>5, <2>3 DEF Mentioned
  <2>5. LoadOK(l)'
    BY <1>1, <1>3, <2>3, <2>4 DEF LoadOK, WalkedTo
  <2>6. TypeOK'
    BY <1>1, <1>2, <1>5, <2>2 DEF TypeOK
  <2>7. \A m \in Loads \ {l} : SameLoad(m)
    BY <1>1, <1>2, <2>2 DEF SameLoad, TypeOK
  <2> QED BY <1>1, <2>5, <2>6, <2>7, OthersKeepLoadOK DEF LoadInv
<1> QED BY <1>6, <1>7

LEMMA LoaderThrowsKeeps ==
  ASSUME LoadInv, NEW l \in Loads, LoaderThrows(l)
  PROVE  LoadInv'
<1>1. TypeOK
  BY DEF LoadInv
<1>2. TypeOK' /\ stage'[l] = "failed" /\ registered' = registered
  BY <1>1 DEF LoaderThrows, MoveTo, TypeOK
<1>3. LoadOK(l)'
  BY <1>2 DEF LoadOK
<1>4. \A m \in Loads \ {l} : SameLoad(m)
  BY <1>1 DEF LoaderThrows, MoveTo, SameLoad, TypeOK
<1> QED BY <1>2, <1>3, <1>4, OthersKeepLoadOK DEF LoadInv

(* A step of others leaves a load alone, but skills may be registered.     *)
LEMMA ElsewhereKeepsLoads ==
  ASSUME LoadInv, UNCHANGED loadVars, registered \subseteq registered',
         registered' \in SUBSET Skills
  PROVE  LoadInv'
<1>1. TypeOK'
  BY DEF LoadInv, TypeOK, loadVars
<1>2. \A l \in Loads : SameLoad(l)
  BY DEF SameLoad, loadVars
<1> QED BY <1>1, <1>2, OthersKeepLoadOK DEF LoadInv

LEMMA StepLoadInv == LoadInv /\ [Next]_vars => LoadInv'
<1> SUFFICES ASSUME LoadInv, [Next]_vars PROVE LoadInv'
  OBVIOUS
<1>1. registered \in SUBSET Skills
  BY DEF LoadInv, TypeOK
<1>2. ASSUME NEW s \in Skills, Register(s) PROVE LoadInv'
  BY <1>1, <1>2, ElsewhereKeepsLoads DEF Register
<1>3. CASE SetReferenceLoader
  BY <1>1, <1>3, ElsewhereKeepsLoads DEF SetReferenceLoader
<1>4. ASSUME NEW l \in Loads, NEW ids \in Selections, NEW refs \in Requests, Load(l, ids, refs)
      PROVE  LoadInv'
  BY <1>4, LoadKeeps
<1>5. ASSUME NEW l \in Loads, BodyLoaded(l) PROVE LoadInv'
  BY <1>5, BodyLoadedKeeps
<1>6. ASSUME NEW l \in Loads, ReferenceLoaded(l) PROVE LoadInv'
  BY <1>6, ReferenceLoadedKeeps
<1>7. ASSUME NEW l \in Loads, LoaderThrows(l) PROVE LoadInv'
  BY <1>7, LoaderThrowsKeeps
<1>8. ASSUME NEW i \in Thread, AppendItem(i) PROVE LoadInv'
  BY <1>1, <1>8, ElsewhereKeepsLoads DEF AppendItem
<1>9. ASSUME NEW k \in Compactions, Compact(k) \/ SummariseReturns(k) \/ SummariseThrows(k)
      PROVE  LoadInv'
  BY <1>1, <1>9, ElsewhereKeepsLoads DEF Compact, SummariseReturns, SummariseThrows
<1>10. CASE UNCHANGED vars
  BY <1>1, <1>10, ElsewhereKeepsLoads DEF vars
<1> QED BY <1>2, <1>3, <1>4, <1>5, <1>6, <1>7, <1>8, <1>9, <1>10 DEF Next

-----------------------------------------------------------------------------
(* ThreadCompactor.                                                        *)
LEMMA TotalIsSum ==
  ASSUME NEW f, NEW S PROVE Total(f, S) = SumOf(f, S)
BY MapThenSumIsSum DEF Total

LEMMA TotalsAreNumbers ==
  ASSUME NEW S \in SUBSET Thread, IsFiniteSet(S)
  PROVE  SumOf(Tokens, S) \in Nat /\ SumOf(Claims, S) \in Nat
BY ThreadAssumption, SumType

LEMMA InitCompactionInv == Init => CompactionInv
BY FS_EmptySet DEF Init, CompactionInv, CompactionTypeOK, RecordOK, NoRecord

LEMMA CompactKeeps ==
  ASSUME CompactionInv, NEW k \in Compactions, Compact(k)
  PROVE  CompactionInv'
<1>1. CompactionTypeOK
  BY DEF CompactionInv
<1>2. SumOf(Tokens, items) \in Nat
  BY <1>1, TotalsAreNumbers DEF CompactionTypeOK
<1>3. /\ compacting' = [compacting EXCEPT ![k] = "summarising"]
      /\ summarised' = [summarised EXCEPT ![k] = items]
      /\ record' = [record EXCEPT ![k].tokensBefore = SumOf(Tokens, items)]
      /\ items' = items
  BY TotalIsSum DEF Compact
<1>4. CompactionTypeOK'
  BY <1>1, <1>2, <1>3 DEF CompactionTypeOK
<1>5. \A j \in Compactions : RecordOK(j)'
  BY <1>1, <1>3 DEF CompactionInv, CompactionTypeOK, RecordOK
<1> QED BY <1>4, <1>5 DEF CompactionInv

LEMMA SummariseReturnsKeeps ==
  ASSUME CompactionInv, NEW k \in Compactions, SummariseReturns(k)
  PROVE  CompactionInv'
<1>1. CompactionTypeOK
  BY DEF CompactionInv
<1>2. SumOf(Claims, items) \in Nat
  BY <1>1, TotalsAreNumbers DEF CompactionTypeOK
<1>3. /\ compacting' = [compacting EXCEPT ![k] = "done"] /\ compacting[k] = "summarising"
      /\ record' = [record EXCEPT ![k].ids = items,
                                  ![k].preservedDecisionCount = SumOf(Claims, items)]
      /\ items' = items /\ summarised' = summarised
  BY TotalIsSum DEF SummariseReturns
<1>4. CompactionTypeOK'
  BY <1>1, <1>2, <1>3 DEF CompactionTypeOK
<1>5. \A j \in Compactions : RecordOK(j)'
  BY <1>1, <1>3 DEF CompactionInv, CompactionTypeOK, RecordOK
<1> QED BY <1>4, <1>5 DEF CompactionInv

LEMMA StepCompactionInv == CompactionInv /\ [Next]_vars => CompactionInv'
<1> SUFFICES ASSUME CompactionInv, [Next]_vars PROVE CompactionInv'
  OBVIOUS
<1>1. ASSUME UNCHANGED <<items, compactionVars>> PROVE CompactionInv'
  BY <1>1 DEF CompactionInv, CompactionTypeOK, RecordOK, compactionVars
<1>2. ASSUME NEW i \in Thread, AppendItem(i) PROVE CompactionInv'
  <2>1. /\ items' = items \cup {i} /\ UNCHANGED compactionVars
    BY <1>2 DEF AppendItem
  <2>2. CompactionTypeOK'
    BY <2>1, FS_AddElement DEF CompactionInv, CompactionTypeOK, compactionVars
  <2> QED BY <2>1, <2>2 DEF CompactionInv, RecordOK, compactionVars
<1>3. ASSUME NEW k \in Compactions, Compact(k) PROVE CompactionInv'
  BY <1>3, CompactKeeps
<1>4. ASSUME NEW k \in Compactions, SummariseReturns(k) PROVE CompactionInv'
  BY <1>4, SummariseReturnsKeeps
<1>5. ASSUME NEW k \in Compactions, SummariseThrows(k) PROVE CompactionInv'
  BY <1>5 DEF SummariseThrows, CompactionInv, CompactionTypeOK, RecordOK
<1>6. ASSUME NEW l \in Loads,
             \/ \E ids \in Selections, refs \in Requests : Load(l, ids, refs)
             \/ BodyLoaded(l) \/ ReferenceLoaded(l) \/ LoaderThrows(l)
      PROVE  CompactionInv'
  BY <1>1, <1>6 DEF Load, BodyLoaded, ReferenceLoaded, LoaderThrows
<1>7. ASSUME NEW s \in Skills, Register(s) PROVE CompactionInv'
  BY <1>1, <1>7 DEF Register
<1>8. CASE SetReferenceLoader
  BY <1>1, <1>8 DEF SetReferenceLoader
<1>9. CASE UNCHANGED vars
  BY <1>1, <1>9 DEF vars
<1> QED BY <1>2, <1>3, <1>4, <1>5, <1>6, <1>7, <1>8, <1>9 DEF Next

-----------------------------------------------------------------------------
(* ProgressiveContextLoader.load: the context it returns has the body of   *)
(* every selected skill of its catalog and what it paid for, whatever was  *)
(* registered while it awaited its loaders.                                *)
THEOREM ContextsComplete == Spec => []ContextComplete
<1>1. ASSUME LoadInv PROVE ContextComplete
  <2> SUFFICES ASSUME NEW l \in Loads, stage[l] = "done"
        PROVE  /\ Mentioned(selected[l]) \cap catalog[l] \subseteq bodies[l]
               /\ bodies[l] \subseteq Mentioned(selected[l]) \cap registered
               /\ references[l] \in {{}, Mentioned(requested[l])}
               /\ level2[l] \in Occurrences(selected[l], catalog[l])
                                  .. Occurrences(selected[l], bodies[l])
    BY DEF ContextComplete
  <2>1. /\ DOMAIN selected[l] = 1 .. Len(selected[l]) /\ bodies[l] \subseteq registered
        /\ Walked(selected[l], Len(selected[l]), catalog[l], bodies[l], level2[l])
        /\ references[l] \in {{}, Mentioned(requested[l])}
    <3>1. TypeOK /\ LoadOK(l)
      BY <1>1 DEF LoadInv
    <3>2. DOMAIN selected[l] = 1 .. Len(selected[l]) /\ bodies[l] \subseteq registered
      BY <3>1 DEF TypeOK
    <3> QED BY <3>1, <3>2 DEF LoadOK, WalkedTo
  <2>2. \A S : Occurrences(selected[l], S) = Count(selected[l], Len(selected[l]), S)
    BY <2>1 DEF Occurrences, Count, Places
  <2> QED BY <2>1, <2>2 DEF Walked, Mentioned
<1> QED BY <1>1, InitLoadInv, StepLoadInv, PTL DEF Spec

(* ThreadCompactor.compact: its record lists all that was summarised,      *)
(* counts the claims of all it lists, and tokensBefore leaves out exactly  *)
(* what the summariser never saw, however the thread grew meanwhile.       *)
THEOREM RecordsAccount == Spec => []RecordAccounts
<1>1. ASSUME CompactionInv PROVE RecordAccounts
  <2> SUFFICES ASSUME NEW k \in Compactions, compacting[k] = "done"
        PROVE  /\ summarised[k] \subseteq record[k].ids
               /\ record[k].preservedDecisionCount = SumOf(Claims, record[k].ids)
               /\ record[k].tokensBefore + SumOf(Tokens, record[k].ids \ summarised[k])
                    = SumOf(Tokens, record[k].ids)
    BY TotalIsSum DEF RecordAccounts
  <2>1. /\ record[k].ids \in SUBSET Thread /\ IsFiniteSet(record[k].ids)
        /\ summarised[k] \subseteq record[k].ids
        /\ record[k].preservedDecisionCount = SumOf(Claims, record[k].ids)
        /\ record[k].tokensBefore = SumOf(Tokens, summarised[k])
    BY <1>1, FS_Subset DEF CompactionInv, CompactionTypeOK, RecordOK
  <2>2. SumOf(Tokens, record[k].ids)
          = SumOf(Tokens, summarised[k]) + SumOf(Tokens, record[k].ids \ summarised[k])
    BY <2>1, ThreadAssumption, SumSplit
  <2> QED BY <2>1, <2>2
<1> QED BY <1>1, InitCompactionInv, StepCompactionInv, PTL DEF Spec
=============================================================================
