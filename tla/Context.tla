------------------------------- MODULE Context -------------------------------
(***************************************************************************)
(* What a workflow keeps in its context: ProgressiveContextLoader, which   *)
(* loads the bodies of selected skills one after the other and then the    *)
(* references asked for, and ThreadCompactor, which has a thread of items  *)
(* summarised.  Both await code of others at every body, reference and     *)
(* summary; meanwhile skills are registered and the thread goes on.        *)
(*                                                                         *)
(* A step of a load is the code from one await to the next.                *)
(***************************************************************************)
EXTENDS Naturals, Sequences, FiniteSetsExt

CONSTANTS
  Loads,       \* calls of load
  Skills,      \* ids of skills
  Selections,  \* the sequences of ids that are selected
  References,  \* ids of references
  Requests,    \* the sequences of them that are asked for
  Thread,      \* the items of the thread
  Tokens,      \* approxTokens of each item
  Claims,      \* the number of its claims
  Threshold,   \* thresholdTokens
  Compactions  \* calls of compact

ASSUME SelectionsAssumption == Selections \subseteq Seq(Skills)
ASSUME RequestsAssumption == Requests \subseteq Seq(References)
ASSUME ThreadAssumption ==
  /\ Threshold \in Nat
  /\ Tokens \in [Thread -> Nat]
  /\ Claims \in [Thread -> Nat]

VARIABLES
  registered,       \* the skills of the loader
  referenceLoader,  \* whether one is set
  stage,            \* how each load stands
  selected,         \* its selectedSkillIds
  requested,        \* its referenceIds
  place,            \* the index of the id or reference it awaits
  catalog, bodies, references,  \* the context it builds
  level2            \* the bodies it has paid for

VARIABLES
  items,            \* the thread so far
  compacting,       \* how each compaction stands
  summarised,       \* the items its summariser was given
  record            \* what it returned

loadVars == <<stage, selected, requested, place, catalog, bodies, references, level2>>
compactionVars == <<compacting, summarised, record>>
vars == <<registered, referenceLoader, loadVars, items, compactionVars>>

NoRecord == [ids |-> {}, preservedDecisionCount |-> 0, tokensBefore |-> 0]

Init ==
  /\ registered = {}
  /\ referenceLoader = FALSE
  /\ stage = [l \in Loads |-> "idle"]
  /\ selected = [l \in Loads |-> <<>>]
  /\ requested = [l \in Loads |-> <<>>]
  /\ place = [l \in Loads |-> 0]
  /\ catalog = [l \in Loads |-> {}]
  /\ bodies = [l \in Loads |-> {}]
  /\ references = [l \in Loads |-> {}]
  /\ level2 = [l \in Loads |-> 0]
  /\ items = {}
  /\ compacting = [k \in Compactions |-> "idle"]
  /\ summarised = [k \in Compactions |-> {}]
  /\ record = [k \in Compactions |-> NoRecord]

-----------------------------------------------------------------------------
(* ProgressiveContextLoader.                                               *)

(* A known id is refused.                                                  *)
Register(s) ==
  /\ s \notin registered
  /\ registered' = registered \cup {s}
  /\ UNCHANGED <<referenceLoader, loadVars, items, compactionVars>>

SetReferenceLoader ==
  /\ ~referenceLoader
  /\ referenceLoader' = TRUE
  /\ UNCHANGED <<registered, loadVars, items, compactionVars>>

(* Fault seed: the walk ends at the first id nobody registered.            *)
IsNextKnownOrStops(ids, i, j) == j = i /\ ids[j] \in registered

(* From its i-th id on, a load next awaits the body of the j-th: those     *)
(* before are unknown by now and skipped.                                  *)
IsNextKnown(ids, i, j) ==
  /\ j >= i
  /\ ids[j] \in registered
  /\ \A h \in i .. j - 1 : ids[h] \notin registered

MoveTo(l, how, i) ==
  /\ stage' = [stage EXCEPT ![l] = how]
  /\ place' = [place EXCEPT ![l] = i]

(* Bodies, from the i-th id on; then the references, all of which are      *)
(* skipped at once if there is no loader for them.                         *)
GoesOn(l, ids, refs, i) ==
  \/ \E j \in DOMAIN ids : IsNextKnown(ids, i, j) /\ MoveTo(l, "bodies", j)
  \/ /\ ~\E j \in DOMAIN ids : IsNextKnown(ids, i, j)
     /\ IF referenceLoader /\ refs # <<>>
          THEN MoveTo(l, "references", 1)
          ELSE MoveTo(l, "done", 0)

(* load: the catalog is taken before the first body is awaited.            *)
Load(l, ids, refs) ==
  /\ stage[l] = "idle"
  /\ selected' = [selected EXCEPT ![l] = ids]
  /\ requested' = [requested EXCEPT ![l] = refs]
  /\ catalog' = [catalog EXCEPT ![l] = registered]
  /\ GoesOn(l, ids, refs, 1)
  /\ UNCHANGED <<registered, referenceLoader, bodies, references, level2,
                 items, compactionVars>>

(* The awaited body is there; an id selected twice is loaded, and paid     *)
(* for, twice.                                                             *)
BodyLoaded(l) ==
  /\ stage[l] = "bodies"
  /\ bodies' = [bodies EXCEPT ![l] = @ \cup {selected[l][place[l]]}]
  /\ level2' = [level2 EXCEPT ![l] = @ + 1]
  /\ GoesOn(l, selected[l], requested[l], place[l] + 1)
  /\ UNCHANGED <<registered, referenceLoader, selected, requested, catalog,
                 references, items, compactionVars>>

ReferenceLoaded(l) ==
  /\ stage[l] = "references"
  /\ references' = [references EXCEPT ![l] = @ \cup {requested[l][place[l]]}]
  /\ IF place[l] < Len(requested[l])
       THEN MoveTo(l, "references", place[l] + 1)
       ELSE MoveTo(l, "done", 0)
  /\ UNCHANGED <<registered, referenceLoader, selected, requested, catalog,
                 bodies, level2, items, compactionVars>>

(* A callback throws: so does load, and what it had loaded is lost.        *)
LoaderThrows(l) ==
  /\ stage[l] \in {"bodies", "references"}
  /\ MoveTo(l, "failed", 0)
  /\ bodies' = [bodies EXCEPT ![l] = {}]
  /\ references' = [references EXCEPT ![l] = {}]
  /\ level2' = [level2 EXCEPT ![l] = 0]
  /\ UNCHANGED <<registered, referenceLoader, selected, requested, catalog,
                 items, compactionVars>>

-----------------------------------------------------------------------------
(* ThreadCompactor.                                                        *)

Total(weight, S) == MapThenSumSet(LAMBDA i : weight[i], S)

ShouldCompact == Total(Tokens, items) > Threshold

(* The workflow goes on: the array it gave to compact grows.               *)
AppendItem(i) ==
  /\ items' = items \cup {i}
  /\ i \notin items
  /\ UNCHANGED <<registered, referenceLoader, loadVars, compactionVars>>

(* compact, up to the summariser it awaits.  Its callers are to ask        *)
(* shouldCompact first; the array stays theirs.                            *)
Compact(k) ==
  /\ compacting[k] = "idle"
  /\ ShouldCompact
  /\ compacting' = [compacting EXCEPT ![k] = "summarising"]
  /\ summarised' = [summarised EXCEPT ![k] = items]
  /\ record' = [record EXCEPT ![k].tokensBefore = Total(Tokens, items)]
  /\ UNCHANGED <<registered, referenceLoader, loadVars, items>>

(* Fault seed: the claims counted are those that were summarised.          *)
SummariseReturnsCountingEarly(k) ==
  /\ compacting[k] = "summarising"
  /\ compacting' = [compacting EXCEPT ![k] = "done"]
  /\ record' = [record EXCEPT
       ![k].ids = items,
       ![k].preservedDecisionCount = Total(Claims, summarised[k])]
  /\ UNCHANGED <<registered, referenceLoader, loadVars, items, summarised>>

(* The record lists, and counts the claims of, what the array holds now.   *)
SummariseReturns(k) ==
  /\ compacting[k] = "summarising"
  /\ compacting' = [compacting EXCEPT ![k] = "done"]
  /\ record' = [record EXCEPT
       ![k].ids = items,
       ![k].preservedDecisionCount = Total(Claims, items)]
  /\ UNCHANGED <<registered, referenceLoader, loadVars, items, summarised>>

SummariseThrows(k) ==
  /\ compacting[k] = "summarising"
  /\ compacting' = [compacting EXCEPT ![k] = "failed"]
  /\ UNCHANGED <<registered, referenceLoader, loadVars, items, summarised, record>>

-----------------------------------------------------------------------------
Next ==
  \/ \E s \in Skills : Register(s)
  \/ SetReferenceLoader
  \/ \E l \in Loads :
       \/ \E ids \in Selections, refs \in Requests : Load(l, ids, refs)
       \/ BodyLoaded(l)
       \/ ReferenceLoaded(l)
       \/ LoaderThrows(l)
  \/ \E i \in Thread : AppendItem(i)
  \/ \E k \in Compactions : Compact(k) \/ SummariseReturns(k) \/ SummariseThrows(k)

Spec == Init /\ [][Next]_vars

-----------------------------------------------------------------------------
Mentioned(ids) == {ids[i] : i \in DOMAIN ids}
Occurrences(ids, S) == Cardinality({i \in DOMAIN ids : ids[i] \in S})

(* The context a load returns: every selected skill its catalog names has  *)
(* its body there, whatever else was unknown on the way; a body its        *)
(* catalog does not name is of a skill registered meanwhile; references    *)
(* are all there or none; and level 2 is paid for each selection of a      *)
(* skill of the catalog, never for one without a body.                     *)
ContextComplete ==
  \A l \in Loads : stage[l] = "done" =>
     /\ Mentioned(selected[l]) \cap catalog[l] \subseteq bodies[l]
     /\ bodies[l] \subseteq Mentioned(selected[l]) \cap registered
     /\ references[l] \in {{}, Mentioned(requested[l])}
     /\ level2[l] \in Occurrences(selected[l], catalog[l])
                        .. Occurrences(selected[l], bodies[l])

(* A compaction record accounts for what it lists: all that was summarised *)
(* is listed, the claims of all that is listed are counted, and what is    *)
(* listed but was never seen by the summariser is exactly what             *)
(* tokensBefore leaves out.                                                *)
RecordAccounts ==
  \A k \in Compactions : compacting[k] = "done" =>
     /\ summarised[k] \subseteq record[k].ids
     /\ record[k].preservedDecisionCount = Total(Claims, record[k].ids)
     /\ record[k].tokensBefore + Total(Tokens, record[k].ids \ summarised[k])
          = Total(Tokens, record[k].ids)
=============================================================================
