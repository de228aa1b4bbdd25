-------------------------- MODULE DeliveryContract --------------------------
(***************************************************************************)
(* What the Concierge promises one caller, whatever retries and timeouts   *)
(* happen on the wire: a request is opened with a set of candidates that   *)
(* all serve the class asked for; candidates are only ever ruled out, one  *)
(* at a time; the request is answered by a candidate, refused by one, or   *)
(* reported to the core when none is left.  No other container ever joins. *)
(***************************************************************************)
CONSTANTS Callers, Containers, Classes, Serves

VARIABLES standing,    \* how each caller's request stands
          wanted,      \* the class it asks for
          candidates   \* the containers that may still answer it

contractVars == <<standing, wanted, candidates>>

ContractInit ==
  /\ standing = [r \in Callers |-> "idle"]
  /\ wanted = [r \in Callers |-> "none"]
  /\ candidates = [r \in Callers |-> {}]

Open(r, cl, S) ==
  /\ standing[r] # "open"
  /\ \A c \in S : cl \in Serves[c]
  /\ standing' = [standing EXCEPT ![r] = IF S = {} THEN "reported" ELSE "open"]
  /\ wanted' = [wanted EXCEPT ![r] = cl]
  /\ candidates' = [candidates EXCEPT ![r] = S]

RuleOut(r, c) ==
  /\ standing[r] = "open"
  /\ c \in candidates[r]
  /\ candidates' = [candidates EXCEPT ![r] = @ \ {c}]
  /\ standing' = [standing EXCEPT ![r] =
                    IF candidates[r] = {c} THEN "reported" ELSE @]
  /\ UNCHANGED wanted

Conclude(r) ==
  /\ standing[r] = "open"
  /\ candidates[r] # {}
  /\ \E end \in {"answered", "refused"} :
        standing' = [standing EXCEPT ![r] = end]
  /\ UNCHANGED <<wanted, candidates>>

ContractNext ==
  \E r \in Callers :
     \/ \E cl \in Classes, S \in SUBSET Containers : Open(r, cl, S)
     \/ \E c \in Containers : RuleOut(r, c)
     \/ Conclude(r)

Contract == ContractInit /\ [][ContractNext]_contractVars
=============================================================================
