-------------------------- MODULE WorkflowContract --------------------------
(***************************************************************************)
(* What one run of the orchestrator promises its caller, without strategy, *)
(* model, budget or storage: agents are run one at a time, a proposal of   *)
(* Ra stays open until a human decision, nothing further is run while one  *)
(* is open, and the run ends exactly once, in one of four ways.  A run can *)
(* end "completed" only with no proposal open and "approval_required" only *)
(* with one open.                                                          *)
(***************************************************************************)
EXTENDS Naturals

CONSTANT Workflows

VARIABLES stage,      \* how far each run is
          proposal,   \* Ra's proposal in each run
          runs        \* how many agent results each run has collected

contractVars == <<stage, proposal, runs>>

Ends == {"completed", "approval_required", "failed", "rejected"}

ContractInit ==
  /\ stage = [w \in Workflows |-> "idle"]
  /\ proposal = [w \in Workflows |-> "none"]
  /\ runs = [w \in Workflows |-> 0]

Begin(w) ==
  /\ stage[w] = "idle"
  /\ stage' = [stage EXCEPT ![w] = "active"]
  /\ UNCHANGED <<proposal, runs>>

(* An agent's result is collected; Ra's opens a proposal.                  *)
Work(w) ==
  /\ stage[w] = "active"
  /\ proposal[w] # "open"
  /\ runs' = [runs EXCEPT ![w] = @ + 1]
  /\ \/ UNCHANGED proposal
     \/ proposal[w] = "none" /\ proposal' = [proposal EXCEPT ![w] = "open"]
  /\ UNCHANGED stage

Grant(w) ==
  /\ stage[w] = "active"
  /\ proposal[w] = "open"
  /\ proposal' = [proposal EXCEPT ![w] = "granted"]
  /\ UNCHANGED <<stage, runs>>

Halt(w) ==
  /\ stage[w] = "active"
  /\ proposal[w] = "open"
  /\ stage' = [stage EXCEPT ![w] = "approval_required"]
  /\ UNCHANGED <<proposal, runs>>

Finish(w) ==
  /\ stage[w] = "active"
  /\ proposal[w] # "open"
  /\ runs[w] > 0
  /\ stage' = [stage EXCEPT ![w] = "completed"]
  /\ UNCHANGED <<proposal, runs>>

(* A run may fail at any point; it is rejected when not even the failure   *)
(* could be recorded, which may be before it began.                        *)
Abort(w) ==
  /\ \/ stage[w] = "active"
        /\ \E end \in {"failed", "rejected"} : stage' = [stage EXCEPT ![w] = end]
     \/ stage[w] = "idle" /\ stage' = [stage EXCEPT ![w] = "rejected"]
  /\ UNCHANGED <<proposal, runs>>

ContractNext ==
  \E w \in Workflows :
     Begin(w) \/ Work(w) \/ Grant(w) \/ Halt(w) \/ Finish(w) \/ Abort(w)

(* A run that began ends.                                                  *)
Closes(w) == stage[w] = "active" ~> stage[w] \in Ends

Contract == ContractInit /\ [][ContractNext]_contractVars
=============================================================================
