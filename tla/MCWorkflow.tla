----------------------------- MODULE MCWorkflow -----------------------------
(***************************************************************************)
(* Instances of Workflow for TLC.  A call shares no state with another     *)
(* one, so one call is enough; its task ranges over every combination of   *)
(* the attributes.                                                         *)
(***************************************************************************)
EXTENDS Workflow

MCDecisions == {[required |-> TRUE, approved |-> FALSE],   \* ConsoleApprovalProvider
                [required |-> TRUE, approved |-> TRUE]}    \* AutoApproveProvider

MCAllTasks == AgentTask

MCSelected == {"none"}

MCForced == StrategyName \cup {"none"}
=============================================================================
