----------------------------- MODULE MCSpending -----------------------------
(***************************************************************************)
(* An instance of Spending for TLC: two callers, two workflows, an agent   *)
(* and two days, all three scopes.                                         *)
(***************************************************************************)
EXTENDS Spending, TLC

(* The day's limits are the tightest to reach over two workflows, the      *)
(* workflow's over two days.                                               *)
MCLimits == [s \in BudgetScope |-> [hard |-> 2, soft |-> 1]]

MCSymmetry == Permutations(Callers) \cup Permutations(Workflows)
=============================================================================
