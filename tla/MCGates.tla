------------------------------ MODULE MCGates -------------------------------
(***************************************************************************)
(* An instance of Gates for TLC.  The integrator's tools: one of a new     *)
(* name, and one that takes a default tool's name without its guard.       *)
(***************************************************************************)
EXTENDS Gates

MCMoreTools ==
  {[name |-> "deploy.run", requiredPermission |-> "repo:write", stateChanging |-> TRUE],
   [name |-> "repo.write", requiredPermission |-> "repo:read", stateChanging |-> FALSE]}
=============================================================================
