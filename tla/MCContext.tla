------------------------------ MODULE MCContext ------------------------------
(***************************************************************************)
(* An instance of Context for TLC.  Selections repeat an id and name one   *)
(* that may never be registered; only the first item of the thread passes  *)
(* the threshold by itself, and the last one decides nothing.              *)
(***************************************************************************)
EXTENDS Context

CONSTANTS a, b, c, x, y, i1, i2, i3

MCSelections == {<<>>, <<a, b, a>>, <<b, c, a>>}

MCRequests == {<<>>, <<x, y>>}

MCTokens == [i \in Thread |-> IF i = i1 THEN 3 ELSE 2]

MCClaims == [i \in Thread |-> IF i = i3 THEN 0 ELSE 2]
=============================================================================
