------------------------------- MODULE MCWire -------------------------------
(***************************************************************************)
(* An instance of Wire for TLC: a primary and two backups of one class.    *)
(* The first backup runs in development, all else in production; the       *)
(* second one was built for another version of the protocol.               *)
(***************************************************************************)
EXTENDS Wire

CONSTANTS p1, b1, b2, org, dev

MCRegistry == <<p1, b1, b2>>

MCServes == [c \in {p1, b1, b2} |-> {"cloud-reasoning"}]

MCTier == [c \in {p1, b1, b2} |-> IF c = p1 THEN "primary" ELSE "backup"]

MCMode == [p \in {p1, b1, b2, Core} |-> IF p = b1 THEN "development" ELSE "production"]
=============================================================================
