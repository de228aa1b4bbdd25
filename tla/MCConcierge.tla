---------------------------- MODULE MCConcierge -----------------------------
(***************************************************************************)
(* An instance of Concierge for TLC: two primaries and a backup, two       *)
(* classes, of which the first primary serves both.  The backup is         *)
(* registered between the primaries, so the tier order is not the          *)
(* registration order.                                                     *)
(***************************************************************************)
EXTENDS Concierge

CONSTANTS p1, p2, b1

MCRegistry == <<p1, b1, p2>>

MCServes == [c \in {p1, b1, p2} |->
               IF c = p1 THEN {"cloud-reasoning", "cloud-coding"}
                         ELSE {"cloud-reasoning"}]

MCTier == [c \in {p1, b1, p2} |-> IF c = b1 THEN "backup" ELSE "primary"]

(* One failure of each way of being handled.                               *)
MCFailures == {[kind |-> "unauthorized", retryable |-> FALSE],
               [kind |-> "overloaded", retryable |-> TRUE],
               [kind |-> "undefined", retryable |-> FALSE]}
=============================================================================
