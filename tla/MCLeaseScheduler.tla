-------------------------- MODULE MCLeaseScheduler --------------------------
(* An instance of LeaseScheduler for TLC. *)
EXTENDS LeaseScheduler, TLC

CONSTANTS w1, w2, c1, c2, c3

\* Two processes; the first runs two consumers under one owner label.
SharedOwner == (c1 :> w1) @@ (c2 :> w1) @@ (c3 :> w2)

\* The second process's clock runs one tick ahead.
Ahead == [w \in Worker |-> IF w = w2 THEN 1 ELSE 0]
=============================================================================
