----------------------------- MODULE MCSessions -----------------------------
(* Instances of Sessions for TLC. *)
EXTENDS Sessions, TLC

CONSTANTS p1, p2

\* One slot rotates, the other rotates, logs out and calls.
Split == p1 :> {"login", "refresh"} @@ p2 :> {"refresh", "logout", "auth", "core"}
RotationsOnly == [p \in Procs |-> {"login", "refresh"}]
=============================================================================
