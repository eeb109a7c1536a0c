--------------------------- MODULE MCUserEvents -----------------------------
(* Instances of UserEvents for TLC. *)
EXTENDS UserEvents, TLC

CONSTANTS a, b, p1, p2
=============================================================================
