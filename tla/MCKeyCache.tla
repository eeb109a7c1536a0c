----------------------------- MODULE MCKeyCache -----------------------------
(* Instances of KeyCache for TLC. *)
EXTENDS KeyCache, TLC

CONSTANTS p1, p2
=============================================================================
