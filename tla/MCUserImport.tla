---------------------------- MODULE MCUserImport ----------------------------
(* Instances of UserImport for TLC. *)
EXTENDS UserImport, TLC

CONSTANTS a, b

\* The first and the last row name the same user.
TwoAlike == [r \in Rows |-> IF r = 2 THEN b ELSE a]
CleanOrBad == {{}, {2}}
=============================================================================
