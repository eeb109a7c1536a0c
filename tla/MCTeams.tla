------------------------------ MODULE MCTeams -------------------------------
(* Instances of Teams for TLC. *)
EXTENDS Teams, TLC

CONSTANTS alice, bob, p1, p2

\* alice creates the team and rules it; bob, whom she may promote, manages it
\* meanwhile and lists its members.
RulerAndManager == p1 :> {"create", "add", "remove", "promote", "demote"} \X {alice}
                @@ p2 :> {"add", "remove", "members"} \X {bob}
=============================================================================
