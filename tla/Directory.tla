------------------------------ MODULE Directory ------------------------------
(***************************************************************************)
(* What the services promise each other about users: auth-service          *)
(* registers them, and core-service comes to know only users who were      *)
(* registered before.  Neither forgets one.  How the news travels, and     *)
(* whether it arrives, is left open.                                       *)
(***************************************************************************)
CONSTANT Users

VARIABLES
  registered,   \* users who have an account
  known         \* users whom teams and shares can refer to

Init == registered = {} /\ known = {}

Register(u) ==
  /\ u \notin registered
  /\ registered' = registered \cup {u}
  /\ UNCHANGED known

Learn(u) ==
  /\ u \in registered \ known
  /\ known' = known \cup {u}
  /\ UNCHANGED registered

Next == \E u \in Users : Register(u) \/ Learn(u)

Spec == Init /\ [][Next]_<<registered, known>>
=============================================================================
