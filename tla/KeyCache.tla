------------------------------ MODULE KeyCache -------------------------------
(***************************************************************************)
(* The public keys that core-service verifies tokens with.  auth-service   *)
(* serves the key it was started with as its JWKS, always under the same   *)
(* kid; JWKSClient of core-service keeps by kid what it has fetched, and   *)
(* fetches for a kid that it does not have.  Requests run concurrently and *)
(* fetch outside the lock.                                                 *)
(***************************************************************************)
EXTENDS Integers

CONSTANTS
  Procs,      \* requests that core-service serves at the same time
  KeyID,      \* the kid of every token and of the JWKS
  OtherKid,   \* what somebody may write into a header
  MaxKeys,    \* bound: key pairs that auth-service is ever started with
  Faults      \* {"http"} when the JWKS may be unreachable

Kids == {KeyID, OtherKid}
NoKey == 0

VARIABLES
  current,    \* the key pair of auth-service, pairs being numbered
  keys,       \* JWKSClient.keys: kid -> public key
  req

vars == <<current, keys, req>>

\* Signed by a key pair that auth-service has or had, or by nobody it knows.
Tokens == {[kid |-> KeyID, key |-> k] : k \in 1..current} \cup {[kid |-> OtherKid, key |-> NoKey]}

\* What GET /.well-known/jwks.json answers: one key, its kid never changing.
JWKS == [kid \in {KeyID} |-> current]

NoKeys == [kid \in {} |-> NoKey]
Idle == [pc |-> "idle", token |-> [kid |-> OtherKid, key |-> NoKey], fetched |-> NoKeys]

At(p, pc) == req[p].pc = pc
Goto(p, pc) == req' = [req EXCEPT ![p].pc = pc]

Begin(p) ==
  /\ req[p].pc \in {"idle", "accepted", "refused", "unavailable"}
  /\ \E t \in Tokens : req' = [req EXCEPT ![p] = [Idle EXCEPT !.pc = "lookup", !.token = t]]
  /\ UNCHANGED <<current, keys>>

Verdict(p, key) == IF req[p].token.key = key THEN "accepted" ELSE "refused"

\* GetKey, under the read lock.
GetKey(p) ==
  LET key == keys[req[p].token.kid] IN
  /\ At(p, "lookup")
  /\ Goto(p, IF key # NoKey THEN Verdict(p, key) ELSE "fetch")
  /\ UNCHANGED <<current, keys>>

\* The request of refresh, which holds no lock.
Fetch(p) ==
  /\ At(p, "fetch")
  /\ \/ req' = [req EXCEPT ![p].pc = "store", ![p].fetched = JWKS]
     \/ "http" \in Faults /\ Goto(p, "unavailable")
  /\ UNCHANGED <<current, keys>>

\* The rest of refresh, under the lock.
Store(p) ==
  LET kid == req[p].token.kid
      jwks == req[p].fetched IN
  /\ At(p, "store")
  /\ keys' = [k \in Kids |-> IF k \in DOMAIN jwks THEN jwks[k] ELSE keys[k]]
  /\ Goto(p, IF keys'[kid] # NoKey THEN Verdict(p, keys'[kid]) ELSE "refused")
  /\ UNCHANGED current

\* auth-service is started again with other key files.
NewKey ==
  /\ current < MaxKeys
  /\ current' = current + 1
  /\ UNCHANGED <<keys, req>>

RestartCore ==
  /\ keys' = [k \in Kids |-> NoKey]
  /\ req' = [p \in Procs |-> Idle]
  /\ UNCHANGED current

Init ==
  /\ current = 1
  /\ keys = [k \in Kids |-> NoKey]
  /\ req = [p \in Procs |-> Idle]

Next ==
  \/ \E p \in Procs : Begin(p) \/ GetKey(p) \/ Fetch(p) \/ Store(p)
  \/ NewKey
  \/ RestartCore

Spec == Init /\ [][Next]_vars

-----------------------------------------------------------------------------
(* Properties. *)

\* "auth-service starts signing with the new kid, and core-service picks up the
\* new key on its next JWKS refresh": a token signed with the key that
\* auth-service serves is not refused by a core-service that can reach it.
NewKeyPickedUp ==
  [][\A p \in Procs :
       (req'[p].pc = "refused" /\ ~At(p, "refused")) => req[p].token.key # current]_vars
=============================================================================
