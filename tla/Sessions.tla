------------------------------ MODULE Sessions ------------------------------
(***************************************************************************)
(* Sessions of auth-service: token pairs, the refresh_tokens table, the    *)
(* blacklist in Redis, and the requests that use them - login, refresh and *)
(* logout in auth-service, and the JWT middleware in front of the          *)
(* protected routes of both services.  One step of a request is one call   *)
(* to PostgreSQL or Redis and the local code up to the next one.  Parsing  *)
(* a token is local: a request with a token that ParseToken refuses        *)
(* changes nothing and does not begin here.                                *)
(***************************************************************************)
EXTENDS Integers, FiniteSets

CONSTANTS
  Users,
  NoUser,
  MaxPairs,   \* bound: token pairs that may ever be signed
  Procs,      \* concurrently served requests
  Ops,        \* the operations each of Procs serves
  Faults      \* which of "redis", "crash" may fail

Pairs == 1..MaxPairs
NoPair == 0
AllOps == {"login", "refresh", "logout", "auth", "core"}

\* The access and the refresh token of pair n share nothing but their pair.
Tokens == {"access", "refresh"} \X Pairs
NoToken == <<"none", NoPair>>

ASSUME SessionsAssumption ==
  /\ MaxPairs \in Nat
  /\ NoUser \notin Users
  /\ Ops \in [Procs -> SUBSET AllOps]
  /\ Faults \subseteq {"redis", "crash"}

VARIABLES
  last,       \* pairs 1..last have been signed and inserted
  owner,      \* the subject of a pair, NoUser before it is signed
  parent,     \* history: the pair it was rotated from, NoPair after a login
  row,        \* table refresh_tokens: pair -> "none", "live" or "revoked"
  delivered,  \* pairs that a client has received
  expired,    \* tokens past their exp claim
  blacklist,  \* Redis jwt:blacklist:<jti>
  redisUp,    \* whether Redis answers
  req,        \* the requests being served
  outTokens,  \* history: first tokens of successful logouts
  outPairs,   \* history: refresh tokens of successful logouts
  may         \* history: rotations whose token was valid at some time so far

table == <<last, owner, parent, row>>
redis == <<blacklist, redisUp>>
logouts == <<outTokens, outPairs>>
vars == <<table, delivered, expired, redis, req, logouts, may>>

-----------------------------------------------------------------------------
(* Requests. *)

InFlight(p) == req[p].pc \notin {"idle", "admitted"}

Idle == [pc |-> "idle", op |-> "none", user |-> NoUser, token |-> NoToken, pair |-> NoPair]

At(p, pc) == req[p].pc = pc
Goto(p, pc) == req' = [req EXCEPT ![p].pc = pc]
Done(p) == req' = [req EXCEPT ![p] = Idle]
Serves(p, op) == ~InFlight(p) /\ op \in Ops[p]
Start(p, pc, op, user, token, pair) ==
  req' = [req EXCEPT ![p] = [pc |-> pc, op |-> op, user |-> user, token |-> token, pair |-> pair]]

\* A call whose answer may be lost.
Acked == IF "crash" \in Faults THEN BOOLEAN ELSE {TRUE}

\* WithExpirationRequired: an expired token does not parse.
MutExpiryUnchecked(t) == TRUE
Parses(t) == t \notin expired

\* MaxPairs bounds the requests that may sign another pair.
Minting == {p \in Procs : req[p].pc \in {"isValid", "mark", "insert"}}
RoomToMint == last + Cardinality(Minting) < MaxPairs

\* Handler.Login once the password has been verified.
BeginLogin(p) ==
  /\ Serves(p, "login")
  /\ RoomToMint
  /\ \E u \in Users : Start(p, "insert", "login", u, NoToken, NoPair)
  /\ UNCHANGED <<table, delivered, expired, redis, logouts>>

\* Handler.Refresh with a refresh token that parses, rotated before or not.
BeginRefresh(p) ==
  /\ Serves(p, "refresh")
  /\ \E n \in delivered :
       /\ Parses(<<"refresh", n>>)
       /\ RoomToMint \/ row[n] = "revoked"
       /\ Start(p, "isValid", "refresh", owner[n], NoToken, n)
  /\ UNCHANGED <<table, delivered, expired, redis, logouts>>

\* Handler.Logout: two tokens of one subject; the type of the first is not
\* checked.
BeginLogout(p) ==
  /\ Serves(p, "logout")
  /\ \E m \in delivered, n \in delivered, type \in {"access", "refresh"} :
       /\ Parses(<<type, m>>) /\ Parses(<<"refresh", n>>)
       /\ owner[m] = owner[n]
       /\ Start(p, "markOut", "logout", owner[n], <<type, m>>, n)
  /\ UNCHANGED <<table, delivered, expired, redis, logouts>>

\* A protected route: the middleware of auth-service or of core-service has
\* parsed an access token.
BeginCall(p) ==
  /\ \E op \in {"auth", "core"}, n \in delivered :
       /\ Serves(p, op)
       /\ Parses(<<"access", n>>)
       /\ Start(p, "lookup", op, owner[n], <<"access", n>>, NoPair)
  /\ UNCHANGED <<table, delivered, expired, redis, logouts>>

-----------------------------------------------------------------------------
(* GenerateTokenPair and RotateRefreshToken *)

MutRevokedIsValid(n) == row[n] # "none" /\ <<"refresh", n>> \notin expired
\* The query of IsValid.
ValidRow(n) == row[n] = "live" /\ <<"refresh", n>> \notin expired

IsValid(p) ==
  /\ At(p, "isValid")
  /\ Goto(p, IF ValidRow(req[p].pair) THEN "mark" ELSE "revokeAll")
  /\ UNCHANGED <<table, delivered, expired, redis, logouts>>

MutMarkNothing(n) == UNCHANGED row
MutRevokeDeletes(n) == row' = [row EXCEPT ![n] = "none"]
\* UPDATE ... SET revoked = TRUE WHERE jti = n; no row is no error.
Revoke(n) == row' = [row EXCEPT ![n] = IF @ = "none" THEN "none" ELSE "revoked"]

\* The answer to an update may be lost; the request fails then.
MarkRevoked(p) ==
  /\ At(p, "mark")
  /\ Revoke(req[p].pair)
  /\ \E acked \in Acked : IF acked THEN Goto(p, "insert") ELSE Done(p)
  /\ UNCHANGED <<last, owner, parent, delivered, expired, redis, logouts>>

\* Sign the next pair and insert its refresh token.  Its answer, or the
\* response to the client, may be lost.
InsertPair(p) ==
  LET n == last + 1 IN
  /\ At(p, "insert")
  /\ last < MaxPairs
  /\ last' = n
  /\ owner' = [owner EXCEPT ![n] = req[p].user]
  /\ parent' = [parent EXCEPT ![n] = req[p].pair]
  /\ row' = [row EXCEPT ![n] = "live"]
  /\ \E acked \in Acked :
       delivered' = IF acked THEN delivered \cup {n} ELSE delivered
  /\ Done(p)
  /\ UNCHANGED <<expired, redis, logouts>>

\* Reuse of a token: every session of its subject ends.  The error of the
\* update is ignored.
RevokeAll(p) ==
  /\ At(p, "revokeAll")
  /\ \E done \in Acked :
       row' = [n \in Pairs |->
                 IF done /\ owner[n] = req[p].user /\ row[n] # "none" THEN "revoked" ELSE row[n]]
  /\ Done(p)
  /\ UNCHANGED <<last, owner, parent, delivered, expired, redis, logouts>>

-----------------------------------------------------------------------------
(* RevokeSession *)

LogoutMark(p) ==
  /\ At(p, "markOut")
  /\ Revoke(req[p].pair)
  /\ \E acked \in Acked : IF acked THEN Goto(p, "blacklist") ELSE Done(p)
  /\ UNCHANGED <<last, owner, parent, delivered, expired, redis, logouts>>

MutBlacklistNothing(t) == UNCHANGED blacklist
SetBlacklist(t) == blacklist' = blacklist \cup {t}

\* The access token is blacklisted for the rest of its life, if any; an error
\* of Redis fails the logout.
LogoutBlacklist(p) ==
  LET t == req[p].token IN
  /\ At(p, "blacklist")
  /\ IF t \in expired \/ redisUp
     THEN /\ IF t \in expired THEN UNCHANGED blacklist ELSE SetBlacklist(t)
          /\ outTokens' = outTokens \cup {t}
          /\ outPairs' = outPairs \cup {req[p].pair}
     ELSE UNCHANGED <<blacklist, logouts>>
  /\ Done(p)
  /\ UNCHANGED <<table, delivered, expired, redisUp>>

-----------------------------------------------------------------------------
(* The middleware's look at the blacklist *)

MutAuthFailsOpen(op) == op \in {"auth", "core"}
\* auth-service refuses when Redis fails, core-service goes on.
FailsOpen(op) == op = "core"

Lookup(p) ==
  /\ At(p, "lookup")
  /\ IF IF redisUp THEN req[p].token \notin blacklist ELSE FailsOpen(req[p].op)
     THEN req' = [req EXCEPT ![p] = [Idle EXCEPT !.pc = "admitted"]]
     ELSE Done(p)
  /\ UNCHANGED <<table, delivered, expired, redis, logouts>>

-----------------------------------------------------------------------------
(* The environment. *)

\* A database call fails, the client goes away or the process stops.
Abort(p) ==
  /\ "crash" \in Faults
  /\ InFlight(p)
  /\ Done(p)
  /\ UNCHANGED <<table, delivered, expired, redis, logouts>>

\* Fifteen minutes for the access token, seven days for the refresh token.  A
\* blacklist entry was set to live as long as its token.
Expire(t) ==
  /\ t[2] <= last
  /\ t \notin expired
  /\ t[1] = "refresh" => <<"access", t[2]>> \in expired
  /\ expired' = expired \cup {t}
  /\ blacklist' = blacklist \ {t}
  /\ UNCHANGED <<table, delivered, redisUp, req, logouts>>

RedisChange ==
  /\ "redis" \in Faults
  /\ redisUp' = ~redisUp
  /\ UNCHANGED <<table, delivered, expired, blacklist, req, logouts>>

-----------------------------------------------------------------------------
(* The specification. *)

Entitled(p) ==
  LET n == req[p].pair IN
  /\ InFlight(p)
  /\ req[p].op = "refresh" => row[n] = "live" /\ <<"refresh", n>> \notin expired

History == may' = {p \in Procs : (p \in may /\ InFlight(p) /\ InFlight(p)') \/ Entitled(p)'}

Init ==
  /\ last = 0
  /\ owner = [n \in Pairs |-> NoUser]
  /\ parent = [n \in Pairs |-> NoPair]
  /\ row = [n \in Pairs |-> "none"]
  /\ delivered = {}
  /\ expired = {}
  /\ blacklist = {}
  /\ req = [p \in Procs |-> Idle]
  /\ redisUp = TRUE
  /\ outTokens = {}
  /\ outPairs = {}
  /\ may = {}

Begin(p) == BeginLogin(p) \/ BeginRefresh(p) \/ BeginLogout(p) \/ BeginCall(p)

\* The steps the code takes of its own accord once a request has arrived.
Serve(p) ==
  \/ IsValid(p) \/ MarkRevoked(p) \/ InsertPair(p) \/ RevokeAll(p)
  \/ LogoutMark(p) \/ LogoutBlacklist(p) \/ Lookup(p)

Next ==
  /\ \/ \E p \in Procs : Begin(p) \/ Serve(p) \/ Abort(p)
     \/ \E t \in Tokens : Expire(t)
     \/ RedisChange
  /\ History

Spec == Init /\ [][Next]_vars

\* Time passes; handlers run on; no client has to call.
Fairness ==
  /\ \A p \in Procs : WF_vars(Serve(p) /\ History)
  /\ \A t \in Tokens : WF_vars(Expire(t) /\ History)

FairSpec == Spec /\ Fairness

-----------------------------------------------------------------------------
(* Properties. *)

Request == [pc : {"idle", "admitted", "insert", "isValid", "mark", "revokeAll", "markOut",
                  "blacklist", "lookup"},
            op : AllOps \cup {"none"}, user : Users \cup {NoUser},
            token : Tokens \cup {NoToken}, pair : Pairs \cup {NoPair}]

\* Types of the tables, the blacklist, the clients' tokens and the requests;
\* only pairs that were inserted have a row, expire or reach a client.
TypeOK ==
  /\ last \in 0..MaxPairs
  /\ owner \in [Pairs -> Users \cup {NoUser}]
  /\ parent \in [Pairs -> Pairs \cup {NoPair}]
  /\ row \in [Pairs -> {"none", "live", "revoked"}]
  /\ \A n \in Pairs : (row[n] = "none" <=> n > last) /\ (owner[n] = NoUser <=> n > last)
  /\ delivered \subseteq 1..last
  /\ expired \subseteq Tokens
  /\ blacklist \subseteq Tokens
  /\ req \in [Procs -> Request]
  /\ redisUp \in BOOLEAN
  /\ outTokens \subseteq Tokens
  /\ outPairs \subseteq Pairs
  /\ may \subseteq Procs

\* A refresh token that was exchanged for a new pair is revoked, and its
\* subject is the subject of the new pair: the revocation is durable before
\* the new token is (service.go:139-143), whatever logouts, reuse detections,
\* lost answers and other rotations of the same token come in between.
RotatedIsRevoked ==
  \A n \in Pairs : (row[n] # "none" /\ parent[n] # NoPair) =>
    row[parent[n]] = "revoked" /\ owner[n] = owner[parent[n]]

\* After a logout that reported success the refresh token is revoked for good
\* and the token presented as the access token is blacklisted until it expires
\* (service.go:160-168), even if sessions of the same user rotate, are revoked
\* or log out at the same time.
LogoutIsFinal ==
  /\ \A n \in outPairs : row[n] = "revoked"
  /\ outTokens \subseteq blacklist \cup expired

\* A rotation signs a new pair only if the token presented was valid at some
\* moment since the request began: a token that was rotated, logged out or
\* swept by a reuse detection before is never exchanged (service.go:130-137).
RotatesOnlyValid ==
  [][\A p \in Procs : (At(p, "insert") /\ req[p] # req'[p] /\ last' # last) => p \in may]_vars

Admits(p) == InFlight(p) /\ req'[p].pc = "admitted"

\* auth-service never lets a logged-out access token through, with Redis up or
\* down, unless it expired after it was parsed; core-service does so only when
\* Redis does not answer (the two jwt.go).
LoggedOutIsRefused ==
  [][\A p \in Procs : Admits(p) =>
       \/ req[p].token \notin outTokens
       \/ req[p].token \in expired
       \/ req[p].op = "core" /\ ~redisUp]_vars

\* Even with Redis down for good, every access token is refused at last: its
\* short life is the safety net of a logout that core-service cannot see.
EventuallyRefused ==
  <>[][\A p \in Procs : ~Admits(p)]_vars

\* A refresh token is good for one rotation: the second one detects the reuse.
OneRotation ==
  \A m, n \in Pairs : (m # n /\ parent[m] # NoPair) => parent[m] # parent[n]
=============================================================================
