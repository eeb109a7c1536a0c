--------------------------- MODULE SessionsProofs ---------------------------
(***************************************************************************)
(* What Sessions promises for any number of users, requests and token      *)
(* pairs, with any faults.                                                 *)
(***************************************************************************)
EXTENDS Sessions, TLAPS

(* The inductive invariant.  The tables say little by themselves: what makes a
   rotation sound is what its request has found out or done before each step. *)

\* What a request knows of the pair it works on.
Knows(p) ==
  LET r == req[p] IN
  /\ r.pc \in {"isValid", "mark", "revokeAll", "markOut", "blacklist"} =>
       r.pair \in Pairs /\ row[r.pair] # "none" /\ r.user = owner[r.pair]
  /\ r.pc = "blacklist" => row[r.pair] = "revoked" /\ r.token \in Tokens
  /\ r.pc = "markOut" => r.token \in Tokens
  /\ r.pc = "insert" =>
       /\ r.user \in Users
       /\ r.pair # NoPair =>
            r.pair \in Pairs /\ row[r.pair] = "revoked" /\ r.user = owner[r.pair]

RequestsKnow == \A p \in Procs : Knows(p)

IInv == TypeOK /\ RequestsKnow /\ RotatedIsRevoked /\ LogoutIsFinal

\* A request about to revoke or to sign was entitled to at some time.
Rotating == \A p \in Procs : req[p].pc \in {"mark", "insert"} => p \in may

-----------------------------------------------------------------------------
(* Lemmas. *)

\* The program counter is all that Goto changes.
LEMMA GotoOnlyPc ==
  ASSUME TypeOK, NEW p \in Procs, NEW pc \in {"mark", "revokeAll", "insert", "blacklist"},
         Goto(p, pc)
  PROVE  /\ req' \in [Procs -> Request]
         /\ \A q \in Procs \ {p} : req'[q] = req[q]
         /\ req'[p].pc = pc /\ req'[p].op = req[p].op /\ req'[p].user = req[p].user
         /\ req'[p].token = req[p].token /\ req'[p].pair = req[p].pair
  BY DEF TypeOK, Goto, Request

\* A request that is over knows nothing any more.
LEMMA DoneIsIdle ==
  ASSUME TypeOK, NEW p \in Procs, Done(p)
  PROVE  /\ req' \in [Procs -> Request]
         /\ \A q \in Procs \ {p} : req'[q] = req[q]
         /\ req'[p].pc = "idle"
  BY DEF TypeOK, Done, Idle, Request

\* What the clients hold was inserted.
LEMMA DeliveredHasRow ==
  ASSUME TypeOK, NEW n \in delivered
  PROVE  n \in Pairs /\ row[n] # "none" /\ owner[n] \in Users
<1>1. n \in 1..last /\ last \in 0..MaxPairs
  BY DEF TypeOK
<1>2. n \in Pairs /\ ~(n > last)
  BY <1>1, SessionsAssumption DEF Pairs
<1> QED
  BY <1>2 DEF TypeOK

\* A step that leaves the rows alone, and moves one request to a place where it
\* knows enough, preserves what the tables and the requests say.
LEMMA QuietStep ==
  ASSUME IInv, NEW p \in Procs,
         UNCHANGED <<table, delivered, expired, redis, logouts>>, History,
         req' \in [Procs -> Request], \A q \in Procs \ {p} : req'[q] = req[q], Knows(p)'
  PROVE  IInv'
<1>1. TypeOK'
  BY DEF IInv, TypeOK, table, redis, logouts, History
<1>2. RequestsKnow'
  <2> SUFFICES ASSUME NEW q \in Procs PROVE Knows(q)'
    BY DEF RequestsKnow
  <2>1. CASE q = p
    BY <2>1
  <2>2. CASE q # p
    BY <2>2 DEF IInv, RequestsKnow, Knows, table
  <2> QED
    BY <2>1, <2>2
<1>3. RotatedIsRevoked' /\ LogoutIsFinal'
  BY DEF IInv, RotatedIsRevoked, LogoutIsFinal, table, redis, logouts
<1> QED
  BY <1>1, <1>2, <1>3 DEF IInv

-----------------------------------------------------------------------------
(* The steps that change nothing but the requests. *)

LEMMA BeginStep ==
  ASSUME IInv, NEW p \in Procs, Begin(p), History
  PROVE  IInv'
<1>0. TypeOK /\ SessionsAssumption
  BY SessionsAssumption DEF IInv, SessionsAssumption
<1>1. CASE BeginLogin(p)
  <2>1. PICK u \in Users : Start(p, "insert", "login", u, NoToken, NoPair)
    BY <1>1 DEF BeginLogin
  <2>2. req' \in [Procs -> Request] /\ (\A q \in Procs \ {p} : req'[q] = req[q])
        /\ req'[p] = [pc |-> "insert", op |-> "login", user |-> u, token |-> NoToken,
                      pair |-> NoPair]
    BY <1>0, <2>1 DEF Start, TypeOK, Request, AllOps
  <2>3. Knows(p)'
    BY <2>2 DEF Knows
  <2> QED
    BY <1>1, <2>2, <2>3, QuietStep DEF BeginLogin
<1>2. CASE BeginRefresh(p)
  <2>1. PICK n \in delivered : Start(p, "isValid", "refresh", owner[n], NoToken, n)
    BY <1>2 DEF BeginRefresh
  <2>2. n \in Pairs /\ row[n] # "none" /\ owner[n] \in Users
    BY <1>0, DeliveredHasRow
  <2>3. req' \in [Procs -> Request] /\ (\A q \in Procs \ {p} : req'[q] = req[q])
        /\ req'[p] = [pc |-> "isValid", op |-> "refresh", user |-> owner[n],
                      token |-> NoToken, pair |-> n]
    BY <1>0, <2>1, <2>2 DEF Start, TypeOK, Request, AllOps
  <2>4. Knows(p)'
    BY <1>2, <2>2, <2>3 DEF Knows, BeginRefresh, table
  <2> QED
    BY <1>2, <2>3, <2>4, QuietStep DEF BeginRefresh
<1>3. CASE BeginLogout(p)
  <2>1. PICK m \in delivered, n \in delivered, type \in {"access", "refresh"} :
          Start(p, "markOut", "logout", owner[n], <<type, m>>, n)
    BY <1>3 DEF BeginLogout
  <2>2. n \in Pairs /\ row[n] # "none" /\ owner[n] \in Users /\ m \in Pairs
    BY <1>0, DeliveredHasRow
  <2> DEFINE token == <<type, m>>
  <2>5. token \in Tokens /\ Start(p, "markOut", "logout", owner[n], token, n)
    BY <2>1, <2>2 DEF Tokens
  <2> HIDE DEF token
  <2>3. req' \in [Procs -> Request] /\ (\A q \in Procs \ {p} : req'[q] = req[q])
        /\ req'[p] = [pc |-> "markOut", op |-> "logout", user |-> owner[n],
                      token |-> token, pair |-> n]
    BY <1>0, <2>2, <2>5 DEF Start, TypeOK, Request, AllOps
  <2>4. Knows(p)'
    BY <1>3, <2>2, <2>3, <2>5 DEF Knows, BeginLogout, table
  <2> QED
    BY <1>3, <2>3, <2>4, QuietStep DEF BeginLogout
<1>4. CASE BeginCall(p)
  <2>1. PICK op \in {"auth", "core"}, n \in delivered :
          Start(p, "lookup", op, owner[n], <<"access", n>>, NoPair)
    BY <1>4 DEF BeginCall
  <2>2. owner[n] \in Users /\ n \in Pairs
    BY <1>0, DeliveredHasRow
  <2> DEFINE token == <<"access", n>>
  <2>5. token \in Tokens /\ Start(p, "lookup", op, owner[n], token, NoPair)
    BY <2>1, <2>2 DEF Tokens
  <2> HIDE DEF token
  <2>3. req' \in [Procs -> Request] /\ (\A q \in Procs \ {p} : req'[q] = req[q])
        /\ req'[p] = [pc |-> "lookup", op |-> op, user |-> owner[n],
                      token |-> token, pair |-> NoPair]
    BY <1>0, <2>2, <2>5 DEF Start, TypeOK, Request, AllOps
  <2>4. Knows(p)'
    BY <2>3 DEF Knows
  <2> QED
    BY <1>4, <2>3, <2>4, QuietStep DEF BeginCall
<1> QED
  BY <1>1, <1>2, <1>3, <1>4 DEF Begin

LEMMA IsValidStep ==
  ASSUME IInv, NEW p \in Procs, IsValid(p), History
  PROVE  IInv'
<1>1. PICK pc \in {"mark", "revokeAll"} : Goto(p, pc)
  BY DEF IsValid
<1>2. /\ req' \in [Procs -> Request]
      /\ \A q \in Procs \ {p} : req'[q] = req[q]
      /\ req'[p].pc = pc /\ req'[p].user = req[p].user /\ req'[p].pair = req[p].pair
  BY <1>1, GotoOnlyPc DEF IInv
<1>3. Knows(p)'
  BY <1>2 DEF IsValid, At, IInv, RequestsKnow, Knows, table
<1> QED
  BY <1>2, <1>3, QuietStep DEF IsValid

LEMMA LookupStep ==
  ASSUME IInv, NEW p \in Procs, Lookup(p), History
  PROVE  IInv'
<1>1. /\ req' \in [Procs -> Request]
      /\ \A q \in Procs \ {p} : req'[q] = req[q]
      /\ req'[p].pc \in {"idle", "admitted"}
  BY DEF Lookup, Done, Idle, IInv, TypeOK, Request
<1>2. Knows(p)'
  BY <1>1 DEF Knows
<1> QED
  BY <1>1, <1>2, QuietStep DEF Lookup

LEMMA AbortStep ==
  ASSUME IInv, NEW p \in Procs, Abort(p), History
  PROVE  IInv'
<1>1. /\ req' \in [Procs -> Request]
      /\ \A q \in Procs \ {p} : req'[q] = req[q]
      /\ req'[p].pc = "idle"
  BY DoneIsIdle DEF Abort, IInv
<1>2. Knows(p)'
  BY <1>1 DEF Knows
<1> QED
  BY <1>1, <1>2, QuietStep DEF Abort

-----------------------------------------------------------------------------
(* The steps that change the tables or Redis. *)

\* An UPDATE that only turns rows to revoked, whoever issues it, takes nothing
\* from what the requests know: revoked is for good.
LEMMA RevocationStep ==
  ASSUME IInv, NEW p \in Procs, NEW S \in SUBSET Pairs,
         row' = [n \in Pairs |-> IF n \in S /\ row[n] # "none" THEN "revoked" ELSE row[n]],
         UNCHANGED <<last, owner, parent, delivered, expired, redis, logouts>>, History,
         req' \in [Procs -> Request], \A q \in Procs \ {p} : req'[q] = req[q], Knows(p)'
  PROVE  IInv'
<1>1. /\ row' \in [Pairs -> {"none", "live", "revoked"}]
      /\ \A n \in Pairs : (row'[n] = "none" <=> row[n] = "none")
                          /\ (row[n] = "revoked" => row'[n] = "revoked")
  BY DEF IInv, TypeOK
<1>2. TypeOK'
  BY <1>1 DEF IInv, TypeOK, redis, logouts, History
<1>3. RequestsKnow'
  <2> SUFFICES ASSUME NEW q \in Procs PROVE Knows(q)'
    BY DEF RequestsKnow
  <2>1. CASE q = p
    BY <2>1
  <2>2. CASE q # p
    BY <1>1, <2>2 DEF IInv, RequestsKnow, Knows
  <2> QED
    BY <2>1, <2>2
<1>4. RotatedIsRevoked'
  BY <1>1 DEF IInv, TypeOK, RotatedIsRevoked, NoPair
<1>5. LogoutIsFinal'
  BY <1>1 DEF IInv, TypeOK, LogoutIsFinal, redis, logouts
<1> QED
  BY <1>2, <1>3, <1>4, <1>5 DEF IInv

LEMMA MarkRevokedStep ==
  ASSUME IInv, NEW p \in Procs, MarkRevoked(p), History
  PROVE  IInv'
<1> DEFINE n == req[p].pair
<1>1. n \in Pairs /\ row[n] # "none" /\ req[p].user = owner[n] /\ owner[n] \in Users
  BY DEF MarkRevoked, At, IInv, RequestsKnow, Knows, TypeOK
<1>2. row' = [m \in Pairs |-> IF m \in {n} /\ row[m] # "none" THEN "revoked" ELSE row[m]]
  BY DEF MarkRevoked, Revoke, IInv, TypeOK
<1>3. CASE Goto(p, "insert")
  <2>1. /\ req' \in [Procs -> Request]
        /\ \A q \in Procs \ {p} : req'[q] = req[q]
        /\ req'[p].pc = "insert" /\ req'[p].user = req[p].user /\ req'[p].pair = n
    BY <1>3, GotoOnlyPc DEF IInv
  <2>2. Knows(p)'
    BY <1>1, <1>2, <2>1 DEF Knows, MarkRevoked
  <2> QED
    BY <1>1, <1>2, <2>1, <2>2, RevocationStep DEF MarkRevoked
<1>4. CASE Done(p)
  <2>1. /\ req' \in [Procs -> Request]
        /\ \A q \in Procs \ {p} : req'[q] = req[q]
        /\ req'[p].pc = "idle"
    BY <1>4, DoneIsIdle DEF IInv
  <2>2. Knows(p)'
    BY <2>1 DEF Knows
  <2> QED
    BY <1>1, <1>2, <2>1, <2>2, RevocationStep DEF MarkRevoked
<1> QED
  BY <1>3, <1>4 DEF MarkRevoked

LEMMA LogoutMarkStep ==
  ASSUME IInv, NEW p \in Procs, LogoutMark(p), History
  PROVE  IInv'
<1> DEFINE n == req[p].pair
<1>1. /\ n \in Pairs /\ row[n] # "none" /\ req[p].user = owner[n]
      /\ req[p].token \in Tokens
  BY DEF LogoutMark, At, IInv, RequestsKnow, Knows
<1>2. row' = [m \in Pairs |-> IF m \in {n} /\ row[m] # "none" THEN "revoked" ELSE row[m]]
  BY DEF LogoutMark, Revoke, IInv, TypeOK
<1>3. CASE Goto(p, "blacklist")
  <2>1. /\ req' \in [Procs -> Request]
        /\ \A q \in Procs \ {p} : req'[q] = req[q]
        /\ req'[p].pc = "blacklist" /\ req'[p].user = req[p].user /\ req'[p].pair = n
        /\ req'[p].token = req[p].token
    BY <1>3, GotoOnlyPc DEF IInv
  <2>2. Knows(p)'
    BY <1>1, <1>2, <2>1 DEF Knows, LogoutMark
  <2> QED
    BY <1>1, <1>2, <2>1, <2>2, RevocationStep DEF LogoutMark
<1>4. CASE Done(p)
  <2>1. /\ req' \in [Procs -> Request]
        /\ \A q \in Procs \ {p} : req'[q] = req[q]
        /\ req'[p].pc = "idle"
    BY <1>4, DoneIsIdle DEF IInv
  <2>2. Knows(p)'
    BY <2>1 DEF Knows
  <2> QED
    BY <1>1, <1>2, <2>1, <2>2, RevocationStep DEF LogoutMark
<1> QED
  BY <1>3, <1>4 DEF LogoutMark

LEMMA RevokeAllStep ==
  ASSUME IInv, NEW p \in Procs, RevokeAll(p), History
  PROVE  IInv'
<1>1. PICK done \in Acked :
        row' = [n \in Pairs |->
                  IF done /\ owner[n] = req[p].user /\ row[n] # "none" THEN "revoked" ELSE row[n]]
  BY DEF RevokeAll
<1> DEFINE S == {n \in Pairs : done /\ owner[n] = req[p].user}
<1>2. row' = [n \in Pairs |-> IF n \in S /\ row[n] # "none" THEN "revoked" ELSE row[n]]
  BY <1>1
<1>3. /\ req' \in [Procs -> Request]
      /\ \A q \in Procs \ {p} : req'[q] = req[q]
      /\ req'[p].pc = "idle"
  BY DoneIsIdle DEF RevokeAll, IInv
<1>4. Knows(p)'
  BY <1>3 DEF Knows
<1> HIDE DEF S
<1>5. S \in SUBSET Pairs
  BY DEF S
<1> QED
  BY <1>2, <1>3, <1>4, <1>5, RevocationStep DEF RevokeAll

\* The new pair has had no row before, so nobody knew anything of it.
LEMMA InsertPairStep ==
  ASSUME IInv, NEW p \in Procs, InsertPair(p), History
  PROVE  IInv'
<1> DEFINE n == last + 1
<1>1. /\ last \in Nat /\ MaxPairs \in Nat /\ n \in Pairs /\ row[n] = "none"
      /\ last' = n
  BY SessionsAssumption DEF InsertPair, IInv, TypeOK, Pairs
<1>2. /\ req[p].user \in Users
      /\ req[p].pair \in Pairs \cup {NoPair}
      /\ req[p].pair # NoPair =>
           req[p].pair \in Pairs /\ row[req[p].pair] = "revoked" /\ req[p].user = owner[req[p].pair]
  BY DEF InsertPair, At, IInv, TypeOK, Request, RequestsKnow, Knows
<1>3. /\ owner' = [owner EXCEPT ![n] = req[p].user]
      /\ parent' = [parent EXCEPT ![n] = req[p].pair]
      /\ row' = [row EXCEPT ![n] = "live"]
      /\ UNCHANGED <<expired, redis, logouts>>
  BY DEF InsertPair
<1>4. /\ req' \in [Procs -> Request]
      /\ \A q \in Procs \ {p} : req'[q] = req[q]
      /\ req'[p].pc = "idle"
  BY DoneIsIdle DEF InsertPair, IInv
<1>5. delivered' \subseteq 1..last'
  <2>1. delivered \subseteq 1..last /\ delivered' \subseteq delivered \cup {n}
    BY DEF InsertPair, IInv, TypeOK
  <2> QED
    BY <1>1, <2>1
<1> HIDE DEF n
<1>6. /\ owner' \in [Pairs -> Users \cup {NoUser}]
      /\ parent' \in [Pairs -> Pairs \cup {NoPair}]
      /\ row' \in [Pairs -> {"none", "live", "revoked"}]
      /\ owner'[n] = req[p].user /\ parent'[n] = req[p].pair /\ row'[n] = "live"
      /\ \A m \in Pairs \ {n} : owner'[m] = owner[m] /\ parent'[m] = parent[m] /\ row'[m] = row[m]
  BY <1>1, <1>2, <1>3 DEF IInv, TypeOK
<1>7. TypeOK'
  <2>1. \A m \in Pairs : (row'[m] = "none" <=> m > last') /\ (owner'[m] = NoUser <=> m > last')
    <3> SUFFICES ASSUME NEW m \in Pairs
                 PROVE  (row'[m] = "none" <=> m > last') /\ (owner'[m] = NoUser <=> m > last')
      OBVIOUS
    <3>1. CASE m = n
      BY <1>1, <1>2, <1>6, <3>1, SessionsAssumption DEF SessionsAssumption, Pairs
    <3>2. CASE m # n
      <4>1. (m > last) <=> (m > last')
        BY <1>1, <3>2 DEF n, Pairs
      <4> QED
        BY <1>6, <3>2, <4>1 DEF IInv, TypeOK
    <3> QED
      BY <3>1, <3>2
  <2>2. last' \in 0..MaxPairs
    BY <1>1 DEF Pairs
  <2> QED
    BY <1>3, <1>4, <1>5, <1>6, <2>1, <2>2 DEF IInv, TypeOK, redis, logouts, History
<1>8. RequestsKnow'
  <2> SUFFICES ASSUME NEW q \in Procs PROVE Knows(q)'
    BY DEF RequestsKnow
  <2>1. CASE q = p
    BY <1>4, <2>1 DEF Knows
  <2>2. CASE q # p
    BY <1>1, <1>4, <1>6, <2>2 DEF IInv, RequestsKnow, Knows
  <2> QED
    BY <2>1, <2>2
<1>9. RotatedIsRevoked'
  <2> SUFFICES ASSUME NEW m \in Pairs, row'[m] # "none", parent'[m] # NoPair
               PROVE  row'[parent'[m]] = "revoked" /\ owner'[m] = owner'[parent'[m]]
    BY DEF RotatedIsRevoked
  <2>1. CASE m = n
    BY <1>1, <1>2, <1>6, <2>1
  <2>2. CASE m # n
    <3>1. row[parent[m]] = "revoked" /\ owner[m] = owner[parent[m]] /\ parent[m] \in Pairs
      BY <1>6, <2>2 DEF IInv, TypeOK, RotatedIsRevoked
    <3> QED
      BY <1>1, <1>6, <2>2, <3>1
  <2> QED
    BY <2>1, <2>2
<1>10. LogoutIsFinal'
  <2>1. \A m \in outPairs' : row'[m] = "revoked"
    BY <1>1, <1>3, <1>6 DEF IInv, TypeOK, LogoutIsFinal, logouts
  <2> QED
    BY <1>3, <2>1 DEF IInv, LogoutIsFinal, redis, logouts
<1> QED
  BY <1>7, <1>8, <1>9, <1>10 DEF IInv

LEMMA LogoutBlacklistStep ==
  ASSUME IInv, NEW p \in Procs, LogoutBlacklist(p), History
  PROVE  IInv'
<1> DEFINE t == req[p].token
           n == req[p].pair
<1>1. t \in Tokens /\ n \in Pairs /\ row[n] = "revoked"
  BY DEF LogoutBlacklist, At, IInv, RequestsKnow, Knows
<1>2. /\ req' \in [Procs -> Request]
      /\ \A q \in Procs \ {p} : req'[q] = req[q]
      /\ req'[p].pc = "idle"
  BY DoneIsIdle DEF LogoutBlacklist, IInv
<1>3. /\ blacklist' \subseteq Tokens /\ outTokens' \subseteq Tokens /\ outPairs' \subseteq Pairs
      /\ \A m \in outPairs' : row[m] = "revoked"
      /\ outTokens' \subseteq blacklist' \cup expired
  BY <1>1 DEF LogoutBlacklist, SetBlacklist, IInv, TypeOK, LogoutIsFinal, logouts
<1>4. UNCHANGED <<table, delivered, expired, redisUp>>
  BY DEF LogoutBlacklist
<1>5. TypeOK'
  BY <1>2, <1>3, <1>4 DEF IInv, TypeOK, table, History
<1>6. RequestsKnow'
  <2> SUFFICES ASSUME NEW q \in Procs PROVE Knows(q)'
    BY DEF RequestsKnow
  <2>1. CASE q = p
    BY <1>2, <2>1 DEF Knows
  <2>2. CASE q # p
    BY <1>2, <1>4, <2>2 DEF IInv, RequestsKnow, Knows, table
  <2> QED
    BY <2>1, <2>2
<1>7. RotatedIsRevoked' /\ LogoutIsFinal'
  BY <1>3, <1>4 DEF IInv, RotatedIsRevoked, LogoutIsFinal, table
<1> QED
  BY <1>5, <1>6, <1>7 DEF IInv

\* A blacklist entry goes only with its token.
LEMMA ExpireStep ==
  ASSUME IInv, NEW t \in Tokens, Expire(t), History
  PROVE  IInv'
<1>1. TypeOK'
  BY DEF Expire, IInv, TypeOK, table, logouts, History
<1>2. RequestsKnow' /\ RotatedIsRevoked'
  BY DEF Expire, IInv, RequestsKnow, Knows, RotatedIsRevoked, table
<1>3. LogoutIsFinal'
  BY DEF Expire, IInv, LogoutIsFinal, table, logouts
<1> QED
  BY <1>1, <1>2, <1>3 DEF IInv

LEMMA RedisChangeStep ==
  ASSUME IInv, RedisChange, History
  PROVE  IInv'
<1>1. TypeOK'
  BY DEF RedisChange, IInv, TypeOK, table, logouts, History
<1>2. RequestsKnow' /\ RotatedIsRevoked' /\ LogoutIsFinal'
  BY DEF RedisChange, IInv, RequestsKnow, Knows, RotatedIsRevoked, LogoutIsFinal, table, logouts
<1> QED
  BY <1>1, <1>2 DEF IInv

LEMMA StutterStep ==
  ASSUME IInv, UNCHANGED vars
  PROVE  IInv'
BY DEF vars, table, redis, logouts, IInv, TypeOK, RequestsKnow, Knows, RotatedIsRevoked,
       LogoutIsFinal

\* The invariant holds at first.
LEMMA InitIInv ==
  ASSUME Init
  PROVE  IInv
<1>1. TypeOK
  <2>1. last = 0 /\ last \in 0..MaxPairs /\ \A n \in Pairs : n > last
    BY SessionsAssumption DEF Init, SessionsAssumption, Pairs
  <2> QED
    BY <2>1 DEF Init, TypeOK, Idle, Request
<1>2. RequestsKnow /\ RotatedIsRevoked /\ LogoutIsFinal
  BY DEF Init, Idle, RequestsKnow, Knows, RotatedIsRevoked, LogoutIsFinal
<1> QED
  BY <1>1, <1>2 DEF IInv

-----------------------------------------------------------------------------
(* The theorems. *)

\* The inductive invariant holds: whatever happens between two calls of a
\* request, the row it works on still says what the request relies on.
THEOREM Invariance == Spec => []IInv
<1>1. Init => IInv
  BY InitIInv
<1>2. IInv /\ [Next]_vars => IInv'
  <2> SUFFICES ASSUME IInv, [Next]_vars PROVE IInv'
    OBVIOUS
  <2>1. ASSUME NEW p \in Procs, Begin(p) \/ Serve(p) \/ Abort(p), History PROVE IInv'
    BY <2>1, BeginStep, AbortStep, IsValidStep, MarkRevokedStep, InsertPairStep, RevokeAllStep,
       LogoutMarkStep, LogoutBlacklistStep, LookupStep DEF Serve
  <2>2. ASSUME NEW t \in Tokens, Expire(t), History PROVE IInv'
    BY <2>2, ExpireStep
  <2>3. ASSUME RedisChange, History PROVE IInv'
    BY <2>3, RedisChangeStep
  <2>4. CASE UNCHANGED vars
    BY <2>4, StutterStep
  <2> QED
    BY <2>1, <2>2, <2>3, <2>4 DEF Next
<1> QED
  BY <1>1, <1>2, PTL DEF Spec

\* Tables, blacklist, tokens and requests are well typed, and exactly the pairs
\* signed so far have a row.
THEOREM Typed == Spec => []TypeOK
<1>1. IInv => TypeOK
  BY DEF IInv
<1> QED
  BY <1>1, Invariance, PTL

\* A token exchanged for a new pair is revoked, and both have one subject.
THEOREM RotationRevokes == Spec => []RotatedIsRevoked
<1>1. IInv => RotatedIsRevoked
  BY DEF IInv
<1> QED
  BY <1>1, Invariance, PTL

\* A successful logout is never undone.
THEOREM LogoutStands == Spec => []LogoutIsFinal
<1>1. IInv => LogoutIsFinal
  BY DEF IInv
<1> QED
  BY <1>1, Invariance, PTL

\* A request moves itself alone, and only Lookup admits it.
LEMMA OnlyLookupAdmits ==
  ASSUME TypeOK, NEW q \in Procs, Begin(q) \/ Serve(q) \/ Abort(q)
  PROVE  /\ \A o \in Procs \ {q} : req'[o] = req[o]
         /\ req'[q].pc = "admitted" => Lookup(q)
<1> USE DEF TypeOK
<1>1. CASE Begin(q)
  <2>1. PICK pc \in {"insert", "isValid", "markOut", "lookup"} :
          \E op, user, token, pair : Start(q, pc, op, user, token, pair)
    BY <1>1 DEF Begin, BeginLogin, BeginRefresh, BeginLogout, BeginCall
  <2> QED
    BY <2>1 DEF Start
<1>2. CASE Abort(q) \/ InsertPair(q) \/ RevokeAll(q) \/ LogoutBlacklist(q)
  <2>1. Done(q)
    BY <1>2 DEF Abort, InsertPair, RevokeAll, LogoutBlacklist
  <2> QED
    BY <2>1 DEF Done, Idle
<1>3. CASE IsValid(q) \/ MarkRevoked(q) \/ LogoutMark(q)
  <2>1. Done(q) \/ \E pc \in {"mark", "revokeAll", "insert", "blacklist"} : Goto(q, pc)
    BY <1>3 DEF IsValid, MarkRevoked, LogoutMark
  <2> QED
    BY <2>1 DEF Done, Idle, Goto, Request
<1>4. CASE Lookup(q)
  BY <1>4 DEF Lookup, Done, Idle
<1> QED
  BY <1>1, <1>2, <1>3, <1>4 DEF Serve

\* A logged-out access token passes the middleware of core-service alone, and
\* only while Redis does not answer.
THEOREM LogoutRefuses == Spec => LoggedOutIsRefused
<1> DEFINE Refused ==
      \A p \in Procs : Admits(p) =>
        \/ req[p].token \notin outTokens
        \/ req[p].token \in expired
        \/ req[p].op = "core" /\ ~redisUp
<1>1. IInv /\ [Next]_vars => [Refused]_vars
  <2> SUFFICES ASSUME IInv, Next, NEW p \in Procs, Admits(p)
               PROVE  \/ req[p].token \notin outTokens
                      \/ req[p].token \in expired
                      \/ req[p].op = "core" /\ ~redisUp
    OBVIOUS
  <2>1. req[p].pc # "admitted" /\ req'[p].pc = "admitted"
    BY DEF Admits, InFlight
  <2>2. Lookup(p)
    <3>1. ~RedisChange /\ \A t \in Tokens : ~Expire(t)
      BY <2>1 DEF RedisChange, Expire
    <3>2. ASSUME NEW q \in Procs, Begin(q) \/ Serve(q) \/ Abort(q) PROVE Lookup(q) /\ q = p
      BY <2>1, <3>2, OnlyLookupAdmits DEF IInv
    <3> QED
      BY <3>1, <3>2 DEF Next
  <2>3. CASE redisUp
    BY <2>1, <2>2, <2>3 DEF Lookup, Done, Idle, IInv, TypeOK, LogoutIsFinal
  <2>4. CASE ~redisUp
    BY <2>1, <2>2, <2>4 DEF Lookup, FailsOpen, Done, Idle, IInv, TypeOK
  <2> QED
    BY <2>3, <2>4
<1> QED
  BY <1>1, Invariance, PTL DEF Spec, LoggedOutIsRefused, Refused

\* Every step keeps what a rotation knows of its token.
LEMMA RotatingStep ==
  ASSUME IInv, Rotating, [Next]_vars
  PROVE  Rotating'
<1> SUFFICES ASSUME NEW p \in Procs, req'[p].pc \in {"mark", "insert"}, Next
             PROVE  p \in may'
  BY DEF Rotating, vars
<1>0. TypeOK
  BY DEF IInv
<1>1. History /\ InFlight(p)'
  BY DEF Next, InFlight
<1>2. CASE req[p].pc \in {"mark", "insert"}
  BY <1>1, <1>2 DEF Rotating, History, InFlight
<1>3. CASE req[p].pc \notin {"mark", "insert"}
  <2>1. Begin(p) \/ Serve(p) \/ Abort(p)
    <3>1. req' # req
      BY <1>3
    <3>2. ~RedisChange /\ \A t \in Tokens : ~Expire(t)
      BY <3>1 DEF RedisChange, Expire
    <3>3. ASSUME NEW q \in Procs, Begin(q) \/ Serve(q) \/ Abort(q) PROVE q = p
      BY <1>0, <1>3, <3>3, OnlyLookupAdmits
    <3> QED
      BY <3>2, <3>3 DEF Next
  <2>2. Entitled(p)'
    <3>1. CASE BeginLogin(p)
      <4>1. req'[p].op = "login"
        BY <1>0, <3>1 DEF BeginLogin, Start, TypeOK
      <4> QED
        BY <1>1, <4>1 DEF Entitled
    <3>2. CASE IsValid(p)
      <4>1. ValidRow(req[p].pair) /\ Goto(p, "mark")
        BY <1>0, <3>2 DEF IsValid, Goto, TypeOK, Request
      <4>2. req'[p].pair = req[p].pair
        BY <1>0, <4>1, GotoOnlyPc
      <4> QED
        BY <1>1, <3>2, <4>1, <4>2 DEF IsValid, ValidRow, Entitled, table
    <3>3. CASE BeginRefresh(p) \/ BeginLogout(p) \/ BeginCall(p)
      <4>1. PICK pc \in {"isValid", "markOut", "lookup"} :
              \E op, user, token, pair : Start(p, pc, op, user, token, pair)
        BY <3>3 DEF BeginRefresh, BeginLogout, BeginCall
      <4> QED
        BY <1>0, <4>1 DEF Start, TypeOK
    <3>4. CASE Abort(p) \/ InsertPair(p) \/ RevokeAll(p) \/ LogoutBlacklist(p) \/ Lookup(p)
      BY <1>0, <3>4 DEF Abort, InsertPair, RevokeAll, LogoutBlacklist, Lookup, Done, Idle, TypeOK
    <3>5. CASE LogoutMark(p)
      BY <1>0, <3>5 DEF LogoutMark, Done, Idle, Goto, TypeOK, Request
    <3>6. ~MarkRevoked(p)
      BY <1>3 DEF MarkRevoked, At
    <3> QED
      BY <2>1, <3>1, <3>2, <3>3, <3>4, <3>5, <3>6 DEF Begin, Serve
  <2> QED
    BY <1>1, <2>2 DEF History
<1> QED
  BY <1>2, <1>3

\* Only a token that was valid at some time since the request began is ever
\* exchanged for a new pair.
THEOREM ValidRotations == Spec => RotatesOnlyValid
<1> DEFINE Signed ==
      \A p \in Procs : (At(p, "insert") /\ req[p] # req'[p] /\ last' # last) => p \in may
<1>1. Init => Rotating
  BY DEF Init, Idle, Rotating
<1>2. IInv /\ Rotating /\ [Next]_vars => Rotating'
  BY RotatingStep
<1>3. Rotating /\ [Next]_vars => [Signed]_vars
  BY DEF Rotating, At
<1> QED
  BY <1>1, <1>2, <1>3, Invariance, PTL DEF Spec, RotatesOnlyValid, Signed
=============================================================================
