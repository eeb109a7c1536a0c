----------------------------- MODULE TeamsProofs -----------------------------
(***************************************************************************)
(* What Teams promises for any number of users, teams and requests, with   *)
(* any faults.                                                             *)
(***************************************************************************)
EXTENDS Teams, TLAPS

(* The inductive invariant.  The checks of a request and its write are separate
   statements, so what the write may rely on is what the history says of it. *)

\* The operations that a request may be serving at each of its calls.
OpsAt(pc) ==
  CASE pc = "team" -> {"add", "remove", "promote", "demote"}
    [] pc = "caller" -> {"add", "remove"}
    [] pc = "role" -> {"add", "demote"}
    [] pc = "user" -> {"add", "promote"}
    [] pc \in {"write", "publish"} -> {"create", "add", "remove", "promote", "demote"}
    [] pc = "evict" -> {"add", "remove", "promote", "demote"}
    [] OTHER -> {"members"}

\* What a request in flight has been given, and what it has found out.
Knows(p) ==
  LET r == req[p] IN
  InFlight(p) =>
    /\ r.op \in OpsAt(r.pc) /\ r.user \in Users
    /\ r.op # "create" \/ r.pc = "publish" => r.team \in TeamIds
    /\ r.op \notin {"create", "members"} \/ r.pc = "publish" => r.target \in Users
    /\ r.pc \in {"role", "user", "write", "cached", "db", "fill"} => p \in may
    /\ r.op = "add" /\ r.pc \in {"user", "write"} => p \in absent \cup gone
    /\ r.op \in {"promote", "demote"} /\ r.pc # "team" => creator[r.team] = r.user

RequestsKnow == \A p \in Procs : Knows(p)

IInv == TypeOK /\ RequestsKnow

-----------------------------------------------------------------------------
(* Lemmas. *)

\* The history forgets nothing of a request that goes on.
LEMMA HistoryKeeps ==
  ASSUME History, NEW p \in Procs
  PROVE  /\ may' \subseteq Procs /\ absent' \subseteq Procs /\ gone' \subseteq Procs
         /\ p \in may /\ InFlight(p) /\ InFlight(p)' => p \in may'
         /\ p \in absent \cup gone /\ InFlight(p) /\ InFlight(p)' => p \in absent' \cup gone'
         /\ Entitled(p)' => p \in may'
         /\ NoRowYet(p)' => p \in absent'
         /\ TargetGone(p)' => p \in gone'
  BY DEF History

\* A step of one request preserves the invariant when it keeps the types, finds
\* out what it needs and takes no team from its creator.
LEMMA OneMoves ==
  ASSUME IInv, History, NEW p \in Procs,
         req' \in [Procs -> Request], \A q \in Procs \ {p} : req'[q] = req[q], Knows(p)',
         creator' \in [TeamIds -> Users \cup {NoUser}],
         \A t \in TeamIds : creator[t] # NoUser => creator'[t] = creator[t],
         members' \in [TeamIds -> Members], active' = active,
         listCache' \in [TeamIds -> Members \cup {NoList}],
         activity' \subseteq {"TEAM_CREATED", "MEMBER_ADDED", "MEMBER_REMOVED", "MANAGER_ADDED",
                              "MANAGER_REMOVED"} \X TeamIds \X Users,
         late' \subseteq TeamIds
  PROVE  IInv'
<1>1. TypeOK'
  BY HistoryKeeps DEF IInv, TypeOK, History
<1>2. ASSUME NEW q \in Procs, q # p PROVE Knows(q)'
  <2>1. req'[q] = req[q] /\ Knows(q)
    BY <1>2 DEF IInv, RequestsKnow
  <2>2. InFlight(q)' <=> InFlight(q)
    BY <2>1 DEF InFlight
  <2>3. req[q].user \in Users => req[q].user # NoUser
    BY TeamsAssumption
  <2> QED
    BY <2>1, <2>2, <2>3, HistoryKeeps DEF Knows, OpsAt
<1> QED
  BY <1>1, <1>2 DEF IInv, RequestsKnow

\* The same when nothing but the request changes.
LEMMA RequestMoves ==
  ASSUME IInv, History, NEW p \in Procs,
         req' \in [Procs -> Request], \A q \in Procs \ {p} : req'[q] = req[q], Knows(p)',
         UNCHANGED <<tables, listCache, activity, late>>
  PROVE  IInv'
<1>1. UNCHANGED <<creator, members, active, listCache, activity, late>>
  BY DEF tables
<1>2. TypeOK
  BY DEF IInv
<1> QED
  BY <1>1, <1>2, OneMoves DEF TypeOK

\* A request that is answered knows nothing any more.
LEMMA DoneKnows ==
  ASSUME TypeOK, NEW p \in Procs, Done(p) \/ Answer(p)
  PROVE  /\ req' \in [Procs -> Request] /\ \A q \in Procs \ {p} : req'[q] = req[q]
         /\ Knows(p)' /\ ~InFlight(p)'
<1>1. Idle \in Request /\ [Idle EXCEPT !.pc = "listed"] \in Request
  BY DEF Idle, Request, AllOps
<1>2. req' \in [Procs -> Request] /\ \A q \in Procs \ {p} : req'[q] = req[q]
  BY <1>1 DEF TypeOK, Done, Answer
<1>3. req'[p].pc \in {"idle", "listed"}
  BY DEF TypeOK, Done, Answer, Idle
<1> QED
  BY <1>2, <1>3 DEF Knows, InFlight

\* Only the program counter changes.
LEMMA GotoOnlyPc ==
  ASSUME TypeOK, NEW p \in Procs,
         NEW pc \in {"team", "caller", "role", "user", "write", "publish", "evict", "self",
                     "cached", "db", "fill"},
         Goto(p, pc)
  PROVE  /\ req' \in [Procs -> Request] /\ \A q \in Procs \ {p} : req'[q] = req[q]
         /\ req'[p].pc = pc /\ InFlight(p)'
         /\ req'[p].op = req[p].op /\ req'[p].user = req[p].user
         /\ req'[p].team = req[p].team /\ req'[p].target = req[p].target
<1>1. req[p] \in Request
  BY DEF TypeOK
<1>2. [req[p] EXCEPT !.pc = pc] \in Request
  BY <1>1 DEF Request
<1>3. req' = [req EXCEPT ![p] = [req[p] EXCEPT !.pc = pc]] /\ req \in [Procs -> Request]
  BY DEF Goto, TypeOK
<1>4. req'[p] = [req[p] EXCEPT !.pc = pc] /\ req' \in [Procs -> Request]
      /\ \A q \in Procs \ {p} : req'[q] = req[q]
  BY <1>2, <1>3
<1> QED
  BY <1>1, <1>4 DEF InFlight, Request

-----------------------------------------------------------------------------
(* The steps. *)

LEMMA BeginStep ==
  ASSUME IInv, History, NEW p \in Procs, Begin(p)
  PROVE  IInv'
<1>1. PICK i \in Inputs :
        req' = [req EXCEPT ![p] = [pc |-> FirstPc(i.op), op |-> i.op, user |-> i.user,
                                   team |-> i.team, target |-> i.target, list |-> NoList]]
  BY DEF Begin
<1>2. UNCHANGED <<tables, listCache, activity, late>>
  BY DEF Begin
<1>3. /\ i.op \in AllOps /\ i.user \in Users /\ i.team \in TeamIds \cup {NoTeam}
      /\ i.target \in Users \cup {NoUser}
      /\ i.op = "create" => i.user \in Managers
      /\ i.op # "create" => i.team \in TeamIds
      /\ i.op \notin {"create", "members"} => i.target \in Users
  BY TeamsAssumption DEF Inputs, AllOps
<1>4. req \in [Procs -> Request]
  BY DEF IInv, TypeOK
<1> DEFINE r == [pc |-> FirstPc(i.op), op |-> i.op, user |-> i.user, team |-> i.team,
                 target |-> i.target, list |-> NoList]
<1>5. req' = [req EXCEPT ![p] = r]
  BY <1>1
<1>6. r \in Request
  BY <1>3 DEF Request, FirstPc
<1>7. req'[p] = r /\ req' \in [Procs -> Request] /\ \A q \in Procs \ {p} : req'[q] = req[q]
  BY <1>4, <1>5, <1>6
<1>8. Knows(p)'
  <2>1. CASE i.op = "create"
    <3>1. Entitled(p)'
      BY <2>1, <1>3, <1>7 DEF Entitled, InFlight, FirstPc
    <3> QED
      BY <2>1, <3>1, <1>3, <1>7, HistoryKeeps DEF Knows, OpsAt, FirstPc
  <2>2. CASE i.op # "create"
    BY <2>2, <1>3, <1>7 DEF Knows, OpsAt, FirstPc, AllOps
  <2> QED
    BY <2>1, <2>2
<1> QED
  BY <1>2, <1>7, <1>8, RequestMoves

\* The checks find the caller entitled before they let the request go on.
LEMMA CheckStep ==
  ASSUME IInv, History, NEW p \in Procs,
         GetTeam(p) \/ CheckCaller(p) \/ TargetRole(p) \/ TargetUser(p) \/ CheckSelf(p)
  PROVE  IInv'
<1> DEFINE r == req[p]
<1>1. TypeOK /\ Knows(p)
  BY DEF IInv, RequestsKnow
<1>2. UNCHANGED <<tables, listCache, activity, late>> /\ UNCHANGED <<creator, members, active>>
  BY DEF GetTeam, CheckCaller, TargetRole, TargetUser, CheckSelf, tables
<1>3. CASE Done(p)
  BY <1>1, <1>2, <1>3, DoneKnows, RequestMoves
<1>4. ASSUME NEW pc \in {"caller", "role", "user", "write", "cached"}, Goto(p, pc), Knows(p)'
      PROVE  IInv'
  BY <1>1, <1>2, <1>4, GotoOnlyPc, RequestMoves
<1>5. CASE GetTeam(p)
  <2>1. InFlight(p) /\ r.op \in {"add", "remove", "promote", "demote"}
    BY <1>1, <1>5 DEF GetTeam, At, InFlight, Knows, OpsAt
  <2>2. CASE r.op \in {"add", "remove"}
    <3>1. Goto(p, "caller")
      BY <1>5, <2>2 DEF GetTeam
    <3>2. Knows(p)'
      BY <1>1, <2>1, <2>2, <3>1, GotoOnlyPc DEF Knows, OpsAt
    <3> QED
      BY <3>1, <3>2, <1>4
  <2>3. CASE r.op \in {"promote", "demote"} /\ ~Done(p)
    <3>1. PICK pc \in {"user", "role"} :
            /\ Goto(p, pc) /\ creator[r.team] = r.user
            /\ pc = IF r.op = "promote" THEN "user" ELSE "role"
      BY <1>5, <2>3 DEF GetTeam, IsCreator
    <3>2. Entitled(p)'
      BY <1>1, <1>2, <2>3, <3>1, GotoOnlyPc DEF Entitled
    <3>3. Knows(p)'
      BY <1>1, <1>2, <2>1, <2>3, <3>1, <3>2, GotoOnlyPc, HistoryKeeps DEF Knows, OpsAt
    <3> QED
      BY <3>1, <3>3, <1>4
  <2> QED
    BY <2>1, <2>2, <2>3, <1>3
<1>6. CASE CheckCaller(p) /\ ~Done(p)
  <2>1. InFlight(p) /\ r.op \in {"add", "remove"}
    BY <1>1, <1>6 DEF CheckCaller, At, InFlight, Knows, OpsAt
  <2>2. PICK pc \in {"role", "write"} :
          /\ Goto(p, pc) /\ MemberRole(r.team, r.user) = "manager"
          /\ pc = IF r.op = "add" THEN "role" ELSE "write"
    BY <1>6 DEF CheckCaller, ManagesTeam
  <2>3. Entitled(p)'
    BY <1>1, <1>2, <2>1, <2>2, GotoOnlyPc DEF Entitled, MemberRole
  <2>4. Knows(p)'
    BY <1>1, <2>1, <2>2, <2>3, GotoOnlyPc, HistoryKeeps DEF Knows, OpsAt
  <2> QED
    BY <2>2, <2>4, <1>4
<1>7. CASE TargetRole(p) /\ ~Done(p)
  <2>1. InFlight(p) /\ r.op \in {"add", "demote"} /\ r.pc = "role"
    BY <1>1, <1>7 DEF TargetRole, At, InFlight, Knows, OpsAt
  <2>2. CASE r.op = "add"
    <3>1. Goto(p, "user") /\ MemberRole(r.team, r.target) = "none"
      BY <1>7, <2>2 DEF TargetRole, Joins
    <3>2. NoRowYet(p)' \/ TargetGone(p)'
      BY <1>1, <1>2, <2>2, <3>1, GotoOnlyPc DEF NoRowYet, TargetGone, Adds, MemberRole
    <3>3. Knows(p)'
      BY <1>1, <2>1, <2>2, <3>1, <3>2, GotoOnlyPc, HistoryKeeps DEF Knows, OpsAt
    <3> QED
      BY <3>1, <3>3, <1>4
  <2>3. CASE r.op = "demote"
    <3>1. Goto(p, "write")
      BY <1>7, <2>3 DEF TargetRole
    <3>2. Knows(p)'
      BY <1>1, <1>2, <2>1, <2>3, <3>1, GotoOnlyPc, HistoryKeeps DEF Knows, OpsAt
    <3> QED
      BY <3>1, <3>2, <1>4
  <2> QED
    BY <2>1, <2>2, <2>3
<1>8. CASE TargetUser(p) /\ ~Done(p)
  <2>1. InFlight(p) /\ r.op \in {"add", "promote"} /\ r.pc = "user" /\ Goto(p, "write")
    BY <1>1, <1>8 DEF TargetUser, At, InFlight, Knows, OpsAt
  <2>2. Knows(p)'
    BY <1>1, <1>2, <2>1, GotoOnlyPc, HistoryKeeps DEF Knows, OpsAt
  <2> QED
    BY <2>1, <2>2, <1>4
<1>9. CASE CheckSelf(p) /\ ~Done(p)
  <2>1. /\ InFlight(p) /\ r.op = "members" /\ Goto(p, "cached")
        /\ MemberRole(r.team, r.user) # "none"
    BY <1>1, <1>9 DEF CheckSelf, At, InFlight, Knows, OpsAt, IsMember
  <2>2. Entitled(p)'
    BY <1>1, <1>2, <2>1, GotoOnlyPc DEF Entitled, MemberRole
  <2>3. Knows(p)'
    BY <1>1, <2>1, <2>2, GotoOnlyPc, HistoryKeeps DEF Knows, OpsAt
  <2> QED
    BY <2>1, <2>3, <1>4
<1> QED
  BY <1>3, <1>5, <1>6, <1>7, <1>8, <1>9

\* A commit adds at most its own team to the lists that miss something.
LEMMA CommitLate ==
  ASSUME TypeOK, NEW p \in Procs, NEW next, Committed(p, next)
  PROVE  late' \subseteq TeamIds /\ late \subseteq late'
  BY DEF Committed, Neglect, TypeOK

LEMMA CreateStep ==
  ASSUME IInv, History, NEW p \in Procs, CreateTeam(p)
  PROVE  IInv'
<1> DEFINE r == req[p]
<1>1. TypeOK /\ Knows(p) /\ r \in Request /\ r.pc = "write" /\ r.op = "create" /\ r.user \in Users
  BY DEF IInv, RequestsKnow, TypeOK, CreateTeam, At, Knows, InFlight
<1>2. PICK t \in TeamIds :
        /\ creator[t] = NoUser
        /\ creator' = [creator EXCEPT ![t] = r.user]
        /\ members' = [members EXCEPT ![t][r.user] = "manager"]
        /\ Committed(p, [r EXCEPT !.pc = "publish", !.team = t, !.target = r.user])
  BY DEF CreateTeam, NewTeam, Exists
<1> DEFINE s == [r EXCEPT !.pc = "publish", !.team = t, !.target = r.user]
<1>3. Done(p) \/ req' = [req EXCEPT ![p] = s]
  BY <1>2 DEF Committed
<1>4. /\ req' \in [Procs -> Request] /\ \A q \in Procs \ {p} : req'[q] = req[q]
      /\ Knows(p)'
  <2>1. CASE Done(p)
    BY <2>1, <1>1, DoneKnows
  <2>2. CASE req' = [req EXCEPT ![p] = s]
    <3>1. s \in Request /\ s.pc = "publish" /\ s.op = "create" /\ s.user = r.user /\ s.team = t
          /\ s.target = r.user
      BY <1>1 DEF Request
    <3> HIDE DEF s
    <3>2. req'[p] = s /\ req' \in [Procs -> Request] /\ \A q \in Procs \ {p} : req'[q] = req[q]
      BY <2>2, <3>1, <1>1 DEF TypeOK
    <3> QED
      BY <3>1, <3>2, <1>1 DEF Knows, OpsAt
  <2> QED
    BY <2>1, <2>2, <1>3
<1>5. creator' \in [TeamIds -> Users \cup {NoUser}] /\ members' \in [TeamIds -> Members]
      /\ \A u \in TeamIds : creator[u] # NoUser => creator'[u] = creator[u]
  BY <1>1, <1>2 DEF TypeOK, Members, Roles
<1>6. UNCHANGED <<active, listCache, activity>> /\ late' \subseteq TeamIds
  BY <1>1, <1>2, CommitLate DEF CreateTeam
<1> QED
  BY <1>1, <1>4, <1>5, <1>6, OneMoves DEF TypeOK

\* A write of a membership.
LEMMA WriteStep ==
  ASSUME IInv, History, NEW p \in Procs, UpsertMember(p) \/ RemoveMember(p)
  PROVE  IInv'
<1> DEFINE r == req[p]
<1>1. TypeOK /\ Knows(p) /\ r \in Request /\ r.pc = "write"
      /\ r.op \in {"add", "remove", "promote", "demote"}
      /\ r.team \in TeamIds /\ r.target \in Users /\ r.user \in Users
  BY DEF IInv, RequestsKnow, TypeOK, UpsertMember, RemoveMember, At, Knows, InFlight
<1>2. UNCHANGED <<creator, active, listCache, activity>> /\ late' \subseteq TeamIds
  BY <1>1, CommitLate DEF UpsertMember, RemoveMember, TypeOK
<1>3. members' \in [TeamIds -> Members]
  <2>1. \/ members' = members
        \/ \E role \in Roles : members' = [members EXCEPT ![r.team][r.target] = role]
    BY DEF UpsertMember, RemoveMember, RoleWritten, Roles
  <2>2. members \in [TeamIds -> Members]
    BY <1>1 DEF TypeOK
  <2>3. ASSUME NEW role \in Roles, members' = [members EXCEPT ![r.team][r.target] = role]
        PROVE  members' \in [TeamIds -> Members]
    <3>1. [members[r.team] EXCEPT ![r.target] = role] \in Members
      BY <2>2, <1>1 DEF Members
    <3> QED
      BY <3>1, <2>2, <2>3
  <2> QED
    BY <2>1, <2>2, <2>3
<1>4. Done(p) \/ Goto(p, "publish")
  <2>1. [r EXCEPT !.pc = "publish"] = [req[p] EXCEPT !.pc = "publish"]
    OBVIOUS
  <2> QED
    BY <2>1 DEF UpsertMember, RemoveMember, Committed, Goto
<1>5. /\ req' \in [Procs -> Request] /\ \A q \in Procs \ {p} : req'[q] = req[q]
      /\ Knows(p)'
  <2>1. CASE Done(p)
    BY <2>1, <1>1, DoneKnows
  <2>2. CASE Goto(p, "publish")
    <3>1. InFlight(p)
      BY <1>1 DEF InFlight
    <3> QED
      BY <2>2, <3>1, <1>1, <1>2, GotoOnlyPc DEF Knows, OpsAt
  <2> QED
    BY <2>1, <2>2, <1>4
<1> QED
  BY <1>1, <1>2, <1>3, <1>5, OneMoves DEF TypeOK

LEMMA PublishStep ==
  ASSUME IInv, History, NEW p \in Procs, Publish(p)
  PROVE  IInv'
<1> DEFINE r == req[p]
<1>1. TypeOK /\ Knows(p) /\ r \in Request /\ r.pc = "publish" /\ InFlight(p)
      /\ r.op \in {"create", "add", "remove", "promote", "demote"}
      /\ r.team \in TeamIds /\ r.target \in Users /\ r.user \in Users
  BY DEF IInv, RequestsKnow, TypeOK, Publish, At, Knows, InFlight, OpsAt
<1>2. activity' \subseteq activity \cup {<<EventOf(r.op), r.team, r.target>>}
  BY DEF Publish
<1>3. <<EventOf(r.op), r.team, r.target>> \in
        {"TEAM_CREATED", "MEMBER_ADDED", "MEMBER_REMOVED", "MANAGER_ADDED", "MANAGER_REMOVED"}
          \X TeamIds \X Users
  BY <1>1 DEF EventOf
<1>4. UNCHANGED <<tables, listCache, late>> /\ UNCHANGED <<creator, members, active>>
  BY DEF Publish, tables
<1>5. Done(p) \/ (Goto(p, "evict") /\ r.op # "create")
  BY DEF Publish, Evicts
<1>6. /\ req' \in [Procs -> Request] /\ \A q \in Procs \ {p} : req'[q] = req[q]
      /\ Knows(p)'
  <2>1. CASE Done(p)
    BY <2>1, <1>1, DoneKnows
  <2>2. CASE Goto(p, "evict") /\ r.op # "create"
    BY <2>2, <1>1, <1>4, GotoOnlyPc DEF Knows, OpsAt
  <2> QED
    BY <2>1, <2>2, <1>5
<1>7. activity' \subseteq
        {"TEAM_CREATED", "MEMBER_ADDED", "MEMBER_REMOVED", "MANAGER_ADDED", "MANAGER_REMOVED"}
          \X TeamIds \X Users
  BY <1>1, <1>2, <1>3 DEF TypeOK
<1> QED
  BY <1>1, <1>4, <1>6, <1>7, OneMoves DEF TypeOK

\* The steps that end a request, and those of GetMembers behind its check.
LEMMA CacheStep ==
  ASSUME IInv, History, NEW p \in Procs,
         Evict(p) \/ GetCached(p) \/ GetDb(p) \/ Fill(p) \/ Abort(p)
  PROVE  IInv'
<1> DEFINE r == req[p]
<1>1. TypeOK /\ Knows(p) /\ r \in Request
  BY DEF IInv, RequestsKnow, TypeOK
<1>2. UNCHANGED tables /\ UNCHANGED activity /\ UNCHANGED <<creator, members, active>>
  BY DEF Evict, GetCached, GetDb, Fill, Abort, tables
<1>3. CASE Done(p) \/ Answer(p)
  <2>1. /\ req' \in [Procs -> Request] /\ \A q \in Procs \ {p} : req'[q] = req[q]
        /\ Knows(p)'
    BY <1>1, <1>3, DoneKnows
  <2>2. CASE Evict(p)
    <3>1. InFlight(p) /\ r.team \in TeamIds
      BY <2>2, <1>1 DEF Evict, At, InFlight, Knows, OpsAt
    <3>2. listCache' \in [TeamIds -> Members \cup {NoList}] /\ late' \subseteq TeamIds
      BY <2>2, <3>1, <1>1 DEF Evict, Drop, Neglect, TypeOK
    <3> QED
      BY <2>1, <3>2, <1>1, <1>2, OneMoves DEF TypeOK
  <2>3. CASE Fill(p)
    <3>1. InFlight(p) /\ r.team \in TeamIds /\ r.list \in Members \cup {NoList}
      BY <2>3, <1>1 DEF Fill, At, InFlight, Knows, OpsAt, Request
    <3>2. listCache' \in [TeamIds -> Members \cup {NoList}] /\ late' \subseteq TeamIds
      BY <2>3, <3>1, <1>1 DEF Fill, TypeOK
    <3> QED
      BY <2>1, <3>2, <1>1, <1>2, OneMoves DEF TypeOK
  <2>4. CASE GetCached(p) \/ GetDb(p)
    BY <2>1, <2>4, RequestMoves DEF GetCached, GetDb
  <2>5. CASE Abort(p)
    <3>1. listCache' = listCache /\ late' \subseteq TeamIds
      BY <2>5, <1>1 DEF Abort, Neglect, TypeOK
    <3> QED
      BY <2>1, <3>1, <1>1, <1>2, OneMoves DEF TypeOK
  <2> QED
    BY <2>2, <2>3, <2>4, <2>5
<1>4. CASE GetCached(p) /\ Goto(p, "db")
  <2>1. InFlight(p) /\ r.pc = "cached"
    BY <1>4 DEF GetCached, At, InFlight
  <2>2. Knows(p)'
    BY <2>1, <1>1, <1>4, GotoOnlyPc, HistoryKeeps DEF Knows, OpsAt
  <2> QED
    BY <2>2, <1>1, <1>4, GotoOnlyPc, RequestMoves DEF GetCached
<1>5. CASE GetDb(p)
  <2> DEFINE s == [r EXCEPT !.pc = "fill", !.list = ListMembers(r.team)]
  <2>1. InFlight(p) /\ r.pc = "db" /\ r.op = "members" /\ r.team \in TeamIds /\ p \in may
    BY <1>1, <1>5 DEF GetDb, At, InFlight, Knows, OpsAt
  <2>2. ListMembers(r.team) \in Members
    BY <2>1, <1>1 DEF ListMembers, MemberRole, TypeOK, Members, Roles
  <2>3. /\ s \in Request /\ s.pc = "fill" /\ s.op = r.op /\ s.user = r.user /\ s.team = r.team
        /\ s.target = r.target
    BY <2>2, <1>1 DEF Request
  <2>4. req' = [req EXCEPT ![p] = s]
    BY <1>5 DEF GetDb
  <2> HIDE DEF s
  <2>5. req'[p] = s /\ req' \in [Procs -> Request] /\ \A q \in Procs \ {p} : req'[q] = req[q]
    BY <2>3, <2>4, <1>1 DEF TypeOK
  <2>6. InFlight(p)'
    BY <2>3, <2>5 DEF InFlight
  <2>7. Knows(p)'
    BY <2>1, <2>3, <2>5, <2>6, <1>1, HistoryKeeps DEF Knows, OpsAt
  <2> QED
    BY <2>5, <2>7, <1>5, RequestMoves DEF GetDb
<1>6. Done(p) \/ Answer(p) \/ (GetCached(p) /\ Goto(p, "db")) \/ GetDb(p)
  BY DEF Evict, GetCached, Fill, Abort
<1> QED
  BY <1>3, <1>4, <1>5, <1>6

LEMMA EnvironmentStep ==
  ASSUME IInv, History, (\E t \in TeamIds : Expire(t)) \/ ProjectionChange
  PROVE  IInv'
<1>1. TypeOK
  BY DEF IInv
<1>2. UNCHANGED <<creator, members, activity, req>>
  BY DEF Expire, ProjectionChange, tables
<1>3. active' \subseteq Users /\ listCache' \in [TeamIds -> Members \cup {NoList}]
      /\ late' \subseteq TeamIds
  BY <1>1, TeamsAssumption DEF Expire, ProjectionChange, Drop, tables, TypeOK
<1>4. TypeOK'
  BY <1>1, <1>2, <1>3 DEF TypeOK, History
<1>5. \A p \in Procs : Knows(p)'
  BY <1>2, HistoryKeeps DEF IInv, RequestsKnow, Knows, InFlight
<1> QED
  BY <1>4, <1>5 DEF IInv, RequestsKnow

-----------------------------------------------------------------------------
(* The theorems. *)

\* The invariant holds at first.
LEMMA InitIInv == Init => IInv
<1> SUFFICES ASSUME Init PROVE IInv
  OBVIOUS
<1>1. Idle \in Request
  BY DEF Idle, Request, AllOps
<1>2. TypeOK
  BY <1>1 DEF Init, TypeOK, Members, Roles
<1>3. RequestsKnow
  BY DEF Init, RequestsKnow, Knows, InFlight, Idle
<1> QED
  BY <1>2, <1>3 DEF IInv

\* Every step keeps it.
LEMMA NextIInv == IInv /\ [Next]_vars => IInv'
<1> SUFFICES ASSUME IInv, [Next]_vars PROVE IInv'
  OBVIOUS
<1>1. CASE Next
  <2>1. History
    BY <1>1 DEF Next
  <2>2. ASSUME NEW p \in Procs, Begin(p) \/ Serve(p) \/ Abort(p) PROVE IInv'
    BY <2>1, <2>2, BeginStep, CheckStep, CreateStep, WriteStep, PublishStep, CacheStep DEF Serve
  <2> QED
    BY <1>1, <2>1, <2>2, EnvironmentStep DEF Next
<1>2. CASE UNCHANGED vars
  <2>1. TypeOK'
    BY <1>2 DEF IInv, TypeOK, vars, tables
  <2>2. RequestsKnow'
    BY <1>2 DEF IInv, RequestsKnow, Knows, InFlight, vars, tables
  <2> QED
    BY <2>1, <2>2 DEF IInv
<1> QED
  BY <1>1, <1>2

\* The invariant holds throughout: a request that is about to write or to answer
\* has passed its checks at some time since it began.
THEOREM Invariance == Spec => []IInv
<1>1. Init => IInv
  BY InitIInv
<1>2. IInv /\ [Next]_vars => IInv'
  BY NextIInv
<1> QED
  BY <1>1, <1>2, PTL DEF Spec

\* Types of the tables, the cache, the topic and the requests.
THEOREM Typed == Spec => []TypeOK
<1>1. IInv => TypeOK
  BY DEF IInv
<1> QED
  BY <1>1, Invariance, PTL

\* What a step can do to the tables and to the answers, and what the request
\* that takes it has found out.
LEMMA WhoWrites ==
  ASSUME IInv, Next
  PROVE  \/ UNCHANGED <<creator, members>>
            /\ \A p \in Procs : ~(InFlight(p) /\ req'[p].pc = "listed")
         \/ \E p \in Procs :
              /\ \A q \in Procs \ {p} : req'[q] = req[q]
              /\ p \in may
              /\ \/ UNCHANGED <<creator, members>>
                 \/ CreateTeam(p)
                 \/ RemoveMember(p) /\ req[p].op = "remove"
                 \/ /\ UpsertMember(p)
                    /\ req[p].op = "add" => p \in absent \cup gone
                    /\ req[p].op = "promote" => creator[req[p].team] = req[p].user
<1>1. TypeOK /\ \A p \in Procs : Knows(p)
  BY DEF IInv, RequestsKnow
<1>2. ASSUME NEW p \in Procs, CreateTeam(p) \/ RemoveMember(p) \/ UpsertMember(p)
      PROVE  /\ \A q \in Procs \ {p} : req'[q] = req[q]
             /\ p \in may
             /\ \/ CreateTeam(p)
                \/ RemoveMember(p) /\ req[p].op = "remove"
                \/ /\ UpsertMember(p)
                   /\ req[p].op = "add" => p \in absent \cup gone
                   /\ req[p].op = "promote" => creator[req[p].team] = req[p].user
  <2>1. Knows(p) /\ InFlight(p) /\ req[p].pc = "write"
    BY <1>1, <1>2 DEF CreateTeam, RemoveMember, UpsertMember, At, InFlight
  <2>2. \A q \in Procs \ {p} : req'[q] = req[q]
    BY <1>1, <1>2 DEF CreateTeam, RemoveMember, UpsertMember, Committed, Done, TypeOK
  <2> QED
    BY <1>2, <2>1, <2>2 DEF Knows, RemoveMember
<1>3. ASSUME NEW p \in Procs, GetCached(p) \/ Fill(p)
      PROVE  /\ \A q \in Procs \ {p} : req'[q] = req[q]
             /\ p \in may /\ UNCHANGED <<creator, members>>
  <2>1. Knows(p) /\ InFlight(p) /\ req[p].pc \in {"cached", "fill"}
    BY <1>1, <1>3 DEF GetCached, Fill, At, InFlight
  <2>2. \A q \in Procs \ {p} : req'[q] = req[q]
    BY <1>1, <1>3 DEF GetCached, Fill, Answer, Goto, TypeOK
  <2> QED
    BY <1>3, <2>1, <2>2 DEF Knows, GetCached, Fill, tables
<1>4. ASSUME NEW p \in Procs,
             Begin(p) \/ GetTeam(p) \/ CheckCaller(p) \/ TargetRole(p) \/ TargetUser(p) \/ Publish(p)
               \/ Evict(p) \/ CheckSelf(p) \/ GetDb(p) \/ Abort(p)
      PROVE  /\ UNCHANGED <<creator, members>>
             /\ \A q \in Procs : ~(InFlight(q) /\ req'[q].pc = "listed")
  <2>1. UNCHANGED <<creator, members>>
    BY <1>4 DEF Begin, GetTeam, CheckCaller, TargetRole, TargetUser, Publish, Evict, CheckSelf,
                GetDb, Abort, tables
  <2>2. \/ Begin(p) \/ Done(p)
        \/ \E pc \in {"caller", "user", "role", "write", "evict", "cached"} : Goto(p, pc)
        \/ GetDb(p)
    <3>1. ASSUME GetTeam(p)
          PROVE  Done(p) \/ \E pc \in {"caller", "user", "role"} : Goto(p, pc)
      <4>1. req[p].op \in {"add", "remove", "promote", "demote"}
        BY <1>1, <3>1 DEF GetTeam, At, Knows, OpsAt, InFlight
      <4> QED
        BY <3>1, <4>1 DEF GetTeam
    <3>2. ASSUME TargetRole(p)
          PROVE  Done(p) \/ \E pc \in {"user", "write"} : Goto(p, pc)
      <4>1. req[p].op \in {"add", "demote"}
        BY <1>1, <3>2 DEF TargetRole, At, Knows, OpsAt, InFlight
      <4> QED
        BY <3>2, <4>1 DEF TargetRole
    <3> QED
      BY <1>4, <3>1, <3>2 DEF CheckCaller, TargetUser, Publish, Evict, CheckSelf, Abort
  <2>3. /\ \A q \in Procs \ {p} : req'[q] = req[q]
        /\ req'[p].pc # "listed"
    <3>1. CASE Begin(p)
      BY <1>1, <3>1 DEF Begin, TypeOK, FirstPc
    <3>2. CASE Done(p)
      BY <1>1, <3>2 DEF Done, Idle, TypeOK
    <3>3. ASSUME NEW pc \in {"caller", "user", "role", "write", "evict", "cached"}, Goto(p, pc)
          PROVE  (\A q \in Procs \ {p} : req'[q] = req[q]) /\ req'[p].pc # "listed"
      BY <1>1, <3>3, GotoOnlyPc
    <3>4. CASE GetDb(p)
      BY <1>1, <3>4 DEF GetDb, TypeOK, Request
    <3> QED
      BY <2>2, <3>1, <3>2, <3>3, <3>4
  <2>4. \A q \in Procs : ~(InFlight(q) /\ req'[q].pc = "listed")
    BY <2>3 DEF InFlight
  <2> QED
    BY <2>1, <2>4
<1>5. ASSUME (\E t \in TeamIds : Expire(t)) \/ ProjectionChange
      PROVE  /\ UNCHANGED <<creator, members>>
             /\ \A q \in Procs : ~(InFlight(q) /\ req'[q].pc = "listed")
  BY <1>5 DEF Expire, ProjectionChange, tables, InFlight
<1> QED
  BY <1>2, <1>3, <1>4, <1>5 DEF Next, Serve

\* Whatever interleaves between a check and its write or answer, nothing is
\* written or disclosed for a caller who was never entitled to it.
THEOREM Entitlement == Spec => EntitledSinceBegin
<1>1. IInv /\ [Next]_vars =>
        [\A p \in Procs :
           /\ InFlight(p) /\ req[p] # req'[p]
           /\ <<creator, members>> # <<creator, members>>' \/ req'[p].pc = "listed"
           => p \in may]_vars
  <2> SUFFICES ASSUME IInv, Next, NEW p \in Procs, InFlight(p), req[p] # req'[p],
                      <<creator, members>> # <<creator, members>>' \/ req'[p].pc = "listed"
               PROVE  p \in may
    OBVIOUS
  <2> QED
    BY WhoWrites
<1> QED
  BY <1>1, Invariance, PTL DEF Spec, EntitledSinceBegin

\* Only the creator's own request turns a user into a manager.
THEOREM ManagersByCreator == Spec => ManagersMadeByCreator
<1>1. IInv /\ [Next]_vars =>
        [\A t \in TeamIds, u \in Users :
           (members[t][u] # "manager" /\ members'[t][u] = "manager") =>
             \E p \in Procs : /\ req[p].op \in {"create", "promote"} /\ At(p, "write")
                              /\ creator'[t] = req[p].user]_vars
  <2> SUFFICES ASSUME IInv, Next, NEW t \in TeamIds, NEW u \in Users,
                      members[t][u] # "manager", members'[t][u] = "manager"
               PROVE  \E p \in Procs : /\ req[p].op \in {"create", "promote"} /\ At(p, "write")
                                       /\ creator'[t] = req[p].user
    OBVIOUS
  <2>1. /\ creator \in [TeamIds -> Users \cup {NoUser}]
        /\ members \in [TeamIds -> Members]
    BY DEF IInv, TypeOK
  <2>2. PICK p \in Procs :
          \/ CreateTeam(p)
          \/ RemoveMember(p)
          \/ /\ UpsertMember(p)
             /\ req[p].op = "promote" => creator[req[p].team] = req[p].user
    BY WhoWrites
  <2>3. CASE CreateTeam(p)
    <3>1. PICK s \in TeamIds : /\ creator' = [creator EXCEPT ![s] = req[p].user]
                               /\ members' = [members EXCEPT ![s][req[p].user] = "manager"]
      BY <2>3 DEF CreateTeam
    <3>2. s = t
      BY <3>1, <2>1
    <3> QED
      BY <3>1, <3>2, <2>1, <2>3 DEF CreateTeam
  <2>4. CASE RemoveMember(p)
    <3>1. members' = members \/ members' = [members EXCEPT ![req[p].team][req[p].target] = "none"]
      BY <2>4 DEF RemoveMember
    <3> QED
      BY <3>1, <2>1 DEF Members
  <2>5. CASE UpsertMember(p) /\ (req[p].op = "promote" => creator[req[p].team] = req[p].user)
    <3>1. members' = [members EXCEPT ![req[p].team][req[p].target] = RoleWritten(req[p].op)]
      BY <2>5 DEF UpsertMember
    <3>2. t = req[p].team /\ RoleWritten(req[p].op) = "manager"
      BY <3>1, <2>1 DEF Members, RoleWritten
    <3>3. req[p].op = "promote"
      BY <3>2 DEF RoleWritten
    <3> QED
      BY <3>2, <3>3, <2>5 DEF UpsertMember
  <2> QED
    BY <2>2, <2>3, <2>4, <2>5
<1> QED
  BY <1>1, Invariance, PTL DEF Spec, ManagersMadeByCreator

\* An addition overwrites a row only after a race: since the request began there
\* was a time when its target had no row, or one when he was soft-deleted.  In
\* the first case another request has made the row, in the second the row may
\* have been there all the time and the projection has restored its user.
THEOREM AdditionsRaceOnly == Spec => AddsOnlyAbsent
<1>1. IInv /\ [Next]_vars =>
        [\A p \in Procs :
           (At(p, "write") /\ req[p].op = "add" /\ req[p] # req'[p] /\ members # members') =>
             p \in absent \cup gone]_vars
  <2> SUFFICES ASSUME IInv, Next, NEW p \in Procs, At(p, "write"), req[p].op = "add",
                      req[p] # req'[p], members # members'
               PROVE  p \in absent \cup gone
    OBVIOUS
  <2> QED
    BY WhoWrites DEF CreateTeam
<1> QED
  BY <1>1, Invariance, PTL DEF Spec, AddsOnlyAbsent

-----------------------------------------------------------------------------
(* What a failed or a late call could spoil: the announcements and the cached
   lists.  Each invariant names the request that still owes its step. *)

\* A step of one request leaves the others alone.
LEMMA OthersStay ==
  ASSUME IInv, NEW p \in Procs, Begin(p) \/ Serve(p) \/ Abort(p)
  PROVE  \A q \in Procs \ {p} : req'[q] = req[q]
<1>1. req \in [Procs -> Request] /\ Knows(p)
  BY DEF IInv, RequestsKnow, TypeOK
<1>2. CASE Begin(p)
  BY <1>1, <1>2 DEF Begin
<1>3. ASSUME (\E pc : Goto(p, pc)) \/ Done(p) \/ Answer(p)
      PROVE  \A q \in Procs \ {p} : req'[q] = req[q]
  BY <1>1, <1>3 DEF Goto, Done, Answer
<1>4. CASE GetTeam(p)
  <2>1. req[p].op \in {"add", "remove", "promote", "demote"}
    BY <1>1, <1>4 DEF GetTeam, At, InFlight, Knows, OpsAt
  <2> QED
    BY <2>1, <1>3, <1>4 DEF GetTeam
<1>5. CASE TargetRole(p)
  <2>1. req[p].op \in {"add", "demote"}
    BY <1>1, <1>5 DEF TargetRole, At, InFlight, Knows, OpsAt
  <2> QED
    BY <2>1, <1>3, <1>5 DEF TargetRole
<1>6. CASE CreateTeam(p) \/ UpsertMember(p) \/ RemoveMember(p)
  BY <1>1, <1>6 DEF CreateTeam, UpsertMember, RemoveMember, Committed, Done
<1>7. CASE CheckCaller(p) \/ TargetUser(p) \/ Publish(p) \/ Evict(p) \/ CheckSelf(p)
           \/ GetCached(p) \/ Fill(p) \/ Abort(p)
  BY <1>3, <1>7 DEF CheckCaller, TargetUser, Publish, Evict, CheckSelf, GetCached, Fill, Abort
<1>8. CASE GetDb(p)
  BY <1>1, <1>8 DEF GetDb
<1> QED
  BY <1>2, <1>4, <1>5, <1>6, <1>7, <1>8 DEF Serve

\* A request that has committed goes on to its event and then to its eviction,
\* unless it is cut off, whatever the others do.
LEMMA CommittedGoesOn ==
  ASSUME IInv, [Next]_vars, NEW p \in Procs, req[p].pc \in {"publish", "evict"}
  PROVE  Publish(p) \/ Evict(p) \/ Abort(p) \/ req'[p] = req[p]
<1>1. ASSUME NEW q \in Procs, q # p, Begin(q) \/ Serve(q) \/ Abort(q)
      PROVE  req'[p] = req[p]
  BY <1>1, OthersStay
<1>2. ASSUME Begin(p) \/ Serve(p) \/ Abort(p)
      PROVE  Publish(p) \/ Evict(p) \/ Abort(p)
  BY <1>2 DEF Begin, InFlight, Serve, GetTeam, CheckCaller, TargetRole, TargetUser, CreateTeam,
              UpsertMember, RemoveMember, CheckSelf, GetCached, GetDb, Fill, At
<1>3. ASSUME (\E t \in TeamIds : Expire(t)) \/ ProjectionChange \/ UNCHANGED vars
      PROVE  req'[p] = req[p]
  BY <1>3 DEF Expire, ProjectionChange, vars
<1> QED
  BY <1>1, <1>2, <1>3 DEF Next

\* Only the three writes touch the teams and their members.
LEMMA TablesStay ==
  ASSUME [Next]_vars
  PROVE  \/ UNCHANGED <<creator, members>> /\ activity \subseteq activity'
         \/ \E p \in Procs : CreateTeam(p) \/ UpsertMember(p) \/ RemoveMember(p)
<1>1. ASSUME NEW p \in Procs, Begin(p) \/ Serve(p) \/ Abort(p),
             ~(CreateTeam(p) \/ UpsertMember(p) \/ RemoveMember(p))
      PROVE  UNCHANGED <<creator, members>> /\ activity \subseteq activity'
  BY <1>1 DEF Begin, Serve, Abort, GetTeam, CheckCaller, TargetRole, TargetUser, Publish, Evict,
              CheckSelf, GetCached, GetDb, Fill, tables
<1>2. ASSUME (\E t \in TeamIds : Expire(t)) \/ ProjectionChange \/ UNCHANGED vars
      PROVE  UNCHANGED <<creator, members>> /\ activity \subseteq activity'
  BY <1>2 DEF Expire, ProjectionChange, vars, tables
<1> QED
  BY <1>1, <1>2 DEF Next

\* The request that made u a manager of t and has not announced it yet.  Who
\* removes or demotes u is at the same step with the same target: it does not
\* count, its event is another.
Announcing(t, u) ==
  \E p \in Procs : /\ At(p, "publish") /\ req[p].op \in {"create", "promote"}
                   /\ req[p].team = t /\ req[p].target = u

Announced(t, u) == \E e \in {"TEAM_CREATED", "MANAGER_ADDED"} : <<e, t, u>> \in activity

ManagersAnnouncing ==
  \A t \in TeamIds, u \in Users :
    members[t][u] = "manager" => Announced(t, u) \/ Announcing(t, u)

\* Kafka takes every event and no process stops, and both events are recorded.
EventsTaken ==
  /\ "kafka" \notin Faults /\ "crash" \notin Faults
  /\ {"TEAM_CREATED", "MANAGER_ADDED"} \subseteq Observed

\* What is announced or about to be stays so.
LEMMA AnnouncementStays ==
  ASSUME EventsTaken, IInv, [Next]_vars, NEW t \in TeamIds, NEW u \in Users,
         Announced(t, u) \/ Announcing(t, u)
  PROVE  Announced(t, u)' \/ Announcing(t, u)'
<1>1. activity \subseteq activity'
  BY TablesStay DEF CreateTeam, UpsertMember, RemoveMember
<1>2. CASE Announced(t, u)
  BY <1>1, <1>2 DEF Announced
<1>3. CASE Announcing(t, u)
  <2>1. PICK p \in Procs : /\ req[p].pc = "publish" /\ req[p].op \in {"create", "promote"}
                           /\ req[p].team = t /\ req[p].target = u
    BY <1>3 DEF Announcing, At
  <2>2. CASE req'[p] = req[p]
    BY <2>1, <2>2 DEF Announcing, At
  <2>3. CASE Publish(p)
    <3>1. <<EventOf(req[p].op), t, u>> \in activity'
      <4>1. EventOf(req[p].op) \in {"TEAM_CREATED", "MANAGER_ADDED"}
        BY <2>1 DEF EventOf
      <4>2. Delivered("kafka") = {TRUE}
        BY DEF EventsTaken, Delivered
      <4> QED
        BY <2>1, <2>3, <4>1, <4>2 DEF Publish, EventsTaken
    <3> QED
      BY <3>1, <2>1 DEF Announced, EventOf
  <2> QED
    BY <2>1, <2>2, <2>3, CommittedGoesOn DEF EventsTaken, Evict, Abort, At
<1> QED
  BY <1>2, <1>3

\* A commit is followed by the event.
LEMMA CommitLeadsOn ==
  ASSUME TypeOK, "crash" \notin Faults, NEW p \in Procs, NEW STATE next, Committed(p, next)
  PROVE  req'[p] = next
  BY DEF TypeOK, Committed, Delivered

\* Every step keeps the announcements.
LEMMA ManagersAnnouncingStep ==
  ASSUME EventsTaken, IInv, ManagersAnnouncing, [Next]_vars
  PROVE  ManagersAnnouncing'
<1>1. /\ TypeOK /\ creator \in [TeamIds -> Users \cup {NoUser}] /\ members \in [TeamIds -> Members]
      /\ "crash" \notin Faults
  BY DEF IInv, TypeOK, EventsTaken
<1> SUFFICES ASSUME NEW t \in TeamIds, NEW u \in Users, members'[t][u] = "manager"
             PROVE  Announced(t, u)' \/ Announcing(t, u)'
  BY DEF ManagersAnnouncing, Announced
<1>2. CASE members[t][u] = "manager"
  BY <1>2, AnnouncementStays DEF ManagersAnnouncing
<1>3. CASE members[t][u] # "manager"
  <2>1. PICK p \in Procs : CreateTeam(p) \/ UpsertMember(p) \/ RemoveMember(p)
    BY <1>3, TablesStay
  <2>2. CASE CreateTeam(p)
    <3>1. PICK s \in TeamIds :
            /\ members' = [members EXCEPT ![s][req[p].user] = "manager"]
            /\ Committed(p, [req[p] EXCEPT !.pc = "publish", !.team = s, !.target = req[p].user])
      BY <2>2 DEF CreateTeam
    <3>2. req'[p] = [req[p] EXCEPT !.pc = "publish", !.team = s, !.target = req[p].user]
      BY <3>1, <1>1, CommitLeadsOn
    <3>3. s = t /\ req[p].user = u
      BY <3>1, <1>1, <1>3 DEF Members
    <3>4. req[p] \in Request /\ req[p].op = "create"
      BY <2>2, <1>1 DEF CreateTeam, TypeOK
    <3>5. req'[p].pc = "publish" /\ req'[p].op = "create" /\ req'[p].team = t /\ req'[p].target = u
      BY <3>2, <3>3, <3>4 DEF Request
    <3> QED
      BY <3>5 DEF Announcing, At
  <2>3. CASE UpsertMember(p)
    <3>1. /\ members' = [members EXCEPT ![req[p].team][req[p].target] = RoleWritten(req[p].op)]
          /\ Committed(p, [req[p] EXCEPT !.pc = "publish"])
      BY <2>3 DEF UpsertMember
    <3>2. req'[p] = [req[p] EXCEPT !.pc = "publish"]
      BY <3>1, <1>1, CommitLeadsOn
    <3>3. req[p].team = t /\ req[p].target = u /\ RoleWritten(req[p].op) = "manager"
      BY <3>1, <1>1, <1>3 DEF Members
    <3>4. req[p] \in Request /\ req[p].op = "promote"
      BY <3>3, <1>1 DEF RoleWritten, TypeOK
    <3>5. req'[p].pc = "publish" /\ req'[p].op = "promote" /\ req'[p].team = t /\ req'[p].target = u
      BY <3>2, <3>3, <3>4 DEF Request
    <3> QED
      BY <3>5 DEF Announcing, At
  <2>4. CASE RemoveMember(p)
    <3>1. members' = members \/ members' = [members EXCEPT ![req[p].team][req[p].target] = "none"]
      BY <2>4 DEF RemoveMember
    <3> QED
      BY <3>1, <1>1, <1>3 DEF Members
  <2> QED
    BY <2>1, <2>2, <2>3, <2>4
<1> QED
  BY <1>2, <1>3

\* When Kafka takes every event and no process stops, each manager has been
\* announced or is about to be by the request that made him one, whatever
\* removals and demotions of the same user interleave.
THEOREM ManagersAreAnnounced ==
  ASSUME EventsTaken
  PROVE  Spec => []ManagersAnnounced
<1>1. Init => ManagersAnnouncing
  BY DEF Init, ManagersAnnouncing
<1>2. IInv /\ ManagersAnnouncing /\ [Next]_vars => ManagersAnnouncing'
  BY ManagersAnnouncingStep
<1>3. ManagersAnnouncing => ManagersAnnounced
  BY DEF ManagersAnnouncing, ManagersAnnounced, Announced, Announcing
<1> QED
  BY <1>1, <1>2, <1>3, Invariance, PTL DEF Spec

\* Only the lists of teams that exist are read and cached.
ReadsExist ==
  /\ \A t \in TeamIds : Cached(t) => creator[t] # NoUser
  /\ \A p \in Procs : InFlight(p) /\ req[p].op = "members" => creator[req[p].team] # NoUser

\* Teams are never deleted.
LEMMA TeamsStay ==
  ASSUME IInv, [Next]_vars, NEW t \in TeamIds, creator[t] # NoUser
  PROVE  creator'[t] # NoUser
<1>1. creator \in [TeamIds -> Users \cup {NoUser}]
  BY DEF IInv, TypeOK
<1>2. ASSUME NEW p \in Procs, CreateTeam(p)
      PROVE  creator'[t] # NoUser
  <2>1. PICK s \in TeamIds : ~Exists(s) /\ creator' = [creator EXCEPT ![s] = req[p].user]
    BY <1>2 DEF CreateTeam, NewTeam
  <2>2. s # t
    BY <2>1 DEF Exists
  <2> QED
    BY <1>1, <2>1, <2>2
<1> QED
  BY <1>2, TablesStay DEF UpsertMember, RemoveMember

\* A cached list changes by an eviction, a fill or its expiry, and what is known
\* to be late is forgotten by these alone.
LEMMA ListsStay ==
  ASSUME [Next]_vars
  PROVE  \/ listCache' = listCache /\ late \subseteq late'
         \/ \E p \in Procs : Evict(p) \/ Fill(p)
         \/ \E t \in TeamIds : Expire(t)
         \/ ProjectionChange
<1>1. ASSUME NEW p \in Procs, Begin(p) \/ Serve(p) \/ Abort(p), ~(Evict(p) \/ Fill(p))
      PROVE  listCache' = listCache /\ late \subseteq late'
  BY <1>1 DEF Begin, Serve, Abort, GetTeam, CheckCaller, TargetRole, TargetUser, CreateTeam,
              UpsertMember, RemoveMember, Publish, CheckSelf, GetCached, GetDb, Committed, Neglect
<1> QED
  BY <1>1 DEF Next, vars

\* ReadsExist is inductive.
LEMMA ReadsExistStep ==
  ASSUME IInv, ReadsExist, [Next]_vars
  PROVE  ReadsExist'
<1>1. TypeOK /\ req \in [Procs -> Request] /\ listCache \in [TeamIds -> Members \cup {NoList}]
  BY DEF IInv, TypeOK
<1>2. ASSUME NEW t \in TeamIds, Cached(t)'
      PROVE  creator'[t] # NoUser
  <2>1. CASE Cached(t)
    BY <1>2, <2>1, TeamsStay DEF ReadsExist
  <2>2. CASE ~Cached(t)
    <3>1. PICK p \in Procs : Fill(p)
      BY <1>1, <1>2, <2>2, ListsStay DEF Cached, ProjectionChange, Evict, Expire, Drop
    <3>2. req[p].team = t
      BY <1>1, <1>2, <2>2, <3>1 DEF Fill, Cached
    <3>3. InFlight(p) /\ req[p].op = "members"
      BY <3>1, <1>1 DEF Fill, At, InFlight, IInv, RequestsKnow, Knows, OpsAt
    <3> QED
      BY <3>2, <3>3, TeamsStay DEF ReadsExist
  <2> QED
    BY <2>1, <2>2
<1>3. ASSUME NEW p \in Procs, InFlight(p)', req'[p].op = "members"
      PROVE  creator'[req'[p].team] # NoUser
  <2>1. CASE InFlight(p) /\ req'[p].op = req[p].op /\ req'[p].team = req[p].team
    <3>1. req[p].team \in TeamIds
      BY <2>1, <1>3 DEF IInv, RequestsKnow, Knows
    <3> QED
      BY <1>3, <2>1, <3>1, TeamsStay DEF ReadsExist
  <2>2. CASE Begin(p)
    <3>1. PICK i \in Inputs : /\ req'[p].op = i.op /\ req'[p].team = i.team
      BY <2>2, <1>1 DEF Begin
    <3>2. i.op = "members"
      BY <3>1, <1>3
    <3>3. Exists(i.team)
      BY <3>2 DEF Inputs
    <3> QED
      BY <3>1, <3>3, TeamsStay DEF Exists
  <2>3. CASE req'[p] = req[p]
    BY <1>3, <2>1, <2>3 DEF InFlight
  <2>4. CASE Serve(p) \/ Abort(p)
    <3>1. InFlight(p)
      BY <2>4 DEF Serve, Abort, GetTeam, CheckCaller, TargetRole, TargetUser, CreateTeam,
                  UpsertMember, RemoveMember, Publish, Evict, CheckSelf, GetCached, GetDb, Fill, At,
                  InFlight
    <3>2. req'[p].op = req[p].op /\ req'[p].team = req[p].team
      <4>1. req[p] \in Request /\ Knows(p)
        BY <1>1 DEF IInv, RequestsKnow
      <4>2. ~Done(p) /\ ~Answer(p)
        BY <1>1, <1>3 DEF Done, Answer, Idle, InFlight
      <4>3. ASSUME NEW pc, Goto(p, pc)
            PROVE  req'[p].op = req[p].op /\ req'[p].team = req[p].team
        BY <4>1, <4>3, <1>1 DEF Goto, Request
      <4>4. CASE GetTeam(p)
        <5>1. req[p].op \in {"add", "remove", "promote", "demote"}
          BY <4>1, <4>4 DEF GetTeam, At, InFlight, Knows, OpsAt
        <5> QED
          BY <5>1, <4>2, <4>3, <4>4 DEF GetTeam
      <4>5. CASE TargetRole(p)
        <5>1. req[p].op \in {"add", "demote"}
          BY <4>1, <4>5 DEF TargetRole, At, InFlight, Knows, OpsAt
        <5> QED
          BY <5>1, <4>2, <4>3, <4>5 DEF TargetRole
      <4>6. CASE CreateTeam(p)
        <5>1. \E t \in TeamIds :
                req' = [req EXCEPT ![p] = [req[p] EXCEPT !.pc = "publish", !.team = t, !.target = req[p].user]]
          BY <4>2, <4>6 DEF CreateTeam, Committed
        <5>2. req'[p].op = "create"
          BY <5>1, <4>1, <4>6, <1>1 DEF Request, CreateTeam
        <5> QED
          BY <5>2, <1>3
      <4>7. CASE UpsertMember(p) \/ RemoveMember(p)
        <5>1. req' = [req EXCEPT ![p] = [req[p] EXCEPT !.pc = "publish"]]
          BY <4>2, <4>7 DEF UpsertMember, RemoveMember, Committed
        <5> QED
          BY <5>1, <4>1, <1>1 DEF Request
      <4>8. CASE GetDb(p)
        BY <4>1, <4>8, <1>1 DEF GetDb, Request
      <4> QED
        BY <2>4, <4>2, <4>3, <4>4, <4>5, <4>6, <4>7, <4>8
           DEF Serve, Abort, CheckCaller, TargetUser, Publish, Evict, CheckSelf, GetCached, Fill
    <3> QED
      BY <2>1, <3>1, <3>2
  <2>5. req'[p] = req[p] \/ Begin(p) \/ Serve(p) \/ Abort(p)
    BY OthersStay DEF Next, Expire, ProjectionChange, vars
  <2> QED
    BY <2>2, <2>3, <2>4, <2>5
<1> QED
  BY <1>2, <1>3 DEF ReadsExist

\* An eviction stays owed until the list is dropped, or known to miss it.
LEMMA EvictionOwed ==
  ASSUME IInv, [Next]_vars, NEW t \in TeamIds, Cached(t), Owed(t)
  PROVE  Owed(t)' \/ ~Cached(t)' \/ t \in late'
<1>1. PICK p \in Procs : req[p].team = t /\ Owes(p)
  BY DEF Owed
<1>2. CASE req'[p] = req[p]
  BY <1>1, <1>2 DEF Owed, Owes, At
<1>3. CASE Publish(p)
  <2>1. Goto(p, "evict")
    BY <1>1, <1>3 DEF Publish, Owes
  <2>2. req'[p].team = t /\ req'[p].op = req[p].op /\ req'[p].pc = "evict"
    BY <1>1, <2>1, GotoOnlyPc DEF IInv
  <2> QED
    BY <1>1, <2>2 DEF Owed, Owes, At
<1>4. CASE Evict(p)
  <2>1. Drop(t) \/ Neglect(p)
    BY <1>1, <1>4 DEF Evict
  <2>2. ASSUME Drop(t) PROVE ~Cached(t)'
    BY <2>2 DEF Drop, Cached, IInv, TypeOK
  <2>3. ASSUME Neglect(p) PROVE t \in late'
    BY <1>1, <2>3 DEF Neglect
  <2> QED
    BY <2>1, <2>2, <2>3
<1>5. CASE Abort(p)
  BY <1>1, <1>5 DEF Abort, Neglect
<1>6. req[p].pc \in {"publish", "evict"}
  BY <1>1 DEF Owes, At
<1> QED
  BY <1>2, <1>3, <1>4, <1>5, <1>6, CommittedGoesOn

\* Who writes to a team with a cached list owes its eviction from then on, or its
\* acknowledgement is lost and the list is known to miss the eviction.
LEMMA WriterOwes ==
  ASSUME IInv, ReadsExist, NEW t \in TeamIds, Cached(t), NEW p \in Procs,
         CreateTeam(p) \/ UpsertMember(p) \/ RemoveMember(p),
         members'[t] # members[t]
  PROVE  Owed(t)' \/ t \in late'
<1>1. TypeOK /\ req[p] \in Request /\ members \in [TeamIds -> Members]
  BY DEF IInv, TypeOK
<1>2. CASE CreateTeam(p)
  <2>1. PICK s \in TeamIds :
          ~Exists(s) /\ members' = [members EXCEPT ![s][req[p].user] = "manager"]
    BY <1>2 DEF CreateTeam, NewTeam
  <2>2. s # t
    BY <2>1 DEF ReadsExist, Exists
  <2> QED
    BY <2>1, <2>2, <1>1
<1>3. CASE UpsertMember(p) \/ RemoveMember(p)
  <2>1. /\ \E role \in Roles : members' = [members EXCEPT ![req[p].team][req[p].target] = role]
        /\ Committed(p, [req[p] EXCEPT !.pc = "publish"])
        /\ Evicts(req[p].op)
    BY <1>3, <1>1 DEF UpsertMember, RemoveMember, RoleWritten, Roles, Evicts
  <2>2. req[p].team = t
    BY <2>1, <1>1
  <2>3. CASE req' = [req EXCEPT ![p] = [req[p] EXCEPT !.pc = "publish"]]
    <3>1. req'[p] = [req[p] EXCEPT !.pc = "publish"]
      BY <2>3, <1>1 DEF TypeOK
    <3>2. req'[p].pc = "publish" /\ req'[p].op = req[p].op /\ req'[p].team = t
      BY <2>2, <3>1, <1>1 DEF Request
    <3> QED
      BY <2>1, <3>2 DEF Owed, Owes, At
  <2>4. CASE Neglect(p)
    BY <2>2, <2>4 DEF Neglect
  <2> QED
    BY <2>1, <2>3, <2>4 DEF Committed
<1> QED
  BY <1>2, <1>3

\* StaleOnlyIfLate is inductive with it.
LEMMA StaleOnlyIfLateStep ==
  ASSUME IInv, ReadsExist, StaleOnlyIfLate, [Next]_vars
  PROVE  StaleOnlyIfLate'
<1>1. /\ TypeOK /\ members \in [TeamIds -> Members]
      /\ listCache \in [TeamIds -> Members \cup {NoList}]
  BY DEF IInv, TypeOK
<1> SUFFICES ASSUME NEW t \in TeamIds, Cached(t)', (listCache[t] # ListMembers(t))'
             PROVE  Owed(t)' \/ t \in late'
  BY DEF StaleOnlyIfLate
<1>2. ASSUME listCache'[t] = listCache[t], ListMembers(t)' = ListMembers(t),
             t \in late => t \in late'
      PROVE  Owed(t)' \/ t \in late'
  BY <1>2, EvictionOwed DEF StaleOnlyIfLate, Cached
<1>3. CASE listCache' = listCache /\ late \subseteq late'
  <2>1. CASE ListMembers(t)' = ListMembers(t)
    BY <1>3, <2>1, <1>2
  <2>2. CASE ListMembers(t)' # ListMembers(t)
    <3>1. Cached(t)
      BY <1>3 DEF Cached
    <3>2. members'[t] # members[t] \/ active' # active
      BY <2>2 DEF ListMembers, MemberRole
    <3>3. CASE members'[t] # members[t]
      BY <3>1, <3>3, TablesStay, WriterOwes
    <3>4. CASE active' # active
      <4>1. ProjectionChange
        BY <3>4 DEF Next, vars, tables, Begin, Serve, Abort, Expire, GetTeam, CheckCaller, TargetRole,
                    TargetUser, CreateTeam, UpsertMember, RemoveMember, Publish, Evict, CheckSelf,
                    GetCached, GetDb, Fill
      <4> QED
        BY <3>1, <4>1 DEF ProjectionChange
    <3> QED
      BY <3>2, <3>3, <3>4
  <2> QED
    BY <2>1, <2>2
<1>4. ASSUME NEW p \in Procs, Evict(p) \/ Fill(p)
      PROVE  Owed(t)' \/ t \in late'
  <2>1. UNCHANGED tables /\ ListMembers(t)' = ListMembers(t)
    BY <1>4 DEF Evict, Fill, tables, ListMembers, MemberRole
  <2>2. CASE Evict(p)
    <3>1. CASE Neglect(p) /\ UNCHANGED listCache
      BY <3>1, <2>1, <1>2 DEF Neglect
    <3>2. CASE Drop(req[p].team)
      <4>1. req[p].team # t
        BY <3>2, <1>1 DEF Drop, Cached
      <4> QED
        BY <3>2, <4>1, <2>1, <1>2 DEF Drop
    <3> QED
      BY <2>2, <3>1, <3>2 DEF Evict
  <2>3. CASE Fill(p)
    <3>1. CASE UNCHANGED <<listCache, late>>
      BY <3>1, <2>1, <1>2
    <3>2. CASE /\ listCache' = [listCache EXCEPT ![req[p].team] = req[p].list]
               /\ late' = IF req[p].list # ListMembers(req[p].team) THEN late \cup {req[p].team}
                          ELSE late \ {req[p].team}
      <4>1. CASE req[p].team = t
        BY <3>2, <4>1, <2>1, <1>1
      <4>2. CASE req[p].team # t
        BY <3>2, <4>2, <2>1, <1>2
      <4> QED
        BY <4>1, <4>2
    <3> QED
      BY <2>3, <3>1, <3>2 DEF Fill
  <2> QED
    BY <1>4, <2>2, <2>3
<1>5. ASSUME NEW s \in TeamIds, Expire(s)
      PROVE  Owed(t)' \/ t \in late'
  <2>1. Drop(s) /\ ListMembers(t)' = ListMembers(t)
    BY <1>5 DEF Expire, tables, ListMembers, MemberRole
  <2>2. s # t
    BY <2>1, <1>1 DEF Drop, Cached
  <2> QED
    BY <2>1, <2>2, <1>2 DEF Drop
<1>6. CASE ProjectionChange
  BY <1>6 DEF ProjectionChange, Cached
<1> QED
  BY <1>3, <1>4, <1>5, <1>6, ListsStay

\* Whatever fails, no completed write forgets the cached list of its team: a list
\* that differs from the tables has a writer that still owes the eviction, was
\* stale when a reader stored it, or misses a change of the projection or the very
\* eviction that a failure prevented.
THEOREM ListsStaleOnlyIfLate == Spec => []StaleOnlyIfLate
<1>1. Init => ReadsExist /\ StaleOnlyIfLate
  BY DEF Init, ReadsExist, StaleOnlyIfLate, Cached, InFlight, Idle
<1>2. IInv /\ ReadsExist /\ StaleOnlyIfLate /\ [Next]_vars => ReadsExist' /\ StaleOnlyIfLate'
  BY ReadsExistStep, StaleOnlyIfLateStep
<1> QED
  BY <1>1, <1>2, Invariance, PTL DEF Spec
=============================================================================
