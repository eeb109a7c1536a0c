------------------------------- MODULE Teams --------------------------------
(***************************************************************************)
(* The team component of core-service: the teams and team_members tables,  *)
(* the cached member lists, and the requests of service.go, interleaved    *)
(* with each other and with the consumer that soft-deletes and restores    *)
(* users in users_projection.  One step of a request is one call to        *)
(* PostgreSQL, Redis or Kafka and the local code up to the next one.       *)
(***************************************************************************)
EXTENDS Integers, FiniteSets

CONSTANTS
  Users,      \* they all have a row in users_projection
  NoUser,
  Managers,   \* users whose access token carries the role "manager"
  MaxTeams,   \* bound: teams that may ever be created
  Procs,      \* concurrently served requests
  Calls,      \* the <<operation, caller>> pairs each of Procs serves
  Observed,   \* bound: the events recorded in activity
  Leavers,    \* users that the projection may soft-delete and restore
  Faults,     \* which of "redis", "kafka", "crash" may fail
  NoList      \* an absent cached list

TeamIds == 1..MaxTeams
Roles == {"none", "member", "manager"}      \* "none": no team_members row
Members == [Users -> Roles]
AllOps == {"create", "add", "remove", "promote", "demote", "members"}
NoTeam == 0

ASSUME TeamsAssumption ==
  /\ MaxTeams \in Nat
  /\ NoUser \notin Users /\ NoList \notin Members
  /\ Managers \subseteq Users /\ Leavers \subseteq Users
  /\ Calls \in [Procs -> SUBSET (AllOps \X Users)]
  /\ Faults \subseteq {"redis", "kafka", "crash"}

VARIABLES
  creator,    \* table teams: id -> created_by, NoUser when there is no such team
  members,    \* table team_members: id -> user -> role
  active,     \* users_projection: users whose deleted_at is NULL
  listCache,  \* Redis team:<id>:members
  activity,   \* <<event, team, user>> on topic team.activity
  req,        \* the requests being served
  late,       \* history: teams whose cached list was stale when stored, or has
              \* since missed a change of the projection or an eviction that a
              \* failure prevented
  may,        \* history: requests entitled to what they ask at some time so far
  absent,     \* history: additions whose target had no row at some time so far
  gone        \* history: additions whose target was soft-deleted at some time so far

tables == <<creator, members, active>>
vars == <<tables, listCache, activity, req, late, may, absent, gone>>

-----------------------------------------------------------------------------
(* The queries. *)

Exists(t) == t \in TeamIds /\ creator[t] # NoUser

\* getMemberRole and getTeamMembers join the projection: a soft-deleted user
\* has no role and is not listed.
MemberRole(t, u) == IF u \in active THEN members[t][u] ELSE "none"
ListMembers(t) == [u \in Users |-> MemberRole(t, u)]

\* isManagerOfMember, the query behind the oversight of assets: it looks at
\* deleted_at of the member, not of the manager.
IsManagerOfMember(m, u) ==
  /\ u \in active
  /\ \E t \in TeamIds : members[t][m] = "manager" /\ members[t][u] # "none"

NewTeam(t) == ~Exists(t) /\ \A s \in TeamIds : s < t => Exists(s)

-----------------------------------------------------------------------------
(* Requests. *)

InFlight(p) == req[p].pc \notin {"idle", "listed"}

Idle == [pc |-> "idle", op |-> "none", user |-> NoUser, team |-> NoTeam,
         target |-> NoUser, list |-> NoList]

Inputs ==
  { [op |-> "create", user |-> u, team |-> NoTeam, target |-> NoUser] : u \in Managers }
  \cup
  { [op |-> "members", user |-> u, team |-> t, target |-> NoUser] :
      u \in Users, t \in {s \in TeamIds : Exists(s)} }
  \cup
  { [op |-> o, user |-> u, team |-> t, target |-> v] :
      o \in {"add", "remove", "promote", "demote"}, u \in Users, v \in Users,
      t \in {s \in TeamIds : Exists(s)} }

FirstPc(op) == CASE op = "create" -> "write"
                 [] op = "members" -> "self"
                 [] OTHER -> "team"

At(p, pc) == req[p].pc = pc
Goto(p, pc) == req' = [req EXCEPT ![p].pc = pc]
Done(p) == req' = [req EXCEPT ![p] = Idle]
\* GetMembers answers with a list.
Answer(p) == req' = [req EXCEPT ![p] = [Idle EXCEPT !.pc = "listed"]]

Delivered(system) == IF system \in Faults THEN BOOLEAN ELSE {TRUE}

MutNeverExpires(t) == FALSE
Cached(t) == listCache[t] # NoList

\* MaxTeams bounds the creations.
Begin(p) ==
  /\ ~InFlight(p)
  /\ \E i \in Inputs :
       /\ <<i.op, i.user>> \in Calls[p]
       /\ i.op = "create" =>
            Cardinality({t \in TeamIds : ~Exists(t)}) >
              Cardinality({q \in Procs : InFlight(q) /\ req[q].op = "create"})
       /\ req' = [req EXCEPT ![p] = [pc |-> FirstPc(i.op), op |-> i.op, user |-> i.user,
                                     team |-> i.team, target |-> i.target, list |-> NoList]]
  /\ UNCHANGED <<tables, listCache, activity, late>>

-----------------------------------------------------------------------------
(* The checks that open the requests. *)

\* requireTeamCreator, and the first half of requireTeamManager.  Teams are
\* never deleted, so a team that a client knows of is found.
IsCreator(t, u) == creator[t] = u

GetTeam(p) ==
  LET r == req[p] IN
  /\ At(p, "team")
  /\ CASE r.op \in {"add", "remove"} -> Goto(p, "caller")
       [] r.op = "promote" -> IF IsCreator(r.team, r.user) THEN Goto(p, "user") ELSE Done(p)
       [] r.op = "demote" -> IF IsCreator(r.team, r.user) /\ r.user # r.target
                             THEN Goto(p, "role") ELSE Done(p)
  /\ UNCHANGED <<tables, listCache, activity, late>>

MutAnyMemberManages(t, u) == MemberRole(t, u) # "none"
ManagesTeam(t, u) == MemberRole(t, u) = "manager"

\* The second half of requireTeamManager.
CheckCaller(p) ==
  LET r == req[p] IN
  /\ At(p, "caller")
  /\ IF ManagesTeam(r.team, r.user)
     THEN Goto(p, IF r.op = "add" THEN "role" ELSE "write") ELSE Done(p)
  /\ UNCHANGED <<tables, listCache, activity, late>>

MutJoinsUnlessMember(role) == role # "member"
Joins(role) == role = "none"

\* AddMember refuses a member, DemoteFromManager whoever is no manager.
TargetRole(p) ==
  LET r == req[p]
      role == MemberRole(r.team, r.target)
  IN
  /\ At(p, "role")
  /\ CASE r.op = "add" -> IF Joins(role) THEN Goto(p, "user") ELSE Done(p)
       [] r.op = "demote" -> IF role = "manager" THEN Goto(p, "write") ELSE Done(p)
  /\ UNCHANGED <<tables, listCache, activity, late>>

TargetUser(p) ==
  /\ At(p, "user")
  /\ IF req[p].target \in active THEN Goto(p, "write") ELSE Done(p)
  /\ UNCHANGED <<tables, listCache, activity, late>>

-----------------------------------------------------------------------------
(* The writes, each followed by its event and then its eviction. *)

\* The eviction that follows the write of p will not come.
Neglect(p) == late' = late \cup {t \in TeamIds : t = req[p].team /\ Cached(t)}

\* The acknowledgement of the write may be lost.
Committed(p, next) ==
  \E acked \in Delivered("crash") :
    IF acked THEN req' = [req EXCEPT ![p] = next] /\ UNCHANGED late ELSE Done(p) /\ Neglect(p)

\* CreateWithManager: team and first manager in one transaction.
CreateTeam(p) ==
  /\ At(p, "write") /\ req[p].op = "create"
  /\ \E t \in TeamIds :
       /\ NewTeam(t)
       /\ creator' = [creator EXCEPT ![t] = req[p].user]
       /\ members' = [members EXCEPT ![t][req[p].user] = "manager"]
       /\ Committed(p, [req[p] EXCEPT !.pc = "publish", !.team = t, !.target = req[p].user])
  /\ UNCHANGED <<active, listCache, activity>>

MutAddMakesManager(op) == IF op \in {"add", "promote"} THEN "manager" ELSE "member"
MutRoleOfOperation(op) == IF op = "promote" THEN "manager" ELSE op
RoleWritten(op) == IF op = "promote" THEN "manager" ELSE "member"

\* addTeamMember overwrites the role of a row that is there already.
UpsertMember(p) ==
  LET r == req[p] IN
  /\ At(p, "write") /\ r.op \in {"add", "promote", "demote"}
  /\ members' = [members EXCEPT ![r.team][r.target] = RoleWritten(r.op)]
  /\ Committed(p, [r EXCEPT !.pc = "publish"])
  /\ UNCHANGED <<creator, active, listCache, activity>>

\* RemoveMember, of whatever role; no row is an error.
RemoveMember(p) ==
  LET r == req[p] IN
  /\ At(p, "write") /\ r.op = "remove"
  /\ IF members[r.team][r.target] = "none"
     THEN Done(p) /\ UNCHANGED <<members, late>>
     ELSE /\ members' = [members EXCEPT ![r.team][r.target] = "none"]
          /\ Committed(p, [r EXCEPT !.pc = "publish"])
  /\ UNCHANGED <<creator, active, listCache, activity>>

EventOf(op) == CASE op = "create" -> "TEAM_CREATED"
                 [] op = "add" -> "MEMBER_ADDED"
                 [] op = "remove" -> "MEMBER_REMOVED"
                 [] op = "promote" -> "MANAGER_ADDED"
                 [] op = "demote" -> "MANAGER_REMOVED"

MutAddDoesNotEvict(op) == op \notin {"create", "add"}
\* A new team has no cached list.
Evicts(op) == op # "create"

\* publishEvent: a failure is only logged.
Publish(p) ==
  LET r == req[p] IN
  /\ At(p, "publish")
  /\ \E sent \in Delivered("kafka") :
       activity' = activity \cup {e \in {<<EventOf(r.op), r.team, r.target>>} : sent /\ e[1] \in Observed}
  /\ IF Evicts(r.op) THEN Goto(p, "evict") ELSE Done(p)
  /\ UNCHANGED <<tables, listCache, late>>

Drop(t) == listCache' = [listCache EXCEPT ![t] = NoList] /\ late' = late \ {t}

Evict(p) ==
  /\ At(p, "evict")
  /\ \E done \in Delivered("redis") :
       IF done THEN Drop(req[p].team) ELSE Neglect(p) /\ UNCHANGED listCache
  /\ Done(p)
  /\ UNCHANGED <<tables, activity>>

-----------------------------------------------------------------------------
(* GET /teams/:id/members *)

IsMember(t, u) == MemberRole(t, u) # "none"

CheckSelf(p) ==
  /\ At(p, "self")
  /\ IF IsMember(req[p].team, req[p].user) THEN Goto(p, "cached") ELSE Done(p)
  /\ UNCHANGED <<tables, listCache, activity, late>>

GetCached(p) ==
  LET t == req[p].team IN
  /\ At(p, "cached")
  /\ \E up \in Delivered("redis") :
       IF up /\ listCache[t] # NoList THEN Answer(p) ELSE Goto(p, "db")
  /\ UNCHANGED <<tables, listCache, activity, late>>

GetDb(p) ==
  /\ At(p, "db")
  /\ req' = [req EXCEPT ![p].pc = "fill", ![p].list = ListMembers(req[p].team)]
  /\ UNCHANGED <<tables, listCache, activity, late>>

Fill(p) ==
  LET t == req[p].team
      list == req[p].list
  IN
  /\ At(p, "fill")
  /\ \E done \in Delivered("redis") :
       IF done
       THEN /\ listCache' = [listCache EXCEPT ![t] = list]
            /\ late' = IF list # ListMembers(t) THEN late \cup {t} ELSE late \ {t}
       ELSE UNCHANGED <<listCache, late>>
  /\ Answer(p)
  /\ UNCHANGED <<tables, activity>>

-----------------------------------------------------------------------------
(* The environment. *)

\* p has written and has not evicted the list of its team yet.
Owes(p) == Evicts(req[p].op) /\ (At(p, "publish") \/ At(p, "evict"))

\* A database call fails, the client goes away or the process stops.
Abort(p) ==
  /\ "crash" \in Faults
  /\ InFlight(p)
  /\ Done(p)
  /\ IF Owes(p) THEN Neglect(p) ELSE UNCHANGED late
  /\ UNCHANGED <<tables, listCache, activity>>

\* The five minutes of a list are over.
Expire(t) ==
  /\ Cached(t)
  /\ Drop(t)
  /\ UNCHANGED <<tables, activity, req>>

\* The consumer of user.events soft-deletes or restores a user; it evicts no
\* list.
ProjectionChange ==
  /\ \E u \in Leavers : active' = IF u \in active THEN active \ {u} ELSE active \cup {u}
  /\ late' = late \cup {t \in TeamIds : Cached(t)}
  /\ UNCHANGED <<creator, members, listCache, activity, req>>

-----------------------------------------------------------------------------
(* The specification. *)

Entitled(p) ==
  LET r == req[p] IN
  /\ InFlight(p)
  /\ CASE r.op = "create" -> r.user \in Managers
       [] r.op \in {"add", "remove"} -> MemberRole(r.team, r.user) = "manager"
       [] r.op \in {"promote", "demote"} -> creator[r.team] = r.user
       [] r.op = "members" -> MemberRole(r.team, r.user) # "none"

Adds(p) == InFlight(p) /\ req[p].op = "add"
NoRowYet(p) == Adds(p) /\ members[req[p].team][req[p].target] = "none"
TargetGone(p) == Adds(p) /\ req[p].target \notin active

History ==
  /\ may' = {p \in Procs : (p \in may /\ InFlight(p) /\ InFlight(p)') \/ Entitled(p)'}
  /\ absent' = {p \in Procs : (p \in absent /\ InFlight(p) /\ InFlight(p)') \/ NoRowYet(p)'}
  /\ gone' = {p \in Procs : (p \in gone /\ InFlight(p) /\ InFlight(p)') \/ TargetGone(p)'}

Init ==
  /\ creator = [t \in TeamIds |-> NoUser]
  /\ members = [t \in TeamIds |-> [u \in Users |-> "none"]]
  /\ active = Users
  /\ listCache = [t \in TeamIds |-> NoList]
  /\ activity = {}
  /\ req = [p \in Procs |-> Idle]
  /\ late = {}
  /\ may = {} /\ absent = {} /\ gone = {}

\* The steps the code takes of its own accord once a request has arrived.
Serve(p) ==
  \/ GetTeam(p) \/ CheckCaller(p) \/ TargetRole(p) \/ TargetUser(p)
  \/ CreateTeam(p) \/ UpsertMember(p) \/ RemoveMember(p) \/ Publish(p) \/ Evict(p)
  \/ CheckSelf(p) \/ GetCached(p) \/ GetDb(p) \/ Fill(p)

Next ==
  /\ \/ \E p \in Procs : Begin(p) \/ Serve(p) \/ Abort(p)
     \/ \E t \in TeamIds : Expire(t)
     \/ ProjectionChange
  /\ History

Spec == Init /\ [][Next]_vars

\* Handlers run on and Redis expires its keys; no client has to call.
Fairness ==
  /\ \A p \in Procs : WF_vars(Serve(p) /\ History)
  /\ \A t \in TeamIds : WF_vars(Expire(t) /\ History)

FairSpec == Spec /\ Fairness

-----------------------------------------------------------------------------
(* Properties. *)

Request == [pc : {"idle", "listed", "team", "caller", "role", "user", "write", "publish",
                  "evict", "self", "cached", "db", "fill"},
            op : AllOps \cup {"none"}, user : Users \cup {NoUser},
            team : TeamIds \cup {NoTeam}, target : Users \cup {NoUser},
            list : Members \cup {NoList}]

\* Types of the tables, the cache, the topic and the requests.
TypeOK ==
  /\ creator \in [TeamIds -> Users \cup {NoUser}]
  /\ members \in [TeamIds -> Members]
  /\ active \subseteq Users
  /\ listCache \in [TeamIds -> Members \cup {NoList}]
  /\ activity \subseteq {"TEAM_CREATED", "MEMBER_ADDED", "MEMBER_REMOVED", "MANAGER_ADDED",
                         "MANAGER_REMOVED"} \X TeamIds \X Users
  /\ req \in [Procs -> Request]
  /\ late \subseteq TeamIds
  /\ may \subseteq Procs /\ absent \subseteq Procs /\ gone \subseteq Procs

\* Whatever requests and projection changes interleave between the check of a
\* caller and the write or the answer, a membership changes and a list is
\* disclosed only on behalf of a caller who was entitled to it at some moment
\* since the request began, as the code entitles: manager of the team to add and
\* to remove whomever, creator to promote and demote, member to list
\* (service.go:48, 70, 82, 99, 124).
EntitledSinceBegin ==
  [][\A p \in Procs :
       /\ InFlight(p) /\ req[p] # req'[p]
       /\ <<creator, members>> # <<creator, members>>' \/ req'[p].pc = "listed"
       => p \in may]_vars

\* Only the creator's own request turns a user into a manager, whatever the
\* upserts of concurrent additions write (service.go:61, 90).
ManagersMadeByCreator ==
  [][\A t \in TeamIds, u \in Users :
       (members[t][u] # "manager" /\ members'[t][u] = "manager") =>
         \E p \in Procs : /\ req[p].op \in {"create", "promote"} /\ At(p, "write")
                          /\ creator'[t] = req[p].user]_vars

\* Managers are removed by the main manager of the team alone, leaving aside who
\* leaves it: docs/stage_1_core_foundation.md:26.
ManagersRemovedByCreator ==
  [][\A t \in TeamIds, u \in Users :
       (members[t][u] = "manager" /\ members'[t][u] = "none") =>
         \E p \in Procs : /\ req[p].op = "remove" /\ At(p, "write")
                          /\ req[p].user \in {creator[t], u}]_vars

Owed(t) == \E p \in Procs : req[p].team = t /\ Owes(p)

\* A cached list that differs from the tables has a writer that still owes its
\* eviction, was stale when a reader stored it, misses a change of the
\* projection, or misses the one eviction that a failing DEL, a lost
\* acknowledgement or the end of its request prevented: no write that completes
\* forgets it (service.go:65, 77, 94, 119).
StaleOnlyIfLate ==
  \A t \in TeamIds : Cached(t) /\ listCache[t] # ListMembers(t) => Owed(t) \/ t \in late

\* A list answered against what the tables say at that moment.
Misanswers(p) ==
  /\ InFlight(p) /\ req'[p].pc = "listed"
  /\ (IF At(p, "fill") THEN req[p].list ELSE listCache[req[p].team]) # ListMembers(req[p].team)

\* Once the tables rest, the lists answered are eventually exact for good: a
\* removed member disappears, whatever stale list was stored after the eviction
\* or left by the consumer or by an eviction that failed.  The five minutes of the
\* key bound the error (service.go:151).
EventuallyTruthful ==
  <>[][FALSE]_tables => <>[][\A p \in Procs : ~Misanswers(p)]_vars

\* When Kafka takes every event, a manager other than the creator has been
\* announced, or the promotion is still about to announce it.
ManagersAnnounced ==
  \A t \in TeamIds, u \in Users :
    members[t][u] = "manager" =>
      \/ \E e \in {"TEAM_CREATED", "MANAGER_ADDED"} : <<e, t, u>> \in activity
      \/ \E p \in Procs : At(p, "publish") /\ req[p].team = t /\ req[p].target = u

\* An addition overwrites the role of somebody only after a race: at some time
\* since the request began that user had no row, which another request made
\* since, or was soft-deleted, so that the first check did not see the row that
\* was there and the second found the user restored.  Either way a manager may
\* be turned into a member; an addition that finds the row and its user all the
\* time never does that (service.go:51-61, db/teams.sql.go:53-57).
AddsOnlyAbsent ==
  [][\A p \in Procs :
       (At(p, "write") /\ req[p].op = "add" /\ req[p] # req'[p] /\ members # members') =>
         p \in absent \cup gone]_vars
=============================================================================
