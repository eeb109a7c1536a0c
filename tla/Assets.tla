------------------------------- MODULE Assets -------------------------------
(***************************************************************************)
(* The asset component of core-service: the assets and asset_acl tables of *)
(* PostgreSQL, the read-through Redis cache in front of them, and the HTTP *)
(* requests that service.go serves, interleaved.  One step of a request is *)
(* one call to PostgreSQL, Redis or Kafka and the local code up to the     *)
(* next call; a transaction is one step, its commit.                       *)
(***************************************************************************)
EXTENDS Integers, FiniteSets, Sequences

CONSTANTS
  Users,      \* callers
  Sharees,    \* whom the owners share with
  Grants,     \* the access levels they share
  NoUser,
  Titles,     \* what an UPDATE may write: title and content of an asset
  NoTitle,
  MaxAssets,  \* bound: ids the database may ever generate
  MaxDepth,   \* the depth limit of GetDescendantIDs (20 in the code)
  Procs,      \* concurrently served requests
  Calls,      \* the <<operation, caller, id>> triples each of Procs serves
  Observed,   \* bound: the events recorded in published
  Faults,     \* which of "redis", "kafka", "crash" may fail
  Oversight,  \* <<manager, owner>> pairs that team changes may create
  InitRows,   \* assets that exist initially, a sequence of rows
  NoList      \* an absent cached ACL

Types == {"folder", "note"}
Levels == {"none", "read", "write"}     \* "none": no asset_acl row
AllOps == {"get", "create", "update", "delete", "share", "revoke"}
AssetIds == 1..MaxAssets
NoAsset == 0

Row == [owner: Users, parent: AssetIds \cup {NoAsset}, type: Types,
        title: Titles \cup {InitRows[i].title : i \in DOMAIN InitRows}]
NoRow == [owner |-> NoUser, parent |-> NoAsset, type |-> "none", title |-> NoTitle]
Acl == [Users -> Levels]
Keys == {"asset", "acl"} \X AssetIds

ASSUME AssetsAssumption ==
  /\ MaxAssets \in Nat /\ MaxDepth \in Nat
  /\ NoUser \notin Users /\ NoTitle \notin Titles /\ NoList \notin Acl
  /\ Calls \in [Procs -> SUBSET (AllOps \X Users \X (0..MaxAssets))] /\ Sharees \subseteq Users
  /\ Grants \subseteq {"read", "write"}
  /\ Faults \subseteq {"redis", "kafka", "crash"}
  /\ Oversight \subseteq Users \X Users
  /\ InitRows \in Seq(Row) /\ Len(InitRows) <= MaxAssets
  /\ \A i \in DOMAIN InitRows :
       LET parent == InitRows[i].parent IN
       IF parent = NoAsset THEN InitRows[i].type = "folder"
       ELSE parent \in DOMAIN InitRows /\ InitRows[parent].type = "folder"
  /\ IsFiniteSet(Procs)

VARIABLES
  assets,     \* table assets: id -> row, NoRow when absent
  acl,        \* table asset_acl: id -> user -> access level
  last,       \* ids 1..last have been generated
  oversees,   \* pairs for which IsManagerOfMember holds (team_members)
  rowCache,   \* Redis asset:<id>
  aclCache,   \* Redis asset:<id>:acl
  published,  \* <<event, id>> on topic asset.changes
  req,        \* the requests being served
  late,       \* history: keys whose cached value was already stale when Set
  may,        \* history: requests allowed to write at some time so far
  missed      \* history: assets created while a deletion knew already what to evict

tables == <<assets, acl, last, oversees>>
caches == <<rowCache, aclCache, late>>
vars == <<tables, caches, published, req, may, missed>>

-----------------------------------------------------------------------------
(* The tables. *)

Live(a) == a \in AssetIds /\ assets[a] # NoRow
Existing == {a \in AssetIds : assets[a] # NoRow}

Parent == [a \in AssetIds \cup {NoAsset} |-> IF a = NoAsset THEN NoAsset ELSE assets[a].parent]

\* The recursive query, seen from below: the n-th ancestor of b is a, for some n
\* up to the depth.
IsBelow(b, a, depth) ==
  LET ancestor[n \in 0..depth] == IF n = 0 THEN b ELSE Parent[ancestor[n - 1]]
  IN  \E n \in 1..depth : ancestor[n] = a

Descendants(a, depth) == {b \in Existing : IsBelow(b, a, depth)}

MutChildrenOnly(a) == Descendants(a, 1)
GetDescendantIDs(a) == Descendants(a, MaxDepth)

\* What ON DELETE CASCADE on parent_id removes with a, without a depth limit: the
\* least set that has a and the children of its members.
Subtree(a) ==
  LET Closed(S) == a \in S /\ \A b \in Existing : Parent[b] \in S => b \in S
  IN  {b \in AssetIds : \A S \in SUBSET AssetIds : Closed(S) => b \in S}

IsManagerOfOwner(u, owner) == <<u, owner>> \in oversees

\* What GetByID would decide from the tables alone.
Readable(u, a) ==
  /\ Live(a)
  /\ \/ assets[a].owner = u
     \/ acl[a][u] # "none"
     \/ IsManagerOfOwner(u, assets[a].owner)

CanWrite(u, a) == Live(a) /\ (assets[a].owner = u \/ acl[a][u] = "write")

NoAcl == [u \in Users |-> "none"]

-----------------------------------------------------------------------------
(* Requests. *)

InFlight(p) == req[p].pc \notin {"idle", "ok", "forbidden"}

Idle == [pc |-> "idle", op |-> "none", user |-> NoUser, asset |-> NoAsset,
         target |-> NoUser, arg |-> "none", row |-> NoRow, list |-> NoList,
         evict |-> {}]

\* The requests a client may send: asset is the parent id for "create", arg
\* the access level for "share" and the asset type for "create".
Inputs ==
  { [op |-> o, user |-> u, asset |-> a, target |-> NoUser, arg |-> "none"] :
      o \in {"get", "update", "delete"}, u \in Users, a \in 1..last }
  \cup
  { [op |-> "share", user |-> u, asset |-> a, target |-> t, arg |-> l] :
      u \in Users, a \in 1..last, t \in Sharees, l \in Grants }
  \cup
  { [op |-> "revoke", user |-> u, asset |-> a, target |-> t, arg |-> "none"] :
      u \in Users, a \in 1..last, t \in Sharees }
  \cup
  { [op |-> "create", user |-> u, asset |-> a, target |-> NoUser, arg |-> ty] :
      u \in Users, a \in 0..last, ty \in Types }

\* service.go:38: a note needs a parent.  MaxAssets bounds the creations.
Valid(p, i) ==
  /\ <<i.op, i.user, i.asset>> \in Calls[p]
  /\ i.op = "create" =>
       /\ i.arg = "note" => i.asset # NoAsset
       /\ last + Cardinality({q \in Procs : InFlight(q) /\ req[q].op = "create"}) < MaxAssets

FirstPc(i) == CASE i.op = "get" -> "getCached"
                [] i.op = "create" /\ i.asset = NoAsset -> "insert"
                [] OTHER -> "load"

At(p, pc) == req[p].pc = pc
Goto(p, pc) == req' = [req EXCEPT ![p].pc = pc]
\* The response.  Only what a read answers matters to the properties.
Finish(p, outcome) ==
  req' = [req EXCEPT ![p] =
            [Idle EXCEPT !.pc = IF req[p].op = "get" /\ outcome # "fail" THEN outcome ELSE "idle"]]

\* A call to an external system that may fail without failing the request.
Delivered(system) == IF system \in Faults THEN BOOLEAN ELSE {TRUE}

Begin(p) ==
  /\ ~InFlight(p)
  /\ \E i \in Inputs :
       /\ Valid(p, i)
       /\ req' = [req EXCEPT ![p] =
                    [Idle EXCEPT !.pc = FirstPc(i), !.op = i.op, !.user = i.user,
                                 !.asset = i.asset, !.target = i.target, !.arg = i.arg]]
  /\ UNCHANGED <<tables, caches, published>>

-----------------------------------------------------------------------------
(* GET /assets/:id *)

\* The owner check that follows the row, wherever the row came from.
WithRow(p, row) ==
  IF row.owner = req[p].user THEN Finish(p, "ok")
  ELSE req' = [req EXCEPT ![p].pc = "aclCached", ![p].row = row]

GetCached(p) ==
  /\ At(p, "getCached")
  /\ \E up \in Delivered("redis") :
       IF up /\ rowCache[req[p].asset] # NoRow
       THEN WithRow(p, rowCache[req[p].asset])
       ELSE Goto(p, "getDb")
  /\ UNCHANGED <<tables, caches, published>>

GetDb(p) ==
  /\ At(p, "getDb")
  /\ IF Live(req[p].asset)
     THEN req' = [req EXCEPT ![p].pc = "getFill", ![p].row = assets[req[p].asset]]
     ELSE Finish(p, "fail")
  /\ UNCHANGED <<tables, caches, published>>

\* SET of a value read earlier: late iff the table has changed since.
MarkLate(key, stale) == late' = IF stale THEN late \cup {key} ELSE late \ {key}

GetFill(p) ==
  LET a == req[p].asset
      row == req[p].row
  IN
  /\ At(p, "getFill")
  /\ \E done \in Delivered("redis") :
       IF done
       THEN rowCache' = [rowCache EXCEPT ![a] = row] /\ MarkLate(<<"asset", a>>, row # assets[a])
       ELSE UNCHANGED <<rowCache, late>>
  /\ WithRow(p, row)
  /\ UNCHANGED <<tables, aclCache, published>>

\* The scan of the ACL entries, then the manager check.
WithList(p, list) ==
  IF list[req[p].user] # "none" THEN Finish(p, "ok") ELSE Goto(p, "manager")

GetAclCached(p) ==
  /\ At(p, "aclCached")
  /\ \E up \in Delivered("redis") :
       IF up /\ aclCache[req[p].asset] # NoList
       THEN WithList(p, aclCache[req[p].asset])
       ELSE Goto(p, "aclDb")
  /\ UNCHANGED <<tables, caches, published>>

GetAclDb(p) ==
  /\ At(p, "aclDb")
  /\ req' = [req EXCEPT ![p].pc = "aclFill", ![p].list = acl[req[p].asset]]
  /\ UNCHANGED <<tables, caches, published>>

GetAclFill(p) ==
  LET a == req[p].asset
      list == req[p].list
  IN
  /\ At(p, "aclFill")
  /\ \E done \in Delivered("redis") :
       IF done
       THEN aclCache' = [aclCache EXCEPT ![a] = list] /\ MarkLate(<<"acl", a>>, list # acl[a])
       ELSE UNCHANGED <<aclCache, late>>
  /\ WithList(p, list)
  /\ UNCHANGED <<tables, rowCache, published>>

GetManager(p) ==
  /\ At(p, "manager")
  /\ Finish(p, IF IsManagerOfOwner(req[p].user, req[p].row.owner) THEN "ok" ELSE "forbidden")
  /\ UNCHANGED <<tables, caches, published>>

-----------------------------------------------------------------------------
(* Writes.  Each loads the row from the database, never from the cache. *)

\* The GetByID that opens Create (of the parent) and Update; rich says that
\* the client sent content, which a folder may not have.
LoadForWrite(p) ==
  LET a == req[p].asset
      row == assets[a]
      pc(next) == req' = [req EXCEPT ![p].pc = next, ![p].row = row]
  IN
  /\ At(p, "load")
  /\ req[p].op \in {"create", "update"}
  /\ \E rich \in BOOLEAN :
       CASE ~Live(a) -> Finish(p, "fail")
         [] Live(a) /\ req[p].op = "create" /\ row.type # "folder" -> Finish(p, "fail")
         [] Live(a) /\ req[p].op = "update" /\ row.type = "folder" /\ rich -> Finish(p, "fail")
         [] OTHER -> IF row.owner # req[p].user THEN pc("check")
                     ELSE pc(IF req[p].op = "create" THEN "insert" ELSE "update")
  /\ UNCHANGED <<tables, caches, published>>

\* The GetByID and owner check that open Delete, Share and RevokeShare.
LoadOwned(p) ==
  LET a == req[p].asset
      row == assets[a]
      next == CASE req[p].op = "share" -> "target"
                [] req[p].op = "revoke" -> "revoke"
                [] req[p].op = "delete" -> IF row.type = "folder" THEN "find" ELSE "delete"
  IN
  /\ At(p, "load")
  /\ req[p].op \in {"delete", "share", "revoke"}
  /\ CASE ~Live(a) -> Finish(p, "fail")
       [] Live(a) /\ row.owner # req[p].user -> Finish(p, "forbidden")
       [] OTHER -> req' = [req EXCEPT ![p].pc = next, ![p].row = row]
  /\ UNCHANGED <<tables, caches, published>>

\* requireWriteAccess for a caller who is not the owner.
MutAnyGrantWrites(p) == acl[req[p].asset][req[p].user] # "none"
WriteAllowed(p) == acl[req[p].asset][req[p].user] = "write"

CheckAcl(p) ==
  /\ At(p, "check")
  /\ IF WriteAllowed(p)
     THEN Goto(p, IF req[p].op = "create" THEN "insert" ELSE "update")
     ELSE Finish(p, "forbidden")
  /\ UNCHANGED <<tables, caches, published>>

EventOf(op) == CASE op = "create" -> "NOTE_CREATED"
                 [] op = "update" -> "NOTE_UPDATED"
                 [] op = "delete" -> "FOLDER_DELETED"
                 [] op = "share"  -> "FOLDER_SHARED"
                 [] OTHER -> "none"

MutFolderDeletedUnannounced(r) ==
  \/ r.op = "create" /\ r.arg = "note"
  \/ r.op = "update" /\ r.row.type = "note"
  \/ r.op = "share" /\ r.row.type = "folder"

Publishes(r) == \/ r.op = "create" /\ r.arg = "note"
                \/ r.op = "update" /\ r.row.type = "note"
                \/ r.op \in {"share", "delete"} /\ r.row.type = "folder"

\* What follows a commit: the event, then the evictions; a deletion evicts
\* first.  The acknowledgement of the commit may be lost.
Committed(p, a, keys) ==
  LET r == [req[p] EXCEPT !.asset = a, !.evict = keys] IN
  \E acked \in Delivered("crash") :
    CASE ~acked -> Finish(p, "fail")
      [] acked /\ Publishes(r) /\ r.op # "delete" -> req' = [req EXCEPT ![p] = [r EXCEPT !.pc = "publish"]]
      [] acked /\ (~Publishes(r) \/ r.op = "delete") ->
           IF keys = {} THEN Finish(p, "ok") ELSE req' = [req EXCEPT ![p] = [r EXCEPT !.pc = "evict"]]

\* INSERT, refused by a foreign key when the parent has gone, or when
\* users_projection does not hold the caller yet: that is left open for a caller
\* who owns nothing and whom nobody shares with, for the keys of both tables vouch
\* for the others (who once owned something is not remembered).
MutNoForeignKey(a) == TRUE
ParentHolds(a) == a = NoAsset \/ Live(a)

Projected(u) ==
  IF \E a \in Existing : assets[a].owner = u \/ acl[a][u] # "none" THEN {TRUE} ELSE BOOLEAN

InsertAsset(p) ==
  LET new == last + 1 IN
  /\ At(p, "insert")
  /\ \E known \in Projected(req[p].user) :
     IF known /\ ParentHolds(req[p].asset)
     THEN /\ \E t \in Titles :
               assets' = [assets EXCEPT ![new] =
                 [owner |-> req[p].user, parent |-> req[p].asset, type |-> req[p].arg, title |-> t]]
          /\ last' = new
          /\ Committed(p, new, {})
     ELSE Finish(p, "fail") /\ UNCHANGED <<assets, last>>
  /\ UNCHANGED <<acl, oversees, caches, published>>

UpdateEvicts(a) == {<<"asset", a>>}

UpdateRow(p) ==
  LET a == req[p].asset IN
  /\ At(p, "update")
  /\ IF Live(a)
     THEN /\ \E t \in Titles : assets' = [assets EXCEPT ![a].title = t]
          /\ Committed(p, a, UpdateEvicts(a))
     ELSE Finish(p, "fail") /\ UNCHANGED assets
  /\ UNCHANGED <<acl, last, oversees, caches, published>>

\* The descendants to evict are read before the deletion; a failure to read
\* them is only logged.
MutOtherPrefix(S) == {"assets", "acl"} \X S
KeysOf(S) == {"asset", "acl"} \X S

DeleteFind(p) ==
  /\ At(p, "find")
  /\ \E found \in Delivered("crash") :
       req' = [req EXCEPT ![p].pc = "delete",
                          ![p].evict = IF found THEN KeysOf(GetDescendantIDs(req[p].asset)) ELSE {}]
  /\ UNCHANGED <<tables, caches, published>>

DeleteRow(p) ==
  LET a == req[p].asset
      gone == Subtree(a)
  IN
  /\ At(p, "delete")
  /\ assets' = [b \in AssetIds |-> IF b \in gone THEN NoRow ELSE assets[b]]
  /\ acl' = [b \in AssetIds |-> IF b \in gone THEN NoAcl ELSE acl[b]]
  /\ Committed(p, a, req[p].evict \cup KeysOf({a}))
  /\ UNCHANGED <<last, oversees, caches, published>>

\* UserExists: the projection may or may not hold the sharee.
ShareTarget(p) ==
  /\ At(p, "target")
  /\ \E exists \in BOOLEAN : IF exists THEN Goto(p, "share") ELSE Finish(p, "fail")
  /\ UNCHANGED <<tables, caches, published>>

Reach(p) == IF req[p].row.type = "folder" THEN GetDescendantIDs(req[p].asset) ELSE {}
ShareEvicts(p) == {"acl"} \X ({req[p].asset} \cup Reach(p))
MutRevokeEvictsOwnOnly(p) == {<<"acl", req[p].asset>>}
RevokeEvicts(p) == {"acl"} \X ({req[p].asset} \cup Reach(p))

WriteAcl(S, u, level) ==
  acl' = [a \in AssetIds |-> IF a \in S THEN [acl[a] EXCEPT ![u] = level] ELSE acl[a]]

\* UpsertACLWithCascade; asset_acl.asset_id references assets.
ShareTx(p) ==
  LET a == req[p].asset IN
  /\ At(p, "share")
  /\ IF Live(a)
     THEN /\ WriteAcl({a} \cup Reach(p), req[p].target, req[p].arg)
          /\ Committed(p, a, ShareEvicts(p))
     ELSE Finish(p, "fail") /\ UNCHANGED acl
  /\ UNCHANGED <<assets, last, oversees, caches, published>>

\* DeleteACLWithCascade: deleting no row is no error.
RevokeTx(p) ==
  LET a == req[p].asset IN
  /\ At(p, "revoke")
  /\ WriteAcl({a} \cup Reach(p), req[p].target, "none")
  /\ Committed(p, a, RevokeEvicts(p))
  /\ UNCHANGED <<assets, last, oversees, caches, published>>

\* publishEvent: a failure is only logged.
Publish(p) ==
  /\ At(p, "publish")
  /\ \E sent \in Delivered("kafka") :
       published' = published \cup
         {e \in {<<EventOf(req[p].op), req[p].asset>>} : sent /\ e[1] \in Observed}
  /\ IF req[p].evict = {} THEN Finish(p, "ok") ELSE Goto(p, "evict")
  /\ UNCHANGED <<tables, caches>>

Drop(key) ==
  /\ rowCache' = IF key[1] = "asset" THEN [rowCache EXCEPT ![key[2]] = NoRow] ELSE rowCache
  /\ aclCache' = IF key[1] = "acl" THEN [aclCache EXCEPT ![key[2]] = NoList] ELSE aclCache
  /\ late' = late \ {key}

\* One DEL; its error is ignored.  The keys go in any order, which covers the
\* orders of the code.
Evict(p) ==
  /\ At(p, "evict")
  /\ \E key \in req[p].evict :
       LET rest == req[p].evict \ {key} IN
       /\ \E done \in Delivered("redis") : IF done THEN Drop(key) ELSE UNCHANGED caches
       /\ CASE rest # {} -> req' = [req EXCEPT ![p].evict = rest]
            [] rest = {} /\ req[p].op = "delete" /\ Publishes(req[p]) ->
                 req' = [req EXCEPT ![p].pc = "publish", ![p].evict = {}]
            [] OTHER -> Finish(p, "ok")
  /\ UNCHANGED <<tables, published>>

-----------------------------------------------------------------------------
(* The environment. *)

\* A database call fails, the client goes away or the process stops.
Abort(p) ==
  /\ "crash" \in Faults
  /\ InFlight(p)
  /\ Finish(p, "fail")
  /\ UNCHANGED <<tables, caches, published>>

MutAclNeverExpires(key) == key[1] = "asset" /\ rowCache[key[2]] # NoRow
Cached(key) == IF key[1] = "asset" THEN rowCache[key[2]] # NoRow ELSE aclCache[key[2]] # NoList

\* The five minutes of a key are over.
Expire(key) ==
  /\ Cached(key)
  /\ Drop(key)
  /\ UNCHANGED <<tables, published, req>>

\* A member or manager is added to or removed from a team.
TeamChange ==
  /\ \E pair \in Oversight :
       oversees' = IF pair \in oversees THEN oversees \ {pair} ELSE oversees \cup {pair}
  /\ UNCHANGED <<assets, acl, last, caches, published, req>>

-----------------------------------------------------------------------------
(* The specification. *)

Entitled(p) ==
  /\ InFlight(p)
  /\ CASE req[p].op = "create" -> req[p].asset = NoAsset \/ CanWrite(req[p].user, req[p].asset)
       [] req[p].op = "update" -> CanWrite(req[p].user, req[p].asset)
       [] req[p].op \in {"delete", "share", "revoke"} ->
            Live(req[p].asset) /\ assets[req[p].asset].owner = req[p].user
       [] OTHER -> FALSE

History ==
  /\ may' = {p \in Procs : (p \in may /\ InFlight(p) /\ InFlight(p)') \/ Entitled(p)'}
  /\ missed' = missed \cup {a \in (last + 1)..last' : \E p \in Procs : At(p, "delete")}

Init ==
  /\ assets = [a \in AssetIds |-> IF a \in DOMAIN InitRows THEN InitRows[a] ELSE NoRow]
  /\ acl = [a \in AssetIds |-> NoAcl]
  /\ last = Len(InitRows)
  /\ oversees = {}
  /\ rowCache = [a \in AssetIds |-> NoRow]
  /\ aclCache = [a \in AssetIds |-> NoList]
  /\ published = {}
  /\ req = [p \in Procs |-> Idle]
  /\ late = {}
  /\ may = {} /\ missed = {}

\* The steps the code takes of its own accord once a request has arrived.
Serve(p) ==
  \/ GetCached(p) \/ GetDb(p) \/ GetFill(p)
  \/ GetAclCached(p) \/ GetAclDb(p) \/ GetAclFill(p) \/ GetManager(p)
  \/ LoadForWrite(p) \/ LoadOwned(p) \/ CheckAcl(p)
  \/ InsertAsset(p) \/ UpdateRow(p) \/ DeleteFind(p) \/ DeleteRow(p)
  \/ ShareTarget(p) \/ ShareTx(p) \/ RevokeTx(p)
  \/ Publish(p) \/ Evict(p)

Next ==
  /\ \/ \E p \in Procs : Begin(p) \/ Serve(p) \/ Abort(p)
     \/ \E key \in Keys : Expire(key)
     \/ TeamChange
  /\ History

Spec == Init /\ [][Next]_vars

\* Handlers run on and Redis expires its keys; no client has to call.
Fairness ==
  /\ \A p \in Procs : WF_vars(Serve(p) /\ History)
  /\ \A key \in Keys : WF_vars(Expire(key) /\ History)

FairSpec == Spec /\ Fairness

-----------------------------------------------------------------------------
(* Properties. *)

\* Types of the tables, the cache, the topic and the requests.
TypeOK ==
  /\ assets \in [AssetIds -> Row \cup {NoRow}]
  /\ acl \in [AssetIds -> Acl]
  /\ last \in 0..MaxAssets
  /\ oversees \subseteq Oversight
  /\ rowCache \in [AssetIds -> Row \cup {NoRow}]
  /\ aclCache \in [AssetIds -> Acl \cup {NoList}]
  /\ published \subseteq {"NOTE_CREATED", "NOTE_UPDATED", "FOLDER_DELETED", "FOLDER_SHARED"} \X AssetIds
  /\ late \subseteq Keys
  /\ may \subseteq Procs /\ missed \subseteq AssetIds
  /\ \A p \in Procs : req[p].row \in Row \cup {NoRow} /\ req[p].list \in Acl \cup {NoList}
                      /\ req[p].evict \subseteq Keys

\* However creations, deletions and shares interleave, every asset hangs under
\* a live folder, and neither an access entry nor an id that was not generated
\* yet survives without its asset (service.go:45-59 checks the parent, then
\* inserts; service.go:190 deletes a whole subtree meanwhile).
TreeWellFormed ==
  /\ \A a \in Existing :
       /\ a \in 1..last
       /\ assets[a].parent # NoAsset => Live(assets[a].parent) /\ assets[assets[a].parent].type = "folder"
       /\ assets[a].type = "note" => assets[a].parent # NoAsset
  /\ \A a \in AssetIds : ~Live(a) => acl[a] = NoAcl

\* No request changes a table unless its caller was entitled to that change at
\* some moment since it began: a permission taken from the cache, which may
\* have been revoked before, never authorises a write (service.go:160-172).
WriteAuthorised ==
  [][\A p \in Procs :
       (req[p] # req'[p] /\ <<assets, acl>> # <<assets, acl>>') => p \in may]_vars

GetDone(p, outcome) ==
  /\ req[p].op = "get" /\ InFlight(p)
  /\ req'[p].pc = outcome

Truth(key) == IF key[1] = "asset" THEN rowCache[key[2]] = assets[key[2]]
              ELSE aclCache[key[2]] = acl[key[2]]
Owed(key) == \E p \in Procs : InFlight(p) /\ key \in req[p].evict

Stale(key) == Cached(key) /\ ~Truth(key)

\* When no call fails, a cached value of an asset that differs from its table
\* has a writer that still owes its eviction, or was stale already when a reader
\* stored it: no completed write forgets a key, of a folder or of anything below
\* it (service.go:156, 226-230, 246-249).
StaleOnlyIfLate ==
  \A key \in Keys : Stale(key) /\ Live(key[2]) => Owed(key) \/ key \in late

\* A cached value of a deleted asset likewise, except for what was created
\* between the query for the keys and the DELETE: that goes with its folder, and
\* its keys stay (service.go:184-198).
GoneIsEvicted ==
  \A key \in Keys :
    Stale(key) /\ ~Live(key[2]) => Owed(key) \/ key \in late \/ key[2] \in missed

\* Once a revocation has evicted its keys the cached lists name the user no
\* more, so the next request is refused: what tech-stack.md promises.
RevokedUserLosesAccess ==
  \A a \in AssetIds, u \in Users :
    (aclCache[a] # NoList /\ aclCache[a][u] # "none" /\ acl[a][u] = "none") => Owed(<<"acl", a>>)

\* When no call fails, a top folder that has gone was announced on asset.changes,
\* or a deletion of it is still under way: its event, sent last and after the
\* evictions, is not skipped when another request has deleted the folder
\* meanwhile, or fills or shares it (service.go:199-201).
DeletedFolderAnnounced ==
  \A a \in DOMAIN InitRows :
    (InitRows[a].type = "folder" /\ InitRows[a].parent = NoAsset /\ ~Live(a)) =>
      \/ <<"FOLDER_DELETED", a>> \in published
      \/ \E p \in Procs : req[p].op = "delete" /\ req[p].asset = a

\* A read that answers against what the tables say at that moment.
Misanswers(p) ==
  \/ GetDone(p, "ok") /\ ~Readable(req[p].user, req[p].asset)
  \/ GetDone(p, "forbidden") /\ Readable(req[p].user, req[p].asset)

\* Once the tables rest, the reads eventually answer by them for good: a user
\* whose share was revoked is refused, one who was given a share is served,
\* whatever stale values late readers stored after the evictions.  The five
\* minutes of each key bound the error (service.go:88, 133).
EventuallyTruthful ==
  <>[][FALSE]_tables => <>[][\A p \in Procs : ~Misanswers(p)]_vars
=============================================================================
