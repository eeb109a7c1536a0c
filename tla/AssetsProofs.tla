---------------------------- MODULE AssetsProofs ----------------------------
(***************************************************************************)
(* What Assets promises for any users, assets and requests, with any       *)
(* faults: the tree stays whole, and no write relies on a permission that  *)
(* its caller never had.  What the query of limited depth reaches is not   *)
(* needed here, only that it exists.                                       *)
(***************************************************************************)
EXTENDS Assets, FiniteSetTheorems, SequenceTheorems, TLAPS

(* The inductive invariant. *)

\* The operations that a request may be serving at each of its calls.
OpsAt(pc) ==
  CASE pc \in {"getCached", "getDb", "getFill", "aclCached", "aclDb", "aclFill", "manager"} -> {"get"}
    [] pc = "load" -> AllOps \ {"get"}
    [] pc = "check" -> {"create", "update"}
    [] pc = "insert" -> {"create"}
    [] pc = "update" -> {"update"}
    [] pc \in {"find", "delete"} -> {"delete"}
    [] pc \in {"target", "share"} -> {"share"}
    [] pc = "revoke" -> {"revoke"}
    [] pc = "publish" -> {"create", "update", "delete", "share"}
    [] pc = "evict" -> AllOps \ {"get"}
    [] OTHER -> {}

\* The calls a request gets to once its caller has been found entitled.
Cleared == {"insert", "update", "find", "delete", "target", "share", "revoke"}

Pcs == {"idle", "ok", "forbidden", "getCached", "getDb", "getFill", "aclCached", "aclDb",
        "aclFill", "manager", "load", "check", "publish", "evict"} \cup Cleared

Request == [pc : Pcs, op : AllOps \cup {"none"}, user : Users \cup {NoUser},
            asset : AssetIds \cup {NoAsset}, target : Users \cup {NoUser},
            arg : Levels \cup Types, row : Row \cup {NoRow}, list : Acl \cup {NoList},
            evict : SUBSET Keys]

\* What a request in flight has been given, and what it has found out.
Knows(p) ==
  LET r == req[p] IN
  InFlight(p) =>
    /\ r.op \in OpsAt(r.pc) /\ r.user \in Users
    /\ r.asset \in 0..last
    /\ r.pc # "insert" => r.asset # NoAsset
    /\ r.op \in {"share", "revoke"} => r.target \in Users
    /\ r.op = "share" => r.arg \in Levels
    /\ r.op = "create" => r.arg \in Types
    /\ r.op = "create" /\ r.arg = "note" => r.asset # NoAsset
    /\ r.op = "create" /\ r.pc \in {"check", "insert"} /\ Live(r.asset) =>
         assets[r.asset].type = "folder"
    /\ r.pc \in Cleared => p \in may

RequestsKnow == req \in [Procs -> Request] /\ \A p \in Procs : Knows(p)

\* Ids are left for the requests that may still create an asset.
Makes(p) == req[p].op = "create" /\ req[p].pc \in {"load", "check", "insert"}
Makers == {p \in Procs : Makes(p)}
IdsLeft == last + Cardinality(Makers) <= MaxAssets

IInv == TypeOK /\ RequestsKnow /\ TreeWellFormed /\ IdsLeft

-----------------------------------------------------------------------------
(* Lemmas. *)

\* The recursive queries find assets that exist.
LEMMA FindsExisting ==
  ASSUME NEW a, NEW depth
  PROVE  Descendants(a, depth) \subseteq Existing
  BY DEF Descendants

\* A request stays entitled as long as it is in flight.
LEMMA HistoryKeeps ==
  ASSUME History, NEW p \in Procs
  PROVE  /\ may' \subseteq Procs
         /\ p \in may /\ InFlight(p) /\ InFlight(p)' => p \in may'
         /\ Entitled(p)' => p \in may'
  BY DEF History, InFlight

\* Types of everything that outlives a request.
Stores ==
  /\ assets \in [AssetIds -> Row \cup {NoRow}]
  /\ acl \in [AssetIds -> Acl]
  /\ last \in 0..MaxAssets
  /\ oversees \subseteq Oversight
  /\ rowCache \in [AssetIds -> Row \cup {NoRow}]
  /\ aclCache \in [AssetIds -> Acl \cup {NoList}]
  /\ published \subseteq {"NOTE_CREATED", "NOTE_UPDATED", "FOLDER_DELETED", "FOLDER_SHARED"} \X AssetIds
  /\ late \subseteq Keys

OnlyMoves(p) == req' \in [Procs -> Request] /\ \A q \in Procs \ {p} : req'[q] = req[q]

\* What a creation may be recorded for.
LEMMA MissedTyped ==
  ASSUME TypeOK, History, last' \in 0..MaxAssets
  PROVE  missed' \subseteq AssetIds
<1>1. \A a \in (last + 1)..last' : a \in AssetIds
  BY AssetsAssumption DEF AssetsAssumption, TypeOK, AssetIds
<1> QED
  BY <1>1 DEF History, TypeOK

\* An asset keeps its type, and the id of one that is gone is not used again.
RowsStand == \A a \in 1..last : assets'[a] # NoRow =>
               assets[a] # NoRow /\ assets'[a].type = assets[a].type

\* Types of what a request holds.
LEMMA RequestTyped ==
  ASSUME NEW r \in Request
  PROVE  r.row \in Row \cup {NoRow} /\ r.list \in Acl \cup {NoList} /\ r.evict \subseteq Keys
  BY DEF Request

\* A step of another request, or of the environment, takes nothing from q.
LEMMA OthersKnow ==
  ASSUME IInv, History, NEW q \in Procs, req'[q] = req[q],
         last' \in Nat, last' >= last, RowsStand
  PROVE  Knows(q)'
<1>1. Knows(q) /\ last \in Nat
  BY DEF IInv, RequestsKnow, TypeOK
<1>2. InFlight(q)' <=> InFlight(q)
  BY DEF InFlight
<1>3. CASE ~InFlight(q)
  BY <1>2, <1>3 DEF Knows
<1>4. CASE InFlight(q)
  <2>1. /\ req[q].op \in OpsAt(req[q].pc) /\ req[q].user \in Users
        /\ req[q].asset \in 0..last
        /\ req[q].pc # "insert" => req[q].asset # NoAsset
        /\ req[q].op \in {"share", "revoke"} => req[q].target \in Users
        /\ req[q].op = "share" => req[q].arg \in Levels
        /\ req[q].op = "create" => req[q].arg \in Types
        /\ req[q].op = "create" /\ req[q].arg = "note" => req[q].asset # NoAsset
        /\ req[q].pc \in Cleared => q \in may
    BY <1>1, <1>4 DEF Knows
  <2>2. req[q].asset \in 0..last'
    BY <1>1, <2>1
  <2>3. req[q].pc \in Cleared => q \in may'
    BY <1>2, <1>4, <2>1, HistoryKeeps
  <2>4. ASSUME req[q].op = "create", req[q].pc \in {"check", "insert"}, Live(req[q].asset)'
        PROVE  assets'[req[q].asset].type = "folder"
    <3>1. req[q].asset \in 1..last /\ assets'[req[q].asset] # NoRow /\ req[q].asset \in AssetIds
      BY <1>1, <2>1, <2>4 DEF Live, AssetIds
    <3>2. Live(req[q].asset) /\ assets'[req[q].asset].type = assets[req[q].asset].type
      BY <3>1 DEF RowsStand, Live
    <3> QED
      BY <1>1, <1>4, <2>4, <3>2 DEF Knows
  <2> QED
    BY <2>1, <2>2, <2>3, <2>4 DEF Knows, Live
<1> QED
  BY <1>3, <1>4

\* What a step of request p, which may change the tables, has to respect.
LEMMA OneMoves ==
  ASSUME IInv, History, NEW p \in Procs, Stores', OnlyMoves(p), Knows(p)',
         last' >= last, RowsStand, TreeWellFormed', IdsLeft'
  PROVE  IInv'
<1>1. may' \subseteq Procs
  BY HistoryKeeps
<1>2. TypeOK'
  <2>1. \A q \in Procs : req'[q] \in Request
    BY DEF OnlyMoves
  <2>2. missed' \subseteq AssetIds
    BY MissedTyped DEF IInv, Stores
  <2> QED
    BY <1>1, <2>1, <2>2, RequestTyped DEF Stores, TypeOK
<1>3. ASSUME NEW q \in Procs PROVE Knows(q)'
  <2>1. last' \in Nat
    BY DEF Stores
  <2>2. CASE q # p
    BY <2>1, <2>2, OthersKnow DEF OnlyMoves
  <2> QED
    BY <2>2
<1> QED
  BY <1>2, <1>3 DEF IInv, RequestsKnow, OnlyMoves


\* A step that changes no table leaves the tree as it was.
LEMMA TablesStand ==
  ASSUME IInv, UNCHANGED tables
  PROVE  RowsStand /\ TreeWellFormed' /\ last' >= last
<1>1. last \in Nat /\ TreeWellFormed
  BY DEF IInv, TypeOK
<1>2. assets' = assets /\ acl' = acl /\ last' = last
  BY DEF tables
<1>3. TreeWellFormed'
  BY <1>1, <1>2 DEF TreeWellFormed, Existing, Live
<1> QED
  BY <1>1, <1>2, <1>3 DEF RowsStand

\* No new creation takes no id away.
LEMMA MakersShrink ==
  ASSUME IInv, last' = last, Makers' \subseteq Makers
  PROVE  IdsLeft'
<1>1. IsFiniteSet(Makers)
  BY AssetsAssumption, FS_Subset DEF AssetsAssumption, Makers
<1>2. Cardinality(Makers') <= Cardinality(Makers) /\ Cardinality(Makers) \in Nat
      /\ Cardinality(Makers') \in Nat
  BY <1>1, FS_Subset, FS_CardinalityType
<1>3. last \in Nat /\ MaxAssets \in Nat /\ last + Cardinality(Makers) <= MaxAssets
  BY AssetsAssumption DEF IInv, IdsLeft, TypeOK, AssetsAssumption
<1> QED
  BY <1>2, <1>3 DEF IdsLeft

\* A step of p adds at most p to the creations under way.
LEMMA MakersOthers ==
  ASSUME NEW p \in Procs, OnlyMoves(p), Makes(p)' => Makes(p)
  PROVE  Makers' \subseteq Makers
<1>1. ASSUME NEW q \in Procs, Makes(q)' PROVE Makes(q)
  <2>1. CASE q # p
    BY <1>1, <2>1 DEF OnlyMoves, Makes
  <2> QED
    BY <1>1, <2>1
<1> QED
  BY <1>1 DEF Makers

\* The invariant survives a step that changes but one request and the caches.
LEMMA RequestMoves ==
  ASSUME IInv, History, NEW p \in Procs, UNCHANGED tables, Stores',
         OnlyMoves(p), Knows(p)', Makes(p)' => Makes(p)
  PROVE  IInv'
<1>1. IdsLeft'
  BY MakersOthers, MakersShrink DEF tables
<1> QED
  BY <1>1, TablesStand, OneMoves

\* A step that answers the client.
LEMMA Finishes ==
  ASSUME IInv, NEW p \in Procs,
         NEW outcome \in {"ok", "forbidden", "fail"}, Finish(p, outcome)
  PROVE  OnlyMoves(p) /\ Knows(p)' /\ ~InFlight(p)' /\ ~Makes(p)'
<1>1. req \in [Procs -> Request]
  BY DEF IInv, RequestsKnow
<1> DEFINE pc == IF req[p].op = "get" /\ outcome # "fail" THEN outcome ELSE "idle"
           r == [Idle EXCEPT !.pc = pc]
<1>2. pc \in {"ok", "forbidden", "idle"}
  OBVIOUS
<1> HIDE DEF pc
<1>3. r \in Request /\ r.pc = pc
  BY <1>2 DEF Idle, Request, Pcs, NoAsset, Levels
<1>4. req' = [req EXCEPT ![p] = r]
  BY DEF Finish, pc
<1> HIDE DEF r
<1>5. OnlyMoves(p) /\ req'[p] = r
  BY <1>1, <1>3, <1>4 DEF OnlyMoves
<1>6. ~InFlight(p)' /\ ~Makes(p)'
  BY <1>2, <1>3, <1>5 DEF InFlight, Makes
<1> QED
  BY <1>5, <1>6 DEF Knows

\* In particular a step that ends a request.
LEMMA Ends ==
  ASSUME IInv, History, NEW p \in Procs, UNCHANGED tables, Stores',
         NEW outcome \in {"ok", "forbidden", "fail"}, Finish(p, outcome)
  PROVE  IInv'
  BY Finishes, RequestMoves

\* A step that goes on with the same call of the client.
Kept(p) == /\ req'[p].op = req[p].op /\ req'[p].user = req[p].user
           /\ req'[p].asset = req[p].asset /\ req'[p].target = req[p].target
           /\ req'[p].arg = req[p].arg

\* And a step to the request's next call, if what it found out is true.
LEMMA Continues ==
  ASSUME IInv, History, NEW p \in Procs, UNCHANGED tables, Stores',
         InFlight(p), InFlight(p)', OnlyMoves(p), Kept(p), req[p].pc # "insert",
         req'[p].op \in OpsAt(req'[p].pc),
         req'[p].pc \in Cleared => p \in may \/ Entitled(p)',
         Makes(p)' => Makes(p) /\ (req[p].pc = "check" \/ assets[req[p].asset].type = "folder")
  PROVE  IInv'
<1>1. Knows(p) /\ last' = last /\ assets' = assets
  BY DEF IInv, RequestsKnow, tables
<1>2. req'[p].pc \in Cleared => p \in may'
  BY HistoryKeeps
<1>3. ASSUME req'[p].op = "create", req'[p].pc \in {"check", "insert"}, Live(req[p].asset)'
      PROVE  assets'[req'[p].asset].type = "folder"
  <2>1. Makes(p)'
    BY <1>3 DEF Makes
  <2>2. CASE req[p].pc = "check"
    <3>1. req[p].op = "create" /\ Live(req[p].asset)
      BY <1>1, <1>3 DEF Kept, Live
    <3> QED
      BY <1>1, <2>2, <3>1 DEF Knows, Kept
  <2> QED
    BY <1>1, <2>1, <2>2 DEF Kept
<1>4. /\ req[p].user \in Users
      /\ req[p].asset \in 0..last
      /\ req[p].asset # NoAsset
      /\ req[p].op \in {"share", "revoke"} => req[p].target \in Users
      /\ req[p].op = "share" => req[p].arg \in Levels
      /\ req[p].op = "create" => req[p].arg \in Types
  BY <1>1 DEF Knows
<1>5. Knows(p)'
  BY <1>1, <1>2, <1>3, <1>4 DEF Knows, Kept
<1> QED
  BY <1>5, RequestMoves

\* The request moves on to another call, with its call and what it learned.
LEMMA Goes ==
  ASSUME IInv, NEW p \in Procs, NEW pc \in Pcs, NEW row \in Row \cup {NoRow},
         NEW list \in Acl \cup {NoList}, NEW keys \in SUBSET Keys,
         \/ Goto(p, pc)
         \/ req' = [req EXCEPT ![p].pc = pc, ![p].row = row]
         \/ req' = [req EXCEPT ![p].pc = pc, ![p].list = list]
         \/ req' = [req EXCEPT ![p].pc = pc, ![p].evict = keys]
         \/ req' = [req EXCEPT ![p].evict = keys] /\ pc = req[p].pc
  PROVE  OnlyMoves(p) /\ Kept(p) /\ req'[p].pc = pc
<1>1. req \in [Procs -> Request] /\ req[p] \in Request
  BY DEF IInv, RequestsKnow
<1>2. CASE Goto(p, pc)
  <2>1. [req[p] EXCEPT !.pc = pc] \in Request
    BY <1>1 DEF Request
  <2> QED
    BY <1>1, <1>2, <2>1 DEF Goto, OnlyMoves, Kept, Request
<1>3. CASE req' = [req EXCEPT ![p].pc = pc, ![p].row = row]
  <2>1. [req[p] EXCEPT !.pc = pc, !.row = row] \in Request
    BY <1>1 DEF Request
  <2> QED
    BY <1>1, <1>3, <2>1 DEF OnlyMoves, Kept, Request
<1>4. CASE req' = [req EXCEPT ![p].pc = pc, ![p].list = list]
  <2>1. [req[p] EXCEPT !.pc = pc, !.list = list] \in Request
    BY <1>1 DEF Request
  <2> QED
    BY <1>1, <1>4, <2>1 DEF OnlyMoves, Kept, Request
<1>5. CASE req' = [req EXCEPT ![p].pc = pc, ![p].evict = keys]
  <2>1. [req[p] EXCEPT !.pc = pc, !.evict = keys] \in Request
    BY <1>1 DEF Request
  <2> QED
    BY <1>1, <1>5, <2>1 DEF OnlyMoves, Kept, Request
<1>6. CASE req' = [req EXCEPT ![p].evict = keys] /\ pc = req[p].pc
  <2>1. [req[p] EXCEPT !.evict = keys] \in Request
    BY <1>1 DEF Request
  <2> QED
    BY <1>1, <1>6, <2>1 DEF OnlyMoves, Kept, Request
<1> QED
  BY <1>2, <1>3, <1>4, <1>5, <1>6

\* A step of a read, or of any request to a call that needs no permission.
LEMMA GoesOn ==
  ASSUME IInv, History, NEW p \in Procs, UNCHANGED tables, Stores',
         NEW pc \in Pcs \ (Cleared \cup {"idle", "ok", "forbidden", "check", "load"}),
         InFlight(p), req[p].pc # "insert", req[p].op \in OpsAt(pc),
         OnlyMoves(p), Kept(p), req'[p].pc = pc
  PROVE  IInv'
<1>1. InFlight(p)' /\ ~(req'[p].pc \in Cleared) /\ ~Makes(p)'
  BY DEF InFlight, Cleared, Makes, Pcs
<1>2. req'[p].op \in OpsAt(req'[p].pc)
  BY DEF Kept
<1> QED
  BY <1>1, <1>2, Continues

-----------------------------------------------------------------------------
(* Reads. *)

\* What the invariant says of a request that reads.
LEMMA Reading ==
  ASSUME IInv, NEW p \in Procs,
         req[p].pc \in {"getCached", "getDb", "getFill", "aclCached", "aclDb", "aclFill", "manager"}
  PROVE  /\ InFlight(p) /\ req[p].op = "get" /\ req[p].asset \in AssetIds
         /\ req[p] \in Request /\ Stores
<1>1. Knows(p) /\ InFlight(p) /\ req[p] \in Request
  BY DEF IInv, RequestsKnow, InFlight
<1>2. req[p].op = "get"
  BY <1>1 DEF Knows, OpsAt
<1>3. req[p].asset \in 0..last /\ req[p].asset # NoAsset /\ last \in 0..MaxAssets
  BY <1>1 DEF Knows, IInv, TypeOK
<1> QED
  BY AssetsAssumption, <1>1, <1>2, <1>3 DEF AssetsAssumption, AssetIds, NoAsset, IInv, TypeOK, Stores

\* Types of the stores after a step that leaves them alone.
LEMMA CachesStand ==
  ASSUME IInv, UNCHANGED <<tables, caches, published>>
  PROVE  Stores'
<1>1. Stores
  BY DEF IInv, TypeOK, Stores
<1> QED
  BY <1>1 DEF Stores, tables, caches

\* The owner check of a row ends the read or goes on to the access list.
LEMMA WithRowStep ==
  ASSUME IInv, History, NEW p \in Procs, UNCHANGED tables, Stores',
         req[p].pc \in {"getCached", "getFill"}, NEW row \in Row \cup {NoRow}, WithRow(p, row)
  PROVE  IInv'
<1>1. InFlight(p) /\ req[p].op = "get" /\ req[p] \in Request
  BY Reading
<1>2. CASE Finish(p, "ok")
  BY <1>2, Ends
<1>3. CASE req' = [req EXCEPT ![p].pc = "aclCached", ![p].row = row]
  <2>1. OnlyMoves(p) /\ Kept(p) /\ req'[p].pc = "aclCached"
    BY <1>1, <1>3, Goes DEF Request, Pcs
  <2>2. "get" \in OpsAt("aclCached") /\ "aclCached" \in Pcs \ (Cleared \cup {"idle", "ok", "forbidden", "check", "load"})
    BY DEF OpsAt, Pcs, Cleared
  <2> QED
    BY <1>1, <2>1, <2>2, GoesOn
<1> QED
  BY <1>2, <1>3 DEF WithRow

\* The decision on an access list, cached or from the table.
LEMMA WithListStep ==
  ASSUME IInv, History, NEW p \in Procs, UNCHANGED tables, Stores',
         req[p].pc \in {"aclCached", "aclFill"}, NEW list, WithList(p, list)
  PROVE  IInv'
<1>1. InFlight(p) /\ req[p].op = "get" /\ req[p] \in Request
  BY Reading
<1>2. CASE Finish(p, "ok")
  BY <1>2, Ends
<1>3. CASE Goto(p, "manager")
  <2>1. OnlyMoves(p) /\ Kept(p) /\ req'[p].pc = "manager"
    BY <1>1, <1>3, Goes DEF Request, Pcs
  <2>2. "get" \in OpsAt("manager") /\ "manager" \in Pcs \ (Cleared \cup {"idle", "ok", "forbidden", "check", "load"})
    BY DEF OpsAt, Pcs, Cleared
  <2> QED
    BY <1>1, <2>1, <2>2, GoesOn
<1> QED
  BY <1>2, <1>3 DEF WithList

\* A read that gets on to its next call.
LEMMA GetsOn ==
  ASSUME IInv, History, NEW p \in Procs, UNCHANGED <<tables, caches, published>>,
         req[p].pc \in {"getCached", "getDb", "aclCached", "aclDb"},
         NEW pc \in {"getDb", "getFill", "aclDb", "aclFill"}, OnlyMoves(p), Kept(p), req'[p].pc = pc
  PROVE  IInv'
<1>1. InFlight(p) /\ req[p].op = "get"
  BY Reading
<1>2. "get" \in OpsAt(pc) /\ pc \in Pcs \ (Cleared \cup {"idle", "ok", "forbidden", "check", "load"})
  BY DEF OpsAt, Pcs, Cleared
<1>3. Stores' /\ UNCHANGED tables
  BY CachesStand
<1> QED
  BY <1>1, <1>2, <1>3, GoesOn

LEMMA GetCachedStep ==
  ASSUME IInv, History, NEW p \in Procs, GetCached(p)
  PROVE  IInv'
<1>1. /\ At(p, "getCached") /\ UNCHANGED <<tables, caches, published>> /\ UNCHANGED tables
      /\ WithRow(p, rowCache[req[p].asset]) \/ Goto(p, "getDb")
  BY DEF GetCached
<1>2. Stores' /\ req[p].pc = "getCached" /\ req[p] \in Request /\ req[p].asset \in AssetIds /\ Stores
  BY <1>1, CachesStand, Reading DEF At
<1>3. CASE WithRow(p, rowCache[req[p].asset])
  <2>1. rowCache[req[p].asset] \in Row \cup {NoRow}
    BY <1>2 DEF Stores
  <2> QED
    BY <1>1, <1>2, <1>3, <2>1, WithRowStep
<1>4. CASE Goto(p, "getDb")
  <2>1. OnlyMoves(p) /\ Kept(p) /\ req'[p].pc = "getDb"
    BY <1>2, <1>4, Goes DEF Request, Pcs
  <2> QED
    BY <1>1, <1>2, <2>1, GetsOn
<1> QED
  BY <1>1, <1>3, <1>4

LEMMA GetDbStep ==
  ASSUME IInv, History, NEW p \in Procs, GetDb(p)
  PROVE  IInv'
<1>1. /\ At(p, "getDb") /\ UNCHANGED <<tables, caches, published>> /\ UNCHANGED tables
      /\ \/ req' = [req EXCEPT ![p].pc = "getFill", ![p].row = assets[req[p].asset]]
         \/ Finish(p, "fail")
  BY DEF GetDb
<1>2. Stores' /\ req[p].pc = "getDb" /\ req[p] \in Request /\ req[p].asset \in AssetIds /\ Stores
  BY <1>1, CachesStand, Reading DEF At
<1>3. CASE req' = [req EXCEPT ![p].pc = "getFill", ![p].row = assets[req[p].asset]]
  <2>1. assets[req[p].asset] \in Row \cup {NoRow}
    BY <1>2 DEF Stores
  <2>2. OnlyMoves(p) /\ Kept(p) /\ req'[p].pc = "getFill"
    BY <1>2, <1>3, <2>1, Goes DEF Request, Pcs
  <2> QED
    BY <1>1, <1>2, <2>2, GetsOn
<1>4. CASE Finish(p, "fail")
  BY <1>1, <1>2, <1>4, Ends
<1> QED
  BY <1>1, <1>3, <1>4

\* A value stored in the cache, or not, by a read.
LEMMA GetFillStep ==
  ASSUME IInv, History, NEW p \in Procs, GetFill(p)
  PROVE  IInv'
<1> DEFINE a == req[p].asset
           row == req[p].row
<1>1. /\ At(p, "getFill") /\ UNCHANGED tables /\ UNCHANGED <<aclCache, published>> /\ WithRow(p, row)
      /\ rowCache' = [rowCache EXCEPT ![a] = row] \/ rowCache' = rowCache
      /\ late' \subseteq late \cup {<<"asset", a>>}
  BY DEF GetFill, MarkLate
<1>2. req[p].pc = "getFill" /\ req[p] \in Request /\ a \in AssetIds /\ Stores
  BY <1>1, Reading DEF At
<1>3. row \in Row \cup {NoRow}
  BY <1>2 DEF Request
<1>4. Stores'
  <2>1. rowCache' \in [AssetIds -> Row \cup {NoRow}]
    BY <1>1, <1>2, <1>3 DEF Stores
  <2>2. late' \subseteq Keys
    BY <1>1, <1>2 DEF Stores, Keys
  <2> QED
    BY <1>1, <1>2, <2>1, <2>2 DEF Stores, tables
<1> QED
  BY <1>1, <1>2, <1>3, <1>4, WithRowStep

LEMMA GetAclCachedStep ==
  ASSUME IInv, History, NEW p \in Procs, GetAclCached(p)
  PROVE  IInv'
<1>1. /\ At(p, "aclCached") /\ UNCHANGED <<tables, caches, published>> /\ UNCHANGED tables
      /\ WithList(p, aclCache[req[p].asset]) \/ Goto(p, "aclDb")
  BY DEF GetAclCached
<1>2. Stores' /\ req[p].pc = "aclCached" /\ req[p] \in Request
  BY <1>1, CachesStand, Reading DEF At
<1>3. CASE WithList(p, aclCache[req[p].asset])
  BY <1>1, <1>2, <1>3, WithListStep
<1>4. CASE Goto(p, "aclDb")
  <2>1. OnlyMoves(p) /\ Kept(p) /\ req'[p].pc = "aclDb"
    BY <1>2, <1>4, Goes DEF Request, Pcs
  <2> QED
    BY <1>1, <1>2, <2>1, GetsOn
<1> QED
  BY <1>1, <1>3, <1>4

LEMMA GetAclDbStep ==
  ASSUME IInv, History, NEW p \in Procs, GetAclDb(p)
  PROVE  IInv'
<1>1. /\ At(p, "aclDb") /\ UNCHANGED <<tables, caches, published>> /\ UNCHANGED tables
      /\ req' = [req EXCEPT ![p].pc = "aclFill", ![p].list = acl[req[p].asset]]
  BY DEF GetAclDb
<1>2. req[p].pc = "aclDb" /\ req[p] \in Request /\ req[p].asset \in AssetIds /\ Stores
  BY <1>1, Reading DEF At
<1>3. acl[req[p].asset] \in Acl \cup {NoList}
  BY <1>2 DEF Stores
<1>4. OnlyMoves(p) /\ Kept(p) /\ req'[p].pc = "aclFill"
  BY <1>1, <1>2, <1>3, Goes DEF Request, Pcs
<1> QED
  BY <1>1, <1>2, <1>4, GetsOn

LEMMA GetAclFillStep ==
  ASSUME IInv, History, NEW p \in Procs, GetAclFill(p)
  PROVE  IInv'
<1> DEFINE a == req[p].asset
           list == req[p].list
<1>1. /\ At(p, "aclFill") /\ UNCHANGED tables /\ UNCHANGED <<rowCache, published>> /\ WithList(p, list)
      /\ aclCache' = [aclCache EXCEPT ![a] = list] \/ aclCache' = aclCache
      /\ late' \subseteq late \cup {<<"acl", a>>}
  BY DEF GetAclFill, MarkLate
<1>2. req[p].pc = "aclFill" /\ req[p] \in Request /\ a \in AssetIds /\ Stores
  BY <1>1, Reading DEF At
<1>3. list \in Acl \cup {NoList}
  BY <1>2 DEF Request
<1>4. Stores'
  <2>1. aclCache' \in [AssetIds -> Acl \cup {NoList}]
    BY <1>1, <1>2, <1>3 DEF Stores
  <2>2. late' \subseteq Keys
    BY <1>1, <1>2 DEF Stores, Keys
  <2> QED
    BY <1>1, <1>2, <2>1, <2>2 DEF Stores, tables
<1> QED
  BY <1>1, <1>2, <1>4, WithListStep

LEMMA GetManagerStep ==
  ASSUME IInv, History, NEW p \in Procs, GetManager(p)
  PROVE  IInv'
<1>1. /\ UNCHANGED <<tables, caches, published>> /\ UNCHANGED tables
      /\ Finish(p, "ok") \/ Finish(p, "forbidden")
  BY DEF GetManager
<1>2. Stores'
  BY <1>1, CachesStand
<1> QED
  BY <1>1, <1>2, Ends

-----------------------------------------------------------------------------
(* Writes, up to their transaction. *)

\* What the invariant says of a request that writes.
LEMMA Writing ==
  ASSUME IInv, NEW p \in Procs, req[p].pc \in Cleared \cup {"load", "check", "publish", "evict"}
  PROVE  /\ InFlight(p) /\ req[p].op \in OpsAt(req[p].pc) /\ req[p] \in Request /\ Stores
         /\ req[p].asset \in 0..last
         /\ req[p].pc # "insert" => req[p].asset \in AssetIds
<1>1. Knows(p) /\ req[p] \in Request
  BY DEF IInv, RequestsKnow
<1>2. InFlight(p)
  BY DEF InFlight, Cleared
<1>3. /\ req[p].asset \in 0..last /\ last \in 0..MaxAssets
      /\ req[p].pc # "insert" => req[p].asset # NoAsset
  BY <1>1, <1>2 DEF Knows, IInv, TypeOK
<1>4. req[p].pc # "insert" => req[p].asset \in AssetIds
  BY AssetsAssumption, <1>3 DEF AssetsAssumption, AssetIds, NoAsset
<1> QED
  BY <1>1, <1>2, <1>3, <1>4 DEF Knows, IInv, TypeOK, Stores

\* A caller found entitled by the row of the database, or by its access entry.
LEMMA Clears ==
  ASSUME IInv, History, NEW p \in Procs, UNCHANGED <<tables, caches, published>>,
         req[p].pc \in {"load", "check", "find", "target"}, Live(req[p].asset),
         NEW pc \in Cleared, req[p].op \in OpsAt(pc), OnlyMoves(p), Kept(p), req'[p].pc = pc,
         req[p].op \in {"create", "update"} => CanWrite(req[p].user, req[p].asset),
         req[p].op \in {"delete", "share", "revoke"} => assets[req[p].asset].owner = req[p].user,
         pc = "insert" => assets[req[p].asset].type = "folder"
  PROVE  IInv'
<1>1. InFlight(p) /\ req[p].op \in OpsAt(req[p].pc)
  BY Writing DEF Cleared
<1>2. UNCHANGED tables /\ Stores'
  BY CachesStand
<1>3. InFlight(p)'
  BY DEF InFlight, Cleared
<1>4. req[p].op \in AllOps \ {"get"}
  BY DEF OpsAt, AllOps, Cleared
<1>5. Entitled(p)'
  BY <1>2, <1>3, <1>4 DEF Entitled, Kept, tables, Live, CanWrite, AllOps
<1>6. Makes(p)' => Makes(p) /\ assets[req[p].asset].type = "folder"
  <2>1. SUFFICES ASSUME Makes(p)' PROVE Makes(p) /\ pc = "insert"
    OBVIOUS
  <2>2. pc = "insert" /\ req[p].op = "create"
    BY <2>1 DEF Makes, Cleared, Kept
  <2>3. req[p].pc \in {"load", "check"}
    BY <1>1, <2>2 DEF OpsAt
  <2> QED
    BY <2>2, <2>3 DEF Makes
<1>7. req'[p].op \in OpsAt(req'[p].pc)
  BY DEF Kept
<1> QED
  BY <1>1, <1>2, <1>3, <1>5, <1>6, <1>7, Continues

LEMMA LoadForWriteStep ==
  ASSUME IInv, History, NEW p \in Procs, LoadForWrite(p)
  PROVE  IInv'
<1> DEFINE a == req[p].asset
           row == assets[a]
           owns == row.owner = req[p].user
           to(pc) == req' = [req EXCEPT ![p].pc = pc, ![p].row = row]
<1>1. /\ At(p, "load") /\ req[p].op \in {"create", "update"}
      /\ UNCHANGED <<tables, caches, published>> /\ UNCHANGED tables
  BY DEF LoadForWrite
<1>2. PICK rich \in BOOLEAN :
         CASE ~Live(a) -> Finish(p, "fail")
           [] Live(a) /\ req[p].op = "create" /\ row.type # "folder" -> Finish(p, "fail")
           [] Live(a) /\ req[p].op = "update" /\ row.type = "folder" /\ rich -> Finish(p, "fail")
           [] OTHER -> IF row.owner # req[p].user THEN to("check")
                       ELSE to(IF req[p].op = "create" THEN "insert" ELSE "update")
  BY DEF LoadForWrite
<1>3. \/ Finish(p, "fail")
      \/ /\ Live(a)
         /\ req[p].op = "create" => row.type = "folder"
         /\ \/ to("check")
            \/ owns /\ req[p].op = "create" /\ to("insert")
            \/ owns /\ req[p].op = "update" /\ to("update")
  <2> HIDE DEF row, a, to
  <2> QED
    BY <1>1, <1>2
<1>4. /\ Stores' /\ req[p].pc = "load" /\ req[p] \in Request /\ a \in AssetIds /\ Stores
      /\ InFlight(p)
  BY <1>1, CachesStand, Writing DEF At
<1>5. row \in Row \cup {NoRow}
  BY <1>4 DEF Stores
<1>6. CASE Finish(p, "fail")
  BY <1>1, <1>4, <1>6, Ends
<1>7. CASE Live(a) /\ (req[p].op = "create" => row.type = "folder") /\ to("check")
  <2>1. OnlyMoves(p) /\ Kept(p) /\ req'[p].pc = "check"
    BY <1>4, <1>5, <1>7, Goes DEF Request, Pcs
  <2>2. /\ InFlight(p)' /\ ~(req'[p].pc \in Cleared)
        /\ req'[p].op \in OpsAt(req'[p].pc)
        /\ Makes(p)' => Makes(p) /\ row.type = "folder"
    BY <1>1, <1>4, <1>7, <2>1 DEF InFlight, Cleared, Makes, Kept, OpsAt
  <2> QED
    BY <1>1, <1>4, <2>1, <2>2, Continues
<1>8. CASE Live(a) /\ row.type = "folder" /\ owns /\ req[p].op = "create" /\ to("insert")
  <2>1. OnlyMoves(p) /\ Kept(p) /\ req'[p].pc = "insert" /\ "insert" \in Cleared
    BY <1>4, <1>5, <1>8, Goes DEF Request, Pcs, Cleared
  <2>2. req[p].op \in OpsAt("insert") /\ CanWrite(req[p].user, a)
    BY <1>8 DEF OpsAt, CanWrite, Cleared
  <2> QED
    BY <1>1, <1>4, <1>8, <2>1, <2>2, Clears
<1>9. CASE Live(a) /\ owns /\ req[p].op = "update" /\ to("update")
  <2>0. "update" \in Pcs /\ "update" \in Cleared /\ req[p].list \in Acl \cup {NoList}
        /\ req[p].evict \in SUBSET Keys
    BY <1>4 DEF Request, Pcs, Cleared
  <2>1. OnlyMoves(p) /\ Kept(p) /\ req'[p].pc = "update" /\ "update" \in Cleared
    <3>1. req' = [req EXCEPT ![p].pc = "update", ![p].row = row]
      BY <1>9
    <3> HIDE DEF row, a
    <3> QED
      BY <1>5, <2>0, <3>1, Goes
  <2>2. req[p].op \in OpsAt("update") /\ CanWrite(req[p].user, a)
    BY <1>9 DEF OpsAt, CanWrite, Cleared
  <2> QED
    BY <1>1, <1>4, <1>9, <2>1, <2>2, Clears
<1> HIDE DEF row, a, owns, to
<1> QED
  BY <1>3, <1>6, <1>7, <1>8, <1>9

LEMMA LoadOwnedStep ==
  ASSUME IInv, History, NEW p \in Procs, LoadOwned(p)
  PROVE  IInv'
<1> DEFINE a == req[p].asset
           row == assets[a]
<1>1. /\ At(p, "load") /\ req[p].op \in {"delete", "share", "revoke"}
      /\ UNCHANGED <<tables, caches, published>> /\ UNCHANGED tables
  BY DEF LoadOwned
<1>2. \/ Finish(p, "fail") \/ Finish(p, "forbidden")
      \/ /\ Live(a) /\ row.owner = req[p].user
         /\ \E pc \in Cleared : /\ req[p].op \in OpsAt(pc) /\ pc # "insert"
                                /\ req' = [req EXCEPT ![p].pc = pc, ![p].row = row]
  <2>1. CASE ~Live(a) \/ row.owner # req[p].user
    BY <2>1 DEF LoadOwned
  <2>2. CASE Live(a) /\ row.owner = req[p].user
    <3>1. CASE req[p].op = "share"
      <4>1. req' = [req EXCEPT ![p].pc = "target", ![p].row = row]
        BY <2>2, <3>1 DEF LoadOwned
      <4> QED
        BY <2>2, <3>1, <4>1 DEF OpsAt, Cleared
    <3>2. CASE req[p].op = "revoke"
      <4>1. req' = [req EXCEPT ![p].pc = "revoke", ![p].row = row]
        BY <2>2, <3>2 DEF LoadOwned
      <4> QED
        BY <2>2, <3>2, <4>1 DEF OpsAt, Cleared
    <3>3. CASE req[p].op = "delete"
      <4>1. \/ req' = [req EXCEPT ![p].pc = "find", ![p].row = row]
            \/ req' = [req EXCEPT ![p].pc = "delete", ![p].row = row]
        BY <2>2, <3>3 DEF LoadOwned
      <4> QED
        BY <2>2, <3>3, <4>1 DEF OpsAt, Cleared
    <3> QED
      BY <1>1, <3>1, <3>2, <3>3
  <2> QED
    BY <2>1, <2>2
<1>3. Stores' /\ req[p].pc = "load" /\ req[p] \in Request /\ a \in AssetIds /\ Stores
  BY <1>1, CachesStand, Writing DEF At
<1>4. row \in Row \cup {NoRow}
  BY <1>3 DEF Stores
<1>5. CASE Finish(p, "fail") \/ Finish(p, "forbidden")
  BY <1>1, <1>3, <1>5, Ends
<1>6. ASSUME Live(a), row.owner = req[p].user, NEW pc \in Cleared, req[p].op \in OpsAt(pc),
             pc # "insert", req' = [req EXCEPT ![p].pc = pc, ![p].row = row]
      PROVE  IInv'
  <2>1. OnlyMoves(p) /\ Kept(p) /\ req'[p].pc = pc
    BY <1>3, <1>4, <1>6, Goes DEF Request, Pcs, Cleared
  <2> QED
    BY <1>1, <1>3, <1>6, <2>1, Clears
<1> QED
  BY <1>2, <1>5, <1>6

\* An entry that allows to write stands for a live asset.
LEMMA CheckAclStep ==
  ASSUME IInv, History, NEW p \in Procs, CheckAcl(p)
  PROVE  IInv'
<1> DEFINE a == req[p].asset
<1>1. /\ At(p, "check") /\ UNCHANGED <<tables, caches, published>> /\ UNCHANGED tables
  BY DEF CheckAcl
<1>2. /\ Stores' /\ req[p].pc = "check" /\ req[p] \in Request /\ a \in AssetIds /\ Stores
      /\ InFlight(p) /\ req[p].op \in OpsAt("check")
  BY <1>1, CachesStand, Writing DEF At
<1>3. req[p].op \in {"create", "update"} /\ req[p].user \in Users
  BY <1>2 DEF OpsAt, IInv, RequestsKnow, Knows, Cleared
<1>4. CASE ~WriteAllowed(p)
  <2>1. Finish(p, "forbidden")
    BY <1>4 DEF CheckAcl
  <2> QED
    BY <1>1, <1>2, <2>1, Ends
<1>5. CASE WriteAllowed(p)
  <2>1. Live(a)
    <3>1. acl[a] # NoAcl
      BY <1>3, <1>5 DEF WriteAllowed, NoAcl
    <3> QED
      BY <1>2, <3>1 DEF IInv, TreeWellFormed
  <2>2. CanWrite(req[p].user, a)
    BY <1>5, <2>1 DEF CanWrite, WriteAllowed
  <2>3. CASE req[p].op = "create"
    <3>1. Goto(p, "insert")
      BY <1>5, <2>3 DEF CheckAcl
    <3>2. OnlyMoves(p) /\ Kept(p) /\ req'[p].pc = "insert" /\ "insert" \in Cleared
      BY <1>2, <3>1, Goes DEF Request, Pcs, Cleared
    <3>3. assets[a].type = "folder" /\ req[p].op \in OpsAt("insert")
      BY <1>2, <2>1, <2>3 DEF IInv, RequestsKnow, Knows, OpsAt, Cleared
    <3> QED
      BY <1>1, <1>2, <2>1, <2>2, <2>3, <3>2, <3>3, Clears
  <2>4. CASE req[p].op = "update"
    <3>1. Goto(p, "update")
      BY <1>5, <2>4 DEF CheckAcl
    <3>2. OnlyMoves(p) /\ Kept(p) /\ req'[p].pc = "update" /\ "update" \in Cleared
      BY <1>2, <3>1, Goes DEF Request, Pcs, Cleared
    <3>3. req[p].op \in OpsAt("update")
      BY <2>4 DEF OpsAt, Cleared
    <3> QED
      BY <1>1, <1>2, <2>1, <2>2, <2>4, <3>2, <3>3, Clears
  <2> QED
    BY <1>3, <2>3, <2>4
<1> QED
  BY <1>4, <1>5

LEMMA DeleteFindStep ==
  ASSUME IInv, History, NEW p \in Procs, DeleteFind(p)
  PROVE  IInv'
<1> DEFINE a == req[p].asset
<1>1. /\ At(p, "find") /\ UNCHANGED <<tables, caches, published>> /\ UNCHANGED tables
  BY DEF DeleteFind
<1>2. /\ Stores' /\ req[p].pc = "find" /\ req[p] \in Request /\ InFlight(p)
      /\ req[p].op \in OpsAt("find") /\ "find" \in Cleared
  BY <1>1, CachesStand, Writing DEF At, Cleared
<1>3. p \in may
  BY <1>2 DEF IInv, RequestsKnow, Knows
<1>4. KeysOf(GetDescendantIDs(a)) \in SUBSET Keys /\ {} \in SUBSET Keys
  BY FindsExisting DEF KeysOf, Keys, GetDescendantIDs, Existing
<1>5. OnlyMoves(p) /\ Kept(p) /\ req'[p].pc = "delete"
  <2>1. PICK found \in BOOLEAN :
          req' = [req EXCEPT ![p].pc = "delete",
                             ![p].evict = IF found THEN KeysOf(GetDescendantIDs(a)) ELSE {}]
    BY DEF DeleteFind, Delivered
  <2>2. PICK keys \in SUBSET Keys : req' = [req EXCEPT ![p].pc = "delete", ![p].evict = keys]
    BY <1>4, <2>1
  <2>3. "delete" \in Pcs /\ req[p].row \in Row \cup {NoRow} /\ req[p].list \in Acl \cup {NoList}
    BY <1>2 DEF Pcs, Cleared, Request
  <2> QED
    BY <2>2, <2>3, Goes
<1>6. InFlight(p)' /\ req'[p].op \in OpsAt(req'[p].pc) /\ ~Makes(p)'
  BY <1>2, <1>5 DEF InFlight, Kept, OpsAt, Cleared, Makes
<1> QED
  BY <1>1, <1>2, <1>3, <1>5, <1>6, Continues

LEMMA ShareTargetStep ==
  ASSUME IInv, History, NEW p \in Procs, ShareTarget(p)
  PROVE  IInv'
<1>1. /\ At(p, "target") /\ UNCHANGED <<tables, caches, published>> /\ UNCHANGED tables
      /\ Goto(p, "share") \/ Finish(p, "fail")
  BY DEF ShareTarget
<1>2. /\ Stores' /\ req[p].pc = "target" /\ req[p] \in Request /\ InFlight(p)
      /\ req[p].op \in OpsAt("target") /\ "target" \in Cleared
  BY <1>1, CachesStand, Writing DEF At, Cleared
<1>3. p \in may
  BY <1>2 DEF IInv, RequestsKnow, Knows
<1>4. CASE Goto(p, "share")
  <2>1. OnlyMoves(p) /\ Kept(p) /\ req'[p].pc = "share"
    BY <1>2, <1>4, Goes DEF Request, Pcs, Cleared
  <2>2. InFlight(p)' /\ req'[p].op \in OpsAt(req'[p].pc) /\ ~Makes(p)'
    BY <1>2, <2>1 DEF InFlight, Kept, OpsAt, Cleared, Makes
  <2> QED
    BY <1>1, <1>2, <1>3, <2>1, <2>2, Continues
<1>5. CASE Finish(p, "fail")
  BY <1>1, <1>2, <1>5, Ends
<1> QED
  BY <1>1, <1>4, <1>5

-----------------------------------------------------------------------------
(* After the commit. *)

LEMMA PublishStep ==
  ASSUME IInv, History, NEW p \in Procs, Publish(p)
  PROVE  IInv'
<1> DEFINE event == <<EventOf(req[p].op), req[p].asset>>
<1>1. /\ At(p, "publish") /\ UNCHANGED tables /\ UNCHANGED caches
      /\ published' \subseteq published \cup {event}
      /\ Finish(p, "ok") \/ Goto(p, "evict")
  BY DEF Publish
<1>2. /\ req[p].pc = "publish" /\ req[p] \in Request /\ InFlight(p) /\ Stores
      /\ req[p].op \in OpsAt("publish") /\ req[p].asset \in AssetIds
  BY <1>1, Writing DEF At, Cleared
<1>3. req[p].op \in {"create", "update", "delete", "share"}
  BY <1>2 DEF OpsAt, Cleared
<1>4. Stores'
  <2>1. event \in {"NOTE_CREATED", "NOTE_UPDATED", "FOLDER_DELETED", "FOLDER_SHARED"} \X AssetIds
    BY <1>2, <1>3 DEF EventOf
  <2> HIDE DEF event
  <2> QED
    BY <1>1, <1>2, <2>1 DEF Stores, tables, caches
<1>5. CASE Goto(p, "evict")
  <2>1. OnlyMoves(p) /\ Kept(p) /\ req'[p].pc = "evict"
    BY <1>2, <1>5, Goes DEF Request, Pcs
  <2>2. /\ req[p].op \in OpsAt("evict")
        /\ "evict" \in Pcs \ (Cleared \cup {"idle", "ok", "forbidden", "check", "load"})
    BY <1>3 DEF OpsAt, AllOps, Pcs, Cleared
  <2> QED
    BY <1>1, <1>2, <1>4, <2>1, <2>2, GoesOn
<1> QED
  BY <1>1, <1>4, <1>5, Ends

\* Types of the stores after an eviction.
LEMMA DropKeeps ==
  ASSUME Stores, NEW key \in Keys, Drop(key), UNCHANGED <<tables, published>>
  PROVE  Stores'
<1>1. key[2] \in AssetIds
  BY DEF Keys
<1>2. rowCache' \in [AssetIds -> Row \cup {NoRow}] /\ aclCache' \in [AssetIds -> Acl \cup {NoList}]
  BY <1>1 DEF Drop, Stores
<1>3. late' \subseteq Keys
  BY DEF Drop, Stores
<1> QED
  BY <1>2, <1>3 DEF Stores, tables

LEMMA EvictStep ==
  ASSUME IInv, History, NEW p \in Procs, Evict(p)
  PROVE  IInv'
<1>1. At(p, "evict") /\ UNCHANGED tables /\ UNCHANGED published
  BY DEF Evict
<1>2. /\ req[p].pc = "evict" /\ req[p] \in Request /\ InFlight(p) /\ Stores
      /\ req[p].op \in OpsAt("evict")
  BY <1>1, Writing DEF At, Cleared
<1>3. PICK key \in req[p].evict :
        /\ \E done \in Delivered("redis") : IF done THEN Drop(key) ELSE UNCHANGED caches
        /\ CASE req[p].evict \ {key} # {} -> req' = [req EXCEPT ![p].evict = req[p].evict \ {key}]
             [] req[p].evict \ {key} = {} /\ req[p].op = "delete" /\ Publishes(req[p]) ->
                  req' = [req EXCEPT ![p].pc = "publish", ![p].evict = {}]
             [] OTHER -> Finish(p, "ok")
  BY DEF Evict
<1>4. /\ key \in Keys /\ req[p].evict \ {key} \in SUBSET Keys /\ {} \in SUBSET Keys
      /\ req[p].row \in Row \cup {NoRow} /\ req[p].list \in Acl \cup {NoList}
  BY <1>2, <1>3 DEF Request
<1>5. Stores'
  <2>1. CASE Drop(key)
    BY <1>1, <1>2, <1>4, <2>1, DropKeeps
  <2>2. CASE UNCHANGED caches
    BY <1>1, <1>2, <2>2 DEF Stores, tables, caches
  <2> QED
    BY <1>3, <2>1, <2>2
<1>6. \/ req' = [req EXCEPT ![p].evict = req[p].evict \ {key}]
      \/ req[p].op = "delete" /\ req' = [req EXCEPT ![p].pc = "publish", ![p].evict = {}]
      \/ Finish(p, "ok")
  BY <1>3
<1>7. CASE req' = [req EXCEPT ![p].evict = req[p].evict \ {key}]
  <2>1. OnlyMoves(p) /\ Kept(p) /\ req'[p].pc = "evict"
    <3> DEFINE rest == req[p].evict \ {key}
    <3>1. req' = [req EXCEPT ![p].evict = rest] /\ rest \in SUBSET Keys /\ "evict" \in Pcs
      BY <1>4, <1>7 DEF Pcs
    <3> HIDE DEF rest
    <3> QED
      BY <1>2, <1>4, <3>1, Goes
  <2>2. "evict" \in Pcs \ (Cleared \cup {"idle", "ok", "forbidden", "check", "load"})
    BY DEF Pcs, Cleared
  <2> QED
    BY <1>1, <1>2, <1>5, <2>1, <2>2, GoesOn
<1>8. CASE req[p].op = "delete" /\ req' = [req EXCEPT ![p].pc = "publish", ![p].evict = {}]
  <2>1. OnlyMoves(p) /\ Kept(p) /\ req'[p].pc = "publish"
    BY <1>4, <1>8, Goes DEF Pcs
  <2>2. /\ req[p].op \in OpsAt("publish")
        /\ "publish" \in Pcs \ (Cleared \cup {"idle", "ok", "forbidden", "check", "load"})
    BY <1>8 DEF OpsAt, Pcs, Cleared
  <2> QED
    BY <1>1, <1>2, <1>5, <2>1, <2>2, GoesOn
<1> QED
  BY <1>1, <1>5, <1>6, <1>7, <1>8, Ends

-----------------------------------------------------------------------------
(* The environment and the clients. *)

LEMMA AbortStep ==
  ASSUME IInv, History, NEW p \in Procs, Abort(p)
  PROVE  IInv'
<1>1. Finish(p, "fail") /\ UNCHANGED <<tables, caches, published>> /\ UNCHANGED tables
  BY DEF Abort
<1> QED
  BY <1>1, CachesStand, Ends

\* No request moves.
LEMMA NoneMoves ==
  ASSUME IInv, History, req' = req, last' = last, RowsStand, TreeWellFormed', Stores'
  PROVE  IInv'
<1>1. req \in [Procs -> Request] /\ may \subseteq Procs /\ last \in Nat /\ (\A q \in Procs : Knows(q))
  BY DEF IInv, RequestsKnow, TypeOK
<1>2. may' \subseteq Procs
  BY <1>1 DEF History
<1>3. TypeOK'
  <2>1. \A q \in Procs : req'[q] \in Request
    BY <1>1
  <2>2. missed' \subseteq AssetIds
    BY MissedTyped DEF IInv, Stores
  <2> QED
    BY <1>2, <2>1, <2>2, RequestTyped DEF Stores, TypeOK
<1>4. ASSUME NEW q \in Procs PROVE Knows(q)'
  <2>1. last' \in Nat /\ last' >= last
    BY <1>1
  <2> QED
    BY <2>1, OthersKnow
<1>5. IdsLeft'
  <2>1. Makers' \subseteq Makers
    BY DEF Makers, Makes
  <2> QED
    BY <2>1, MakersShrink
<1> QED
  BY <1>1, <1>3, <1>4, <1>5 DEF IInv, RequestsKnow

LEMMA ExpireStep ==
  ASSUME IInv, History, NEW key \in Keys, Expire(key)
  PROVE  IInv'
<1>1. Drop(key) /\ UNCHANGED <<tables, published>> /\ UNCHANGED tables /\ req' = req /\ last' = last
  BY DEF Expire, tables
<1>2. Stores
  BY DEF IInv, TypeOK, Stores
<1>3. Stores'
  BY <1>1, <1>2, DropKeeps
<1> QED
  BY <1>1, <1>3, TablesStand, NoneMoves

LEMMA TeamChangeStep ==
  ASSUME IInv, History, TeamChange
  PROVE  IInv'
<1>1. /\ assets' = assets /\ acl' = acl /\ last' = last /\ req' = req
      /\ UNCHANGED <<caches, published>>
  BY DEF TeamChange
<1>2. Stores /\ TreeWellFormed
  BY DEF IInv, TypeOK, Stores
<1>3. oversees' \subseteq Oversight
  BY <1>2 DEF TeamChange, Stores
<1>4. Stores'
  BY <1>1, <1>2, <1>3 DEF Stores, caches
<1>5. RowsStand
  BY <1>1 DEF RowsStand
<1>6. TreeWellFormed'
  BY <1>1, <1>2 DEF TreeWellFormed, Existing, Live
<1> QED
  BY <1>1, <1>4, <1>5, <1>6, NoneMoves

-----------------------------------------------------------------------------
(* The transactions. *)

\* What follows a commit no longer needs an id, a permission or a parent.
LEMMA CommittedStep ==
  ASSUME IInv, NEW p \in Procs, InFlight(p), req[p] \in Request, NEW a \in AssetIds,
         NEW keys \in SUBSET Keys, Committed(p, a, keys),
         req[p].op \in AllOps \ {"get"}
  PROVE  /\ OnlyMoves(p) /\ ~Makes(p)'
         /\ InFlight(p)' =>
              /\ req'[p].pc \in {"publish", "evict"} /\ req'[p].op \in OpsAt(req'[p].pc)
              /\ req'[p].asset = a /\ req'[p].op = req[p].op /\ req'[p].user = req[p].user
              /\ req'[p].target = req[p].target /\ req'[p].arg = req[p].arg
<1> DEFINE r == [req[p] EXCEPT !.asset = a, !.evict = keys]
           r1 == [r EXCEPT !.pc = "publish"]
           r2 == [r EXCEPT !.pc = "evict"]
<1>1. req \in [Procs -> Request]
  BY DEF IInv, RequestsKnow
<1>2. PICK acked \in BOOLEAN :
        CASE ~acked -> Finish(p, "fail")
          [] acked /\ Publishes(r) /\ r.op # "delete" -> req' = [req EXCEPT ![p] = r1]
          [] acked /\ (~Publishes(r) \/ r.op = "delete") ->
               IF keys = {} THEN Finish(p, "ok") ELSE req' = [req EXCEPT ![p] = r2]
  BY DEF Committed, Delivered
<1>3. \/ Finish(p, "fail") \/ Finish(p, "ok") \/ req' = [req EXCEPT ![p] = r2]
      \/ Publishes(r) /\ req' = [req EXCEPT ![p] = r1]
  <2> HIDE DEF r, r1, r2
  <2> QED
    BY <1>2
<1>4. /\ r1 \in Request /\ r1.pc = "publish" /\ r1.asset = a /\ r1.op = req[p].op
      /\ r1.user = req[p].user /\ r1.target = req[p].target /\ r1.arg = req[p].arg
  BY DEF Request, Pcs
<1>5. /\ r2 \in Request /\ r2.pc = "evict" /\ r2.asset = a /\ r2.op = req[p].op
      /\ r2.user = req[p].user /\ r2.target = req[p].target /\ r2.arg = req[p].arg
  BY DEF Request, Pcs
<1>6. Publishes(r) => req[p].op \in OpsAt("publish")
  <2>1. r.op = req[p].op
    BY DEF Request
  <2>2. Publishes(r) => r.op \in {"create", "update", "share", "delete"}
    BY DEF Publishes
  <2> QED
    BY <2>1, <2>2 DEF OpsAt, Cleared
<1>7. req[p].op \in OpsAt("evict")
  BY DEF OpsAt, Cleared
<1>8. CASE Finish(p, "fail") \/ Finish(p, "ok")
  BY <1>8, Finishes
<1> HIDE DEF r, r1, r2
<1>9. CASE req' = [req EXCEPT ![p] = r2]
  <2>1. OnlyMoves(p) /\ req'[p] = r2
    BY <1>1, <1>5, <1>9 DEF OnlyMoves
  <2> QED
    BY <1>5, <1>7, <2>1 DEF Makes
<1>10. CASE Publishes(r) /\ req' = [req EXCEPT ![p] = r1]
  <2>1. OnlyMoves(p) /\ req'[p] = r1
    BY <1>1, <1>4, <1>10 DEF OnlyMoves
  <2> QED
    BY <1>4, <1>6, <1>10, <2>1 DEF Makes
<1> QED
  BY <1>3, <1>8, <1>9, <1>10

\* A transaction that creates nothing.
LEMMA Commits ==
  ASSUME IInv, History, NEW p \in Procs, req[p].pc \in Cleared \ {"insert"}, last' = last,
         Stores', RowsStand, TreeWellFormed', NEW keys \in SUBSET Keys,
         Committed(p, req[p].asset, keys)
  PROVE  IInv'
<1>1. /\ InFlight(p) /\ req[p].op \in OpsAt(req[p].pc) /\ req[p] \in Request
      /\ req[p].asset \in AssetIds /\ Knows(p)
  BY Writing DEF IInv, RequestsKnow
<1>2. req[p].op \in AllOps \ {"get"}
  BY <1>1 DEF OpsAt, AllOps, Cleared
<1>3. /\ OnlyMoves(p) /\ ~Makes(p)'
      /\ InFlight(p)' =>
              /\ req'[p].pc \in {"publish", "evict"} /\ req'[p].op \in OpsAt(req'[p].pc)
              /\ req'[p].asset = req[p].asset /\ req'[p].op = req[p].op /\ req'[p].user = req[p].user
              /\ req'[p].target = req[p].target /\ req'[p].arg = req[p].arg
  BY <1>1, <1>2, CommittedStep
<1>4. Knows(p)'
  BY <1>1, <1>3 DEF Knows, Cleared, AssetIds, NoAsset
<1>5. IdsLeft'
  BY <1>3, MakersOthers, MakersShrink
<1>6. last \in Nat
  BY DEF IInv, TypeOK
<1> QED
  BY <1>3, <1>4, <1>5, <1>6, OneMoves

LEMMA UpdateRowStep ==
  ASSUME IInv, History, NEW p \in Procs, UpdateRow(p)
  PROVE  IInv'
<1> DEFINE a == req[p].asset
<1>1. At(p, "update") /\ UNCHANGED <<acl, last, oversees, caches, published>>
  BY DEF UpdateRow
<1>2. /\ req[p].pc \in Cleared \ {"insert"} /\ a \in AssetIds /\ Stores /\ TreeWellFormed
      /\ last \in Nat
  BY <1>1, Writing DEF At, Cleared, IInv, TypeOK
<1>3. CASE ~Live(a)
  <2>1. Finish(p, "fail") /\ UNCHANGED tables
    BY <1>1, <1>3 DEF UpdateRow, tables
  <2>2. Stores'
    BY <1>1, <1>2, <2>1 DEF Stores, tables, caches
  <2> QED
    BY <2>1, <2>2, Ends
<1>4. CASE Live(a)
  <2>1. PICK t \in Titles : assets' = [assets EXCEPT ![a].title = t]
    BY <1>4 DEF UpdateRow
  <2>2. Committed(p, a, UpdateEvicts(a))
    BY <1>4 DEF UpdateRow
  <2>3. UpdateEvicts(a) \in SUBSET Keys
    BY <1>2 DEF UpdateEvicts, Keys
  <2> DEFINE new == [assets[a] EXCEPT !.title = t]
  <2>4. assets[a] \in Row
    BY <1>2, <1>4 DEF Stores, Live
  <2>5. new \in Row /\ new.type = assets[a].type /\ new.parent = assets[a].parent
    BY <2>4 DEF Row
  <2>6. new # NoRow
    BY AssetsAssumption, <2>5 DEF AssetsAssumption, Row, NoRow
  <2>7. assets' = [assets EXCEPT ![a] = new]
    BY <2>1
  <2> HIDE DEF new
  <2>8. Stores'
    <3>1. assets' \in [AssetIds -> Row \cup {NoRow}]
      BY <1>2, <2>5, <2>7 DEF Stores
    <3> QED
      BY <1>1, <1>2, <3>1 DEF Stores, caches
  <2>9. \A b \in AssetIds : /\ assets'[b] # NoRow <=> assets[b] # NoRow
                            /\ assets'[b].type = assets[b].type
                            /\ assets'[b].parent = assets[b].parent
    BY <1>2, <1>4, <2>5, <2>6, <2>7 DEF Stores, Live
  <2>10. \A b \in AssetIds : assets[b] \in Row \cup {NoRow}
    BY <1>2 DEF Stores
  <2>11. RowsStand
    <3>1. 1..last \subseteq AssetIds
      BY AssetsAssumption, <1>2 DEF AssetsAssumption, Stores, AssetIds
    <3> QED
      BY <2>9, <3>1 DEF RowsStand
  <2>12. TreeWellFormed'
    BY <1>1, <1>2, <2>9 DEF TreeWellFormed, Existing, Live
  <2> QED
    BY <1>1, <1>2, <2>2, <2>3, <2>8, <2>11, <2>12, Commits
<1> QED
  BY <1>3, <1>4

\* A cascade takes whatever hangs below what it takes.
LEMMA CascadeCloses ==
  ASSUME NEW a \in AssetIds
  PROVE  /\ a \in Subtree(a)
         /\ \A b \in Existing : Parent[b] \in Subtree(a) => b \in Subtree(a)
  BY DEF Subtree, Existing

\* The cascade takes whole subtrees, and their access entries with them.
LEMMA DeleteRowStep ==
  ASSUME IInv, History, NEW p \in Procs, DeleteRow(p)
  PROVE  IInv'
<1> DEFINE a == req[p].asset
           gone == Subtree(a)
           keys == req[p].evict \cup KeysOf({a})
<1>1. /\ At(p, "delete") /\ UNCHANGED <<last, oversees, caches, published>>
      /\ assets' = [b \in AssetIds |-> IF b \in gone THEN NoRow ELSE assets[b]]
      /\ acl' = [b \in AssetIds |-> IF b \in gone THEN NoAcl ELSE acl[b]]
      /\ Committed(p, a, keys)
  BY DEF DeleteRow
<1>2. /\ req[p].pc \in Cleared \ {"insert"} /\ a \in AssetIds /\ Stores /\ TreeWellFormed
      /\ last \in Nat /\ req[p] \in Request
  BY <1>1, Writing DEF At, Cleared, IInv, TypeOK
<1>3. keys \in SUBSET Keys
  BY <1>2 DEF KeysOf, Keys, Request
<1>4. \A b \in Existing : Parent[b] \in gone => b \in gone
  BY <1>2, CascadeCloses
<1>5. NoAcl \in Acl
  BY DEF NoAcl, Acl, Levels
<1> HIDE DEF gone, keys
<1>6. Stores'
  <2>1. assets' \in [AssetIds -> Row \cup {NoRow}] /\ acl' \in [AssetIds -> Acl]
    BY <1>1, <1>2, <1>5 DEF Stores
  <2> QED
    BY <1>1, <1>2, <2>1 DEF Stores, caches
<1>7. RowsStand
  <2>1. 1..last \subseteq AssetIds
    BY AssetsAssumption, <1>2 DEF AssetsAssumption, Stores, AssetIds
  <2> QED
    BY <1>1, <2>1 DEF RowsStand
<1>8. TreeWellFormed'
  <2>1. ASSUME NEW b \in AssetIds, assets'[b] # NoRow
        PROVE  /\ b \in 1..last'
               /\ assets'[b].parent # NoAsset =>
                    Live(assets[b].parent)' /\ assets'[assets'[b].parent].type = "folder"
               /\ assets'[b].type = "note" => assets'[b].parent # NoAsset
    <3>1. b \notin gone /\ assets'[b] = assets[b] /\ b \in Existing
      BY <1>1, <2>1 DEF Existing
    <3>2. /\ b \in 1..last
          /\ assets[b].parent # NoAsset =>
               Live(assets[b].parent) /\ assets[assets[b].parent].type = "folder"
          /\ assets[b].type = "note" => assets[b].parent # NoAsset
      BY <1>2, <3>1 DEF TreeWellFormed
    <3>3. Parent[b] = assets[b].parent
      BY AssetsAssumption, <2>1 DEF AssetsAssumption, Parent, AssetIds, NoAsset
    <3>4. assets[b].parent \notin gone
      BY <1>4, <3>1, <3>3
    <3>5. assets[b].parent # NoAsset => assets'[assets[b].parent] = assets[assets[b].parent]
      BY <1>1, <3>2, <3>4 DEF Live
    <3> QED
      BY <1>1, <3>1, <3>2, <3>5 DEF Live
  <2>2. ASSUME NEW b \in AssetIds, ~Live(b)' PROVE acl'[b] = NoAcl
    BY <1>1, <1>2, <2>2 DEF TreeWellFormed, Live
  <2> QED
    BY <2>1, <2>2 DEF TreeWellFormed, Existing, Live
<1> QED
  BY <1>1, <1>2, <1>3, <1>6, <1>7, <1>8, Commits

\* A share reaches assets that exist.
LEMMA ReachesExisting ==
  ASSUME NEW p
  PROVE  Reach(p) \subseteq Existing
  BY FindsExisting DEF Reach, GetDescendantIDs

\* A change of one user's entries that gives none to an asset that is gone.
LEMMA WriteAclKeeps ==
  ASSUME IInv, NEW S, NEW u \in Users, NEW level \in Levels, WriteAcl(S, u, level),
         UNCHANGED <<assets, last, oversees, caches, published>>,
         S \subseteq Existing \/ level = "none"
  PROVE  Stores' /\ RowsStand /\ TreeWellFormed'
<1>1. /\ acl' = [a \in AssetIds |-> IF a \in S THEN [acl[a] EXCEPT ![u] = level] ELSE acl[a]]
      /\ assets' = assets /\ last' = last /\ Stores /\ TreeWellFormed
  BY DEF WriteAcl, IInv, TypeOK, Stores
<1>2. acl' \in [AssetIds -> Acl]
  BY <1>1 DEF Stores, Acl
<1>3. Stores'
  BY <1>1, <1>2 DEF Stores, caches
<1>4. ASSUME NEW a \in AssetIds, ~Live(a) PROVE acl'[a] = NoAcl
  <2>1. acl[a] = NoAcl /\ (a \in S => level = "none")
    BY <1>1, <1>4 DEF TreeWellFormed, Existing, Live
  <2> QED
    BY <1>1, <2>1 DEF NoAcl
<1>5. TreeWellFormed'
  BY <1>1, <1>4 DEF TreeWellFormed, Existing, Live
<1> QED
  BY <1>1, <1>3, <1>5 DEF RowsStand

LEMMA ShareTxStep ==
  ASSUME IInv, History, NEW p \in Procs, ShareTx(p)
  PROVE  IInv'
<1> DEFINE a == req[p].asset
<1>1. At(p, "share") /\ UNCHANGED <<assets, last, oversees, caches, published>>
  BY DEF ShareTx
<1>2. /\ req[p].pc \in Cleared \ {"insert"} /\ a \in AssetIds /\ Stores /\ InFlight(p)
      /\ req[p].op \in OpsAt("share")
  BY <1>1, Writing DEF At, Cleared
<1>3. req[p].target \in Users /\ req[p].arg \in Levels
  BY <1>1, <1>2 DEF IInv, RequestsKnow, Knows, OpsAt, Cleared
<1>4. CASE ~Live(a)
  <2>1. Finish(p, "fail") /\ UNCHANGED tables
    BY <1>1, <1>4 DEF ShareTx, tables
  <2>2. Stores'
    BY <1>1, <1>2, <2>1 DEF Stores, tables, caches
  <2> QED
    BY <2>1, <2>2, Ends
<1>5. CASE Live(a)
  <2>1. WriteAcl({a} \cup Reach(p), req[p].target, req[p].arg) /\ Committed(p, a, ShareEvicts(p))
    BY <1>5 DEF ShareTx
  <2>2. {a} \cup Reach(p) \subseteq Existing
    BY <1>5, ReachesExisting DEF Live, Existing
  <2>3. ShareEvicts(p) \in SUBSET Keys
    BY <2>2 DEF ShareEvicts, Keys, Existing
  <2>4. Stores' /\ RowsStand /\ TreeWellFormed'
    BY <1>1, <1>3, <2>1, <2>2, WriteAclKeeps
  <2> QED
    BY <1>1, <1>2, <2>1, <2>3, <2>4, Commits
<1> QED
  BY <1>4, <1>5

LEMMA RevokeTxStep ==
  ASSUME IInv, History, NEW p \in Procs, RevokeTx(p)
  PROVE  IInv'
<1> DEFINE a == req[p].asset
<1>1. /\ At(p, "revoke") /\ UNCHANGED <<assets, last, oversees, caches, published>>
      /\ WriteAcl({a} \cup Reach(p), req[p].target, "none") /\ Committed(p, a, RevokeEvicts(p))
  BY DEF RevokeTx
<1>2. /\ req[p].pc \in Cleared \ {"insert"} /\ a \in AssetIds /\ InFlight(p)
      /\ req[p].op \in OpsAt("revoke")
  BY <1>1, Writing DEF At, Cleared
<1>3. req[p].target \in Users /\ "none" \in Levels
  BY <1>1, <1>2 DEF IInv, RequestsKnow, Knows, OpsAt, Cleared, Levels
<1>4. RevokeEvicts(p) \in SUBSET Keys
  BY <1>2, ReachesExisting DEF RevokeEvicts, Keys, Existing
<1>5. Stores' /\ RowsStand /\ TreeWellFormed'
  BY <1>1, <1>3, WriteAclKeeps
<1> QED
  BY <1>1, <1>2, <1>4, <1>5, Commits

\* A creation uses up one of the ids left for it.
LEMMA IdUsed ==
  ASSUME IInv, NEW p \in Procs, Makes(p), OnlyMoves(p), ~Makes(p)'
  PROVE  /\ last + 1 \in AssetIds /\ last + 1 <= MaxAssets
         /\ last' = last + 1 => IdsLeft'
<1>1. IsFiniteSet(Makers) /\ p \in Makers
  BY AssetsAssumption, FS_Subset DEF AssetsAssumption, Makers
<1>2. /\ Cardinality(Makers \ {p}) = Cardinality(Makers) - 1 /\ IsFiniteSet(Makers \ {p})
      /\ Cardinality(Makers) \in Nat /\ Cardinality(Makers \ {p}) \in Nat
  BY <1>1, FS_RemoveElement, FS_CardinalityType
<1>3. Makers' \subseteq Makers \ {p}
  BY MakersOthers DEF Makers
<1>4. Cardinality(Makers') <= Cardinality(Makers \ {p}) /\ Cardinality(Makers') \in Nat
  BY <1>2, <1>3, FS_Subset, FS_CardinalityType
<1>5. last \in Nat /\ MaxAssets \in Nat /\ last + Cardinality(Makers) <= MaxAssets
  BY AssetsAssumption DEF IInv, IdsLeft, TypeOK, AssetsAssumption
<1>6. last + 1 <= MaxAssets
  BY <1>2, <1>5
<1> QED
  BY <1>2, <1>4, <1>5, <1>6 DEF IdsLeft, AssetIds

\* The creation takes an id nobody has had, under a parent that is still a folder.
LEMMA InsertAssetStep ==
  ASSUME IInv, History, NEW p \in Procs, InsertAsset(p)
  PROVE  IInv'
<1> DEFINE a == req[p].asset
           new == last + 1
<1>1. At(p, "insert") /\ UNCHANGED <<acl, oversees, caches, published>>
  BY DEF InsertAsset
<1>2. /\ req[p].pc = "insert" /\ Stores /\ InFlight(p) /\ req[p] \in Request /\ TreeWellFormed
      /\ req[p].op = "create" /\ last \in Nat /\ Knows(p)
  BY <1>1, Writing DEF At, Cleared, OpsAt, IInv, TypeOK, RequestsKnow
<1>3. /\ a \in 0..last /\ req[p].user \in Users /\ req[p].arg \in Types
      /\ req[p].arg = "note" => a # NoAsset
      /\ Live(a) => assets[a].type = "folder"
  BY <1>2 DEF Knows
<1>4. CASE Finish(p, "fail") /\ UNCHANGED <<assets, last>>
  <2>1. Finish(p, "fail") /\ UNCHANGED tables
    BY <1>1, <1>4 DEF tables
  <2>2. Stores'
    BY <1>1, <1>2, <2>1 DEF Stores, tables, caches
  <2> QED
    BY <2>1, <2>2, Ends
<1>5. CASE /\ ParentHolds(a)
           /\ \E t \in Titles :
                assets' = [assets EXCEPT ![new] =
                  [owner |-> req[p].user, parent |-> a, type |-> req[p].arg, title |-> t]]
           /\ last' = new
           /\ Committed(p, new, {})
  <2>1. PICK t \in Titles : assets' = [assets EXCEPT ![new] =
                 [owner |-> req[p].user, parent |-> a, type |-> req[p].arg, title |-> t]]
    BY <1>5
  <2>2. last' = new /\ Committed(p, new, {})
    BY <1>5
  <2> DEFINE row == [owner |-> req[p].user, parent |-> a, type |-> req[p].arg, title |-> t]
  <2>3. Makes(p)
    BY <1>2 DEF Makes
  <2>4. /\ OnlyMoves(p) /\ ~Makes(p)' /\ new \in AssetIds
        /\ InFlight(p)' =>
             /\ req'[p].pc \in {"publish", "evict"} /\ req'[p].op \in OpsAt(req'[p].pc)
             /\ req'[p].asset = new /\ req'[p].op = req[p].op /\ req'[p].user = req[p].user
             /\ req'[p].target = req[p].target /\ req'[p].arg = req[p].arg
    <3>1. new \in AssetIds
      <4>1. p \in Makers /\ IsFiniteSet(Makers)
        BY AssetsAssumption, <2>3, FS_Subset DEF AssetsAssumption, Makers
      <4>2. Cardinality(Makers) \in Nat /\ Cardinality(Makers) # 0
        BY <4>1, FS_CardinalityType, FS_EmptySet
      <4> QED
        BY AssetsAssumption, <1>2, <4>2 DEF IInv, IdsLeft, AssetsAssumption, AssetIds
    <3>2. req[p].op \in AllOps \ {"get"} /\ {} \in SUBSET Keys
      BY <1>2 DEF AllOps
    <3> QED
      BY <1>2, <2>2, <3>1, <3>2, CommittedStep
  <2>5. IdsLeft' /\ new <= MaxAssets
    BY <2>2, <2>3, <2>4, IdUsed
  <2>6. row \in Row /\ row # NoRow
    <3>1. a \in AssetIds \cup {NoAsset}
      BY <1>2, <1>3, <2>5, AssetsAssumption DEF AssetsAssumption, AssetIds, NoAsset
    <3> QED
      BY AssetsAssumption, <1>3, <3>1 DEF AssetsAssumption, Row, NoRow
  <2>7. row.parent = a /\ row.type = req[p].arg
    OBVIOUS
  <2>8. assets' = [assets EXCEPT ![new] = row]
    BY <2>1
  <2> HIDE DEF row
  <2>9. assets[new] = NoRow
    BY <1>2, <2>4 DEF TreeWellFormed, Existing
  <2>10. \A b \in AssetIds : assets'[b] = IF b = new THEN row ELSE assets[b]
    BY <1>2, <2>4, <2>8 DEF Stores
  <2>11. Stores'
    <3>1. assets' \in [AssetIds -> Row \cup {NoRow}]
      BY <1>2, <2>4, <2>6, <2>8 DEF Stores
    <3>2. last' \in 0..MaxAssets
      BY AssetsAssumption, <1>2, <2>2, <2>5 DEF AssetsAssumption
    <3> QED
      BY <1>1, <1>2, <3>1, <3>2 DEF Stores, caches
  <2>12. RowsStand
    <3>1. \A b \in 1..last : b \in AssetIds /\ b # new
      BY AssetsAssumption, <1>2, <2>5 DEF AssetsAssumption, AssetIds
    <3> QED
      BY <2>10, <3>1 DEF RowsStand
  <2>13. TreeWellFormed'
    <3>1. ASSUME NEW b \in AssetIds, assets'[b] # NoRow
          PROVE  /\ b \in 1..last'
                 /\ assets'[b].parent # NoAsset =>
                      Live(assets[b].parent)' /\ assets'[assets'[b].parent].type = "folder"
                 /\ assets'[b].type = "note" => assets'[b].parent # NoAsset
      <4>1. CASE b = new
        <5>1. assets'[b] = row /\ b \in 1..last'
          BY <1>2, <2>2, <2>10, <4>1
        <5>2. a # NoAsset => Live(a) /\ a # new /\ a \in AssetIds
          BY <1>2, <1>3, <1>5 DEF ParentHolds, Live
        <5>3. a # NoAsset => a \in AssetIds /\ assets'[a] # NoRow /\ assets'[a].type = "folder"
          BY <1>3, <2>10, <5>2 DEF Live
        <5> QED
          BY <1>3, <2>7, <5>1, <5>3 DEF Live
      <4>2. CASE b # new
        <5>1. assets'[b] = assets[b] /\ b \in Existing
          BY <2>10, <3>1, <4>2 DEF Existing
        <5>2. /\ b \in 1..last
              /\ assets[b].parent # NoAsset =>
                   Live(assets[b].parent) /\ assets[assets[b].parent].type = "folder"
              /\ assets[b].type = "note" => assets[b].parent # NoAsset
          BY <1>2, <5>1 DEF TreeWellFormed
        <5>3. assets[b].parent # NoAsset => assets'[assets[b].parent] = assets[assets[b].parent]
          BY <2>9, <2>10, <5>2 DEF Live
        <5> QED
          BY <1>2, <2>2, <5>1, <5>2, <5>3 DEF Live
      <4> QED
        BY <4>1, <4>2
    <3>2. ASSUME NEW b \in AssetIds, ~Live(b)' PROVE acl'[b] = NoAcl
      BY <1>1, <1>2, <2>6, <2>10, <3>2 DEF TreeWellFormed, Live
    <3> QED
      BY <3>1, <3>2 DEF TreeWellFormed, Existing, Live
  <2>14. Knows(p)'
    <3>1. new \in 0..last' /\ new # NoAsset
      BY <1>2, <2>2 DEF NoAsset
    <3> QED
      BY <1>2, <1>3, <2>4, <3>1 DEF Knows, Cleared
  <2> QED
    BY <1>2, <2>2, <2>4, <2>5, <2>11, <2>12, <2>13, <2>14, OneMoves
<1> QED
  BY <1>4, <1>5 DEF InsertAsset

\* A client sends a request; a creation only while an id is left for it.
LEMMA BeginStep ==
  ASSUME IInv, History, NEW p \in Procs, Begin(p)
  PROVE  IInv'
<1>1. ~InFlight(p) /\ UNCHANGED <<tables, caches, published>> /\ UNCHANGED tables
  BY DEF Begin
<1>2. PICK i \in Inputs :
        /\ Valid(p, i)
        /\ req' = [req EXCEPT ![p] =
                    [Idle EXCEPT !.pc = FirstPc(i), !.op = i.op, !.user = i.user,
                                 !.asset = i.asset, !.target = i.target, !.arg = i.arg]]
  BY DEF Begin
<1> DEFINE r == [Idle EXCEPT !.pc = FirstPc(i), !.op = i.op, !.user = i.user,
                             !.asset = i.asset, !.target = i.target, !.arg = i.arg]
<1>3. Stores' /\ req \in [Procs -> Request] /\ last \in 0..MaxAssets /\ MaxAssets \in Nat
  BY <1>1, AssetsAssumption, CachesStand DEF IInv, RequestsKnow, TypeOK, AssetsAssumption
<1>4. /\ i.op \in AllOps /\ i.user \in Users /\ i.asset \in 0..last
      /\ i.op # "create" => i.asset # NoAsset
      /\ i.target \in Users \cup {NoUser} /\ i.arg \in Levels \cup Types
      /\ i.op \in {"share", "revoke"} => i.target \in Users
      /\ i.op = "share" => i.arg \in Levels
      /\ i.op = "create" => i.arg \in Types
  BY <1>3, AssetsAssumption DEF Inputs, AllOps, Levels, NoAsset, AssetsAssumption
<1>5. i.op = "create" => /\ i.arg = "note" => i.asset # NoAsset
                         /\ last + Cardinality({q \in Procs : InFlight(q) /\ req[q].op = "create"}) < MaxAssets
  BY <1>2 DEF Valid
<1>6. /\ FirstPc(i) \in {"getCached", "insert", "load"}
      /\ i.op = "get" <=> FirstPc(i) = "getCached"
      /\ FirstPc(i) = "insert" => i.op = "create" /\ i.asset = NoAsset
      /\ FirstPc(i) # "insert" => i.asset # NoAsset
  BY <1>4 DEF FirstPc
<1>7. /\ r \in Request /\ r.pc = FirstPc(i) /\ r.op = i.op /\ r.user = i.user
      /\ r.asset = i.asset /\ r.target = i.target /\ r.arg = i.arg
  <2>1. FirstPc(i) \in Pcs /\ i.asset \in AssetIds \cup {NoAsset}
    BY <1>3, <1>4, <1>6 DEF Pcs, Cleared, AssetIds, NoAsset
  <2> QED
    BY <1>4, <2>1 DEF Idle, Request
<1>8. req' = [req EXCEPT ![p] = r]
  BY <1>2
<1> HIDE DEF r
<1>9. OnlyMoves(p) /\ req'[p] = r
  BY <1>3, <1>7, <1>8 DEF OnlyMoves
<1>10. InFlight(p)'
  BY <1>6, <1>7, <1>9 DEF InFlight
<1>11. req'[p].pc = "insert" => p \in may'
  <2>1. req'[p].pc = "insert" => Entitled(p)'
    BY <1>6, <1>7, <1>9, <1>10 DEF Entitled
  <2> QED
    BY <2>1, HistoryKeeps
<1>12. req'[p].op \in OpsAt(req'[p].pc)
  BY <1>4, <1>6, <1>7, <1>9 DEF OpsAt, Cleared
<1>13. Knows(p)'
  <2>1. req'[p].pc \in {"getCached", "insert", "load"} /\ last' = last /\ assets' = assets
    BY <1>1, <1>6, <1>7, <1>9 DEF tables
  <2>2. req'[p].pc = "insert" => req'[p].asset = NoAsset
    BY <1>6, <1>7, <1>9
  <2>3. ~Live(NoAsset)'
    BY DEF Live, AssetIds, NoAsset
  <2>4. req'[p].pc \in Cleared => p \in may'
    BY <1>11, <2>1 DEF Cleared
  <2>5. req'[p].pc \in {"check", "insert"} => ~Live(req[p].asset)'
    BY <2>1, <2>2, <2>3
  <2> QED
    BY <1>4, <1>5, <1>6, <1>7, <1>9, <1>12, <2>1, <2>4, <2>5 DEF Knows
<1>14. IdsLeft'
  <2>1. CASE i.op # "create"
    <3>1. ~Makes(p)' /\ last' = last
      BY <1>1, <1>7, <1>9, <2>1 DEF Makes, tables
    <3> QED
      BY <1>9, <3>1, MakersOthers, MakersShrink
  <2>2. CASE i.op = "create"
    <3> DEFINE busy == {q \in Procs : InFlight(q) /\ req[q].op = "create"}
    <3>1. IsFiniteSet(busy)
      BY AssetsAssumption, FS_Subset DEF AssetsAssumption
    <3>2. Makers' \subseteq busy \cup {p}
      BY <1>9 DEF Makers, Makes, OnlyMoves, InFlight
    <3>3. p \notin busy
      BY <1>1
    <3>4. last' = last /\ last + Cardinality(busy) < MaxAssets
      BY <1>1, <1>5, <2>2 DEF tables
    <3> HIDE DEF busy
    <3>5. /\ Cardinality(busy \cup {p}) = Cardinality(busy) + 1 /\ Cardinality(busy) \in Nat
          /\ IsFiniteSet(busy \cup {p})
      BY <3>1, <3>3, FS_AddElement, FS_CardinalityType
    <3>6. Cardinality(Makers') <= Cardinality(busy \cup {p}) /\ Cardinality(Makers') \in Nat
      BY <3>2, <3>5, FS_Subset, FS_CardinalityType
    <3> QED
      BY <1>3, <3>4, <3>5, <3>6 DEF IdsLeft
  <2> QED
    BY <2>1, <2>2
<1> QED
  BY <1>1, <1>3, <1>9, <1>13, <1>14, TablesStand, OneMoves

-----------------------------------------------------------------------------
(* The invariant holds. *)

\* The invariant holds at first.
LEMMA InitIInv ==
  ASSUME Init
  PROVE  IInv
<1>1. Len(InitRows) \in Nat /\ MaxAssets \in Nat /\ Len(InitRows) <= MaxAssets
      /\ DOMAIN InitRows = 1..Len(InitRows) /\ \A i \in DOMAIN InitRows : InitRows[i] \in Row
  BY AssetsAssumption DEF AssetsAssumption
<1>2. NoRow \notin Row
  BY AssetsAssumption DEF AssetsAssumption, Row, NoRow
<1>3. Idle \in Request
  BY DEF Idle, Request, Pcs, Levels, NoAsset
<1>4. TypeOK
  <2>1. assets \in [AssetIds -> Row \cup {NoRow}]
    BY <1>1 DEF Init
  <2>2. acl \in [AssetIds -> Acl]
    BY DEF Init, NoAcl, Acl, Levels
  <2>3. last \in 0..MaxAssets
    BY <1>1 DEF Init
  <2>4. \A p \in Procs : req[p].row \in Row \cup {NoRow} /\ req[p].list \in Acl \cup {NoList}
                         /\ req[p].evict \subseteq Keys
    BY <1>3, RequestTyped DEF Init
  <2> QED
    BY <2>1, <2>2, <2>3, <2>4 DEF Init, TypeOK
<1>5. RequestsKnow
  BY <1>3 DEF Init, RequestsKnow, Knows, InFlight, Idle
<1>6. TreeWellFormed
  <2>1. ASSUME NEW a \in Existing
        PROVE  /\ a \in 1..last
               /\ assets[a].parent # NoAsset =>
                    Live(assets[a].parent) /\ assets[assets[a].parent].type = "folder"
               /\ assets[a].type = "note" => assets[a].parent # NoAsset
    <3>1. a \in DOMAIN InitRows /\ assets[a] = InitRows[a] /\ a \in 1..last
      BY <1>1 DEF Init, Existing
    <3> DEFINE parent == InitRows[a].parent
    <3>2. CASE parent = NoAsset
      <4>1. InitRows[a].type = "folder"
        BY AssetsAssumption, <3>1, <3>2 DEF AssetsAssumption
      <4> QED
        BY <3>1, <3>2, <4>1
    <3>3. CASE parent # NoAsset
      <4>1. parent \in DOMAIN InitRows /\ InitRows[parent].type = "folder"
        BY AssetsAssumption, <3>1, <3>3 DEF AssetsAssumption
      <4>2. parent \in AssetIds
        BY <1>1, <4>1 DEF AssetIds
      <4>3. assets[parent] = InitRows[parent]
        BY <4>1, <4>2 DEF Init
      <4> QED
        BY <1>1, <1>2, <3>1, <3>3, <4>1, <4>2, <4>3 DEF Live
    <3> QED
      BY <3>2, <3>3
  <2> QED
    BY <2>1 DEF TreeWellFormed, Init
<1>7. IdsLeft
  <2>1. Makers = {}
    BY DEF Init, Makers, Makes, Idle
  <2> QED
    BY <1>1, <2>1, FS_EmptySet DEF Init, IdsLeft
<1> QED
  BY <1>4, <1>5, <1>6, <1>7 DEF IInv

\* Every step of a handler keeps it.
LEMMA ServeStep ==
  ASSUME IInv, History, NEW p \in Procs, Serve(p)
  PROVE  IInv'
  BY GetCachedStep, GetDbStep, GetFillStep, GetAclCachedStep, GetAclDbStep, GetAclFillStep,
     GetManagerStep, LoadForWriteStep, LoadOwnedStep, CheckAclStep, InsertAssetStep,
     UpdateRowStep, DeleteFindStep, DeleteRowStep, ShareTargetStep, ShareTxStep, RevokeTxStep,
     PublishStep, EvictStep DEF Serve

\* And so does every step.
LEMMA NextIInv ==
  ASSUME IInv, [Next]_vars
  PROVE  IInv'
<1>1. CASE Next
  <2>1. History
    BY <1>1 DEF Next
  <2>2. ASSUME NEW p \in Procs, Begin(p) \/ Serve(p) \/ Abort(p) PROVE IInv'
    BY <2>1, <2>2, BeginStep, ServeStep, AbortStep
  <2>3. ASSUME NEW key \in Keys, Expire(key) PROVE IInv'
    BY <2>1, <2>3, ExpireStep
  <2>4. ASSUME TeamChange PROVE IInv'
    BY <2>1, <2>4, TeamChangeStep
  <2> QED
    BY <1>1, <2>2, <2>3, <2>4 DEF Next
<1>2. CASE UNCHANGED vars
  <2>1. UNCHANGED <<assets, acl, last, oversees, rowCache, aclCache, late, published, req, may, missed>>
    BY <1>2 DEF vars, tables, caches
  <2>2. TypeOK' /\ TreeWellFormed' /\ IdsLeft'
    BY <2>1 DEF IInv, TypeOK, TreeWellFormed, Existing, Live, IdsLeft, Makers, Makes
  <2>3. RequestsKnow'
    BY <2>1 DEF IInv, RequestsKnow, Knows, InFlight, Live
  <2> QED
    BY <2>2, <2>3 DEF IInv
<1> QED
  BY <1>1, <1>2

\* What the requests know of the tables, and the ids left to them, holds at every
\* moment, whatever fails and however the requests interleave.
THEOREM Invariance == Spec => []IInv
<1>1. Init => IInv
  BY InitIInv
<1>2. IInv /\ [Next]_vars => IInv'
  BY NextIInv
<1> QED
  BY <1>1, <1>2, PTL DEF Spec

\* Types, for any instance.
THEOREM Typed == Spec => []TypeOK
<1>1. IInv => TypeOK
  BY DEF IInv
<1> QED
  BY <1>1, Invariance, PTL

\* Every asset hangs under a live folder, no access entry outlives its asset, and
\* no id comes back, for any number of requests and any depth of the tree.
THEOREM TreeStands == Spec => []TreeWellFormed
<1>1. IInv => TreeWellFormed
  BY DEF IInv
<1> QED
  BY <1>1, Invariance, PTL

-----------------------------------------------------------------------------
(* Every write is one its caller was entitled to. *)

\* A commit moves no other request.
LEMMA OnlyCommits ==
  ASSUME IInv, NEW p \in Procs, NEW q \in Procs, q # p,
         NEW a, NEW keys, Committed(p, a, keys) \/ Finish(p, "fail")
  PROVE  req'[q] = req[q]
<1>1. req \in [Procs -> Request]
  BY DEF IInv, RequestsKnow
<1>2. \E r : req' = [req EXCEPT ![p] = r]
  BY DEF Committed, Finish
<1> QED
  BY <1>1, <1>2

\* A request past its check was entitled at some moment.
LEMMA ClearedMay ==
  ASSUME IInv, NEW p \in Procs, req[p].pc \in Cleared
  PROVE  p \in may
  BY DEF IInv, RequestsKnow, Knows, InFlight, Cleared

\* The tables change in a transaction, and only one request takes it.
LEMMA WritersCleared ==
  ASSUME IInv, NEW p \in Procs, Begin(p) \/ Serve(p) \/ Abort(p),
         <<assets, acl>> # <<assets, acl>>'
  PROVE  p \in may /\ \A q \in Procs \ {p} : req'[q] = req[q]
<1>1. InsertAsset(p) \/ UpdateRow(p) \/ DeleteRow(p) \/ ShareTx(p) \/ RevokeTx(p)
  BY DEF Begin, Abort, Serve, tables, GetCached, GetDb, GetFill, GetAclCached, GetAclDb,
         GetAclFill, GetManager, LoadForWrite, LoadOwned, CheckAcl, DeleteFind, ShareTarget,
         Publish, Evict
<1>2. req[p].pc \in Cleared
  BY <1>1 DEF InsertAsset, UpdateRow, DeleteRow, ShareTx, RevokeTx, At, Cleared
<1>3. Finish(p, "fail") \/ \E a, keys : Committed(p, a, keys)
  BY <1>1 DEF InsertAsset, UpdateRow, DeleteRow, ShareTx, RevokeTx
<1> QED
  BY <1>2, <1>3, ClearedMay, OnlyCommits

\* No request changes a table unless its caller was entitled to that change at
\* some moment since the request began.
THEOREM WritesAuthorised == Spec => WriteAuthorised
<1> DEFINE W == \A p \in Procs :
                  (req[p] # req'[p] /\ <<assets, acl>> # <<assets, acl>>') => p \in may
<1>1. ASSUME IInv, [Next]_vars PROVE [W]_vars
  <2>1. SUFFICES ASSUME Next, NEW p \in Procs, req[p] # req'[p],
                        <<assets, acl>> # <<assets, acl>>'
                 PROVE  p \in may
    BY <1>1
  <2>2. PICK q \in Procs : Begin(q) \/ Serve(q) \/ Abort(q)
    BY <2>1 DEF Next, Expire, TeamChange, tables
  <2>3. q \in may /\ \A r \in Procs \ {q} : req'[r] = req[r]
    BY <1>1, <2>1, <2>2, WritersCleared
  <2> QED
    BY <2>1, <2>3
<1> QED
  BY <1>1, Invariance, PTL DEF Spec, WriteAuthorised
=============================================================================
