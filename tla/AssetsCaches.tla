---------------------------- MODULE AssetsCaches ----------------------------
(***************************************************************************)
(* What the caches of Assets promise for any users, assets and requests,   *)
(* when no call fails.                                                     *)
(***************************************************************************)
EXTENDS AssetsProofs, WellFoundedInduction

-----------------------------------------------------------------------------
(* How the requests move. *)

\* A step ends the request or keeps the keys it holds, unless it commits, finds
\* the keys of a deletion or evicts one.
LEMMA KeysMove ==
  ASSUME IInv, NEW p \in Procs, Begin(p) \/ Serve(p) \/ Abort(p),
         ~(InsertAsset(p) \/ UpdateRow(p) \/ DeleteFind(p) \/ DeleteRow(p) \/ ShareTx(p)
             \/ RevokeTx(p) \/ Evict(p))
  PROVE  /\ \A q \in Procs \ {p} : req'[q] = req[q]
         /\ \/ req'[p].evict = {} /\ req'[p].pc # "delete"
            \/ req'[p].evict = req[p].evict
<1>1. req \in [Procs -> Request] /\ req[p] \in Request /\ Knows(p)
  BY DEF IInv, RequestsKnow
<1>2. ASSUME NEW outcome, Finish(p, outcome), outcome \in {"ok", "forbidden", "fail"}
      PROVE  /\ \A q \in Procs \ {p} : req'[q] = req[q]
             /\ req'[p].evict = {} /\ req'[p].pc # "delete"
  BY <1>1, <1>2 DEF Finish, Idle
<1>3. ASSUME NEW pc, Goto(p, pc)
      PROVE  /\ \A q \in Procs \ {p} : req'[q] = req[q]
             /\ req'[p].evict = req[p].evict
  BY <1>1, <1>3 DEF Goto, Request
<1>4. ASSUME NEW pc, NEW STATE row, req' = [req EXCEPT ![p].pc = pc, ![p].row = row]
      PROVE  /\ \A q \in Procs \ {p} : req'[q] = req[q]
             /\ req'[p].evict = req[p].evict
  BY <1>1, <1>4 DEF Request
<1>5. ASSUME NEW pc, NEW STATE list, req' = [req EXCEPT ![p].pc = pc, ![p].list = list]
      PROVE  /\ \A q \in Procs \ {p} : req'[q] = req[q]
             /\ req'[p].evict = req[p].evict
  BY <1>1, <1>5 DEF Request
<1>6. CASE Begin(p)
  <2>1. \E i \in Inputs :
          req' = [req EXCEPT ![p] =
                    [Idle EXCEPT !.pc = FirstPc(i), !.op = i.op, !.user = i.user,
                                 !.asset = i.asset, !.target = i.target, !.arg = i.arg]]
    BY <1>6 DEF Begin
  <2> QED
    BY <1>1, <2>1 DEF Idle, FirstPc
<1>7. CASE GetCached(p) \/ GetDb(p) \/ GetFill(p) \/ GetAclCached(p) \/ GetAclDb(p) \/ GetAclFill(p)
           \/ GetManager(p)
  BY <1>2, <1>3, <1>4, <1>5, <1>7
     DEF GetCached, GetDb, GetFill, GetAclCached, GetAclDb, GetAclFill, GetManager, WithRow, WithList
<1>8. CASE LoadForWrite(p)
  <2> DEFINE row == assets[req[p].asset]
  <2>1. \/ Finish(p, "fail")
        \/ \E pc : req' = [req EXCEPT ![p].pc = pc, ![p].row = row]
    BY <1>8 DEF LoadForWrite
  <2> QED
    BY <1>2, <1>4, <2>1
<1>9. CASE LoadOwned(p)
  <2> DEFINE row == assets[req[p].asset]
  <2>1. \/ Finish(p, "fail") \/ Finish(p, "forbidden")
        \/ \E pc : req' = [req EXCEPT ![p].pc = pc, ![p].row = row]
    BY <1>9 DEF LoadOwned
  <2> QED
    BY <1>2, <1>4, <2>1
<1>10. CASE CheckAcl(p) \/ ShareTarget(p) \/ Publish(p) \/ Abort(p)
  BY <1>2, <1>3, <1>10 DEF CheckAcl, ShareTarget, Publish, Abort
<1> QED
  BY <1>6, <1>7, <1>8, <1>9, <1>10 DEF Serve

\* A commit that goes on holds the keys it was given.
LEMMA KeysCommitted ==
  ASSUME IInv, NEW p \in Procs, NEW a \in AssetIds, NEW keys \in SUBSET Keys,
         Committed(p, a, keys)
  PROVE  /\ \A q \in Procs \ {p} : req'[q] = req[q]
         /\ \/ req'[p].evict = {} /\ req'[p].pc \notin {"find", "delete"}
            \/ req'[p].evict = keys /\ req'[p].pc \in {"publish", "evict"}
         /\ "crash" \notin Faults /\ keys # {} =>
              /\ req'[p].evict = keys /\ req'[p].pc \in {"publish", "evict"}
              /\ req'[p].op = req[p].op /\ req'[p].asset = a /\ req'[p].row = req[p].row
              /\ req[p].op = "delete" => req'[p].pc = "evict"
<1>1. req \in [Procs -> Request] /\ req[p] \in Request
  BY DEF IInv, RequestsKnow
<1> DEFINE r == [req[p] EXCEPT !.asset = a, !.evict = keys]
           r1 == [r EXCEPT !.pc = "publish"]
           r2 == [r EXCEPT !.pc = "evict"]
<1>2. PICK acked \in Delivered("crash") :
        CASE ~acked -> Finish(p, "fail")
          [] acked /\ Publishes(r) /\ r.op # "delete" -> req' = [req EXCEPT ![p] = r1]
          [] acked /\ (~Publishes(r) \/ r.op = "delete") ->
               IF keys = {} THEN Finish(p, "ok") ELSE req' = [req EXCEPT ![p] = r2]
  BY DEF Committed
<1>3. "crash" \notin Faults => acked = TRUE
  BY DEF Delivered
<1>4. acked \in BOOLEAN
  BY DEF Delivered
<1>5. /\ r.op = req[p].op
      /\ r1.evict = keys /\ r1.pc = "publish" /\ r1.op = r.op /\ r1.asset = a /\ r1.row = req[p].row
      /\ r2.evict = keys /\ r2.pc = "evict" /\ r2.op = r.op /\ r2.asset = a /\ r2.row = req[p].row
  BY <1>1 DEF Request
<1> HIDE DEF r, r1, r2
<1>6. CASE ~acked \/ (keys = {} /\ (~Publishes(r) \/ r.op = "delete"))
  <2>1. Finish(p, "fail") \/ Finish(p, "ok")
    BY <1>2, <1>4, <1>6
  <2>2. /\ req'[p].evict = {} /\ req'[p].pc \notin {"find", "delete"}
        /\ \A q \in Procs \ {p} : req'[q] = req[q]
    BY <1>1, <2>1 DEF Finish, Idle
  <2> QED
    BY <1>3, <1>6, <2>2
<1>7. CASE acked /\ Publishes(r) /\ r.op # "delete"
  BY <1>1, <1>2, <1>5, <1>7
<1>8. CASE acked /\ (~Publishes(r) \/ r.op = "delete") /\ keys # {}
  BY <1>1, <1>2, <1>5, <1>8
<1> QED
  BY <1>4, <1>6, <1>7, <1>8

-----------------------------------------------------------------------------
(* The keys that a request still has to evict. *)

\* Only a deletion that knows what to evict, and a request that has committed,
\* hold keys.
KeysHeld ==
  \A p \in Procs : req[p].evict # {} => req[p].pc \in {"delete", "publish", "evict"}

\* Redis takes every call and no process stops.
EvictionsDone == "redis" \notin Faults /\ "crash" \notin Faults

\* The keys of the five transactions.
LEMMA Commitments ==
  ASSUME IInv, NEW p \in Procs
  PROVE  /\ InsertAsset(p) => Finish(p, "fail") \/ (last + 1 \in AssetIds /\ Committed(p, last + 1, {}))
         /\ UpdateRow(p) => Finish(p, "fail") \/ Committed(p, req[p].asset, UpdateEvicts(req[p].asset))
         /\ DeleteRow(p) => Committed(p, req[p].asset, req[p].evict \cup KeysOf({req[p].asset}))
         /\ ShareTx(p) => Finish(p, "fail") \/ Committed(p, req[p].asset, ShareEvicts(p))
         /\ RevokeTx(p) => Committed(p, req[p].asset, RevokeEvicts(p))
         /\ InsertAsset(p) \/ UpdateRow(p) \/ DeleteRow(p) \/ ShareTx(p) \/ RevokeTx(p) =>
              /\ req[p].pc \in Cleared /\ InFlight(p)
              /\ UNCHANGED <<rowCache, aclCache, late>>
         /\ UpdateRow(p) \/ DeleteRow(p) \/ ShareTx(p) \/ RevokeTx(p) => req[p].asset \in AssetIds
         /\ req[p].asset \in AssetIds =>
              /\ UpdateEvicts(req[p].asset) \in SUBSET Keys
              /\ req[p].evict \cup KeysOf({req[p].asset}) \in SUBSET Keys
              /\ ShareEvicts(p) \in SUBSET Keys /\ RevokeEvicts(p) \in SUBSET Keys
<1>1. /\ InsertAsset(p) => Finish(p, "fail") \/ Committed(p, last + 1, {})
      /\ UpdateRow(p) => Finish(p, "fail") \/ Committed(p, req[p].asset, UpdateEvicts(req[p].asset))
      /\ DeleteRow(p) => Committed(p, req[p].asset, req[p].evict \cup KeysOf({req[p].asset}))
      /\ ShareTx(p) => Finish(p, "fail") \/ Committed(p, req[p].asset, ShareEvicts(p))
      /\ RevokeTx(p) => Committed(p, req[p].asset, RevokeEvicts(p))
  BY DEF InsertAsset, UpdateRow, DeleteRow, ShareTx, RevokeTx
<1>2. ASSUME InsertAsset(p)
      PROVE  last + 1 \in AssetIds
  <2>1. p \in Makers
    <3>1. req[p].pc = "insert" /\ req[p].op \in OpsAt(req[p].pc)
      BY <1>2, Writing DEF InsertAsset, At, Cleared
    <3> QED
      BY <3>1 DEF Makers, Makes, OpsAt
  <2>2. IsFiniteSet(Makers)
    BY AssetsAssumption, FS_Subset DEF AssetsAssumption, Makers
  <2>3. Cardinality(Makers) \in Nat /\ Cardinality(Makers) # 0
    BY <2>1, <2>2, FS_CardinalityType, FS_EmptySet
  <2>4. last \in Nat /\ MaxAssets \in Nat /\ last + Cardinality(Makers) <= MaxAssets
    BY AssetsAssumption DEF AssetsAssumption, IInv, IdsLeft, TypeOK
  <2> QED
    BY <2>3, <2>4 DEF AssetIds
<1>3. ASSUME InsertAsset(p) \/ UpdateRow(p) \/ DeleteRow(p) \/ ShareTx(p) \/ RevokeTx(p)
      PROVE  /\ req[p].pc \in Cleared /\ InFlight(p)
             /\ UNCHANGED <<rowCache, aclCache, late>>
  BY <1>3 DEF InsertAsset, UpdateRow, DeleteRow, ShareTx, RevokeTx, At, Cleared, InFlight, caches
<1>4. ASSUME UpdateRow(p) \/ DeleteRow(p) \/ ShareTx(p) \/ RevokeTx(p)
      PROVE  req[p].asset \in AssetIds
  <2>1. req[p].pc \in Cleared \ {"insert"}
    BY <1>4 DEF UpdateRow, DeleteRow, ShareTx, RevokeTx, At, Cleared
  <2> QED
    BY <2>1, Writing
<1>5. ASSUME req[p].asset \in AssetIds
      PROVE  /\ UpdateEvicts(req[p].asset) \in SUBSET Keys
             /\ req[p].evict \cup KeysOf({req[p].asset}) \in SUBSET Keys
             /\ ShareEvicts(p) \in SUBSET Keys /\ RevokeEvicts(p) \in SUBSET Keys
  <2>1. req[p].evict \subseteq Keys
    BY DEF IInv, TypeOK
  <2>2. Reach(p) \subseteq AssetIds
    BY FindsExisting DEF Reach, GetDescendantIDs, Existing
  <2> QED
    BY <1>5, <2>1, <2>2 DEF UpdateEvicts, KeysOf, ShareEvicts, RevokeEvicts, Keys
<1> QED
  BY <1>1, <1>2, <1>3, <1>4, <1>5

\* Each of the five transactions fails or gives its request keys to evict.
LEMMA CommitsKeys ==
  ASSUME IInv, NEW p \in Procs,
         InsertAsset(p) \/ UpdateRow(p) \/ DeleteRow(p) \/ ShareTx(p) \/ RevokeTx(p)
  PROVE  \/ Finish(p, "fail")
         \/ \E a \in AssetIds, keys \in SUBSET Keys : Committed(p, a, keys)
<1>1. CASE InsertAsset(p)
  <2>1. Finish(p, "fail") \/ (last + 1 \in AssetIds /\ Committed(p, last + 1, {}))
    BY <1>1, Commitments
  <2>2. {} \in SUBSET Keys
    OBVIOUS
  <2> QED
    BY <2>1, <2>2
<1>2. CASE ~InsertAsset(p)
  <2>1. req[p].asset \in AssetIds
    BY <1>2, Commitments
  <2>2. /\ UpdateEvicts(req[p].asset) \in SUBSET Keys
        /\ req[p].evict \cup KeysOf({req[p].asset}) \in SUBSET Keys
        /\ ShareEvicts(p) \in SUBSET Keys /\ RevokeEvicts(p) \in SUBSET Keys
    BY <2>1, Commitments
  <2>3. \/ Finish(p, "fail") \/ Committed(p, req[p].asset, UpdateEvicts(req[p].asset))
        \/ Committed(p, req[p].asset, req[p].evict \cup KeysOf({req[p].asset}))
        \/ Committed(p, req[p].asset, ShareEvicts(p)) \/ Committed(p, req[p].asset, RevokeEvicts(p))
    BY <1>2, Commitments
  <2> QED
    BY <2>1, <2>2, <2>3
<1> QED
  BY <1>1, <1>2

\* An eviction takes one key, or leaves it when Redis fails.
LEMMA EvictOne ==
  ASSUME IInv, NEW p \in Procs, Evict(p)
  PROVE  \E key \in req[p].evict :
           /\ key \in Keys
           /\ EvictionsDone => Drop(key)
           /\ Drop(key) \/ UNCHANGED caches
           /\ \A q \in Procs \ {p} : req'[q] = req[q]
           /\ \/ req'[p].evict = req[p].evict \ {key} /\ req'[p].pc = "evict"
                 /\ req'[p].op = req[p].op /\ req'[p].asset = req[p].asset
                 /\ req'[p].row = req[p].row
              \/ req[p].evict \subseteq {key} /\ req'[p].evict = {} /\ req'[p].pc = "publish"
                 /\ req'[p].op = req[p].op /\ req'[p].asset = req[p].asset
                 /\ req'[p].row = req[p].row
              \/ /\ req[p].evict \subseteq {key} /\ Finish(p, "ok")
                 /\ ~(req[p].op = "delete" /\ Publishes(req[p]))
<1>1. req \in [Procs -> Request] /\ req[p] \in Request /\ req[p].evict \subseteq Keys
  BY DEF IInv, RequestsKnow, TypeOK
<1>2. PICK key \in req[p].evict :
        /\ \E done \in Delivered("redis") : IF done THEN Drop(key) ELSE UNCHANGED caches
        /\ CASE req[p].evict \ {key} # {} -> req' = [req EXCEPT ![p].evict = req[p].evict \ {key}]
             [] req[p].evict \ {key} = {} /\ req[p].op = "delete" /\ Publishes(req[p]) ->
                  req' = [req EXCEPT ![p].pc = "publish", ![p].evict = {}]
             [] OTHER -> Finish(p, "ok")
  BY DEF Evict
<1>3. req[p].pc = "evict"
  BY DEF Evict, At
<1>4. EvictionsDone => Drop(key)
  BY <1>2 DEF EvictionsDone, Delivered
<1>5. Drop(key) \/ UNCHANGED caches
  BY <1>2
<1>6. CASE req[p].evict \ {key} # {}
  <2>1. req' = [req EXCEPT ![p].evict = req[p].evict \ {key}]
    BY <1>2, <1>6
  <2> QED
    BY <1>1, <1>3, <1>4, <1>5, <2>1 DEF Request
<1>7. CASE req[p].evict \ {key} = {} /\ req[p].op = "delete" /\ Publishes(req[p])
  <2>1. req' = [req EXCEPT ![p].pc = "publish", ![p].evict = {}]
    BY <1>2, <1>7
  <2> QED
    BY <1>1, <1>4, <1>5, <1>7, <2>1 DEF Request
<1>8. CASE req[p].evict \ {key} = {} /\ ~(req[p].op = "delete" /\ Publishes(req[p]))
  <2>1. Finish(p, "ok")
    BY <1>2, <1>8
  <2>2. \A q \in Procs \ {p} : req'[q] = req[q]
    BY <1>1, <2>1 DEF Finish
  <2> QED
    BY <1>1, <1>4, <1>5, <1>8, <2>1, <2>2
<1> QED
  BY <1>6, <1>7, <1>8

\* A deletion finds keys and nothing else.
LEMMA FindKeys ==
  ASSUME IInv, NEW p \in Procs, DeleteFind(p)
  PROVE  /\ \A q \in Procs \ {p} : req'[q] = req[q]
         /\ req[p].asset \in AssetIds /\ req'[p].asset = req[p].asset /\ req'[p].pc = "delete"
         /\ req'[p].op = req[p].op /\ req'[p].row = req[p].row
         /\ req'[p].evict \subseteq Keys
         /\ EvictionsDone => req'[p].evict = KeysOf(GetDescendantIDs(req[p].asset))
<1>1. req \in [Procs -> Request] /\ req[p] \in Request
  BY DEF IInv, RequestsKnow
<1>2. PICK found \in Delivered("crash") :
        req' = [req EXCEPT ![p].pc = "delete",
                  ![p].evict = IF found THEN KeysOf(GetDescendantIDs(req[p].asset)) ELSE {}]
  BY DEF DeleteFind
<1>3. EvictionsDone => found = TRUE
  BY DEF EvictionsDone, Delivered
<1>4. req[p].asset \in AssetIds
  <2>1. req[p].pc \in Cleared \ {"insert"}
    BY DEF DeleteFind, At, Cleared
  <2> QED
    BY <2>1, Writing
<1>5. KeysOf(GetDescendantIDs(req[p].asset)) \subseteq Keys
  BY FindsExisting DEF GetDescendantIDs, KeysOf, Keys, Existing
<1> QED
  BY <1>1, <1>2, <1>3, <1>4, <1>5 DEF Request

\* A step of one request leaves the others alone.
LEMMA OthersStay ==
  ASSUME IInv, NEW p \in Procs, Begin(p) \/ Serve(p) \/ Abort(p)
  PROVE  \A q \in Procs \ {p} : req'[q] = req[q]
<1>1. CASE InsertAsset(p) \/ UpdateRow(p) \/ DeleteRow(p) \/ ShareTx(p) \/ RevokeTx(p)
  <2>1. \A q \in Procs \ {p} : Finish(p, "fail") => req'[q] = req[q]
    BY DEF Finish, IInv, RequestsKnow
  <2> QED
    BY <1>1, <2>1, CommitsKeys, KeysCommitted
<1> QED
  BY <1>1, KeysMove, EvictOne, FindKeys

\* KeysHeld is inductive.
LEMMA KeysHeldStep ==
  ASSUME IInv, KeysHeld, [Next]_vars
  PROVE  KeysHeld'
<1> SUFFICES ASSUME NEW p \in Procs, req'[p].evict # {}
             PROVE  req'[p].pc \in {"delete", "publish", "evict"}
  BY DEF KeysHeld
<1>1. CASE req'[p] = req[p]
  BY <1>1 DEF KeysHeld
<1>2. CASE InsertAsset(p) \/ UpdateRow(p) \/ DeleteRow(p) \/ ShareTx(p) \/ RevokeTx(p)
  <2>1. ~Finish(p, "fail")
    BY DEF Finish, Idle, IInv, RequestsKnow
  <2> QED
    BY <1>2, <2>1, CommitsKeys, KeysCommitted
<1>3. CASE Evict(p)
  <2>1. ~Finish(p, "ok")
    BY DEF Finish, Idle, IInv, RequestsKnow
  <2> QED
    BY <1>3, <2>1, EvictOne
<1>4. CASE DeleteFind(p)
  BY <1>4, FindKeys
<1>5. CASE /\ Begin(p) \/ Serve(p) \/ Abort(p)
           /\ ~(InsertAsset(p) \/ UpdateRow(p) \/ DeleteFind(p) \/ DeleteRow(p) \/ ShareTx(p)
                  \/ RevokeTx(p) \/ Evict(p))
  <2>1. req'[p].evict = req[p].evict /\ req[p].evict # {}
    BY <1>5, KeysMove
  <2>2. req[p].pc \in {"delete", "publish", "evict"}
    BY <2>1 DEF KeysHeld
  <2>3. Publish(p) \/ Abort(p)
    BY <1>5, <2>2 DEF Begin, InFlight, Serve, GetCached, GetDb, GetFill, GetAclCached, GetAclDb,
                      GetAclFill, GetManager, LoadForWrite, LoadOwned, CheckAcl, DeleteRow,
                      ShareTarget, At
  <2>4. Goto(p, "evict") \/ Finish(p, "fail")
    BY <2>1, <2>3 DEF Publish, Abort
  <2> QED
    BY <2>1, <2>4 DEF Goto, Finish, Idle, IInv, RequestsKnow, Request
<1>6. req'[p] = req[p] \/ Begin(p) \/ Serve(p) \/ Abort(p)
  BY OthersStay DEF Next, Expire, TeamChange, vars
<1> QED
  BY <1>1, <1>2, <1>3, <1>4, <1>5, <1>6

-----------------------------------------------------------------------------
(* Where the values in the cache come from. *)

\* Only the keys of generated ids are cached.
CachedExist == \A key \in Keys : Cached(key) => key[2] \in 1..last

\* A cached value comes and goes by a read, an eviction or its expiry.
LEMMA CachesChange ==
  ASSUME IInv, [Next]_vars
  PROVE  \/ UNCHANGED <<rowCache, aclCache, late>>
         \/ /\ UNCHANGED tables
            /\ \/ \E p \in Procs : GetFill(p) \/ GetAclFill(p)
               \/ \E key \in Keys : Drop(key)
<1>1. ASSUME NEW p \in Procs, Begin(p) \/ Serve(p) \/ Abort(p),
             ~(GetFill(p) \/ GetAclFill(p) \/ Evict(p))
      PROVE  UNCHANGED <<rowCache, aclCache, late>>
  BY <1>1 DEF Begin, Serve, Abort, GetCached, GetDb, GetAclCached, GetAclDb, GetManager, LoadForWrite,
              LoadOwned, CheckAcl, InsertAsset, UpdateRow, DeleteFind, DeleteRow, ShareTarget,
              ShareTx, RevokeTx, Publish, caches
<1>2. ASSUME NEW p \in Procs, GetFill(p) \/ GetAclFill(p)
      PROVE  UNCHANGED tables
  BY <1>2 DEF GetFill, GetAclFill
<1>3. ASSUME NEW p \in Procs, Evict(p)
      PROVE  \/ UNCHANGED <<rowCache, aclCache, late>>
             \/ UNCHANGED tables /\ \E key \in Keys : Drop(key)
  <2>1. UNCHANGED tables
    BY <1>3 DEF Evict
  <2> QED
    BY <1>3, <2>1, EvictOne DEF caches
<1>4. ASSUME NEW key \in Keys, Expire(key)
      PROVE  UNCHANGED tables /\ Drop(key)
  BY <1>4 DEF Expire
<1>5. ASSUME TeamChange \/ UNCHANGED vars
      PROVE  UNCHANGED <<rowCache, aclCache, late>>
  BY <1>5 DEF TeamChange, vars, caches
<1> QED
  BY <1>1, <1>2, <1>3, <1>4, <1>5 DEF Next

\* A dropped key is not cached, and the others stay as they are.
LEMMA DropOne ==
  ASSUME IInv, NEW key \in Keys, Drop(key), UNCHANGED tables, NEW k \in Keys
  PROVE  /\ k = key => ~Cached(k)'
         /\ k # key => /\ Cached(k)' <=> Cached(k)
                       /\ Truth(k)' <=> Truth(k)
                       /\ k \in late' <=> k \in late
<1>1. /\ rowCache \in [AssetIds -> Row \cup {NoRow}] /\ aclCache \in [AssetIds -> Acl \cup {NoList}]
      /\ assets' = assets /\ acl' = acl
      /\ key[1] \in {"asset", "acl"} /\ k[1] \in {"asset", "acl"} /\ key[2] \in AssetIds
      /\ k[2] \in AssetIds /\ key = <<key[1], key[2]>> /\ k = <<k[1], k[2]>>
  BY DEF IInv, TypeOK, tables, Keys
<1>2. CASE k = key
  BY <1>1, <1>2 DEF Drop, Cached
<1>3. CASE k # key
  <2>1. k \in late' <=> k \in late
    BY <1>3 DEF Drop
  <2>2. k[1] # key[1] \/ k[2] # key[2]
    BY <1>1, <1>3
  <2>3. k[1] = "asset" => rowCache'[k[2]] = rowCache[k[2]]
    BY <1>1, <2>2 DEF Drop
  <2>4. k[1] = "acl" => aclCache'[k[2]] = aclCache[k[2]]
    BY <1>1, <2>2 DEF Drop
  <2> QED
    BY <1>1, <1>3, <2>1, <2>3, <2>4 DEF Cached, Truth
<1> QED
  BY <1>2, <1>3

\* A read stores what it holds, and the history records whether it is true.
LEMMA FillOne ==
  ASSUME IInv, NEW p \in Procs, GetFill(p) \/ GetAclFill(p), NEW k \in Keys
  PROVE  /\ req[p].asset \in 1..last
         /\ \/ k[2] = req[p].asset /\ (Stale(k)' => k \in late')
            \/ /\ Cached(k)' <=> Cached(k)
               /\ Truth(k)' <=> Truth(k)
               /\ k \in late' <=> k \in late
<1> DEFINE a == req[p].asset
<1>1. /\ rowCache \in [AssetIds -> Row \cup {NoRow}] /\ aclCache \in [AssetIds -> Acl \cup {NoList}]
      /\ assets' = assets /\ acl' = acl
      /\ k[1] \in {"asset", "acl"} /\ k[2] \in AssetIds /\ k = <<k[1], k[2]>>
  BY DEF IInv, TypeOK, tables, Keys, GetFill, GetAclFill
<1>2. a \in AssetIds /\ a \in 1..last
  <2>1. req[p].pc \in {"getFill", "aclFill"}
    BY DEF GetFill, GetAclFill, At
  <2>2. a \in AssetIds /\ Knows(p) /\ InFlight(p)
    BY <2>1, Reading DEF IInv, RequestsKnow
  <2>3. last \in Nat /\ a \in 0..last /\ a # 0
    BY <2>2 DEF Knows, IInv, TypeOK, AssetIds
  <2> QED
    BY <2>2, <2>3
<1>3. ASSUME UNCHANGED <<rowCache, aclCache, late>>
      PROVE  (Cached(k)' <=> Cached(k)) /\ (Truth(k)' <=> Truth(k)) /\ (k \in late' <=> k \in late)
  BY <1>1, <1>3 DEF Cached, Truth
<1>4. CASE GetFill(p)
  <2>1. \/ UNCHANGED <<rowCache, aclCache, late>>
        \/ /\ rowCache' = [rowCache EXCEPT ![a] = req[p].row] /\ aclCache' = aclCache
           /\ late' = IF req[p].row # assets[a] THEN late \cup {<<"asset", a>>}
                      ELSE late \ {<<"asset", a>>}
    BY <1>4 DEF GetFill, MarkLate
  <2>2. CASE UNCHANGED <<rowCache, aclCache, late>>
    BY <1>2, <1>3, <2>2
  <2>3. CASE /\ rowCache' = [rowCache EXCEPT ![a] = req[p].row] /\ aclCache' = aclCache
             /\ late' = IF req[p].row # assets[a] THEN late \cup {<<"asset", a>>}
                        ELSE late \ {<<"asset", a>>}
    <3>1. CASE k = <<"asset", a>>
      <4>1. rowCache'[a] = req[p].row /\ k[1] = "asset" /\ k[2] = a
        BY <1>1, <1>2, <2>3, <3>1
      <4>2. Truth(k)' \/ k \in late'
        BY <1>1, <2>3, <3>1, <4>1 DEF Truth
      <4> QED
        BY <1>2, <4>1, <4>2 DEF Stale
    <3>2. CASE k # <<"asset", a>>
      <4>1. (k \in late' <=> k \in late) /\ (k[1] = "asset" => rowCache'[k[2]] = rowCache[k[2]])
        BY <1>1, <1>2, <2>3, <3>2
      <4> QED
        BY <1>1, <1>2, <2>3, <4>1 DEF Cached, Truth
    <3> QED
      BY <3>1, <3>2
  <2> QED
    BY <2>1, <2>2, <2>3
<1>5. CASE GetAclFill(p)
  <2>1. \/ UNCHANGED <<rowCache, aclCache, late>>
        \/ /\ aclCache' = [aclCache EXCEPT ![a] = req[p].list] /\ rowCache' = rowCache
           /\ late' = IF req[p].list # acl[a] THEN late \cup {<<"acl", a>>}
                      ELSE late \ {<<"acl", a>>}
    BY <1>5 DEF GetAclFill, MarkLate
  <2>2. CASE UNCHANGED <<rowCache, aclCache, late>>
    BY <1>2, <1>3, <2>2
  <2>3. CASE /\ aclCache' = [aclCache EXCEPT ![a] = req[p].list] /\ rowCache' = rowCache
             /\ late' = IF req[p].list # acl[a] THEN late \cup {<<"acl", a>>}
                        ELSE late \ {<<"acl", a>>}
    <3>1. CASE k = <<"acl", a>>
      <4>1. aclCache'[a] = req[p].list /\ k[1] = "acl" /\ k[2] = a
        BY <1>1, <1>2, <2>3, <3>1
      <4>2. Truth(k)' \/ k \in late'
        BY <1>1, <2>3, <3>1, <4>1 DEF Truth
      <4> QED
        BY <1>2, <4>1, <4>2 DEF Stale
    <3>2. CASE k # <<"acl", a>>
      <4>1. (k \in late' <=> k \in late) /\ (k[1] = "acl" => aclCache'[k[2]] = aclCache[k[2]])
        BY <1>1, <1>2, <2>3, <3>2
      <4> QED
        BY <1>1, <1>2, <2>3, <4>1 DEF Cached, Truth
    <3> QED
      BY <3>1, <3>2
  <2> QED
    BY <2>1, <2>2, <2>3
<1> QED
  BY <1>4, <1>5

\* The ids count up.
LEMMA LastGrows ==
  ASSUME IInv, [Next]_vars
  PROVE  /\ last \in Nat /\ last' \in Nat /\ last <= last'
         /\ last' = last \/ (last' = last + 1 /\ \E p \in Procs : InsertAsset(p))
<1>1. last \in Nat
  BY DEF IInv, TypeOK
<1>2. last' = last \/ (last' = last + 1 /\ \E p \in Procs : InsertAsset(p))
  BY DEF Next, Begin, Serve, Abort, Expire, TeamChange, vars, tables, GetCached, GetDb, GetFill,
         GetAclCached, GetAclDb, GetAclFill, GetManager, LoadForWrite, LoadOwned, CheckAcl,
         InsertAsset, UpdateRow, DeleteFind, DeleteRow, ShareTarget, ShareTx, RevokeTx, Publish, Evict
<1> QED
  BY <1>1, <1>2

\* CachedExist is inductive.
LEMMA CachedExistStep ==
  ASSUME IInv, CachedExist, [Next]_vars
  PROVE  CachedExist'
<1> SUFFICES ASSUME NEW k \in Keys, Cached(k)'
             PROVE  k[2] \in 1..last'
  BY DEF CachedExist
<1>1. k[2] \in 1..last => k[2] \in 1..last'
  BY LastGrows
<1>2. CASE Cached(k)
  BY <1>1, <1>2 DEF CachedExist
<1>3. CASE ~Cached(k)
  <2>1. ~UNCHANGED <<rowCache, aclCache, late>>
    BY <1>3 DEF Cached
  <2>2. \A key \in Keys : UNCHANGED tables => ~Drop(key)
    BY <1>3, DropOne
  <2>3. PICK p \in Procs : GetFill(p) \/ GetAclFill(p)
    BY <2>1, <2>2, CachesChange
  <2> QED
    BY <1>1, <1>3, <2>3, FillOne
<1> QED
  BY <1>2, <1>3

-----------------------------------------------------------------------------
(* Values that are true, and those that are owed an eviction. *)

\* An eviction stays owed until its key is dropped.
LEMMA OwedStays ==
  ASSUME EvictionsDone, IInv, KeysHeld, [Next]_vars, NEW key \in Keys, Owed(key)
  PROVE  Owed(key)' \/ ~Cached(key)'
<1>1. PICK p \in Procs : InFlight(p) /\ key \in req[p].evict
  BY DEF Owed
<1>2. req[p].pc \in {"delete", "publish", "evict"}
  BY <1>1 DEF KeysHeld
<1>3. CASE req'[p] = req[p]
  BY <1>1, <1>3 DEF Owed, InFlight
<1>4. ASSUME req'[p].pc \in {"publish", "evict"}, key \in req'[p].evict
      PROVE  Owed(key)'
  BY <1>4 DEF Owed, InFlight
<1>5. CASE DeleteRow(p)
  <2> DEFINE keys == req[p].evict \cup KeysOf({req[p].asset})
  <2>1. req[p].asset \in AssetIds /\ keys \in SUBSET Keys /\ Committed(p, req[p].asset, keys)
    BY <1>5, Commitments
  <2>2. key \in keys
    BY <1>1
  <2> HIDE DEF keys
  <2>3. req'[p].evict = keys /\ req'[p].pc \in {"publish", "evict"}
    BY <2>1, <2>2, KeysCommitted DEF EvictionsDone
  <2> QED
    BY <2>2, <2>3, <1>4
<1>6. CASE Publish(p)
  <2>1. Goto(p, "evict")
    BY <1>1, <1>6 DEF Publish
  <2>2. req'[p].pc = "evict" /\ req'[p].evict = req[p].evict
    BY <2>1 DEF Goto, IInv, RequestsKnow, Request
  <2> QED
    BY <1>1, <2>2, <1>4
<1>7. CASE Evict(p)
  <2>1. PICK k \in req[p].evict :
          /\ k \in Keys /\ Drop(k)
          /\ \/ req'[p].evict = req[p].evict \ {k} /\ req'[p].pc = "evict"
             \/ req[p].evict \subseteq {k}
    BY <1>7, EvictOne
  <2>2. CASE k = key
    BY <1>7, <2>1, <2>2, DropOne DEF Evict
  <2>3. CASE k # key
    BY <1>1, <2>1, <2>3, <1>4
  <2> QED
    BY <2>2, <2>3
<1>8. CASE /\ Begin(p) \/ Serve(p) \/ Abort(p)
           /\ ~(DeleteRow(p) \/ Publish(p) \/ Evict(p))
  BY <1>1, <1>2, <1>8
     DEF Begin, Serve, Abort, EvictionsDone, GetCached, GetDb, GetFill, GetAclCached, GetAclDb,
         GetAclFill, GetManager, LoadForWrite, LoadOwned, CheckAcl, InsertAsset, UpdateRow, DeleteFind,
         ShareTarget, ShareTx, RevokeTx, At
<1>9. req'[p] = req[p] \/ Begin(p) \/ Serve(p) \/ Abort(p)
  BY OthersStay DEF Next, Expire, TeamChange, vars
<1> QED
  BY <1>3, <1>5, <1>6, <1>7, <1>8, <1>9

\* What is owed or known to be stale stays so as long as it is stale.
LEMMA CoveredStays ==
  ASSUME EvictionsDone, IInv, KeysHeld, [Next]_vars, NEW key \in Keys, Owed(key) \/ key \in late,
         Stale(key)'
  PROVE  Owed(key)' \/ key \in late'
<1>1. CASE Owed(key)
  BY <1>1, OwedStays DEF Stale
<1>2. CASE key \in late
  <2>1. CASE UNCHANGED <<rowCache, aclCache, late>>
    BY <1>2, <2>1
  <2>2. ASSUME NEW k \in Keys, Drop(k), UNCHANGED tables
        PROVE  key \in late'
    BY <1>2, <2>2, DropOne DEF Stale
  <2>3. ASSUME NEW p \in Procs, GetFill(p) \/ GetAclFill(p)
        PROVE  key \in late'
    BY <1>2, <2>3, FillOne
  <2> QED
    BY <2>1, <2>2, <2>3, CachesChange
<1> QED
  BY <1>1, <1>2

\* The rows and the access entries change by the five transactions.
LEMMA TablesChange ==
  ASSUME [Next]_vars
  PROVE  \/ UNCHANGED <<assets, acl>>
         \/ \E p \in Procs : InsertAsset(p) \/ UpdateRow(p) \/ DeleteRow(p) \/ ShareTx(p) \/ RevokeTx(p)
  BY DEF Next, Begin, Serve, Abort, Expire, TeamChange, vars, tables, GetCached, GetDb, GetFill,
         GetAclCached, GetAclDb, GetAclFill, GetManager, LoadForWrite, LoadOwned, CheckAcl,
         DeleteFind, ShareTarget, Publish, Evict

\* Who commits a change of a row or of its access entries owes the eviction of
\* its key from then on, unless it deletes something below its asset.
LEMMA WriterOwes ==
  ASSUME EvictionsDone, IInv, NEW p \in Procs,
         InsertAsset(p) \/ UpdateRow(p) \/ DeleteRow(p) \/ ShareTx(p) \/ RevokeTx(p),
         NEW key \in Keys, key[2] \in 1..last,
         IF key[1] = "asset" THEN assets'[key[2]] # assets[key[2]] ELSE acl'[key[2]] # acl[key[2]]
  PROVE  \/ Owed(key)'
         \/ DeleteRow(p) /\ key[2] \in Subtree(req[p].asset)
<1> DEFINE b == key[2]
           a == req[p].asset
<1>1. /\ assets \in [AssetIds -> Row \cup {NoRow}] /\ acl \in [AssetIds -> Acl] /\ last \in Nat
      /\ key[1] \in {"asset", "acl"} /\ b \in AssetIds /\ key = <<key[1], b>>
  BY DEF IInv, TypeOK, Keys
<1>2. ASSUME NEW keys \in SUBSET Keys, Committed(p, a, keys), a \in AssetIds, key \in keys
      PROVE  Owed(key)'
  <2>1. req'[p].evict = keys /\ req'[p].pc \in {"publish", "evict"}
    BY <1>2, KeysCommitted DEF EvictionsDone
  <2> QED
    BY <1>2, <2>1 DEF Owed, InFlight
<1>3. CASE InsertAsset(p)
  <2>1. acl' = acl /\ (assets' = assets \/ \E row : assets' = [assets EXCEPT ![last + 1] = row])
    BY <1>3 DEF InsertAsset
  <2> QED
    BY <1>1, <2>1
<1>4. CASE UpdateRow(p)
  <2>1. acl' = acl /\ (assets' = assets \/ \E t \in Titles : assets' = [assets EXCEPT ![a].title = t])
    BY <1>4 DEF UpdateRow
  <2>2. key = <<"asset", a>> /\ assets' # assets
    BY <1>1, <2>1
  <2>3. a \in AssetIds /\ UpdateEvicts(a) \in SUBSET Keys
    BY <1>4, Commitments
  <2>4. Committed(p, a, UpdateEvicts(a))
    BY <1>4, <2>2 DEF UpdateRow
  <2>5. key \in UpdateEvicts(a)
    BY <2>2 DEF UpdateEvicts
  <2> QED
    BY <2>3, <2>4, <2>5, <1>2
<1>5. CASE DeleteRow(p)
  BY <1>1, <1>5 DEF DeleteRow
<1>6. CASE ShareTx(p)
  <2>1. assets' = assets /\ (acl' = acl \/ WriteAcl({a} \cup Reach(p), req[p].target, req[p].arg))
    BY <1>6 DEF ShareTx
  <2>2. key[1] = "acl" /\ b \in {a} \cup Reach(p) /\ acl' # acl
    BY <1>1, <2>1 DEF WriteAcl
  <2>3. a \in AssetIds /\ ShareEvicts(p) \in SUBSET Keys
    BY <1>6, Commitments
  <2>4. Committed(p, a, ShareEvicts(p))
    BY <1>6, <2>2 DEF ShareTx
  <2>5. key \in ShareEvicts(p)
    BY <1>1, <2>2 DEF ShareEvicts
  <2> QED
    BY <2>3, <2>4, <2>5, <1>2
<1>7. CASE RevokeTx(p)
  <2>1. assets' = assets /\ WriteAcl({a} \cup Reach(p), req[p].target, "none")
    BY <1>7 DEF RevokeTx
  <2>2. key[1] = "acl" /\ b \in {a} \cup Reach(p)
    BY <1>1, <2>1 DEF WriteAcl
  <2>3. a \in AssetIds /\ RevokeEvicts(p) \in SUBSET Keys
    BY <1>7, Commitments
  <2>4. Committed(p, a, RevokeEvicts(p))
    BY <1>7 DEF RevokeTx
  <2>5. key \in RevokeEvicts(p)
    BY <1>1, <2>2 DEF RevokeEvicts
  <2> QED
    BY <2>3, <2>4, <2>5, <1>2
<1> QED
  BY <1>3, <1>4, <1>5, <1>6, <1>7

\* A value that turns stale is owed its eviction or known to be late, or its
\* asset was deleted with a folder above it.
LEMMA TurnsStale ==
  ASSUME EvictionsDone, IInv, CachedExist, [Next]_vars, NEW key \in Keys, ~Stale(key), Stale(key)'
  PROVE  \/ Owed(key)' \/ key \in late'
         \/ \E p \in Procs : DeleteRow(p) /\ key[2] \in Subtree(req[p].asset)
<1>1. CASE UNCHANGED <<rowCache, aclCache, late>>
  <2>1. Cached(key) /\ Truth(key) /\ ~Truth(key)'
    BY <1>1 DEF Stale, Cached
  <2>2. IF key[1] = "asset" THEN assets'[key[2]] # assets[key[2]] ELSE acl'[key[2]] # acl[key[2]]
    BY <1>1, <2>1 DEF Truth
  <2>3. key[2] \in 1..last
    BY <2>1 DEF CachedExist
  <2>4. PICK p \in Procs : InsertAsset(p) \/ UpdateRow(p) \/ DeleteRow(p) \/ ShareTx(p) \/ RevokeTx(p)
    BY <2>2, TablesChange
  <2> QED
    BY <2>2, <2>3, <2>4, WriterOwes
<1>2. ASSUME NEW k \in Keys, Drop(k), UNCHANGED tables
      PROVE  FALSE
  BY <1>2, DropOne DEF Stale
<1>3. ASSUME NEW p \in Procs, GetFill(p) \/ GetAclFill(p)
      PROVE  key \in late'
  BY <1>3, FillOne DEF Stale
<1> QED
  BY <1>1, <1>2, <1>3, CachesChange

\* An id is not used again, and its asset keeps its type and its parent.
LEMMA RowsStay ==
  ASSUME IInv, [Next]_vars, NEW b \in 1..last, assets'[b] # NoRow
  PROVE  assets[b] # NoRow /\ assets'[b].type = assets[b].type /\ assets'[b].parent = assets[b].parent
<1>1. /\ assets \in [AssetIds -> Row \cup {NoRow}] /\ last \in Nat /\ b \in AssetIds
      /\ NoRow \notin Row
  BY AssetsAssumption DEF IInv, TypeOK, AssetsAssumption, AssetIds, Row, NoRow
<1>2. CASE assets' = assets
  BY <1>2
<1>3. ASSUME NEW p \in Procs, InsertAsset(p)
      PROVE  assets'[b] = assets[b]
  <2>1. assets' = assets \/ \E row : assets' = [assets EXCEPT ![last + 1] = row]
    BY <1>3 DEF InsertAsset
  <2> QED
    BY <1>1, <2>1
<1>4. ASSUME NEW p \in Procs, UpdateRow(p), assets' # assets
      PROVE  assets[b] # NoRow /\ assets'[b].type = assets[b].type /\ assets'[b].parent = assets[b].parent
  <2> DEFINE a == req[p].asset
  <2>1. Live(a) /\ \E t : assets' = [assets EXCEPT ![a].title = t]
    BY <1>4 DEF UpdateRow
  <2>2. CASE b # a
    BY <1>1, <2>1, <2>2
  <2>3. CASE b = a
    <3>1. assets[a] \in Row
      BY <1>1, <2>1 DEF Live
    <3> QED
      BY <1>1, <2>1, <2>3, <3>1 DEF Row
  <2> QED
    BY <2>2, <2>3
<1>5. ASSUME NEW p \in Procs, DeleteRow(p)
      PROVE  assets'[b] = assets[b]
  BY <1>1, <1>5 DEF DeleteRow
<1>6. ASSUME NEW p \in Procs, ShareTx(p) \/ RevokeTx(p)
      PROVE  assets' = assets
  BY <1>6 DEF ShareTx, RevokeTx
<1> QED
  BY <1>2, <1>3, <1>4, <1>5, <1>6, TablesChange

\* StaleOnlyIfLate is inductive, with the keys that are held.
LEMMA StaleOnlyIfLateStep ==
  ASSUME EvictionsDone, IInv, KeysHeld, CachedExist, StaleOnlyIfLate, [Next]_vars
  PROVE  StaleOnlyIfLate'
<1> SUFFICES ASSUME NEW key \in Keys, Stale(key)', Live(key[2])'
             PROVE  Owed(key)' \/ key \in late'
  BY DEF StaleOnlyIfLate
<1>1. CASE Stale(key)
  <2>1. key[2] \in 1..last
    BY <1>1 DEF Stale, CachedExist
  <2>2. Live(key[2])
    BY <2>1, RowsStay DEF Live
  <2> QED
    BY <1>1, <2>2, CoveredStays DEF StaleOnlyIfLate
<1>2. CASE ~Stale(key)
  <2>1. ASSUME NEW p \in Procs, DeleteRow(p), key[2] \in Subtree(req[p].asset)
        PROVE  FALSE
    <3>1. assets'[key[2]] = NoRow
      BY <2>1 DEF DeleteRow, Subtree
    <3> QED
      BY <3>1 DEF Live
  <2> QED
    BY <1>2, <2>1, TurnsStale
<1> QED
  BY <1>1, <1>2

\* What the stale values need besides: the keys held, and the keys cached.
CachesKnown == KeysHeld /\ CachedExist

\* Both hold throughout.
LEMMA CachesInvariance == Spec => [](IInv /\ CachesKnown)
<1>1. Init => CachesKnown
  <2> SUFFICES ASSUME Init PROVE CachesKnown
    OBVIOUS
  <2>1. KeysHeld
    BY DEF Init, KeysHeld, Idle
  <2>2. CachedExist
    BY DEF Init, CachedExist, Cached, Keys
  <2> QED
    BY <2>1, <2>2 DEF CachesKnown
<1>2. IInv /\ CachesKnown /\ [Next]_vars => CachesKnown'
  BY KeysHeldStep, CachedExistStep DEF CachesKnown
<1> QED
  BY <1>1, <1>2, Invariance, PTL DEF Spec

\* When neither Redis nor a process fails, no completed write forgets a key of an
\* asset that lives on, whatever shares, revocations, updates, creations and
\* deletions interleave and however deep the tree is.
THEOREM StaleValuesAreLate ==
  ASSUME EvictionsDone
  PROVE  Spec => []StaleOnlyIfLate
<1>1. Init => StaleOnlyIfLate
  BY DEF Init, StaleOnlyIfLate, Stale, Cached, Keys
<1>2. IInv /\ CachesKnown /\ StaleOnlyIfLate /\ [Next]_vars => StaleOnlyIfLate'
  BY StaleOnlyIfLateStep DEF CachesKnown
<1> QED
  BY <1>1, <1>2, CachesInvariance, PTL DEF Spec

-----------------------------------------------------------------------------
(* What the recursive queries find.  Induction on the depth is done on the least
   depth at which a fact would fail. *)

\* A set of numbers has a least.
LEMMA Least ==
  ASSUME NEW T \in SUBSET Nat, T # {}
  PROVE  \E x \in T : \A r \in T : x <= r
<1>1. PICK x \in T : \A y \in T : ~(<<y, x>> \in OpToRel(<, Nat))
  BY WFMin, NatLessThanWellFounded
<1>2. \A y \in T : ~(y < x)
  BY <1>1 DEF OpToRel
<1> QED
  BY <1>2

\* f lists the ancestors of b, b first.
Chain(f, b, d) == f = [n \in 0..d |-> IF n = 0 THEN b ELSE Parent[f[n - 1]]]

Ancestors(b, d) ==
  LET ancestor[n \in 0..d] == IF n = 0 THEN b ELSE Parent[ancestor[n - 1]]
  IN  ancestor

\* The recursion of IsBelow defines a function.
LEMMA ChainsExist ==
  ASSUME NEW b, NEW d \in Nat
  PROVE  /\ Chain(Ancestors(b, d), b, d)
         /\ \A a : IsBelow(b, a, d) <=> \E n \in 1..d : Ancestors(b, d)[n] = a
<1> DEFINE Bad == {e \in Nat : ~ \E f : Chain(f, b, e)}
<1>1. Bad = {}
  <2> SUFFICES ASSUME Bad # {} PROVE FALSE
    OBVIOUS
  <2>1. PICK e \in Bad : \A r \in Bad : e <= r
    <3>1. Bad \in SUBSET Nat
      OBVIOUS
    <3> HIDE DEF Bad
    <3> QED
      BY <3>1, Least
  <2>2. CASE e = 0
    <3> DEFINE f == [n \in 0..0 |-> b]
    <3>1. f = [n \in 0..0 |-> IF n = 0 THEN b ELSE Parent[f[n - 1]]]
      OBVIOUS
    <3> HIDE DEF f
    <3>2. Chain(f, b, 0)
      BY <3>1 DEF Chain
    <3> QED
      BY <2>2, <3>2
  <2>3. CASE e # 0
    <3>1. e - 1 \in Nat /\ e - 1 \notin Bad
      BY <2>1, <2>3
    <3>2. PICK f : Chain(f, b, e - 1)
      BY <3>1
    <3> DEFINE g == [n \in 0..e |-> IF n = 0 THEN b ELSE Parent[f[n - 1]]]
    <3>3. \A n \in 0..e - 1 : f[n] = g[n]
      BY <3>1, <3>2 DEF Chain
    <3>4. \A n \in 0..e : n # 0 => n - 1 \in 0..e - 1
      BY <3>1
    <3>5. g = [n \in 0..e |-> IF n = 0 THEN b ELSE Parent[g[n - 1]]]
      BY <3>3, <3>4
    <3> HIDE DEF g
    <3>6. Chain(g, b, e)
      BY <3>5 DEF Chain
    <3> QED
      BY <3>6
  <2> QED
    BY <2>2, <2>3
<1>2. PICK f : Chain(f, b, d)
  BY <1>1
<1>3. Chain(Ancestors(b, d), b, d)
  BY <1>2 DEF Chain, Ancestors
<1>4. \A a : IsBelow(b, a, d) <=> \E n \in 1..d : Ancestors(b, d)[n] = a
  BY DEF IsBelow, Ancestors
<1> QED
  BY <1>3, <1>4

\* The ancestors of a parent are those of the child, one further.
LEMMA ChainsShift ==
  ASSUME NEW b, NEW d \in Nat, NEW f, NEW g, Chain(f, b, d), Chain(g, Parent[b], d),
         NEW n \in 0..d, n + 1 \in 0..d
  PROVE  f[n + 1] = g[n]
<1> DEFINE Bad == {m \in 0..n : f[m + 1] # g[m]}
<1>1. Bad = {}
  <2> SUFFICES ASSUME Bad # {} PROVE FALSE
    OBVIOUS
  <2>1. PICK m \in Bad : \A r \in Bad : m <= r
    <3>1. Bad \in SUBSET Nat
      OBVIOUS
    <3> HIDE DEF Bad
    <3> QED
      BY <3>1, Least
  <2>2. m \in 0..d /\ m + 1 \in 0..d /\ m + 1 # 0 /\ (m + 1) - 1 = m /\ f[m + 1] # g[m]
    OBVIOUS
  <2>3. f[m + 1] = Parent[f[m]]
    BY <2>2 DEF Chain
  <2>4. CASE m = 0
    <3>1. f[0] = b /\ g[0] = Parent[b]
      BY DEF Chain
    <3> QED
      BY <2>2, <2>3, <2>4, <3>1
  <2>5. CASE m # 0
    <3>1. m - 1 \in 0..n /\ m - 1 \notin Bad /\ (m - 1) + 1 = m
      BY <2>1, <2>5
    <3>2. f[m] = g[m - 1]
      BY <3>1
    <3>3. g[m] = Parent[g[m - 1]]
      BY <2>2, <2>5 DEF Chain
    <3> QED
      BY <2>2, <2>3, <3>2, <3>3
  <2> QED
    BY <2>4, <2>5
<1> QED
  BY <1>1

\* Above the root there is nothing.
LEMMA ChainsEnd ==
  ASSUME NEW b, NEW d \in Nat, NEW f, Chain(f, b, d), NEW k \in 0..d, f[k] = NoAsset
  PROVE  f[d] = NoAsset
<1> DEFINE Bad == {m \in k..d : f[m] # NoAsset}
<1> SUFFICES ASSUME Bad # {} PROVE FALSE
  BY DEF NoAsset
<1>1. PICK m \in Bad : \A r \in Bad : m <= r
  <2>1. Bad \in SUBSET Nat
    OBVIOUS
  <2> HIDE DEF Bad
  <2> QED
    BY <2>1, Least
<1>2. m # k /\ m \in 0..d /\ m # 0 /\ m - 1 \in k..d
  OBVIOUS
<1>3. m - 1 \notin Bad
  BY <1>1, <1>2
<1>4. f[m - 1] = NoAsset
  BY <1>2, <1>3
<1>5. f[m] = Parent[NoAsset]
  BY <1>2, <1>4 DEF Chain
<1> QED
  BY <1>5 DEF Parent, NoAsset

\* Fewer than MaxDepth folders are above each asset, so that its chain of parents
\* ends within the steps that the recursive queries take.
Shallow == \A b \in Existing : IsBelow(b, NoAsset, MaxDepth)

\* What the query finds below an asset has no child that it does not find.
QueryFindsAll ==
  \A a \in AssetIds : \A b \in Existing :
    assets[b].parent \in {a} \cup GetDescendantIDs(a) => b \in GetDescendantIDs(a)

\* No child of what the query finds is too deep for it, when all have few ancestors.
LEMMA ShallowFound == Shallow => QueryFindsAll
<1> SUFFICES ASSUME Shallow, NEW a \in AssetIds, NEW b \in Existing,
                    assets[b].parent \in {a} \cup GetDescendantIDs(a)
             PROVE  IsBelow(b, a, MaxDepth)
  BY DEF QueryFindsAll, GetDescendantIDs, Descendants
<1> DEFINE f == Ancestors(b, MaxDepth)
           g == Ancestors(Parent[b], MaxDepth)
<1>1. MaxDepth \in Nat /\ Parent[b] = assets[b].parent
  BY AssetsAssumption DEF AssetsAssumption, Parent, Existing, AssetIds, NoAsset
<1>2. /\ Chain(f, b, MaxDepth) /\ Chain(g, Parent[b], MaxDepth)
      /\ \A c : IsBelow(b, c, MaxDepth) <=> \E n \in 1..MaxDepth : f[n] = c
      /\ \A c : IsBelow(Parent[b], c, MaxDepth) <=> \E n \in 1..MaxDepth : g[n] = c
  BY <1>1, ChainsExist
<1> HIDE DEF f, g
<1>3. 1 \in 0..MaxDepth /\ 1 \in 1..MaxDepth
  <2>1. \E n \in 1..MaxDepth : f[n] = NoAsset
    BY <1>2 DEF Shallow
  <2> QED
    BY <1>1, <2>1
<1>4. CASE Parent[b] = a
  <2>1. f[0] = b /\ f[1] = Parent[f[0]]
    BY <1>1, <1>2, <1>3 DEF Chain
  <2> QED
    BY <1>2, <1>3, <1>4, <2>1
<1>5. CASE Parent[b] \in GetDescendantIDs(a)
  <2>1. Parent[b] \in Existing /\ IsBelow(Parent[b], a, MaxDepth)
    BY <1>5 DEF GetDescendantIDs, Descendants
  <2>2. PICK n \in 1..MaxDepth : g[n] = a
    BY <1>2, <2>1
  <2>3. PICK k \in 1..MaxDepth : g[k] = NoAsset
    BY <1>2, <2>1 DEF Shallow
  <2>4. n # MaxDepth
    <3>1. g[MaxDepth] = NoAsset
      BY <1>1, <1>2, <2>3, ChainsEnd
    <3> QED
      BY <2>2, <3>1 DEF AssetIds, NoAsset
  <2>5. n \in 0..MaxDepth /\ n + 1 \in 0..MaxDepth /\ n + 1 \in 1..MaxDepth
    BY <1>1, <2>4
  <2>6. f[n + 1] = a
    <3>1. MaxDepth \in Nat /\ Chain(f, b, MaxDepth) /\ Chain(g, Parent[b], MaxDepth)
      BY <1>1, <1>2
    <3>2. f[n + 1] = g[n]
      BY <2>5, <3>1, ChainsShift
    <3> QED
      BY <2>2, <3>2
  <2> QED
    BY <1>2, <2>5, <2>6
<1> QED
  BY <1>1, <1>4, <1>5

\* An ancestor is an asset or nothing.
LEMMA ChainsTyped ==
  ASSUME TypeOK, NEW b \in AssetIds, NEW d \in Nat, NEW f, Chain(f, b, d), NEW n \in 0..d
  PROVE  f[n] \in AssetIds \cup {NoAsset}
<1> DEFINE Bad == {m \in 0..d : f[m] \notin AssetIds \cup {NoAsset}}
<1> SUFFICES ASSUME Bad # {} PROVE FALSE
  OBVIOUS
<1>1. PICK m \in Bad : \A r \in Bad : m <= r
  <2>1. Bad \in SUBSET Nat
    OBVIOUS
  <2> HIDE DEF Bad
  <2> QED
    BY <2>1, Least
<1>2. CASE m = 0
  BY <1>2 DEF Chain
<1>3. CASE m # 0
  <2>1. m - 1 \in 0..d /\ m - 1 \notin Bad
    BY <1>1, <1>3
  <2>2. f[m - 1] \in AssetIds \cup {NoAsset} /\ f[m] = Parent[f[m - 1]]
    BY <1>3, <2>1 DEF Chain
  <2>3. \A a \in AssetIds : assets[a].parent \in AssetIds \cup {NoAsset}
    BY DEF TypeOK, Row, NoRow
  <2> QED
    BY <2>2, <2>3 DEF Parent
<1> QED
  BY <1>2, <1>3

\* What the recursive query finds goes with its asset, at any depth.
LEMMA FoundIsBelow ==
  ASSUME TypeOK, NEW a \in AssetIds
  PROVE  GetDescendantIDs(a) \subseteq Subtree(a)
<1> SUFFICES ASSUME NEW b \in Existing, IsBelow(b, a, MaxDepth), NEW S \in SUBSET AssetIds,
                    a \in S, \A c \in Existing : Parent[c] \in S => c \in S, b \notin S
             PROVE  FALSE
  BY DEF GetDescendantIDs, Descendants, Subtree, Existing
<1>1. MaxDepth \in Nat /\ b \in AssetIds
  BY AssetsAssumption DEF AssetsAssumption, Existing
<1> DEFINE f == Ancestors(b, MaxDepth)
<1>2. Chain(f, b, MaxDepth) /\ \E n \in 1..MaxDepth : f[n] = a
  BY <1>1, ChainsExist
<1> HIDE DEF f
<1> DEFINE Good == {n \in 0..MaxDepth : f[n] \in S}
<1>3. PICK n \in Good : \A r \in Good : n <= r
  <2>1. Good \in SUBSET Nat /\ Good # {}
    BY <1>2
  <2> HIDE DEF Good
  <2> QED
    BY <2>1, Least
<1>4. n # 0
  BY <1>2 DEF Chain
<1>5. n - 1 \in 0..MaxDepth /\ f[n - 1] \notin S
  <2>1. n \in 0..MaxDepth /\ n - 1 \in 0..MaxDepth /\ ~(n <= n - 1)
    BY <1>1, <1>4
  <2>2. n - 1 \notin Good
    BY <1>3, <2>1
  <2> QED
    BY <2>1, <2>2
<1>6. f[n] = Parent[f[n - 1]] /\ f[n - 1] \in AssetIds \cup {NoAsset} /\ f[n] \in S
  BY <1>1, <1>2, <1>4, <1>5, ChainsTyped DEF Chain
<1>7. f[n - 1] \in Existing
  <2>1. NoAsset \notin AssetIds
    BY DEF AssetIds, NoAsset
  <2>2. f[n - 1] \in AssetIds /\ Parent[f[n - 1]] = assets[f[n - 1]].parent
    BY <1>6, <2>1 DEF Parent
  <2>3. assets[f[n - 1]] # NoRow
    BY <1>6, <2>1, <2>2 DEF NoRow
  <2> QED
    BY <2>2, <2>3 DEF Existing
<1> QED
  BY <1>5, <1>6, <1>7

\* And when no tree is deeper than the query goes, nothing else does.
LEMMA SubtreeIsFound ==
  ASSUME TypeOK, Shallow, NEW a \in AssetIds
  PROVE  Subtree(a) = {a} \cup GetDescendantIDs(a)
<1> DEFINE S == {a} \cup GetDescendantIDs(a)
<1>1. S \in SUBSET AssetIds
  BY FindsExisting DEF GetDescendantIDs, Existing
<1>2. ASSUME NEW c \in Existing, Parent[c] \in S
      PROVE  c \in S
  <2>1. Parent[c] = assets[c].parent
    BY DEF Parent, Existing, AssetIds, NoAsset
  <2> QED
    BY <1>2, <2>1, ShallowFound DEF QueryFindsAll
<1>3. Subtree(a) \subseteq S
  <2>1. a \in S
    OBVIOUS
  <2> HIDE DEF S
  <2> QED
    BY <1>1, <1>2, <2>1 DEF Subtree
<1>4. a \in Subtree(a)
  BY DEF Subtree
<1> QED
  BY <1>3, <1>4, FoundIsBelow

\* GetDescendantIDs never finds anything outside the subtree that a deletion of its
\* asset takes along: no share, revocation or eviction that relies on it reaches
\* an asset elsewhere.
THEOREM ReachesInside ==
  Spec => [](\A a \in AssetIds : GetDescendantIDs(a) \subseteq Subtree(a))
<1>1. IInv => \A a \in AssetIds : GetDescendantIDs(a) \subseteq Subtree(a)
  BY FoundIsBelow DEF IInv
<1> QED
  BY <1>1, Invariance, PTL

\* As long as no tree is deeper than the recursive query goes, the query in a
\* deletion finds exactly what ON DELETE CASCADE removes with the asset.
THEOREM CascadeIsFound ==
  Spec /\ []Shallow => [](\A a \in AssetIds : Subtree(a) = {a} \cup GetDescendantIDs(a))
<1>1. IInv /\ Shallow => \A a \in AssetIds : Subtree(a) = {a} \cup GetDescendantIDs(a)
  BY SubtreeIsFound DEF IInv
<1> QED
  BY <1>1, Invariance, PTL

-----------------------------------------------------------------------------
(* Deletions.  What ON DELETE CASCADE removes was found before, or created
   since. *)

Found(p) == {b \in AssetIds : KeysOf({b}) \subseteq req[p].evict}

ClosedBelow(S) == \A b \in Existing : assets[b].parent \in S => b \in S

\* The ids above n have been generated while the deletion was about to delete.
Closes(p, n) ==
  /\ (n + 1)..last \subseteq missed
  /\ ClosedBelow({req[p].asset} \cup Found(p) \cup (n + 1)..MaxAssets)

DeletionsClose == \A p \in Procs : At(p, "delete") => \E n \in 0..last : Closes(p, n)

\* A deletion is set up by loading the row, which it holds from then on, and for a
\* folder by finding the keys.
LEMMA ReachesDelete ==
  ASSUME IInv, [Next]_vars, NEW p \in Procs, req'[p].pc \in {"find", "delete"},
         req'[p] # req[p]
  PROVE  /\ UNCHANGED tables
         /\ \/ DeleteFind(p)
            \/ /\ Live(req[p].asset) /\ req'[p].row = assets[req[p].asset]
               /\ req'[p].asset = req[p].asset /\ req'[p].evict = req[p].evict
               /\ req[p].pc = "load"
               /\ req'[p].pc = "delete" => assets[req[p].asset].type # "folder"
<1>1. req \in [Procs -> Request] /\ req[p] \in Request /\ Knows(p)
  BY DEF IInv, RequestsKnow
<1>2. Begin(p) \/ Serve(p) \/ Abort(p)
  BY OthersStay DEF Next, Expire, TeamChange, vars
<1>3. ~Finish(p, "ok") /\ ~Finish(p, "forbidden") /\ ~Finish(p, "fail")
  BY <1>1 DEF Finish, Idle
<1>4. ASSUME NEW pc, pc \notin {"find", "delete"}, Goto(p, pc)
      PROVE  FALSE
  BY <1>1, <1>4 DEF Goto, Request
<1>5. ASSUME NEW pc, NEW STATE row, req' = [req EXCEPT ![p].pc = pc, ![p].row = row]
      PROVE  req'[p].pc = pc /\ req'[p].asset = req[p].asset
  BY <1>1, <1>5 DEF Request
<1>6. ASSUME NEW pc, NEW STATE list, req' = [req EXCEPT ![p].pc = pc, ![p].list = list]
      PROVE  req'[p].pc = pc
  BY <1>1, <1>6 DEF Request
<1>7. ~Begin(p)
  <2>1. Begin(p) => \E i \in Inputs : req'[p].pc = FirstPc(i)
    BY <1>1 DEF Begin, Idle
  <2> QED
    BY <2>1 DEF FirstPc
<1>8. ~(GetCached(p) \/ GetDb(p) \/ GetFill(p) \/ GetAclCached(p) \/ GetAclDb(p) \/ GetAclFill(p)
          \/ GetManager(p))
  BY <1>3, <1>4, <1>5, <1>6
     DEF GetCached, GetDb, GetFill, GetAclCached, GetAclDb, GetAclFill, GetManager, WithRow, WithList
<1>9. ~LoadForWrite(p)
  <2> DEFINE row == assets[req[p].asset]
  <2>1. LoadForWrite(p) =>
          \/ Finish(p, "fail")
          \/ \E pc \in {"check", "insert", "update"} : req' = [req EXCEPT ![p].pc = pc, ![p].row = row]
    BY DEF LoadForWrite
  <2> QED
    BY <1>3, <1>5, <2>1
<1>10. ~(CheckAcl(p) \/ ShareTarget(p) \/ Publish(p) \/ Abort(p))
  BY <1>3, <1>4 DEF CheckAcl, ShareTarget, Publish, Abort
<1>11. ~(InsertAsset(p) \/ UpdateRow(p) \/ DeleteRow(p) \/ ShareTx(p) \/ RevokeTx(p))
  BY <1>3, CommitsKeys, KeysCommitted
<1>12. ~Evict(p)
  BY <1>3, EvictOne
<1>13. ASSUME LoadOwned(p)
       PROVE  /\ Live(req[p].asset) /\ req'[p].row = assets[req[p].asset]
              /\ req'[p].asset = req[p].asset /\ req'[p].evict = req[p].evict
              /\ req[p].pc = "load"
              /\ req'[p].pc = "delete" => assets[req[p].asset].type # "folder"
  <2> DEFINE row == assets[req[p].asset]
             next == CASE req[p].op = "share" -> "target"
                       [] req[p].op = "revoke" -> "revoke"
                       [] req[p].op = "delete" -> IF row.type = "folder" THEN "find" ELSE "delete"
  <2>1. Live(req[p].asset) /\ req' = [req EXCEPT ![p].pc = next, ![p].row = row]
    BY <1>3, <1>13 DEF LoadOwned
  <2>2. req[p].op \in {"delete", "share", "revoke"} /\ req[p].pc = "load"
    BY <1>13 DEF LoadOwned, At
  <2>3. /\ req'[p].pc = next /\ req'[p].asset = req[p].asset /\ req'[p].evict = req[p].evict
        /\ req'[p].row = row
    <3> HIDE DEF next, row
    <3> QED
      BY <1>1, <2>1 DEF Request
  <2>4. req'[p].pc = "delete" => row.type # "folder"
    BY <2>2, <2>3
  <2> QED
    BY <2>1, <2>2, <2>3, <2>4
<1>14. DeleteFind(p) \/ LoadOwned(p)
  BY <1>2, <1>7, <1>8, <1>9, <1>10, <1>11, <1>12 DEF Serve
<1> QED
  BY <1>13, <1>14 DEF DeleteFind, LoadOwned

\* Below a generated id there are only generated ids.
LEMMA ParentsGenerated ==
  ASSUME IInv, NEW b \in Existing, NEW S, NoAsset \notin S
  PROVE  /\ b \in 1..last /\ last \in Nat /\ b \in AssetIds
         /\ assets[b].parent \in S => /\ assets[b].parent \in 1..last
                                      /\ assets[assets[b].parent].type = "folder"
  BY AssetsAssumption DEF IInv, TypeOK, TreeWellFormed, Existing, Live, AssetsAssumption

\* DeletionsClose is inductive as long as the query finds all.
LEMMA DeletionsCloseStep ==
  ASSUME EvictionsDone, IInv, KeysHeld, QueryFindsAll, DeletionsClose, Next
  PROVE  DeletionsClose'
<1> SUFFICES ASSUME NEW p \in Procs, req'[p].pc = "delete"
             PROVE  \E n \in 0..last' : Closes(p, n)'
  BY DEF DeletionsClose, At
<1>1. /\ last \in Nat /\ last' \in Nat /\ last <= last' /\ IInv'
      /\ \/ last' = last
         \/ last' = last + 1 /\ \E q \in Procs : InsertAsset(q)
  BY LastGrows, NextIInv
<1>2. CASE req'[p] = req[p]
  <2>1. PICK n \in 0..last : Closes(p, n)
    BY <1>2 DEF DeletionsClose, At
  <2> DEFINE S == {req[p].asset} \cup Found(p) \cup (n + 1)..MaxAssets
  <2>2. S' = S
    BY <1>2 DEF Found
  <2>3. (n + 1)..last' \subseteq missed'
    <3>1. missed' = missed \cup {a \in (last + 1)..last' : \E q \in Procs : At(q, "delete")}
      BY DEF Next, History
    <3>2. At(p, "delete")
      BY <1>2 DEF At
    <3> QED
      BY <1>1, <2>1, <3>1, <3>2 DEF Closes
  <2>4. ASSUME NEW b \in Existing', assets'[b].parent \in S
        PROVE  b \in S
    <3>1. b \in 1..last' /\ b \in AssetIds /\ assets'[b] # NoRow
      BY <1>1, <2>4 DEF IInv, TreeWellFormed, Existing
    <3>2. CASE b \in 1..last
      <4>1. assets[b] # NoRow /\ assets'[b].parent = assets[b].parent
        BY <3>1, <3>2, RowsStay
      <4> QED
        BY <2>1, <2>4, <3>1, <4>1 DEF Closes, ClosedBelow, Existing
    <3>3. CASE b \notin 1..last
      <4>1. b \in (n + 1)..MaxAssets
        BY AssetsAssumption, <1>1, <3>1, <3>3 DEF AssetIds, AssetsAssumption
      <4> QED
        BY <4>1
    <3> QED
      BY <3>2, <3>3
  <2>5. Closes(p, n)'
    BY <2>2, <2>3, <2>4 DEF Closes, ClosedBelow
  <2>6. n \in 0..last'
    BY <1>1
  <2> QED
    BY <2>5, <2>6
<1>3. CASE req'[p] # req[p]
  <2>1. /\ assets' = assets /\ last' = last
        /\ \/ DeleteFind(p)
           \/ /\ Live(req[p].asset) /\ assets[req[p].asset].type # "folder"
              /\ req'[p].asset = req[p].asset /\ req'[p].evict = req[p].evict
              /\ req[p].pc = "load"
    BY <1>3, ReachesDelete DEF tables
  <2>2. (last + 1)..last' \subseteq missed'
    BY <1>1, <2>1
  <2> DEFINE a == req[p].asset
  <2>3. CASE DeleteFind(p)
    <3>1. a \in AssetIds /\ req'[p].asset = a /\ req'[p].evict = KeysOf(GetDescendantIDs(a))
      BY <2>3, FindKeys
    <3>2. GetDescendantIDs(a) \subseteq AssetIds
      BY FindsExisting DEF GetDescendantIDs, Existing
    <3>3. Found(p)' = GetDescendantIDs(a)
      <4>1. ASSUME NEW b \in AssetIds, NEW D
            PROVE  KeysOf({b}) \subseteq KeysOf(D) <=> b \in D
        <5>1. <<"asset", b>> \in KeysOf({b})
          BY DEF KeysOf
        <5>2. b \notin D => <<"asset", b>> \notin KeysOf(D)
          BY DEF KeysOf
        <5>3. b \in D => KeysOf({b}) \subseteq KeysOf(D)
          BY DEF KeysOf
        <5> QED
          BY <5>1, <5>2, <5>3
      <4> QED
        BY <3>1, <3>2, <4>1 DEF Found
    <3> DEFINE S == {a} \cup GetDescendantIDs(a) \cup (last + 1)..MaxAssets
    <3>4. ASSUME NEW b \in Existing, assets[b].parent \in S
          PROVE  b \in S
      <4>1. NoAsset \notin S
        BY <1>1, <3>1, <3>2 DEF AssetIds, NoAsset
      <4>2. assets[b].parent \in 1..last
        BY <3>4, <4>1, ParentsGenerated
      <4>3. assets[b].parent \in {a} \cup GetDescendantIDs(a)
        BY <1>1, <3>4, <4>2
      <4> QED
        BY <3>1, <4>3 DEF QueryFindsAll
    <3>5. Existing' = Existing
      BY <2>1 DEF Existing
    <3>6. Closes(p, last)'
      BY <2>1, <2>2, <3>1, <3>3, <3>4, <3>5 DEF Closes, ClosedBelow
    <3> QED
      BY <1>1, <2>1, <3>6
  <2>4. CASE /\ Live(a) /\ assets[a].type # "folder"
             /\ req'[p].asset = a /\ req'[p].evict = req[p].evict
             /\ req[p].pc = "load"
    <3> DEFINE S == {a} \cup Found(p)' \cup (last + 1)..MaxAssets
    <3>1. a \in AssetIds
      BY <2>4 DEF Live
    <3>2. req'[p].evict = {}
      BY <2>4 DEF KeysHeld
    <3>3. Found(p)' = {}
      <4>1. ASSUME NEW b \in AssetIds
            PROVE  ~(KeysOf({b}) \subseteq {})
        <5>1. <<"asset", b>> \in KeysOf({b})
          BY DEF KeysOf
        <5> QED
          BY <5>1
      <4> QED
        BY <3>2, <4>1 DEF Found
    <3>4. ASSUME NEW b \in Existing, assets[b].parent \in S
          PROVE  FALSE
      <4>1. NoAsset \notin S
        BY <1>1, <3>1, <3>3 DEF AssetIds, NoAsset
      <4>2. assets[b].parent \in 1..last /\ assets[assets[b].parent].type = "folder"
        BY <3>4, <4>1, ParentsGenerated
      <4>3. assets[b].parent = a
        BY <1>1, <3>3, <3>4, <4>2
      <4> QED
        BY <2>4, <4>2, <4>3
    <3>5. Existing' = Existing
      BY <2>1 DEF Existing
    <3>6. Closes(p, last)'
      BY <2>1, <2>2, <2>4, <3>4, <3>5 DEF Closes, ClosedBelow
    <3> QED
      BY <1>1, <2>1, <3>6
  <2> QED
    BY <2>1, <2>3, <2>4
<1> QED
  BY <1>2, <1>3

\* What a deletion deletes it evicts, but for what was created since it looked.
LEMMA DeletedIsCovered ==
  ASSUME EvictionsDone, IInv, DeletionsClose, Next, NEW p \in Procs, DeleteRow(p),
         NEW key \in Keys, key[2] \in Subtree(req[p].asset), key[2] \in 1..last
  PROVE  Owed(key)' \/ key[2] \in missed'
<1> DEFINE a == req[p].asset
           b == key[2]
           keys == req[p].evict \cup KeysOf({a})
<1>1. /\ last \in Nat /\ a \in AssetIds /\ At(p, "delete")
      /\ b \in AssetIds /\ key[1] \in {"asset", "acl"} /\ key = <<key[1], b>>
  <2>1. a \in AssetIds
    BY Commitments
  <2>2. At(p, "delete")
    BY DEF DeleteRow
  <2> QED
    BY <2>1, <2>2 DEF IInv, TypeOK, Keys
<1>2. PICK n \in 0..last : Closes(p, n)
  BY <1>1 DEF DeletionsClose
<1> DEFINE S == {a} \cup Found(p) \cup (n + 1)..MaxAssets
<1>3. b \in S
  <2>1. S \in SUBSET AssetIds
    BY <1>1, AssetsAssumption DEF Found, AssetIds, AssetsAssumption
  <2>2. ASSUME NEW c \in Existing, Parent[c] \in S
        PROVE  c \in S
    <3>1. Parent[c] = assets[c].parent
      BY <2>2 DEF Parent, Existing, AssetIds, NoAsset
    <3> QED
      BY <1>2, <2>2, <3>1 DEF Closes, ClosedBelow
  <2>3. a \in S
    OBVIOUS
  <2> HIDE DEF S
  <2> QED
    BY <2>1, <2>2, <2>3 DEF Subtree
<1>4. CASE b \in {a} \cup Found(p)
  <2>1. key \in KeysOf({b})
    BY <1>1 DEF KeysOf
  <2>2. key \in keys
    BY <1>4, <2>1 DEF Found
  <2>3. Committed(p, a, keys) /\ keys \in SUBSET Keys
    BY <1>1, Commitments
  <2> HIDE DEF keys
  <2>4. req'[p].evict = keys /\ req'[p].pc \in {"publish", "evict"}
    BY <1>1, <2>2, <2>3, KeysCommitted DEF EvictionsDone
  <2> QED
    BY <2>2, <2>4 DEF Owed, InFlight
<1>5. CASE b \in (n + 1)..MaxAssets
  <2>1. b \in (n + 1)..last
    BY <1>1, <1>5
  <2> QED
    BY <1>2, <2>1 DEF Closes, Next, History
<1> QED
  BY <1>3, <1>4, <1>5

\* GoneIsEvicted is inductive with it.
LEMMA GoneIsEvictedStep ==
  ASSUME EvictionsDone, IInv, CachesKnown, StaleOnlyIfLate, DeletionsClose, GoneIsEvicted, [Next]_vars
  PROVE  GoneIsEvicted'
<1> SUFFICES ASSUME NEW key \in Keys, Stale(key)', ~Live(key[2])'
             PROVE  Owed(key)' \/ key \in late' \/ key[2] \in missed'
  BY DEF GoneIsEvicted
<1>1. missed \subseteq missed'
  BY DEF Next, History, vars
<1>2. CASE Stale(key)
  BY <1>1, <1>2, CoveredStays DEF StaleOnlyIfLate, GoneIsEvicted, CachesKnown
<1>3. ASSUME ~Stale(key), NEW p \in Procs, DeleteRow(p), key[2] \in Subtree(req[p].asset)
      PROVE  Owed(key)' \/ key[2] \in missed'
  <2>1. UNCHANGED <<rowCache, aclCache>>
    BY <1>3 DEF DeleteRow, caches
  <2>2. Cached(key)
    BY <2>1 DEF Stale, Cached
  <2>3. key[2] \in 1..last
    BY <2>2 DEF CachesKnown, CachedExist
  <2>4. Next
    <3>1. req'[p] # req[p]
      <4>1. InFlight(p) /\ req[p].pc = "delete"
        BY <1>3 DEF DeleteRow, At, InFlight
      <4>2. Committed(p, req[p].asset, req[p].evict \cup KeysOf({req[p].asset}))
        BY <1>3 DEF DeleteRow
      <4>3. /\ req[p].asset \in AssetIds
            /\ req[p].evict \cup KeysOf({req[p].asset}) \in SUBSET Keys
        BY <1>3, Commitments
      <4>4. req'[p].pc # "delete"
        <5> DEFINE keys == req[p].evict \cup KeysOf({req[p].asset})
        <5>1. keys \in SUBSET Keys /\ Committed(p, req[p].asset, keys)
          BY <4>2, <4>3
        <5> HIDE DEF keys
        <5> QED
          BY <4>3, <5>1, KeysCommitted
      <4> QED
        BY <4>1, <4>4
    <3> QED
      BY <3>1 DEF vars
  <2> QED
    BY <1>3, <2>3, <2>4, DeletedIsCovered
<1> QED
  BY <1>2, <1>3, TurnsStale DEF CachesKnown

\* When neither Redis nor a process fails and no tree is deeper than the recursive
\* query goes, a deletion evicts whatever it deletes, all of the subtree: what
\* stays cached was stored by a late read, or was created behind its back.
THEOREM GoneValuesAreLate ==
  ASSUME EvictionsDone
  PROVE  Spec /\ []Shallow => []GoneIsEvicted
<1>1. Init => DeletionsClose /\ GoneIsEvicted
  <2> SUFFICES ASSUME Init PROVE DeletionsClose /\ GoneIsEvicted
    OBVIOUS
  <2>1. DeletionsClose
    BY DEF Init, DeletionsClose, At, Idle
  <2>2. GoneIsEvicted
    BY DEF Init, GoneIsEvicted, Stale, Cached, Keys
  <2> QED
    BY <2>1, <2>2
<1>2. IInv /\ CachesKnown /\ QueryFindsAll /\ DeletionsClose /\ [Next]_vars => DeletionsClose'
  <2> SUFFICES ASSUME IInv, CachesKnown, QueryFindsAll, DeletionsClose, [Next]_vars
               PROVE  DeletionsClose'
    OBVIOUS
  <2>1. CASE Next
    BY <2>1, DeletionsCloseStep DEF CachesKnown
  <2>2. CASE UNCHANGED vars
    BY <2>2 DEF vars, tables, DeletionsClose, At, Closes, ClosedBelow, Found, Existing
  <2> QED
    BY <2>1, <2>2
<1>3. IInv /\ CachesKnown /\ StaleOnlyIfLate /\ DeletionsClose /\ GoneIsEvicted /\ [Next]_vars
        => GoneIsEvicted'
  BY GoneIsEvictedStep
<1>4. Shallow => QueryFindsAll
  BY ShallowFound
<1> QED
  BY <1>1, <1>2, <1>3, <1>4, CachesInvariance, StaleValuesAreLate, PTL DEF Spec

-----------------------------------------------------------------------------
(* Deletions are announced. *)

TopFolders == {a \in DOMAIN InitRows : InitRows[a].parent = NoAsset}

\* Kafka takes the event, no process stops, and the event is recorded.
AnnouncementsSent ==
  "kafka" \notin Faults /\ "crash" \notin Faults /\ "FOLDER_DELETED" \in Observed

\* A committed deletion on its way to the announcement.
Announcing(p, a) ==
  /\ req[p].op = "delete" /\ req[p].asset = a /\ req[p].row.type = "folder"
  /\ req[p].pc \in {"evict", "publish"}

Announced(a) == <<"FOLDER_DELETED", a>> \in published \/ \E p \in Procs : Announcing(p, a)

\* A top folder stays one as long as it is there, its deletions know it for a
\* folder, and once it has gone it is announced.
FoldersAnnouncing ==
  \A a \in TopFolders :
    /\ a \in 1..last
    /\ Live(a) => assets[a].parent = NoAsset /\ assets[a].type = "folder"
    /\ \A p \in Procs :
         req[p].pc \in {"find", "delete"} /\ req[p].asset = a => req[p].row.type = "folder"
    /\ ~Live(a) => Announced(a)

\* Only its own deletion deletes a top folder.
LEMMA TopsGoAlone ==
  ASSUME IInv, NEW a \in AssetIds, assets[a].parent = NoAsset, NEW b \in AssetIds,
         a \in Subtree(b)
  PROVE  a = b
<1> SUFFICES ASSUME a # b PROVE FALSE
  OBVIOUS
<1> DEFINE S == AssetIds \ {a}
<1>1. Parent[a] = NoAsset /\ NoAsset \notin AssetIds
  BY DEF Parent, AssetIds, NoAsset
<1>2. S \in SUBSET AssetIds /\ b \in S
  OBVIOUS
<1>3. \A c \in Existing : Parent[c] \in S => c \in S
  BY <1>1 DEF Existing
<1> HIDE DEF S
<1>4. a \in S
  BY <1>2, <1>3 DEF Subtree
<1> QED
  BY <1>4 DEF S

\* A deletion that has committed goes on until its event is recorded.
LEMMA AnnouncingStays ==
  ASSUME AnnouncementsSent, IInv, [Next]_vars, NEW p \in Procs, NEW a \in AssetIds, Announcing(p, a)
  PROVE  Announced(a)'
<1>1. CASE req'[p] = req[p]
  BY <1>1 DEF Announcing, Announced
<1>2. CASE Evict(p)
  <2>1. Publishes(req[p])
    BY DEF Announcing, Publishes
  <2>2. /\ req'[p].pc \in {"evict", "publish"} /\ req'[p].op = req[p].op
        /\ req'[p].asset = req[p].asset /\ req'[p].row = req[p].row
    BY <1>2, <2>1, EvictOne DEF Announcing
  <2> QED
    BY <2>2 DEF Announcing, Announced
<1>3. CASE Publish(p)
  <2>1. PICK sent \in Delivered("kafka") :
          published' = published \cup
            {e \in {<<EventOf(req[p].op), req[p].asset>>} : sent /\ e[1] \in Observed}
    BY <1>3 DEF Publish
  <2>2. sent = TRUE
    BY <2>1 DEF AnnouncementsSent, Delivered
  <2>3. EventOf(req[p].op) = "FOLDER_DELETED" /\ req[p].asset = a
    BY DEF Announcing, EventOf
  <2> QED
    BY <2>1, <2>2, <2>3 DEF AnnouncementsSent, Announced
<1>4. CASE /\ Begin(p) \/ Serve(p) \/ Abort(p)
           /\ ~(Evict(p) \/ Publish(p))
  BY <1>4
     DEF Announcing, AnnouncementsSent, Begin, InFlight, Serve, Abort, GetCached, GetDb, GetFill,
         GetAclCached, GetAclDb, GetAclFill, GetManager, LoadForWrite, LoadOwned, CheckAcl, InsertAsset,
         UpdateRow, DeleteFind, DeleteRow, ShareTarget, ShareTx, RevokeTx, At
<1>5. req'[p] = req[p] \/ Begin(p) \/ Serve(p) \/ Abort(p)
  BY OthersStay DEF Next, Expire, TeamChange, vars
<1> QED
  BY <1>1, <1>2, <1>3, <1>4, <1>5

\* A folder disappears by a deletion of it or of a folder above it.
LEMMA OnlyDeletionsRemove ==
  ASSUME IInv, [Next]_vars, NEW a \in AssetIds, Live(a), ~Live(a)'
  PROVE  \E p \in Procs : DeleteRow(p) /\ a \in Subtree(req[p].asset)
<1>1. assets \in [AssetIds -> Row \cup {NoRow}] /\ assets[a] \in Row /\ NoRow \notin Row
  BY AssetsAssumption DEF IInv, TypeOK, Live, AssetsAssumption, Row, NoRow
<1>2. assets'[a] = NoRow
  BY DEF Live
<1>3. ASSUME NEW p \in Procs, InsertAsset(p)
      PROVE  FALSE
  <2>1. assets' = assets \/ \E row : assets' = [assets EXCEPT ![last + 1] = row]
    BY <1>3 DEF InsertAsset
  <2>2. a # last + 1
    BY <1>1 DEF IInv, TreeWellFormed, TypeOK, Existing
  <2> QED
    BY <1>1, <1>2, <2>1, <2>2
<1>4. ASSUME NEW p \in Procs, UpdateRow(p)
      PROVE  FALSE
  <2>1. assets' = assets \/ \E t \in Titles : assets' = [assets EXCEPT ![req[p].asset].title = t]
    BY <1>4 DEF UpdateRow
  <2>2. CASE assets' = assets
    BY <1>1, <1>2, <2>2
  <2>3. ASSUME NEW t \in Titles, assets' = [assets EXCEPT ![req[p].asset].title = t]
        PROVE  FALSE
    <3>1. assets'[a] = assets[a] \/ assets'[a] = [assets[a] EXCEPT !.title = t]
      BY <1>1, <2>3
    <3>2. [assets[a] EXCEPT !.title = t] \in Row
      BY <1>1 DEF Row
    <3> QED
      BY <1>1, <1>2, <3>1, <3>2
  <2> QED
    BY <2>1, <2>2, <2>3
<1>5. ASSUME NEW p \in Procs, DeleteRow(p)
      PROVE  a \in Subtree(req[p].asset)
  BY <1>1, <1>2, <1>5 DEF DeleteRow
<1>6. ASSUME NEW p \in Procs, ShareTx(p) \/ RevokeTx(p)
      PROVE  FALSE
  BY <1>1, <1>2, <1>6 DEF ShareTx, RevokeTx
<1> QED
  BY <1>1, <1>2, <1>3, <1>4, <1>5, <1>6, TablesChange

\* FoldersAnnouncing is inductive when Kafka takes every event.
LEMMA FoldersAnnouncingStep ==
  ASSUME AnnouncementsSent, IInv, FoldersAnnouncing, [Next]_vars
  PROVE  FoldersAnnouncing'
<1> SUFFICES ASSUME NEW a \in TopFolders
             PROVE  /\ a \in 1..last'
                    /\ Live(a)' => assets'[a].parent = NoAsset /\ assets'[a].type = "folder"
                    /\ \A p \in Procs :
                         req'[p].pc \in {"find", "delete"} /\ req'[p].asset = a
                           => req'[p].row.type = "folder"
                    /\ ~Live(a)' => Announced(a)'
  BY DEF FoldersAnnouncing, TopFolders
<1>1. a \in 1..last /\ a \in AssetIds
  BY AssetsAssumption DEF FoldersAnnouncing, IInv, TypeOK, AssetIds, AssetsAssumption
<1>2. a \in 1..last'
  BY <1>1, LastGrows
<1>3. ASSUME Live(a)'
      PROVE  Live(a) /\ assets'[a].parent = NoAsset /\ assets'[a].type = "folder"
  BY <1>1, <1>3, RowsStay DEF Live, FoldersAnnouncing
<1>4. ASSUME NEW p \in Procs, req'[p].pc \in {"find", "delete"}, req'[p].asset = a
      PROVE  req'[p].row.type = "folder"
  <2>1. CASE req'[p] = req[p]
    BY <1>4, <2>1 DEF FoldersAnnouncing
  <2>2. CASE DeleteFind(p)
    <3>1. req[p].pc = "find" /\ req[p].asset = a /\ req'[p].row = req[p].row
      BY <1>4, <2>2, FindKeys DEF DeleteFind, At
    <3> QED
      BY <3>1 DEF FoldersAnnouncing
  <2>3. CASE req'[p] # req[p] /\ ~DeleteFind(p)
    <3>1. Live(req[p].asset) /\ req'[p].row = assets[req[p].asset] /\ req'[p].asset = req[p].asset
      BY <1>4, <2>3, ReachesDelete
    <3> QED
      BY <1>4, <3>1 DEF FoldersAnnouncing
  <2> QED
    BY <2>1, <2>2, <2>3
<1>5. ASSUME ~Live(a)'
      PROVE  Announced(a)'
  <2>1. CASE Live(a)
    <3>1. PICK p \in Procs : DeleteRow(p) /\ a \in Subtree(req[p].asset)
      BY <1>1, <1>5, <2>1, OnlyDeletionsRemove
    <3>2. req[p].asset \in AssetIds /\ req[p].pc = "delete" /\ req[p].op = "delete"
      <4>1. req[p].pc = "delete"
        BY <3>1 DEF DeleteRow, At
      <4>2. req[p].op \in OpsAt("delete")
        BY <4>1, Writing DEF Cleared
      <4> QED
        BY <3>1, <4>1, <4>2, Commitments DEF OpsAt
    <3>3. req[p].asset = a
      BY <1>1, <2>1, <3>1, <3>2, TopsGoAlone DEF FoldersAnnouncing
    <3>4. req[p].row.type = "folder"
      BY <3>2, <3>3 DEF FoldersAnnouncing
    <3> DEFINE keys == req[p].evict \cup KeysOf({a})
    <3>5. Committed(p, a, keys) /\ keys \in SUBSET Keys
      BY <3>1, <3>2, <3>3, Commitments
    <3>6. keys # {}
      <4>1. <<"asset", a>> \in KeysOf({a})
        BY DEF KeysOf
      <4> QED
        BY <4>1
    <3> HIDE DEF keys
    <3>7. /\ req'[p].op = req[p].op /\ req'[p].asset = a /\ req'[p].row = req[p].row
          /\ req'[p].pc = "evict"
      BY <1>1, <3>2, <3>5, <3>6, KeysCommitted DEF AnnouncementsSent
    <3> QED
      BY <3>2, <3>4, <3>7 DEF Announced, Announcing
  <2>2. CASE ~Live(a)
    <3>1. CASE <<"FOLDER_DELETED", a>> \in published
      <4>1. published \subseteq published'
        BY DEF Next, Begin, Serve, Abort, Expire, TeamChange, vars, GetCached, GetDb, GetFill,
               GetAclCached, GetAclDb, GetAclFill, GetManager, LoadForWrite, LoadOwned, CheckAcl,
               InsertAsset, UpdateRow, DeleteFind, DeleteRow, ShareTarget, ShareTx, RevokeTx, Publish,
               Evict
      <4> QED
        BY <3>1, <4>1 DEF Announced
    <3>2. ASSUME NEW p \in Procs, Announcing(p, a)
          PROVE  Announced(a)'
      BY <1>1, <3>2, AnnouncingStays
    <3> QED
      BY <2>2, <3>1, <3>2 DEF FoldersAnnouncing, Announced
  <2> QED
    BY <2>1, <2>2
<1> QED
  BY <1>2, <1>3, <1>4, <1>5

\* When Kafka takes the event and no process stops, a top folder that has gone was
\* announced or its deletion is still under way, whatever other deletions, shares
\* and updates of it run at the same time.
THEOREM FoldersAreAnnounced ==
  ASSUME AnnouncementsSent
  PROVE  Spec => []DeletedFolderAnnounced
<1>1. Init => FoldersAnnouncing
  <2> SUFFICES ASSUME Init, NEW a \in TopFolders
               PROVE  /\ a \in 1..last
                      /\ Live(a) /\ assets[a].parent = NoAsset /\ assets[a].type = "folder"
                      /\ \A p \in Procs : req[p].pc = "idle"
    BY DEF FoldersAnnouncing
  <2>1. InitRows \in Seq(Row) /\ Len(InitRows) <= MaxAssets /\ MaxAssets \in Nat
    BY AssetsAssumption DEF AssetsAssumption
  <2>2. a \in 1..Len(InitRows) /\ a \in AssetIds /\ InitRows[a] \in Row
    BY <2>1 DEF TopFolders, AssetIds
  <2>3. InitRows[a].parent = NoAsset /\ InitRows[a].type = "folder"
    BY AssetsAssumption DEF AssetsAssumption, TopFolders
  <2>4. assets[a] = InitRows[a] /\ last = Len(InitRows)
    BY <2>2 DEF Init, TopFolders
  <2>5. assets[a] # NoRow
    BY <2>3, <2>4 DEF NoRow
  <2> QED
    BY <2>2, <2>3, <2>4, <2>5 DEF Init, Idle, Live
<1>2. IInv /\ FoldersAnnouncing /\ [Next]_vars => FoldersAnnouncing'
  BY FoldersAnnouncingStep
<1>3. FoldersAnnouncing => DeletedFolderAnnounced
  BY DEF FoldersAnnouncing, DeletedFolderAnnounced, TopFolders, Announced, Announcing
<1> QED
  BY <1>1, <1>2, <1>3, Invariance, PTL DEF Spec
=============================================================================
