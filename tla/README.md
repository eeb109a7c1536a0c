# TLA+ verification of seta-training

Two Go services share PostgreSQL, Redis and Kafka. `auth-service` registers
users, imports them in bulk, and issues and revokes JWT sessions.
`core-service` keeps teams and assets (folders and notes), their sharing and
the caches in front of them, and follows the users through a Kafka topic. This
directory models what their requests and loops do to the shared state when they
interleave, fail half-way, stop and are retried. TLC checks it on small
instances, and TLAPS proves all of the safety part of it for any of them.

Paths below are relative to `src/`; `asset`, `team` are packages of
`core-service/internal`, `auth`, `user` of `auth-service/internal`.

## Inventory

| Component | State it keeps | Operations | Talks to |
|---|---|---|---|
| Assets (`asset`) | tables `assets`, `asset_acl`; Redis `asset:<id>`, `asset:<id>:acl` (5 min) | Create, GetByID, Update, Delete, Share, RevokeShare, List | teams (manager oversight), projection (sharee), topic `asset.changes` |
| Teams (`team`) | tables `teams`, `team_members`; Redis `team:<id>:members` (5 min) | CreateTeam, AddMember, RemoveMember, PromoteToManager, DemoteFromManager, GetMembers | projection, topic `team.activity` |
| Sessions (`auth`, both `middleware/jwt.go`) | table `refresh_tokens`; Redis `jwt:blacklist:<jti>`; tokens held by clients | Login, Refresh (with reuse detection), Logout, JWTAuth of each service | Redis shared by the two services |
| User import (`user`) | table `users`; jobs and results channels; the pool's goroutines | ImportFromCSV, Register | Kafka producer, topic `user.events` |
| Kafka producer (`initialize/kafka_producer.go`) | map of writers behind an RWMutex | Publish, Close | Kafka |
| User projection (`initialize/kafka.go`, `team/repository.go`) | table `users_projection`; offset of its consumer group | upsert, soft delete | topic `user.events` |
| Audit consumer (`initialize/audit_consumer.go`) | table `audit_log`; offsets of its consumer groups | insert | topics of teams and assets |
| JWKS cache (core `middleware/jwt.go`) | keys by `kid` behind an RWMutex | GetKey, refresh | auth-service over HTTP |
| Listing | none of its own | keyset pages of users, offset pages of assets | PostgreSQL |
| Routing, responses, configuration, start-up | none | | |

What makes each of them right, and what is hard about it:

* **Assets.** A request is a chain of separate calls: a check against the
  database, a statement or a transaction, an event, one eviction per key. The
  tree must stay whole when creations race deletions; a write needs a
  permission that existed while the request ran; evictions must cover every
  key a write makes false; a reader may store what it read before them.
* **Teams.** The same shape, with roles: only the creator makes managers, only
  managers change members, and the check, the upsert, the event and the
  eviction are four calls. The projection removes and restores users behind
  the cached lists.
* **Sessions.** Rotation is a query, an update and an insert without a
  transaction; logout is an update and a Redis SET. Rotations of one token,
  reuse detections and logouts interleave; answers are lost; Redis goes down
  and the two services disagree about what to do then.
* **User import.** Goroutines, two buffered channels and cancellation: nobody
  may wait for ever on a channel, and the summary must agree with the table.
* **Events.** Publishing follows the commit and only logs its failure, the
  producer's retries may write twice, and the consumers commit their offsets
  before they handle a record: what is lost must be lost in a known way, and
  what core-service knows of users must never run ahead of auth-service.
* **Keys.** Requests fetch and store keys concurrently and outside the lock,
  and a key is cached for as long as the process lives.
* **Listing.** A page is a statement of its own: rows come and go between two.

`PROJECT.json` lists the hazards one by one, at the line where they bite, with
the properties that cover them.

## Modules

| Module | Models | Extends |
|---|---|---|
| `Assets` | requests on assets, the tables, the caches, the events | |
| `Teams` | requests on teams, the tables, the cached lists, the events | |
| `Sessions` | token pairs, refresh, logout, both middlewares | |
| `UserImport` | `ImportFromCSV`, its workers and channels, `Register`, `KafkaProducer.Publish` | |
| `UserEvents` | both ends of the topics: `Register` and its event in auth-service, the projection's loop and the audit loops in core-service, with Kafka between them, crashes and restarts | |
| `Directory` | abstract: what the services promise each other about users | |
| `Pages` | a client walking through `GET /users` or `GET /assets` while rows come and go | |
| `KeyCache` | `JWKSClient` under concurrent requests and a replaced key pair | |
| `MCAssets`, `MCTeams`, `MCSessions`, `MCUserImport`, `MCUserEvents`, `MCPages`, `MCKeyCache` | instances for TLC | their component |
| `AssetsProofs`, `TeamsProofs`, `SessionsProofs`, `UserEventsProofs`, `UserImportProofs`, `PagesProofs` | theorems and their proofs | their component |
| `AssetsCaches` | the theorems about the caches, the announcements and the recursive query of assets | `AssetsProofs` |
| `UserImportSummary` | the theorems about the summary of an import and about its events | `UserImportProofs` |

`UserEvents` composes the two services over their topics and is shown to
implement `Directory`, with a user *registered* when the row is in `users` and
*known* when the projection has a row.

### How state and actions correspond to the code

In `Assets`, `Teams`, `Sessions` and `KeyCache` a request is a process with a
record: its program counter, its arguments and the values it has read and still
holds. `Begin` admits any request a client may send; then **one step is one
call** to PostgreSQL, Redis, Kafka or the other service together with the local
code up to the next call, early returns included. A transaction is one step,
its commit. The record goes back to idle when the response is sent. Handler
steps have the names of the functions or calls they stand for; `map` in
`PROJECT.json` gives the lines.

In `UserImport` one step is one channel operation, one critical section of the
producer or one external call of a goroutine.

In `UserEvents` the requests are `Register` alone, which is all that leads to
an event about a user, and core-service is its loops: `ReadMessage(t)` and the
handler of the record it returned, one after the other, a loop for each topic.
`Start` gives each reader the committed offset (or the first), `Stop` loses
what a loop was handling.

In `Pages` a request is two steps, `Count` and `FindPage`, and the walk asks for
the next page until one is not full. `GET /assets` takes any page number, so a
walk through the assets may begin at any of `Firsts`; a client that jumps to
another page begins another walk.

Failures are parameters:

* `"redis"`: a Redis call has no effect and its error is ignored (the caches),
  or Redis is down for a while (`redisUp`, sessions);
* `"kafka"`: an event is lost and only logged; in `UserEvents` also written
  twice by the retries of the writer, and a commit of an offset may fail, with
  or without its effect;
* `"crash"`: the answer of a committed statement is lost, so the request fails
  after its effect; and `Abort` ends a request between any two of its steps: a
  failed query, a client gone (every call of core-service uses the request's
  context, so evictions and events are skipped too) or a process that stopped;
* `"auth"`: auth-service fails after an INSERT, or dies before the event;
* `"stop"`: core-service stops at any time; it may start again;
* `"db"`: a query fails (in an import with or without its effect; in a loop the
  record is gone);
* `"http"`: the JWKS cannot be fetched.

History variables (`late`, `may`, `missed`, `absent`, `gone`, `parent`, `outTokens`,
`outPairs`, `stored`, `unsent`, `dropped`, `atStart`, `inserted`, `deleted`, `repeats`)
record what the properties need; no action reads them in a guard.

Abstractions:

* ids, users and titles are small sets; the content of a note is merged into
  its title; an access list and a member list are functions from users;
* the asset cache keeps the row and the list apart, as the code does, and a
  value that does not unmarshal does not occur;
* Redis expiry may come at any time once a key is set;
* whether the sharee exists in the projection is a free choice;
* whether the projection holds the caller of a creation, as the foreign key of
  `owner_id` requires, is a free choice too while the caller owns nothing and
  nobody shares with him (`Projected`);
* manager oversight, in `Assets`, is a set of pairs that team changes flip; in
  `Teams` it is `IsManagerOfMember`;
* a token is the pair it was signed in and its kind; signatures, issuer and
  audience are part of "the token parses", which is local to a request;
* the blacklist entry of a token disappears when the token expires, since its
  TTL is the token's remaining life;
* malformed CSV rows are those with a wrong number of fields; the sort of the
  errors is represented by collecting them in a set of rows;
* Kafka is external and modelled from how the code sets it up
  (`kafka-go`): messages without keys, a writer that balances them over the
  partitions, and readers with a `GroupID`, whose `ReadMessage` commits an
  offset before it returns the message. When the commit fails the message is
  not returned, and the reader goes on behind it until it is restarted. One
  process consumes for each group;
* in `Pages` the id of an asset is its place in the order of creation:
  `created_at` is taken as a total order. A user's id is a random UUID, so a
  registration may come before or after the cursor;
* key pairs of auth-service are numbered; a token is its `kid` and the pair
  that signed it.

## Runs

| Run | Instance | Shows |
|---|---|---|
| `AssetsWrites` | two request slots, two users, ids 1..3, a folder in a folder to begin with; all writes, lost answers and aborts | `TypeOK`, `TreeWellFormed`, `WriteAuthorised` |
| `AssetsReads` | a slot that reads a note two folders down (not as its owner) or deletes the topmost folder, a slot of the owner that creates and updates the note and deletes, shares or unshares the topmost folder, team changes, expiry, no failure; weak fairness | `TreeWellFormed`, `StaleOnlyIfLate`, `GoneIsEvicted`, `DeletedFolderAnnounced`, `EventuallyTruthful` |
| `AssetsRevoked` | a reader, shares and revocations | a violation of `RevokedUserLosesAccess` |
| `Teams` | the creator's slot and a manager's slot, one team, soft deletion of the manager, expiry, every failure; weak fairness | `TypeOK`, `StaleOnlyIfLate`, `EntitledSinceBegin`, `ManagersMadeByCreator`, `AddsOnlyAbsent`, `EventuallyTruthful` |
| `TeamsManagers` | the same slots, nobody leaves and nothing fails | a violation of `ManagersRemovedByCreator` |
| `Sessions` | one user, two pairs, two slots (rotate; rotate, log out, call either service), Redis failing, answers lost; weak fairness | `TypeOK`, `RotatedIsRevoked`, `LogoutIsFinal`, `RotatesOnlyValid`, `LoggedOutIsRefused`, `EventuallyRefused` |
| `SessionsReuse` | two users, three pairs, rotations only | a violation of `OneRotation` |
| `UserImport` | four rows, three of which name one user, clean or with a malformed row, two workers, a registration from outside, cancellation, failing queries; weak fairness | `TypeOK`, `SummaryIsExact`, `AnnouncedBeforeSummary`, `NobodyBlocks`, `OneWriter`, `EventuallyReturns` |
| `UserEvents` | two users, one registration at a time, `user.events` and one audited topic, one partition each, every failure; weak fairness | `TypeOK`, `NoDoubleRow`, `LossAccounted`, `DirectorySpec` (the refinement), `NeverStuck` |
| `UserEventsDowntime` | as above; core-service stops, nothing else fails | a violation of `RecoversMissed` |
| `Pages` | either list, six rows, pages of one to three, offsets of three bits, a walk through the assets from one of six pages on; weak fairness | `TypeOK`, `OmissionsBounded`, `RepeatsBounded`, `NeverWrapsMidway`, `WalkEnds` |
| `KeyCacheRotation` | two requests, two key pairs, the JWKS unreachable at times | a violation of `NewKeyPickedUp` |

### Bounds, and why they suffice

* Two concurrent requests in `Assets`, `Teams`, `Sessions`, `KeyCache`. Every
  property is about a request and what changes behind its back; one slot serves
  the requests that rely on something, the other, again and again, those that
  take it away, so any sequence of disturbances fits between two steps of the
  first.
* `MaxAssets`, `MaxTeams`, `MaxPairs`, `MaxKeys`, `MaxRows` bound the ids ever
  generated. They are guards on the steps that may generate one (`Valid`,
  `Begin`, `RoomToMint`, `NewKey`, `Ids \ rows`). Three assets make a
  grandchild, so that a deletion or a share of the topmost folder reaches past
  the one between, while another request works on that; two pairs make a rotation, three the double one; two key pairs make
  a replacement.
* `Observed` limits which events are recorded, to those the property of the
  run is about.
* `MaxDepth` is the 20 of the code, larger than any tree of the runs.
* In `UserImport` four rows and two workers leave rows in the channel after
  both workers have quit, which is what the capacity of the channel is for.
* In `UserEvents` one registration at a time is enough, because an INSERT is
  atomic and one user's event says nothing of another's; the two users are what
  makes a record lost between two others. `MaxEvents` bounds the audited topic
  only; `user.events` is bounded by the users. With two registrations at once
  (1.0 million states) or two partitions (4.3 million) the run no longer ends
  in its time, and the theorems below hold for any number of both.
* In `Pages` the width is a parameter because 2^31 rows are out of reach: with
  three bits an offset from four on is refused and one from eight on wraps, so a
  walk meets both. With pages of one to three rows the pages of `Firsts` begin a
  walk within the width, in the refused half of the range, and past the wrap:
  page 9 of one row is answered from offset 0, page 4 of three rows from offset 1.
  `MaxRows` leaves rows for the insertions and deletions during the walk.
  `Capped` stops a counter where the properties have been broken already.

The runs switch deadlock checking off: a system with no client request pending
stops, and a finished import or walk does nothing more.

### Fairness

`FairSpec` assumes weak fairness of `Serve(p)` for each request, of `Expire`
for each key or token, in `UserImport` of each goroutine, in `UserEvents` of
each consumer loop, and in `Pages` of the walk: the Go scheduler runs every
goroutine, each external call returns (with an answer or an error), and time
passes. No client has to send a request, Redis never has to come back, nobody
has to cancel, core-service never has to start, and the projection never has to
change.

`EventuallyTruthful` is conditional on the tables resting for good, because a
cache over tables that keep changing need never be right.
`EventuallyRefused` needs only expiry: tokens are bounded in number, so at last
none is alive. `NeverStuck` is conditional on core-service running from some
time on. `WalkEnds` needs the bound on the rows: a list that grows for ever may
be walked through for ever.

## Findings

1. **A revoked user can keep access through the cache** (`AssetsRevoked`,
   `asset/service.go:133`; `docs/tech-stack.md:184`): the eviction of a
   revocation is immediate, but a reader that listed the access entries before
   may store them after it. `StaleOnlyIfLate` says that this is the only way a
   completed write leaves a stale key of a live asset when no call fails, which
   is proved, and `EventuallyTruthful` that it heals.
2. **One refresh token can be rotated twice** (`SessionsReuse`,
   `auth/service.go:130` and `139`; `auth/service_test.go:147-150`). What still
   holds is proved: `RotatedIsRevoked`, `RotatesOnlyValid`.
3. **A manager can remove the creator** (`TeamsManagers`, `team/service.go:73`;
   `docs/stage_1_core_foundation.md:26`): the requirements reserve the removal of
   managers to the main manager, and `RemoveMember` asks only that its caller is
   a manager. `EntitledSinceBegin` therefore counts every manager as entitled to
   remove, as the code does.
4. **A stop loses the event in hand** (`UserEventsDowntime`,
   `initialize/kafka.go:28`; `docs/tech-stack.md:137`): the offset is committed
   before the event is handled, so it is not fetched again. `LossAccounted`
   lists all ways in which an event is lost.
5. **A new key is not picked up** (`KeyCacheRotation`,
   core `middleware/jwt.go:55`; `docs/tech-stack.md:210`): the `kid` never
   changes, and a cached key is never fetched again.

Noticed while modelling, without a run of their own:

* Sharing a folder stops at depth 20 (`db/acl.sql.go:52`) while the deletion of
  a folder does not; no document bounds the depth of folders.
* `AddMember` checks that the target is no member (`team/service.go:51`), then
  that the target exists (`56`), and upserts later (`61`). An addition may
  overwrite a manager in two ways: a promotion commits in between, or the manager
  was soft-deleted at the first look, which joins the projection, and restored
  before the second. `AddsOnlyAbsent` says that there is no third, and
  `ManagersMadeByCreator` that no addition makes a manager.
* `GET /assets?limit=100&page=42949674` is answered from offset 4, since
  `(page-1)*limit` is cut to 32 bits (`asset/service.go:258`) and nothing bounds
  the page (`asset/handler.go:144-149`); `page=21474838` gives a negative offset,
  which PostgreSQL refuses. No document bounds the page. `NeverWrapsMidway` says
  that only a walk which begins past 2^32 rows is answered that way.
* A deletion asks for the descendants before it deletes (`asset/service.go:185`),
  so what is created in the folder in between goes with it, but its keys, if
  read meanwhile, stay until they expire. `GoneIsEvicted` says that nothing
  else does, late readers apart.
* A row with a wrong number of fields aborts an import (`user/service.go:222`),
  while `docs/tech-stack.md:161` says that a single bad row should not.

## Proofs

The proof modules prove the following for every value of the constants, under
the assumption that the component's module names (`AssetsAssumption` and so on):
the types of the parameters; for `Assets` that the rows to begin with hang
under folders and that the requests served at once are finitely many; for
`Pages` that the offsets span a positive number on either side of zero, and no
page is larger. Nothing is assumed about how the parameters relate to the bounds
of the runs. Six theorems, those the table qualifies, have hypotheses:

* `EvictionsDone` (`Assets`): neither `"redis"` nor `"crash"` is in `Faults`,
  since a call that fails or a request that ends early skips its evictions, and
  only the TTL repairs that. `Teams` needs no such hypothesis: there `late` also
  takes the lists whose one eviction a failure prevented;
* `AnnouncementsSent`, `EventsTaken`: neither `"kafka"` nor `"crash"` is in
  `Faults`, and the events in question are in `Observed`;
* `[]Shallow`: no chain of folders is as long as the 20 steps the recursive
  queries take. The code does not enforce it (see Findings).

The other faults stay possible in each.

| Module | Theorem | States |
|---|---|---|
| `AssetsProofs` | `Invariance` | `Spec => []IInv` |
| | `Typed` | `Spec => []TypeOK` |
| | `TreeStands` | `Spec => []TreeWellFormed` |
| | `WritesAuthorised` | `Spec => WriteAuthorised` |
| `AssetsCaches` | `StaleValuesAreLate` | `Spec => []StaleOnlyIfLate`, if `EvictionsDone` |
| | `GoneValuesAreLate` | `Spec /\ []Shallow => []GoneIsEvicted`, if `EvictionsDone` |
| | `FoldersAreAnnounced` | `Spec => []DeletedFolderAnnounced`, if `AnnouncementsSent` |
| | `ReachesInside` | `Spec => []` (`GetDescendantIDs` stays inside `Subtree`) |
| | `CascadeIsFound` | `Spec /\ []Shallow => []` (`GetDescendantIDs` finds all of `Subtree`) |
| `TeamsProofs` | `Invariance`, `Typed` | `Spec => []IInv`, `Spec => []TypeOK` |
| | `Entitlement` | `Spec => EntitledSinceBegin` |
| | `ManagersByCreator` | `Spec => ManagersMadeByCreator` |
| | `AdditionsRaceOnly` | `Spec => AddsOnlyAbsent` |
| | `ManagersAreAnnounced` | `Spec => []ManagersAnnounced`, if `EventsTaken` |
| | `ListsStaleOnlyIfLate` | `Spec => []StaleOnlyIfLate` |
| `SessionsProofs` | `Invariance`, `Typed` | `Spec => []IInv`, `Spec => []TypeOK` |
| | `RotationRevokes` | `Spec => []RotatedIsRevoked` |
| | `LogoutStands` | `Spec => []LogoutIsFinal` |
| | `LogoutRefuses` | `Spec => LoggedOutIsRefused` |
| | `ValidRotations` | `Spec => RotatesOnlyValid` |
| `UserEventsProofs` | `Invariance`, `Typed` | `Spec => []IInv`, `Spec => []TypeOK` |
| | `StoredOnce` | `Spec => []NoDoubleRow` |
| | `LossesAccounted` | `Spec => []LossAccounted` |
| | `ImplementsDirectory` | `Spec => DirectorySpec` |
| `UserImportProofs` | `Invariance`, `Typed` | `Spec => []IInv`, `Spec => []TypeOK` |
| | `OneWriterOnly` | `Spec => []OneWriter` |
| | `NeverBlocked` | `Spec => []NobodyBlocks` |
| `UserImportSummary` | `SummaryInvariance` | `Spec => []SInv` |
| | `SummaryExact` | `Spec => []SummaryIsExact` |
| | `AnnouncedFirst` | `Spec => []AnnouncedBeforeSummary`, if `"kafka" \notin Faults` |
| `PagesProofs` | `Invariance`, `PagesFull` | `Spec => []IInv`, `Spec => []TypeOK` |
| | `NobodyMissed` | `Spec => []OmissionsBounded` |
| | `NobodyRepeated` | `Spec => []RepeatsBounded` |
| | `WalksNeverWrap` | `Spec => []NeverWrapsMidway` |

**What a request knows** (`Assets`, `Teams`, `Sessions`). No property of these
modules is inductive, because a statement relies on what another statement
found some calls before. In each of them `IInv` adds `RequestsKnow`: for every
call a request may be at, what it has been given and what it has found out that
is still true.

* `Sessions`: the row a request works on exists and belongs to its user, and
  from `MarkRevoked` on (or `LogoutMark`) it is revoked. The argument is that
  `revoked` is for good and that an insertion uses a number nobody has seen, so
  no step of another request takes away what a request knows.
  `RevocationStep` says the first once for the three actions that revoke,
  `QuietStep` covers the steps that change nothing but a request, and
  `InsertPairStep` says the second. `LogoutRefuses` follows from
  `LogoutIsFinal` and from `OnlyLookupAdmits`; `ValidRotations` has an
  invariant of its own, `Rotating`: a request at `mark` or `insert` was
  entitled to its step at some time.
* `Teams`: past the check of the caller the request is in `may`, past the check
  of the target it is in `absent` or `gone`, and a promotion or demotion past its first
  call is the creator's, who never changes. Roles change between check and
  write, so what the write may rely on is the history, not the table.
* `Assets`: past the check the request is in `may`; its asset was inserted; and
  if the parent of a creation is still live it is a folder, because an id keeps
  its type and is not used again (`RowsStand`). `IdsLeft` says that ids are
  left for the creations under way. `InsertAssetStep` and `DeleteRowStep` are
  the two steps that touch the tree; the second needs only that the set of rows
  which the cascade takes is closed under children, not how it is computed, so
  no recursion enters the proof.

**Which evictions are owed** (`Assets`, `Teams`). `StaleOnlyIfLate` of `Teams`
becomes inductive together with `ReadsExist` (`StaleIsEvicted` is the property
without the creations among those who owe, which evict nothing): a write of a
list and the debt of its eviction are one step, the debt lasts until the key is
dropped or a failure ends it, which puts the list into `late` (`Neglect`), and a
list stored afterwards is true or goes into `late`. For `Assets` the keys owed are a
set, so `CachesKnown` says that only a request that knows what to evict holds
keys (`KeysHeld`) and that only generated ids are cached (`CachedExist`). The
proof then follows a value: it turns stale by one of the five transactions,
whose request owes its key from then on (`WriterOwes`, `TurnsStale`), and what
is owed or late stays so as long as it is stale (`CoveredStays`).

A deletion needs more, because the keys are found before the DELETE.
`DeletionsClose` says for a request about to delete that nothing live outside
what it found hangs below what it found, save ids generated since, which are in
`missed`. That holds when the query is asked only if the query is itself closed
under children. It is when no chain of folders exceeds its depth: `ShallowFound`
compares the ancestors of a child with those of its parent (`ChainsShift`), and
where they end (`ChainsEnd`). `SubtreeIsFound` draws the same conclusion for
the cascade, and `FoundIsBelow`, which needs no bound on the depth, says that
the query never reaches past the cascade.

**Who announces** (`Assets`, `Teams`). What the topic lacks is about to be
published by the request that committed it: `FoldersAnnouncing` also says that
a top folder keeps its type and its place while it lives, and that its own
deletion is the only one that removes it; in `Teams` the promotion that a
removal overtakes announces all the same. `ManagersAnnounced` is proved only: the
run of `Teams` lets every call fail, and then it does not hold.

**What is between the tables** (`UserEvents`). `LossAccounted` and
`NoDoubleRow` relate tables of two services; `IInv` says what the requests, the
log and the loops carry from one to the other: a request announces only a user
it has inserted (`RequestsRegister`), the log names only registered users
(`LogNamesRegistered`), a loop handles a committed record that is not stored
(`HandledIsCommitted`), stored records were committed (`StoredIsCommitted`),
and a record the reader went past without committing it is lost
(`SkippedIsDropped`). The refinement follows: the projection learns a user only
from a record, and the record names a registered one.

**Where a row is** (`UserImport`). `RowsPlaced` counts: the rows pushed are
those in a channel, held by a worker, or in the summary, so neither channel can
ever be full when somebody sends (`NeverBlocked`). For the summary that is not
enough: `SInv` says which rows they are (`Apart`: none is in two places), that a
success is reported of stored rows only (`Truthful`), that the successes counted
are the stored rows in none of the places (`Counts`), and what it means that a
worker has gone (`Ends`). At the end every place is empty. For the events,
`Accounts` adds what a worker knows of its row (`Honest`): it is announced
exactly when its INSERT was acknowledged and published, so what is reported of a
row tells whether the topic has it.

**Where the cursor is** (`Pages`). For the users, `Divided`: whoever was there
when the walk began has been received or is behind the cursor, whoever was
received is not. A page is the first of what is behind the cursor and moves it
to its last row, and a registration moves nobody across it.

For the assets no such cursor exists, and `AssetsInv` counts instead. The place
of a row is the number of newer rows; the next page starts at the place
`Skipped`, its offset modulo the width, and the walk began at `Outset`. `Again`
are the rows received that have moved behind that place, and `Passed` those to be
received that are before it: those before `Outset` to begin with, and those
moved there. A creation moves one row more into `Again`, the deletion of a row one
more into `Passed`, and a page takes the former out of it again as `repeats`; so
`repeats` and `Again` together are bounded by the creations, `Passed` by `Outset`
and the deletions. The width of the offset enters by `Skipped < Half` alone, which
holds whenever a page is answered: since no page is larger than half the width,
the next one starts below `2 * Half` (`SkipsOn`) and is refused before it could
come round to the first pages again. So an offset that has wrapped had wrapped
when the walk began.

**Induction.** The library's induction theorems cannot be instantiated, but
`WFMin` speaks of a set: the least number at which a fact fails is a
counterexample that its predecessor is not. `Least` (`AssetsCaches`) and `Ends`
(`PagesProofs`) say so once; places in a list and chains of ancestors are
reasoned about that way.

### Only model-checked

* Liveness, which is out of the prover's reach: `EventuallyTruthful`,
  `EventuallyRefused`, `EventuallyReturns`, `NeverStuck`, `WalkEnds`.
* The five violations, which are counterexamples; for `KeyCache` nothing else is
  claimed.
* Where a hypothesis fails nothing is claimed: in `Assets` a failing call or an aborted
  request may leave a stale value or an event unpublished, and trees deeper than
  the recursive queries go keep the keys of what is too deep.

## Not modelled

* Passwords and their hashing, JWT signatures, HTTP routing and responses,
  configuration, connection set-up, migrations: sequential, stateless or pure
  I/O. Of start-up and shutdown only what the loops and the key cache see is
  modelled; `KafkaProducer.Close` runs after the server has stopped.
* Payloads and cursors that no program here writes: an event that is not JSON
  (logged and skipped), a cursor that is no UUID (refused by PostgreSQL).
* Nothing publishes `USER_UPDATED` or `USER_DELETED` at this commit. The
  handler's model has them, and `Teams` lets the projection lose and regain
  users, so that its caches are checked against such events.

## Plan

1. `Sharing`, an abstract specification of what owners, sharees and managers
   may do with an asset when a request is one step, and `Assets` without its
   caches shown to implement its writes; likewise `Roster` for teams.
2. Two processes of core-service: their consumers in one group, with the
   partitions handed over between them.
