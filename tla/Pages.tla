-------------------------------- MODULE Pages --------------------------------
(***************************************************************************)
(* A client that walks through a list page by page while rows come and go: *)
(* GET /users of auth-service, whose pages follow the last user id of the  *)
(* one before, and GET /assets of core-service, whose pages are offsets    *)
(* into the caller's assets, newest first.  Each page takes two            *)
(* statements, a count and a query.  The handler of the assets takes any   *)
(* page number from 1 on, so a walk through them may begin anywhere; a     *)
(* client that jumps to another page begins another walk.                  *)
(***************************************************************************)
EXTENDS Integers, FiniteSets

CONSTANTS
  Lists,      \* which of "users", "assets" a client may walk through
  MaxRows,    \* bound: rows that may ever be inserted
  Limits,     \* values of the query parameter limit
  Firsts,     \* pages a client may begin with
  Width       \* bits of the offset that asset/service.go passes on

Ids == 1..MaxRows
FromStart == 0      \* no cursor, before every id
Half == 2^(Width - 1)

ASSUME PagesAssumption ==
  /\ Lists \subseteq {"users", "assets"}
  /\ MaxRows \in Nat
  /\ Limits \subseteq 1..100
  /\ Firsts \subseteq Nat \ {0}
  /\ Width \in Nat \ {0}
  /\ Half \in Nat \ {0} /\ \A n \in Limits : n <= Half

VARIABLES
  list,       \* the list walked through
  limit,
  first,      \* GET /assets: the page that the walk begins with
  rows,       \* ids in the table; the id of an asset is its place in the
              \* order of creation, that of a user is random
  newest,     \* the last asset created
  pc,         \* of the walk
  cursor,     \* GET /users: the cursor of the next request
  page,       \* GET /assets: its page number
  seen,       \* ids received
  atStart,    \* history: the rows when the walk began
  inserted,   \* history: how many rows were inserted during the walk
  deleted,    \* history: and how many were deleted
  repeats     \* history: how often the client received an id again

request == <<list, limit, first, cursor, page>>
table == <<rows, newest, inserted, deleted>>
answers == <<seen, repeats>>
vars == <<request, table, pc, answers, atStart>>

-----------------------------------------------------------------------------
(* The queries. *)

\* ORDER BY user_id, and ORDER BY created_at DESC.
Precedes(r, s) == IF list = "users" THEN r < s ELSE r > s

MutMasked(n) == n % Half
\* int32(n)
Wrapped(n) == ((n + Half) % (2 * Half)) - Half

OffsetOf(n) == (n - 1) * limit
MutFromNextPage == Wrapped(OffsetOf(page + 1))
Offset == Wrapped(OffsetOf(page))

MutAtOrAfter(r, c) == r >= c
After(r, c) == r > c

\* What WHERE user_id > $1, or OFFSET, leaves.
Rest == IF list = "users"
        THEN {r \in rows : After(r, cursor)}
        ELSE {r \in rows : Cardinality({s \in rows : Precedes(s, r)}) >= Offset}

\* LIMIT takes the first of it.
IsPage(p) ==
  /\ p \subseteq Rest
  /\ Cardinality(p) = limit \/ (Cardinality(p) < limit /\ p = Rest)
  /\ \A r \in p : \A s \in Rest \ p : Precedes(r, s)

MutNonEmpty(p) == p # {}
Full(p) == Cardinality(p) = limit

-----------------------------------------------------------------------------
(* The walk: the client asks for the next page until one is not full. *)

\* The first half of ListPage and List.
Count ==
  /\ pc \in {"start", "count"}
  /\ pc' = "page"
  /\ atStart' = IF pc = "start" THEN rows ELSE atStart
  /\ UNCHANGED <<request, table, answers>>

\* next_cursor is the last id of a full page.
NextRequest(p) ==
  IF list = "users"
  THEN /\ cursor' \in p /\ \A r \in p : r <= cursor'
       /\ UNCHANGED page
  ELSE page' = page + 1 /\ UNCHANGED cursor

\* The history counts no further: RepeatsBounded and TypeOK are broken by then.
Capped(n) == IF n > 2 * MaxRows THEN 2 * MaxRows ELSE n

\* The second half, and what the client makes of the answer.
FindPage ==
  /\ pc = "page"
  /\ list = "users" \/ Offset >= 0
  /\ \E p \in SUBSET rows :
       /\ IsPage(p)
       /\ seen' = seen \cup p
       /\ repeats' = Capped(repeats + Cardinality(p \cap seen))
       /\ IF Full(p) THEN pc' = "count" /\ NextRequest(p)
                     ELSE pc' = "done" /\ UNCHANGED <<cursor, page>>
  /\ UNCHANGED <<list, limit, first, table, atStart>>

\* PostgreSQL refuses a negative offset.
Refuse ==
  /\ pc = "page"
  /\ list = "assets" /\ Offset < 0
  /\ pc' = "failed"
  /\ UNCHANGED <<request, table, answers, atStart>>

-----------------------------------------------------------------------------
(* Others. *)

Walking == pc \in {"count", "page"}

\* Register, or Create by the same owner.
Insert ==
  /\ pc \in {"start", "count", "page"}
  /\ \E r \in Ids \ rows :
       /\ list = "assets" => r = newest + 1
       /\ rows' = rows \cup {r}
       /\ newest' = IF list = "assets" THEN r ELSE newest
  /\ inserted' = IF Walking THEN inserted + 1 ELSE inserted
  /\ UNCHANGED <<request, pc, answers, atStart, deleted>>

\* One row that Delete by the owner takes with it, which may be many; users are
\* never deleted.
Delete ==
  /\ pc \in {"start", "count", "page"}
  /\ list = "assets"
  /\ \E r \in rows : rows' = rows \ {r}
  /\ deleted' = IF Walking THEN deleted + 1 ELSE deleted
  /\ UNCHANGED <<request, pc, answers, atStart, newest, inserted>>

-----------------------------------------------------------------------------
(* The specification. *)

Init ==
  /\ list \in Lists /\ limit \in Limits
  /\ rows = {} /\ newest = 0
  /\ pc = "start"
  /\ cursor = FromStart
  /\ first \in (IF list = "users" THEN {1} ELSE Firsts) /\ page = first
  /\ seen = {} /\ atStart = {}
  /\ inserted = 0 /\ deleted = 0 /\ repeats = 0

Serve == Count \/ FindPage \/ Refuse

Next == Serve \/ Insert \/ Delete

Spec == Init /\ [][Next]_vars

\* Both statements return and the client asks on; nobody has to insert.
FairSpec == Spec /\ WF_vars(Serve)

-----------------------------------------------------------------------------
(* Properties. *)

\* Types; a user's cursor is an id received, and every page but the last was
\* full (user/handler.go:66-69).
TypeOK ==
  /\ list \in {"users", "assets"} /\ limit \in 1..100
  /\ rows \subseteq Ids /\ seen \subseteq Ids /\ atStart \subseteq Ids
  /\ newest \in Nat
  /\ pc \in {"start", "count", "page", "done", "failed"}
  /\ cursor \in {FromStart} \cup seen
  /\ first \in Nat \ {0} /\ page \in Nat \ {0}
  /\ (list = "assets" /\ pc # "done") => Cardinality(seen) + repeats = (page - first) * limit
  /\ (list = "users" /\ pc # "done") => (Cardinality(seen) + repeats) % limit = 0
  /\ inserted \in Nat /\ deleted \in Nat /\ repeats \in Nat

\* A walk that has come to the end has received every row that was there from
\* its beginning, save those before the offset it began with and one for each row
\* deleted meanwhile (a folder takes its whole subtree with it), which moves the
\* rows behind it across a page boundary.  Registrations before or after the
\* cursor make a walk through the users miss nobody (user/service.go:130-140,
\* user/handler.go:66-69, asset/service.go:258).
OmissionsBounded ==
  pc = "done" =>
    Cardinality((atStart \cap rows) \ seen) <=
      deleted + (IF list = "users" THEN 0 ELSE Wrapped(OffsetOf(first)))

\* Nothing is received twice, save one row of a list of assets for each asset
\* created meanwhile; a walk through the users repeats nobody whatever happens
\* (user/repository.go:73-81).
RepeatsBounded ==
  repeats <= IF list = "users" THEN 0 ELSE inserted

\* The 32 bits of the offset refuse only a page past 2^31 rows, and never send a
\* walk that is under way back to rows it has left behind: it runs into the
\* refused half of the range first.  A page is answered from another offset than
\* its own only in a walk that began past 2^32 rows, since the handler takes any
\* page (asset/handler.go:144-149, asset/service.go:258).
NeverWrapsMidway ==
  /\ pc = "failed" => OffsetOf(page) >= Half
  /\ (list = "assets" /\ Offset >= 0 /\ Offset # OffsetOf(page)) =>
       OffsetOf(first) >= 2 * Half

\* A walk comes to its end although the list may grow while it lasts.
WalkEnds == <>(pc \in {"done", "failed"})
=============================================================================
