---------------------------- MODULE PagesProofs ------------------------------
(***************************************************************************)
(* What a walk through either list misses and repeats, for a table of any  *)
(* size, pages of any length, any page to begin with and an offset of any  *)
(* width, whoever registers and whatever is created or deleted meanwhile.  *)
(***************************************************************************)
EXTENDS Pages, FiniteSetTheorems, WellFoundedInduction, TLAPS

(* The inductive invariant.  In the list of users the cursor divides those
   received from those still to come.  In the list of assets the place of a
   row does, and that moves: what is counted are the rows on the wrong side. *)

Typed ==
  /\ list \in {"users", "assets"} /\ limit \in Limits
  /\ rows \subseteq Ids /\ seen \subseteq Ids /\ atStart \subseteq Ids
  /\ newest \in Nat
  /\ pc \in {"start", "count", "page", "done", "failed"}
  /\ cursor \in {FromStart} \cup seen
  /\ first \in Nat \ {0} /\ page \in Nat \ {0}
  /\ inserted \in Nat /\ deleted \in Nat /\ repeats \in Nat

Divided ==
  /\ pc = "start" => cursor = FromStart /\ seen = {}
  /\ pc # "done" => \A r \in seen : r <= cursor
  /\ pc \in {"count", "page"} => \A r \in atStart : r \in rows /\ (r \in seen \/ r > cursor)
  /\ pc = "done" => atStart \subseteq seen

UsersInv ==
  /\ Divided
  /\ repeats = 0 /\ pc # "failed"
  /\ pc # "done" => Cardinality(seen) % limit = 0

\* The place of r in a list S, newest first; the rows from the n-th place on.
Before(S, r) == {s \in S : s > r}
Place(S, r) == Cardinality(Before(S, r))
Behind(S, n) == {r \in S : Place(S, r) >= n}

\* The rows that a page of the assets skips, when its offset is not negative, and
\* those that the first page skipped.
Skipped == OffsetOf(page) % (2 * Half)
Outset == OffsetOf(first) % (2 * Half)

\* Rows received and moved behind the next page again; rows to be received that
\* have moved before it.
Again == seen \cap Behind(rows, Skipped)
Passed == ((atStart \cap rows) \ seen) \ Behind(rows, Skipped)

AssetsInv ==
  /\ rows \subseteq 1..newest /\ seen \subseteq 1..newest /\ atStart \subseteq 1..newest
  /\ newest <= MaxRows /\ inserted <= newest
  /\ pc = "start" => seen = {} /\ atStart = {} /\ page = first
  /\ page >= first
  /\ pc = "failed" => Skipped >= Half
  /\ pc # "done" => Cardinality(seen) + repeats = (page - first) * limit
  /\ pc # "done" => repeats + Cardinality(Again) <= inserted
  /\ repeats <= inserted
  /\ pc # "done" => Cardinality(Passed) <= deleted + Outset
  /\ page # first \/ pc = "done" => Outset < Half
  /\ OffsetOf(first) < 2 * Half => Skipped = OffsetOf(page)
  /\ OmissionsBounded

IInv ==
  /\ Typed
  /\ list = "users" => UsersInv
  /\ list = "assets" => AssetsInv

-----------------------------------------------------------------------------
(* Arithmetic. *)

\* A full page more is a multiple of the page again.
LEMMA NextMultiple ==
  ASSUME NEW n \in Nat, NEW d \in Nat \ {0}, n % d = 0
  PROVE  (n + d) % d = 0
<1>1. \A k \in Nat : (k * d) % d = 0
  BY SMTT(30)
<1>2. PICK q \in Nat : n = d * q
  BY SMTT(30)
<1>3. n + d = (q + 1) * d /\ q + 1 \in Nat
  BY <1>2, SMTT(30)
<1> QED
  BY <1>1, <1>3

\* A remainder is in its range, and grows by what is added until it wraps.
LEMMA RemainderGrows ==
  ASSUME NEW m \in Nat, NEW d \in Nat \ {0}
  PROVE  /\ m % d \in Nat /\ m % d < d /\ m % d <= m
         /\ m < d => m % d = m
         /\ \A l \in Nat : l <= d =>
              (m + l) % d = IF (m % d) + l < d THEN (m % d) + l ELSE ((m % d) + l) - d
<1>1. m % d \in Nat /\ m % d < d /\ m % d <= m /\ (m < d => m % d = m)
  BY SMTT(30)
<1>2. PICK q \in Nat : m = d * q + (m % d)
  <2>1. m \div d \in Nat /\ m = d * (m \div d) + (m % d)
    BY SMTT(30)
  <2> QED
    BY <2>1
<1>3. \A k \in Nat, x \in Nat : x < d => (d * k + x) % d = x
  BY SMTT(30)
<1>4. ASSUME NEW l \in Nat, l <= d
      PROVE  (m + l) % d = IF (m % d) + l < d THEN (m % d) + l ELSE ((m % d) + l) - d
  <2> DEFINE x == m % d
  <2>1. x \in Nat /\ x < d /\ m = d * q + x
    BY <1>1, <1>2
  <2> HIDE DEF x
  <2>2. CASE x + l < d
    <3>1. m + l = d * q + (x + l) /\ x + l \in Nat
      BY <2>1
    <3> QED
      BY <1>3, <2>2, <3>1 DEF x
  <2>3. CASE ~(x + l < d)
    <3>1. d * (q + 1) = d * q + d /\ q + 1 \in Nat
      BY SMTT(30)
    <3>2. m + l = d * (q + 1) + ((x + l) - d) /\ (x + l) - d \in Nat /\ (x + l) - d < d
      BY <1>4, <2>1, <2>3, <3>1
    <3>3. (m + l) % d = (x + l) - d
      BY <1>3, <3>1, <3>2
    <3> QED
      BY <2>3, <3>3 DEF x
  <2> QED
    BY <2>2, <2>3
<1> QED
  BY <1>1, <1>4

\* A number wrapped is its remainder, moved into the range around zero.
LEMMA WrapsAround ==
  ASSUME NEW n \in Nat
  PROVE  /\ n % (2 * Half) \in Nat /\ n % (2 * Half) < 2 * Half
         /\ Wrapped(n) = IF n % (2 * Half) < Half THEN n % (2 * Half)
                         ELSE (n % (2 * Half)) - 2 * Half
<1>1. Half \in Nat \ {0}
  BY PagesAssumption
<1> HIDE DEF Half
<1> DEFINE d == 2 * Half
           x == n % d
<1>2. d \in Nat \ {0} /\ Half <= d
  BY <1>1
<1>3. x \in Nat /\ x < d /\ (n + Half) % d = IF x + Half < d THEN x + Half ELSE (x + Half) - d
  <2> HIDE DEF d
  <2>1. n % d \in Nat /\ n % d < d
    BY <1>2, RemainderGrows, Zenon
  <2>2. Half \in Nat /\ Half <= d
    BY <1>1, <1>2
  <2>3. (n + Half) % d = IF (n % d) + Half < d THEN (n % d) + Half ELSE ((n % d) + Half) - d
    BY <1>2, <2>2, RemainderGrows, Zenon
  <2> QED
    BY <2>1, <2>3, Zenon
<1>4. Wrapped(n) = ((n + Half) % d) - Half
  BY DEF Wrapped
<1> HIDE DEF x
<1>5. Wrapped(n) = IF x < Half THEN x ELSE x - d
  BY <1>1, <1>3, <1>4
<1> QED
  BY <1>3, <1>5 DEF x

\* A set of ids has a least and a largest.
LEMMA Ends ==
  ASSUME NEW S \in SUBSET Ids, S # {}
  PROVE  /\ \E x \in S : \A r \in S : x <= r
         /\ \E x \in S : \A r \in S : r <= x
<1>1. ASSUME NEW T \in SUBSET Nat, T # {}
      PROVE  \E x \in T : \A r \in T : x <= r
  <2>1. PICK x \in T : \A y \in T : ~(<<y, x>> \in OpToRel(<, Nat))
    BY <1>1, WFMin, NatLessThanWellFounded
  <2>2. \A y \in T : ~(y < x)
    BY <1>1, <2>1 DEF OpToRel
  <2> QED
    BY <1>1, <2>2
<1>2. MaxRows \in Nat /\ \A r \in S : r \in Nat /\ r <= MaxRows
  BY PagesAssumption DEF Ids
<1>3. \E x \in S : \A r \in S : x <= r
  BY <1>1, <1>2
<1>4. \E x \in S : \A r \in S : r <= x
  <2> DEFINE T == {MaxRows - r : r \in S}
  <2>1. T \in SUBSET Nat /\ T # {}
    BY <1>2
  <2>2. PICK y \in T : \A t \in T : y <= t
    <3> HIDE DEF T
    <3> QED
      BY <1>1, <2>1
  <2>3. PICK x \in S : y = MaxRows - x
    OBVIOUS
  <2>4. \A r \in S : MaxRows - x <= MaxRows - r
    BY <2>2, <2>3
  <2> QED
    BY <1>2, <2>4
<1> QED
  BY <1>3, <1>4

\* Sets of ids are finite.
LEMMA IdsFinite ==
  ASSUME NEW S \in SUBSET Ids
  PROVE  /\ IsFiniteSet(S) /\ Cardinality(S) \in Nat
         /\ \A r \in S : r \in Nat /\ r > 0 /\ r <= MaxRows
         /\ \A T \in SUBSET S : IsFiniteSet(T) /\ Cardinality(T) <= Cardinality(S)
<1>1. IsFiniteSet(Ids) /\ \A r \in S : r \in Nat /\ r > 0 /\ r <= MaxRows
  BY PagesAssumption, FS_Interval DEF Ids
<1>2. IsFiniteSet(S)
  BY <1>1, FS_Subset
<1> QED
  BY <1>1, <1>2, FS_Subset, FS_CardinalityType

-----------------------------------------------------------------------------
(* Places in a list, newest first. *)

\* A place is a number, and an older row has a later one.
LEMMA PlacesDiffer ==
  ASSUME NEW S \in SUBSET Ids, NEW r \in S
  PROVE  /\ Place(S, r) \in Nat
         /\ \A s \in S : s < r => Place(S, r) < Place(S, s)
<1>1. IsFiniteSet(Before(S, r)) /\ Place(S, r) \in Nat
  BY IdsFinite DEF Before, Place
<1>2. ASSUME NEW s \in S, s < r
      PROVE  Place(S, r) < Place(S, s)
  <2>1. r \in Nat /\ s \in Nat /\ \A t \in S : t \in Nat
    BY IdsFinite
  <2>2. Before(S, r) \cup {r} \subseteq Before(S, s) /\ r \notin Before(S, r)
    <3>1. \A t \in S : t > r => t > s
      BY <1>2, <2>1
    <3>2. r > s /\ ~(r > r)
      BY <1>2, <2>1
    <3> QED
      BY <3>1, <3>2 DEF Before
  <2>3. Cardinality(Before(S, r) \cup {r}) = Place(S, r) + 1
    BY <1>1, <2>2, FS_AddElement DEF Place
  <2>4. IsFiniteSet(Before(S, s)) /\ Place(S, s) \in Nat
    BY IdsFinite DEF Before, Place
  <2>5. Place(S, r) + 1 <= Place(S, s)
    BY <2>2, <2>3, <2>4, FS_Subset DEF Place
  <2> QED
    BY <1>1, <2>4, <2>5
<1> QED
  BY <1>1, <1>2

\* One row at most has a given place.
LEMMA OneAtPlace ==
  ASSUME NEW S \in SUBSET Ids, NEW T \in SUBSET S, NEW n, \A r \in T : Place(S, r) = n
  PROVE  IsFiniteSet(T) /\ Cardinality(T) <= 1
<1>1. CASE T = {}
  BY <1>1, FS_EmptySet
<1>2. ASSUME NEW r \in T
      PROVE  IsFiniteSet(T) /\ Cardinality(T) <= 1
  <2>1. \A s \in T : s = r
    BY PlacesDiffer, IdsFinite
  <2>2. T = {r}
    BY <2>1
  <2> QED
    BY <2>2, FS_Singleton
<1> QED
  BY <1>1, <1>2

\* No more than n rows are before the n-th place.
LEMMA FrontBounded ==
  ASSUME NEW S \in SUBSET Ids, NEW n \in Nat
  PROVE  IsFiniteSet(S \ Behind(S, n)) /\ Cardinality(S \ Behind(S, n)) <= n
<1> DEFINE F == S \ Behind(S, n)
<1>1. F \in SUBSET Ids /\ F \subseteq S
  OBVIOUS
<1>2. IsFiniteSet(F) /\ Cardinality(F) \in Nat
  BY <1>1, IdsFinite
<1>3. CASE F = {}
  BY <1>3, <1>2, FS_EmptySet
<1>4. CASE F # {}
  <2>1. PICK x \in F : \A r \in F : x <= r
    <3> HIDE DEF F
    <3> QED
      BY <1>1, <1>4, Ends
  <2>2. Place(S, x) \in Nat /\ Place(S, x) < n
    BY <2>1, PlacesDiffer DEF Behind
  <2>3. F \ {x} \subseteq Before(S, x)
    BY <2>1, IdsFinite DEF Before
  <2>4. IsFiniteSet(Before(S, x))
    BY IdsFinite DEF Before
  <2>5. Cardinality(F \ {x}) <= Place(S, x)
    BY <2>3, <2>4, FS_Subset DEF Place
  <2>6. Cardinality(F \ {x}) = Cardinality(F) - 1
    BY <1>2, <2>1, FS_RemoveElement
  <2> QED
    BY <1>2, <2>2, <2>5, <2>6
<1> QED
  BY <1>3, <1>4

\* A full page from the n-th place on, taken away, leaves the rows from the place
\* a page further on.
LEMMA PageLeaves ==
  ASSUME NEW S \in SUBSET Ids, NEW n \in Nat, NEW p \in SUBSET Behind(S, n),
         Cardinality(p) > 0,
         \A r \in p : \A s \in Behind(S, n) \ p : r > s
  PROVE  Behind(S, n + Cardinality(p)) = Behind(S, n) \ p
<1> DEFINE B == Behind(S, n)
           l == Cardinality(p)
<1>1. B \subseteq S /\ p \in SUBSET Ids /\ p \subseteq S
  BY DEF Behind
<1>2. IsFiniteSet(p) /\ l \in Nat /\ IsFiniteSet(S) /\ p # {}
  BY <1>1, IdsFinite, FS_EmptySet
<1>3. \A r \in S : r \in Nat /\ Place(S, r) \in Nat /\ IsFiniteSet(Before(S, r))
  BY IdsFinite, PlacesDiffer DEF Before
<1>4. ASSUME NEW r \in p
      PROVE  Place(S, r) < n + l
  <2> DEFINE F == S \ B
  <2>1. Before(S, r) \subseteq F \cup (p \ {r})
    <3>1. r \in S
      BY <1>1
    <3>2. \A s \in B \ p : ~(s > r)
      <4>1. \A s \in B \ p : s \in S /\ r > s
        BY <1>1
      <4> QED
        BY <1>3, <3>1, <4>1
    <3>3. ~(r > r)
      BY <1>3, <3>1
    <3> HIDE DEF B
    <3> QED
      BY <3>2, <3>3 DEF Before
  <2>2. IsFiniteSet(F) /\ Cardinality(F) <= n /\ Cardinality(F) \in Nat
    BY FrontBounded, FS_CardinalityType
  <2>3. /\ IsFiniteSet(p \ {r}) /\ Cardinality(p \ {r}) = l - 1
        /\ IsFiniteSet(F \cap (p \ {r})) /\ Cardinality(F \cap (p \ {r})) \in Nat
    <3>1. IsFiniteSet(p \ {r}) /\ Cardinality(p \ {r}) = l - 1
      BY <1>2, FS_RemoveElement
    <3>2. IsFiniteSet(F \cap (p \ {r}))
      BY <2>2, FS_Intersection
    <3> QED
      BY <3>1, <3>2, FS_CardinalityType
  <2> HIDE DEF F, l
  <2>4. /\ IsFiniteSet(F \cup (p \ {r}))
        /\ Cardinality(F \cup (p \ {r})) = Cardinality(F) + (l - 1) - Cardinality(F \cap (p \ {r}))
    BY <2>2, <2>3, FS_Union
  <2>5. Place(S, r) <= Cardinality(F \cup (p \ {r}))
    BY <2>1, <2>4, FS_Subset DEF Place
  <2> QED
    BY <1>1, <1>2, <1>3, <2>2, <2>3, <2>4, <2>5
<1>5. ASSUME NEW s \in B \ p
      PROVE  Place(S, s) >= n + l
  <2>1. PICK x \in p : \A r \in p : r <= x
    BY <1>1, <1>2, Ends
  <2>2. Place(S, x) >= n /\ x \in S /\ s \in S
    BY <1>1, <2>1 DEF Behind
  <2>3. Before(S, x) \cup p \subseteq Before(S, s)
    <3>1. \A r \in p : r > s
      BY <1>5
    <3>2. \A t \in S : t > x => t > s
      BY <1>3, <2>1, <2>2, <3>1
    <3> QED
      BY <1>1, <3>1, <3>2 DEF Before
  <2>4. Before(S, x) \cap p = {}
    <3>1. \A r \in p : ~(r > x)
      BY <1>1, <1>3, <2>1
    <3> QED
      BY <3>1 DEF Before
  <2>5. Cardinality(Before(S, x) \cap p) = 0
    BY <2>4, FS_EmptySet
  <2>6. /\ IsFiniteSet(Before(S, x) \cup p)
        /\ Cardinality(Before(S, x) \cup p) = Place(S, x) + l
    <3>1. /\ IsFiniteSet(Before(S, x) \cup p)
          /\ Cardinality(Before(S, x) \cup p) =
               Cardinality(Before(S, x)) + l - Cardinality(Before(S, x) \cap p)
      BY <1>2, <1>3, <2>2, FS_Union
    <3>2. Cardinality(Before(S, x)) \in Nat /\ l \in Nat
      BY <1>2, <1>3, <2>2 DEF Place
    <3> HIDE DEF l
    <3> QED
      BY <2>5, <3>1, <3>2 DEF Place
  <2>7. Place(S, x) + l <= Place(S, s)
    BY <1>3, <2>2, <2>3, <2>6, FS_Subset DEF Place
  <2> QED
    BY <1>2, <1>3, <2>2, <2>7
<1>6. ASSUME NEW r \in S, Place(S, r) >= n + l
      PROVE  r \in B
  BY <1>2, <1>3, <1>6 DEF Behind
<1> HIDE DEF l
<1>7. \A r \in S : Place(S, r) >= n + l <=> r \in B \ p
  BY <1>1, <1>2, <1>3, <1>4, <1>5, <1>6
<1>8. Behind(S, n + l) = B \ p
  BY <1>1, <1>7 DEF Behind
<1> QED
  BY <1>8 DEF l

\* A row created is first, and moves one row at most from before the n-th place
\* to behind it.
LEMMA CreationShifts ==
  ASSUME NEW S \in SUBSET Ids, NEW n \in Nat, NEW c \in Ids, \A r \in S : r < c
  PROVE  /\ Behind(S, n) \subseteq Behind(S \cup {c}, n)
         /\ \E T \in SUBSET S : /\ IsFiniteSet(T) /\ Cardinality(T) <= 1
                                /\ Behind(S \cup {c}, n) \subseteq Behind(S, n) \cup T \cup {c}
<1> DEFINE W == S \cup {c}
           T == {r \in S : Place(S, r) = n - 1}
<1>1. ASSUME NEW r \in S
      PROVE  Place(S, r) \in Nat /\ Place(W, r) = Place(S, r) + 1
  <2>1. IsFiniteSet(Before(S, r)) /\ Place(S, r) \in Nat
    BY IdsFinite, PlacesDiffer DEF Before
  <2>2. c \notin Before(S, r) /\ Before(W, r) = Before(S, r) \cup {c}
    BY IdsFinite DEF Before, Ids
  <2>3. Cardinality(Before(S, r) \cup {c}) = Cardinality(Before(S, r)) + 1
    BY <2>1, <2>2, FS_AddElement
  <2> QED
    BY <2>1, <2>2, <2>3 DEF Place
<1>2. IsFiniteSet(T) /\ Cardinality(T) <= 1
  BY OneAtPlace
<1>3. Behind(S, n) \subseteq Behind(W, n)
  BY <1>1 DEF Behind
<1>4. Behind(W, n) \subseteq Behind(S, n) \cup T \cup {c}
  <2> SUFFICES ASSUME NEW r \in S, Place(W, r) >= n, ~(Place(S, r) >= n)
               PROVE  Place(S, r) = n - 1
    BY DEF Behind
  <2> QED
    BY <1>1
<1> QED
  BY <1>2, <1>3, <1>4

\* A row deleted moves one row at most from behind the n-th place to before it.
LEMMA DeletionShifts ==
  ASSUME NEW S \in SUBSET Ids, NEW n \in Nat, NEW d \in S
  PROVE  /\ Behind(S \ {d}, n) \subseteq Behind(S, n)
         /\ \E T \in SUBSET S : /\ IsFiniteSet(T) /\ Cardinality(T) <= 1
                                /\ Behind(S, n) \ {d} \subseteq Behind(S \ {d}, n) \cup T
<1> DEFINE W == S \ {d}
           T == {r \in S : Place(S, r) = n}
<1>1. ASSUME NEW r \in W
      PROVE  /\ Place(S, r) \in Nat
             /\ Place(W, r) = Place(S, r) \/ Place(W, r) = Place(S, r) - 1
  <2>1. IsFiniteSet(Before(S, r)) /\ Place(S, r) \in Nat
    BY IdsFinite, PlacesDiffer DEF Before
  <2>2. Before(W, r) = Before(S, r) \ {d}
    BY DEF Before
  <2>3. \/ Cardinality(Before(S, r) \ {d}) = Cardinality(Before(S, r))
        \/ Cardinality(Before(S, r) \ {d}) = Cardinality(Before(S, r)) - 1
    BY <2>1, FS_RemoveElement
  <2> QED
    BY <2>1, <2>2, <2>3 DEF Place
<1>2. IsFiniteSet(T) /\ Cardinality(T) <= 1
  BY OneAtPlace
<1>3. Behind(W, n) \subseteq Behind(S, n)
  BY <1>1 DEF Behind
<1>4. Behind(S, n) \ {d} \subseteq Behind(W, n) \cup T
  <2> SUFFICES ASSUME NEW r \in W, Place(S, r) >= n, ~(Place(W, r) >= n)
               PROVE  Place(S, r) = n
    BY DEF Behind
  <2>1. \/ Place(W, r) = Place(S, r)
        \/ Place(W, r) = Place(S, r) - 1
    BY <1>1
  <2>2. Place(S, r) \in Nat
    BY <1>1
  <2> QED
    BY <2>1, <2>2
<1> QED
  BY <1>2, <1>3, <1>4

-----------------------------------------------------------------------------
(* The list of users. *)

\* A page is some of the rows, and its length a number.
LEMMA PageTyped ==
  ASSUME IInv, NEW p \in SUBSET rows
  PROVE  /\ p \in SUBSET Ids /\ IsFiniteSet(p) /\ Cardinality(p) \in Nat
         /\ IsFiniteSet(seen) /\ Cardinality(seen) \in Nat
         /\ IsFiniteSet(p \cap seen) /\ Cardinality(p \cap seen) \in Nat
         /\ limit \in Nat \ {0} /\ limit <= Half /\ limit \in 1..100
<1>1. p \in SUBSET Ids /\ seen \in SUBSET Ids /\ p \cap seen \in SUBSET Ids
  BY DEF IInv, Typed
<1>2. limit \in Nat \ {0} /\ limit <= Half /\ limit \in 1..100
  BY PagesAssumption DEF IInv, Typed
<1> QED
  BY <1>1, <1>2, IdsFinite

\* Types.
LEMMA TypedStep ==
  ASSUME IInv, [Next]_vars
  PROVE  Typed' /\ UNCHANGED <<list, limit, first>>
<1> USE DEF IInv, Typed
<1>1. CASE Count
  BY <1>1 DEF Count, request, table, answers
<1>2. CASE FindPage
  <2>1. PICK p \in SUBSET rows :
          /\ IsPage(p)
          /\ seen' = seen \cup p
          /\ repeats' = Capped(repeats + Cardinality(p \cap seen))
          /\ IF Full(p) THEN pc' = "count" /\ NextRequest(p)
                        ELSE pc' = "done" /\ UNCHANGED <<cursor, page>>
    BY <1>2 DEF FindPage
  <2>2. Cardinality(p \cap seen) \in Nat
    BY <2>1, PageTyped
  <2>3. repeats' \in Nat
    BY <2>1, <2>2, PagesAssumption DEF Capped
  <2>4. UNCHANGED <<list, limit, first, rows, newest, inserted, deleted, atStart>>
    BY <1>2 DEF FindPage, table
  <2>5. cursor' \in {FromStart} \cup seen' /\ page' \in Nat \ {0}
    BY <2>1 DEF NextRequest
  <2>6. pc' \in {"start", "count", "page", "done", "failed"}
    BY <2>1
  <2> QED
    BY <2>1, <2>3, <2>4, <2>5, <2>6
<1>3. CASE Refuse
  BY <1>3 DEF Refuse, request, table, answers
<1>4. CASE Insert
  <2>1. \A r \in Ids : r \in Nat
    BY DEF Ids
  <2> QED
    BY <1>4, <2>1 DEF Insert, request, answers
<1>5. CASE Delete
  BY <1>5 DEF Delete, request, answers
<1>6. CASE UNCHANGED vars
  BY <1>6 DEF vars, request, table, answers
<1> QED
  BY <1>1, <1>2, <1>3, <1>4, <1>5, <1>6 DEF Next, Serve

\* The rows that the first count may see are all still to come.
LEMMA UsersCount ==
  ASSUME IInv, list = "users", Count
  PROVE  UsersInv'
<1>1. /\ pc \in {"start", "count"} /\ pc' = "page"
      /\ atStart' = IF pc = "start" THEN rows ELSE atStart
      /\ UNCHANGED <<limit, cursor, rows, seen, repeats>>
  BY DEF Count, request, table, answers
<1>2. \A r \in atStart' : r \in rows /\ (r \in seen \/ r > cursor)
  <2>1. CASE pc = "start"
    <3>1. cursor = 0 /\ \A r \in rows : r > 0
      BY <2>1 DEF IInv, Typed, UsersInv, Divided, FromStart, Ids
    <3> QED
      BY <1>1, <2>1, <3>1
  <2>2. CASE pc = "count"
    BY <1>1, <2>2 DEF IInv, UsersInv, Divided
  <2> QED
    BY <1>1, <2>1, <2>2
<1>3. Divided'
  BY <1>1, <1>2 DEF IInv, UsersInv, Divided
<1> QED
  BY <1>1, <1>3 DEF IInv, UsersInv

\* A page takes the first of what is behind the cursor, and the cursor moves to
\* its last row; a page that is not full is all that is left.
LEMMA UsersFindPage ==
  ASSUME IInv, list = "users", FindPage
  PROVE  UsersInv'
<1>1. PICK p \in SUBSET rows :
        /\ IsPage(p)
        /\ seen' = seen \cup p
        /\ repeats' = Capped(repeats + Cardinality(p \cap seen))
        /\ IF Full(p) THEN pc' = "count" /\ NextRequest(p)
                      ELSE pc' = "done" /\ UNCHANGED <<cursor, page>>
  BY DEF FindPage
<1>2. UNCHANGED <<list, limit, rows, atStart>> /\ pc = "page"
  BY DEF FindPage, table
<1>3. Rest = {r \in rows : r > cursor}
  BY DEF Rest, After
<1>4. /\ p \subseteq Rest /\ (~Full(p) => p = Rest)
      /\ \A r \in p : \A s \in Rest \ p : r < s
  BY <1>1 DEF IsPage, Full, Precedes
<1>5. /\ cursor \in Nat /\ (\A r \in rows : r \in Nat)
      /\ (\A r \in seen : r \in Nat /\ r <= cursor)
      /\ \A r \in atStart : r \in rows /\ (r \in seen \/ r \in Rest)
  BY <1>2, <1>3 DEF IInv, Typed, UsersInv, Divided, Ids, FromStart
<1>6. p \cap seen = {}
  BY <1>3, <1>4, <1>5
<1>7. repeats' = 0
  <2>1. Cardinality(p \cap seen) = 0
    BY <1>6, FS_EmptySet
  <2> QED
    BY <1>1, <2>1, PagesAssumption DEF IInv, UsersInv, Capped
<1>8. CASE Full(p)
  <2>1. pc' = "count" /\ cursor' \in p /\ \A r \in p : r <= cursor'
    BY <1>1, <1>8 DEF NextRequest
  <2>2. cursor' \in Nat /\ cursor < cursor'
    BY <1>3, <1>4, <1>5, <2>1
  <2>3. \A r \in seen' : r <= cursor'
    <3>1. ASSUME NEW r \in seen PROVE r <= cursor'
      BY <1>5, <2>2
    <3> QED
      BY <1>1, <2>1, <3>1
  <2>4. \A r \in atStart' : r \in rows' /\ (r \in seen' \/ r > cursor')
    BY <1>1, <1>2, <1>4, <1>5, <2>1, <2>2
  <2>5. Divided'
    BY <2>1, <2>3, <2>4 DEF Divided
  <2>6. Cardinality(seen') % limit = 0
    <3>1. Cardinality(seen \cup p) = Cardinality(seen) + limit
      <4>1. Cardinality(seen \cup p) = Cardinality(seen) + Cardinality(p) - Cardinality(seen \cap p)
        BY PageTyped, FS_Union
      <4>2. Cardinality(seen \cap p) = 0
        BY <1>6, FS_EmptySet
      <4> QED
        BY <1>8, <4>1, <4>2, PageTyped DEF Full
    <3>2. Cardinality(seen) % limit = 0
      BY <1>2 DEF IInv, UsersInv
    <3> QED
      BY <1>1, <3>1, <3>2, PageTyped, NextMultiple
  <2> QED
    BY <1>2, <1>7, <2>1, <2>5, <2>6 DEF UsersInv
<1>9. CASE ~Full(p)
  <2>1. pc' = "done" /\ cursor' = cursor
    BY <1>1, <1>9
  <2>2. atStart' \subseteq seen'
    BY <1>1, <1>2, <1>4, <1>5, <1>9
  <2> QED
    BY <1>7, <2>1, <2>2 DEF UsersInv, Divided
<1> QED
  BY <1>8, <1>9

\* A registration, before the cursor or behind it, moves nobody across it.
LEMMA UsersOthers ==
  ASSUME IInv, list = "users", Refuse \/ Insert \/ Delete \/ UNCHANGED vars
  PROVE  UsersInv'
<1>1. /\ UNCHANGED <<limit, cursor, pc, atStart, seen, repeats>>
      /\ rows \subseteq rows'
  BY DEF Refuse, Insert, Delete, vars, request, table, answers
<1> QED
  BY <1>1 DEF IInv, UsersInv, Divided

-----------------------------------------------------------------------------
(* The list of assets. *)

\* What is counted is finite, and the rows skipped are a number.
LEMMA Counted ==
  ASSUME IInv
  PROVE  /\ IsFiniteSet(Again) /\ Cardinality(Again) \in Nat
         /\ IsFiniteSet(Passed) /\ Cardinality(Passed) \in Nat
         /\ rows \in SUBSET Ids /\ Half \in Nat \ {0}
         /\ OffsetOf(page) \in Nat /\ OffsetOf(first) \in Nat
         /\ Skipped \in Nat /\ Skipped < 2 * Half /\ Skipped <= OffsetOf(page) /\ Outset \in Nat
<1>1. Again \in SUBSET Ids /\ Passed \in SUBSET Ids /\ rows \in SUBSET Ids
  BY DEF IInv, Typed, Again, Passed
<1>2. OffsetOf(page) \in Nat /\ OffsetOf(first) \in Nat
  <2>1. page - 1 \in Nat /\ first - 1 \in Nat /\ limit \in Nat
    BY PagesAssumption DEF IInv, Typed
  <2>2. \A m, n \in Nat : m * n \in Nat
    OBVIOUS
  <2> QED
    BY <2>1, <2>2 DEF OffsetOf
<1>3. Half \in Nat \ {0} /\ 2 * Half \in Nat \ {0}
  BY PagesAssumption
<1>4. Skipped \in Nat /\ Skipped < 2 * Half /\ Skipped <= OffsetOf(page) /\ Outset \in Nat
  <2> DEFINE d == 2 * Half
  <2>1. d \in Nat \ {0} /\ Skipped = OffsetOf(page) % d /\ Outset = OffsetOf(first) % d
    BY <1>3 DEF Skipped, Outset
  <2>2. Skipped \in Nat /\ Skipped < d /\ Skipped <= OffsetOf(page) /\ Outset \in Nat
    <3> HIDE DEF d
    <3> QED
      BY <1>2, <2>1, RemainderGrows
  <2> QED
    BY <2>2
<1> QED
  BY <1>1, <1>2, <1>3, <1>4, IdsFinite

\* The offset is the number of rows skipped, or negative.
LEMMA OffsetFits ==
  ASSUME IInv
  PROVE  /\ Skipped < Half => Offset = Skipped
         /\ Skipped >= Half => Offset < 0
         /\ Outset < Half => Wrapped(OffsetOf(first)) = Outset
         /\ Offset \in Int
<1>1. /\ OffsetOf(page) \in Nat /\ OffsetOf(first) \in Nat
      /\ Skipped \in Nat /\ Skipped < 2 * Half /\ Half \in Nat \ {0}
  BY Counted
<1>2. Offset = IF Skipped < Half THEN Skipped ELSE Skipped - 2 * Half
  BY <1>1, WrapsAround DEF Offset, Skipped
<1>3. Outset < Half => Wrapped(OffsetOf(first)) = Outset
  BY <1>1, WrapsAround DEF Outset
<1> HIDE DEF Half
<1> QED
  BY <1>1, <1>2, <1>3

\* A page on, the rows skipped are a page more, as long as the page was answered.
LEMMA SkipsOn ==
  ASSUME IInv, page' = page + 1, UNCHANGED limit, Skipped < Half
  PROVE  Skipped' = Skipped + limit /\ OffsetOf(page)' = OffsetOf(page) + limit
<1>1. /\ OffsetOf(page) \in Nat /\ Skipped \in Nat /\ Half \in Nat \ {0}
      /\ limit \in Nat /\ limit <= Half /\ page \in Nat \ {0}
  BY Counted, PagesAssumption DEF IInv, Typed
<1>2. OffsetOf(page)' = OffsetOf(page) + limit
  <2>1. \A m, n \in Nat : (m + 1) * n = m * n + n
    BY SMTT(30)
  <2>2. ((page - 1) + 1) * limit = (page - 1) * limit + limit
    <3>1. page - 1 \in Nat
      BY <1>1
    <3> QED
      BY <1>1, <2>1, <3>1
  <2>3. (page - 1) + 1 = (page + 1) - 1
    BY <1>1
  <2> QED
    BY <2>2, <2>3 DEF OffsetOf
<1>3. Skipped' = Skipped + limit
  <2> DEFINE d == 2 * Half
  <2>1. d \in Nat \ {0} /\ limit <= d /\ Skipped + limit < d
    BY <1>1
  <2>2. Skipped = OffsetOf(page) % d /\ Skipped' = (OffsetOf(page) + limit) % d
    BY <1>2 DEF Skipped
  <2> HIDE DEF d
  <2> QED
    BY <1>1, <2>1, <2>2, RemainderGrows
<1> QED
  BY <1>2, <1>3

\* What the walk leaves out depends on neither the program counter nor the history.
LEMMA SameSkipped ==
  ASSUME UNCHANGED <<page, first, limit>>
  PROVE  Skipped' = Skipped /\ Outset' = Outset /\ OffsetOf(page)' = OffsetOf(page)
         /\ OffsetOf(first)' = OffsetOf(first)
  BY DEF Skipped, Outset, OffsetOf

\* The first count sees what the walk has to receive.
LEMMA AssetsCount ==
  ASSUME IInv, list = "assets", Count
  PROVE  AssetsInv'
<1>1. /\ pc \in {"start", "count"} /\ pc' = "page"
      /\ atStart' = IF pc = "start" THEN rows ELSE atStart
      /\ UNCHANGED <<limit, first, page, rows, newest, inserted, deleted, seen, repeats>>
  BY DEF Count, request, table, answers
<1>2. /\ Skipped' = Skipped /\ Outset' = Outset /\ Again' = Again
      /\ OffsetOf(page)' = OffsetOf(page) /\ OffsetOf(first)' = OffsetOf(first)
  BY <1>1, SameSkipped DEF Again, Behind, Place, Before
<1>3. Cardinality(Passed') <= deleted + Outset
  <2>1. CASE pc = "start"
    <3>1. Skipped = Outset /\ Outset \in Nat /\ deleted \in Nat
      BY <2>1, Counted DEF IInv, Typed, AssetsInv, Skipped, Outset
    <3>2. Passed' \subseteq rows \ Behind(rows, Skipped)
      BY <1>1, <1>2 DEF Passed, Behind, Place, Before
    <3>3. /\ IsFiniteSet(rows \ Behind(rows, Skipped))
          /\ Cardinality(rows \ Behind(rows, Skipped)) <= Skipped
      BY Counted, FrontBounded
    <3>4. /\ Cardinality(Passed') <= Cardinality(rows \ Behind(rows, Skipped))
          /\ Cardinality(Passed') \in Nat /\ Cardinality(rows \ Behind(rows, Skipped)) \in Nat
      BY <3>2, <3>3, FS_Subset, FS_CardinalityType
    <3> QED
      BY <3>1, <3>3, <3>4
  <2>2. CASE pc = "count"
    <3>1. Passed' = Passed
      BY <1>1, <1>2, <2>2 DEF Passed, Behind, Place, Before
    <3> QED
      BY <2>2, <3>1 DEF IInv, AssetsInv
  <2> QED
    BY <1>1, <2>1, <2>2
<1>4. atStart' \subseteq 1..newest
  BY <1>1 DEF IInv, AssetsInv
<1>5. OmissionsBounded'
  BY <1>1 DEF OmissionsBounded
<1> QED
  BY <1>1, <1>2, <1>3, <1>4, <1>5 DEF IInv, AssetsInv

\* A page takes the first of what is behind those skipped.  What it repeats is
\* counted from then on, and it leaves alone what has been passed.
LEMMA AssetsFindPage ==
  ASSUME IInv, list = "assets", FindPage
  PROVE  AssetsInv'
<1>1. PICK p \in SUBSET rows :
        /\ IsPage(p)
        /\ seen' = seen \cup p
        /\ repeats' = Capped(repeats + Cardinality(p \cap seen))
        /\ IF Full(p) THEN pc' = "count" /\ NextRequest(p)
                      ELSE pc' = "done" /\ UNCHANGED <<cursor, page>>
  BY DEF FindPage
<1>2. UNCHANGED <<list, limit, first, rows, newest, inserted, deleted, atStart>> /\ pc = "page" /\ Offset >= 0
  BY DEF FindPage, table
<1>3. /\ Skipped \in Nat /\ Half \in Nat \ {0} /\ limit \in Nat \ {0} /\ rows \in SUBSET Ids
      /\ inserted \in Nat /\ deleted \in Nat /\ repeats \in Nat /\ newest \in Nat
      /\ newest <= MaxRows /\ inserted <= newest /\ MaxRows \in Nat
  BY Counted, PageTyped, PagesAssumption DEF IInv, Typed, AssetsInv
<1>4. Skipped < Half /\ Offset = Skipped
  BY <1>2, <1>3, OffsetFits
<1>15. Outset < Half /\ Outset' = Outset /\ OffsetOf(first)' = OffsetOf(first)
  BY <1>2, <1>4 DEF IInv, AssetsInv, Skipped, Outset, OffsetOf
<1> DEFINE B == Behind(rows, Skipped)
<1>5. Rest = B
  BY <1>4 DEF Rest, Precedes, Behind, Place, Before
<1>6. /\ p \in SUBSET B /\ (~Full(p) => p = B)
      /\ \A r \in p : \A s \in B \ p : r > s
  <2> HIDE DEF B
  <2> QED
    BY <1>1, <1>5 DEF IsPage, Full, Precedes
<1>7. /\ Cardinality(Again) \in Nat /\ IsFiniteSet(Again)
      /\ Cardinality(p) \in Nat /\ Cardinality(p \cap seen) \in Nat
      /\ Cardinality(seen) \in Nat
  BY Counted, PageTyped
<1>8. Again = seen \cap B
  BY DEF Again
<1>9. p \cap seen \subseteq Again
  BY <1>6, <1>8
<1>10. Cardinality(p \cap seen) <= Cardinality(Again)
  BY <1>7, <1>9, FS_Subset
<1>11. repeats' = repeats + Cardinality(p \cap seen) /\ repeats' <= inserted
  <2>1. repeats + Cardinality(Again) <= inserted
    BY <1>2 DEF IInv, AssetsInv
  <2> QED
    BY <1>1, <1>3, <1>7, <1>10, <2>1 DEF Capped
<1>12. /\ rows' \subseteq 1..newest' /\ seen' \subseteq 1..newest' /\ atStart' \subseteq 1..newest'
  BY <1>1, <1>2 DEF IInv, AssetsInv
<1>13. CASE Full(p)
  <2>1. pc' = "count" /\ page' = page + 1 /\ Cardinality(p) = limit
    BY <1>1, <1>13 DEF NextRequest, Full
  <2>2. Skipped' = Skipped + limit /\ OffsetOf(page)' = OffsetOf(page) + limit
    BY <1>2, <1>4, <2>1, SkipsOn
  <2>3. Behind(rows, Skipped + limit) = B \ p
    <3>1. /\ p \in SUBSET Behind(rows, Skipped) /\ Cardinality(p) > 0
          /\ \A r \in p : \A s \in Behind(rows, Skipped) \ p : r > s
      BY <1>3, <1>6, <2>1
    <3>2. Behind(rows, Skipped + Cardinality(p)) = Behind(rows, Skipped) \ p
      BY <1>3, <3>1, PageLeaves
    <3> QED
      BY <2>1, <3>2
  <2>4. Behind(rows', Skipped') = B \ p
    <3>1. Behind(rows', Skipped') = Behind(rows, Skipped')
      BY <1>2 DEF Behind, Place, Before
    <3> QED
      BY <2>2, <2>3, <3>1
  <2> HIDE DEF B
  <2>5. Again' = Again \ (p \cap seen)
    BY <1>1, <1>6, <1>8, <2>4 DEF Again
  <2>6. Cardinality(Again') = Cardinality(Again) - Cardinality(p \cap seen)
    <3>1. Cardinality(Again \ (p \cap seen)) = Cardinality(Again) - Cardinality(Again \cap (p \cap seen))
      BY <1>7, FS_Difference
    <3>2. Again \cap (p \cap seen) = p \cap seen
      BY <1>9
    <3> QED
      BY <2>5, <3>1, <3>2
  <2>7. repeats' + Cardinality(Again') <= inserted
    <3>1. repeats + Cardinality(Again) <= inserted
      BY <1>2 DEF IInv, AssetsInv
    <3> QED
      BY <1>3, <1>7, <1>11, <2>6, <3>1
  <2>8. Passed' = Passed
    <3>1. Passed' = ((atStart \cap rows) \ (seen \cup p)) \ (B \ p)
      BY <1>1, <1>2, <2>4 DEF Passed
    <3>2. Passed = ((atStart \cap rows) \ seen) \ B
      BY DEF Passed, B
    <3> QED
      BY <1>6, <3>1, <3>2
  <2>9. Cardinality(Passed') <= deleted + Outset
    BY <1>2, <2>8 DEF IInv, AssetsInv
  <2>10. Cardinality(seen') + repeats' = (page' - first') * limit'
    <3>1. Cardinality(seen) + repeats = (page - first) * limit
      BY <1>2 DEF IInv, AssetsInv
    <3>5. (page' - first') * limit' = (page - first) * limit + limit
      <4>1. page \in Nat /\ first \in Nat /\ page - first \in Nat
        BY DEF IInv, Typed, AssetsInv
      <4>2. \A m, n \in Nat : (m + 1) * n = m * n + n
        BY SMTT(30)
      <4>3. page' - first' = (page - first) + 1
        BY <1>2, <2>1, <4>1
      <4> QED
        BY <1>2, <1>3, <4>1, <4>2, <4>3
    <3>2. Cardinality(seen \cup p) = Cardinality(seen) + Cardinality(p) - Cardinality(seen \cap p)
      BY PageTyped, FS_Union
    <3>3. seen \cap p = p \cap seen
      OBVIOUS
    <3>4. Cardinality(seen') = Cardinality(seen) + limit - Cardinality(p \cap seen)
      BY <1>1, <2>1, <3>2, <3>3
    <3> QED
      BY <1>3, <1>7, <1>11, <3>1, <3>4, <3>5
  <2>11. OffsetOf(first)' < 2 * Half => Skipped' = OffsetOf(page)'
    BY <1>15, <2>2 DEF IInv, AssetsInv
  <2>13. page' >= first'
    BY <1>2, <2>1 DEF IInv, Typed, AssetsInv
  <2>12. OmissionsBounded'
    BY <2>1 DEF OmissionsBounded
  <2> QED
    BY <1>2, <1>3, <1>11, <1>12, <1>15, <2>1, <2>7, <2>9, <2>10, <2>11, <2>12, <2>13 DEF AssetsInv
<1>14. CASE ~Full(p)
  <2>1. pc' = "done" /\ page' = page /\ p = B
    BY <1>1, <1>6, <1>14
  <2>2. Skipped' = Skipped /\ OffsetOf(page)' = OffsetOf(page)
    BY <1>2, <2>1, SameSkipped
  <2>3. (atStart' \cap rows') \ seen' = Passed
    BY <1>1, <1>2, <2>1 DEF Passed
  <2>4. OmissionsBounded'
    <3>1. Cardinality(Passed) <= deleted + Outset
      BY <1>2 DEF IInv, AssetsInv
    <3>2. Wrapped(OffsetOf(first))' = Outset
      <4>1. Wrapped(OffsetOf(first)) = Outset
        BY <1>15, OffsetFits
      <4> QED
        BY <1>15, <4>1 DEF Wrapped
    <3> QED
      BY <1>2, <2>3, <3>1, <3>2 DEF OmissionsBounded
  <2>5. page' >= first' /\ (OffsetOf(first)' < 2 * Half => Skipped' = OffsetOf(page)')
    BY <1>2, <1>15, <2>1, <2>2 DEF IInv, AssetsInv
  <2> QED
    BY <1>2, <1>3, <1>11, <1>12, <1>15, <2>1, <2>4, <2>5 DEF AssetsInv
<1> QED
  BY <1>13, <1>14

\* The offset that PostgreSQL refuses is the one that did not fit.
LEMMA AssetsRefuse ==
  ASSUME IInv, list = "assets", Refuse
  PROVE  AssetsInv'
<1>1. /\ pc = "page" /\ pc' = "failed" /\ Offset < 0
      /\ UNCHANGED <<limit, first, page, rows, newest, inserted, deleted, seen, repeats, atStart>>
  BY DEF Refuse, request, table, answers
<1>2. /\ Skipped' = Skipped /\ Outset' = Outset /\ Again' = Again /\ Passed' = Passed
      /\ OffsetOf(page)' = OffsetOf(page) /\ OffsetOf(first)' = OffsetOf(first)
  BY <1>1, SameSkipped DEF Again, Passed, Behind, Place, Before
<1>3. Skipped >= Half
  BY <1>1, Counted, OffsetFits
<1>4. OmissionsBounded'
  BY <1>1 DEF OmissionsBounded
<1> QED
  BY <1>1, <1>2, <1>3, <1>4 DEF IInv, AssetsInv

\* A creation makes the client receive one row again at most, and none twice
\* more; it passes none.
LEMMA AssetsInsert ==
  ASSUME IInv, list = "assets", Insert
  PROVE  AssetsInv'
<1> DEFINE c == newest + 1
<1>1. /\ pc \in {"start", "count", "page"} /\ c \in Ids
      /\ rows' = rows \cup {c} /\ newest' = c
      /\ inserted' = IF Walking THEN inserted + 1 ELSE inserted
      /\ UNCHANGED <<limit, first, page, pc, seen, repeats, atStart, deleted>>
  BY DEF Insert, request, answers
<1>2. /\ newest \in Nat /\ c \in Nat /\ c <= MaxRows /\ inserted \in Nat /\ inserted <= newest
      /\ repeats \in Nat /\ deleted \in Nat
      /\ \A r \in rows \cup seen \cup atStart : r \in 1..newest /\ r < c
  BY <1>1, PagesAssumption DEF IInv, Typed, AssetsInv, Ids
<1>3. /\ rows' \subseteq 1..newest' /\ seen' \subseteq 1..newest' /\ atStart' \subseteq 1..newest'
      /\ newest' <= MaxRows /\ inserted' <= newest'
  BY <1>1, <1>2
<1>4. /\ Skipped' = Skipped /\ Skipped \in Nat /\ Outset' = Outset /\ Outset \in Nat
      /\ OffsetOf(page)' = OffsetOf(page) /\ OffsetOf(first)' = OffsetOf(first)
  BY <1>1, Counted, SameSkipped
<1> DEFINE B == Behind(rows, Skipped)
           W == Behind(rows \cup {c}, Skipped)
<1>5. /\ B \subseteq W
      /\ \E T \in SUBSET rows : IsFiniteSet(T) /\ Cardinality(T) <= 1 /\ W \subseteq B \cup T \cup {c}
  <2>1. rows \in SUBSET Ids /\ Skipped \in Nat /\ c \in Ids /\ \A r \in rows : r < c
    BY <1>1, <1>2, Counted
  <2> HIDE DEF c
  <2> QED
    BY <2>1, CreationShifts
<1>6. Behind(rows', Skipped') = W
  BY <1>1, <1>4 DEF Behind, Place, Before
<1> HIDE DEF B, W
<1>7. Cardinality(Again') <= Cardinality(Again) + 1 /\ Cardinality(Again') \in Nat
  <2>1. PICK T \in SUBSET rows : IsFiniteSet(T) /\ Cardinality(T) <= 1 /\ W \subseteq B \cup T \cup {c}
    BY <1>5
  <2>2. Again' = seen \cap W /\ Again = seen \cap B
    BY <1>1, <1>6 DEF Again, B
  <2>3. c \notin seen
    BY <1>2
  <2>4. Again' \subseteq Again \cup T
    BY <2>1, <2>2, <2>3
  <2>5. /\ IsFiniteSet(Again) /\ Cardinality(Again) \in Nat /\ Cardinality(T) \in Nat
        /\ IsFiniteSet(Again \cap T) /\ Cardinality(Again \cap T) \in Nat
    BY <2>1, Counted, FS_CardinalityType, FS_Intersection
  <2>6. /\ IsFiniteSet(Again \cup T)
        /\ Cardinality(Again \cup T) = Cardinality(Again) + Cardinality(T) - Cardinality(Again \cap T)
    BY <2>1, <2>5, FS_Union
  <2>7. IsFiniteSet(Again') /\ Cardinality(Again') <= Cardinality(Again \cup T)
    BY <2>4, <2>6, FS_Subset
  <2>8. Cardinality(Again') \in Nat
    BY <2>7, FS_CardinalityType
  <2> QED
    BY <2>1, <2>5, <2>6, <2>7, <2>8
<1>8. repeats' + Cardinality(Again') <= inserted' /\ repeats' <= inserted'
  <2>1. repeats + Cardinality(Again) <= inserted /\ repeats <= inserted
    BY <1>1 DEF IInv, AssetsInv
  <2>2. CASE Walking
    BY <1>1, <1>2, <1>7, <2>1, <2>2, Counted
  <2>3. CASE ~Walking
    <3>1. seen = {}
      BY <1>1, <2>3 DEF Walking, IInv, AssetsInv
    <3>2. Again' = {}
      BY <1>1, <3>1 DEF Again
    <3>3. Cardinality(Again') = 0
      BY <3>2, FS_EmptySet
    <3> QED
      BY <1>1, <1>2, <2>1, <2>3, <3>3
  <2> QED
    BY <2>2, <2>3
<1>9. Cardinality(Passed') <= deleted + Outset
  <2>1. Passed' = ((atStart \cap (rows \cup {c})) \ seen) \ W
    BY <1>1, <1>6 DEF Passed
  <2>2. Passed = ((atStart \cap rows) \ seen) \ B
    BY DEF Passed, B
  <2>3. c \notin atStart
    BY <1>2
  <2>4. Passed' \subseteq Passed
    BY <1>5, <2>1, <2>2, <2>3
  <2>5. Cardinality(Passed') <= Cardinality(Passed) /\ Cardinality(Passed') \in Nat
    BY <2>4, Counted, FS_Subset, FS_CardinalityType
  <2>6. Cardinality(Passed) <= deleted + Outset
    BY <1>1 DEF IInv, AssetsInv
  <2> QED
    BY <1>2, <1>4, <2>5, <2>6, Counted
<1>10. OmissionsBounded'
  BY <1>1 DEF OmissionsBounded
<1> QED
  BY <1>1, <1>3, <1>4, <1>8, <1>9, <1>10 DEF IInv, AssetsInv

\* A deletion makes the walk pass one row at most, and repeats none.
LEMMA AssetsDelete ==
  ASSUME IInv, list = "assets", Delete
  PROVE  AssetsInv'
<1>1. PICK d \in rows : rows' = rows \ {d}
  BY DEF Delete
<1>2. /\ pc \in {"start", "count", "page"}
      /\ deleted' = IF Walking THEN deleted + 1 ELSE deleted
      /\ UNCHANGED <<limit, first, page, pc, seen, repeats, atStart, newest, inserted>>
  BY DEF Delete, request, answers
<1>3. /\ Skipped' = Skipped /\ Skipped \in Nat /\ Outset' = Outset /\ Outset \in Nat
      /\ OffsetOf(page)' = OffsetOf(page) /\ OffsetOf(first)' = OffsetOf(first)
  BY <1>2, Counted, SameSkipped
<1> DEFINE B == Behind(rows, Skipped)
           W == Behind(rows \ {d}, Skipped)
<1>4. /\ W \subseteq B
      /\ \E T \in SUBSET rows : IsFiniteSet(T) /\ Cardinality(T) <= 1 /\ B \ {d} \subseteq W \cup T
  BY <1>3, Counted, DeletionShifts
<1>5. Behind(rows', Skipped') = W
  BY <1>1, <1>3 DEF Behind, Place, Before
<1> HIDE DEF B, W
<1>6. repeats' + Cardinality(Again') <= inserted'
  <2>1. Again' \subseteq Again
    BY <1>2, <1>4, <1>5 DEF Again, B
  <2>2. Cardinality(Again') <= Cardinality(Again) /\ Cardinality(Again') \in Nat
    BY <2>1, Counted, FS_Subset, FS_CardinalityType
  <2>3. repeats + Cardinality(Again) <= inserted /\ repeats \in Nat /\ inserted \in Nat
    BY <1>2 DEF IInv, AssetsInv, Typed
  <2> QED
    BY <1>2, <2>2, <2>3, Counted
<1>7. Cardinality(Passed') <= Cardinality(Passed) + 1 /\ Cardinality(Passed') \in Nat
  <2>1. PICK T \in SUBSET rows : IsFiniteSet(T) /\ Cardinality(T) <= 1 /\ B \ {d} \subseteq W \cup T
    BY <1>4
  <2>2. /\ Passed' = ((atStart \cap (rows \ {d})) \ seen) \ W
        /\ Passed = ((atStart \cap rows) \ seen) \ B
    BY <1>1, <1>2, <1>5 DEF Passed, B
  <2>3. Passed' \subseteq Passed \cup T
    BY <2>1, <2>2
  <2>4. /\ IsFiniteSet(Passed) /\ Cardinality(Passed) \in Nat /\ Cardinality(T) \in Nat
        /\ IsFiniteSet(Passed \cap T) /\ Cardinality(Passed \cap T) \in Nat
    BY <2>1, Counted, FS_CardinalityType, FS_Intersection
  <2>5. /\ IsFiniteSet(Passed \cup T)
        /\ Cardinality(Passed \cup T) = Cardinality(Passed) + Cardinality(T) - Cardinality(Passed \cap T)
    BY <2>1, <2>4, FS_Union
  <2>6. IsFiniteSet(Passed') /\ Cardinality(Passed') <= Cardinality(Passed \cup T)
    BY <2>3, <2>5, FS_Subset
  <2>7. Cardinality(Passed') \in Nat
    BY <2>6, FS_CardinalityType
  <2> QED
    BY <2>1, <2>4, <2>5, <2>6, <2>7
<1>8. Cardinality(Passed') <= deleted' + Outset
  <2>1. Cardinality(Passed) <= deleted + Outset /\ deleted \in Nat
    BY <1>2 DEF IInv, AssetsInv, Typed
  <2>2. CASE Walking
    BY <1>2, <1>3, <1>7, <2>1, <2>2, Counted
  <2>3. CASE ~Walking
    <3>1. atStart = {}
      BY <1>2, <2>3 DEF Walking, IInv, AssetsInv
    <3>2. Passed' = {}
      BY <1>2, <3>1 DEF Passed
    <3>3. Cardinality(Passed') = 0
      BY <3>2, FS_EmptySet
    <3> QED
      BY <1>2, <1>3, <2>1, <2>3, <3>3
  <2> QED
    BY <2>2, <2>3
<1>9. OmissionsBounded'
  BY <1>2 DEF OmissionsBounded
<1> QED
  BY <1>1, <1>2, <1>3, <1>6, <1>8, <1>9 DEF IInv, AssetsInv

\* A stutter of a walk through the assets.
LEMMA AssetsStutter ==
  ASSUME IInv, list = "assets", UNCHANGED vars
  PROVE  AssetsInv'
<1>1. UNCHANGED <<list, limit, first, page, rows, newest, inserted, deleted, seen, repeats, atStart, pc>>
  BY DEF vars, request, table, answers
<1> QED
  BY <1>1, SameSkipped DEF IInv, AssetsInv, Again, Passed, Behind, Place, Before, OmissionsBounded,
                           OffsetOf, Wrapped

-----------------------------------------------------------------------------
(* The theorems. *)

\* The invariant holds at the start.
LEMMA InitIInv == Init => IInv
<1> SUFFICES ASSUME Init PROVE IInv
  OBVIOUS
<1>1. Typed
  BY PagesAssumption DEF Init, Typed
<1>2. Cardinality({}) = 0 /\ limit \in Nat \ {0} /\ Half \in Nat \ {0} /\ MaxRows \in Nat
  BY FS_EmptySet, PagesAssumption DEF Init
<1>3. UsersInv
  <2>1. 0 % limit = 0
    BY <1>2, SMTT(30)
  <2> QED
    BY <1>2, <2>1 DEF Init, UsersInv, Divided
<1>4. AssetsInv
  <2>1. first \in Nat \ {0} /\ page = first /\ Skipped = Outset
    BY <1>1 DEF Init, Typed, Skipped, Outset
  <2>2. Again = {} /\ Passed = {}
    BY DEF Init, Again, Passed
  <2>3. OffsetOf(first) \in Nat
    <3>1. \A m, n \in Nat : m * n \in Nat
      OBVIOUS
    <3> QED
      BY <1>2, <2>1, <3>1 DEF OffsetOf
  <2>4. Outset \in Nat /\ (OffsetOf(first) < 2 * Half => Skipped = OffsetOf(page))
    <3> DEFINE d == 2 * Half
    <3>1. d \in Nat \ {0} /\ Outset = OffsetOf(first) % d
      BY <1>2 DEF Outset
    <3>2. Outset \in Nat /\ (OffsetOf(first) < d => Outset = OffsetOf(first))
      <4> HIDE DEF d
      <4> QED
        BY <2>3, <3>1, RemainderGrows
    <3> QED
      BY <2>1, <3>2
  <2>5. (page - first) * limit = 0
    <3>1. page - first = 0
      BY <2>1
    <3>2. 0 * limit = 0
      BY <1>2
    <3> QED
      BY <3>1, <3>2
  <2>6. /\ Cardinality(seen) + repeats = (page - first) * limit
        /\ repeats + Cardinality(Again) <= inserted /\ Cardinality(Passed) <= deleted + Outset
    BY <1>2, <2>2, <2>4, <2>5 DEF Init
  <2> QED
    BY <1>2, <2>1, <2>4, <2>6 DEF Init, AssetsInv, OmissionsBounded
<1> QED
  BY <1>1, <1>3, <1>4 DEF IInv

\* In every reachable state the rows received and those to come are on their
\* sides of the cursor or of the offset, save those that were counted crossing
\* it.
THEOREM Invariance == Spec => []IInv
<1>1. IInv /\ [Next]_vars => IInv'
  <2> SUFFICES ASSUME IInv, [Next]_vars PROVE IInv'
    OBVIOUS
  <2>1. list = "users" => UsersInv'
    BY UsersCount, UsersFindPage, UsersOthers DEF Next, Serve
  <2>2. list = "assets" => AssetsInv'
    BY AssetsCount, AssetsFindPage, AssetsRefuse, AssetsInsert, AssetsDelete, AssetsStutter
       DEF Next, Serve
  <2> QED
    BY <2>1, <2>2, TypedStep DEF IInv
<1> QED
  BY <1>1, InitIInv, PTL DEF Spec

\* The types hold, and every page but the last was full
\* (user/handler.go:66-69).
THEOREM PagesFull == Spec => []TypeOK
<1>1. ASSUME IInv PROVE TypeOK
  <2>1. limit \in 1..100 /\ Cardinality(seen) \in Nat
    BY <1>1, PagesAssumption, IdsFinite DEF IInv, Typed
  <2>2. (list = "assets" /\ pc # "done") => Cardinality(seen) + repeats = (page - first) * limit
    BY <1>1 DEF IInv, AssetsInv
  <2>3. (list = "users" /\ pc # "done") => (Cardinality(seen) + repeats) % limit = 0
    <3>1. ASSUME list = "users", pc # "done"
          PROVE  Cardinality(seen) + repeats = Cardinality(seen) /\ Cardinality(seen) % limit = 0
      BY <1>1, <2>1, <3>1 DEF IInv, UsersInv
    <3> QED
      BY <3>1
  <2> QED
    BY <1>1, <2>1, <2>2, <2>3 DEF IInv, Typed, TypeOK
<1> QED
  BY <1>1, Invariance, PTL

\* A walk through the users that has come to its end missed nobody who was
\* registered when it began, and a walk through the assets at most the rows before
\* the offset of its first page and one for each row deleted meanwhile
\* (user/service.go:130-140, asset/service.go:258).
THEOREM NobodyMissed == Spec => []OmissionsBounded
<1>1. ASSUME IInv PROVE OmissionsBounded
  <2>1. CASE list = "users"
    <3>1. ASSUME pc = "done" PROVE Cardinality((atStart \cap rows) \ seen) <= deleted + 0
      <4>1. (atStart \cap rows) \ seen = {} /\ deleted \in Nat
        BY <1>1, <2>1, <3>1 DEF IInv, Typed, UsersInv, Divided
      <4> QED
        BY <4>1, FS_EmptySet
    <3> QED
      BY <2>1, <3>1 DEF OmissionsBounded
  <2>2. CASE list = "assets"
    BY <1>1, <2>2 DEF IInv, AssetsInv
  <2> QED
    BY <1>1, <2>1, <2>2 DEF IInv, Typed
<1> QED
  BY <1>1, Invariance, PTL

\* And it received nobody twice, or one row at most for each asset created
\* meanwhile (user/repository.go:73-81, asset/service.go:258).
THEOREM NobodyRepeated == Spec => []RepeatsBounded
<1>1. IInv => RepeatsBounded
  BY DEF IInv, Typed, UsersInv, AssetsInv, RepeatsBounded
<1> QED
  BY <1>1, Invariance, PTL

\* Whatever page a client begins with: only a page past half the range of the
\* offset is refused, and a walk that began inside the range is never answered
\* from another offset than its page's own; only one that began past the range is
\* (asset/handler.go:144-149, asset/service.go:258).
THEOREM WalksNeverWrap == Spec => []NeverWrapsMidway
<1>1. ASSUME IInv PROVE NeverWrapsMidway
  <2>1. ASSUME pc = "failed" PROVE OffsetOf(page) >= Half
    <3>1. list = "assets" /\ Skipped >= Half
      BY <1>1, <2>1 DEF IInv, Typed, UsersInv, AssetsInv
    <3>2. /\ Skipped <= OffsetOf(page) /\ Skipped \in Nat /\ OffsetOf(page) \in Nat
          /\ Half \in Nat
      BY <1>1, Counted
    <3> HIDE DEF Half
    <3> QED
      BY <3>1, <3>2
  <2>2. ASSUME list = "assets", Offset >= 0, Offset # OffsetOf(page)
        PROVE  OffsetOf(first) >= 2 * Half
    <3>1. Offset = Skipped
      BY <1>1, <2>2, Counted, OffsetFits
    <3>2. ~(OffsetOf(first) < 2 * Half)
      BY <1>1, <2>2, <3>1 DEF IInv, AssetsInv
    <3> QED
      BY <1>1, <3>2, Counted
  <2> QED
    BY <2>1, <2>2 DEF NeverWrapsMidway
<1> QED
  BY <1>1, Invariance, PTL
=============================================================================
