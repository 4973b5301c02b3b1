--------------------------- MODULE Listing_proofs ----------------------------
(***************************************************************************)
(* WalkInv is inductive, for any table, filter, order and page size, any   *)
(* number of rows and any writes between the pages.                        *)
(***************************************************************************)
EXTENDS Listing, FiniteSetTheorems, TLAPS

Below(rank, S, k) == {x \in S : rank[x] < k}

(* Of n rows put in places 0 .. n - 1, k have a place below k.             *)
LEMMA PlacesBelow ==
  ASSUME NEW S, NEW n \in Nat, NEW rank \in Bijection(S, 0 .. n - 1), NEW k \in 0 .. n
  PROVE  IsFiniteSet(Below(rank, S, k)) /\ Cardinality(Below(rank, S, k)) = k
<1> DEFINE B == {x \in S : rank[x] < k}
           f == [x \in B |-> rank[x]]
<1>1. rank \in [S -> 0 .. n - 1] /\ IsInjective(rank) /\ \A t \in 0 .. n - 1 : \E x \in S : rank[x] = t
  BY DEF Bijection, Injection, Surjection
<1>2. f \in [B -> 0 .. k - 1]
  BY <1>1
<1>3. IsInjective(f)
  BY <1>1 DEF IsInjective
<1>4. \A t \in 0 .. k - 1 : \E x \in B : f[x] = t
  <2> SUFFICES ASSUME NEW t \in 0 .. k - 1 PROVE \E x \in B : f[x] = t
    OBVIOUS
  <2>1. PICK x \in S : rank[x] = t
    BY <1>1
  <2>2. x \in B /\ f[x] = t
    BY <2>1
  <2> QED BY <2>2
<1>5. f \in Bijection(B, 0 .. k - 1)
  BY <1>2, <1>3, <1>4 DEF Bijection, Injection, Surjection
<1>6. IsFiniteSet(0 .. k - 1) /\ Cardinality(0 .. k - 1) = k
  BY FS_Interval
<1>7. IsFiniteSet(B)
  BY <1>5, <1>6, FS_Injection DEF Bijection
<1>8. Cardinality(B) = k
  BY <1>5, <1>6, <1>7, FS_Bijection DEF ExistsBijection
<1> QED BY <1>7, <1>8 DEF Below

(* The list is finite.                                                     *)
LEMMA ListFinite ==
  ASSUME DOMAIN rows \subseteq Ids
  PROVE  /\ IsFiniteSet(Matching) /\ Cardinality(Matching) \in Nat
         /\ \A r : IsFiniteSet(AheadOf(r)) /\ Cardinality(AheadOf(r)) \in Nat
<1>1. IsFiniteSet(Matching)
  BY ListingAssumption, FS_Subset DEF Matching
<1>2. \A r : IsFiniteSet(AheadOf(r))
  BY <1>1, FS_Subset DEF AheadOf
<1> QED BY <1>1, <1>2, FS_CardinalityType

(* The place of a row that ties with no other is the number of rows before *)
(* it, whatever places the others are put in.                              *)
LEMMA PlaceOfUntied ==
  ASSUME TypeOK, NEW rank \in Rankings, NEW r \in Matching,
         \A x \in Matching \ {r} : ~Tied(x, r)
  PROVE  rank[r] = Cardinality(AheadOf(r))
<1> DEFINE n == Cardinality(Matching)
<1>1. n \in Nat
  BY ListFinite DEF TypeOK
<1>2. rank \in Bijection(Matching, 0 .. n - 1) /\ \A x, y \in Matching : Ahead(x, y) => rank[x] < rank[y]
  BY DEF Rankings
<1>3. rank \in [Matching -> 0 .. n - 1]
  BY <1>2 DEF Bijection, Injection
<1>4. AheadOf(r) = Below(rank, Matching, rank[r])
  <2>1. ASSUME NEW x \in Matching, rank[x] < rank[r] PROVE Ahead(x, r)
    <3>1. x # r
      BY <2>1, <1>1, <1>3
    <3>2. Ahead(x, r) \/ Ahead(r, x)
      BY <3>1 DEF Tied
    <3>3. ~Ahead(r, x)
      BY <2>1, <1>1, <1>2, <1>3
    <3> QED BY <3>2, <3>3
  <2> QED BY <2>1, <1>2 DEF AheadOf, Below
<1>5. rank[r] \in 0 .. n
  BY <1>1, <1>3
<1> HIDE DEF n
<1> QED BY <1>1, <1>2, <1>4, <1>5, PlacesBelow

(* A page holds at most limit rows, and limit of them when there are rows  *)
(* enough.                                                                 *)
LEMMA PageSize ==
  ASSUME TypeOK, NEW rank \in Rankings, NEW page \in Nat \ {0}
  PROVE  /\ Cardinality(OnPage(rank, page)) \in Nat
         /\ Cardinality(OnPage(rank, page)) <= request.limit
         /\ page * request.limit <= Cardinality(Matching)
               => Cardinality(OnPage(rank, page)) = request.limit
<1> DEFINE n == Cardinality(Matching)
           L == request.limit
           below(k) == Below(rank, Matching, k)
           P == OnPage(rank, page)
<1>1. n \in Nat /\ IsFiniteSet(Matching)
  BY ListFinite DEF TypeOK
<1>2. rank \in Bijection(Matching, 0 .. n - 1) /\ rank \in [Matching -> 0 .. n - 1]
  BY DEF Rankings, Bijection, Injection
<1>3. L \in Nat \ {0}
  BY ListingAssumption DEF TypeOK, Requests
<1> DEFINE a == (page - 1) * L
           b == page * L
<1>4. a \in Nat /\ b \in Nat /\ b = a + L
  BY <1>3
<1>5. P = {x \in Matching : a <= rank[x] /\ rank[x] < b}
  BY <1>2 DEF OnPage
<1>6. IsFiniteSet(P) /\ Cardinality(P) \in Nat
  BY <1>1, <1>5, FS_Subset, FS_CardinalityType
<1> HIDE DEF n, L, P, a, b
<1>7. CASE a > n
  <2>1. P = {}
    BY <1>1, <1>2, <1>4, <1>5, <1>7
  <2> QED BY <2>1, <1>1, <1>3, <1>4, <1>6, <1>7, FS_EmptySet DEF n, L, P, a, b
<1>8. CASE a <= n /\ b <= n
  <2>1. /\ IsFiniteSet(below(a)) /\ Cardinality(below(a)) = a
        /\ IsFiniteSet(below(b)) /\ Cardinality(below(b)) = b
    BY <1>1, <1>2, <1>4, <1>8, PlacesBelow
  <2>2. P = below(b) \ below(a) /\ below(b) \cap below(a) = below(a)
    BY <1>1, <1>2, <1>3, <1>4, <1>5 DEF Below
  <2>3. Cardinality(P) = b - a
    BY <2>1, <2>2, FS_Difference
  <2> QED BY <2>3, <1>3, <1>4, <1>6 DEF n, L, P, a, b
<1>9. CASE a <= n /\ b > n
  <2>1. IsFiniteSet(below(a)) /\ Cardinality(below(a)) = a
    BY <1>1, <1>2, <1>4, <1>9, PlacesBelow
  <2>2. P = Matching \ below(a) /\ Matching \cap below(a) = below(a)
    BY <1>1, <1>2, <1>3, <1>4, <1>5, <1>9 DEF Below
  <2>3. Cardinality(Matching \ below(a)) = Cardinality(Matching) - Cardinality(Matching \cap below(a))
    BY <1>1, FS_Difference
  <2>4. Cardinality(P) = n - a
    BY <2>1, <2>2, <2>3 DEF n
  <2> QED BY <2>4, <1>1, <1>3, <1>4, <1>6, <1>9 DEF n, L, P, a, b
<1> QED BY <1>1, <1>4, <1>7, <1>8, <1>9

(* There is another page as long as the total is above what has been read. *)
LEMMA AnotherPage ==
  ASSUME NEW L \in Nat \ {0}, request.limit = L, NEW page \in Nat, NEW total \in Nat, page * L < total
  PROVE  page < TotalPages(total)
<1> DEFINE q == (total + L - 1) \div L
<1>1. q \in Int /\ total + L - 1 < (q + 1) * L
  OBVIOUS
<1>2. TotalPages(total) = q
  BY DEF TotalPages
<1> HIDE DEF q
<1>3. ASSUME q <= page PROVE FALSE
  <2>1. (q + 1) * L <= (page + 1) * L
    BY <1>1, <1>3
  <2>2. (page + 1) * L = page * L + L
    OBVIOUS
  <2>3. page * L \in Int /\ (q + 1) * L \in Int
    BY <1>1
  <2> QED BY <1>1, <2>1, <2>2, <2>3
<1> QED BY <1>1, <1>2, <1>3

-----------------------------------------------------------------------------
(* A list that is not written keeps its order.                             *)
LEMMA OrderUnchanged ==
  ASSUME UNCHANGED <<table, request, rows>>
  PROVE  /\ Matching' = Matching /\ \A r : AheadOf(r)' = AheadOf(r)
         /\ WrittenMovesForward' = WrittenMovesForward
  BY DEF Matching, AheadOf, Ahead, Value, Key, AsText, Descending, WrittenMovesForward

(* Nothing has been read when a walk begins.                               *)
LEMMA WalkBegins == Init => WalkInv
<1> SUFFICES ASSUME Init PROVE WalkInv
  OBVIOUS
<1>1. TypeOK
  <2>1. PICK S \in SUBSET Ids : rows \in [S -> {row \in Row : row.changed <= now}]
    BY DEF Init
  <2>2. DOMAIN rows \subseteq Ids /\ \A r \in DOMAIN rows : rows[r] \in Row /\ rows[r].changed <= now
    BY <2>1
  <2>3. Matching \subseteq Ids
    BY <2>2 DEF Matching
  <2> QED BY <2>2, <2>3 DEF Init, TypeOK
<1>2. StillToCome
  <2>1. ASSUME NEW r PROVE (walk.page - 1) * request.limit <= Cardinality(AheadOf(r))
    <3>1. Cardinality(AheadOf(r)) \in Nat
      BY <1>1, ListFinite DEF TypeOK
    <3>2. request.limit \in Nat /\ walk.page = 1
      BY ListingAssumption DEF Init, Requests
    <3> QED BY <3>1, <3>2
  <2> QED BY <2>1 DEF Init, StillToCome
<1>3. LeftBehind
  BY DEF Init, LeftBehind, Answered
<1> QED BY <1>1, <1>2, <1>3 DEF WalkInv

-----------------------------------------------------------------------------
(* What reading a page does: it adds a page, which shows an untied row if  *)
(* and only if as many rows precede it as the page skips, up to its end.   *)
LEMMA PageRead ==
  ASSUME WalkInv, walk.at = "rows", Read
  PROVE  LET p == walk.page IN
         /\ DOMAIN pages' = 1 .. p
         /\ \A k \in 1 .. p - 1 : pages'[k] = pages[k]
         /\ DOMAIN pages'[p] \subseteq Matching
         /\ Cardinality(DOMAIN pages'[p]) \in Nat
         /\ Cardinality(DOMAIN pages'[p]) <= request.limit
         /\ p * request.limit <= Cardinality(Matching) => Cardinality(DOMAIN pages'[p]) = request.limit
         /\ \A r \in since.stay \ since'.tied :
               r \in DOMAIN pages'[p] <=> /\ (p - 1) * request.limit <= Cardinality(AheadOf(r))
                                         /\ Cardinality(AheadOf(r)) < p * request.limit
<1> DEFINE p == walk.page
<1>1. TypeOK /\ p \in Nat \ {0} /\ DOMAIN pages = 1 .. p - 1
  BY DEF WalkInv, TypeOK
<1>2. PICK rank \in Rankings :
         /\ pages' = [k \in DOMAIN pages \cup {p} |->
                         IF k = p THEN Placed(rank, OnPage(rank, k)) ELSE pages[k]]
         /\ since' = [since EXCEPT !.tied = @ \cup
                         {r \in Matching : \E x \in Matching \ {r} : Tied(x, r)}]
  BY DEF Read
<1>3. DOMAIN rank = Matching
  BY DEF Rankings, Bijection, Injection
<1>4. DOMAIN pages' = 1 .. p /\ \A k \in 1 .. p - 1 : pages'[k] = pages[k]
  BY <1>1, <1>2
<1>5. DOMAIN pages'[p] = OnPage(rank, p)
  BY <1>1, <1>2 DEF Placed
<1>6. OnPage(rank, p) \subseteq Matching
  BY <1>3 DEF OnPage
<1>7. ASSUME NEW r \in since.stay \ since'.tied
      PROVE  r \in OnPage(rank, p) <=> /\ (p - 1) * request.limit <= Cardinality(AheadOf(r))
                                       /\ Cardinality(AheadOf(r)) < p * request.limit
  <2>1. r \in Matching /\ \A x \in Matching \ {r} : ~Tied(x, r)
    BY <1>1, <1>2 DEF TypeOK
  <2>2. rank[r] = Cardinality(AheadOf(r))
    BY <1>1, <2>1, PlaceOfUntied
  <2> QED BY <1>3, <2>1, <2>2 DEF OnPage
<1> QED BY <1>1, <1>4, <1>5, <1>6, <1>7, PageSize

(* What rows are ordered by compares.                                      *)
LEMMA ColumnsCompare ==
  ASSUME TypeOK, NEW r \in Matching
  PROVE  /\ rows[r].made \in Int /\ rows[r].changed \in Int /\ rows[r].name \in Int
         /\ rows[r][Key] \in Int /\ Value(r) \in Int
<1>1. r \in DOMAIN rows /\ rows[r] \in Row
  BY DEF Matching, TypeOK
<1>2. Key \in {"made", "changed", "name"} /\ (AsText => Key \in {"made", "changed"})
  BY DEF TypeOK, Requests, Sortable, Times, Key, AsText
<1>3. /\ rows[r].made \in 1 .. Instants /\ rows[r].changed \in 1 .. Instants
      /\ rows[r].name \in Int
  BY <1>1, ListingAssumption DEF Row
<1>4. rows[r][Key] \in Int /\ (AsText => rows[r][Key] \in 1 .. Instants)
  BY <1>2, <1>3, ListingAssumption
<1>5. AsText => DateText[rows[r][Key]] \in Int
  BY <1>4, ListingAssumption
<1> QED BY <1>3, <1>4, <1>5, ListingAssumption DEF Value

(* A row of the list is not before itself, so that the list has more rows  *)
(* than are before it.                                                     *)
LEMMA MoreRows ==
  ASSUME TypeOK, NEW r \in Matching
  PROVE  Cardinality(AheadOf(r)) < Cardinality(Matching) /\ Cardinality(Matching) \in Nat
<1>1. AheadOf(r) \subseteq Matching \ {r} /\ IsFiniteSet(Matching)
  <2>1. ~Ahead(r, r)
    BY ColumnsCompare DEF Ahead
  <2> QED BY <2>1, ListFinite DEF AheadOf, TypeOK
<1>2. IsFiniteSet(Matching \ {r}) /\ Cardinality(Matching \ {r}) = Cardinality(Matching) - 1
  BY <1>1, FS_RemoveElement
<1>3. Cardinality(AheadOf(r)) <= Cardinality(Matching \ {r})
  BY <1>1, <1>2, FS_Subset
<1> QED BY <1>2, <1>3, ListFinite DEF TypeOK

(* After the page: an untied row not shown yet has all the pages so far    *)
(* before it, so that this one was full; a row that was shown has not.     *)
LEMMA AfterPage ==
  ASSUME WalkInv, walk.at = "rows", Read, UNCHANGED <<table, request, rows>>
  PROVE  /\ LeftBehind'
         /\ ~since.left /\ (WrittenMovesForward \/ ~since.touched) =>
              \A r \in since'.stay \ since'.tied : Answered(r)' = {} =>
                 /\ walk.page * request.limit <= Cardinality(AheadOf(r))
                 /\ walk.page * request.limit < Cardinality(Matching)
                 /\ Cardinality(DOMAIN pages'[walk.page]) = request.limit
<1> DEFINE p == walk.page
           L == request.limit
<1>1. TypeOK /\ p \in Nat \ {0} /\ L \in Nat \ {0} /\ DOMAIN pages = 1 .. p - 1
  BY ListingAssumption DEF WalkInv, TypeOK, Requests
<1>2. /\ since'.stay = since.stay /\ since.tied \subseteq since'.tied
      /\ since'.entered = since.entered /\ since'.touched = since.touched
  BY <1>1 DEF Read, TypeOK
<1>3. ASSUME NEW r \in since'.stay \ since'.tied
      PROVE  /\ r \in Matching /\ r \in since.stay \ since.tied
             /\ Cardinality(AheadOf(r)) \in Nat
             /\ Answered(r) \subseteq 1 .. p - 1
             /\ Answered(r)' = Answered(r) \cup {k \in {p} : r \in DOMAIN pages'[p]}
  <2>1. r \in since.stay \ since.tied /\ r \in Matching
    BY <1>1, <1>2, <1>3 DEF TypeOK
  <2>2. Cardinality(AheadOf(r)) \in Nat
    BY <1>1, ListFinite DEF TypeOK
  <2>3. Answered(r)' = Answered(r) \cup {k \in {p} : r \in DOMAIN pages'[p]}
    BY <1>1, PageRead DEF Answered
  <2>4. Answered(r) \subseteq 1 .. p - 1
    BY <1>1 DEF Answered
  <2> QED BY <2>1, <2>2, <2>3, <2>4
<1>4. LeftBehind'
  <2> SUFFICES ASSUME ~since'.entered, ~since'.touched,
                      NEW r \in since'.stay \ since'.tied, NEW j \in Answered(r)', NEW k \in Answered(r)'
               PROVE  j = k /\ Cardinality(AheadOf(r)') < k * request'.limit
    BY DEF LeftBehind
  <2> DEFINE c == Cardinality(AheadOf(r))
  <2>1. AheadOf(r)' = AheadOf(r) /\ request' = request
    BY OrderUnchanged
  <2>2. \A m, n \in Answered(r) : m = n /\ c < n * L
    BY <1>2, <1>3 DEF WalkInv, LeftBehind
  <2>3. r \in DOMAIN pages'[p] => (p - 1) * L <= c /\ c < p * L
    BY <1>2, <1>3, PageRead
  <2>4. r \in DOMAIN pages'[p] => Answered(r) = {}
    <3> SUFFICES ASSUME r \in DOMAIN pages'[p], NEW n \in Answered(r) PROVE FALSE
      OBVIOUS
    <3>1. n \in 1 .. p - 1 /\ c \in Nat /\ c < n * L /\ (p - 1) * L <= c
      BY <1>3, <2>2, <2>3
    <3>2. n * L <= (p - 1) * L
      BY <3>1, <1>1
    <3>3. n * L \in Int /\ (p - 1) * L \in Int
      BY <3>1, <1>1
    <3> QED BY <3>1, <3>2, <3>3
  <2> QED BY <1>3, <2>1, <2>2, <2>3, <2>4
<1>5. ASSUME ~since.left, WrittenMovesForward \/ ~since.touched,
             NEW r \in since'.stay \ since'.tied, Answered(r)' = {}
      PROVE  /\ p * L <= Cardinality(AheadOf(r))
             /\ p * L < Cardinality(Matching)
             /\ Cardinality(DOMAIN pages'[p]) = L
  <2> DEFINE c == Cardinality(AheadOf(r))
  <2>1. (p - 1) * L <= c
    BY <1>3, <1>5 DEF WalkInv, StillToCome
  <2>2. r \notin DOMAIN pages'[p]
    BY <1>3, <1>5
  <2>3. p * L <= c
    BY <1>1, <1>2, <1>3, <2>1, <2>2, PageRead
  <2>4. c < Cardinality(Matching) /\ Cardinality(Matching) \in Nat
    BY <1>1, <1>3, MoreRows
  <2>5. Cardinality(DOMAIN pages'[p]) = L
    BY <1>1, <1>3, <2>3, <2>4, PageRead
  <2> QED BY <1>1, <1>3, <2>3, <2>4, <2>5
<1> QED BY <1>4, <1>5

(* The types after a page was read, wherever the walk goes.                *)
LEMMA PageTypes ==
  ASSUME WalkInv, walk.at = "rows", Read, UNCHANGED <<table, request, rows, now>>,
         walk' \in [page : Nat \ {0}, at : {"rows", "total", "end"}],
         walk'.page = IF walk'.at = "rows" THEN walk.page + 1 ELSE walk.page
  PROVE  TypeOK'
<1>1. TypeOK /\ walk.page \in Nat \ {0} /\ DOMAIN pages = 1 .. walk.page - 1
  BY DEF WalkInv, TypeOK
<1>2. since' \in [stay : SUBSET Matching, tied : SUBSET Ids, left : BOOLEAN, entered : BOOLEAN, touched : BOOLEAN]
  BY <1>1 DEF TypeOK, Read, Matching
<1>3. DOMAIN pages' = 1 .. walk.page /\ DOMAIN pages' = 1 .. (IF walk'.at = "rows" THEN walk'.page - 1 ELSE walk'.page)
  BY <1>1, PageRead
<1>4. \A k \in DOMAIN pages' : DOMAIN pages'[k] \subseteq Ids /\ Cardinality(DOMAIN pages'[k]) <= request.limit
  BY <1>1, <1>3, PageRead DEF TypeOK, Matching
<1>5. Requests' = Requests /\ Matching' = Matching
  BY OrderUnchanged DEF Requests, Sortable
<1> QED BY <1>1, <1>2, <1>3, <1>4, <1>5 DEF TypeOK

(* The steps of the client.                                                *)
LEMMA SearchStep == ASSUME WalkInv, SearchPage PROVE WalkInv'
<1>1. TypeOK /\ walk.at = "rows" /\ walk.page \in Nat \ {0} /\ request.limit \in Nat \ {0}
  BY ListingAssumption DEF WalkInv, TypeOK, SearchPage, Requests
<1>2. Cardinality(Matching) \in Nat
  BY <1>1, ListFinite DEF TypeOK
<1>3. walk' = IF walk.page < TotalPages(Cardinality(Matching))
              THEN [page |-> walk.page + 1, at |-> "rows"] ELSE [walk EXCEPT !.at = "end"]
  BY DEF SearchPage, Count
<1>4. TypeOK'
  BY <1>1, <1>3, PageTypes DEF SearchPage, TypeOK
<1>5. LeftBehind'
  BY <1>1, AfterPage DEF SearchPage
<1>6. StillToCome'
  <2>1. WrittenMovesForward' = WrittenMovesForward /\ request' = request /\ \A r : AheadOf(r)' = AheadOf(r)
    BY OrderUnchanged DEF SearchPage
  <2>2. since'.left = since.left /\ since'.touched = since.touched
    BY <1>1 DEF SearchPage, Read, TypeOK
  <2> SUFFICES ASSUME ~since.left, WrittenMovesForward \/ ~since.touched,
                      NEW r \in since'.stay \ since'.tied, Answered(r)' = {}
               PROVE  walk'.at = "rows" /\ (walk'.page - 1) * request.limit <= Cardinality(AheadOf(r))
    BY <2>1, <2>2 DEF StillToCome
  <2>3. /\ walk.page * request.limit <= Cardinality(AheadOf(r))
        /\ walk.page * request.limit < Cardinality(Matching)
    BY <1>1, AfterPage DEF SearchPage
  <2>4. walk.page < TotalPages(Cardinality(Matching))
    BY <1>1, <1>2, <2>3, AnotherPage
  <2> QED BY <1>1, <1>3, <2>3, <2>4
<1> QED BY <1>4, <1>5, <1>6 DEF WalkInv

LEMMA ReadStep == ASSUME WalkInv, ReadPage PROVE WalkInv'
<1>1. TypeOK /\ walk.at = "rows" /\ walk' = [walk EXCEPT !.at = "total"]
  BY DEF WalkInv, ReadPage
<1>2. walk \in [page : Nat \ {0}, at : {"rows", "total", "end"}]
  BY <1>1 DEF TypeOK
<1>3. TypeOK'
  BY <1>1, <1>2, PageTypes DEF ReadPage
<1>4. LeftBehind'
  BY <1>1, AfterPage DEF ReadPage
<1>5. StillToCome'
  <2>1. WrittenMovesForward' = WrittenMovesForward /\ request' = request /\ \A r : AheadOf(r)' = AheadOf(r)
    BY OrderUnchanged DEF ReadPage
  <2>2. since'.left = since.left /\ since'.touched = since.touched
    BY <1>1 DEF ReadPage, Read, TypeOK
  <2> SUFFICES ASSUME ~since.left, WrittenMovesForward \/ ~since.touched,
                      NEW r \in since'.stay \ since'.tied, Answered(r)' = {}
               PROVE  /\ walk.page * request.limit <= Cardinality(AheadOf(r))
                      /\ Cardinality(DOMAIN pages'[walk.page]) = request.limit
    BY <1>1, <1>2, <2>1, <2>2 DEF StillToCome
  <2> QED BY <1>1, AfterPage DEF ReadPage
<1> QED BY <1>3, <1>4, <1>5 DEF WalkInv

LEMMA CountStep == ASSUME WalkInv, CountRows PROVE WalkInv'
<1> DEFINE p == walk.page
           L == request.limit
           got == Cardinality(DOMAIN pages[p])
<1>1. TypeOK /\ walk.at = "total" /\ p \in Nat \ {0} /\ L \in Nat \ {0} /\ DOMAIN pages = 1 .. p
  BY ListingAssumption DEF WalkInv, TypeOK, CountRows, Requests
<1>2. UNCHANGED <<table, request, rows, now, writes, pages, since>>
  BY DEF CountRows
<1>3. \/ walk' = [page |-> p + 1, at |-> "rows"]
      \/ walk' = [walk EXCEPT !.at = "end"]
  BY DEF CountRows, Count
<1>4. Matching' = Matching /\ Requests' = Requests /\ WrittenMovesForward' = WrittenMovesForward
      /\ \A r : AheadOf(r)' = AheadOf(r) /\ Answered(r)' = Answered(r)
  BY <1>2, OrderUnchanged DEF Requests, Sortable, Answered
<1>5. TypeOK'
  BY <1>1, <1>2, <1>3, <1>4 DEF TypeOK
<1>6. LeftBehind'
  BY <1>2, <1>4 DEF WalkInv, LeftBehind
<1>7. StillToCome'
  <2> SUFFICES ASSUME ~since.left, WrittenMovesForward \/ ~since.touched,
                      NEW r \in since.stay \ since.tied, Answered(r) = {}
               PROVE  walk'.at = "rows" /\ (walk'.page - 1) * L <= Cardinality(AheadOf(r))
    BY <1>2, <1>4 DEF StillToCome
  <2>1. p * L <= Cardinality(AheadOf(r)) /\ got = L
    BY <1>1 DEF WalkInv, StillToCome
  <2>2. p * L < Cardinality(Matching) /\ Cardinality(Matching) \in Nat
    <3>1. r \in Matching /\ Cardinality(AheadOf(r)) \in Nat /\ p * L \in Nat
      BY <1>1, ListFinite DEF TypeOK
    <3> QED BY <1>1, <2>1, <3>1, MoreRows
  <2>3. p < TotalPages(Cardinality(Matching))
    BY <1>1, <2>2, AnotherPage
  <2>4. walk' = [page |-> p + 1, at |-> "rows"]
    BY <1>1, <2>1, <2>3 DEF CountRows, Count
  <2> QED BY <1>1, <2>1, <2>4
<1> QED BY <1>5, <1>6, <1>7 DEF WalkInv

-----------------------------------------------------------------------------
(* What a statement between two pages may do: the rows it writes keep the  *)
(* time they were made and get a later, or the same, time of change.       *)
Written(S, new) ==
  /\ DOMAIN new \subseteq Ids /\ DOMAIN rows \ S \subseteq DOMAIN new
  /\ now' \in 1 .. Instants /\ now <= now'
  /\ \A x \in DOMAIN new : new[x] \in Row /\ new[x].changed <= now'
  /\ \A x \in DOMAIN new \ S : x \in DOMAIN rows /\ new[x] = rows[x]
  /\ \A x \in DOMAIN new \cap DOMAIN rows :
        new[x].made = rows[x].made /\ rows[x].changed <= new[x].changed

LEMMA WriteEffect ==
  ASSUME TypeOK, Insert \/ Update \/ Restamp \/ Delete
  PROVE  \E S, new : Write(S, new) /\ Written(S, new)
<1>1. /\ now \in 1 .. Instants /\ DOMAIN rows \subseteq Ids
      /\ \A r \in DOMAIN rows : /\ rows[r] \in Row /\ rows[r].changed <= now
                              /\ rows[r].made \in 1 .. Instants /\ rows[r].changed \in 1 .. Instants
                              /\ rows[r].name \in Names /\ rows[r].class \in Classes
  BY DEF TypeOK, Row
<1>2. NamesSeen \subseteq Names /\ ClassesSeen \subseteq Classes
  BY ListingAssumption DEF NamesSeen, ClassesSeen
<1>3. ASSUME Tick PROVE now' \in 1 .. Instants /\ now <= now'
  BY <1>1, <1>3 DEF Tick
<1>4. CASE Insert
  <2>1. PICK r \in Ids \ DOMAIN rows, name \in NamesSeen, class \in ClassesSeen :
           /\ Tick
           /\ Write({r}, [x \in DOMAIN rows \cup {r} |->
                 IF x = r THEN [made |-> now', changed |-> now', name |-> name, class |-> class]
                 ELSE rows[x]])
    BY <1>4 DEF Insert
  <2> DEFINE row == [made |-> now', changed |-> now', name |-> name, class |-> class]
             new == [x \in DOMAIN rows \cup {r} |-> IF x = r THEN row ELSE rows[x]]
  <2>2. row \in Row /\ row.changed <= now'
    BY <1>1, <1>2, <1>3, <2>1 DEF Row
  <2> HIDE DEF row
  <2>3. Written({r}, new)
    BY <1>1, <1>3, <2>1, <2>2 DEF Written
  <2> QED BY <2>1, <2>3 DEF row
<1>5. CASE Update
  <2>1. PICK r \in DOMAIN rows, name \in NamesSeen, class \in ClassesSeen :
           /\ Tick
           /\ Write({r}, [rows EXCEPT ![r].changed = now', ![r].name = name, ![r].class = class])
    BY <1>5 DEF Update
  <2> DEFINE row == [rows[r] EXCEPT !.changed = now', !.name = name, !.class = class]
             new == [rows EXCEPT ![r] = row]
  <2>2. row \in Row /\ row.changed = now' /\ row.made = rows[r].made
    BY <1>1, <1>2, <1>3, <2>1 DEF Row
  <2>3. new = [rows EXCEPT ![r].changed = now', ![r].name = name, ![r].class = class]
    OBVIOUS
  <2> HIDE DEF row
  <2>4. /\ DOMAIN new = DOMAIN rows /\ new[r] = row /\ rows[r].changed <= now'
        /\ \A x \in DOMAIN rows \ {r} : new[x] = rows[x] /\ rows[x].changed <= now'
    BY <1>1, <1>3, <2>1
  <2> HIDE DEF new
  <2>5. Written({r}, new)
    BY <1>1, <1>3, <2>1, <2>2, <2>4 DEF Written
  <2> QED BY <2>1, <2>3, <2>5
<1>6. CASE Restamp
  <2>1. PICK S \in SUBSET DOMAIN rows :
           /\ Tick
           /\ Write(S, [r \in DOMAIN rows |->
                 IF r \in S THEN [rows[r] EXCEPT !.changed = now'] ELSE rows[r]])
    BY <1>6 DEF Restamp
  <2> DEFINE new == [r \in DOMAIN rows |-> IF r \in S THEN [rows[r] EXCEPT !.changed = now'] ELSE rows[r]]
  <2>2. \A r \in S : /\ [rows[r] EXCEPT !.changed = now'] \in Row
                     /\ [rows[r] EXCEPT !.changed = now'].changed = now'
                     /\ [rows[r] EXCEPT !.changed = now'].made = rows[r].made
    BY <1>1, <1>3, <2>1 DEF Row
  <2>3. /\ DOMAIN new = DOMAIN rows
        /\ \A r \in S : new[r] \in Row /\ new[r].changed = now' /\ new[r].made = rows[r].made
        /\ \A r \in DOMAIN rows \ S : new[r] = rows[r]
        /\ \A r \in DOMAIN rows : rows[r].changed <= now'
    BY <1>1, <1>3, <2>1, <2>2
  <2> HIDE DEF new
  <2>4. Written(S, new)
    BY <1>1, <1>3, <2>1, <2>3 DEF Written
  <2> QED BY <2>1, <2>4 DEF new
<1>7. CASE Delete
  <2>1. PICK r \in DOMAIN rows : Write({r}, [x \in DOMAIN rows \ {r} |-> rows[x]]) /\ now' = now
    BY <1>7 DEF Delete
  <2>2. Written({r}, [x \in DOMAIN rows \ {r} |-> rows[x]])
    BY <1>1, <2>1 DEF Written
  <2> QED BY <2>1, <2>2
<1> QED BY <1>4, <1>5, <1>6, <1>7

(* A row nobody wrote keeps the rows before it, unless they leave the list,*)
(* when a written row only moves forward; ...                              *)
LEMMA AheadKept ==
  ASSUME TypeOK, TypeOK', NEW S, NEW new, Write(S, new), Written(S, new),
         Matching \subseteq Matching', WrittenMovesForward \/ S \cap Matching = {},
         NEW r \in Matching \ S
  PROVE  AheadOf(r) \subseteq AheadOf(r)'
<1>1. /\ UNCHANGED <<table, request>> /\ rows' = new
      /\ Key' = Key /\ AsText' = AsText /\ Descending' = Descending
  BY DEF Write, Key, AsText, Descending
<1>2. r \in Matching' /\ new[r] = rows[r] /\ r \in DOMAIN new
  BY <1>1 DEF Matching, Written
<1> SUFFICES ASSUME NEW x \in Matching, Ahead(x, r) PROVE Ahead(x, r)'
  BY DEF AheadOf
<1>3. /\ x \in DOMAIN rows /\ x \in DOMAIN new /\ new[x].made = rows[x].made
      /\ rows[x].changed <= new[x].changed
      /\ {rows[x].changed, new[x].changed, rows[r].changed} \subseteq Int
  <2>1. x \in DOMAIN rows /\ x \in DOMAIN new /\ r \in DOMAIN rows
    BY <1>1 DEF Matching
  <2>2. rows[x] \in Row /\ new[x] \in Row /\ rows[r] \in Row
    BY <2>1 DEF TypeOK, Written
  <2> QED BY <2>1, <2>2, ListingAssumption DEF Written, Row
<1>4. CASE x \notin S
  <2>1. new[x] = rows[x]
    BY <1>3, <1>4 DEF Written
  <2> QED BY <1>1, <1>2, <2>1 DEF Ahead, Value
<1>5. CASE Key = "made"
  BY <1>1, <1>2, <1>3, <1>5 DEF Ahead, Value
<1>6. CASE Key = "changed" /\ Descending /\ ~AsText
  BY <1>1, <1>2, <1>3, <1>6 DEF Ahead, Value
<1> QED BY <1>4, <1>5, <1>6 DEF WrittenMovesForward

(* ... and it gets none before it when no row enters the list and none of  *)
(* the list is written.                                                    *)
LEMMA AheadNotMore ==
  ASSUME NEW S, NEW new, Write(S, new), Written(S, new),
         Matching' \subseteq Matching, S \cap Matching = {},
         NEW r \in Matching \ S
  PROVE  AheadOf(r)' \subseteq AheadOf(r)
<1>1. /\ UNCHANGED <<table, request>> /\ rows' = new
      /\ Key' = Key /\ AsText' = AsText /\ Descending' = Descending
  BY DEF Write, Key, AsText, Descending
<1>2. new[r] = rows[r]
  BY DEF Matching, Written
<1> SUFFICES ASSUME NEW x \in Matching', Ahead(x, r)' PROVE Ahead(x, r)
  BY DEF AheadOf
<1>3. new[x] = rows[x]
  BY <1>1 DEF Matching, Written
<1> QED BY <1>1, <1>2, <1>3 DEF Ahead, Value

LEMMA WriteStep == ASSUME WalkInv, Insert \/ Update \/ Restamp \/ Delete PROVE WalkInv'
<1>1. TypeOK /\ walk.page \in Nat \ {0} /\ request.limit \in Nat \ {0}
  BY ListingAssumption DEF WalkInv, TypeOK, Requests
<1>2. PICK S, new : Write(S, new) /\ Written(S, new)
  BY <1>1, WriteEffect
<1>3. UNCHANGED <<table, request, walk, pages>> /\ rows' = new
  BY <1>2 DEF Write
<1>4. /\ since'.stay = since.stay \ S /\ since'.tied = since.tied
      /\ since'.left = (since.left \/ Matching \ Matching' # {})
      /\ since'.entered = (since.entered \/ Matching' \ Matching # {})
      /\ since'.touched = (since.touched \/ S \cap Matching # {})
  BY <1>1, <1>2 DEF Write, TypeOK
<1>5. since.stay \ S \subseteq Matching'
  BY <1>1, <1>2, <1>3 DEF TypeOK, Matching, Written
<1>6. TypeOK'
  <2>1. since' \in [stay : SUBSET Matching', tied : SUBSET Ids, left : BOOLEAN, entered : BOOLEAN, touched : BOOLEAN]
    BY <1>1, <1>2, <1>4, <1>5 DEF TypeOK, Write
  <2>2. Requests' = Requests
    BY <1>3 DEF Requests, Sortable
  <2> QED BY <1>1, <1>2, <1>3, <2>1, <2>2 DEF TypeOK, Written
<1>7. WrittenMovesForward' = WrittenMovesForward /\ \A r : Answered(r)' = Answered(r)
  BY <1>3 DEF WrittenMovesForward, Key, AsText, Descending, Answered
<1>8. \A r : /\ IsFiniteSet(AheadOf(r)) /\ Cardinality(AheadOf(r)) \in Nat
            /\ IsFiniteSet(AheadOf(r)') /\ Cardinality(AheadOf(r)') \in Nat
  <2>1. \A r : IsFiniteSet(AheadOf(r)) /\ Cardinality(AheadOf(r)) \in Nat
    BY <1>1, ListFinite DEF TypeOK
  <2>2. \A r : IsFiniteSet(AheadOf(r)')
    BY <1>6, ListingAssumption, FS_Subset DEF TypeOK, AheadOf, Matching
  <2> QED BY <2>1, <2>2, FS_CardinalityType
<1>9. StillToCome'
  <2> SUFFICES ASSUME ~since'.left, WrittenMovesForward \/ ~since'.touched,
                      NEW r \in since'.stay \ since'.tied, Answered(r) = {}
               PROVE  \/ /\ walk.at = "rows"
                         /\ (walk.page - 1) * request.limit <= Cardinality(AheadOf(r)')
                      \/ /\ walk.at = "total"
                         /\ walk.page * request.limit <= Cardinality(AheadOf(r)')
                         /\ Cardinality(DOMAIN pages[walk.page]) = request.limit
    BY <1>3, <1>7 DEF StillToCome
  <2>1. /\ ~since.left /\ (WrittenMovesForward \/ ~since.touched)
        /\ Matching \subseteq Matching' /\ (WrittenMovesForward \/ S \cap Matching = {})
    BY <1>4
  <2>2. r \in since.stay \ since.tied /\ r \in Matching \ S
    BY <1>1, <1>4 DEF TypeOK
  <2>3. AheadOf(r) \subseteq AheadOf(r)'
    BY <1>1, <1>2, <1>6, <2>1, <2>2, AheadKept
  <2>4. Cardinality(AheadOf(r)) <= Cardinality(AheadOf(r)')
    BY <1>8, <2>3, FS_Subset
  <2>5. \/ /\ walk.at = "rows"
           /\ (walk.page - 1) * request.limit <= Cardinality(AheadOf(r))
        \/ /\ walk.at = "total"
           /\ walk.page * request.limit <= Cardinality(AheadOf(r))
           /\ Cardinality(DOMAIN pages[walk.page]) = request.limit
    BY <2>1, <2>2 DEF WalkInv, StillToCome
  <2>6. (walk.page - 1) * request.limit \in Int /\ walk.page * request.limit \in Int
    BY <1>1
  <2> QED BY <1>8, <2>4, <2>5, <2>6
<1>10. LeftBehind'
  <2> SUFFICES ASSUME ~since'.entered, ~since'.touched,
                      NEW r \in since'.stay \ since'.tied, NEW j \in Answered(r), NEW k \in Answered(r)
               PROVE  j = k /\ Cardinality(AheadOf(r)') < k * request.limit
    BY <1>3, <1>7 DEF LeftBehind
  <2>1. ~since.entered /\ ~since.touched /\ Matching' \subseteq Matching /\ S \cap Matching = {}
    BY <1>4
  <2>2. r \in since.stay \ since.tied /\ r \in Matching \ S
    BY <1>1, <1>4 DEF TypeOK
  <2>3. AheadOf(r)' \subseteq AheadOf(r)
    BY <1>2, <2>1, <2>2, AheadNotMore
  <2>4. Cardinality(AheadOf(r)') <= Cardinality(AheadOf(r))
    BY <1>8, <2>3, FS_Subset
  <2>5. j = k /\ Cardinality(AheadOf(r)) < k * request.limit
    BY <2>1, <2>2 DEF WalkInv, LeftBehind
  <2>6. k * request.limit \in Int
    BY <1>1 DEF TypeOK, Answered
  <2> QED BY <1>8, <2>4, <2>5, <2>6
<1> QED BY <1>6, <1>9, <1>10 DEF WalkInv

-----------------------------------------------------------------------------
(* The inductive invariant: wherever the walk is, an undisturbed row is    *)
(* still ahead of it or behind it on one page, for every table, request,   *)
(* page size and number of rows, whatever is written between two pages.    *)
THEOREM WalkInvariance == Spec => []WalkInv
<1>1. WalkInv /\ [Next]_vars => WalkInv'
  <2> SUFFICES ASSUME WalkInv, [Next]_vars PROVE WalkInv'
    OBVIOUS
  <2>1. CASE UNCHANGED vars
    <3>1. UNCHANGED <<table, request, rows, now, walk, pages, since>>
      BY <2>1 DEF vars
    <3>2. Requests' = Requests /\ \A r : Answered(r)' = Answered(r)
      BY <3>1 DEF Requests, Sortable, Answered
    <3>3. TypeOK' /\ StillToCome' /\ LeftBehind'
      BY <3>1, <3>2, OrderUnchanged DEF WalkInv, TypeOK, StillToCome, LeftBehind
    <3> QED BY <3>3 DEF WalkInv
  <2> QED BY <2>1, SearchStep, ReadStep, CountStep, WriteStep DEF Next
<1> QED BY WalkBegins, <1>1, PTL DEF Spec

(* Pages and rows keep their types, and no page has more rows than asked.  *)
THEOREM WalkTyped == Spec => []TypeOK
<1>1. WalkInv => TypeOK BY DEF WalkInv
<1> QED BY WalkInvariance, <1>1, PTL

(* A walk to the end of a list, of any length and with any pages, misses   *)
(* no row that was there and unwritten all the while, unless rows leave    *)
(* the list, writes move rows backwards in it, or the row ties.            *)
THEOREM UndisturbedRowsShown == Spec => []NothingMissed
<1>1. WalkInv => NothingMissed BY DEF WalkInv, StillToCome, NothingMissed
<1> QED BY WalkInvariance, <1>1, PTL

(* It shows none of them twice unless rows come before it or the row ties. *)
THEOREM UndisturbedRowsShownOnce == Spec => []NothingRepeated
<1>1. ASSUME WalkInv PROVE NothingRepeated
  <2> SUFFICES ASSUME ~since.entered, ~since.touched, NEW r \in since.stay \ since.tied
               PROVE  Cardinality(Answered(r)) <= 1
    BY DEF NothingRepeated
  <2>1. \A j, k \in Answered(r) : j = k
    BY <1>1 DEF WalkInv, LeftBehind
  <2>2. CASE Answered(r) = {}
    BY <2>2, FS_EmptySet
  <2>3. CASE \E k \in Answered(r) : Answered(r) = {k}
    BY <2>3, FS_Singleton
  <2> QED BY <2>1, <2>2, <2>3
<1> QED BY WalkInvariance, <1>1, PTL

-----------------------------------------------------------------------------
(* The order of the rows, while nothing is written.                        *)

(* A row has fewer rows before it than one that comes later.               *)
LEMMA FewerAhead ==
  ASSUME TypeOK, NEW x \in Matching, NEW y \in Matching, Ahead(x, y)
  PROVE  Cardinality(AheadOf(x)) < Cardinality(AheadOf(y))
<1>1. \A z \in Matching : Value(z) \in Int /\ rows[z].changed \in Int
  BY ColumnsCompare
<1>2. ~Ahead(x, x) /\ \A z \in Matching : Ahead(z, x) => Ahead(z, y)
  BY <1>1 DEF Ahead
<1>3. AheadOf(x) \subseteq AheadOf(y) \ {x} /\ x \in AheadOf(y)
  BY <1>2 DEF AheadOf
<1>4. IsFiniteSet(AheadOf(y)) /\ Cardinality(AheadOf(x)) \in Nat /\ Cardinality(AheadOf(y)) \in Nat
  BY ListFinite DEF TypeOK
<1>5. /\ IsFiniteSet(AheadOf(y) \ {x})
      /\ Cardinality(AheadOf(y) \ {x}) = Cardinality(AheadOf(y)) - 1
  BY <1>3, <1>4, FS_RemoveElement
<1>6. Cardinality(AheadOf(x)) <= Cardinality(AheadOf(y) \ {x})
  BY <1>3, <1>5, FS_Subset
<1> QED BY <1>4, <1>5, <1>6

(* What was asked for is the order of the list, but for products.          *)
LEMMA AskedAhead ==
  ASSUME TypeOK, ~AsText, NEW x \in Matching, NEW y \in Matching, Asked(x, y),
         table # "products" \/ request.sortBy = "none"
  PROVE  Ahead(x, y)
<1>1. Value(x) = rows[x][Key] /\ Value(y) = rows[y][Key]
  BY DEF Value
<1>2. CASE request.sortBy = "none"
  BY <1>1, <1>2 DEF Asked, Ahead
<1>3. CASE request.sortBy # "none"
  <2>1. table \in {"users", "institutions"}
    BY <1>3 DEF TypeOK, Tables, Requests, Sortable
  <2>2. Key = request.sortBy /\ (Descending <=> request.order = "desc")
    BY <1>3, <2>1 DEF Key, Descending
  <2> QED BY <1>1, <1>3, <2>2 DEF Asked, Ahead
<1> QED BY <1>2, <1>3

(* On a page the rows stand in the order asked for.                        *)
LEMMA PlacedAsAsked ==
  ASSUME TypeOK, ~AsText, NEW rank \in Rankings, NEW S \in SUBSET Matching,
         NEW x \in S, NEW y \in S, Asked(x, y)
  PROVE  Placed(rank, S)[x] < Placed(rank, S)[y]
<1> DEFINE before(r) == {z \in S : AheadOnPage(rank, z, r)}
           resorted == table = "products" /\ request.sortBy # "none"
           value(z) == rows[z][request.sortBy]
<1>1. IsFiniteSet(S)
  BY ListFinite, FS_Subset DEF TypeOK
<1>2. \A z \in S : rank[z] \in Int
  BY DEF Rankings, Bijection, Injection
<1>3. resorted => \A z \in S : value(z) \in Int
  <2> SUFFICES ASSUME resorted, NEW z \in S PROVE value(z) \in Int
    OBVIOUS
  <2>1. request.sortBy \in {"name", "made", "changed"}
    BY DEF TypeOK, Requests, Times
  <2> QED BY <2>1, ColumnsCompare
<1>4. resorted => IF request.order = "desc" THEN value(x) > value(y) ELSE value(x) < value(y)
  BY DEF Asked
<1>5. ~resorted => rank[x] < rank[y]
  BY AskedAhead DEF Rankings
<1>6. \A z, r \in S : AheadOnPage(rank, z, r) <=>
                         IF resorted /\ value(z) # value(r)
                         THEN (value(z) > value(r)) <=> (request.order = "desc")
                         ELSE rank[z] < rank[r]
  BY DEF AheadOnPage
<1> HIDE DEF resorted, value
<1>7. /\ AheadOnPage(rank, x, y) /\ ~AheadOnPage(rank, x, x)
      /\ \A z \in S : AheadOnPage(rank, z, x) => AheadOnPage(rank, z, y)
  <2>1. CASE ~resorted
    BY <2>1, <1>2, <1>5, <1>6
  <2>2. CASE resorted /\ request.order = "desc"
    BY <2>2, <1>2, <1>3, <1>4, <1>6
  <2>3. CASE resorted /\ request.order # "desc"
    BY <2>3, <1>2, <1>3, <1>4, <1>6
  <2> QED BY <2>1, <2>2, <2>3
<1>8. before(x) \subseteq before(y) \ {x} /\ x \in before(y)
  BY <1>7
<1>9. /\ IsFiniteSet(before(x)) /\ IsFiniteSet(before(y))
      /\ Cardinality(before(x)) \in Nat /\ Cardinality(before(y)) \in Nat
  <2>1. before(x) \subseteq S /\ before(y) \subseteq S
    OBVIOUS
  <2> HIDE DEF before
  <2> QED BY <1>1, <2>1, FS_Subset, FS_CardinalityType
<1>10. Placed(rank, S)[x] = Cardinality(before(x)) /\ Placed(rank, S)[y] = Cardinality(before(y))
  BY DEF Placed
<1> HIDE DEF before
<1>11. /\ IsFiniteSet(before(y) \ {x})
       /\ Cardinality(before(y) \ {x}) = Cardinality(before(y)) - 1
  BY <1>8, <1>9, FS_RemoveElement
<1>12. Cardinality(before(x)) <= Cardinality(before(y) \ {x})
  BY <1>8, <1>11, FS_Subset
<1> QED BY <1>9, <1>10, <1>11, <1>12

LEMMA ReadInOrder ==
  ASSUME WalkInv, PagesInOrder, walk.at = "rows", Read, UNCHANGED <<table, request, rows, writes>>
  PROVE  PagesInOrder'
<1> DEFINE p == walk.page
<1>1. TypeOK /\ p \in Nat \ {0} /\ DOMAIN pages = 1 .. p - 1
  BY DEF WalkInv, TypeOK
<1>2. PICK rank \in Rankings :
         /\ pages' = [k \in DOMAIN pages \cup {p} |->
                         IF k = p THEN Placed(rank, OnPage(rank, k)) ELSE pages[k]]
         /\ since' = [since EXCEPT !.tied = @ \cup
                         {r \in Matching : \E x \in Matching \ {r} : Tied(x, r)}]
  BY DEF Read
<1>3. DOMAIN rank = Matching /\ OnPage(rank, p) \subseteq Matching
  BY DEF Rankings, Bijection, Injection, OnPage
<1>4. /\ DOMAIN pages' = 1 .. p /\ \A k \in 1 .. p - 1 : pages'[k] = pages[k]
      /\ pages'[p] = Placed(rank, OnPage(rank, p)) /\ DOMAIN pages'[p] = OnPage(rank, p)
  BY <1>1, <1>2 DEF Placed
<1>5. since.tied \subseteq since'.tied
  BY <1>1, <1>2 DEF TypeOK
<1>6. /\ Matching' = Matching /\ \A r : AheadOf(r)' = AheadOf(r)
      /\ AsText' = AsText /\ \A x, y : Asked(x, y)' = Asked(x, y)
  BY OrderUnchanged DEF AsText, Asked, Key, Descending
<1>7. ASSUME NEW r \in OnPage(rank, p) \ since'.tied
      PROVE  /\ (p - 1) * request.limit <= Cardinality(AheadOf(r))
             /\ Cardinality(AheadOf(r)) < p * request.limit
  <2>1. r \in Matching /\ \A x \in Matching \ {r} : ~Tied(x, r)
    BY <1>1, <1>2, <1>3 DEF TypeOK
  <2>2. rank[r] = Cardinality(AheadOf(r))
    BY <1>1, <2>1, PlaceOfUntied
  <2> QED BY <2>2 DEF OnPage
<1>8. ASSUME ~AsText, NEW x \in OnPage(rank, p), NEW y \in OnPage(rank, p), Asked(x, y)
      PROVE  pages'[p][x] < pages'[p][y]
  BY <1>1, <1>3, <1>4, <1>8, PlacedAsAsked
<1> SUFFICES ASSUME writes = 0, NEW k \in 1 .. p
             PROVE  /\ DOMAIN pages'[k] \subseteq Matching
                    /\ \A r \in DOMAIN pages'[k] \ since'.tied :
                          /\ (k - 1) * request.limit <= Cardinality(AheadOf(r))
                          /\ Cardinality(AheadOf(r)) < k * request.limit
                    /\ ~AsText =>
                          \A x, y \in DOMAIN pages'[k] : Asked(x, y) => pages'[k][x] < pages'[k][y]
  BY <1>4, <1>6 DEF PagesInOrder
<1>9. CASE k = p
  BY <1>3, <1>4, <1>7, <1>8, <1>9
<1>10. CASE k # p
  <2>1. k \in 1 .. p - 1 /\ pages'[k] = pages[k]
    BY <1>1, <1>4, <1>10
  <2> QED BY <1>1, <1>5, <2>1 DEF PagesInOrder
<1> QED BY <1>9, <1>10

LEMMA NextInOrder == ASSUME WalkInv, PagesInOrder, [Next]_vars PROVE PagesInOrder'
<1>1. CASE SearchPage \/ ReadPage
  BY <1>1, ReadInOrder DEF SearchPage, ReadPage
<1>2. CASE CountRows \/ UNCHANGED vars
  <2>1. UNCHANGED <<table, request, rows, writes, pages, since>>
    BY <1>2 DEF CountRows, vars
  <2>2. /\ Matching' = Matching /\ \A r : AheadOf(r)' = AheadOf(r)
        /\ AsText' = AsText /\ \A x, y : Asked(x, y)' = Asked(x, y)
    BY <2>1, OrderUnchanged DEF AsText, Asked, Key, Descending
  <2> QED BY <2>1, <2>2 DEF PagesInOrder
<1>3. CASE Insert \/ Update \/ Restamp \/ Delete
  <2>1. writes' = writes + 1
    BY <1>3 DEF Insert, Update, Restamp, Delete, Write
  <2> QED BY <2>1 DEF PagesInOrder
<1> QED BY <1>1, <1>2, <1>3 DEF Next

(* The rows of a walk nobody disturbed come in the order asked for, in a   *)
(* list of any length: products only within each page (findProducts sorts  *)
(* the page it has cut), and a search by a time only as texts sort.        *)
THEOREM UndisturbedWalkInOrder == Spec => []OrderKept
<1>1. Init => PagesInOrder
  BY DEF Init, PagesInOrder
<1>2. WalkInv /\ PagesInOrder /\ [Next]_vars => PagesInOrder'
  BY NextInOrder
<1>3. ASSUME WalkInv, PagesInOrder PROVE OrderKept
  <2> SUFFICES ASSUME writes = 0, ~AsText, NEW k \in DOMAIN pages, NEW m \in DOMAIN pages,
                      NEW x \in DOMAIN pages[k], NEW y \in DOMAIN pages[m], Asked(x, y),
                      k = m \/ table # "products" \/ request.sortBy = "none",
                      x \notin since.tied, y \notin since.tied
               PROVE  k < m \/ (k = m /\ pages[k][x] < pages[m][y])
    BY DEF OrderKept
  <2>1. /\ TypeOK /\ k \in Nat \ {0} /\ m \in Nat \ {0} /\ request.limit \in Nat \ {0}
        /\ x \in Matching /\ y \in Matching
    <3>1. TypeOK /\ walk.page \in Nat \ {0}
      BY <1>3 DEF WalkInv, TypeOK
    <3>2. DOMAIN pages \subseteq Nat \ {0}
      BY <3>1 DEF TypeOK
    <3>3. request.limit \in Nat \ {0}
      BY <3>1, ListingAssumption DEF TypeOK, Requests
    <3>4. x \in Matching /\ y \in Matching
      BY <1>3 DEF PagesInOrder
    <3> QED BY <3>1, <3>2, <3>3, <3>4
  <2>2. CASE k = m
    BY <1>3, <2>2 DEF PagesInOrder
  <2>3. CASE k # m
    <3> DEFINE L == request.limit
               a == Cardinality(AheadOf(x))
               b == Cardinality(AheadOf(y))
    <3>1. a < b /\ a \in Nat /\ b \in Nat
      BY <2>1, <2>3, AskedAhead, FewerAhead, ListFinite DEF TypeOK
    <3>2. (k - 1) * L <= a /\ b < m * L
      BY <1>3 DEF PagesInOrder
    <3> HIDE DEF a, b
    <3>3. ASSUME m < k PROVE FALSE
      <4>1. m * L <= (k - 1) * L
        BY <2>1, <3>3
      <4>2. m * L \in Int /\ (k - 1) * L \in Int
        BY <2>1
      <4> QED BY <3>1, <3>2, <4>1, <4>2
    <3> QED BY <2>1, <2>3, <3>3
  <2> QED BY <2>2, <2>3
<1> QED BY WalkInvariance, <1>1, <1>2, <1>3, PTL DEF Spec
=============================================================================
