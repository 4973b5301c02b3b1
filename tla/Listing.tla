------------------------------- MODULE Listing -------------------------------
(***************************************************************************)
(* The paginated lists of the administration, and a client that walks one  *)
(* of them from its first page to its last while rows are written.         *)
(*                                                                         *)
(* Every page is a request of its own with skip = (page - 1) * limit; a    *)
(* row's place is only what the columns the list is ordered by make of it, *)
(* and rows that agree on them may change places from one request to the   *)
(* next.  Columns a request does not look at are left blank.               *)
(***************************************************************************)
EXTENDS Integers, FiniteSets, Functions

CONSTANTS
    Ids,        \* rows
    Names,      \* values of a column that is neither a filter nor a time, as they sort
    Classes,    \* values of the column a list is filtered by
    All,        \* no filter
    Limits,     \* page sizes
    Instants,   \* bound: times are 1 .. Instants
    MaxLoaded,  \* bound: rows when a walk begins
    MaxWrites,  \* bound: statements during a walk
    DateText    \* [time -> the rank of its text among the texts of all times]

ASSUME ListingAssumption ==
    /\ IsFiniteSet(Ids)
    /\ Names \subseteq Int /\ Names # {}
    /\ Classes # {} /\ All \notin Classes
    /\ Limits \subseteq Nat \ {0}
    /\ Instants \in Nat
    /\ DateText \in [1 .. Instants -> Int]

VARIABLES
    table,    \* the table that is listed
    request,  \* what the pages are asked with
    rows,     \* [row -> its columns], of the rows in the table
    now,      \* the clock
    writes,   \* statements so far
    walk,     \* [page, at]: the page asked for, and what is missing of its answer
    pages,    \* the pages answered: of each, the rows and the place of each on it
    since     \* history since the first page: [stay] rows in the list that no
              \* statement touched; [tied] rows that shared their place with another
              \* when a page was read; whether a row has [left] the list, [entered]
              \* it, or been [touched] in it

vars == <<table, request, rows, now, writes, walk, pages, since>>

Tables == {"users", "institutions", "products", "links", "orders"}
Times == {"made", "changed"}

(* What sortBy may name, by the query of the table; lastLoginAt of users,  *)
(* empty for many of them, is left out.                                    *)
Sortable ==
    IF table \in {"users", "institutions", "products"} THEN {"name"} \cup Times ELSE {}

(* search: users looked up by a text, which are ordered, filtered and cut  *)
(* into pages in memory.                                                   *)
Requests ==
    {q \in [sortBy : {"none", "name"} \cup Times, order : {"asc", "desc"},
            search : BOOLEAN, filter : Classes \cup {All}, limit : Limits] :
        /\ q.sortBy \in Sortable \cup {"none"}
        /\ q.search => table = "users"
        /\ Sortable = {} => q.order = "desc"}

Row == [made : 1 .. Instants, changed : 1 .. Instants, name : Names, class : Classes]

Matching == {r \in DOMAIN rows : request.filter \in {All, rows[r].class}}

-----------------------------------------------------------------------------
(* The column a list is ordered by; orders go by their creation, products  *)
(* and links by their last change whatever was asked.                      *)
Key ==
    IF table = "orders" THEN "made"
    ELSE IF table \in {"products", "links"} \/ request.sortBy = "none" THEN "changed"
    ELSE request.sortBy

(* The columns a request looks at; in a table the others may be anything.  *)
Seen == {Key, request.sortBy} \cup IF request.search THEN {"changed"} ELSE {}
NamesSeen == IF "name" \in Seen THEN Names ELSE {CHOOSE x \in Names : TRUE}
ClassesSeen == IF request.filter = All THEN {CHOOSE x \in Classes : TRUE} ELSE Classes

Descending ==
    \/ table \in {"orders", "products", "links"}
    \/ request.search /\ request.sortBy = "none"
    \/ request.order = "desc"

(* In memory times are compared as the texts of the dates.                 *)
AsText == request.search /\ request.sortBy \in Times
Value(r) == IF AsText THEN DateText[rows[r][Key]] ELSE rows[r][Key]

(* A plausible bug: the direction is taken for the default one.            *)
AheadDescending(x, y) ==
    \/ Value(x) > Value(y)
    \/ request.search /\ Value(x) = Value(y) /\ rows[x].changed > rows[y].changed

(* x comes before y.  The sort in memory is stable, and the rows came from *)
(* the database last change first.                                         *)
Ahead(x, y) ==
    \/ IF Descending THEN Value(x) > Value(y) ELSE Value(x) < Value(y)
    \/ request.search /\ Value(x) = Value(y) /\ rows[x].changed > rows[y].changed

AheadOf(r) == {x \in Matching : Ahead(x, r)}
Tied(x, y) == ~Ahead(x, y) /\ ~Ahead(y, x)

(* The places the rows of the list may be put in.                          *)
Rankings ==
    {rank \in Bijection(Matching, 0 .. Cardinality(Matching) - 1) :
        \A x, y \in Matching : Ahead(x, y) => rank[x] < rank[y]}

(* A plausible bug: the last row of a page is shown again on the next one, *)
(* because one too few is skipped for each page.                           *)
OnPageOverlapping(rank, page) ==
    {r \in DOMAIN rank : /\ (page - 1) * (request.limit - 1) <= rank[r]
                         /\ rank[r] < (page - 1) * (request.limit - 1) + request.limit}

OnPage(rank, page) ==
    {r \in DOMAIN rank : /\ (page - 1) * request.limit <= rank[r]
                         /\ rank[r] < page * request.limit}

(* A plausible bug: a page that is not full is not counted.                *)
TotalPagesFloor(total) == total \div request.limit

TotalPages(total) == (total + request.limit - 1) \div request.limit

(* The order of the rows on one page: a page of products is sorted by what *)
(* was asked, once it has been cut.                                        *)
AheadOnPage(rank, x, y) ==
    IF table = "products" /\ request.sortBy # "none" /\ rows[x][request.sortBy] # rows[y][request.sortBy]
    THEN (rows[x][request.sortBy] > rows[y][request.sortBy]) = (request.order = "desc")
    ELSE rank[x] < rank[y]

Placed(rank, S) == [r \in S |-> Cardinality({x \in S : AheadOnPage(rank, x, r)})]

-----------------------------------------------------------------------------
Init ==
    /\ table \in Tables
    /\ request \in Requests
    /\ now \in 1 .. Instants
    /\ \E S \in {T \in SUBSET Ids : Cardinality(T) <= MaxLoaded} :
          rows \in [S -> {row \in Row : /\ row.made <= row.changed /\ row.changed <= now
                                        /\ "made" \notin Seen => row.made = 1
                                        /\ "changed" \notin Seen => row.changed = row.made
                                        /\ row.name \in NamesSeen /\ row.class \in ClassesSeen}]
    /\ writes = 0
    /\ walk = [page |-> 1, at |-> "rows"]
    /\ pages = << >>
    /\ since = [stay |-> Matching, tied |-> {}, left |-> FALSE, entered |-> FALSE, touched |-> FALSE]

(* A page is asked for: its rows ...                                       *)
Read ==
    \E rank \in Rankings :
       /\ pages' = [k \in DOMAIN pages \cup {walk.page} |->
                      IF k = walk.page THEN Placed(rank, OnPage(rank, k)) ELSE pages[k]]
       /\ since' = [since EXCEPT !.tied = @ \cup
                      {r \in Matching : \E x \in Matching \ {r} : Tied(x, r)}]

(* ... and the total, of which the client makes whether there is another.  *)
Count(total) ==
    walk' = IF walk.page < TotalPages(total)
            THEN [page |-> walk.page + 1, at |-> "rows"] ELSE [walk EXCEPT !.at = "end"]

(* searchUsersWithFilters cuts the page out of the list it counts.         *)
SearchPage ==
    /\ walk.at = "rows" /\ request.search
    /\ Read
    /\ Count(Cardinality(Matching))
    /\ UNCHANGED <<table, request, rows, now, writes>>

(* getManyAndCount reads the page, then counts, unless the page was the    *)
(* last and not full.                                                      *)
ReadPage ==
    /\ walk.at = "rows" /\ ~request.search
    /\ Read
    /\ walk' = [walk EXCEPT !.at = "total"]
    /\ UNCHANGED <<table, request, rows, now, writes>>

CountRows ==
    /\ walk.at = "total"
    /\ LET got == Cardinality(DOMAIN pages[walk.page])
           short == got < request.limit /\ (got > 0 \/ walk.page = 1)
       IN  Count(IF short THEN (walk.page - 1) * request.limit + got ELSE Cardinality(Matching))
    /\ UNCHANGED <<table, request, rows, now, writes, pages, since>>

-----------------------------------------------------------------------------
(* A statement of some handler sets the rows of S to new, or deletes those *)
(* that new leaves out; two statements may fall on one instant.            *)
Write(S, new) ==
    /\ walk.at # "end" /\ writes < MaxWrites
    /\ writes' = writes + 1
    /\ rows' = new
    /\ UNCHANGED <<table, request, walk, pages>>
    /\ since' = [since EXCEPT
          !.stay = @ \ S,
          !.left = @ \/ Matching \ Matching' # {},
          !.entered = @ \/ Matching' \ Matching # {},
          !.touched = @ \/ S \cap Matching # {}]

Tick == now' \in {now, now + 1} /\ now' <= Instants

Insert ==
    \E r \in Ids \ DOMAIN rows, name \in NamesSeen, class \in ClassesSeen :
       /\ Tick
       /\ Write({r}, [x \in DOMAIN rows \cup {r} |->
             IF x = r THEN [made |-> now', changed |-> now', name |-> name, class |-> class]
             ELSE rows[x]])

(* The type of a product or a link is not changed once it is there.        *)
Update ==
    \E r \in DOMAIN rows, name \in NamesSeen, class \in ClassesSeen :
       /\ table \in {"products", "links"} => class = rows[r].class
       /\ Tick
       /\ Write({r}, [rows EXCEPT ![r].changed = now', ![r].name = name, ![r].class = class])

(* removeEventFromDetails: one statement, one NOW() for all links.         *)
Restamp ==
    \E S \in SUBSET DOMAIN rows :
       /\ table = "links" /\ S # {}
       /\ Tick
       /\ Write(S, [r \in DOMAIN rows |->
             IF r \in S THEN [rows[r] EXCEPT !.changed = now'] ELSE rows[r]])

Delete ==
    \E r \in DOMAIN rows :
       /\ Write({r}, [x \in DOMAIN rows \ {r} |-> rows[x]])
       /\ UNCHANGED now

Next ==
    \/ SearchPage \/ ReadPage \/ CountRows
    \/ Insert \/ Update \/ Restamp \/ Delete

Spec == Init /\ [][Next]_vars

-----------------------------------------------------------------------------
TypeOK ==
    /\ table \in Tables
    /\ request \in Requests
    /\ now \in 1 .. Instants
    /\ DOMAIN rows \subseteq Ids
    /\ \A r \in DOMAIN rows : rows[r] \in Row /\ rows[r].changed <= now
    /\ walk \in [page : Nat \ {0}, at : {"rows", "total", "end"}]
    /\ DOMAIN pages = 1 .. (IF walk.at = "rows" THEN walk.page - 1 ELSE walk.page)
    /\ \A k \in DOMAIN pages :
          DOMAIN pages[k] \subseteq Ids /\ Cardinality(DOMAIN pages[k]) <= request.limit
    /\ since \in [stay : SUBSET Matching, tied : SUBSET Ids,
                   left : BOOLEAN, entered : BOOLEAN, touched : BOOLEAN]

Answered(r) == {k \in DOMAIN pages : r \in DOMAIN pages[k]}

(* A row that is written moves to the front, or nowhere: the orders by     *)
(* creation and, from the last, by change.                                 *)
WrittenMovesForward == Key = "made" \/ (Key = "changed" /\ Descending /\ ~AsText)

(* A walk to the last page shows every row that was in the list all the    *)
(* while and that nobody wrote, however many are inserted or updated       *)
(* meanwhile - unless rows leave the list, the list is ordered by a column *)
(* that writes move backwards, or the row ties with another.               *)
NothingMissed ==
    walk.at = "end" /\ ~since.left /\ (WrittenMovesForward \/ ~since.touched) =>
       \A r \in since.stay \ since.tied : Answered(r) # {}

(* A row that nobody wrote is shown on two pages only if it ties with      *)
(* another or others came in front of it: rows that entered the list, or   *)
(* rows of it that were written.                                           *)
NothingRepeated ==
    ~since.entered /\ ~since.touched =>
       \A r \in since.stay \ since.tied : Cardinality(Answered(r)) <= 1

(* What the two rest on: a row not shown yet is ahead of the walk, with a  *)
(* page of rows before it once a page was read without it, ...             *)
StillToCome ==
    ~since.left /\ (WrittenMovesForward \/ ~since.touched) =>
       \A r \in since.stay \ since.tied : Answered(r) = {} =>
          \/ /\ walk.at = "rows"
             /\ (walk.page - 1) * request.limit <= Cardinality(AheadOf(r))
          \/ /\ walk.at = "total"
             /\ walk.page * request.limit <= Cardinality(AheadOf(r))
             /\ Cardinality(DOMAIN pages[walk.page]) = request.limit

(* ... and one that was shown is behind it.                                *)
LeftBehind ==
    ~since.entered /\ ~since.touched =>
       \A r \in since.stay \ since.tied : \A j, k \in Answered(r) :
          j = k /\ Cardinality(AheadOf(r)) < k * request.limit

WalkInv == TypeOK /\ StillToCome /\ LeftBehind

(* Whether the request asks for x strictly before y.                       *)
Asked(x, y) ==
    LET column == IF request.sortBy = "none" THEN Key ELSE request.sortBy
        down == IF request.sortBy = "none" THEN Descending ELSE request.order = "desc"
    IN  IF down THEN rows[x][column] > rows[y][column] ELSE rows[x][column] < rows[y][column]

(* The rows of a walk nobody disturbed come in the order asked for, except *)
(* that products are in order only within each page, and that a search     *)
(* ordered by a time is ordered by the text of the dates.                  *)
OrderKept ==
    writes = 0 /\ ~AsText =>
       \A k, m \in DOMAIN pages : \A x \in DOMAIN pages[k], y \in DOMAIN pages[m] :
          /\ Asked(x, y)
          /\ k = m \/ table # "products" \/ request.sortBy = "none"
          => k < m \/ (k = m /\ pages[k][x] < pages[m][y]) \/ x \in since.tied \/ y \in since.tied

(* What it rests on, while nothing is written: a page holds the rows whose *)
(* place in the list is on it, in the order asked for.                     *)
PagesInOrder ==
    /\ writes \in Nat
    /\ writes = 0 =>
       \A k \in DOMAIN pages :
          /\ DOMAIN pages[k] \subseteq Matching
          /\ \A r \in DOMAIN pages[k] \ since.tied :
                /\ (k - 1) * request.limit <= Cardinality(AheadOf(r))
                /\ Cardinality(AheadOf(r)) < k * request.limit
          /\ ~AsText =>
                \A x, y \in DOMAIN pages[k] : Asked(x, y) => pages[k][x] < pages[k][y]
=============================================================================
