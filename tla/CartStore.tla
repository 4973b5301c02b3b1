------------------------------ MODULE CartStore ------------------------------
(***************************************************************************)
(* The cart of a customer: GET, PUT and DELETE /v1/cart, the removal by a  *)
(* paid checkout, and the nightly job.  A PUT is the repository's upsert:  *)
(* findOne by owner, then the mapper's save, which is a SELECT by id and   *)
(* an UPDATE or an INSERT of its own.                                      *)
(***************************************************************************)
CONSTANTS
    Users,   \* customers
    Items,   \* contents of a cart
    Puts,    \* PUT requests
    NoCart,  \* the owner has no row
    NoId     \* findOne found nothing

ASSUME CartAssumption == NoCart \notin [id : Puts, items : Items, stale : BOOLEAN] /\ NoId \notin Puts

VARIABLES
    carts,    \* row of each owner: userId is a unique key
    put,      \* local state of each PUT
    touched,  \* history: PUTs whose cart somebody else changed since their findOne
    job       \* the nightly cleanup: due, or what came of it

cartVars == <<carts, put, touched, job>>

(* id is the uuid of the row, named after the request that created it;     *)
(* stale says that updated_at is more than seven days old.                 *)
Cart == [id : Puts, items : Items, stale : BOOLEAN]

PutState == [pc : {"idle", "found", "update", "insert", "answered", "conflict", "failed"},
             owner : Users, items : Items, loaded : Puts \cup {NoId}]

TypeOK ==
    /\ carts \in [Users -> Cart \cup {NoCart}]
    /\ put \in [Puts -> PutState]
    /\ touched \subseteq Puts
    /\ job \in {"due", "failed"}

CartInit ==
    /\ carts = [u \in Users |-> NoCart]
    /\ put \in [Puts -> {s \in PutState : s.pc = "idle" /\ s.loaded = NoId}]
    /\ touched = {}
    /\ job = "due"

HasCart(u) == carts[u] # NoCart

(* A plausible bug: upsert creates an entity also when it found one.       *)
TargetFresh(p) == p

(* The uuid the mapper saves: of the row found, or a fresh one.            *)
Target(p) == IF put[p].loaded = NoId THEN p ELSE put[p].loaded

IsStored(u, id) == HasCart(u) /\ carts[u].id = id

(* What GET answers; an owner without a row has an empty cart.             *)
GetCart(u) == IF HasCart(u) THEN <<carts[u].items>> ELSE << >>

(* Everyone but p who is working on the cart of u, or was answered.        *)
TouchAll(u, p) ==
    touched' = touched \cup {q \in Puts \ {p} : put[q].owner = u /\ put[q].pc # "idle"}

Goto(p, pc) == put' = [put EXCEPT ![p].pc = pc]

-----------------------------------------------------------------------------
PutFind(p) ==
    LET u == put[p].owner
    IN /\ put[p].pc = "idle"
       /\ put' = [put EXCEPT ![p].pc = "found",
                             ![p].loaded = IF HasCart(u) THEN carts[u].id ELSE NoId]
       /\ UNCHANGED <<carts, touched, job>>

(* A plausible bug: a cart that exists is answered without being saved.    *)
PutSelectKeeping(p) ==
    LET u == put[p].owner
    IN /\ put[p].pc = "found"
       /\ Goto(p, IF ~IsStored(u, Target(p)) THEN "insert" ELSE "answered")
       /\ UNCHANGED <<carts, touched, job>>

(* save looks the row up by id: gone means INSERT, and equal contents mean *)
(* that there is nothing to write.                                         *)
PutSelect(p) ==
    LET u == put[p].owner
    IN /\ put[p].pc = "found"
       /\ Goto(p, IF ~IsStored(u, Target(p)) THEN "insert"
                  ELSE IF carts[u].items = put[p].items THEN "answered" ELSE "update")
       /\ UNCHANGED <<carts, touched, job>>

(* An UPDATE that matches no row is not an error.                          *)
PutUpdate(p) ==
    LET u == put[p].owner
    IN /\ put[p].pc = "update"
       /\ Goto(p, "answered")
       /\ IF IsStored(u, Target(p))
          THEN /\ carts' = [carts EXCEPT ![u].items = put[p].items, ![u].stale = FALSE]
               /\ TouchAll(u, p)
          ELSE UNCHANGED <<carts, touched>>
       /\ UNCHANGED job

PutInsert(p) ==
    LET u == put[p].owner
    IN /\ put[p].pc = "insert"
       /\ IF HasCart(u) THEN Goto(p, "conflict") /\ UNCHANGED <<carts, touched>>
          ELSE /\ Goto(p, "answered")
               /\ carts' = [carts EXCEPT ![u] =
                              [id |-> Target(p), items |-> put[p].items, stale |-> FALSE]]
               /\ TouchAll(u, p)
       /\ UNCHANGED job

(* A statement fails, or the process dies, before the write.               *)
PutFail(p) ==
    /\ put[p].pc \in {"found", "update", "insert"}
    /\ Goto(p, "failed")
    /\ UNCHANGED <<carts, touched, job>>

(* clearByUserId, from DELETE /v1/cart, a paid checkout or an approval.    *)
ClearByUserId(u) ==
    /\ HasCart(u)
    /\ carts' = [carts EXCEPT ![u] = NoCart]
    /\ touched' = touched \cup {q \in Puts : put[q].owner = u /\ put[q].pc # "idle"}
    /\ UNCHANGED <<put, job>>

-----------------------------------------------------------------------------
(* A day passes, and some carts have not been written for a week.          *)
NextDay ==
    /\ job # "due"
    /\ job' = "due"
    /\ \E S \in SUBSET {u \in Users : HasCart(u)} :
          carts' = [u \in Users |-> IF u \in S THEN [carts[u] EXCEPT !.stale = TRUE]
                                    ELSE carts[u]]
    /\ UNCHANGED <<put, touched>>

(* The statement is sent as INTERVAL $1: PostgreSQL takes only a literal   *)
(* there, so it is a syntax error; the job logs it and throws.             *)
DeleteAbandonedCarts ==
    /\ job = "due"
    /\ job' = "failed"
    /\ UNCHANGED <<carts, put, touched>>

UpdateCart(p) == PutFind(p) \/ PutSelect(p) \/ PutUpdate(p) \/ PutInsert(p) \/ PutFail(p)

CartNext ==
    \/ \E p \in Puts : UpdateCart(p)
    \/ \E u \in Users : ClearByUserId(u)
    \/ NextDay \/ DeleteAbandonedCarts

CartSpec == CartInit /\ [][CartNext]_cartVars

-----------------------------------------------------------------------------
(* What a PUT has seen is still so unless somebody else changed the cart.  *)
SeenHolds ==
    \A p \in Puts \ touched :
        LET u == put[p].owner
        IN /\ put[p].pc = "found" =>
                IF put[p].loaded = NoId THEN ~HasCart(u) ELSE IsStored(u, put[p].loaded)
           /\ put[p].pc = "update" => IsStored(u, Target(p))
           /\ put[p].pc = "insert" => ~HasCart(u)

(* An answered PUT is what GET returns from then on, until somebody else   *)
(* changes the cart; only a change made since the PUT's own findOne counts.*)
AnsweredPutReadBack ==
    \A p \in Puts \ touched :
        put[p].pc = "answered" => GetCart(put[p].owner) = <<put[p].items>>

(* A PUT meets the unique key only when somebody else changed the cart     *)
(* after its findOne: a customer with one client never sees the error.     *)
ConflictOnlyWhenRaced ==
    \A p \in Puts : put[p].pc = "conflict" => p \in touched

CartInv == TypeOK /\ SeenHolds /\ AnsweredPutReadBack /\ ConflictOnlyWhenRaced
=============================================================================
