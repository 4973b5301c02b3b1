---------------------------- MODULE SchemaHistory ----------------------------
(***************************************************************************)
(* A database over the life of the code base: releases register one more   *)
(* migration, `migration:run` applies what is pending, `migration:revert`  *)
(* undoes the last one applied, and the application stores an order.       *)
(***************************************************************************)
EXTENDS MigrationScripts, Entities, FiniteSets, FiniteSetsExt

CONSTANTS
    FirstRelease,  \* registered migrations when the database is created
    MaxReverts     \* bound: reverts in one behaviour

ASSUME ReleaseAssumption == FirstRelease \in 0..Len(Migrations) /\ MaxReverts \in Nat

VARIABLES
    release,   \* how many entries the migrations array has
    executed,  \* rows of the migrations table: indices, in order of execution
    db,        \* the schema and the paymentStatus of the sample order
    reverts    \* bounding counter

vars == <<release, executed, db, reverts>>

Empty == [ok |-> TRUE, schema |-> {}, status |-> NoOrder]

Init ==
    /\ release = FirstRelease
    /\ executed = << >>
    /\ db = Empty
    /\ reverts = 0

Done == ToSet(executed)

(* The migrations not executed yet, by name, sorted by timestamp.          *)
Pending ==
    LET S == (1..release) \ Done
        Before(m) == {k \in S : Migrations[k].stamp < Migrations[m].stamp}
    IN [i \in 1..Cardinality(S) |-> CHOOSE m \in S : Cardinality(Before(m)) = i - 1]

(* Migrations run one after the other (the inner set has one element: it   *)
(* makes TLC evaluate the script before the next one).                     *)
RunUp(start, indices) ==
    FoldLeft(LAMBDA d, i : CHOOSE r \in {ExecuteAll(x, Migrations[i].up) : x \in {d}} : TRUE,
             start, indices)

-----------------------------------------------------------------------------
Release ==
    /\ release < Len(Migrations)
    /\ release' = release + 1
    /\ UNCHANGED <<executed, db, reverts>>

(* All pending migrations in one transaction; a failure leaves the schema  *)
(* as it was, and ok FALSE until something succeeds.                       *)
MigrationRun ==
    LET after == RunUp([db EXCEPT !.ok = TRUE], Pending)
    IN /\ Pending # << >>
       /\ IF after.ok THEN db' = after /\ executed' = executed \o Pending
          ELSE db' = [db EXCEPT !.ok = FALSE] /\ UNCHANGED executed
       /\ UNCHANGED <<release, reverts>>

MigrationRevert ==
    LET after == ExecuteAll([db EXCEPT !.ok = TRUE], Migrations[Last(executed)].down)
    IN /\ executed # << >> /\ reverts < MaxReverts
       /\ reverts' = reverts + 1
       /\ IF after.ok THEN db' = after /\ executed' = Front(executed)
          ELSE db' = [db EXCEPT !.ok = FALSE] /\ UNCHANGED executed
       /\ UNCHANGED release

(* The values the paymentStatus column takes at this point.                *)
Storable ==
    UNION ({f[3] : f \in {g \in db.schema : g[1] = "type" /\ g[2] = "orders_paymentstatus"}}
           \cup {FirstStatus : f \in db.schema \cap {CheckOn("orders", "paymentStatus")}})

SaveOrder(s) ==
    /\ Table("orders") \in db.schema /\ s \in Storable
    /\ db' = [db EXCEPT !.status = s]
    /\ UNCHANGED <<release, executed, reverts>>

Next ==
    \/ Release \/ MigrationRun \/ MigrationRevert
    \/ \E s \in OrderStatus : SaveOrder(s)

Spec == Init /\ [][Next]_vars

-----------------------------------------------------------------------------
TypeOK ==
    /\ release \in FirstRelease..Len(Migrations)
    /\ Done \subseteq 1..release
    /\ db.status \in StoredStatus /\ db.ok \in BOOLEAN
    /\ reverts \in 0..MaxReverts

(* Whatever the order in which a database met the releases and the         *)
(* reverts it went through, its schema is the one its executed migrations  *)
(* give in the order of the array: every down undoes its up exactly, and   *)
(* migrations that carry an old timestamp commute with the ones between.   *)
SchemaFollowsHistory ==
    LET inArrayOrder == SelectSeq([i \in 1..Len(Migrations) |-> i], LAMBDA i : i \in Done)
    IN db.schema = RunUp(Empty, inArrayOrder).schema

(* A database that has the order tables can always be brought up to date,  *)
(* also by a release that brings migrations older than those it has.       *)
UpgradeSucceeds ==
    [][MigrationRun /\ 5 \in Done => db'.ok]_vars

(* Once every registered migration has run, by whatever path, the tables   *)
(* are exactly the ones the entity classes declare, with the same keys,    *)
(* delete rules and enumeration values.                                    *)
EntitiesMatch ==
    Done = 1..Len(Migrations) => AsDeclared(db.schema)

(* An order keeps its payment status through every upgrade once the column *)
(* is an enumeration, the upgrade that changes its values included.  (The  *)
(* migration that makes it one resets every order to PENDING.)             *)
StatusKept ==
    [][MigrationRun /\ 6 \in Done => db'.status = db.status]_vars
=============================================================================
