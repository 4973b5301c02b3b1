--------------------------------- MODULE Ddl ---------------------------------
(***************************************************************************)
(* The data-definition statements the migrations issue, as changes of a    *)
(* set of schema facts.  A statement fails when something it needs is      *)
(* missing, when something it creates is there already, or when the rows   *)
(* stored do not fit; PostgreSQL then rolls the transaction back.          *)
(***************************************************************************)
EXTENDS Integers, Sequences, SequencesExt

OrderStatus == {"PENDING", "APPROVED", "REJECTED", "CANCELLED", "COMPLETED"}

NoOrder == "NONE"   \* the sample order is not stored

StoredStatus == OrderStatus \cup {NoOrder}

-----------------------------------------------------------------------------
(* Facts.  The second component is the table a fact belongs to, the third  *)
(* the column; dropping either drops what belongs to it.                   *)
Table(t) == <<"table", t>>
Column(t, c) == <<"column", t, c>>
ForeignKey(t, c, target, rule) == <<"foreign key", t, c, target, rule>>
Index(t, c) == <<"index", t, c>>
UniqueKey(t, c) == <<"unique", t, c>>
CheckOn(t, c) == <<"check", t, c>>
NotNull(t, c) == <<"not null", t, c>>
DefaultOf(t, c) == <<"default", t, c>>
EnumType(name, values) == <<"type", name, values>>
EnumColumn(t, c, type) == <<"of type", t, c, type>>

BelongsTo(fact, owner) ==
    \/ fact = owner
    \/ owner[1] = "table" /\ fact[1] # "type" /\ fact[2] = owner[2]
    \/ /\ owner[1] = "column" /\ fact[1] \notin {"type", "table"}
       /\ fact[2] = owner[2] /\ fact[3] = owner[3]

(* PostgreSQL refuses to drop a table another one refers to, or a type a   *)
(* column still has.                                                       *)
StillUsed(schema, owner) ==
    \E f \in schema :
        \/ owner[1] = "table" /\ f[1] = "foreign key" /\ f[4] = owner[2] /\ f[2] # owner[2]
        \/ owner[1] = "type" /\ f[1] = "of type" /\ f[4] = owner[2]

-----------------------------------------------------------------------------
(* Statements.  status maps the paymentStatus of a stored order to what    *)
(* the statement leaves there; fits is the set of values it accepts.       *)
Keep == [s \in StoredStatus |-> s]
Reset(value) == [s \in StoredStatus |-> IF s = NoOrder THEN NoOrder ELSE value]

Statement == [needs |-> {}, absent |-> {}, adds |-> {}, removes |-> {},
              status |-> Keep, fits |-> StoredStatus]

Add(facts, needed) ==
    [Statement EXCEPT !.needs = needed, !.absent = facts, !.adds = facts]

Drop(fact) == [Statement EXCEPT !.needs = {fact}, !.removes = {fact}]

(* SET or DROP of NOT NULL and DEFAULT.  Of rows stored only the status    *)
(* of an order is followed: nulls that a SET NOT NULL refuses, or          *)
(* duplicates that a key refuses, are left out.                            *)
SetOn(fact) == [Statement EXCEPT !.needs = {Column(fact[2], fact[3])}, !.adds = {fact}]
Unset(fact) == [Statement EXCEPT !.needs = {Column(fact[2], fact[3])}, !.removes = {fact}]

DropTable(t) ==
    IF t = "orders" THEN [Drop(Table(t)) EXCEPT !.status = [s \in StoredStatus |-> NoOrder]]
    ELSE Drop(Table(t))

Columns(t, cs) == {Column(t, c) : c \in cs}

CreateTable(t, cs) ==
    [Statement EXCEPT !.absent = {Table(t)}, !.adds = {Table(t)} \cup Columns(t, cs)]

CreateTableIfNotExists(t, cs) ==
    [CreateTable(t, cs) EXCEPT !.absent = {}]

AddColumn(t, c) == Add({Column(t, c)}, {Table(t)})
AddIndex(t, c) == Add({Index(t, c)}, {Column(t, c)})
AddIndexIfNotExists(t, c) == [AddIndex(t, c) EXCEPT !.absent = {}]

AddForeignKey(t, c, target, rule) ==
    Add({ForeignKey(t, c, target, rule)}, {Column(t, c), Table(target)})

Succeeds(s, schema, status) ==
    /\ s.needs \subseteq schema
    /\ s.absent \cap schema = {}
    /\ \A owner \in s.removes : ~StillUsed(schema \ s.removes, owner)
    /\ status \in s.fits

Execute(db, s) ==
    IF ~db.ok \/ ~Succeeds(s, db.schema, db.status) THEN [db EXCEPT !.ok = FALSE]
    ELSE [db EXCEPT
            !.schema = {f \in @ : \A owner \in s.removes : ~BelongsTo(f, owner)} \cup s.adds,
            !.status = s.status[@]]

(* Statements run in order, inside one transaction.                        *)
ExecuteAll(db, statements) == FoldLeft(Execute, db, statements)
=============================================================================
