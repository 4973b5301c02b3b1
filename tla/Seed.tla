-------------------------------- MODULE Seed ---------------------------------
(***************************************************************************)
(* The seed script: it goes through the example rows in order, looks each  *)
(* of them up by its key and saves it if it is not there.                  *)
(***************************************************************************)
EXTENDS StudentDesk

CONSTANTS
    SeedContract,
    SeedEvents,    \* sequence of event names
    SeedUsers,     \* sequence of [email, identifier]
    SeedProducts   \* sequence of [name, flag]

(* What a row is looked up by tells the example rows of a table apart.     *)
ASSUME SeedKeysAssumption ==
    /\ \A i, j \in DOMAIN SeedEvents : SeedEvents[i] = SeedEvents[j] => i = j
    /\ \A i, j \in DOMAIN SeedUsers : SeedUsers[i].email = SeedUsers[j].email => i = j
    /\ \A i, j \in DOMAIN SeedProducts : SeedProducts[i].name = SeedProducts[j].name => i = j

VARIABLE seed      \* [runs, at, missing, ids, done]: ids has the ids of the rows before
                   \* at, done that a run has got to its end

(* The rows in the script's order.                                         *)
SeedRows ==
    <<[table |-> "institutions", k |-> 1]>>
    \o [k \in DOMAIN SeedEvents |-> [table |-> "events", k |-> k]]
    \o [k \in DOMAIN SeedUsers |-> [table |-> "users", k |-> k]]
    \o [k \in DOMAIN SeedProducts |-> [table |-> "products", k |-> k]]
    \o [k \in DOMAIN SeedProducts |-> [table |-> "links", k |-> k]]

Ended(runs, done) == [runs |-> runs, at |-> 0, missing |-> FALSE, ids |-> << >>, done |-> done]
SeedInit == seed = Ended(0, FALSE)

Row == SeedRows[seed.at]
SeedInstitution == seed.ids[1]
EventId(k) == seed.ids[1 + k]
ProductId(k) == seed.ids[1 + Len(SeedEvents) + Len(SeedUsers) + k]

(* The rows that have the key of the current one.                          *)
Found ==
    LET k == Row.k IN
    CASE Row.table = "institutions" -> WithContract(db, SeedContract)
      [] Row.table = "events" ->
            {e \in LiveEvents(db, SeedInstitution) : db.events[e].name = SeedEvents[k]}
      [] Row.table = "users" -> WithEmail(db, SeedUsers[k].email)
      [] Row.table = "products" -> Named(db, SeedProducts[k].name)
      [] Row.table = "links" -> LinksOf(db, ProductId(k), SeedInstitution)

(* What a linked product offers: every seeded event, but none in an album. *)
SeedDetails(flag) ==
    IF flag = "ALBUM" THEN {}
    ELSE {[id |-> EventId(k), name |-> SeedEvents[k]] : k \in DOMAIN SeedEvents}

(* The database with the current row; the keys of the tables may refuse it.*)
SeedFits ==
    LET k == Row.k IN
    CASE Row.table = "institutions" -> WithContract(db, SeedContract) = {}
      [] Row.table = "events" -> SeedInstitution \in Rows(db.institutions)
      [] Row.table = "users" ->
            SeedInstitution \in Rows(db.institutions) /\ WithEmail(db, SeedUsers[k].email) = {}
      [] Row.table = "products" -> TRUE
      [] Row.table = "links" ->
            /\ SeedInstitution \in Rows(db.institutions)
            /\ ProductId(k) \in Rows(db.products)
            /\ LinksOf(db, ProductId(k), SeedInstitution) = {}

NewRow ==
    LET k == Row.k IN
    CASE Row.table = "institutions" -> SeedContract
      [] Row.table = "events" ->
            [institution |-> SeedInstitution, name |-> SeedEvents[k], deleted |-> FALSE]
      [] Row.table = "users" ->
            [institution |-> SeedInstitution, email |-> SeedUsers[k].email,
             identifier |-> SeedUsers[k].identifier, status |-> "active"]
      [] Row.table = "products" -> SeedProducts[k]
      [] Row.table = "links" ->
            [product |-> ProductId(k), institution |-> SeedInstitution,
             flag |-> SeedProducts[k].flag, details |-> SeedDetails(SeedProducts[k].flag)]

-----------------------------------------------------------------------------
SeedStart ==
    /\ seed.at = 0 /\ jobs < MaxJobs
    /\ jobs' = jobs + 1
    /\ seed' = [seed EXCEPT !.at = 1, !.runs = @ + 1]
    /\ UNCHANGED <<db, job, overtaken, history>>

Advance(id) ==
    seed' = IF seed.at = Len(SeedRows) THEN Ended(seed.runs, TRUE)
            ELSE [seed EXCEPT !.at = @ + 1, !.missing = FALSE, !.ids = Append(@, id)]

(* A plausible bug: an institution that is there is taken for a seeded     *)
(* database.                                                               *)
SeedFindInstitutionOnly ==
    /\ seed.at > 0 /\ ~seed.missing
    /\ seed' = IF Found = {} THEN [seed EXCEPT !.missing = TRUE] ELSE Ended(seed.runs, TRUE)
    /\ overtaken' = overtaken \ {"seed"}
    /\ UNCHANGED <<db, job, jobs, history>>

SeedFind ==
    /\ seed.at > 0 /\ ~seed.missing
    /\ IF Found = {} THEN seed' = [seed EXCEPT !.missing = TRUE]
                     ELSE \E id \in Found : Advance(id)
    /\ overtaken' = overtaken \ {"seed"}
    /\ UNCHANGED <<db, job, jobs, history>>

(* What the new row may clash with unnoticed.                              *)
SeedHistory(id) ==
    CASE Row.table = "users" -> [history EXCEPT !.users = Judged(@, id, db.users, FALSE)]
      [] Row.table = "products" ->
            [history EXCEPT !.products = Judged(@, id, db.products, "seed" \notin overtaken)]
      [] Row.table = "links" ->
            [history EXCEPT !.stale = @ \cup
                {<<id, x.id>> : x \in {y \in NewRow.details : ~Lasting(y.id, SeedInstitution)}}]
      [] OTHER -> history

SeedSave ==
    /\ seed.at > 0 /\ seed.missing
    /\ LET id == NextId(db[Row.table]) IN
       IF SeedFits
       THEN /\ db' = [db EXCEPT ![Row.table] = Append(@, NewRow)]
            /\ Advance(id)
            /\ history' = SeedHistory(id)
            /\ overtaken' = overtaken \cup (CASE Row.table = "users" -> UserCheckers
                                              [] Row.table = "products" -> ProductCheckers
                                              [] OTHER -> {})
       ELSE /\ seed' = Ended(seed.runs, seed.done)
            /\ UNCHANGED <<db, overtaken, history>>
    /\ UNCHANGED <<job, jobs>>

(* The script is stopped.                                                  *)
SeedStop ==
    /\ seed.at > 0
    /\ seed' = Ended(seed.runs, seed.done)
    /\ UNCHANGED deskVars

SeedNext == SeedStart \/ SeedFind \/ SeedSave \/ SeedStop
=============================================================================
