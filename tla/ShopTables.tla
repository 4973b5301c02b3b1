----------------------------- MODULE ShopTables ------------------------------
(***************************************************************************)
(* The tables the administrators fill: institutions and their events,      *)
(* products and what each institution offers of them (links), students     *)
(* and the photos of them.  A table is the sequence of the rows ever       *)
(* inserted, the number of a row its id; deleted rows are Gone, so that no  *)
(* id is used twice.  The operators say what the statements and the        *)
(* foreign keys of the entities do to a database db.                       *)
(***************************************************************************)
EXTENDS Naturals, Sequences

CONSTANTS
    Null,  \* a column that is not set
    Gone   \* a row that was deleted

EmptyDb ==
    [institutions |-> << >>, events |-> << >>, products |-> << >>, links |-> << >>,
     users |-> << >>, photos |-> << >>, lines |-> {}]

Rows(table) == {k \in DOMAIN table : table[k] # Gone}
NextId(table) == Len(table) + 1
Erase(table, ids) == [k \in DOMAIN table |-> IF k \in ids THEN Gone ELSE table[k]]

-----------------------------------------------------------------------------
(* findByInstitution; soft-deleted events are left out of every find.      *)
LiveEvents(db, i) ==
    {e \in Rows(db.events) : db.events[e].institution = i /\ ~db.events[e].deleted}

LinksOf(db, p, i) ==
    {l \in Rows(db.links) : db.links[l].product = p /\ db.links[l].institution = i}

Named(db, name) == {p \in Rows(db.products) : db.products[p].name = name}
WithEmail(db, email) == {u \in Rows(db.users) : db.users[u].email = email}
WithIdentifier(db, identifier, i) ==
    {u \in Rows(db.users) : db.users[u].identifier = identifier /\ db.users[u].institution = i}
WithContract(db, c) == {i \in Rows(db.institutions) : db.institutions[i] = c}

-----------------------------------------------------------------------------
(* Foreign keys: deleting institutions, users or products takes what hangs *)
(* on them along (ON DELETE CASCADE) ...                                   *)
UsersLost(db, is, us) == us \cup {u \in Rows(db.users) : db.users[u].institution \in is}
EventsLost(db, is) == {e \in Rows(db.events) : db.events[e].institution \in is}
PhotosLost(db, is, us) ==
    {f \in Rows(db.photos) : \/ db.photos[f].user \in UsersLost(db, is, us)
                             \/ db.photos[f].event \in EventsLost(db, is)}
(* A plausible bug: links cascade from their product only.                 *)
LinksLostWithProduct(db, is, ps) ==
    {l \in Rows(db.links) : db.links[l].product \in ps}

LinksLost(db, is, ps) ==
    {l \in Rows(db.links) : db.links[l].institution \in is \/ db.links[l].product \in ps}
LinesKept(db, is, us) == {x \in db.lines : x.user \notin UsersLost(db, is, us)}

(* A plausible bug: only the photo of an order line has a key.             *)
DeletablePhotosOnly(db, is, us, ps) ==
    \A x \in LinesKept(db, is, us) : x.photo \notin PhotosLost(db, is, us)

(* ... but an order line that stays holds its product and its photo (NO    *)
(* ACTION), and the statement fails.                                       *)
Deletable(db, is, us, ps) ==
    \A x \in LinesKept(db, is, us) : x.product \notin ps /\ x.photo \notin PhotosLost(db, is, us)

Without(db, is, us, ps) ==
    [institutions |-> Erase(db.institutions, is),
     events |-> Erase(db.events, EventsLost(db, is)),
     products |-> Erase(db.products, ps),
     links |-> Erase(db.links, LinksLost(db, is, ps)),
     users |-> Erase(db.users, UsersLost(db, is, us)),
     photos |-> Erase(db.photos, PhotosLost(db, is, us)),
     lines |-> LinesKept(db, is, us)]

(* A user row that breaks no key: the institution exists and nobody else   *)
(* has the e-mail.                                                         *)
UserFits(db, u, row) ==
    row.institution \in Rows(db.institutions) /\ WithEmail(db, row.email) \subseteq {u}

-----------------------------------------------------------------------------
(* removeEventFromDetails: one UPDATE over all links.                      *)
StripEvent(db, e) ==
    [db EXCEPT !.links = [l \in DOMAIN db.links |->
        LET link == db.links[l] IN
        IF link = Gone \/ link.details = Null THEN link
        ELSE [link EXCEPT !.details = {entry \in link.details : entry.id # e}]]]

(* populateEventNames: the event a stored entry of link l stands for is    *)
(* the one of its id, or else one of its name, of those still there; what  *)
(* an album stores is shown as it is.                                      *)
Matches(db, l, entry) ==
    LET live == LiveEvents(db, db.links[l].institution)
    IN  IF entry.id \in live \/ db.links[l].flag = "ALBUM" THEN {entry.id}
        ELSE {e \in live : db.events[e].name = entry.name}
=============================================================================
