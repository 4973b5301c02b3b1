------------------------------ MODULE Catalogue ------------------------------
(***************************************************************************)
(* The administration of the shop as a whole: the seed script and any      *)
(* number of administrators over the same tables, in any interleaving.     *)
(***************************************************************************)
EXTENDS Seed

vars == <<deskVars, seed>>

Init == DeskInit /\ SeedInit

Next ==
    \/ SeedNext
    \/ (InstitutionNext \/ ProductNext \/ StudentNext) /\ UNCHANGED seed

Spec == Init /\ [][Next]_vars

-----------------------------------------------------------------------------
(* What the tables and the requests hold, references aside.                *)
Entries == [id : Nat, name : EventNames]
EventRows == [institution : Nat, name : EventNames, deleted : BOOLEAN]
ProductRows == [name : ProductNames, flag : ShopFlags]
LinkRows == [product : Nat, institution : Nat, flag : ShopFlags, details : {Null} \cup SUBSET Entries]
UserRows == [institution : Nat, email : Emails, identifier : Identifiers, status : Statuses]
PhotoRows == [user : Nat, event : Nat, deleted : BOOLEAN]

(* A deleted row is like no other, and what is seeded could have been      *)
(* typed.                                                                  *)
ASSUME CatalogueAssumption ==
    /\ Gone \notin Contracts \cup EventRows \cup ProductRows \cup LinkRows \cup UserRows \cup PhotoRows
    /\ Null \notin Nat
    /\ IsFiniteSet(EventNames)
    /\ "seed" \notin Clerks
    /\ SeedContract \in Contracts
    /\ SeedEvents \in Seq(EventNames)
    /\ SeedUsers \in Seq([email : Emails, identifier : Identifiers])
    /\ SeedProducts \in Seq(ProductRows)

Table(rows) == Seq(rows \cup {Gone})

Tables ==
    [institutions : Table(Contracts), events : Table(EventRows), products : Table(ProductRows),
     links : Table(LinkRows), users : Table(UserRows), photos : Table(PhotoRows),
     lines : SUBSET [user : Nat, product : Nat, photo : Nat]]

Edits == Seq([id : Nat \cup {Null}, name : EventNames])

Requests ==
    {Idle}
    \cup [op : {"updateInstitution"}, id : Nat, contract : Contracts, edits : Edits]
    \cup [op : {"stripEvent", "dropEvent", "deleteUser"}, id : Nat]
    \cup [op : {"createProduct"}, name : ProductNames, flag : ShopFlags, alone : BOOLEAN]
    \cup [op : {"updateProduct"}, id : Nat, name : ProductNames, alone : BOOLEAN]
    \cup [op : {"createLink"}, product : Nat, institution : Nat, flag : ShopFlags]
    \cup [op : {"updateLink"}, id : Nat, details : SUBSET Entries]
    \cup [op : {"createUser"}, row : UserRows]
    \cup [op : {"updateUser"}, id : Nat, row : UserRows]
    \cup [op : {"updateProfile"}, id : Nat, email : Emails]
    \cup [op : {"addPhotos"}, user : Nat, event : Nat, files : Nat \ {0}]

(* No row refers to one that is not there.                                 *)
Referenced(d) ==
    /\ \A e \in Rows(d.events) : d.events[e].institution \in Rows(d.institutions)
    /\ \A l \in Rows(d.links) :
          /\ d.links[l].product \in Rows(d.products)
          /\ d.links[l].institution \in Rows(d.institutions)
    /\ \A u \in Rows(d.users) : d.users[u].institution \in Rows(d.institutions)
    /\ \A f \in Rows(d.photos) :
          d.photos[f].user \in Rows(d.users) /\ d.photos[f].event \in Rows(d.events)
    /\ \A x \in d.lines :
          /\ x.user \in Rows(d.users) /\ x.product \in Rows(d.products)
          /\ x.photo \in Rows(d.photos)

Histories ==
    [users : SUBSET (Nat \X Nat), products : SUBSET (Nat \X Nat),
     moved : SUBSET Nat, adopted : SUBSET Nat, stale : SUBSET (Nat \X Nat)]

(* Types, and no row refers to one that is not there: what hangs on a      *)
(* deleted row goes with it, and no handler saves a row after the one it   *)
(* refers to is gone.                                                      *)
TypeOK ==
    /\ db \in Tables /\ Referenced(db)
    /\ job \in [Clerks -> Requests]
    /\ jobs \in Nat
    /\ history \in Histories
    /\ seed \in [runs : Nat, at : 0 .. Len(SeedRows), missing : BOOLEAN, ids : Seq(Nat), done : BOOLEAN]
    /\ IF seed.at = 0 THEN seed.ids = << >> ELSE Len(seed.ids) = seed.at - 1

(* Deleting an event takes it out of every product: each event stored for  *)
(* a product is one of the institution's that is still there, and is shown *)
(* under its own id, not dropped or replaced by a namesake when names are  *)
(* filled in.  The exceptions are entries for an event that was not the    *)
(* institution's, or was deleted or being deleted, when they were saved,   *)
(* and events that a form of another institution took over since: neither  *)
(* update looks at whose event an id is.                                   *)
StoredEventsOffered ==
    \A l \in Rows(db.links) : db.links[l].details # Null =>
       \A entry \in db.links[l].details :
          \/ /\ entry.id \in LiveEvents(db, db.links[l].institution)
             /\ Matches(db, l, entry) = {entry.id}
          \/ <<l, entry.id>> \in history.stale

(* Two students of an institution share an identifier only if the later of *)
(* them was created with it, or its update overlapped another save.        *)
IdentifiersClashUnchecked ==
    \A u, v \in Rows(db.users) :
       /\ u # v
       /\ db.users[u].institution = db.users[v].institution
       /\ db.users[u].identifier = db.users[v].identifier
       => <<u, v>> \in history.users \/ <<v, u>> \in history.users

(* Two products share a name only if the later of them was saved from a    *)
(* name typed with blanks, or while another was being saved.               *)
NamesClashUnchecked ==
    \A p, q \in Rows(db.products) :
       p # q /\ db.products[p].name = db.products[q].name =>
          <<p, q>> \in history.products \/ <<q, p>> \in history.products

(* A photo is of an event of the student's institution, unless the student *)
(* was moved to another, or a form of another institution named the event  *)
(* and took it over.                                                       *)
PhotosOfOwnInstitution ==
    \A f \in Rows(db.photos) :
       LET u == db.photos[f].user IN
       \/ db.events[db.photos[f].event].institution = db.users[u].institution
       \/ u \in history.moved
       \/ db.photos[f].event \in history.adopted

(* What was sold is forgotten only together with its customer: no other    *)
(* deletion takes an order line, its product or its photo.                 *)
LinesGoWithCustomer ==
    [][\A x \in db.lines :
          x \notin db'.lines \/ x.photo \notin Rows(db'.photos) \/ x.product \notin Rows(db'.products)
             => x.user \notin Rows(db'.users)]_vars

(* However often the script is stopped and started again, it saves every   *)
(* example row once, and a run that gets to its end leaves none out.       *)
SeedSavesOnce ==
    jobs = seed.runs =>
       \A k \in DOMAIN SeedRows :
          LET table == SeedRows[k].table
              wanted == {n \in DOMAIN SeedRows : SeedRows[n].table = table}
          IN  /\ Len(db[table]) <= Cardinality(wanted)
              /\ seed.done => Len(db[table]) = Cardinality(wanted)
=============================================================================
