----------------------------- MODULE StudentDesk -----------------------------
(***************************************************************************)
(* What administrators and students do to users and to the photos of them, *)
(* and the order lines that hold on to a photo and a product.              *)
(***************************************************************************)
EXTENDS ProductDesk

CONSTANTS
    Emails,
    Identifiers,  \* a student's number within the institution
    MaxPhotos     \* bound: files of one upload

Statuses == {"active", "inactive"}

UserCheckers == {c \in Clerks : At(c, "updateUser")}

(* The check of an identifier is worth something only if nobody saved a    *)
(* user after it.                                                          *)
UserSaved(u, valid) ==
    /\ overtaken' = overtaken \cup UserCheckers
    /\ history' = [history EXCEPT
          !.users = Judged(@, u, db.users, valid),
          !.moved = IF /\ u \in Rows(db.users)
                       /\ db'.users[u].institution # db.users[u].institution
                    THEN @ \cup {u} ELSE @]

-----------------------------------------------------------------------------
(* CreateUserV2UseCase: the institution exists and the e-mail is free, ... *)
BeginCreateUser(c) ==
    \E i \in Rows(db.institutions), email \in Emails, identifier \in Identifiers :
       /\ WithEmail(db, email) = {}
       /\ Begin(c, [op |-> "createUser",
                    row |-> [institution |-> i, email |-> email,
                             identifier |-> identifier, status |-> "active"]])

(* ... and the keys of the table decide; nothing keeps an identifier from  *)
(* being given twice.                                                      *)
CreateUser(c) ==
    /\ At(c, "createUser")
    /\ LET u == NextId(db.users) IN
       IF UserFits(db, u, job[c].row)
       THEN /\ db' = [db EXCEPT !.users = Append(@, job[c].row)]
            /\ UserSaved(u, FALSE)
       ELSE UNCHANGED <<db, overtaken, history>>
    /\ Finish(c)

(* A plausible bug: identifierExists looks in the institution the user is  *)
(* leaving.                                                                *)
BeginUpdateUserOldInstitution(c) ==
    \E u \in Rows(db.users), i \in Rows(db.institutions), email \in Emails,
       identifier \in Identifiers, status \in Statuses :
       /\ WithEmail(db, email) \subseteq {u}
       /\ WithIdentifier(db, identifier, db.users[u].institution) \subseteq {u}
       /\ Begin(c, [op |-> "updateUser", id |-> u,
                    row |-> [institution |-> i, email |-> email,
                             identifier |-> identifier, status |-> status]])

(* UpdateUserV2UseCase: no other user has the e-mail, nor the identifier   *)
(* in the institution, ...                                                 *)
BeginUpdateUser(c) ==
    \E u \in Rows(db.users), i \in Rows(db.institutions), email \in Emails,
       identifier \in Identifiers, status \in Statuses :
       /\ WithEmail(db, email) \subseteq {u}
       /\ WithIdentifier(db, identifier, i) \subseteq {u}
       /\ Begin(c, [op |-> "updateUser", id |-> u,
                    row |-> [institution |-> i, email |-> email,
                             identifier |-> identifier, status |-> status]])

(* ... and the row is written as a whole.                                  *)
UpdateUser(c) ==
    /\ At(c, "updateUser")
    /\ LET u == job[c].id IN
       IF u \in Rows(db.users) /\ UserFits(db, u, job[c].row)
       THEN /\ db' = [db EXCEPT !.users[u] = job[c].row]
            /\ UserSaved(u, c \notin overtaken)
       ELSE UNCHANGED <<db, overtaken, history>>
    /\ Finish(c)

(* UpdateProfileUseCase: of the columns a student may change himself, the  *)
(* e-mail is the one with a key.                                           *)
BeginUpdateProfile(c) ==
    \E u \in Rows(db.users), email \in Emails :
       /\ WithEmail(db, email) \subseteq {u}
       /\ Begin(c, [op |-> "updateProfile", id |-> u, email |-> email])

UpdateProfile(c) ==
    /\ At(c, "updateProfile")
    /\ LET u == job[c].id IN
       db' = IF u \in Rows(db.users) /\ WithEmail(db, job[c].email) \subseteq {u}
             THEN [db EXCEPT !.users[u].email = job[c].email] ELSE db
    /\ Finish(c)
    /\ UNCHANGED <<overtaken, history>>

(* DeleteUserByIDV2UseCase: only an active user, with orders and photos.   *)
BeginDeleteUser(c) ==
    \E u \in Rows(db.users) :
       /\ db.users[u].status = "active"
       /\ Begin(c, [op |-> "deleteUser", id |-> u])

DeleteUser(c) ==
    /\ At(c, "deleteUser")
    /\ LET u == job[c].id IN
       db' = IF u \in Rows(db.users) /\ Deletable(db, {}, {u}, {})
             THEN Without(db, {}, {u}, {}) ELSE db
    /\ Finish(c)
    /\ UNCHANGED <<overtaken, history>>

-----------------------------------------------------------------------------
(* A plausible bug: the event's institution is not compared.               *)
BeginAddPhotosAnywhere(c) ==
    \E u \in Rows(db.users), e \in Rows(db.events), files \in 1 .. MaxPhotos :
       /\ ~db.events[e].deleted
       /\ Begin(c, [op |-> "addPhotos", user |-> u, event |-> e, files |-> files])

(* CreateUserEventPhotoUseCase: the event is there and of the user's       *)
(* institution, ...                                                        *)
BeginAddPhotos(c) ==
    \E u \in Rows(db.users), e \in Rows(db.events), files \in 1 .. MaxPhotos :
       /\ e \in LiveEvents(db, db.users[u].institution)
       /\ Begin(c, [op |-> "addPhotos", user |-> u, event |-> e, files |-> files])

(* ... and one photo is saved after the other.                             *)
AddPhoto(c) ==
    /\ At(c, "addPhotos")
    /\ LET u == job[c].user  e == job[c].event IN
       IF u \in Rows(db.users) /\ e \in Rows(db.events)
       THEN /\ db' = [db EXCEPT !.photos = Append(@, [user |-> u, event |-> e, deleted |-> FALSE])]
            /\ job' = [job EXCEPT ![c] =
                  IF job[c].files = 1 THEN Idle ELSE [job[c] EXCEPT !.files = @ - 1]]
            /\ UNCHANGED jobs
       ELSE Finish(c) /\ UNCHANGED db
    /\ UNCHANGED <<overtaken, history>>

(* DeleteUserEventPhotoUseCase, a soft delete.                             *)
DeletePhoto ==
    \E f \in Rows(db.photos) :
       /\ ~db.photos[f].deleted
       /\ AtOnce
       /\ db' = [db EXCEPT !.photos[f].deleted = TRUE]
       /\ UNCHANGED <<overtaken, history>>

(* Checkout (OrderLines) saves a line for a product the customer's         *)
(* institution offers and a photo, of which its key alone asks that it is  *)
(* there.                                                                  *)
SellPhoto ==
    \E u \in Rows(db.users), l \in Rows(db.links), f \in Rows(db.photos) :
       /\ db.links[l].institution = db.users[u].institution
       /\ db' = [db EXCEPT !.lines = @ \cup {[user |-> u, product |-> db.links[l].product, photo |-> f]}]
       /\ UNCHANGED <<job, jobs, overtaken, history>>

StudentNext ==
    \/ DeletePhoto
    \/ SellPhoto
    \/ \E c \in Clerks :
          \/ BeginCreateUser(c) \/ CreateUser(c)
          \/ BeginUpdateUser(c) \/ UpdateUser(c)
          \/ BeginUpdateProfile(c) \/ UpdateProfile(c)
          \/ BeginDeleteUser(c) \/ DeleteUser(c)
          \/ BeginAddPhotos(c) \/ AddPhoto(c)
=============================================================================
