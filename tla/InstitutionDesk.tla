--------------------------- MODULE InstitutionDesk ---------------------------
(***************************************************************************)
(* Administrators at work on the shop's tables, and what they do to        *)
(* institutions and events.  A handler that writes after it has awaited a  *)
(* read is a job in two or more steps, between which others run; one whose *)
(* single statement or transaction decides alone is one step.  The checks  *)
(* a handler makes one after the other read different tables and are taken *)
(* together, at the last of them: a row that vanishes in between makes the *)
(* write fail on its foreign key.                                          *)
(***************************************************************************)
EXTENDS ShopTables, FiniteSets, SequencesExt

CONSTANTS
    Clerks,      \* requests in progress at once
    MaxJobs,     \* bound: requests made and runs of the seed script
    Contracts,   \* contract numbers
    EventNames,
    MaxEdits     \* bound: events sent with one update of an institution or a link

VARIABLES
    db,          \* the tables (ShopTables)
    job,         \* the handlers' local state
    jobs,        \* requests and script runs so far
    overtaken,   \* history: jobs whose table another job wrote since their check
    history      \* history: [users, products] pairs <<k, j>> where row k was saved
                 \* when its key had not, or no longer, been checked against row j;
                 \* [moved] users who changed institution; [adopted] events a form
                 \* of another institution took over; [stale] pairs <<link, event>>
                 \* saved when the event was no lasting one of the link's
                 \* institution, or taken over from it since

deskVars == <<db, job, jobs, overtaken, history>>

Idle == [op |-> "idle"]
NoHistory == [users |-> {}, products |-> {}, moved |-> {}, adopted |-> {}, stale |-> {}]

DeskInit ==
    /\ db = EmptyDb
    /\ job = [c \in Clerks |-> Idle]
    /\ jobs = 0
    /\ overtaken = {}
    /\ history = NoHistory

(* The pairs once row k of the table is saved.                             *)
Judged(pairs, k, table, checked) ==
    IF checked THEN {x \in pairs : k \notin {x[1], x[2]}}
               ELSE pairs \cup ({k} \X Rows(table))

Begin(c, what) ==
    /\ job[c] = Idle /\ jobs < MaxJobs
    /\ job' = [job EXCEPT ![c] = what]
    /\ jobs' = jobs + 1
    /\ overtaken' = overtaken \ {c}
    /\ UNCHANGED <<db, history>>

AtOnce ==
    /\ jobs < MaxJobs
    /\ jobs' = jobs + 1
    /\ UNCHANGED job

At(c, op) == job[c].op = op
Finish(c) == job' = [job EXCEPT ![c] = Idle] /\ UNCHANGED jobs

(* The process stops, or the connection is lost, between two statements.   *)
Abandon(c) ==
    /\ job[c] # Idle
    /\ Finish(c)
    /\ UNCHANGED <<db, overtaken, history>>

-----------------------------------------------------------------------------
(* CreateInstituitionUseCase: the institution and its events in one save.  *)
CreateInstitution ==
    \E contract \in Contracts, names \in SUBSET EventNames :
       /\ AtOnce
       /\ WithContract(db, contract) = {}
       /\ LET i == NextId(db.institutions)
              new == [k \in 1 .. Cardinality(names) |->
                        [institution |-> i, name |-> SetToSeq(names)[k], deleted |-> FALSE]]
          IN db' = [db EXCEPT !.institutions = Append(@, contract), !.events = @ \o new]
       /\ UNCHANGED <<overtaken, history>>

(* Nobody checks the ids of events a request names: besides events of      *)
(* other institutions and deleted ones, a client may send ids that no      *)
(* event has.  Such an id keeps a place of its own in the table.           *)
MakeUpId ==
    /\ AtOnce
    /\ db' = [db EXCEPT !.events = Append(@, Gone)]
    /\ UNCHANGED <<overtaken, history>>

(* UpdateInstituitionDto: events under a name, with any id or none.        *)
OpenInstitution(c) ==
    \E i \in Rows(db.institutions), contract \in Contracts :
       \E edits \in BoundedSeq([id : DOMAIN db.events \cup {Null}, name : EventNames], MaxEdits) :
          Begin(c, [op |-> "updateInstitution", id |-> i, contract |-> contract, edits |-> edits])

(* The events a form names, the names they may end up under (one of those  *)
(* sent with the id), and the ones among them that were not institution    *)
(* i's.                                                                    *)
Sent(edits) == {edits[k].id : k \in DOMAIN edits} \ {Null}
Namings(edits) ==
    {name \in [Sent(edits) -> EventNames] :
        \A e \in Sent(edits) : \E k \in DOMAIN edits : edits[k] = [id |-> e, name |-> name[e]]}
Foreign(events, i, edits) ==
    {e \in Sent(edits) : e \in Rows(events) => events[e].institution # i}

(* An id without a row is inserted, but not twice.                         *)
Insertable(events, edits) ==
    \A k, n \in DOMAIN edits :
       edits[k].id = edits[n].id /\ edits[k].id \in Sent(edits) \ Rows(events) => k = n

(* The event of an id becomes the institution's whosever it was, deleted   *)
(* ones staying deleted.                                                   *)
Taken(events, i, name) ==
    [e \in DOMAIN events |->
        IF e \notin DOMAIN name THEN events[e]
        ELSE [institution |-> i, name |-> name[e],
              deleted |-> e \in Rows(events) /\ events[e].deleted]]

(* updateInstitution, one transaction: events missing from the form are    *)
(* kept, those without an id are new.                                      *)
UpdateInstitution(c) ==
    /\ At(c, "updateInstitution")
    /\ LET i == job[c].id
           edits == job[c].edits
           added == SetToSeq({k \in DOMAIN edits : edits[k].id = Null})
           new == [n \in DOMAIN added |->
                     [institution |-> i, name |-> edits[added[n]].name, deleted |-> FALSE]]
           adopted == Foreign(db.events, i, edits)
       IN  IF /\ i \in Rows(db.institutions) /\ WithContract(db, job[c].contract) \subseteq {i}
              /\ Insertable(db.events, edits)
           THEN /\ \E name \in Namings(edits) :
                      db' = [db EXCEPT !.institutions[i] = job[c].contract,
                                       !.events = Taken(@, i, name) \o new]
                /\ history' = [history EXCEPT
                      !.adopted = @ \cup adopted,
                      !.stale = @ \cup
                          ({l \in Rows(db.links) : db.links[l].institution # i} \X adopted)]
           ELSE UNCHANGED <<db, history>>
    /\ Finish(c)
    /\ UNCHANGED overtaken

(* hardDelete, one transaction, undone when an order line holds a row.     *)
DeleteInstitution ==
    \E i \in Rows(db.institutions) :
       /\ AtOnce
       /\ Deletable(db, {i}, {}, {})
       /\ db' = Without(db, {i}, {}, {})
       /\ UNCHANGED <<overtaken, history>>

-----------------------------------------------------------------------------
(* DeleteEventUseCase: find the event, ...                                 *)
BeginDeleteEvent(c) ==
    \E e \in Rows(db.events) :
       /\ ~db.events[e].deleted
       /\ Begin(c, [op |-> "stripEvent", id |-> e])

(* A plausible bug: a failing clean-up does not stop the deletion.         *)
StripDeletedEventMaybe(c) ==
    /\ At(c, "stripEvent")
    /\ db' \in {db, StripEvent(db, job[c].id)}
    /\ job' = [job EXCEPT ![c].op = "dropEvent"]
    /\ UNCHANGED <<jobs, overtaken, history>>

(* ... take it out of what the institutions offer, ...                     *)
StripDeletedEvent(c) ==
    /\ At(c, "stripEvent")
    /\ db' = StripEvent(db, job[c].id)
    /\ job' = [job EXCEPT ![c].op = "dropEvent"]
    /\ UNCHANGED <<jobs, overtaken, history>>

(* ... then mark it deleted.                                               *)
DropEvent(c) ==
    /\ At(c, "dropEvent")
    /\ db' = IF job[c].id \in Rows(db.events)
             THEN [db EXCEPT !.events[job[c].id].deleted = TRUE] ELSE db
    /\ Finish(c)
    /\ UNCHANGED <<overtaken, history>>

(* An event of institution i that nobody is about to mark deleted.         *)
Lasting(e, i) ==
    e \in LiveEvents(db, i) /\ ~\E c \in Clerks : At(c, "dropEvent") /\ job[c].id = e

InstitutionNext ==
    \/ CreateInstitution
    \/ MakeUpId
    \/ DeleteInstitution
    \/ \E c \in Clerks :
          \/ OpenInstitution(c) \/ UpdateInstitution(c)
          \/ BeginDeleteEvent(c) \/ StripDeletedEvent(c) \/ DropEvent(c)
          \/ Abandon(c)
=============================================================================
