------------------------- MODULE StudentCredentials --------------------------
(***************************************************************************)
(* POST /v1/institutions/:id/send-credentials: a loop over the students    *)
(* who had never logged in when the list was read.                         *)
(***************************************************************************)
EXTENDS AccountTable

CONSTANT Roster   \* active clients of the institution, by name

ASSUME RosterAssumption == Roster \in Seq(Accounts)

VARIABLE batch

BatchState == [pc : {"idle", "loop", "mailing", "done", "stopped"},
               listed : SUBSET Accounts, todo : SUBSET (DOMAIN Roster),
               sent : SUBSET Accounts, failed : SUBSET Accounts]

BatchTypeOK == batch \in [Batches -> BatchState]

BatchInit ==
    batch = [b \in Batches |-> [pc |-> "idle", listed |-> {}, todo |-> {},
                                sent |-> {}, failed |-> {}]]

(* Where in the roster the loop is: at the first student still to do.      *)
Current(b) == {k \in batch[b].todo : \A j \in batch[b].todo : k <= j}

(* This student is counted as sent or failed, and the next one's turn.     *)
Counted(b, outcome) ==
    \E k \in Current(b) :
        batch' = [batch EXCEPT
                    ![b].pc = "loop", ![b].todo = @ \ {k},
                    ![b].sent = IF outcome = "sent" THEN @ \cup {Roster[k]} ELSE @,
                    ![b].failed = IF outcome = "failed" THEN @ \cup {Roster[k]} ELSE @]

-----------------------------------------------------------------------------
BatchListing(b, todo) ==
    /\ batch[b].pc = "idle"
    /\ batch' = [batch EXCEPT ![b].pc = "loop", ![b].todo = todo,
                              ![b].listed = {Roster[k] : k \in todo}]
    /\ UNCHANGED accountVars

(* A plausible bug: the students who have logged in are not left out.      *)
BatchListEveryone(b) == BatchListing(b, DOMAIN Roster)

BatchList(b) == BatchListing(b, {k \in DOMAIN Roster : ~lastLogin[Roster[k]]})

BatchWrite(b) ==
    /\ batch[b].pc = "loop"
    /\ \E k \in Current(b) : UpdatePassword(Roster[k], b)
    /\ batch' = [batch EXCEPT ![b].pc = "mailing"]
    /\ UNCHANGED <<refreshToken, lastLogin, codes>>

(* The UPDATE throws: the student is counted and the loop goes on.         *)
BatchWriteFails(b) ==
    /\ batch[b].pc = "loop"
    /\ Counted(b, "failed")
    /\ UNCHANGED accountVars

(* A plausible bug: a mail that is not sent is not counted.                *)
BatchMailUncounted(b) ==
    /\ batch[b].pc = "mailing"
    /\ \E outcome \in {"sent", "lost"} : Counted(b, outcome)
    /\ UNCHANGED accountVars

BatchMail(b) ==
    /\ batch[b].pc = "mailing"
    /\ \E outcome \in {"sent", "failed"} : Counted(b, outcome)
    /\ UNCHANGED accountVars

BatchEnd(b) ==
    /\ batch[b].pc = "loop" /\ batch[b].todo = {}
    /\ batch' = [batch EXCEPT ![b].pc = "done"]
    /\ UNCHANGED accountVars

(* The process dies: nothing resumes the loop.                             *)
BatchStop(b) ==
    /\ batch[b].pc \in {"loop", "mailing"}
    /\ batch' = [batch EXCEPT ![b].pc = "stopped"]
    /\ UNCHANGED accountVars

BatchNext ==
    \E b \in Batches :
        BatchList(b) \/ BatchWrite(b) \/ BatchWriteFails(b) \/ BatchMail(b) \/ BatchEnd(b)
        \/ BatchStop(b)
=============================================================================
