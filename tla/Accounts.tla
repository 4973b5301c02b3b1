------------------------------ MODULE Accounts -------------------------------
(***************************************************************************)
(* Password resets, sessions and the administrator's credential mailing    *)
(* over the same user rows, with every statement interleaved.              *)
(***************************************************************************)
EXTENDS PasswordReset, Sessions, StudentCredentials, FiniteSets

VARIABLE known   \* history: users with lastLoginAt when batch b read its list

vars == <<accountVars, resetVars, login, batch, known>>

Init ==
    /\ AccountInit /\ ResetInit /\ LoginInit /\ BatchInit
    /\ known = [b \in Batches |-> {}]

Next ==
    \/ ResetNext /\ UNCHANGED <<login, batch, known>>
    \/ SessionNext /\ UNCHANGED <<resetVars, batch, known>>
    \/ /\ BatchNext /\ UNCHANGED <<resetVars, login>>
       /\ known' = [b \in Batches |-> IF batch[b].pc = "idle" /\ batch'[b].pc # "idle"
                                      THEN {u \in Accounts : lastLogin[u]} ELSE known[b]]

Spec == Init /\ [][Next]_vars

-----------------------------------------------------------------------------
TypeOK ==
    /\ AccountTypeOK /\ ResetTypeOK /\ LoginTypeOK /\ BatchTypeOK
    /\ known \in [Batches -> SUBSET Accounts]

(* Once a request has invalidated, no code that was stored before is valid *)
(* again: of two codes of one user that are valid, each was generated by a *)
(* request that looked before the other code was stored.                   *)
EarlierCodesDead ==
    \A q \in Asks : \A c \in ask[q].earlier : codes[c].state = "used"

(* A reset that is over has used its code up.                              *)
DoneMeansUsed == \A r \in Resets : reset[r].pc = "done" => codes[reset[r].code].state = "used"

(* A code sets a second password only when the second reset looked it up   *)
(* before the first was over, or the first failed before marking it.       *)
SpentTwiceOnlyWhenRaced ==
    \A r, s \in Resets :
        Wrote(r) /\ Wrote(s) /\ reset[r].code = reset[s].code => r \notin reset[s].spent

(* What the two properties of the codes rest on.                           *)
SpentByOthers ==
    \A s \in Resets : \A r \in reset[s].spent :
        reset[r].pc = "done" /\ (reset[s].pc = "found" \/ Wrote(s) => reset[r].code # reset[s].code)

UnaskedCodes ==
    /\ \A q \in Asks : /\ ask[q].pc \in {"idle", "invalidated"} => ~Stored(q)
                       /\ ask[q].pc = "idle" => ask[q].earlier = {}
    /\ \A r \in Resets : reset[r].pc # "idle" => Stored(reset[r].code)

ResetInv ==
    /\ AccountTypeOK /\ ResetTypeOK
    /\ EarlierCodesDead /\ DoneMeansUsed /\ SpentByOthers /\ UnaskedCodes

(* What a mailing has listed it has counted or has still to do, and nobody *)
(* still to do was known to have logged in.                                *)
BatchInv ==
    /\ AccountTypeOK /\ BatchTypeOK /\ known \in [Batches -> SUBSET Accounts]
    /\ \A b \in Batches :
          /\ batch[b].listed = batch[b].sent \cup batch[b].failed \cup {Roster[k] : k \in batch[b].todo}
          /\ \A k \in batch[b].todo : Roster[k] \notin known[b]
          /\ batch[b].pc = "idle" => batch[b].sent = {} /\ batch[b].failed = {}
          /\ batch[b].pc = "done" => batch[b].todo = {}

(* Every student of the list is counted as sent or as failed.              *)
EveryStudentCounted ==
    \A b \in Batches : batch[b].pc = "done" => batch[b].listed = batch[b].sent \cup batch[b].failed

(* The mailing never replaces the password of a student who had logged in  *)
(* when it read its list.                                                  *)
KnownStudentsKeepPassword ==
    [][\A u \in Accounts, b \in Batches :
          password'[u] = b /\ password[u] # b => u \notin known[b]]_vars
=============================================================================
