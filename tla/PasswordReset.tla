---------------------------- MODULE PasswordReset ----------------------------
(***************************************************************************)
(* POST /v1/auth/forgot-password and /v1/auth/reset-password, one action   *)
(* per statement.                                                          *)
(***************************************************************************)
EXTENDS AccountTable

VARIABLES
    ask,    \* forgot-password requests; earlier (history): codes stored when it invalidated
    reset   \* reset-password requests; spent (history): resets that were over when it looked

resetVars == <<ask, reset>>

AskState == [pc : {"idle", "invalidated", "created", "sent", "failed"}, earlier : SUBSET Asks]

ResetState == [pc : {"idle", "found", "written", "done", "refused", "failed", "failedAfterWrite"},
               code : Asks, spent : SUBSET Resets]

ResetTypeOK ==
    /\ ask \in [Asks -> AskState]
    /\ reset \in [Resets -> ResetState]

ResetInit ==
    /\ ask = [q \in Asks |-> [pc |-> "idle", earlier |-> {}]]
    /\ reset \in [Resets -> {s \in ResetState : s.pc = "idle" /\ s.spent = {}}]

-----------------------------------------------------------------------------
AskInvalidate(q) ==
    /\ ask[q].pc = "idle"
    /\ InvalidateUserCodes(AskedBy[q])
    /\ ask' = [ask EXCEPT ![q] = [pc |-> "invalidated",
                                  earlier |-> {c \in Asks : AskedBy[c] = AskedBy[q] /\ Stored(c)}]]
    /\ UNCHANGED <<password, refreshToken, lastLogin, reset>>

AskCreate(q) ==
    /\ ask[q].pc = "invalidated"
    /\ CreateCode(q)
    /\ ask' = [ask EXCEPT ![q].pc = "created"]
    /\ UNCHANGED <<password, refreshToken, lastLogin, reset>>

(* The code is stored and valid whether or not the e-mail could be sent.   *)
AskMail(q) ==
    /\ ask[q].pc = "created"
    /\ \E outcome \in {"sent", "failed"} : ask' = [ask EXCEPT ![q].pc = outcome]
    /\ UNCHANGED <<accountVars, reset>>

AskFail(q) ==
    /\ ask[q].pc \in {"idle", "invalidated"}
    /\ ask' = [ask EXCEPT ![q].pc = "failed"]
    /\ UNCHANGED <<accountVars, reset>>

-----------------------------------------------------------------------------
(* findValidCode, then the comparison with expiresAt; the test of used     *)
(* that follows can no longer fail.                                        *)
ResetFind(r) ==
    LET q == reset[r].code
    IN /\ reset[r].pc = "idle" /\ Stored(q)
       /\ reset' = [reset EXCEPT
                      ![r].pc = IF FindValidCode(AskedBy[q], q) /\ ~codes[q].expired
                                THEN "found" ELSE "refused",
                      ![r].spent = {s \in Resets : reset[s].pc = "done"}]
       /\ UNCHANGED <<accountVars, ask>>

ResetWrite(r) ==
    /\ reset[r].pc = "found"
    /\ UpdatePassword(AskedBy[reset[r].code], r)
    /\ reset' = [reset EXCEPT ![r].pc = "written"]
    /\ UNCHANGED <<refreshToken, lastLogin, codes, ask>>

(* A plausible bug: the code is not marked.                                *)
ResetMarkSkipped(r) ==
    /\ reset[r].pc = "written"
    /\ reset' = [reset EXCEPT ![r].pc = "done"]
    /\ UNCHANGED <<accountVars, ask>>

ResetMark(r) ==
    /\ reset[r].pc = "written"
    /\ MarkAsUsed(reset[r].code)
    /\ reset' = [reset EXCEPT ![r].pc = "done"]
    /\ UNCHANGED <<password, refreshToken, lastLogin, ask>>

ResetFail(r) ==
    /\ reset[r].pc \in {"found", "written"}
    /\ reset' = [reset EXCEPT ![r].pc = IF @ = "found" THEN "failed" ELSE "failedAfterWrite"]
    /\ UNCHANGED <<accountVars, ask>>

(* Fifteen minutes pass.                                                   *)
CodeExpires(q) ==
    /\ Stored(q) /\ ~codes[q].expired
    /\ codes' = [codes EXCEPT ![q].expired = TRUE]
    /\ UNCHANGED <<password, refreshToken, lastLogin, resetVars>>

ResetNext ==
    \/ \E q \in Asks : AskInvalidate(q) \/ AskCreate(q) \/ AskMail(q) \/ AskFail(q)
                       \/ CodeExpires(q)
    \/ \E r \in Resets : ResetFind(r) \/ ResetWrite(r) \/ ResetMark(r) \/ ResetFail(r)

Wrote(r) == reset[r].pc \in {"written", "done", "failedAfterWrite"}
=============================================================================
