--------------------------- MODULE Accounts_proofs ---------------------------
(***************************************************************************)
(* ResetInv and BatchInv are inductive: for any number of users, requests, *)
(* resets, logins and mailings, all interleaved.                           *)
(***************************************************************************)
EXTENDS Accounts, TLAPS

(* No code is stored and nobody has asked for one.                         *)
LEMMA ResetInitial == Init => ResetInv
  BY WriterAssumption DEF Init, AccountInit, ResetInit, ResetInv, AccountTypeOK, ResetTypeOK, CodeRow, AskState,
     ResetState, EarlierCodesDead, DoneMeansUsed, SpentByOthers, UnaskedCodes, Stored, Wrote

(* Logins, logouts and the mailing touch neither codes nor resets.         *)
LEMMA OtherSteps ==
  ASSUME ResetInv, UNCHANGED <<codes, ask, reset>>, AccountTypeOK'
  PROVE  ResetInv'
  BY DEF ResetInv, ResetTypeOK, EarlierCodesDead, DoneMeansUsed, SpentByOthers, UnaskedCodes,
         Stored, Wrote

(* Session steps keep the types of the columns.                            *)
LEMMA SessionTypes == ASSUME ResetInv, SessionNext PROVE AccountTypeOK' /\ codes' = codes
  BY LoginAssumption DEF ResetInv, AccountTypeOK, SessionNext, LoginCheck, LoginStore, LoginStamp, LoginFail, Logout,
     accountVars

(* Mailing steps write passwords only.                                     *)
LEMMA BatchTypes == ASSUME ResetInv, BatchNext PROVE AccountTypeOK' /\ codes' = codes
<1>1. PICK b \in Batches : \/ UNCHANGED accountVars
                           \/ BatchWrite(b)
  BY DEF BatchNext, BatchList, BatchListing, BatchWriteFails, BatchMail, BatchEnd, BatchStop
<1>2. CASE UNCHANGED accountVars
  BY <1>2 DEF ResetInv, AccountTypeOK, accountVars
<1>3. CASE BatchWrite(b)
  BY <1>3 DEF ResetInv, AccountTypeOK, BatchWrite, UpdatePassword
<1> QED BY <1>1, <1>2, <1>3

(* The steps of the two endpoints.                                         *)
LEMMA ResetStep == ASSUME ResetInv, ResetNext PROVE ResetInv'
<1> USE AskAssumption DEF ResetInv, AccountTypeOK, ResetTypeOK, CodeRow, AskState, ResetState
<1>1. ASSUME NEW q \in Asks, AskInvalidate(q) PROVE ResetInv'
  <2>1. AccountTypeOK' /\ ResetTypeOK'
    BY <1>1 DEF AskInvalidate, InvalidateUserCodes
  <2>2. EarlierCodesDead'
    BY <1>1 DEF AskInvalidate, InvalidateUserCodes, EarlierCodesDead, Stored, Live
  <2>3. DoneMeansUsed' /\ UnaskedCodes' /\ SpentByOthers'
    BY <1>1 DEF AskInvalidate, InvalidateUserCodes, DoneMeansUsed, UnaskedCodes, SpentByOthers, Stored, Live, Wrote
  <2> QED BY <2>1, <2>2, <2>3
<1>2. ASSUME NEW q \in Asks, AskCreate(q) PROVE ResetInv'
  BY <1>2 DEF AskCreate, CreateCode, EarlierCodesDead, DoneMeansUsed, UnaskedCodes, SpentByOthers, Stored, Wrote
<1>3. ASSUME NEW q \in Asks, AskMail(q) PROVE ResetInv'
  BY <1>3 DEF AskMail, accountVars, EarlierCodesDead, DoneMeansUsed, UnaskedCodes, SpentByOthers, Stored, Wrote
<1>4. ASSUME NEW q \in Asks, AskFail(q) PROVE ResetInv'
  BY <1>4 DEF AskFail, accountVars, EarlierCodesDead, DoneMeansUsed, UnaskedCodes, SpentByOthers, Stored, Wrote
<1>5. ASSUME NEW q \in Asks, CodeExpires(q) PROVE ResetInv'
  <2>1. AccountTypeOK' /\ ResetTypeOK'
    BY <1>5 DEF CodeExpires, resetVars
  <2>2. EarlierCodesDead' /\ UnaskedCodes'
    BY <1>5, <2>1 DEF CodeExpires, resetVars, EarlierCodesDead, UnaskedCodes, Stored
  <2>3. DoneMeansUsed'
    BY <1>5, <2>1 DEF CodeExpires, resetVars, DoneMeansUsed
  <2>4. SpentByOthers'
    BY <1>5, <2>1 DEF CodeExpires, resetVars, SpentByOthers, Wrote
  <2> QED BY <2>1, <2>2, <2>3, <2>4
<1>6. ASSUME NEW r \in Resets, ResetFind(r) PROVE ResetInv'
  <2>1. AccountTypeOK' /\ ResetTypeOK'
    <3> DEFINE over == {s \in Resets : reset[s].pc = "done"}
    <3>1. over \in SUBSET Resets
      OBVIOUS
    <3>2. PICK pc \in {"found", "refused"} : reset' = [reset EXCEPT ![r].pc = pc, ![r].spent = over]
      <4> DEFINE pc == IF FindValidCode(AskedBy[reset[r].code], reset[r].code) /\ ~codes[reset[r].code].expired
                       THEN "found" ELSE "refused"
      <4>1. pc \in {"found", "refused"}
        OBVIOUS
      <4>2. reset' = [reset EXCEPT ![r].pc = pc, ![r].spent = over]
        BY <1>6 DEF ResetFind
      <4> HIDE DEF pc
      <4> QED BY <4>1, <4>2
    <3> HIDE DEF over
    <3>3. ResetTypeOK'
      <4>1. reset[r] \in ResetState /\ ask' = ask
        BY <1>6 DEF ResetFind
      <4>2. [reset[r] EXCEPT !.pc = pc, !.spent = over] \in ResetState
        BY <3>1, <4>1
      <4>3. reset' = [reset EXCEPT ![r] = [reset[r] EXCEPT !.pc = pc, !.spent = over]]
        BY <3>2
      <4> QED BY <4>1, <4>2, <4>3
    <3> QED BY <1>6, <3>3 DEF ResetFind, accountVars
  <2>2. EarlierCodesDead' /\ UnaskedCodes' /\ DoneMeansUsed'
    BY SMTT(30), <1>6 DEF ResetFind, accountVars, EarlierCodesDead, UnaskedCodes, DoneMeansUsed, Stored
  <2>3. ASSUME NEW s \in Resets, NEW t \in reset'[s].spent
        PROVE  /\ reset'[t].pc = "done"
               /\ (reset'[s].pc = "found" \/ Wrote(s)') => reset'[t].code # reset'[s].code
    <3>1. CASE s = r
      <4>1. reset'[r].spent = {u \in Resets : reset[u].pc = "done"} /\ reset'[r].code = reset[r].code
        BY <1>6 DEF ResetFind
      <4>2. t \in Resets /\ reset[t].pc = "done" /\ t # r /\ reset'[t] = reset[t]
        BY <1>6, <3>1, <4>1 DEF ResetFind
      <4>3. codes[reset[t].code].state = "used"
        BY <4>2 DEF DoneMeansUsed
      <4>4. reset'[r].pc \in {"found", "refused"} /\ (reset'[r].pc = "found" => codes[reset[r].code].state = "live")
        BY <1>6 DEF ResetFind, FindValidCode, Live
      <4> QED BY <3>1, <4>1, <4>2, <4>3, <4>4 DEF Wrote
    <3>2. CASE s # r
      <4>1. reset'[s] = reset[s] /\ t \in reset[s].spent /\ t \in Resets
        BY <1>6, <3>2 DEF ResetFind
      <4>2. reset[t].pc = "done" /\ t # r
        BY <1>6, <4>1 DEF SpentByOthers, ResetFind
      <4>3. reset'[t] = reset[t]
        BY <1>6, <4>1, <4>2 DEF ResetFind
      <4> QED BY <4>1, <4>2, <4>3 DEF SpentByOthers, Wrote
    <3> QED BY <3>1, <3>2
  <2>4. SpentByOthers'
    BY <2>3 DEF SpentByOthers
  <2> QED BY <2>1, <2>2, <2>4
<1>7. ASSUME NEW r \in Resets, ResetWrite(r) PROVE ResetInv'
  <2>1. AccountTypeOK' /\ ResetTypeOK'
    BY <1>7 DEF ResetWrite, UpdatePassword
  <2>2. EarlierCodesDead' /\ UnaskedCodes'
    BY <1>7, <2>1 DEF ResetWrite, UpdatePassword, EarlierCodesDead, UnaskedCodes, Stored
  <2>3. DoneMeansUsed'
    BY <1>7, <2>1 DEF ResetWrite, UpdatePassword, DoneMeansUsed
  <2>4. SpentByOthers'
    BY <1>7, <2>1 DEF ResetWrite, UpdatePassword, SpentByOthers, Wrote
  <2> QED BY <2>1, <2>2, <2>3, <2>4
<1>8. ASSUME NEW r \in Resets, ResetMark(r) PROVE ResetInv'
  <2>1. AccountTypeOK' /\ ResetTypeOK'
    BY ZenonT(40), <1>8 DEF ResetMark, MarkAsUsed
  <2>2. EarlierCodesDead' /\ UnaskedCodes'
    BY <1>8, <2>1 DEF ResetMark, MarkAsUsed, EarlierCodesDead, UnaskedCodes, Stored
  <2>3. DoneMeansUsed'
    BY <1>8, <2>1 DEF ResetMark, MarkAsUsed, DoneMeansUsed
  <2>4. SpentByOthers'
    BY <1>8, <2>1 DEF ResetMark, MarkAsUsed, SpentByOthers, Wrote
  <2> QED BY <2>1, <2>2, <2>3, <2>4
<1>9. ASSUME NEW r \in Resets, ResetFail(r) PROVE ResetInv'
  <2>1. AccountTypeOK' /\ ResetTypeOK'
    BY <1>9 DEF ResetFail, accountVars
  <2>2. EarlierCodesDead' /\ UnaskedCodes'
    BY <1>9, <2>1 DEF ResetFail, accountVars, EarlierCodesDead, UnaskedCodes, Stored
  <2>3. DoneMeansUsed'
    BY <1>9, <2>1 DEF ResetFail, accountVars, DoneMeansUsed
  <2>4. SpentByOthers'
    <3>1. \A s \in Resets : /\ reset'[s].spent = reset[s].spent /\ reset'[s].code = reset[s].code
                            /\ reset[s].pc = "done" => reset'[s].pc = "done"
                            /\ reset'[s].pc = "found" \/ Wrote(s)' => reset[s].pc = "found" \/ Wrote(s)
      BY <1>9 DEF ResetFail, Wrote
    <3> QED BY <3>1, <2>1 DEF SpentByOthers
  <2> QED BY <2>1, <2>2, <2>3, <2>4
<1> QED BY <1>1, <1>2, <1>3, <1>4, <1>5, <1>6, <1>7, <1>8, <1>9 DEF ResetNext

(* The inductive invariant holds in every reachable state.                 *)
THEOREM ResetInvariance == Spec => []ResetInv
<1>1. ResetInv /\ [Next]_vars => ResetInv'
  <2> SUFFICES ASSUME ResetInv, [Next]_vars PROVE ResetInv'
    OBVIOUS
  <2>1. CASE ResetNext
    BY <2>1, ResetStep
  <2>2. CASE SessionNext /\ UNCHANGED <<resetVars, batch, known>>
    BY <2>2, SessionTypes, OtherSteps DEF resetVars
  <2>3. CASE BatchNext /\ UNCHANGED <<resetVars, login>>
    BY <2>3, BatchTypes, OtherSteps DEF resetVars
  <2>4. CASE UNCHANGED vars
    BY <2>4, OtherSteps DEF vars, accountVars, resetVars, ResetInv, AccountTypeOK
  <2> QED BY <2>1, <2>2, <2>3, <2>4 DEF Next
<1> QED BY ResetInitial, <1>1, PTL DEF Spec

(* A code that was stored when a request of its user looked is never valid *)
(* again, however requests and resets overlap.                             *)
THEOREM EarlierCodesStayDead == Spec => []EarlierCodesDead
<1>1. ResetInv => EarlierCodesDead BY DEF ResetInv
<1> QED BY ResetInvariance, <1>1, PTL

(* Only overlapping resets, or one that failed before marking its code,    *)
(* can spend a code twice.                                                 *)
THEOREM SpendingTwiceIsARace == Spec => []SpentTwiceOnlyWhenRaced
<1>1. ResetInv => SpentTwiceOnlyWhenRaced
  BY DEF ResetInv, SpentByOthers, SpentTwiceOnlyWhenRaced
<1> QED BY ResetInvariance, <1>1, PTL

-----------------------------------------------------------------------------
(* The mailing.                                                            *)

(* A mailing's state is typed and says what it has listed and counted.     *)
BatchSound(b) ==
  /\ batch[b] \in BatchState
  /\ known[b] \in SUBSET Accounts
  /\ batch[b].listed = batch[b].sent \cup batch[b].failed \cup {Roster[k] : k \in batch[b].todo}
  /\ \A k \in batch[b].todo : Roster[k] \notin known[b]
  /\ batch[b].pc = "idle" => batch[b].sent = {} /\ batch[b].failed = {}
  /\ batch[b].pc = "done" => batch[b].todo = {}

LEMMA BatchInvSplit ==
  BatchInv <=> /\ AccountTypeOK
               /\ batch = [b \in Batches |-> batch[b]] /\ known = [b \in Batches |-> known[b]]
               /\ \A b \in Batches : BatchSound(b)
  BY DEF BatchInv, BatchTypeOK, BatchSound

LEMMA BatchInitial == Init => BatchInv
  BY WriterAssumption DEF Init, AccountInit, BatchInit, BatchInv, BatchTypeOK, BatchState, AccountTypeOK, CodeRow

(* A step of mailing c leaves the others alone.                            *)
LEMMA OneBatch ==
  ASSUME BatchInv, AccountTypeOK', NEW c \in Batches, NEW x,
         batch' = [batch EXCEPT ![c] = x],
         \A b \in Batches \ {c} : known'[b] = known[b], known' = [b \in Batches |-> known'[b]],
         BatchSound(c)'
  PROVE  BatchInv'
<1>1. batch' = [b \in Batches |-> batch'[b]] /\ \A b \in Batches \ {c} : batch'[b] = batch[b]
  BY DEF BatchInv, BatchTypeOK
<1>2. \A b \in Batches \ {c} : BatchSound(b)'
  BY <1>1, BatchInvSplit DEF BatchSound
<1>3. \A b \in Batches : BatchSound(b)'
  BY <1>2
<1>4. batch' \in [Batches -> BatchState] /\ known' \in [Batches -> SUBSET Accounts]
  BY <1>1, <1>3 DEF BatchSound
<1> QED BY <1>3, <1>4 DEF BatchInv, BatchTypeOK, BatchSound

(* The steps of a mailing.                                                 *)
LEMMA BatchStep ==
  ASSUME BatchInv, BatchNext,
         known' = [b \in Batches |-> IF batch[b].pc = "idle" /\ batch'[b].pc # "idle"
                                      THEN {u \in Accounts : lastLogin[u]} ELSE known[b]]
  PROVE  BatchInv'
<1>1. PICK c \in Batches : BatchList(c) \/ BatchWrite(c) \/ BatchWriteFails(c) \/ BatchMail(c) \/ BatchEnd(c)
                          \/ BatchStop(c)
  BY DEF BatchNext
<1>2. BatchSound(c) /\ batch \in [Batches -> BatchState]
  BY BatchInvSplit DEF BatchInv, BatchTypeOK
<1>3. AccountTypeOK'
  <2>1. CASE UNCHANGED accountVars
    BY <2>1 DEF BatchInv, AccountTypeOK, accountVars
  <2>2. CASE BatchWrite(c)
    <3>1. \E u : password' = [password EXCEPT ![u] = c]
      BY <2>2 DEF BatchWrite, UpdatePassword
    <3> QED BY <2>2, <3>1 DEF BatchInv, AccountTypeOK, BatchWrite
  <2> QED BY <1>1, <2>1, <2>2 DEF BatchList, BatchListing, BatchWriteFails, BatchMail, BatchEnd, BatchStop
<1>4. ASSUME NEW x \in BatchState, batch' = [batch EXCEPT ![c] = x]
      PROVE  /\ batch'[c] = x /\ known' = [b \in Batches |-> known'[b]]
             /\ \A b \in Batches \ {c} : known'[b] = known[b]
             /\ batch[c].pc # "idle" => known'[c] = known[c]
  BY <1>2, <1>4
<1>5. CASE BatchList(c)
  <2> DEFINE todo == {k \in DOMAIN Roster : ~lastLogin[Roster[k]]}
             y == {u \in Accounts : lastLogin[u]}
             x == [batch[c] EXCEPT !.pc = "loop", !.todo = todo, !.listed = {Roster[k] : k \in todo}]
  <2>1. batch' = [batch EXCEPT ![c] = x] /\ batch[c].pc = "idle"
    BY <1>5 DEF BatchList, BatchListing
  <2>2. \A k \in todo : Roster[k] \in Accounts /\ Roster[k] \notin y
    BY RosterAssumption
  <2>3. x \in BatchState
    BY <1>2, <2>2 DEF BatchState
  <2>4. /\ x.pc = "loop" /\ x.todo = todo /\ x.listed = {Roster[k] : k \in todo}
        /\ x.sent = {} /\ x.failed = {}
    BY <1>2, <2>1 DEF BatchState, BatchSound
  <2> HIDE DEF x, todo
  <2>5. batch'[c] = x /\ known'[c] = y
    BY <1>2, <1>4, <2>1, <2>3, <2>4
  <2>6. BatchSound(c)'
    BY <2>2, <2>3, <2>4, <2>5 DEF BatchSound
  <2> QED BY <1>3, <1>4, <2>1, <2>3, <2>6, OneBatch
<1>6. ASSUME NEW pc \in {"loop", "mailing", "done", "stopped"}, batch' = [batch EXCEPT ![c].pc = pc],
             batch[c].pc # "idle", pc = "done" => batch[c].todo = {}
      PROVE  BatchInv'
  <2> DEFINE x == [batch[c] EXCEPT !.pc = pc]
  <2>1. batch' = [batch EXCEPT ![c] = x]
    BY <1>6
  <2>2. x \in BatchState /\ x.pc = pc /\ x.todo = batch[c].todo /\ x.listed = batch[c].listed
        /\ x.sent = batch[c].sent /\ x.failed = batch[c].failed
    BY <1>2 DEF BatchState
  <2> HIDE DEF x
  <2>3. batch'[c] = x /\ known'[c] = known[c]
    BY <1>4, <1>6, <2>1, <2>2
  <2>4. BatchSound(c)'
    BY <1>2, <1>6, <2>2, <2>3 DEF BatchSound
  <2> QED BY <1>3, <1>4, <2>1, <2>2, <2>4, OneBatch
<1>7. ASSUME NEW outcome \in {"sent", "failed"}, Counted(c, outcome), batch[c].pc # "idle"
      PROVE  BatchInv'
  <2>1. PICK k \in Current(c) : batch' = [batch EXCEPT
                    ![c].pc = "loop", ![c].todo = @ \ {k},
                    ![c].sent = IF outcome = "sent" THEN @ \cup {Roster[k]} ELSE @,
                    ![c].failed = IF outcome = "failed" THEN @ \cup {Roster[k]} ELSE @]
    BY <1>7 DEF Counted
  <2> DEFINE todo == batch[c].todo \ {k}
             sent == IF outcome = "sent" THEN batch[c].sent \cup {Roster[k]} ELSE batch[c].sent
             failed == IF outcome = "failed" THEN batch[c].failed \cup {Roster[k]} ELSE batch[c].failed
             x == [batch[c] EXCEPT !.pc = "loop", !.todo = todo, !.sent = sent, !.failed = failed]
  <2>2. batch' = [batch EXCEPT ![c] = x]
    BY <1>2, <2>1
  <2>3. k \in batch[c].todo /\ batch[c].todo \subseteq DOMAIN Roster /\ Roster[k] \in Accounts
    BY <1>2, RosterAssumption DEF Current, BatchState
  <2>4. todo \in SUBSET DOMAIN Roster /\ sent \in SUBSET Accounts /\ failed \in SUBSET Accounts
    BY <1>2, <2>3 DEF BatchState
  <2>5. batch[c].sent \cup batch[c].failed \cup {Roster[j] : j \in batch[c].todo}
           = sent \cup failed \cup {Roster[j] : j \in todo}
    BY <1>7, <2>3
  <2> HIDE DEF todo, sent, failed
  <2>6. /\ x \in BatchState /\ x.pc = "loop" /\ x.todo = todo /\ x.listed = batch[c].listed
        /\ x.sent = sent /\ x.failed = failed
    BY <1>2, <2>4 DEF BatchState
  <2> HIDE DEF x
  <2>7. batch'[c] = x /\ known'[c] = known[c]
    BY <1>4, <1>7, <2>2, <2>6
  <2>8. todo \subseteq batch[c].todo
    BY DEF todo
  <2>9. BatchSound(c)'
    BY <1>2, <2>5, <2>6, <2>7, <2>8 DEF BatchSound
  <2> QED BY <1>3, <1>4, <2>2, <2>6, <2>9, OneBatch
<1>8. CASE BatchWrite(c)
  BY <1>6, <1>8 DEF BatchWrite
<1>9. CASE BatchWriteFails(c) \/ BatchMail(c)
  BY <1>7, <1>9 DEF BatchWriteFails, BatchMail
<1>10. CASE BatchEnd(c) \/ BatchStop(c)
  BY <1>6, <1>10 DEF BatchEnd, BatchStop
<1> QED BY <1>1, <1>5, <1>8, <1>9, <1>10

LEMMA BatchInvariance == Spec => []BatchInv
<1>1. ResetInv /\ BatchInv /\ [Next]_vars => BatchInv'
  <2> SUFFICES ASSUME ResetInv, BatchInv, [Next]_vars PROVE BatchInv'
    OBVIOUS
  <2>1. ASSUME AccountTypeOK', UNCHANGED <<batch, known>> PROVE BatchInv'
    BY <2>1 DEF BatchInv, BatchTypeOK
  <2>2. CASE ResetNext /\ UNCHANGED <<login, batch, known>>
    BY <2>1, <2>2, ResetStep DEF ResetInv
  <2>3. CASE SessionNext /\ UNCHANGED <<resetVars, batch, known>>
    BY <2>1, <2>3, SessionTypes
  <2>4. CASE UNCHANGED vars
    BY <2>1, <2>4 DEF vars, accountVars, BatchInv, AccountTypeOK
  <2> QED BY <2>2, <2>3, <2>4, BatchStep DEF Next
<1> QED BY BatchInitial, ResetInvariance, <1>1, PTL DEF Spec

(* However mails and writes fail, a mailing that is over has counted every *)
(* student it had listed.                                                  *)
THEOREM MailingCountsEveryone == Spec => []EveryStudentCounted
<1>1. BatchInv => EveryStudentCounted
  BY DEF BatchInv, EveryStudentCounted
<1> QED BY BatchInvariance, <1>1, PTL

(* A mailing gives no password to a student who had logged in when it read *)
(* its list, whatever logins and resets do meanwhile.                      *)
THEOREM MailingSparesTheKnown == Spec => KnownStudentsKeepPassword
<1>1. BatchInv /\ [Next]_vars =>
         \A u \in Accounts, b \in Batches : password'[u] = b /\ password[u] # b => u \notin known[b]
  <2> SUFFICES ASSUME BatchInv, [Next]_vars, NEW u \in Accounts, NEW b \in Batches,
                      password'[u] = b, password[u] # b
               PROVE  u \notin known[b]
    OBVIOUS
  <2>1. CASE BatchNext
    <3>1. PICK c \in Batches : BatchWrite(c)
      BY <2>1 DEF BatchNext, BatchList, BatchListing, BatchWriteFails, BatchMail, BatchEnd, BatchStop, accountVars
    <3>2. PICK k \in batch[c].todo : password' = [password EXCEPT ![Roster[k]] = c]
      BY <3>1 DEF BatchWrite, Current, UpdatePassword
    <3>3. u = Roster[k] /\ b = c
      BY <3>2 DEF BatchInv, AccountTypeOK
    <3> QED BY <3>3 DEF BatchInv
  <2>2. CASE SessionNext
    BY <2>2 DEF SessionNext, LoginCheck, LoginStore, LoginStamp, LoginFail, Logout, accountVars
  <2>3. CASE ResetNext
    <3>1. password' = password \/ \E r \in Resets : ResetWrite(r)
      BY <2>3 DEF ResetNext, AskInvalidate, AskCreate, AskMail, AskFail, CodeExpires, ResetFind, ResetMark,
         ResetFail, accountVars
    <3>2. PICK r \in Resets : \E v : password' = [password EXCEPT ![v] = r]
      BY <3>1 DEF ResetWrite, UpdatePassword
    <3>3. b = r
      BY <3>2 DEF BatchInv, AccountTypeOK
    <3> QED BY <3>3, WriterAssumption
  <2>4. CASE UNCHANGED vars
    BY <2>4 DEF vars, accountVars
  <2> QED BY <2>1, <2>2, <2>3, <2>4 DEF Next
<1> QED BY BatchInvariance, <1>1, PTL DEF Spec, KnownStudentsKeepPassword
=============================================================================
