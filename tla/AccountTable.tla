---------------------------- MODULE AccountTable -----------------------------
(***************************************************************************)
(* The columns of users that sign-in depends on, and password_reset_codes, *)
(* with the statements run on them.  A password is named after the request *)
(* that wrote it, a code after the request it was generated for.           *)
(***************************************************************************)
EXTENDS Naturals, Sequences

CONSTANTS
    Accounts,  \* user ids
    Asks,      \* forgot-password requests
    AskedBy,   \* the user whose e-mail address request q names
    Resets,    \* reset-password requests
    Batches    \* send-credentials requests

ASSUME AskAssumption == AskedBy \in [Asks -> Accounts]
ASSUME WriterAssumption == "initial" \notin Resets \cup Batches /\ Resets \cap Batches = {}

VARIABLES
    password,      \* the request that wrote passwordHash
    refreshToken,  \* whether currentHashedRefreshToken is set
    lastLogin,     \* whether lastLoginAt is set
    codes          \* the row of each generated code

accountVars == <<password, refreshToken, lastLogin, codes>>

CodeRow == [state : {"none", "live", "used"}, expired : BOOLEAN]

AccountTypeOK ==
    /\ password \in [Accounts -> {"initial"} \cup Resets \cup Batches]
    /\ refreshToken \in [Accounts -> BOOLEAN]
    /\ lastLogin \in [Accounts -> BOOLEAN]
    /\ codes \in [Asks -> CodeRow]

AccountInit ==
    /\ password = [u \in Accounts |-> "initial"]
    /\ refreshToken = [u \in Accounts |-> FALSE]
    /\ lastLogin \in [Accounts -> BOOLEAN]
    /\ codes = [q \in Asks |-> [state |-> "none", expired |-> FALSE]]

Stored(q) == codes[q].state # "none"
Live(q) == codes[q].state = "live"

(* used: false is the only condition of findValidCode on the state; the    *)
(* caller compares expiresAt.                                              *)
FindValidCode(u, q) == AskedBy[q] = u /\ Live(q)

(* A plausible bug: earlier codes are left valid.                          *)
InvalidateNothing(u) == codes' = codes

InvalidateUserCodes(u) ==
    codes' = [q \in Asks |-> IF AskedBy[q] = u /\ Live(q) THEN [codes[q] EXCEPT !.state = "used"]
                             ELSE codes[q]]

CreateCode(q) == codes' = [codes EXCEPT ![q] = [state |-> "live", expired |-> FALSE]]

MarkAsUsed(q) == codes' = [codes EXCEPT ![q].state = "used"]

UpdatePassword(u, writer) == password' = [password EXCEPT ![u] = writer]
=============================================================================
