------------------------------ MODULE Sessions -------------------------------
(***************************************************************************)
(* Login and logout.  A login reads the user, stores the hash of a refresh *)
(* token and then stamps lastLoginAt with another statement.               *)
(***************************************************************************)
EXTENDS AccountTable

CONSTANTS Logins, LoginOf   \* login requests, and the user of each

ASSUME LoginAssumption == LoginOf \in [Logins -> Accounts]

VARIABLE login

LoginTypeOK == login \in [Logins -> {"idle", "checked", "stored", "in", "failed"}]

LoginInit == login = [l \in Logins |-> "idle"]

-----------------------------------------------------------------------------
(* validateUser: the password matched.                                     *)
LoginCheck(l) ==
    /\ login[l] = "idle"
    /\ login' = [login EXCEPT ![l] = "checked"]
    /\ UNCHANGED accountVars

LoginStore(l) ==
    /\ login[l] = "checked"
    /\ login' = [login EXCEPT ![l] = "stored"]
    /\ refreshToken' = [refreshToken EXCEPT ![LoginOf[l]] = TRUE]
    /\ UNCHANGED <<password, lastLogin, codes>>

LoginStamp(l) ==
    /\ login[l] = "stored"
    /\ login' = [login EXCEPT ![l] = "in"]
    /\ lastLogin' = [lastLogin EXCEPT ![LoginOf[l]] = TRUE]
    /\ UNCHANGED <<password, refreshToken, codes>>

LoginFail(l) ==
    /\ login[l] \in {"checked", "stored"}
    /\ login' = [login EXCEPT ![l] = "failed"]
    /\ UNCHANGED accountVars

Logout(u) ==
    /\ refreshToken[u]
    /\ refreshToken' = [refreshToken EXCEPT ![u] = FALSE]
    /\ UNCHANGED <<password, lastLogin, codes, login>>

SessionNext ==
    \/ \E l \in Logins : LoginCheck(l) \/ LoginStore(l) \/ LoginStamp(l) \/ LoginFail(l)
    \/ \E u \in Accounts : Logout(u)
=============================================================================
