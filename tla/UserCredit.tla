----------------------------- MODULE UserCredit -----------------------------
(***************************************************************************)
(* The credit columns of the users table and the SQL statements that move  *)
(* money between them (UserSQLRepository).  Every operator is ONE UPDATE   *)
(* statement, atomic in PostgreSQL; the handlers that string statements    *)
(* together live in other modules.  Amounts are whole currency units.      *)
(***************************************************************************)
EXTENDS Integers, Shop

CONSTANTS
    InitialCredit,  \* creditValue of a user before the behaviour starts
    CreditGrants,   \* values an administrator may write into creditValue
    MaxGrants       \* bound: how often administrators write creditValue

ASSUME CreditAssumption == /\ InitialCredit \in [Users -> Nat]
                           /\ CreditGrants \subseteq Nat
                           /\ MaxGrants \in Nat

VARIABLES
    creditValue,     \* users.creditValue: credit free to spend
    creditReserved,  \* users.creditReserved: credit blocked by PENDING orders
    grants,          \* bounding counter of administrator writes
    \* Observability variables: no statement reads them.
    granted,         \* net credit given to each user so far
    ledger           \* what the statements moved on behalf of each order

creditVars == <<creditValue, creditReserved, grants, granted, ledger>>

LedgerEntry == [deducted : Nat, reserved : Nat, consumed : Nat, released : Nat]

CreditTypeOK ==
    /\ creditValue \in [Users -> Int]
    /\ creditReserved \in [Users -> Int]
    /\ grants \in 0..MaxGrants
    /\ granted \in [Users -> Int]
    /\ ledger \in [Orders -> LedgerEntry]

CreditInit ==
    /\ creditValue = InitialCredit
    /\ creditReserved = [u \in Users |-> 0]
    /\ grants = 0
    /\ granted = InitialCredit
    /\ ledger = [o \in Orders |->
                    [deducted |-> 0, reserved |-> 0, consumed |-> 0, released |-> 0]]

-----------------------------------------------------------------------------
(* deductCreditAtomic: guarded by the row's own balance.  The caller learns *)
(* from the row count whether the statement matched (CanCover).             *)

CanCover(u, a) == creditValue[u] >= a

DeductUnchecked(o, a) ==
    /\ creditValue' = [creditValue EXCEPT ![CustomerOf[o]] = @ - a]
    /\ ledger' = [ledger EXCEPT ![o].deducted = @ + a]
    /\ UNCHANGED <<creditReserved, grants, granted>>

DeductCreditAtomic(o, a) ==
    /\ CanCover(CustomerOf[o], a)
    /\ DeductUnchecked(o, a)

(* reserveCredit: creditValue to creditReserved, same guard. *)
ReserveUnchecked(o, a) ==
    /\ creditValue' = [creditValue EXCEPT ![CustomerOf[o]] = @ - a]
    /\ creditReserved' = [creditReserved EXCEPT ![CustomerOf[o]] = @ + a]
    /\ ledger' = [ledger EXCEPT ![o].reserved = @ + a]
    /\ UNCHANGED <<grants, granted>>

ReserveCredit(o, a) ==
    /\ CanCover(CustomerOf[o], a)
    /\ ReserveUnchecked(o, a)

(* Moving a hold back to creditValue, whatever creditReserved holds: the   *)
(* UPDATE inside cancelOrderAtomically has no guard of its own.            *)
RefundHold(o, a) ==
    /\ creditValue' = [creditValue EXCEPT ![CustomerOf[o]] = @ + a]
    /\ creditReserved' = [creditReserved EXCEPT ![CustomerOf[o]] = @ - a]
    /\ ledger' = [ledger EXCEPT ![o].released = @ + a]
    /\ UNCHANGED <<grants, granted>>

(* releaseReservedCredit: the WHERE clause makes it a silent no-op when    *)
(* less than the amount is reserved; no caller looks at the row count.     *)
ReleaseReservedCredit(o, a) ==
    \/ /\ creditReserved[CustomerOf[o]] >= a
       /\ RefundHold(o, a)
    \/ /\ creditReserved[CustomerOf[o]] < a
       /\ UNCHANGED creditVars

(* consumeReservedCredit: the hold leaves creditReserved for good; the     *)
(* same silent no-op.                                                      *)
ConsumeHold(o, a) ==
    /\ creditReserved' = [creditReserved EXCEPT ![CustomerOf[o]] = @ - a]
    /\ ledger' = [ledger EXCEPT ![o].consumed = @ + a]
    /\ UNCHANGED <<creditValue, grants, granted>>

ConsumeReservedCredit(o, a) ==
    \/ /\ creditReserved[CustomerOf[o]] >= a
       /\ ConsumeHold(o, a)
    \/ /\ creditReserved[CustomerOf[o]] < a
       /\ UNCHANGED creditVars

(* PUT /v2/users/:id with a creditValue: an absolute overwrite of the      *)
(* column, whatever it holds; 0 is falsy in the adapter and never written. *)
AdminSetCredit(u, x) ==
    /\ grants < MaxGrants
    /\ x > 0
    /\ creditValue' = [creditValue EXCEPT ![u] = x]
    /\ granted' = [granted EXCEPT ![u] = @ + x - creditValue[u]]
    /\ grants' = grants + 1
    /\ UNCHANGED <<creditReserved, ledger>>
=============================================================================
