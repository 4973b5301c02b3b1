---------------------------- MODULE CreditHolds ----------------------------
(***************************************************************************)
(* What the credit account promises, without handlers or order rows: an    *)
(* order spends credit outright or holds it, and a hold is consumed or     *)
(* released exactly once, for exactly the amount held.                     *)
(***************************************************************************)
EXTENDS Integers

CONSTANTS Users, Orders, CustomerOf

VARIABLES
    available,  \* credit each user may spend
    held,       \* credit of each user blocked by holds
    phase,      \* none, spent, held, consumed or released, per order
    amount      \* credit the order took

Init ==
    /\ available \in [Users -> Nat]
    /\ held = [u \in Users |-> 0]
    /\ phase = [o \in Orders |-> "none"]
    /\ amount = [o \in Orders |-> 0]

TakeFrom(o, a, p) ==
    /\ phase[o] = "none"
    /\ a > 0 /\ a <= available[CustomerOf[o]]
    /\ available' = [available EXCEPT ![CustomerOf[o]] = @ - a]
    /\ phase' = [phase EXCEPT ![o] = p]
    /\ amount' = [amount EXCEPT ![o] = a]

Spend(o) ==
    /\ \E a \in 1..available[CustomerOf[o]] : TakeFrom(o, a, "spent")
    /\ UNCHANGED held

Hold(o) ==
    \E a \in 1..available[CustomerOf[o]] :
        /\ TakeFrom(o, a, "held")
        /\ held' = [held EXCEPT ![CustomerOf[o]] = @ + a]

Settle(o, p) ==
    /\ phase[o] = "held"
    /\ phase' = [phase EXCEPT ![o] = p]
    /\ held' = [held EXCEPT ![CustomerOf[o]] = @ - amount[o]]
    /\ UNCHANGED amount

Consume(o) == Settle(o, "consumed") /\ UNCHANGED available

Release(o) ==
    /\ Settle(o, "released")
    /\ available' = [available EXCEPT ![CustomerOf[o]] = @ + amount[o]]

Adjust(u) ==
    /\ available'[u] \in Nat
    /\ available' = [available EXCEPT ![u] = available'[u]]
    /\ UNCHANGED <<held, phase, amount>>

Next ==
    \/ \E o \in Orders : Spend(o) \/ Hold(o) \/ Consume(o) \/ Release(o)
    \/ \E u \in Users : Adjust(u)

Spec == Init /\ [][Next]_<<available, held, phase, amount>>
=============================================================================
