----------------------------- MODULE OrderLedger -----------------------------
(***************************************************************************)
(* The balances of the users table against the rows of the orders table    *)
(* and against what the statements moved for each order.                   *)
(***************************************************************************)
EXTENDS OrderAccount, FiniteSets

OrdersOf(u) == {o \in Orders : CustomerOf[o] = u}

(* The sum of an amount over a customer's orders, counted unit by unit: as *)
(* a number of elements it is within reach of the proofs.                  *)
Units(amount, u) == UNION {{o} \X (1..amount[o]) : o \in OrdersOf(u)}

Total(amount, u) == Cardinality(Units(amount, u))

-----------------------------------------------------------------------------
(* What the statements of UserSQLRepository keep, whoever strings them     *)
(* together, whatever overlaps, fails or restarts.                         *)

Reserved == [o \in Orders |-> ledger[o].reserved]
Settled == [o \in Orders |-> ledger[o].consumed + ledger[o].released]
Spent == [o \in Orders |-> ledger[o].deducted + ledger[o].consumed]

(* creditReserved is what the customer's orders reserved and nobody has    *)
(* consumed or released since.                                             *)
ReserveAccounted ==
    \A u \in Users : creditReserved[u] = Total(Reserved, u) - Total(Settled, u)

(* No unit of credit is lost or made: what administrators gave a customer  *)
(* is free, reserved or spent.                                             *)
CreditConserved ==
    \A u \in Users : creditValue[u] + creditReserved[u] + Total(Spent, u) = granted[u]

-----------------------------------------------------------------------------
(* When nothing of a customer's is in flight the two tables agree: the     *)
(* creditReserved is exactly what the order rows of that customer still    *)
(* hold, creditUsed of those not flagged credit_restored.  No statement    *)
(* keeps the two columns together; each handler must get its pair right.   *)
AtRest(o) == ~InFlightOn(o) /\ create[o].pc \in {"idle", "done", "failed"}

Held == [o \in Orders |-> IF HoldsCredit(o) THEN orders[o].creditUsed ELSE 0]

ReserveMatchesRows ==
    \A u \in Users :
        (\A o \in OrdersOf(u) : AtRest(o)) => creditReserved[u] = Total(Held, u)

(* creditReserved always covers the orders that still hold credit, so the  *)
(* guards of release and consume never turn a due settlement into a silent *)
(* no-op and the unguarded client cancellation never makes it negative.    *)
Due == [o \in Orders |-> IF orders[o].paymentStatus = "PENDING" /\ HoldsCredit(o)
                         THEN orders[o].creditUsed ELSE 0]

ReserveCoversHolds == \A u \in Users : creditReserved[u] >= Total(Due, u)

-----------------------------------------------------------------------------
(* What failures cost.  CreateOrderUseCase reserves before it inserts the  *)
(* row and its catch only rethrows; settling handlers flag the row before  *)
(* they settle and no handler of this schedule repeats the settlement.  A  *)
(* hold is stranded when nobody has settled it and nobody is about to: the *)
(* request failed before the row, or the row says credit_restored and no   *)
(* handler is at its settlement.                                           *)
AboutToSettle(o) ==
    \/ \E d \in Deliveries : webhook[d].pc = "settle" /\ d.order = o
    \/ \E j \in Jobs : job[j][o] = "release"
    \/ \E r \in AdminRequests : admin[r] = "release" /\ r.order = o

Stranded(o) ==
    /\ ledger[o].reserved > 0 /\ Unsettled(o)
    /\ \/ ~Exists(o) /\ At(o, "failed")
       \/ orders[o].creditRestored /\ ~AboutToSettle(o)

StrandedCredit == [o \in Orders |-> IF Stranded(o) THEN ledger[o].reserved ELSE 0]

(* A row paid with credit whose flag failed to be written looks like a     *)
(* hold too, but nothing was reserved for it.                              *)
HeldForPayment == [o \in Orders |-> IF create[o].method = "CREDIT" THEN 0 ELSE Held[o]]

(* Whatever failed, a customer's creditReserved splits into what order     *)
(* rows of the customer still hold and what is stranded; nothing else of   *)
(* it is unaccounted for.                                                  *)
ReserveExplained ==
    \A u \in Users :
        (\A o \in OrdersOf(u) : AtRest(o)) =>
            creditReserved[u] = Total(HeldForPayment, u) + Total(StrandedCredit, u)

(* A hold is stranded only in the step in which a statement fails or the   *)
(* process stops, never by what handlers do to each other; and then for    *)
(* good: no handler gives that credit back.  (PUT /v1/orders/:id/cancel    *)
(* looks at the status alone and would, for a flagged order that is still  *)
(* PENDING; SerialSchedule has no such request where statements fail.)     *)
StrandedOnlyByFailure ==
    [][\A o \in Orders :
          /\ ~Stranded(o) /\ Stranded(o)' => faults' # faults
          /\ Stranded(o) => Stranded(o)']_vars

(* What ReserveExplained needs besides IInv and SerialInv, under every     *)
(* interleaving and failure: a row that is absent shows no credit, and a   *)
(* request that came to its end has left one.                              *)
RequestInv ==
    \A o \in Orders :
        /\ ~Exists(o) => orders[o].creditUsed = 0 /\ ~orders[o].creditRestored
        /\ At(o, "done") => Exists(o)

-----------------------------------------------------------------------------
(* The inductive strengthening of ReserveMatchesRows and of                *)
(* ClosedOrdersHoldNothing: nothing fails, one settling handler an order.  *)

FaultFree == SerialSchedule /\ MaxFaults = 0

(* A checkout leaves nothing half done. *)
CheckoutTidy ==
    \A o \in Orders :
        /\ ~Exists(o) => orders[o].creditUsed = 0 /\ ~orders[o].creditRestored
        /\ ~Exists(o) /\ create[o].pc # "save" => ledger[o].reserved = 0
        /\ Exists(o) /\ create[o].method = "CREDIT" /\ create[o].pc # "mark" =>
              orders[o].creditRestored

(* A hold that is flagged and not settled is about to be.                  *)
FlaggedSettled ==
    \A o \in Orders :
        orders[o].creditRestored /\ ledger[o].reserved > 0 /\ Unsettled(o) => AboutToSettle(o)

FaultFreeInv == CheckoutTidy /\ FlaggedSettled

(* PUT /v1/orders/:id/status with CANCELLED or REJECTED settles nothing    *)
(* (UpdateOrderStatusUseCase), so schedules with it are left out.          *)
ClosingSchedule ==
    /\ FaultFree
    /\ \A r \in AdminRequests :
          r.endpoint = "status" => r.status \notin {"CANCELLED", "REJECTED"}

Closed(s) == s \in {"CANCELLED", "REJECTED"}

AboutToFlag(o) ==
    \/ \E j \in Jobs : job[j][o] = "mark"
    \/ \E r \in AdminRequests : admin[r] = "mark" /\ r.order = o

(* A webhook closes no order that holds credit, and a closed order holds   *)
(* credit only while its job or administrator is about to flag it.         *)
ClosedInv ==
    /\ \A d \in Deliveries :
          webhook[d].pc = "write" /\ Closed(webhook[d].status) => ~HoldsCredit(d.order)
    /\ \A o \in Orders :
          Closed(orders[o].paymentStatus) /\ HoldsCredit(o) => AboutToFlag(o)
=============================================================================
