---------------------------- MODULE OrderAccount ----------------------------
(***************************************************************************)
(* OrderPayments seen as the abstract credit account of CreditHolds, and   *)
(* what the settling handlers know of an order while no other handles it.  *)
(***************************************************************************)
EXTENDS OrderInvariant

(* The life of an order's credit, read off the ledger. *)
Phase(o) ==
    IF ledger[o].deducted > 0 THEN "spent"
    ELSE IF ledger[o].reserved = 0 THEN "none"
    ELSE IF ledger[o].consumed > 0 THEN "consumed"
    ELSE IF ledger[o].released > 0 THEN "released"
    ELSE "held"

phases == [o \in Orders |-> Phase(o)]

amounts == [o \in Orders |-> ledger[o].deducted + ledger[o].reserved]

Account == INSTANCE CreditHolds WITH
    available <- creditValue, held <- creditReserved, phase <- phases, amount <- amounts

(* The handlers together implement the abstract account: every hold is     *)
(* settled once, one way, for its own amount.  (Handlers of one order that *)
(* overlap, and PUT /v1/orders/:id/cancel of an order that was settled and *)
(* is PENDING all the same, break this.)                                   *)
AccountRefined == Account!Spec

-----------------------------------------------------------------------------
(* The schedules and requests for which the account is implemented: one    *)
(* settling handler of an order at a time, those of different orders       *)
(* interleaving freely on the customer's balance; and if administrators    *)
(* cancel (the endpoint looks at the status alone), no order is PENDING    *)
(* after it was settled, neither for a failure between the two statements  *)
(* nor for a payment that is pending again.                                *)
Undecided == {"pending", "in_process", "in_mediation"}

CancelsSafely == MaxFaults = 0 /\ ProviderStatuses \cap Undecided = {}

SerialSchedule ==
    /\ ~Overlapping
    /\ CancelsSafely \/ \A r \in AdminRequests : r.endpoint = "status"

-----------------------------------------------------------------------------
(* The inductive strengthening of SettledOnce for such schedules.          *)

OneInFlight ==
    /\ \A d1, d2 \in Deliveries :
          WebhookBusy(d1) /\ WebhookBusy(d2) /\ d1.order = d2.order => d1 = d2
    /\ \A j1, j2 \in Jobs, o \in Orders :
          job[j1][o] # "none" /\ job[j2][o] # "none" => j1 = j2
    /\ \A r1, r2 \in AdminRequests :
          AdminBusy(r1) /\ AdminBusy(r2) /\ r1.order = r2.order => r1 = r2
    /\ \A d \in Deliveries, j \in Jobs : WebhookBusy(d) => job[j][d.order] = "none"
    /\ \A d \in Deliveries, r \in AdminRequests :
          d.order = r.order => ~(WebhookBusy(d) /\ AdminBusy(r))
    /\ \A j \in Jobs, r \in AdminRequests : AdminBusy(r) => job[j][r.order] = "none"

Unsettled(o) == ledger[o].consumed = 0 /\ ledger[o].released = 0

(* How a request takes credit: some of it, all at once, in one way. *)
TakingInv ==
    \A o \in Orders :
        /\ create[o].pc \in {"deduct", "reserve"} => create[o].used > 0
        /\ create[o].pc = "reserve" => create[o].method = "MERCADO_PAGO"
        /\ create[o].pc = "mark" => create[o].method = "CREDIT"
        /\ ledger[o].reserved > 0 => create[o].method = "MERCADO_PAGO"

(* A hold is settled whole and one way, or not at all. *)
SettledWhole ==
    \A o \in Orders :
        \/ Unsettled(o)
        \/ ledger[o].consumed = ledger[o].reserved /\ ledger[o].released = 0
        \/ ledger[o].released = ledger[o].reserved /\ ledger[o].consumed = 0

(* A handler about to settle a hold is about to settle one that nobody has *)
(* settled.                                                                *)
WebhookDue ==
    \A d \in Deliveries :
        /\ webhook[d].pc = "mark" => HoldsCredit(d.order)
        /\ webhook[d].pc = "settle" => orders[d.order].creditUsed > 0 /\ Unsettled(d.order)

JobDue ==
    \A j \in Jobs, o \in Orders :
        /\ job[j][o] \in {"listed", "mark"} => HoldsCredit(o)
        /\ job[j][o] = "release" => orders[o].creditUsed > 0 /\ Unsettled(o)
        /\ job[j][o] \in {"mark", "release"} => orders[o].paymentStatus # "PENDING"

AdminDue ==
    \A r \in AdminRequests :
        /\ r.endpoint = "cancel" /\ AdminBusy(r) => Unsettled(r.order)
        /\ admin[r] \in {"mark", "release"} =>
              orders[r.order].creditUsed > 0 /\ orders[r.order].paymentStatus # "PENDING"

(* Where administrators may cancel, an order that waits for a payment has  *)
(* not been settled, but by a webhook that is about to write its status.   *)
PendingInv ==
    CancelsSafely =>
        /\ \A p \in Attempts : payments[p] \notin Undecided
        /\ \A d \in Deliveries : webhook[d].status # "PENDING"
        /\ \A o \in Orders :
              orders[o].paymentStatus = "PENDING" =>
                  \/ Unsettled(o)
                  \/ \E d \in Deliveries : webhook[d].pc = "write" /\ d.order = o

SerialInv ==
    /\ OneInFlight /\ TakingInv /\ SettledWhole
    /\ WebhookDue /\ JobDue /\ AdminDue /\ PendingInv
=============================================================================
