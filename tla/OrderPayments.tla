---------------------------- MODULE OrderPayments ----------------------------
(***************************************************************************)
(* Everything that settles an order and its credit, running together: the  *)
(* checkout requests, the payment webhook, the abandoned-order job, the    *)
(* administrator and client endpoints, the administrator's credit edits    *)
(* and the customer's cart.  The server is one Node.js process: handlers   *)
(* interleave at every await, and a restart loses all of them at once.     *)
(***************************************************************************)
EXTENDS CreateOrder, ProcessWebhook, CancelAbandonedOrders, OrderEndpoints

CONSTANTS
    MaxFaults,   \* bound: failing statements and restarts together
    Overlapping  \* FALSE: at most one settling handler of an order is in flight

ASSUME FaultAssumption == MaxFaults \in Nat /\ Overlapping \in BOOLEAN

VARIABLE faults  \* bounding counter of failures so far

vars == <<creditVars, orderVars, create, payments, webhookVars, job, admin, faults>>

TypeOK ==
    /\ CreditTypeOK
    /\ OrderTypeOK
    /\ CreateTypeOK
    /\ WebhookTypeOK
    /\ JobTypeOK
    /\ AdminTypeOK
    /\ faults \in 0..MaxFaults

Init ==
    /\ CreditInit
    /\ OrderInit
    /\ CreateInit
    /\ WebhookInit
    /\ JobInit
    /\ AdminInit
    /\ faults = 0

-----------------------------------------------------------------------------
(* The handlers that are settling order o, and whether one more may begin. *)
(* The code takes no lock: Overlapping = FALSE is an assumption on the     *)
(* schedule, under which the settlement rules are checked.  Handlers of    *)
(* different orders of a customer overlap in either case.                  *)
WebhookBusy(d) == webhook[d].pc \notin {"idle", "done"}

AdminBusy(r) == admin[r] \notin {"idle", "done"}

InFlightOn(o) ==
    \/ \E d \in Deliveries : d.order = o /\ WebhookBusy(d)
    \/ \E j \in Jobs : job[j][o] # "none"
    \/ \E r \in AdminRequests : r.order = o /\ AdminBusy(r)

MayStart(o) == Overlapping \/ ~InFlightOn(o)

JobMayScan(old) == \A o \in Abandoned(old) : MayStart(o)

Checkout ==
    /\ \E o \in Orders : CreateStep(o)
    /\ UNCHANGED <<payments, webhookVars, job, admin, faults>>

Customer ==
    /\ \/ \E o \in Orders : MayStart(o) /\ ClientCancel(o)
       \/ \E u \in Users : SaveCart(u) /\ UNCHANGED <<creditVars, admin>>
    /\ UNCHANGED <<create, payments, webhookVars, job, faults>>

Provider ==
    /\ \E p \in Attempts : ProviderStep(p)
    /\ UNCHANGED <<create, job, admin, faults>>

Webhook ==
    /\ \E d \in Deliveries : (MayStart(d.order) /\ WebhookFind(d)) \/ WebhookStep(d)
    /\ UNCHANGED <<create, job, admin, faults>>

AbandonedJob ==
    /\ \E j \in Jobs :
         \/ \E old \in SUBSET Orders : JobMayScan(old) /\ JobScan(j, old)
         \/ \E o \in Orders : JobOrderStep(j, o)
    /\ UNCHANGED <<create, payments, webhookVars, admin, faults>>

Administrator ==
    /\ \/ \E r \in AdminRequests :
            \/ MayStart(r.order) /\ (AdminCancelRead(r) \/ AdminStatusRequest(r))
            \/ AdminStep(r)
       \/ \E u \in Users, x \in CreditGrants :
            AdminSetCredit(u, x) /\ UNCHANGED <<orderVars, admin>>
    /\ UNCHANGED <<create, payments, webhookVars, job, faults>>

Fault ==
    /\ faults < MaxFaults
    /\ faults' = faults + 1
    /\ \/ /\ \E o \in Orders : CreateFault(o)
          /\ UNCHANGED <<payments, webhookVars, job, admin>>
       \/ /\ \E d \in Deliveries : WebhookFault(d)
          /\ UNCHANGED <<create, job, admin>>
       \/ /\ \E j \in Jobs, o \in Orders : JobFault(j, o)
          /\ UNCHANGED <<create, payments, webhookVars, admin>>
       \/ /\ \E r \in AdminRequests : AdminFault(r)
          /\ UNCHANGED <<create, payments, webhookVars, job>>

Restart ==
    /\ faults < MaxFaults
    /\ faults' = faults + 1
    /\ CreateCrashed /\ WebhookCrashed /\ JobCrashed /\ AdminCrashed
    /\ UNCHANGED <<creditVars, orderVars, payments, notifications>>

Next ==
    \/ Checkout \/ Customer \/ Provider \/ Webhook
    \/ AbandonedJob \/ Administrator \/ Fault \/ Restart

Spec == Init /\ [][Next]_vars

(* A handler that has started runs on while the process lives (the event   *)
(* loop resumes every settled await); the cron fires for ever, and sooner  *)
(* or later every order is older than its threshold.  Customers, the       *)
(* provider and administrators promise nothing.                            *)
Fairness ==
    /\ \A o \in Orders :
         WF_vars(/\ ~At(o, "idle") /\ CreateStep(o)
                 /\ UNCHANGED <<payments, webhookVars, job, admin, faults>>)
    /\ \A d \in Deliveries :
         WF_vars(WebhookStep(d) /\ UNCHANGED <<create, job, admin, faults>>)
    /\ \A r \in AdminRequests :
         WF_vars(AdminStep(r) /\ UNCHANGED <<create, payments, webhookVars, job, faults>>)
    /\ \A j \in Jobs :
         WF_vars(/\ \/ JobMayScan(Orders) /\ JobScan(j, Orders)
                    \/ \E o \in Orders : JobOrderStep(j, o)
                 /\ UNCHANGED <<create, payments, webhookVars, admin, faults>>)

FairSpec == Spec /\ Fairness

-----------------------------------------------------------------------------
(* Safety under every interleaving, fault and restart.                     *)

(* No interleaving of checkouts, settlements and administrator edits lets  *)
(* a user spend credit that is not there, although every checkout decides  *)
(* from a balance it read earlier (deductCreditAtomic, reserveCredit).     *)
NoOverdraft == \A u \in Users : creditValue[u] >= 0

(* The creditUsed an order row shows was really taken from its customer    *)
(* before the row existed, once: a refund later pays back no more than     *)
(* that (CreateOrderUseCase takes the credit, then saves the order).       *)
OrderBacked ==
    \A o \in Orders :
        Exists(o) => orders[o].creditUsed = ledger[o].deducted + ledger[o].reserved

(* Credit moves out of a hold only after the row was flagged               *)
(* credit_restored, so a crash between the two statements can lose a       *)
(* refund but a handler that reads the row afterwards never repeats it.    *)
MarkBeforeSettle ==
    \A o \in Orders :
        ledger[o].consumed + ledger[o].released > 0 => orders[o].creditRestored

(* An order paid entirely with credit is never settled a second time, not  *)
(* even in the window between its insert as APPROVED and the statement     *)
(* that flags it, or after a crash inside that window.                     *)
CreditOrderNeverRefunded ==
    \A o \in Orders :
        ledger[o].deducted > 0 => ledger[o].consumed = 0 /\ ledger[o].released = 0

(* The WHERE guards of release and consume absorb a double settlement as   *)
(* long as the customer has a single hold: creditReserved becomes negative *)
(* only when one order's second settlement ate another order's hold and    *)
(* the unguarded client cancellation then refunds that one.                *)
ReserveOverdrawnOnlyAcrossHolds ==
    \A u \in Users :
        creditReserved[u] < 0 =>
            \E o1, o2 \in Orders : /\ o1 # o2
                                   /\ CustomerOf[o1] = u /\ ledger[o1].reserved > 0
                                   /\ CustomerOf[o2] = u /\ ledger[o2].reserved > 0

(* A customer who does not empty the cart loses it only to an order that   *)
(* needed no payment or whose payment the provider did approve at some     *)
(* time: a failed, rejected or abandoned checkout keeps it.  (An order     *)
(* authorized and then voided leaves no trace in payments, so instances    *)
(* that check this leave authorized out of ProviderStatuses.)              *)
EverApproved(o) ==
    \/ Exists(o) /\ create[o].method # "MERCADO_PAGO"
    \/ \E i \in 1..MaxAttempts :
          payments[<<o, i>>] \in {"approved", "in_mediation", "refunded", "charged_back"}

CartKeptUntilPaid ==
    \A u \in Users :
        ~cart[u] => \E o \in Orders : CustomerOf[o] = u /\ EverApproved(o)

-----------------------------------------------------------------------------
(* Settlement, when settling handlers of one order do not overlap.         *)

(* Each hold is consumed or released at most once, whichever of webhook,   *)
(* job, client and administrator gets to it.                               *)
SettledOnce ==
    \A o \in Orders : ledger[o].consumed + ledger[o].released <= ledger[o].reserved

(* Once its handlers are through, an order that ended CANCELLED or         *)
(* REJECTED has given its whole hold up, whatever is going on with other   *)
(* orders: nothing stays blocked in creditReserved.                        *)
ClosedOrdersHoldNothing ==
    \A o \in Orders :
        ~InFlightOn(o) /\ orders[o].paymentStatus \in {"CANCELLED", "REJECTED"} =>
            ledger[o].consumed + ledger[o].released = ledger[o].reserved

(* A notification delivered twice is processed once.                       *)
DuplicatesIgnored ==
    \A d1, d2 \in Deliveries :
        d1.note = d2.note /\ d1 # d2 =>
            webhook[d1].status = "NULL" \/ webhook[d2].status = "NULL"

-----------------------------------------------------------------------------
(* Liveness.                                                               *)

(* The credit a PENDING order holds is settled in the end: by whoever gets *)
(* to it, at last by the job, which cancels the order and releases it.     *)
(* True while a customer has one hold; with two, see ReserveOverdrawn-     *)
(* OnlyAcrossHolds: the second settlement of one order may use the other's *)
(* reserve up, and the job's release of that one is a silent no-op.        *)
HeldCreditEventuallySettled ==
    \A o \in Orders :
        (orders[o].paymentStatus = "PENDING" /\ HoldsCredit(o)) ~>
            (ledger[o].consumed + ledger[o].released >= ledger[o].reserved)

-----------------------------------------------------------------------------
(* A webhook answered "processed successfully" has been applied: an order  *)
(* whose payment was seen approved does not rest PENDING.                  *)
ProcessedMeansApplied ==
    \A d \in Deliveries :
        /\ ~InFlightOn(d.order)
        /\ notifications[d.note] = "processed"
        /\ webhook[d].status = "APPROVED"
        => orders[d.order].paymentStatus # "PENDING"
=============================================================================
