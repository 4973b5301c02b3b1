---------------------------- MODULE ProcessWebhook ----------------------------
(***************************************************************************)
(* POST /v1/mercado-pago/webhook: ProcessWebhookUseCase.execute, with the  *)
(* payment provider it calls.  The provider delivers a notification any    *)
(* number of times, concurrently and out of order: every element of        *)
(* Deliveries is one delivery, handled once.                               *)
(***************************************************************************)
EXTENDS UserCredit, OrderTable

CONSTANTS
    MaxAttempts,       \* bound: payments a customer may make for one order
    ProviderStatuses,  \* provider statuses that occur in this instance
    Notifications,     \* notification ids
    Deliveries         \* records [id, note, type, order, attempt]

ASSUME AttemptAssumption == MaxAttempts \in Nat \ {0}

Attempts == Orders \X (1..MaxAttempts)

Delivery == [id : Nat, note : Notifications, type : {"payment", "merchant_order"},
             order : Orders, attempt : 1..MaxAttempts]

\* A redelivery repeats the notification, so it is about the same payment.
ASSUME DeliveryAssumption ==
    /\ Deliveries \subseteq Delivery
    /\ \A d, e \in Deliveries : d.note = e.note => d.order = e.order

PaymentStatus == {"pending", "in_process", "in_mediation", "approved", "authorized",
                  "rejected", "cancelled", "refunded", "charged_back"}

ASSUME ProviderAssumption == ProviderStatuses \subseteq PaymentStatus

VARIABLES
    payments,       \* status of each payment at the provider, none if not made
    notifications,  \* status column of each notification row, absent if no row
    webhook         \* local state of each delivery's handler

webhookVars == <<notifications, webhook>>

WebhookPc == {"idle", "savePending", "fetch", "saveProcessed", "read", "mark",
              "settle", "write", "clearCart", "done"}

WebhookTypeOK ==
    /\ payments \in [Attempts -> PaymentStatus \cup {"none"}]
    /\ notifications \in [Notifications -> {"absent", "pending", "processed", "failed"}]
    /\ webhook \in [Deliveries -> [pc : WebhookPc, status : OrderStatus \cup {"NULL"}]]

WebhookInit ==
    /\ payments = [p \in Attempts |-> "none"]
    /\ notifications = [n \in Notifications |-> "absent"]
    /\ webhook = [d \in Deliveries |-> [pc |-> "idle", status |-> "NULL"]]

-----------------------------------------------------------------------------
(* The provider: how the status of one payment may develop. *)
ProviderNext(s) ==
    CASE s = "none" -> {"pending", "in_process", "authorized", "approved", "rejected"}
      [] s \in {"pending", "in_process"} -> {"approved", "authorized", "rejected", "cancelled"}
      [] s = "authorized" -> {"approved", "cancelled"}
      [] s = "approved" -> {"in_mediation", "refunded", "charged_back"}
      [] s = "in_mediation" -> {"approved", "refunded", "charged_back"}
      [] OTHER -> {}

(* A customer with a checkout URL pays, tries again after a payment that   *)
(* came to nothing, or the provider moves a payment on.                    *)
ProviderStep(p) ==
    /\ orders[p[1]].payable
    /\ p[2] > 1 => payments[<<p[1], p[2] - 1>>] \in {"rejected", "cancelled"}
    /\ \E s \in ProviderNext(payments[p]) \cap ProviderStatuses :
         payments' = [payments EXCEPT ![p] = s]
    /\ UNCHANGED <<creditVars, orderVars, webhookVars>>

-----------------------------------------------------------------------------
(* mapPaymentStatusToOrderStatus *)
MapPaymentStatusToOrderStatus(s) ==
    CASE s \in {"approved", "authorized"} -> "APPROVED"
      [] s \in {"pending", "in_process", "in_mediation"} -> "PENDING"
      [] s = "rejected" -> "REJECTED"
      [] s \in {"cancelled", "refunded", "charged_back"} -> "CANCELLED"
      [] OTHER -> "NULL"

(* A payment notification names its payment; a merchant-order notification *)
(* is answered with the order's payments, of which only [0] is looked at.  *)
SubjectOf(d) == <<d.order, IF d.type = "merchant_order" THEN 1 ELSE d.attempt>>

Deliverable(d) ==
    IF d.type = "merchant_order" THEN orders[d.order].payable
    ELSE payments[SubjectOf(d)] # "none"

Resume(d, pc) == webhook' = [webhook EXCEPT ![d].pc = pc]

(* A plausible bug: no look at an earlier processing. *)
WebhookFindAlways(d) ==
    /\ webhook[d].pc = "idle"
    /\ Deliverable(d)
    /\ Resume(d, "savePending")
    /\ UNCHANGED <<creditVars, orderVars, payments, notifications>>

(* findNotificationById: a notification already processed is not repeated. *)
WebhookFind(d) ==
    /\ webhook[d].pc = "idle"
    /\ Deliverable(d)
    /\ Resume(d, IF notifications[d.note] = "processed" THEN "done" ELSE "savePending")
    /\ UNCHANGED <<creditVars, orderVars, payments, notifications>>

WebhookSavePending(d) ==
    /\ webhook[d].pc = "savePending"
    /\ notifications' = [notifications EXCEPT ![d.note] = "pending"]
    /\ Resume(d, "fetch")
    /\ UNCHANGED <<creditVars, orderVars, payments>>

(* getPaymentDetails / getMerchantOrderDetails: the provider's answer now. *)
WebhookFetch(d) ==
    /\ webhook[d].pc = "fetch"
    /\ webhook' = [webhook EXCEPT ![d] =
                     [pc |-> "saveProcessed",
                      status |-> MapPaymentStatusToOrderStatus(payments[SubjectOf(d)])]]
    /\ UNCHANGED <<creditVars, orderVars, payments, notifications>>

(* The notification is marked processed BEFORE the order is touched. *)
WebhookSaveProcessed(d) ==
    /\ webhook[d].pc = "saveProcessed"
    /\ notifications' = [notifications EXCEPT ![d.note] = "processed"]
    /\ Resume(d, IF webhook[d].status = "NULL" THEN "done" ELSE "read")
    /\ UNCHANGED <<creditVars, orderVars, payments>>

(* updateOrderStatus reads the row; creditUsed and userId never change, so *)
(* the creditRestored it saw is kept as the branch it takes.               *)
WebhookRead(d) ==
    /\ webhook[d].pc = "read"
    /\ Resume(d, CASE ~Exists(d.order) -> "done"
                   [] HoldsCredit(d.order) /\ webhook[d].status # "PENDING" -> "mark"
                   [] OTHER -> "write")
    /\ UNCHANGED <<creditVars, orderVars, payments, notifications>>

(* A plausible bug: the flag is never written. *)
WebhookMarkSkipped(d) ==
    /\ webhook[d].pc = "mark"
    /\ Resume(d, "settle")
    /\ UNCHANGED <<creditVars, orderVars, payments, notifications>>

WebhookMark(d) ==
    /\ webhook[d].pc = "mark"
    /\ MarkCreditRestored(d.order)
    /\ Resume(d, "settle")
    /\ UNCHANGED <<creditVars, cart, payments, notifications>>

WebhookSettle(d) ==
    LET credit == orders[d.order].creditUsed IN
    /\ webhook[d].pc = "settle"
    /\ IF webhook[d].status = "APPROVED" THEN ConsumeReservedCredit(d.order, credit)
                                         ELSE ReleaseReservedCredit(d.order, credit)
    /\ Resume(d, "write")
    /\ UNCHANGED <<orderVars, payments, notifications>>

(* A plausible bug: the cart is cleared after any outcome. *)
WebhookWriteThenAlwaysClear(d) ==
    /\ webhook[d].pc = "write"
    /\ UpdateOrderStatus(d.order, webhook[d].status)
    /\ Resume(d, "clearCart")
    /\ UNCHANGED <<creditVars, cart, payments, notifications>>

(* Written whatever the order has become since it was read. *)
WebhookWrite(d) ==
    /\ webhook[d].pc = "write"
    /\ UpdateOrderStatus(d.order, webhook[d].status)
    /\ Resume(d, IF webhook[d].status = "APPROVED" THEN "clearCart" ELSE "done")
    /\ UNCHANGED <<creditVars, cart, payments, notifications>>

WebhookClearCart(d) ==
    /\ webhook[d].pc = "clearCart"
    /\ ClearCart(CustomerOf[d.order])
    /\ Resume(d, "done")
    /\ UNCHANGED <<creditVars, orders, payments, notifications>>

(* An await throws.  Until the notification is processed the outer catch   *)
(* records it failed (a write that may fail too); after that the error is  *)
(* swallowed and the notification stays processed.  The provider is always *)
(* answered 200, so it does not redeliver on its own account.              *)
WebhookFault(d) ==
    /\ webhook[d].pc # "done"
    /\ webhook[d].pc = "idle" => Deliverable(d)
    /\ \/ UNCHANGED notifications
       \/ /\ webhook[d].pc \in {"idle", "savePending", "fetch", "saveProcessed"}
          /\ notifications' = [notifications EXCEPT ![d.note] = "failed"]
    /\ Resume(d, "done")
    /\ UNCHANGED <<creditVars, orderVars, payments>>

WebhookStep(d) ==
    \/ WebhookSavePending(d) \/ WebhookFetch(d) \/ WebhookSaveProcessed(d)
    \/ WebhookRead(d) \/ WebhookMark(d) \/ WebhookSettle(d) \/ WebhookWrite(d)
    \/ WebhookClearCart(d)

WebhookCrashed ==
    webhook' = [d \in Deliveries |->
                  IF webhook[d].pc = "idle" THEN webhook[d]
                  ELSE [webhook[d] EXCEPT !.pc = "done"]]
=============================================================================
