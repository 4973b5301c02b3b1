--------------------------- MODULE OrderEndpoints ---------------------------
(***************************************************************************)
(* The endpoints of OrdersController that change an existing order:        *)
(*   PUT /v1/orders/:id/cancel-by-client  one database transaction,        *)
(*   PUT /v1/orders/:id/cancel            administrator, five statements,  *)
(*   PUT /v1/orders/:id/status            administrator.                   *)
(* The two administrator endpoints share UpdateOrderStatusUseCase.         *)
(***************************************************************************)
EXTENDS UserCredit, OrderTable

CONSTANTS
    AdminRequests,   \* records [id, endpoint, order, status]
    ClientCancels    \* orders whose customer may ask for cancellation

AdminRequest == [id : Nat, endpoint : {"cancel", "status"}, order : Orders,
                 status : OrderStatus]

ASSUME AdminAssumption ==
    /\ AdminRequests \subseteq AdminRequest
    /\ \A r \in AdminRequests : r.endpoint = "cancel" => r.status = "CANCELLED"
    /\ ClientCancels \subseteq Orders

VARIABLE admin   \* where the handler of each administrator request is

AdminPc == {"idle", "validate", "write", "mark", "release", "done"}

AdminTypeOK == admin \in [AdminRequests -> AdminPc]

AdminInit == admin = [r \in AdminRequests |-> "idle"]

Go(r, pc) == admin' = [admin EXCEPT ![r] = pc]

-----------------------------------------------------------------------------
(* A plausible bug: an order that is already APPROVED may be cancelled too. *)
ClientCancelAnyStatus(o) ==
    /\ o \in ClientCancels
    /\ orders[o].paymentStatus \in {"PENDING", "APPROVED"}
    /\ orders' = [orders EXCEPT ![o].paymentStatus = "CANCELLED",
                                ![o].creditRestored = TRUE]
    /\ IF HoldsCredit(o) THEN RefundHold(o, orders[o].creditUsed)
                         ELSE UNCHANGED creditVars
    /\ UNCHANGED <<cart, admin>>

(* cancelOrderAtomically: SELECT ... FOR UPDATE, the status update with    *)
(* credit_restored, and the refund, in one transaction.  A request for an  *)
(* order that is not PENDING rolls back and changes nothing.               *)
ClientCancel(o) ==
    /\ o \in ClientCancels
    /\ orders[o].paymentStatus = "PENDING"
    /\ orders' = [orders EXCEPT ![o].paymentStatus = "CANCELLED",
                                ![o].creditRestored = TRUE]
    /\ IF HoldsCredit(o) THEN RefundHold(o, orders[o].creditUsed)
                         ELSE UNCHANGED creditVars
    /\ UNCHANGED <<cart, admin>>

(* cancelPendingOrder reads the order and refuses one that is not PENDING; *)
(* creditUsed is kept from this read, creditRestored is not even looked at. *)
AdminCancelRead(r) ==
    /\ admin[r] = "idle"
    /\ r.endpoint = "cancel" /\ Exists(r.order)
    /\ Go(r, IF orders[r.order].paymentStatus = "PENDING" THEN "validate" ELSE "done")
    /\ UNCHANGED <<creditVars, orderVars>>

AdminStatusRequest(r) ==
    /\ admin[r] = "idle"
    /\ r.endpoint = "status" /\ Exists(r.order)
    /\ Go(r, "validate")
    /\ UNCHANGED <<creditVars, orderVars>>

(* findOrderById and validateStatusTransition *)
AdminValidate(r) ==
    /\ admin[r] = "validate"
    /\ Go(r, IF r.status \in ValidTransitions[orders[r.order].paymentStatus]
             THEN "write" ELSE "done")
    /\ UNCHANGED <<creditVars, orderVars>>

AdminWrite(r) ==
    /\ admin[r] = "write"
    /\ UpdateOrderStatus(r.order, r.status)
    /\ Go(r, IF r.endpoint = "cancel" /\ orders[r.order].creditUsed > 0
             THEN "mark" ELSE "done")
    /\ UNCHANGED <<creditVars, cart>>

(* A plausible bug: the flag is never written. *)
AdminMarkSkipped(r) ==
    /\ admin[r] = "mark"
    /\ Go(r, "release")
    /\ UNCHANGED <<creditVars, orderVars>>

AdminMark(r) ==
    /\ admin[r] = "mark"
    /\ MarkCreditRestored(r.order)
    /\ Go(r, "release")
    /\ UNCHANGED <<creditVars, cart>>

AdminRelease(r) ==
    /\ admin[r] = "release"
    /\ ReleaseReservedCredit(r.order, orders[r.order].creditUsed)
    /\ Go(r, "done")
    /\ UNCHANGED orderVars

(* A statement throws and the request answers an error. *)
AdminFault(r) ==
    /\ admin[r] \notin {"idle", "done"}
    /\ Go(r, "done")
    /\ UNCHANGED <<creditVars, orderVars>>

AdminStep(r) == AdminValidate(r) \/ AdminWrite(r) \/ AdminMark(r) \/ AdminRelease(r)

AdminCrashed ==
    admin' = [r \in AdminRequests |-> IF admin[r] = "idle" THEN "idle" ELSE "done"]
=============================================================================
