----------------------------- MODULE Fulfilment ------------------------------
(***************************************************************************)
(* UpdateItemFulfillmentStatusUseCase: an administrator moves one item of  *)
(* a paid order to its next step.  The order is read and the transition    *)
(* validated; the write goes by item id alone.                             *)
(***************************************************************************)
EXTENDS OrderLines

CONSTANT Admins   \* administrators, each handling one request at a time

VARIABLES
    edit,      \* the handler's local state
    overtaken, \* history: administrators whose item was written since they read it
    reached,   \* history: <<order, item index, status>> an item has had
    paid       \* history: orders whose status has been APPROVED or COMPLETED

fulfilVars == <<edit, overtaken, reached, paid>>

FulfillmentStatus == {"ORDER_RECEIVED", "PHOTOS_SEPARATED", "PRODUCT_MANUFACTURED",
                      "IN_TRANSIT", "DELIVERED", "SENT"}

ManufacturedSteps == <<"ORDER_RECEIVED", "PHOTOS_SEPARATED", "PRODUCT_MANUFACTURED",
                       "IN_TRANSIT", "DELIVERED">>

(* The steps the customer is shown for each product type.                  *)
FULFILLMENT_STEPS ==
    [ALBUM |-> ManufacturedSteps, GENERIC |-> ManufacturedSteps,
     DIGITAL_FILES |-> <<"ORDER_RECEIVED", "PHOTOS_SEPARATED", "SENT">>]

ManufacturedTransitions ==
    [s \in FulfillmentStatus |->
        CASE s = "ORDER_RECEIVED" -> {"PHOTOS_SEPARATED"}
          [] s = "PHOTOS_SEPARATED" -> {"PRODUCT_MANUFACTURED"}
          [] s = "PRODUCT_MANUFACTURED" -> {"IN_TRANSIT"}
          [] s = "IN_TRANSIT" -> {"DELIVERED"}
          [] OTHER -> {}]

DigitalTransitions ==
    [s \in FulfillmentStatus |->
        CASE s = "ORDER_RECEIVED" -> {"PHOTOS_SEPARATED"}
          [] s = "PHOTOS_SEPARATED" -> {"SENT"}
          [] OTHER -> {}]

FULFILLMENT_TRANSITIONS ==
    [ALBUM |-> ManufacturedTransitions, GENERIC |-> ManufacturedTransitions,
     DIGITAL_FILES |-> DigitalTransitions]

NoEdit == [order |-> Null, item |-> 0, target |-> Null]

FulfilInit ==
    /\ edit = [a \in Admins |-> NoEdit]
    /\ overtaken = {}
    /\ reached = {}
    /\ paid = {}

-----------------------------------------------------------------------------
Paid(status) == status \in {"APPROVED", "COMPLETED"}

(* A plausible bug: the payment status is not looked at.                   *)
FulfilReadUnpaid(a) ==
    /\ edit[a] = NoEdit
    /\ \E r \in Requests : \E i \in DOMAIN lines[r] :
          \E target \in FULFILLMENT_TRANSITIONS[lines[r][i].productType][lines[r][i].fulfillmentStatus] :
                edit' = [edit EXCEPT ![a] = [order |-> r, item |-> i, target |-> target]]
    /\ overtaken' = overtaken \ {a}
    /\ UNCHANGED <<lineVars, reached, paid>>

(* A plausible bug: the transition is looked up for any product type.      *)
FulfilReadUntyped(a) ==
    /\ edit[a] = NoEdit
    /\ \E r \in Requests : \E i \in DOMAIN lines[r] :
          /\ Saved(r) /\ Paid(orders[r].paymentStatus)
          /\ \E target \in FULFILLMENT_TRANSITIONS["ALBUM"][lines[r][i].fulfillmentStatus] :
                edit' = [edit EXCEPT ![a] = [order |-> r, item |-> i, target |-> target]]
    /\ overtaken' = overtaken \ {a}
    /\ UNCHANGED <<lineVars, reached, paid>>

(* A plausible bug: any status of the product type is accepted.            *)
FulfilReadAnyStep(a) ==
    /\ edit[a] = NoEdit
    /\ \E r \in Requests : \E i \in DOMAIN lines[r] :
          /\ Saved(r) /\ Paid(orders[r].paymentStatus)
          /\ \E target \in DOMAIN FULFILLMENT_TRANSITIONS[lines[r][i].productType] :
                edit' = [edit EXCEPT ![a] = [order |-> r, item |-> i, target |-> target]]
    /\ overtaken' = overtaken \ {a}
    /\ UNCHANGED <<lineVars, reached, paid>>

(* findOrderById, the payment status and validateTransition.  A request    *)
(* that is refused changes nothing.                                        *)
FulfilRead(a) ==
    /\ edit[a] = NoEdit
    /\ \E r \in Requests : \E i \in DOMAIN lines[r] :
          /\ Saved(r) /\ Paid(orders[r].paymentStatus)
          /\ \E target \in FULFILLMENT_TRANSITIONS[lines[r][i].productType][lines[r][i].fulfillmentStatus] :
                edit' = [edit EXCEPT ![a] = [order |-> r, item |-> i, target |-> target]]
    /\ overtaken' = overtaken \ {a}
    /\ UNCHANGED <<lineVars, reached, paid>>

Others(a) == {b \in Admins \ {a} : edit[b].order = edit[a].order /\ edit[b].item = edit[a].item}

FulfilWrite(a) ==
    /\ edit[a] # NoEdit
    /\ LET r == edit[a].order  i == edit[a].item IN
       /\ lines' = [lines EXCEPT ![r][i].fulfillmentStatus = edit[a].target]
       /\ reached' = reached \cup {<<r, i, edit[a].target>>}
    /\ edit' = [edit EXCEPT ![a] = NoEdit]
    /\ overtaken' = (overtaken \ {a}) \cup Others(a)
    /\ UNCHANGED <<catalogue, address, orders, request, preference, stale, paid>>

(* The write fails: the request ends.                                      *)
FulfilFail(a) ==
    /\ edit[a] # NoEdit
    /\ edit' = [edit EXCEPT ![a] = NoEdit]
    /\ overtaken' = overtaken \ {a}
    /\ UNCHANGED <<lineVars, reached, paid>>

FulfilNext == \E a \in Admins : FulfilRead(a) \/ FulfilWrite(a) \/ FulfilFail(a)
=============================================================================
