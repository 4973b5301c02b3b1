------------------------------ MODULE OrderDesk ------------------------------
(***************************************************************************)
(* Orders from the cart to the doorstep: checkouts that price and save     *)
(* their lines while the catalogue is revised, payments that move, and     *)
(* administrators who work the saved items off.                            *)
(***************************************************************************)
EXTENDS Fulfilment

vars == <<lineVars, fulfilVars>>

Init == LinesInit /\ FulfilInit

Next ==
    \/ /\ LinesNext
       /\ paid' = paid \cup {r \in Requests : orders'[r] # Null /\ Paid(orders'[r].paymentStatus)}
       /\ reached' = reached \cup
             {<<r, Len(lines'[r]), "ORDER_RECEIVED">> : r \in {q \in Requests : Len(lines'[q]) > Len(lines[q])}}
       /\ UNCHANGED <<edit, overtaken>>
    \/ FulfilNext

Spec == Init /\ [][Next]_vars

-----------------------------------------------------------------------------
Details == UNION {DetailRows(l.selection) : l \in Lines}

ItemRow ==
    [productId : {l.productId : l \in Lines}, productType : Flags,
     itemPrice : Nat, quantity : Nat \ {0}, fulfillmentStatus : FulfillmentStatus,
     details : SUBSET Details]

RequestState ==
    [pc : {"idle", "pricing", "moving", "ordering", "saving", "answered", "refused", "failed"},
     cart : Carts \cup {<< >>}, shipping : Addresses \cup {Null}, line : Nat \ {0},
     details : SUBSET Details]

EditState == {NoEdit} \cup [order : Requests, item : Nat \ {0}, target : FulfillmentStatus]

OrderRow ==
    [paymentStatus : OrderStatus, totalAmount : Nat, creditUsed : Nat,
     shippingAddress : Addresses \cup {Null}]

PreferenceItem == [quantity : Nat \ {0}, unitPrice : Nat]

LinesTypeOK ==
    /\ lines \in [Requests -> Seq(ItemRow)]
    /\ request \in [Requests -> RequestState]
    /\ edit \in [Admins -> EditState]
    /\ paid \subseteq Requests

TypeOK ==
    /\ LinesTypeOK
    /\ catalogue \in Catalogues
    /\ address \in Addresses \cup {Null}
    /\ orders \in [Requests -> {Null} \cup OrderRow]
    /\ preference \in [Requests -> Seq(PreferenceItem)]

(* An order is saved with every line within two cents of what the product  *)
(* costs at that moment, except for products revised since the line was    *)
(* priced.                                                                 *)
SoldAtCurrentPrice ==
    [][\A r \in Requests : ~Saved(r) /\ Saved(r)' =>
          \A i \in DOMAIN request[r].cart \ stale[r] :
             LET line == request[r].cart[i] IN
             /\ line.productId \in DOMAIN catalogue
             /\ LET off == ExpectedPrice(catalogue[line.productId], line.selection) * line.quantity
                           - line.totalPrice * line.quantity
                IN  off <= 2 /\ off >= -2]_vars

(* A request that is answered has all its lines and details saved and they *)
(* add up to the order's total; one that fails leaves whole lines, in the  *)
(* order of the cart, except for the last.                                 *)
AnsweredOrderComplete ==
    \A r \in Requests :
       LET cart == request[r].cart  rows == lines[r] IN
       /\ \A i \in DOMAIN rows :
             /\ rows[i].productId = cart[i].productId
             /\ i < Len(rows) \/ At(r, "answered") => rows[i].details = DetailRows(cart[i].selection)
       /\ At(r, "answered") =>
             /\ Len(rows) = Len(cart)
             /\ orders[r].totalAmount = SumFunction([i \in DOMAIN rows |-> rows[i].itemPrice * rows[i].quantity])

(* The items of a payment preference add up to what the credit leaves to   *)
(* pay (both sides times the order's total).                               *)
ChargedWhatCreditLeaves ==
    \A r \in Requests :
       LET charge == preference[r] IN
       charge # << >> =>
          SumFunction([i \in DOMAIN charge |-> charge[i].unitPrice * charge[i].quantity])
             = (orders[r].totalAmount - orders[r].creditUsed) * orders[r].totalAmount

(* Whatever two administrators do at once, an item has had every step      *)
(* before the ones it has had, in the order listed for its product type,   *)
(* and no step of another type.                                            *)
Had(r, i) == {s \in FulfillmentStatus : <<r, i, s>> \in reached}

AlongSteps(had, steps) ==
    /\ \A s \in had : \E k \in 1 .. Len(steps) : s = steps[k]
    /\ \A k \in 2 .. Len(steps) : steps[k] \in had => steps[k - 1] \in had

StepsInOrder ==
    \A r \in Requests : \A i \in DOMAIN lines[r] :
       AlongSteps(Had(r, i), FULFILLMENT_STEPS[lines[r][i].productType])

(* An item moves only along its steps, unless the administrator who moves  *)
(* it was overtaken by another after reading it.                           *)
BackOnlyWhenRaced ==
    [][\A r \in Requests : \A i \in DOMAIN lines[r] :
          LET was == lines[r][i]
              now == lines'[r][i].fulfillmentStatus
          IN  now \notin {was.fulfillmentStatus}
                        \cup FULFILLMENT_TRANSITIONS[was.productType][was.fulfillmentStatus] =>
                 \E a \in overtaken : edit[a] = [order |-> r, item |-> i, target |-> now]]_vars

(* What the properties of the items rest on: which statuses an item has    *)
(* had, and what a request in progress has read.                           *)
ReachedOK ==
    /\ \A e \in reached : e[1] \in Requests /\ e[2] \in DOMAIN lines[e[1]] /\ e[3] \in FulfillmentStatus
    /\ \A r \in Requests : \A i \in DOMAIN lines[r] : <<r, i, lines[r][i].fulfillmentStatus>> \in reached

Begun(a, r, i, target) ==
    /\ r \in paid /\ i \in DOMAIN lines[r]
    /\ \E s \in FulfillmentStatus :
          /\ <<r, i, s>> \in reached
          /\ target \in FULFILLMENT_TRANSITIONS[lines[r][i].productType][s]
          /\ a \notin overtaken => s = lines[r][i].fulfillmentStatus

EditOK ==
    \A a \in Admins : edit[a] # NoEdit => Begun(a, edit[a].order, edit[a].item, edit[a].target)

(* Nothing is worked off for an order that was never paid.                 *)
AdvancedOnlyIfPaid ==
    \A r \in Requests : \A i \in DOMAIN lines[r] :
       lines[r][i].fulfillmentStatus # "ORDER_RECEIVED" => r \in paid

PaidKnown == \A r \in Requests : Saved(r) /\ Paid(orders[r].paymentStatus) => r \in paid

(* The inductive invariant of the items.                                   *)
FulfilInv == LinesTypeOK /\ ReachedOK /\ EditOK /\ PaidKnown /\ StepsInOrder /\ AdvancedOnlyIfPaid

(* What the properties of the orders rest on: the saved lines are those of *)
(* the cart, whole but for the one whose details are being saved ...       *)
Complete(r, i) == lines[r][i].details = DetailRows(request[r].cart[i].selection)

RowsOfCart(r) ==
    LET cart == request[r].cart  rows == lines[r] IN
    /\ Len(rows) <= Len(cart)
    /\ \A i \in DOMAIN rows :
          /\ rows[i].productId = cart[i].productId
          /\ rows[i].itemPrice = cart[i].totalPrice /\ rows[i].quantity = cart[i].quantity
          /\ i < Len(rows) => Complete(r, i)

SavedSoFar(r) ==
    LET cart == request[r].cart  rows == lines[r]  k == request[r].line IN
    /\ request[r].pc \in {"idle", "pricing", "moving", "ordering", "refused"} => ~Saved(r) /\ rows = << >>
    /\ request[r].pc \in {"saving", "answered"} =>
          /\ orders[r] \in OrderRow
          /\ orders[r].totalAmount = TotalAmount(cart) /\ orders[r].creditUsed <= orders[r].totalAmount
    /\ At(r, "saving") =>
          \/ Len(rows) = k - 1 /\ (rows # << >> => Complete(r, Len(rows)))
          \/ Len(rows) = k /\ rows[k].details \cup request[r].details = DetailRows(cart[k].selection)
    /\ At(r, "answered") => Len(rows) = Len(cart) /\ (rows # << >> => Complete(r, Len(rows)))
    /\ preference[r] # << >> => At(r, "answered")

(* ... and every line gone through was accepted at the price its product   *)
(* still has, unless that was revised.                                     *)
PricedSoFar(r) ==
    request[r].pc \in {"pricing", "moving", "ordering"} =>
       LET cart == request[r].cart IN
       /\ At(r, "pricing") \/ ~LinesLeft(r)
       /\ \A i \in (1 .. request[r].line - 1) \ stale[r] :
             /\ i \in DOMAIN cart /\ cart[i].productId \in DOMAIN catalogue
             /\ PriceAccepted(catalogue[cart[i].productId], cart[i])

(* The inductive invariant of the orders.                                  *)
OrdersInv ==
    /\ TypeOK /\ ChargedWhatCreditLeaves
    /\ \A r \in Requests : RowsOfCart(r) /\ SavedSoFar(r) /\ PricedSoFar(r)
=============================================================================
