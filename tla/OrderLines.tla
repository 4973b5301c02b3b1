----------------------------- MODULE OrderLines ------------------------------
(***************************************************************************)
(* What CreateOrderUseCase does besides moving credit (CreateOrder): it    *)
(* prices the cart line by line against the institution's products, saves  *)
(* the shipping address, then the order row, its items and their details,  *)
(* one statement each and in no transaction, and asks for a payment        *)
(* preference.  Meanwhile an administrator revises the products.           *)
(***************************************************************************)
EXTENDS CartPricing, Sequences

CONSTANTS
    Requests,    \* checkout requests; order r is the one request r saves
    Lines,       \* the cart lines the storefront offers
    Carts,       \* the carts a request may carry: sequences of lines
    Catalogues,  \* the states of the institution's products: [product -> configuration]
    Addresses,   \* shipping addresses
    Credits      \* the credit a customer may have at checkout

ASSUME LineAssumption ==
    /\ Carts \subseteq Seq(Lines)
    /\ \A l \in Lines : l.productType \in Flags /\ l.totalPrice \in Nat /\ l.quantity \in Nat \ {0}

ASSUME CreditAssumption == Credits \subseteq Int

ASSUME NullAssumption == Null \notin Requests /\ Null \notin Addresses

VARIABLES
    catalogue,   \* institution_products of the customer's institution
    address,     \* the address columns of the customer's row
    orders,      \* orders rows, or Null
    lines,       \* order_items rows of each order, each with its order_item_details
    request,     \* the handlers' local state
    preference,  \* the items of the payment preference asked for, or none
    stale        \* history: lines whose product was revised after they were priced

lineVars == <<catalogue, address, orders, lines, request, preference, stale>>

OrderStatus == {"PENDING", "APPROVED", "REJECTED", "CANCELLED", "COMPLETED"}
Saved(r) == orders[r] # Null
Idle == [pc |-> "idle", cart |-> << >>, shipping |-> Null, line |-> 1, details |-> {}]

LinesInit ==
    /\ catalogue \in Catalogues
    /\ address = Null
    /\ orders = [r \in Requests |-> Null]
    /\ lines = [r \in Requests |-> << >>]
    /\ request = [r \in Requests |-> Idle]
    /\ preference = [r \in Requests |-> << >>]
    /\ stale = [r \in Requests |-> {}]

-----------------------------------------------------------------------------
At(r, pc) == request[r].pc = pc
Line(r) == request[r].cart[request[r].line]
LinesLeft(r) == request[r].line <= Len(request[r].cart)

(* The request passes the DTO's validators and validateSelectionDetails.   *)
OrderStart(r) ==
    /\ At(r, "idle")
    /\ \E cart \in Carts, shipping \in Addresses \cup {Null} :
          /\ \A i \in DOMAIN cart : ValidSelection(cart[i].selection)
          /\ RequiresShipping(cart) => shipping # Null
          /\ request' = [request EXCEPT ![r] =
                [pc |-> "pricing", cart |-> cart, shipping |-> shipping, line |-> 1, details |-> {}]]
    /\ UNCHANGED <<catalogue, address, orders, lines, preference, stale>>

(* findByProductAndInstitution and calculateExpectedPrice for one line.    *)
OrderPriceLine(r) ==
    /\ At(r, "pricing") /\ LinesLeft(r)
    /\ LET p == Line(r).productId IN
       request' = IF p \in DOMAIN catalogue /\ PriceAccepted(catalogue[p], Line(r))
                  THEN [request EXCEPT ![r].line = @ + 1]
                  ELSE [request EXCEPT ![r].pc = "refused"]
    /\ UNCHANGED <<catalogue, address, orders, lines, preference, stale>>

(* updateUserAddressIfDifferent: read the row ...                          *)
OrderCheckAddress(r) ==
    /\ At(r, "pricing") /\ ~LinesLeft(r)
    /\ request' = [request EXCEPT ![r].pc =
                      IF request[r].shipping \in {Null, address} THEN "ordering" ELSE "moving"]
    /\ UNCHANGED <<catalogue, address, orders, lines, preference, stale>>

(* ... and write it.                                                       *)
OrderWriteAddress(r) ==
    /\ At(r, "moving")
    /\ address' = request[r].shipping
    /\ request' = [request EXCEPT ![r].pc = "ordering"]
    /\ UNCHANGED <<catalogue, orders, lines, preference, stale>>

(* The order row: free or paid with credit, or PENDING with a rest to pay. *)
OrderSaveRow(r) ==
    /\ At(r, "ordering")
    /\ LET total == TotalAmount(request[r].cart) IN
       \E credit \in Credits :
          LET creditUsed == IF credit >= total THEN total ELSE IF credit > 0 THEN credit ELSE 0 IN
          orders' = [orders EXCEPT ![r] =
              [paymentStatus |-> IF creditUsed = total THEN "APPROVED" ELSE "PENDING",
               totalAmount |-> total, creditUsed |-> creditUsed,
               shippingAddress |-> request[r].shipping]]
    /\ request' = [request EXCEPT ![r].pc = "saving", ![r].line = 1]
    /\ UNCHANGED <<catalogue, address, lines, preference, stale>>

Saving(r) == At(r, "saving") /\ LinesLeft(r)

OrderSaveItem(r) ==
    /\ Saving(r) /\ Len(lines[r]) < request[r].line
    /\ LET item == Line(r) IN
       /\ lines' = [lines EXCEPT ![r] = Append(@,
              [productId |-> item.productId, productType |-> item.productType,
               itemPrice |-> item.totalPrice, quantity |-> item.quantity,
               fulfillmentStatus |-> "ORDER_RECEIVED", details |-> {}])]
       /\ request' = [request EXCEPT ![r].details = DetailRows(item.selection)]
    /\ UNCHANGED <<catalogue, address, orders, preference, stale>>

(* A plausible bug: the loop moves on after the first detail.              *)
OrderSaveDetailFirst(r) ==
    /\ Saving(r) /\ Len(lines[r]) = request[r].line
    /\ \E d \in request[r].details :
          /\ lines' = [lines EXCEPT ![r][request[r].line].details = @ \cup {d}]
          /\ request' = [request EXCEPT ![r].details = {}, ![r].line = @ + 1]
    /\ UNCHANGED <<catalogue, address, orders, preference, stale>>

(* One detail of the item just saved; after the last, the next item.       *)
OrderSaveDetail(r) ==
    /\ Saving(r) /\ Len(lines[r]) = request[r].line
    /\ \E d \in request[r].details :
          LET rest == request[r].details \ {d} IN
          /\ lines' = [lines EXCEPT ![r][request[r].line].details = @ \cup {d}]
          /\ request' = [request EXCEPT ![r].details = rest,
                                        ![r].line = IF rest = {} THEN @ + 1 ELSE @]
    /\ UNCHANGED <<catalogue, address, orders, preference, stale>>

(* The preference of what is left to pay; a paid order needs none.         *)
OrderAnswer(r) ==
    /\ At(r, "saving") /\ ~LinesLeft(r)
    /\ LET toPay == orders[r].totalAmount - orders[r].creditUsed IN
       preference' = [preference EXCEPT ![r] =
           IF toPay = 0 THEN << >> ELSE PreferenceItems(lines[r], toPay)]
    /\ request' = [request EXCEPT ![r].pc = "answered"]
    /\ UNCHANGED <<catalogue, address, orders, lines, stale>>

(* A statement fails or the process stops; what was saved stays.           *)
OrderFail(r) ==
    /\ request[r].pc \in {"pricing", "moving", "ordering", "saving"}
    /\ request' = [request EXCEPT ![r].pc = "failed"]
    /\ UNCHANGED <<catalogue, address, orders, lines, preference, stale>>

-----------------------------------------------------------------------------
(* The administrator changes what the institution's products offer.        *)
Revise ==
    /\ catalogue' \in Catalogues \ {catalogue}
    /\ stale' = [r \in Requests |-> stale[r] \cup
          {i \in 1 .. request[r].line - 1 :
              /\ At(r, "pricing") \/ At(r, "moving") \/ At(r, "ordering")
              /\ LET p == request[r].cart[i].productId
                 IN  /\ p \in DOMAIN catalogue
                     /\ p \in DOMAIN catalogue' => catalogue[p] # catalogue'[p]}]
    /\ UNCHANGED <<address, orders, lines, request, preference>>

(* Webhook, job or administrator write a status (ProcessWebhook and the    *)
(* other modules of OrderPayments say which).                              *)
PaymentMoves(r) ==
    /\ Saved(r)
    /\ \E s \in OrderStatus \ {orders[r].paymentStatus} :
          orders' = [orders EXCEPT ![r].paymentStatus = s]
    /\ UNCHANGED <<catalogue, address, lines, request, preference, stale>>

LinesNext ==
    \/ \E r \in Requests :
          \/ OrderStart(r) \/ OrderPriceLine(r) \/ OrderCheckAddress(r) \/ OrderWriteAddress(r)
          \/ OrderSaveRow(r) \/ OrderSaveItem(r) \/ OrderSaveDetail(r) \/ OrderAnswer(r)
          \/ OrderFail(r) \/ PaymentMoves(r)
    \/ Revise
=============================================================================
