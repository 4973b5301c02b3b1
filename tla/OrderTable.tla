----------------------------- MODULE OrderTable -----------------------------
(***************************************************************************)
(* The orders table and the carts table, with the statements the order     *)
(* handlers run on them (OrderRepository, CartSQLRepository) and the       *)
(* status-transition table of UpdateOrderStatusUseCase.                    *)
(***************************************************************************)
EXTENDS Naturals, Shop

VARIABLES
    orders,  \* row of each order id, with paymentStatus ABSENT before the insert
    cart     \* whether the user has a cart row

orderVars == <<orders, cart>>

OrderStatus == {"PENDING", "APPROVED", "REJECTED", "CANCELLED", "COMPLETED"}

OrderRow == [paymentStatus : OrderStatus \cup {"ABSENT"},
             creditUsed : Nat,
             creditRestored : BOOLEAN,
             payable : BOOLEAN]     \* paymentGatewayId is set

OrderTypeOK ==
    /\ orders \in [Orders -> OrderRow]
    /\ cart \in [Users -> BOOLEAN]

OrderInit ==
    /\ orders = [o \in Orders |-> [paymentStatus |-> "ABSENT", creditUsed |-> 0,
                                   creditRestored |-> FALSE, payable |-> FALSE]]
    /\ cart = [u \in Users |-> TRUE]

Exists(o) == orders[o].paymentStatus # "ABSENT"

-----------------------------------------------------------------------------
(* validTransitions of UpdateOrderStatusUseCase; only its callers obey it. *)
ValidTransitions ==
    [s \in OrderStatus |->
        CASE s = "PENDING"  -> {"APPROVED", "REJECTED", "CANCELLED"}
          [] s = "APPROVED" -> {"COMPLETED", "CANCELLED"}
          [] OTHER          -> {}]

SaveOrder(o, status, used) ==
    orders' = [orders EXCEPT ![o] = [paymentStatus |-> status, creditUsed |-> used,
                                     creditRestored |-> FALSE, payable |-> FALSE]]

(* updateOrderStatus is unconditional: it does not look at the old status. *)
UpdateOrderStatus(o, status) ==
    orders' = [orders EXCEPT ![o].paymentStatus = status]

MarkCreditRestored(o) ==
    orders' = [orders EXCEPT ![o].creditRestored = TRUE]

UpdateOrderPaymentGatewayId(o) ==
    orders' = [orders EXCEPT ![o].payable = TRUE]

(* WHERE clause of findAbandonedOrders; old is the set of orders created   *)
(* before the threshold date (every order when hours = 0).                 *)
Abandoned(old) ==
    {o \in old : /\ orders[o].paymentStatus = "PENDING"
                 /\ orders[o].creditUsed > 0
                 /\ ~orders[o].creditRestored}

(* The test every settling handler makes on the row it has just read. *)
HoldsCredit(o) == orders[o].creditUsed > 0 /\ ~orders[o].creditRestored

ClearCart(u) == cart' = [cart EXCEPT ![u] = FALSE]

SaveCart(u) ==
    /\ ~cart[u]
    /\ cart' = [cart EXCEPT ![u] = TRUE]
    /\ UNCHANGED orders
=============================================================================
