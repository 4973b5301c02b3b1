--------------------------- MODULE MCOrderPayments ---------------------------
(***************************************************************************)
(* Small instances of OrderPayments for TLC.                               *)
(***************************************************************************)
EXTENDS OrderLedger, TLC

CONSTANTS u1, u2, o1, o2, o3, n1, n2, n3

TwoOrdersOneUser == (o1 :> u1 @@ o2 :> u1)
ThreeOrders == (o1 :> u1 @@ o2 :> u1 @@ o3 :> u2)
OneOrder == (o1 :> u1)
OneEach == (o1 :> u1 @@ o2 :> u2)

CreditOne == [u \in Users |-> 1]
CreditTwo == [u \in Users |-> 2]

Payment(id, note, order, attempt) ==
    [id |-> id, note |-> note, type |-> "payment", order |-> order, attempt |-> attempt]

MerchantOrder(id, note, order) ==
    [id |-> id, note |-> note, type |-> "merchant_order", order |-> order, attempt |-> 1]

AdminCancel(id, order) ==
    [id |-> id, endpoint |-> "cancel", order |-> order, status |-> "CANCELLED"]

AdminStatus(id, order, status) ==
    [id |-> id, endpoint |-> "status", order |-> order, status |-> status]

NoRequests == {}

\* Two notifications about the same payment.
TwoNotices == {Payment(1, n1, o1, 1), Payment(2, n2, o1, 1)}
\* One notification about a payment of each order.
BothNotices == {Payment(1, n1, o1, 1), Payment(2, n2, o2, 1)}
\* One notification.
OneNotice == {Payment(1, n1, o1, 1)}
\* Every kind of delivery: a duplicate, a later notice, a merchant order.
MixedNotices == {Payment(1, n1, o1, 1), Payment(2, n1, o1, 1),
                 Payment(3, n2, o1, 1), MerchantOrder(4, n3, o1)}

CancelFirst == {AdminCancel(1, o1)}
RejectFirst == {AdminStatus(1, o1, "REJECTED")}
CancelAndComplete == {AdminCancel(1, o1), AdminStatus(2, o1, "COMPLETED")}
=============================================================================
