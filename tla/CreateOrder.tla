----------------------------- MODULE CreateOrder -----------------------------
(***************************************************************************)
(* POST /v1/orders: CreateOrderUseCase.execute.  Checkout request o runs   *)
(* once; each action is the work between two awaits.  The body is wrapped  *)
(* in a catch that only rethrows: nothing compensates what was done.       *)
(* Cart validation and pricing decide only whether the request starts and  *)
(* with which total, so a request that starts has some total in Totals.    *)
(***************************************************************************)
EXTENDS UserCredit, OrderTable

CONSTANT Totals   \* order totals, 0 for a free order

ASSUME TotalsAssumption == Totals \subseteq Nat

VARIABLE create   \* local state of each checkout request

checkoutVars == <<creditVars, orderVars, create>>

CreatePc == {"idle", "deduct", "reserve", "save", "mark", "clearCart",
             "preference", "gateway", "done", "failed"}

CreateTypeOK ==
    create \in [Orders -> [pc : CreatePc,
                           method : {"FREE", "CREDIT", "MERCADO_PAGO"},
                           used : Nat]]

CreateInit ==
    create = [o \in Orders |-> [pc |-> "idle", method |-> "FREE", used |-> 0]]

Continue(o, pc) == create' = [create EXCEPT ![o].pc = pc]

At(o, pc) == create[o].pc = pc

-----------------------------------------------------------------------------
Take(o, pc, method, used) ==
    create' = [create EXCEPT ![o] = [pc |-> pc, method |-> method, used |-> used]]

(* Choice of payment method from the total and the credit read now.  The   *)
(* MERCADO_PAGO order takes all the credit the user has.                   *)
CreateBegin(o) ==
    /\ At(o, "idle")
    /\ \E total \in Totals :
         LET credit == creditValue[CustomerOf[o]] IN
         \/ /\ total = 0
            /\ Take(o, "save", "FREE", 0)
         \/ /\ total > 0 /\ credit >= total
            /\ Take(o, "deduct", "CREDIT", total)
         \/ /\ total > 0 /\ credit < total /\ credit > 0
            /\ Take(o, "reserve", "MERCADO_PAGO", credit)
         \/ /\ total > 0 /\ credit <= 0
            /\ Take(o, "save", "MERCADO_PAGO", 0)
    /\ UNCHANGED <<creditVars, orderVars>>

(* A plausible bug: the UPDATE without its balance guard. *)
CreateDeductUnchecked(o) ==
    /\ At(o, "deduct")
    /\ DeductUnchecked(o, create[o].used)
    /\ Continue(o, "save")
    /\ UNCHANGED orderVars

(* deductCreditAtomic, and the throw when the balance no longer covers it. *)
CreateDeduct(o) ==
    /\ At(o, "deduct")
    /\ \/ /\ DeductCreditAtomic(o, create[o].used)
          /\ Continue(o, "save")
       \/ /\ ~CanCover(CustomerOf[o], create[o].used)
          /\ Continue(o, "failed")
          /\ UNCHANGED creditVars
    /\ UNCHANGED orderVars

(* A plausible bug: the caller does not look at reserveCredit's answer. *)
CreateReserveIgnored(o) ==
    /\ At(o, "reserve")
    /\ \/ ReserveCredit(o, create[o].used)
       \/ /\ ~CanCover(CustomerOf[o], create[o].used)
          /\ UNCHANGED creditVars
    /\ Continue(o, "save")
    /\ UNCHANGED orderVars

(* reserveCredit, and the throw when it matched no row. *)
CreateReserve(o) ==
    /\ At(o, "reserve")
    /\ \/ /\ ReserveCredit(o, create[o].used)
          /\ Continue(o, "save")
       \/ /\ ~CanCover(CustomerOf[o], create[o].used)
          /\ Continue(o, "failed")
          /\ UNCHANGED creditVars
    /\ UNCHANGED orderVars

(* The order row.  Items and details follow in statements of their own; a  *)
(* failure among them is a failure at the next program counter.            *)
CreateSave(o) ==
    LET method == create[o].method IN
    /\ At(o, "save")
    /\ SaveOrder(o, IF method = "MERCADO_PAGO" THEN "PENDING" ELSE "APPROVED",
                 create[o].used)
    /\ Continue(o, CASE method = "FREE"   -> "clearCart"
                     [] method = "CREDIT" -> "mark"
                     [] OTHER             -> "preference")
    /\ UNCHANGED <<creditVars, cart>>

CreateMark(o) ==
    /\ At(o, "mark")
    /\ MarkCreditRestored(o)
    /\ Continue(o, "clearCart")
    /\ UNCHANGED <<creditVars, cart>>

CreateClearCart(o) ==
    /\ At(o, "clearCart")
    /\ ClearCart(CustomerOf[o])
    /\ Continue(o, "done")
    /\ UNCHANGED <<creditVars, orders>>

(* createPreference at the provider; nothing of it is stored here yet. *)
CreatePreference(o) ==
    /\ At(o, "preference")
    /\ Continue(o, "gateway")
    /\ UNCHANGED <<creditVars, orderVars>>

(* The checkout URL reaches the customer only through the stored id or the *)
(* response that follows, so an order can be paid from here on.            *)
CreateSetGateway(o) ==
    /\ At(o, "gateway")
    /\ UpdateOrderPaymentGatewayId(o)
    /\ Continue(o, "done")
    /\ UNCHANGED <<creditVars, cart>>

(* A statement or provider call of the request throws: the request ends    *)
(* with whatever it had done.  clearCartSafe alone swallows the error.     *)
CreateFault(o) ==
    /\ create[o].pc \notin {"idle", "done", "failed"}
    /\ Continue(o, IF At(o, "clearCart") THEN "done" ELSE "failed")
    /\ UNCHANGED <<creditVars, orderVars>>

CreateStep(o) ==
    \/ CreateBegin(o) \/ CreateDeduct(o) \/ CreateReserve(o) \/ CreateSave(o)
    \/ CreateMark(o) \/ CreateClearCart(o) \/ CreatePreference(o) \/ CreateSetGateway(o)

(* The process restarts: a request in flight is gone, its writes are not. *)
CreateCrashed ==
    create' = [o \in Orders |->
                 IF create[o].pc \in {"idle", "done"} THEN create[o]
                 ELSE [create[o] EXCEPT !.pc = "failed"]]
=============================================================================
