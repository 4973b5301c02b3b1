----------------------- MODULE OrderPayments_proofs -----------------------
(***************************************************************************)
(* Proofs, for every value of the constants, that OrderPayments keeps its  *)
(* types and the safety properties that hold under every interleaving,     *)
(* failure and restart.  The inductive invariant is OrderInvariant!IInv.   *)
(* The first lemmas say what one SQL statement or one program-counter move *)
(* does, field by field; the steps of the handlers are proved from them.   *)
(***************************************************************************)
EXTENDS OrderInvariant, TLAPS

-----------------------------------------------------------------------------
(* Statements on the orders table. *)

(* updateOrderStatus writes one row's status and nothing else. *)
LEMMA StatusWritten ==
    ASSUME OrderTypeOK, NEW o \in Orders, NEW s \in OrderStatus,
           UpdateOrderStatus(o, s), UNCHANGED cart
    PROVE  /\ OrderTypeOK'
           /\ \A x \in Orders :
                /\ orders'[x].creditUsed = orders[x].creditUsed
                /\ orders'[x].creditRestored = orders[x].creditRestored
                /\ orders'[x].payable = orders[x].payable
                /\ orders'[x].paymentStatus = IF x = o THEN s ELSE orders[x].paymentStatus
  BY DEF OrderTypeOK, OrderRow, UpdateOrderStatus, OrderStatus

(* markCreditRestored sets one row's flag and nothing else. *)
LEMMA RestoredMarked ==
    ASSUME OrderTypeOK, NEW o \in Orders, MarkCreditRestored(o), UNCHANGED cart
    PROVE  /\ OrderTypeOK'
           /\ orders'[o].creditRestored
           /\ \A x \in Orders :
                /\ orders'[x].creditUsed = orders[x].creditUsed
                /\ orders[x].creditRestored => orders'[x].creditRestored
                /\ orders'[x].payable = orders[x].payable
                /\ orders'[x].paymentStatus = orders[x].paymentStatus
  BY DEF OrderTypeOK, OrderRow, MarkCreditRestored

(* updateOrderPaymentGatewayId makes one order payable and nothing else. *)
LEMMA GatewayStored ==
    ASSUME OrderTypeOK, NEW o \in Orders, UpdateOrderPaymentGatewayId(o), UNCHANGED cart
    PROVE  /\ OrderTypeOK'
           /\ \A x \in Orders :
                /\ orders'[x].creditUsed = orders[x].creditUsed
                /\ orders'[x].creditRestored = orders[x].creditRestored
                /\ orders'[x].payable = (x = o \/ orders[x].payable)
                /\ orders'[x].paymentStatus = orders[x].paymentStatus
  BY DEF OrderTypeOK, OrderRow, UpdateOrderPaymentGatewayId

(* createOrder inserts one fresh row. *)
LEMMA RowSaved ==
    ASSUME OrderTypeOK, NEW o \in Orders, NEW s \in OrderStatus, NEW a \in Nat,
           SaveOrder(o, s, a), UNCHANGED cart
    PROVE  /\ OrderTypeOK'
           /\ orders'[o].paymentStatus = s
           /\ orders'[o].creditUsed = a
           /\ ~orders'[o].payable
           /\ \A x \in Orders \ {o} : orders'[x] = orders[x]
  BY DEF OrderTypeOK, OrderRow, SaveOrder, OrderStatus

-----------------------------------------------------------------------------
(* Statements on the users table. *)

(* deductCreditAtomic and reserveCredit take at most what there is, and    *)
(* the ledger entry of the order shows it.                                 *)
LEMMA CreditTaken ==
    ASSUME CreditTypeOK, NoOverdraft, NEW o \in Orders, NEW a \in Nat,
           DeductCreditAtomic(o, a) \/ ReserveCredit(o, a)
    PROVE  /\ CreditTypeOK'
           /\ NoOverdraft'
           /\ ledger'[o].deducted + ledger'[o].reserved
                 = ledger[o].deducted + ledger[o].reserved + a
           /\ \A x \in Orders :
                /\ ledger'[x].consumed = ledger[x].consumed
                /\ ledger'[x].released = ledger[x].released
                /\ x # o => ledger'[x] = ledger[x]
           /\ ReserveCredit(o, a) => ledger'[o].deducted = ledger[o].deducted
  BY CustomerAssumption
  DEF CreditTypeOK, LedgerEntry, NoOverdraft, DeductCreditAtomic, DeductUnchecked,
      ReserveCredit, ReserveUnchecked, CanCover

(* A settling statement touches what was taken from nobody, and only the   *)
(* settled order may be seen to have been settled.                         *)
LEMMA CreditSettled ==
    ASSUME CreditTypeOK, NoOverdraft, NEW o \in Orders, NEW a \in Nat,
           \/ RefundHold(o, a)
           \/ ReleaseReservedCredit(o, a)
           \/ ConsumeReservedCredit(o, a)
    PROVE  /\ CreditTypeOK'
           /\ NoOverdraft'
           /\ \A x \in Orders :
                /\ ledger'[x].deducted = ledger[x].deducted
                /\ ledger'[x].reserved = ledger[x].reserved
                /\ x # o => ledger'[x] = ledger[x]
  <1>1. CASE RefundHold(o, a)
    <2>1. ledger' \in [Orders -> LedgerEntry]
      BY <1>1 DEF CreditTypeOK, LedgerEntry, RefundHold
    <2>2. CreditTypeOK' /\ NoOverdraft'
      BY <1>1, <2>1, CustomerAssumption DEF CreditTypeOK, NoOverdraft, RefundHold
    <2> QED
      BY <1>1, <2>2 DEF CreditTypeOK, LedgerEntry, RefundHold
  <1>2. CASE ConsumeHold(o, a)
    <2>1. ledger' \in [Orders -> LedgerEntry]
      BY <1>2 DEF CreditTypeOK, LedgerEntry, ConsumeHold
    <2>2. CreditTypeOK' /\ NoOverdraft'
      BY <1>2, <2>1, CustomerAssumption DEF CreditTypeOK, NoOverdraft, ConsumeHold
    <2> QED
      BY <1>2, <2>2 DEF CreditTypeOK, LedgerEntry, ConsumeHold
  <1>3. CASE UNCHANGED creditVars
    BY <1>3 DEF CreditTypeOK, NoOverdraft, creditVars
  <1> QED
    BY <1>1, <1>2, <1>3 DEF ReleaseReservedCredit, ConsumeReservedCredit

-----------------------------------------------------------------------------
(* Program counters. *)

(* A checkout request moves on; method and amount stay. *)
LEMMA CheckoutMoved ==
    ASSUME CreateTypeOK, NEW o \in Orders, NEW pc \in CreatePc, Continue(o, pc)
    PROVE  /\ CreateTypeOK'
           /\ create'[o].pc = pc
           /\ \A x \in Orders :
                /\ create'[x].method = create[x].method
                /\ create'[x].used = create[x].used
                /\ x # o => create'[x] = create[x]
  BY DEF CreateTypeOK, Continue

(* A webhook handler moves on; the status it fetched stays. *)
LEMMA HandlerMoved ==
    ASSUME webhook \in [Deliveries -> [pc : WebhookPc, status : OrderStatus \cup {"NULL"}]],
           NEW d \in Deliveries, NEW pc \in WebhookPc, Resume(d, pc)
    PROVE  /\ webhook' \in [Deliveries -> [pc : WebhookPc, status : OrderStatus \cup {"NULL"}]]
           /\ webhook'[d].pc = pc
           /\ \A x \in Deliveries :
                /\ webhook'[x].status = webhook[x].status
                /\ x # d => webhook'[x] = webhook[x]
  BY DEF Resume

(* A run of the job moves on with one order. *)
LEMMA JobMoved ==
    ASSUME JobTypeOK, NEW j \in Jobs, NEW o \in Orders,
           NEW pc \in {"none", "listed", "mark", "release"}, Move(j, o, pc)
    PROVE  /\ JobTypeOK'
           /\ job'[j][o] = pc
           /\ \A k \in Jobs, x \in Orders : <<k, x>> # <<j, o>> => job'[k][x] = job[k][x]
  BY DEF JobTypeOK, Move

-----------------------------------------------------------------------------
(* What the constants are. *)

LEMMA AttemptReferences == \A p \in Attempts : p[1] \in Orders
  BY DEF Attempts

LEMMA DeliveryReferences ==
    \A d \in Deliveries : /\ d.order \in Orders
                          /\ SubjectOf(d) \in Attempts
                          /\ SubjectOf(d)[1] = d.order
  BY AttemptAssumption, DeliveryAssumption DEF Attempts, Delivery, SubjectOf

LEMMA RequestReferences ==
    \A r \in AdminRequests : /\ r.order \in Orders
                             /\ r.status \in OrderStatus
                             /\ r.endpoint = "cancel" => r.status = "CANCELLED"
  BY AdminAssumption DEF AdminRequest

(* Every provider status has an order status or none (NULL). *)
LEMMA MappedStatus ==
    \A s \in PaymentStatus \cup {"none"} :
        MapPaymentStatusToOrderStatus(s) \in OrderStatus \cup {"NULL"}
  BY DEF MapPaymentStatusToOrderStatus, PaymentStatus, OrderStatus

-----------------------------------------------------------------------------
(* Frames: which conjuncts of IInv a step keeps because of what it leaves  *)
(* alone.                                                                  *)

(* Rows stay, and what handlers know of them stays true. *)
RowsKept ==
    \A x \in Orders :
        Exists(x) => /\ Exists(x)'
                     /\ orders[x].payable => orders'[x].payable
                     /\ orders[x].creditRestored => orders'[x].creditRestored
                     /\ create'[x].method = create[x].method

LEMMA HandlersKept ==
    ASSUME RowInv, PaymentInv, WebhookInv, JobInv, AdminInv, RowsKept
    PROVE  /\ UNCHANGED payments => PaymentInv'
           /\ UNCHANGED webhook => WebhookInv'
           /\ UNCHANGED job => JobInv'
           /\ UNCHANGED admin => AdminInv'
  <1>1. UNCHANGED payments => PaymentInv'
    BY AttemptReferences DEF RowsKept, RowInv, PaymentInv
  <1>2. UNCHANGED webhook => WebhookInv'
    BY DeliveryReferences DEF RowsKept, RowInv, WebhookInv
  <1>3. UNCHANGED job => JobInv'
    BY DEF RowsKept, JobInv
  <1>4. UNCHANGED admin => AdminInv'
    BY RequestReferences DEF RowsKept, AdminInv, Exists
  <1> QED
    BY <1>1, <1>2, <1>3, <1>4

(* No request moves, no row appears and nothing is taken. *)
TakingKept ==
    \A x \in Orders :
        /\ Exists(x)' <=> Exists(x)
        /\ orders'[x].creditUsed = orders[x].creditUsed
        /\ create'[x] = create[x]
        /\ ledger'[x].deducted = ledger[x].deducted
        /\ ledger'[x].reserved = ledger[x].reserved

LEMMA CheckoutKept ==
    ASSUME CheckoutInv, OrderBacked, TakingKept
    PROVE  CheckoutInv' /\ OrderBacked'
  BY DEF CheckoutInv, OrderBacked, TakingKept, Exists

-----------------------------------------------------------------------------
(* POST /v1/orders. *)

LEMMA CheckoutStep ==
    ASSUME IInv, NEW o \in Orders, CreateStep(o),
           UNCHANGED <<payments, webhookVars, job, admin, faults>>
    PROVE  IInv'
  <1> USE DEF IInv
  <1>a. /\ CreditTypeOK /\ OrderTypeOK /\ CreateTypeOK
        /\ create[o] \in [pc : CreatePc, method : {"FREE", "CREDIT", "MERCADO_PAGO"}, used : Nat]
    BY DEF TypeOK, CreateTypeOK
  <1>b. WebhookTypeOK' /\ JobTypeOK' /\ AdminTypeOK' /\ (faults \in 0..MaxFaults)'
    BY DEF TypeOK, WebhookTypeOK, JobTypeOK, AdminTypeOK, webhookVars
  <1>c. UNCHANGED <<payments, webhook, job, admin>>
    BY DEF webhookVars
  <1>d. ASSUME NEW pc \in CreatePc, Continue(o, pc), UNCHANGED <<creditVars, orders>>,
               cart' \in [Users -> BOOLEAN],
               \/ pc \in {"done", "failed"}
               \/ pc = "gateway" /\ create[o].pc = "preference"
        PROVE  IInv'
    <2>1. /\ CreateTypeOK' /\ create'[o].pc = pc
          /\ \A x \in Orders : /\ create'[x].method = create[x].method
                               /\ create'[x].used = create[x].used
                               /\ x # o => create'[x] = create[x]
      BY <1>a, <1>d, CheckoutMoved
    <2>2. TypeOK' /\ NoOverdraft' /\ OrderBacked'
      BY <1>a, <1>b, <1>d, <2>1 DEF TypeOK, OrderTypeOK, CreditTypeOK, NoOverdraft, OrderBacked,
         Exists, creditVars
    <2>3. CheckoutInv'
      BY <1>d, <2>1 DEF CheckoutInv, Exists, creditVars
    <2>4. RowInv' /\ RowsKept
      BY <1>d, <2>1 DEF RowInv, RowsKept, Exists, creditVars
    <2> QED
      BY <1>c, <2>2, <2>3, <2>4, HandlersKept
  <1>1. CASE CreateBegin(o)
    <2>1. PICK pc \in {"save", "deduct", "reserve"},
               method \in {"FREE", "CREDIT", "MERCADO_PAGO"}, used \in Nat :
            /\ Take(o, pc, method, used)
            /\ pc = "save" => used = 0
            /\ pc = "deduct" => method = "CREDIT"
      BY <1>1, <1>a, CustomerAssumption, TotalsAssumption DEF CreateBegin, CreditTypeOK
    <2>2. create[o].pc = "idle" /\ UNCHANGED <<creditVars, orderVars>>
      BY <1>1 DEF CreateBegin, At
    <2>3. /\ CreateTypeOK'
          /\ create'[o].pc = pc /\ create'[o].method = method /\ create'[o].used = used
          /\ \A x \in Orders \ {o} : create'[x] = create[x]
      BY <1>a, <2>1 DEF CreateTypeOK, Take, CreatePc
    <2>4. TypeOK' /\ NoOverdraft'
      BY <1>b, <2>2, <2>3 DEF TypeOK, NoOverdraft, CreditTypeOK, OrderTypeOK, creditVars, orderVars
    <2>5. CheckoutInv' /\ OrderBacked'
      BY <1>a, <2>1, <2>2, <2>3 DEF CheckoutInv, OrderBacked, Exists, creditVars, orderVars,
         CreditTypeOK, LedgerEntry
    <2>6. ~Exists(o) /\ RowInv'
      BY <1>a, <2>2, <2>3 DEF CheckoutInv, RowInv, Exists, creditVars, orderVars, OrderStatus,
         CreditTypeOK, LedgerEntry
    <2>7. RowsKept
      BY <2>2, <2>3, <2>6 DEF RowsKept, Exists, orderVars
    <2> QED
      BY <1>c, <2>4, <2>5, <2>6, <2>7, HandlersKept
  <1>2. CASE CreateDeduct(o)
    <2> DEFINE a == create[o].used
    <2>1. CASE DeductCreditAtomic(o, a) /\ Continue(o, "save") /\ create[o].pc = "deduct"
      <3>1. CreateTypeOK' /\ create'[o].pc = "save"
            /\ \A x \in Orders : /\ create'[x].method = create[x].method
                                 /\ create'[x].used = create[x].used
                                 /\ x # o => create'[x] = create[x]
        BY <1>a, <2>1, CheckoutMoved DEF CreatePc
      <3>2. UNCHANGED orderVars
        BY <1>2 DEF CreateDeduct
      <3>3. /\ CreditTypeOK' /\ NoOverdraft'
            /\ ledger'[o].deducted + ledger'[o].reserved
                  = ledger[o].deducted + ledger[o].reserved + a
            /\ \A x \in Orders : /\ ledger'[x].consumed = ledger[x].consumed
                                 /\ ledger'[x].released = ledger[x].released
                                 /\ x # o => ledger'[x] = ledger[x]
            /\ ReserveCredit(o, a) => ledger'[o].deducted = ledger[o].deducted
        BY <1>a, <2>1, CreditTaken
      <3>4. ~Exists(o) /\ TypeOK'
        BY <1>a, <1>b, <2>1, <3>1, <3>2, <3>3 DEF TypeOK, OrderTypeOK, orderVars, CheckoutInv
      <3>5. CheckoutInv' /\ OrderBacked'
        BY SMTT(30), <1>a, <2>1, <3>1, <3>2, <3>3, <3>4
        DEF CheckoutInv, OrderBacked, Exists, orderVars, CreditTypeOK, LedgerEntry
      <3>6. RowInv' /\ RowsKept
        BY <3>1, <3>2, <3>3 DEF RowInv, RowsKept, Exists, orderVars
      <3> QED
        BY <1>c, <3>3, <3>4, <3>5, <3>6, HandlersKept
    <2>2. CASE Continue(o, "failed") /\ UNCHANGED <<creditVars, orderVars>>
      BY <1>a, <1>d, <2>2 DEF CreatePc, orderVars, OrderTypeOK
    <2> QED
      BY <1>2, <2>1, <2>2 DEF CreateDeduct, At
  <1>3. CASE CreateReserve(o)
    <2> DEFINE a == create[o].used
    <2>1. CASE ReserveCredit(o, a) /\ Continue(o, "save") /\ create[o].pc = "reserve"
      <3>1. CreateTypeOK' /\ create'[o].pc = "save"
            /\ \A x \in Orders : /\ create'[x].method = create[x].method
                                 /\ create'[x].used = create[x].used
                                 /\ x # o => create'[x] = create[x]
        BY <1>a, <2>1, CheckoutMoved DEF CreatePc
      <3>2. UNCHANGED orderVars
        BY <1>3 DEF CreateReserve
      <3>3. /\ CreditTypeOK' /\ NoOverdraft'
            /\ ledger'[o].deducted + ledger'[o].reserved
                  = ledger[o].deducted + ledger[o].reserved + a
            /\ \A x \in Orders : /\ ledger'[x].consumed = ledger[x].consumed
                                 /\ ledger'[x].released = ledger[x].released
                                 /\ x # o => ledger'[x] = ledger[x]
            /\ ReserveCredit(o, a) => ledger'[o].deducted = ledger[o].deducted
        BY <1>a, <2>1, CreditTaken
      <3>4. ~Exists(o) /\ TypeOK'
        BY <1>a, <1>b, <2>1, <3>1, <3>2, <3>3 DEF TypeOK, OrderTypeOK, orderVars, CheckoutInv
      <3>5. CheckoutInv' /\ OrderBacked'
        BY SMTT(30), <1>a, <2>1, <3>1, <3>2, <3>3, <3>4
        DEF CheckoutInv, OrderBacked, Exists, orderVars, CreditTypeOK, LedgerEntry
      <3>6. RowInv' /\ RowsKept
        BY <3>1, <3>2, <3>3 DEF RowInv, RowsKept, Exists, orderVars
      <3> QED
        BY <1>c, <3>3, <3>4, <3>5, <3>6, HandlersKept
    <2>2. CASE Continue(o, "failed") /\ UNCHANGED <<creditVars, orderVars>>
      BY <1>a, <1>d, <2>2 DEF CreatePc, orderVars, OrderTypeOK
    <2> QED
      BY <1>3, <2>1, <2>2 DEF CreateReserve, At
  <1>4. CASE CreateSave(o)
    <2> DEFINE status == IF create[o].method = "MERCADO_PAGO" THEN "PENDING" ELSE "APPROVED"
               pc == CASE create[o].method = "FREE"   -> "clearCart"
                       [] create[o].method = "CREDIT" -> "mark"
                       [] OTHER                       -> "preference"
    <2>1. /\ create[o].pc = "save" /\ ~Exists(o)
          /\ SaveOrder(o, status, create[o].used) /\ Continue(o, pc)
          /\ UNCHANGED <<creditVars, cart>>
      BY <1>4 DEF CreateSave, At, CheckoutInv
    <2>2. /\ pc \in {"clearCart", "mark", "preference"}
          /\ pc = "preference" => create[o].method = "MERCADO_PAGO"
          /\ status \in OrderStatus \ {"ABSENT"}
          /\ create[o].method = "CREDIT" => status # "PENDING"
      BY <1>a DEF OrderStatus
    <2> HIDE DEF status, pc
    <2>3. /\ CreateTypeOK' /\ create'[o].pc = pc
          /\ \A x \in Orders : /\ create'[x].method = create[x].method
                               /\ create'[x].used = create[x].used
                               /\ x # o => create'[x] = create[x]
      BY <1>a, <2>1, <2>2, CheckoutMoved DEF CreatePc
    <2>4. /\ OrderTypeOK' /\ ~orders'[o].payable
          /\ orders'[o].paymentStatus = status /\ orders'[o].creditUsed = create[o].used
          /\ \A x \in Orders \ {o} : orders'[x] = orders[x]
      BY <1>a, <2>1, <2>2, RowSaved
    <2>5. TypeOK' /\ NoOverdraft'
      BY <1>a, <1>b, <2>1, <2>3, <2>4 DEF TypeOK, CreditTypeOK, NoOverdraft, creditVars
    <2>6. CheckoutInv' /\ OrderBacked'
      BY <1>a, <2>1, <2>2, <2>3, <2>4
      DEF CheckoutInv, OrderBacked, Exists, creditVars, CreditTypeOK, LedgerEntry
    <2>7. RowInv'
      BY <2>1, <2>2, <2>3, <2>4 DEF RowInv, Exists, creditVars
    <2>8. RowsKept
      BY <2>1, <2>3, <2>4 DEF RowsKept, Exists
    <2> QED
      BY <1>c, <2>5, <2>6, <2>7, <2>8, HandlersKept
  <1>5. CASE CreateMark(o)
    <2>1. /\ create[o].pc = "mark" /\ MarkCreditRestored(o) /\ Continue(o, "clearCart")
          /\ UNCHANGED <<creditVars, cart>>
      BY <1>5 DEF CreateMark, At
    <2>2. /\ CreateTypeOK' /\ create'[o].pc = "clearCart"
          /\ \A x \in Orders : /\ create'[x].method = create[x].method
                               /\ create'[x].used = create[x].used
                               /\ x # o => create'[x] = create[x]
      BY <1>a, <2>1, CheckoutMoved DEF CreatePc
    <2>3. /\ OrderTypeOK'
          /\ \A x \in Orders :
                /\ orders'[x].creditUsed = orders[x].creditUsed
                /\ orders[x].creditRestored => orders'[x].creditRestored
                /\ orders'[x].payable = orders[x].payable
                /\ orders'[x].paymentStatus = orders[x].paymentStatus
      BY <1>a, <2>1, RestoredMarked
    <2>4. TypeOK' /\ NoOverdraft' /\ OrderBacked'
      BY <1>a, <1>b, <2>1, <2>2, <2>3
      DEF TypeOK, CreditTypeOK, NoOverdraft, OrderBacked, Exists, creditVars
    <2>5. CheckoutInv' /\ RowInv' /\ RowsKept
      BY <2>1, <2>2, <2>3 DEF CheckoutInv, RowInv, RowsKept, Exists, creditVars
    <2> QED
      BY <1>c, <2>4, <2>5, HandlersKept
  <1>6. CASE CreateClearCart(o)
    <2>1. /\ Continue(o, "done") /\ UNCHANGED <<creditVars, orders>>
          /\ cart' \in [Users -> BOOLEAN]
      BY <1>6, <1>a, CustomerAssumption DEF CreateClearCart, ClearCart, OrderTypeOK
    <2> QED
      BY <1>d, <2>1 DEF CreatePc
  <1>7. CASE CreatePreference(o)
    <2>1. /\ create[o].pc = "preference" /\ Continue(o, "gateway")
          /\ UNCHANGED <<creditVars, orders>> /\ cart' \in [Users -> BOOLEAN]
      BY <1>7, <1>a DEF CreatePreference, At, orderVars, OrderTypeOK
    <2> QED
      BY <1>d, <2>1 DEF CreatePc
  <1>8. CASE CreateSetGateway(o)
    <2>1. /\ create[o].pc = "gateway" /\ UpdateOrderPaymentGatewayId(o) /\ Continue(o, "done")
          /\ UNCHANGED <<creditVars, cart>>
      BY <1>8 DEF CreateSetGateway, At
    <2>2. /\ CreateTypeOK' /\ create'[o].pc = "done"
          /\ \A x \in Orders : /\ create'[x].method = create[x].method
                               /\ create'[x].used = create[x].used
                               /\ x # o => create'[x] = create[x]
      BY <1>a, <2>1, CheckoutMoved DEF CreatePc
    <2>3. /\ OrderTypeOK'
          /\ \A x \in Orders :
                /\ orders'[x].creditUsed = orders[x].creditUsed
                /\ orders'[x].creditRestored = orders[x].creditRestored
                /\ orders'[x].payable = (x = o \/ orders[x].payable)
                /\ orders'[x].paymentStatus = orders[x].paymentStatus
      BY <1>a, <2>1, GatewayStored
    <2>4. TypeOK' /\ NoOverdraft' /\ OrderBacked'
      BY <1>a, <1>b, <2>1, <2>2, <2>3
      DEF TypeOK, CreditTypeOK, NoOverdraft, OrderBacked, Exists, creditVars
    <2>5. CheckoutInv'
      BY <2>1, <2>2, <2>3 DEF CheckoutInv, Exists, creditVars
    <2>6. Exists(o) /\ create[o].method = "MERCADO_PAGO"
      BY <2>1 DEF CheckoutInv
    <2>7. RowInv'
      BY ZenonT(40), <2>1, <2>2, <2>3, <2>6 DEF RowInv, Exists, creditVars
    <2>8. RowsKept
      BY <2>2, <2>3 DEF RowsKept, Exists
    <2> QED
      BY <1>c, <2>4, <2>5, <2>7, <2>8, HandlersKept
  <1> QED
    BY <1>1, <1>2, <1>3, <1>4, <1>5, <1>6, <1>7, <1>8 DEF CreateStep

-----------------------------------------------------------------------------
(* What the settling handlers do to the tables. *)

(* The part of IInv that speaks of the tables and the checkout requests. *)
StoreInv ==
    /\ CreditTypeOK /\ OrderTypeOK /\ CreateTypeOK
    /\ NoOverdraft /\ OrderBacked /\ CheckoutInv /\ RowInv

LEMMA StoreUntouched ==
    ASSUME IInv, UNCHANGED <<creditVars, orders, create>>, cart' \in [Users -> BOOLEAN]
    PROVE  StoreInv' /\ RowsKept
  BY DEF IInv, TypeOK, StoreInv, CreditTypeOK, OrderTypeOK, CreateTypeOK, NoOverdraft,
     OrderBacked, CheckoutInv, RowInv, RowsKept, Exists, creditVars

(* A handler that knows its order exists may write any status but ABSENT,  *)
(* and PENDING only for an order that was not paid with credit.            *)
LEMMA StatusStep ==
    ASSUME IInv, NEW o \in Orders, NEW s \in OrderStatus, Exists(o),
           create[o].method = "CREDIT" => s # "PENDING",
           UpdateOrderStatus(o, s), UNCHANGED <<creditVars, cart, create>>
    PROVE  StoreInv' /\ RowsKept
  <1>1. /\ OrderTypeOK'
        /\ \A x \in Orders :
             /\ orders'[x].creditUsed = orders[x].creditUsed
             /\ orders'[x].creditRestored = orders[x].creditRestored
             /\ orders'[x].payable = orders[x].payable
             /\ orders'[x].paymentStatus = IF x = o THEN s ELSE orders[x].paymentStatus
    BY StatusWritten DEF IInv, TypeOK
  <1>2. CreditTypeOK' /\ CreateTypeOK' /\ NoOverdraft'
    BY DEF IInv, TypeOK, CreditTypeOK, CreateTypeOK, NoOverdraft, creditVars
  <1>3. \A x \in Orders : Exists(x)' <=> Exists(x)
    BY <1>1 DEF Exists, OrderStatus
  <1>4. TakingKept
    BY <1>1, <1>3 DEF TakingKept, creditVars
  <1>5. CheckoutInv' /\ OrderBacked'
    BY <1>4, CheckoutKept DEF IInv
  <1>6. RowInv' /\ RowsKept
    BY <1>1, <1>3 DEF IInv, RowInv, RowsKept, creditVars
  <1> QED
    BY <1>1, <1>2, <1>5, <1>6 DEF StoreInv

LEMMA MarkStep ==
    ASSUME IInv, NEW o \in Orders, MarkCreditRestored(o),
           UNCHANGED <<creditVars, cart, create>>
    PROVE  StoreInv' /\ RowsKept /\ orders'[o].creditRestored
  <1>1. /\ OrderTypeOK'
        /\ orders'[o].creditRestored
        /\ \A x \in Orders :
             /\ orders'[x].creditUsed = orders[x].creditUsed
             /\ orders[x].creditRestored => orders'[x].creditRestored
             /\ orders'[x].payable = orders[x].payable
             /\ orders'[x].paymentStatus = orders[x].paymentStatus
    BY RestoredMarked DEF IInv, TypeOK
  <1>2. CreditTypeOK' /\ CreateTypeOK' /\ NoOverdraft'
    BY DEF IInv, TypeOK, CreditTypeOK, CreateTypeOK, NoOverdraft, creditVars
  <1>3. TakingKept
    BY <1>1 DEF TakingKept, Exists, creditVars
  <1>4. CheckoutInv' /\ OrderBacked'
    BY <1>3, CheckoutKept DEF IInv
  <1>5. RowInv' /\ RowsKept
    BY <1>1 DEF IInv, RowInv, RowsKept, Exists, creditVars
  <1> QED
    BY <1>1, <1>2, <1>4, <1>5 DEF StoreInv

(* Credit is settled only for a flagged row not paid with credit. *)
LEMMA SettleStep ==
    ASSUME IInv, NEW o \in Orders, Exists(o), orders[o].creditRestored,
           create[o].method # "CREDIT",
           \/ ReleaseReservedCredit(o, orders[o].creditUsed)
           \/ ConsumeReservedCredit(o, orders[o].creditUsed),
           UNCHANGED <<orderVars, create>>
    PROVE  StoreInv' /\ RowsKept
  <1>1. orders[o].creditUsed \in Nat
    BY DEF IInv, TypeOK, OrderTypeOK, OrderRow
  <1>2. /\ CreditTypeOK' /\ NoOverdraft'
        /\ \A x \in Orders :
             /\ ledger'[x].deducted = ledger[x].deducted
             /\ ledger'[x].reserved = ledger[x].reserved
             /\ x # o => ledger'[x] = ledger[x]
    BY <1>1, CreditSettled DEF IInv, TypeOK
  <1>3. OrderTypeOK' /\ CreateTypeOK' /\ RowsKept
    BY DEF IInv, TypeOK, OrderTypeOK, CreateTypeOK, RowsKept, Exists, orderVars
  <1>4. TakingKept
    BY <1>2 DEF TakingKept, Exists, orderVars
  <1>5. CheckoutInv' /\ OrderBacked'
    BY <1>4, CheckoutKept DEF IInv
  <1>6. RowInv'
    BY <1>2 DEF IInv, RowInv, Exists, orderVars
  <1> QED
    BY <1>2, <1>3, <1>5, <1>6 DEF StoreInv

-----------------------------------------------------------------------------
(* POST /v1/mercado-pago/webhook. *)

WebhookStates == [pc : WebhookPc, status : OrderStatus \cup {"NULL"}]

(* A webhook handler that only moves on, or fails. *)
LEMMA WebhookMoves ==
    ASSUME IInv, NEW d \in Deliveries, NEW pc \in WebhookPc \ {"settle"},
           webhook' \in [Deliveries -> WebhookStates],
           webhook'[d].pc = pc,
           \A x \in Deliveries \ {d} : webhook'[x] = webhook[x],
           orders[d.order].payable,
           pc \in {"read", "mark", "write", "clearCart"} => webhook'[d].status # "NULL",
           UNCHANGED <<creditVars, orders, create, payments, job, admin>>,
           cart' \in [Users -> BOOLEAN],
           notifications' \in [Notifications -> {"absent", "pending", "processed", "failed"}],
           faults' \in 0..MaxFaults
    PROVE  IInv'
  <1>1. StoreInv' /\ RowsKept
    BY StoreUntouched
  <1>2. PaymentInv' /\ JobInv' /\ AdminInv'
    BY <1>1, HandlersKept DEF IInv
  <1>3. WebhookInv'
    BY DEF IInv, WebhookInv
  <1>4. WebhookTypeOK' /\ JobTypeOK' /\ AdminTypeOK'
    BY DEF IInv, TypeOK, WebhookTypeOK, WebhookStates, JobTypeOK, AdminTypeOK
  <1> QED
    BY <1>1, <1>2, <1>3, <1>4 DEF IInv, TypeOK, StoreInv

(* A webhook handler that writes to the tables and moves on. *)
LEMMA WebhookWrites ==
    ASSUME IInv, StoreInv', RowsKept, NEW d \in Deliveries, NEW pc \in WebhookPc,
           Resume(d, pc), webhook[d].pc # "idle",
           pc = "settle" => orders'[d.order].creditRestored,
           pc \in {"read", "mark", "settle", "write", "clearCart"} =>
              webhook[d].status # "NULL",
           UNCHANGED <<create, payments, notifications, job, admin, faults>>
    PROVE  IInv'
  <1>1. /\ webhook' \in [Deliveries -> WebhookStates]
        /\ webhook'[d].pc = pc
        /\ \A x \in Deliveries : /\ webhook'[x].status = webhook[x].status
                                 /\ x # d => webhook'[x] = webhook[x]
    BY HandlerMoved DEF IInv, TypeOK, WebhookTypeOK, WebhookStates
  <1>2. PaymentInv' /\ JobInv' /\ AdminInv'
    BY HandlersKept DEF IInv
  <1>3. \A x \in Deliveries : webhook[x].pc # "idle" =>
            /\ orders'[x.order].payable
            /\ orders[x.order].creditRestored => orders'[x.order].creditRestored
    BY DeliveryReferences DEF IInv, WebhookInv, RowInv, RowsKept
  <1>4. WebhookInv'
    BY <1>1, <1>3 DEF IInv, WebhookInv
  <1>5. WebhookTypeOK' /\ JobTypeOK' /\ AdminTypeOK' /\ (faults \in 0..MaxFaults)'
    BY <1>1 DEF IInv, TypeOK, WebhookTypeOK, WebhookStates, JobTypeOK, AdminTypeOK
  <1> QED
    BY <1>2, <1>4, <1>5 DEF IInv, TypeOK, StoreInv

LEMMA WebhookHandler ==
    ASSUME IInv, NEW d \in Deliveries, WebhookFind(d) \/ WebhookStep(d),
           UNCHANGED <<create, job, admin, faults>>
    PROVE  IInv'
  <1> DEFINE o == d.order
  <1>a. /\ o \in Orders /\ SubjectOf(d) \in Attempts /\ SubjectOf(d)[1] = o
        /\ d.note \in Notifications
    BY DeliveryReferences, DeliveryAssumption DEF Delivery
  <1>b. /\ webhook \in [Deliveries -> WebhookStates]
        /\ notifications \in [Notifications -> {"absent", "pending", "processed", "failed"}]
        /\ payments \in [Attempts -> PaymentStatus \cup {"none"}]
        /\ cart \in [Users -> BOOLEAN]
        /\ faults \in 0..MaxFaults
    BY DEF IInv, TypeOK, WebhookTypeOK, WebhookStates, OrderTypeOK
  <1>c. webhook[d].pc # "idle" =>
           orders[o].payable /\ Exists(o) /\ create[o].method # "CREDIT"
    BY <1>a DEF IInv, WebhookInv, RowInv
  <1>m. ASSUME NEW pc \in WebhookPc \ {"settle"}, Resume(d, pc), orders[o].payable,
               pc \in {"read", "mark", "write", "clearCart"} => webhook[d].status # "NULL",
               UNCHANGED <<creditVars, orders, payments>>, cart' \in [Users -> BOOLEAN],
               notifications' \in [Notifications -> {"absent", "pending", "processed", "failed"}]
        PROVE  IInv'
    <2>1. /\ webhook' \in [Deliveries -> WebhookStates]
          /\ webhook'[d].pc = pc
          /\ \A x \in Deliveries : /\ webhook'[x].status = webhook[x].status
                                   /\ x # d => webhook'[x] = webhook[x]
      BY <1>b, <1>m, HandlerMoved DEF WebhookStates
    <2> QED
      BY <1>b, <1>m, <2>1, WebhookMoves
  <1>1. CASE WebhookFind(d)
    <2>1. orders[o].payable
      BY <1>1, <1>a DEF IInv, PaymentInv, WebhookFind, Deliverable
    <2>2. PICK pc \in {"done", "savePending"} : Resume(d, pc)
      BY <1>1 DEF WebhookFind
    <2> QED
      BY <1>1, <1>b, <1>m, <2>1, <2>2 DEF WebhookFind, WebhookPc, orderVars
  <1>2. CASE WebhookSavePending(d)
    BY <1>2, <1>a, <1>b, <1>c, <1>m DEF WebhookSavePending, WebhookPc, orderVars
  <1>3. CASE WebhookFetch(d)
    <2>1. MapPaymentStatusToOrderStatus(payments[SubjectOf(d)]) \in OrderStatus \cup {"NULL"}
      BY <1>a, <1>b, MappedStatus
    <2>2. /\ webhook' \in [Deliveries -> WebhookStates]
          /\ webhook'[d].pc = "saveProcessed"
          /\ \A x \in Deliveries \ {d} : webhook'[x] = webhook[x]
      BY <1>3, <1>b, <2>1 DEF WebhookFetch, WebhookStates, WebhookPc
    <2>3. UNCHANGED <<creditVars, orders, cart, payments, notifications>> /\ orders[o].payable
      BY <1>3, <1>c DEF WebhookFetch, orderVars
    <2> QED
      BY <1>b, <2>2, <2>3, WebhookMoves DEF WebhookPc
  <1>4. CASE WebhookSaveProcessed(d)
    <2>1. PICK pc \in {"done", "read"} :
             Resume(d, pc) /\ (pc = "read" => webhook[d].status # "NULL")
      BY <1>4 DEF WebhookSaveProcessed
    <2> QED
      BY <1>4, <1>a, <1>b, <1>c, <1>m, <2>1 DEF WebhookSaveProcessed, WebhookPc, orderVars
  <1>5. CASE WebhookRead(d)
    <2>1. PICK pc \in {"done", "mark", "write"} : Resume(d, pc)
      BY <1>5 DEF WebhookRead
    <2> QED
      BY <1>5, <1>b, <1>c, <1>m, <2>1 DEF WebhookRead, WebhookPc, orderVars, IInv, WebhookInv
  <1>6. CASE WebhookMark(d)
    <2>1. StoreInv' /\ RowsKept /\ orders'[o].creditRestored
      BY <1>6, <1>a, MarkStep DEF WebhookMark
    <2> QED
      BY <1>6, <2>1, WebhookWrites DEF WebhookMark, WebhookPc, IInv, WebhookInv
  <1>7. CASE WebhookSettle(d)
    <2>1. StoreInv' /\ RowsKept
      BY <1>7, <1>a, <1>c, SettleStep DEF WebhookSettle, IInv, WebhookInv
    <2> QED
      BY <1>7, <2>1, WebhookWrites DEF WebhookSettle, WebhookPc, IInv, WebhookInv
  <1>8. CASE WebhookWrite(d)
    <2>1. webhook[d].status \in OrderStatus
      BY <1>8, <1>b DEF WebhookWrite, WebhookStates, IInv, WebhookInv
    <2>2. StoreInv' /\ RowsKept
      BY <1>8, <1>a, <1>c, <2>1, StatusStep DEF WebhookWrite
    <2>3. PICK pc \in {"done", "clearCart"} : Resume(d, pc)
      BY <1>8 DEF WebhookWrite
    <2> QED
      BY <1>8, <2>2, <2>3, WebhookWrites DEF WebhookWrite, WebhookPc, IInv, WebhookInv
  <1>9. CASE WebhookClearCart(d)
    <2>1. cart' \in [Users -> BOOLEAN]
      BY <1>9, <1>b DEF WebhookClearCart, ClearCart
    <2> QED
      BY <1>9, <1>b, <1>c, <1>m, <2>1 DEF WebhookClearCart, WebhookPc
  <1> QED
    BY <1>1, <1>2, <1>3, <1>4, <1>5, <1>6, <1>7, <1>8, <1>9 DEF WebhookStep

-----------------------------------------------------------------------------
(* CancelAbandonedOrdersJob. *)

(* A run of the job that moves on with one order, whatever it wrote. *)
LEMMA JobMoves ==
    ASSUME IInv, StoreInv', RowsKept, NEW j \in Jobs, NEW o \in Orders,
           NEW pc \in {"none", "mark", "release"}, Move(j, o, pc), job[j][o] # "none",
           pc = "release" => orders'[o].creditRestored,
           UNCHANGED <<create, payments, webhookVars, admin>>, faults' \in 0..MaxFaults
    PROVE  IInv'
  <1>1. /\ JobTypeOK'
        /\ job'[j][o] = pc
        /\ \A k \in Jobs, x \in Orders : <<k, x>> # <<j, o>> => job'[k][x] = job[k][x]
    BY JobMoved DEF IInv, TypeOK
  <1>2. PaymentInv' /\ WebhookInv' /\ AdminInv'
    BY HandlersKept DEF IInv, webhookVars
  <1>3. \A k \in Jobs, x \in Orders : job[k][x] # "none" =>
            /\ Exists(x)' /\ create'[x].method # "CREDIT"
            /\ job[k][x] = "release" => orders'[x].creditRestored
    BY DEF IInv, JobInv, RowsKept
  <1>4. JobInv'
    BY <1>1, <1>3 DEF JobInv, Exists
  <1>5. WebhookTypeOK' /\ AdminTypeOK'
    BY DEF IInv, TypeOK, WebhookTypeOK, AdminTypeOK, webhookVars
  <1> QED
    BY <1>1, <1>2, <1>4, <1>5 DEF IInv, TypeOK, StoreInv

LEMMA JobHandler ==
    ASSUME IInv, NEW j \in Jobs, NEW o \in Orders, JobOrderStep(j, o),
           UNCHANGED <<create, payments, webhookVars, admin, faults>>
    PROVE  IInv'
  <1>a. faults' \in 0..MaxFaults
    BY DEF IInv, TypeOK
  <1>1. CASE JobCancel(j, o)
    <2>1. Exists(o) /\ job[j][o] # "none"
      BY <1>1 DEF JobCancel, IInv, JobInv
    <2>2. StoreInv' /\ RowsKept
      BY <1>1, <2>1, StatusStep DEF JobCancel, OrderStatus
    <2> QED
      BY <1>a, <1>1, <2>1, <2>2, JobMoves DEF JobCancel
  <1>2. CASE JobMark(j, o)
    <2>1. StoreInv' /\ RowsKept /\ orders'[o].creditRestored
      BY <1>2, MarkStep DEF JobMark
    <2> QED
      BY <1>a, <1>2, <2>1, JobMoves DEF JobMark
  <1>3. CASE JobRelease(j, o)
    <2>1. StoreInv' /\ RowsKept
      BY <1>3, SettleStep DEF JobRelease, IInv, JobInv
    <2> QED
      BY <1>a, <1>3, <2>1, JobMoves DEF JobRelease
  <1> QED
    BY <1>1, <1>2, <1>3 DEF JobOrderStep

LEMMA JobStarts ==
    ASSUME IInv, NEW j \in Jobs, NEW old \in SUBSET Orders, JobScan(j, old),
           UNCHANGED <<create, payments, webhookVars, admin, faults>>
    PROVE  IInv'
  <1>1. StoreInv' /\ RowsKept
    BY StoreUntouched DEF JobScan, orderVars, IInv, TypeOK, OrderTypeOK
  <1>2. PaymentInv' /\ WebhookInv' /\ AdminInv'
    BY <1>1, HandlersKept DEF IInv, webhookVars
  <1>3. \A x \in Abandoned(old) : x \in Orders /\ Exists(x) /\ create[x].method # "CREDIT"
    BY DEF Abandoned, Exists, IInv, RowInv
  <1>4. /\ JobTypeOK'
        /\ \A x \in Orders : job'[j][x] = IF x \in Abandoned(old) THEN "listed" ELSE "none"
        /\ \A k \in Jobs \ {j} : job'[k] = job[k]
    BY DEF JobScan, JobTypeOK, IInv, TypeOK
  <1>5. JobInv'
    BY <1>3, <1>4 DEF IInv, JobInv, JobScan, orderVars, Exists
  <1>6. WebhookTypeOK' /\ AdminTypeOK' /\ (faults \in 0..MaxFaults)'
    BY DEF IInv, TypeOK, WebhookTypeOK, AdminTypeOK, webhookVars
  <1> QED
    BY <1>1, <1>2, <1>4, <1>5, <1>6 DEF IInv, TypeOK, StoreInv

-----------------------------------------------------------------------------
(* The endpoints of OrdersController. *)

(* An administrator request that moves on, whatever it wrote. *)
LEMMA AdminMoves ==
    ASSUME IInv, StoreInv', RowsKept, NEW r \in AdminRequests, NEW pc \in AdminPc, Go(r, pc),
           pc \notin {"idle", "done"} =>
              Exists(r.order) /\ (r.endpoint = "cancel" => create[r.order].method # "CREDIT"),
           pc \in {"write", "mark", "release"} => r.status # "PENDING",
           pc \in {"mark", "release"} => r.endpoint = "cancel",
           pc = "release" => orders'[r.order].creditRestored,
           UNCHANGED <<create, payments, webhookVars, job>>, faults' \in 0..MaxFaults
    PROVE  IInv'
  <1>1. /\ AdminTypeOK' /\ admin'[r] = pc
        /\ \A x \in AdminRequests \ {r} : admin'[x] = admin[x]
    BY DEF IInv, TypeOK, AdminTypeOK, Go
  <1>2. PaymentInv' /\ WebhookInv' /\ JobInv'
    BY HandlersKept DEF IInv, webhookVars
  <1>3. \A x \in Orders : Exists(x) =>
            /\ Exists(x)' /\ create'[x].method = create[x].method
            /\ orders[x].creditRestored => orders'[x].creditRestored
    BY DEF RowsKept
  <1>4. AdminInv'
    BY <1>1, <1>3, RequestReferences DEF IInv, AdminInv, Exists
  <1>5. WebhookTypeOK' /\ JobTypeOK'
    BY DEF IInv, TypeOK, WebhookTypeOK, JobTypeOK, webhookVars
  <1> QED
    BY <1>1, <1>2, <1>4, <1>5 DEF IInv, TypeOK, StoreInv

LEMMA AdminHandler ==
    ASSUME IInv, NEW r \in AdminRequests,
           AdminCancelRead(r) \/ AdminStatusRequest(r) \/ AdminStep(r),
           UNCHANGED <<create, payments, webhookVars, job, faults>>
    PROVE  IInv'
  <1> DEFINE o == r.order
  <1>a. /\ o \in Orders /\ r.status \in OrderStatus
        /\ faults' \in 0..MaxFaults
        /\ cart \in [Users -> BOOLEAN]
    BY RequestReferences DEF IInv, TypeOK, OrderTypeOK
  <1>b. admin[r] \notin {"idle", "done"} =>
           Exists(o) /\ (r.endpoint = "cancel" => create[o].method # "CREDIT")
    BY DEF IInv, AdminInv
  <1>1. CASE AdminCancelRead(r)
    <2>1. StoreInv' /\ RowsKept
      BY <1>1, <1>a, StoreUntouched DEF AdminCancelRead, orderVars
    <2>2. orders[o].paymentStatus = "PENDING" => Exists(o) /\ create[o].method # "CREDIT"
      BY <1>a DEF Exists, IInv, RowInv
    <2>3. PICK pc \in {"validate", "done"} :
             Go(r, pc) /\ (pc = "validate" => orders[o].paymentStatus = "PENDING")
      BY <1>1 DEF AdminCancelRead
    <2> QED
      BY <1>1, <1>a, <2>1, <2>2, <2>3, AdminMoves DEF AdminPc
  <1>2. CASE AdminStatusRequest(r)
    <2>1. StoreInv' /\ RowsKept
      BY <1>2, <1>a, StoreUntouched DEF AdminStatusRequest, orderVars
    <2> QED
      BY <1>2, <1>a, <2>1, AdminMoves DEF AdminStatusRequest, AdminPc
  <1>3. CASE AdminValidate(r)
    <2>1. StoreInv' /\ RowsKept
      BY <1>3, <1>a, StoreUntouched DEF AdminValidate, orderVars
    <2>2. \A s \in OrderStatus : "PENDING" \notin ValidTransitions[s]
      BY DEF ValidTransitions, OrderStatus
    <2>3. orders[o].paymentStatus \in OrderStatus
      BY <1>3, <1>a, <1>b DEF AdminValidate, Exists, IInv, TypeOK, OrderTypeOK, OrderRow
    <2>4. PICK pc \in {"write", "done"} : Go(r, pc) /\ (pc = "write" => r.status # "PENDING")
      BY <1>3, <2>2, <2>3 DEF AdminValidate
    <2> QED
      BY <1>3, <1>a, <1>b, <2>1, <2>4, AdminMoves DEF AdminValidate, AdminPc
  <1>4. CASE AdminWrite(r)
    <2>1. admin[r] = "write" /\ r.status # "PENDING"
      BY <1>4 DEF AdminWrite, IInv, AdminInv
    <2>2. StoreInv' /\ RowsKept
      BY <1>4, <1>a, <1>b, <2>1, StatusStep DEF AdminWrite
    <2>3. PICK pc \in {"mark", "done"} : Go(r, pc) /\ (pc = "mark" => r.endpoint = "cancel")
      BY <1>4 DEF AdminWrite
    <2> QED
      BY <1>4, <1>a, <1>b, <2>1, <2>2, <2>3, AdminMoves DEF AdminPc
  <1>5. CASE AdminMark(r)
    <2>1. StoreInv' /\ RowsKept /\ orders'[o].creditRestored
      BY <1>5, <1>a, MarkStep DEF AdminMark
    <2> QED
      BY <1>5, <1>a, <1>b, <2>1, AdminMoves DEF AdminMark, AdminPc, IInv, AdminInv
  <1>6. CASE AdminRelease(r)
    <2>1. StoreInv' /\ RowsKept
      BY <1>6, <1>a, SettleStep DEF AdminRelease, IInv, AdminInv
    <2> QED
      BY <1>6, <1>a, <2>1, AdminMoves DEF AdminRelease, AdminPc
  <1> QED
    BY <1>1, <1>2, <1>3, <1>4, <1>5, <1>6 DEF AdminStep

(* The client's cancellation does in one transaction what the others do in *)
(* three statements.                                                       *)
LEMMA ClientHandler ==
    ASSUME IInv, NEW o \in Orders, ClientCancel(o),
           UNCHANGED <<create, payments, webhookVars, job, faults>>
    PROVE  IInv'
  <1>1. /\ OrderTypeOK'
        /\ orders'[o].paymentStatus = "CANCELLED" /\ orders'[o].creditRestored
        /\ \A x \in Orders :
             /\ orders'[x].creditUsed = orders[x].creditUsed
             /\ orders'[x].payable = orders[x].payable
             /\ x # o => orders'[x] = orders[x]
    BY DEF IInv, TypeOK, OrderTypeOK, OrderRow, OrderStatus, ClientCancel
  <1>2. Exists(o) /\ orders[o].creditUsed \in Nat /\ create[o].method # "CREDIT"
    BY DEF ClientCancel, Exists, IInv, RowInv, TypeOK, OrderTypeOK, OrderRow
  <1>3. /\ CreditTypeOK' /\ NoOverdraft'
        /\ \A x \in Orders :
             /\ ledger'[x].deducted = ledger[x].deducted
             /\ ledger'[x].reserved = ledger[x].reserved
             /\ x # o => ledger'[x] = ledger[x]
    <2>1. CASE RefundHold(o, orders[o].creditUsed)
      BY <1>2, <2>1, CreditSettled DEF IInv, TypeOK
    <2>2. CASE UNCHANGED creditVars
      BY <2>2 DEF IInv, TypeOK, CreditTypeOK, NoOverdraft, creditVars
    <2> QED
      BY <2>1, <2>2 DEF ClientCancel
  <1>4. TakingKept
    BY <1>1, <1>2, <1>3 DEF TakingKept, Exists
  <1>5. CheckoutInv' /\ OrderBacked'
    BY <1>4, CheckoutKept DEF IInv
  <1>6. RowInv' /\ RowsKept
    BY <1>1, <1>2, <1>3 DEF IInv, RowInv, RowsKept, Exists
  <1>7. PaymentInv' /\ WebhookInv' /\ JobInv' /\ AdminInv'
    BY <1>6, HandlersKept DEF IInv, ClientCancel, webhookVars
  <1>8. /\ CreateTypeOK' /\ WebhookTypeOK' /\ JobTypeOK' /\ AdminTypeOK'
        /\ (faults \in 0..MaxFaults)'
    BY DEF IInv, TypeOK, CreateTypeOK, WebhookTypeOK, JobTypeOK, AdminTypeOK, ClientCancel,
       webhookVars
  <1> QED
    BY <1>1, <1>3, <1>5, <1>6, <1>7, <1>8 DEF IInv, TypeOK

-----------------------------------------------------------------------------
(* Customers, the provider and administrators, where no order changes.     *)

LEMMA CartStep ==
    ASSUME IInv, NEW u \in Users, SaveCart(u),
           UNCHANGED <<creditVars, create, payments, webhookVars, job, admin, faults>>
    PROVE  IInv'
  <1>1. StoreInv' /\ RowsKept
    BY StoreUntouched DEF SaveCart, IInv, TypeOK, OrderTypeOK
  <1>2. PaymentInv' /\ WebhookInv' /\ JobInv' /\ AdminInv'
    BY <1>1, HandlersKept DEF IInv, webhookVars
  <1>3. WebhookTypeOK' /\ JobTypeOK' /\ AdminTypeOK' /\ (faults \in 0..MaxFaults)'
    BY DEF IInv, TypeOK, WebhookTypeOK, JobTypeOK, AdminTypeOK, webhookVars
  <1> QED
    BY <1>1, <1>2, <1>3 DEF IInv, TypeOK, StoreInv

LEMMA ProviderMoves ==
    ASSUME IInv, NEW p \in Attempts, ProviderStep(p),
           UNCHANGED <<create, job, admin, faults>>
    PROVE  IInv'
  <1>1. StoreInv' /\ RowsKept
    BY StoreUntouched DEF ProviderStep, orderVars, IInv, TypeOK, OrderTypeOK
  <1>2. PICK s \in PaymentStatus : payments' = [payments EXCEPT ![p] = s]
    BY ProviderAssumption DEF ProviderStep
  <1>3. PaymentInv'
    BY <1>2 DEF IInv, PaymentInv, TypeOK, WebhookTypeOK, ProviderStep, orderVars
  <1>4. WebhookInv' /\ JobInv' /\ AdminInv'
    BY <1>1, HandlersKept DEF IInv, ProviderStep, webhookVars
  <1>5. WebhookTypeOK' /\ JobTypeOK' /\ AdminTypeOK' /\ (faults \in 0..MaxFaults)'
    BY <1>2 DEF IInv, TypeOK, WebhookTypeOK, JobTypeOK, AdminTypeOK, ProviderStep, webhookVars
  <1> QED
    BY <1>1, <1>3, <1>4, <1>5 DEF IInv, TypeOK, StoreInv

LEMMA CreditEdit ==
    ASSUME IInv, NEW u \in Users, NEW x \in CreditGrants, AdminSetCredit(u, x),
           UNCHANGED <<orderVars, create, payments, webhookVars, job, admin, faults>>
    PROVE  IInv'
  <1>1. CreditTypeOK' /\ NoOverdraft' /\ UNCHANGED ledger
    BY CreditAssumption DEF IInv, TypeOK, CreditTypeOK, NoOverdraft, AdminSetCredit
  <1>2. RowsKept /\ TakingKept
    BY <1>1 DEF RowsKept, TakingKept, Exists, orderVars
  <1>3. CheckoutInv' /\ OrderBacked'
    BY <1>2, CheckoutKept DEF IInv
  <1>4. RowInv'
    BY <1>1 DEF IInv, RowInv, Exists, orderVars
  <1>5. PaymentInv' /\ WebhookInv' /\ JobInv' /\ AdminInv'
    BY <1>2, HandlersKept DEF IInv, webhookVars
  <1>6. /\ OrderTypeOK' /\ CreateTypeOK' /\ WebhookTypeOK' /\ JobTypeOK' /\ AdminTypeOK'
        /\ (faults \in 0..MaxFaults)'
    BY DEF IInv, TypeOK, OrderTypeOK, CreateTypeOK, WebhookTypeOK, JobTypeOK, AdminTypeOK,
       orderVars, webhookVars
  <1> QED
    BY <1>1, <1>3, <1>4, <1>5, <1>6 DEF IInv, TypeOK

-----------------------------------------------------------------------------
(* Failures and restarts. *)

LEMMA FaultStep ==
    ASSUME IInv, Fault
    PROVE  IInv'
  <1>a. faults' \in 0..MaxFaults
    BY FaultAssumption DEF Fault, IInv, TypeOK
  <1>1. ASSUME NEW o \in Orders, CreateFault(o), UNCHANGED <<payments, webhookVars, job, admin>>
        PROVE  IInv'
    <2>1. UNCHANGED <<creditVars, orders, cart>>
      BY <1>1 DEF CreateFault, orderVars
    <2>2. PICK pc \in {"done", "failed"} : Continue(o, pc)
      BY <1>1 DEF CreateFault
    <2>3. /\ CreateTypeOK' /\ create'[o].pc = pc
          /\ \A x \in Orders : /\ create'[x].method = create[x].method
                               /\ create'[x].used = create[x].used
                               /\ x # o => create'[x] = create[x]
      BY <2>2, CheckoutMoved DEF IInv, TypeOK, CreatePc
    <2>4. CreditTypeOK' /\ OrderTypeOK' /\ NoOverdraft' /\ OrderBacked'
      BY <2>1 DEF IInv, TypeOK, CreditTypeOK, OrderTypeOK, NoOverdraft, OrderBacked, Exists,
         creditVars
    <2>5. CheckoutInv'
      BY <2>1, <2>2, <2>3 DEF IInv, CheckoutInv, Exists, creditVars
    <2>6. RowInv' /\ RowsKept
      BY <2>1, <2>3 DEF IInv, RowInv, RowsKept, Exists, creditVars
    <2>7. PaymentInv' /\ WebhookInv' /\ JobInv' /\ AdminInv'
      BY <1>1, <2>6, HandlersKept DEF IInv, webhookVars
    <2>8. WebhookTypeOK' /\ JobTypeOK' /\ AdminTypeOK'
      BY <1>1 DEF IInv, TypeOK, WebhookTypeOK, JobTypeOK, AdminTypeOK, webhookVars
    <2> QED
      BY <1>a, <2>3, <2>4, <2>5, <2>6, <2>7, <2>8 DEF IInv, TypeOK
  <1>2. ASSUME NEW d \in Deliveries, WebhookFault(d), UNCHANGED <<create, job, admin>>
        PROVE  IInv'
    <2>1. /\ Resume(d, "done")
          /\ UNCHANGED <<creditVars, orders, cart, payments>>
          /\ cart' \in [Users -> BOOLEAN]
      BY <1>2 DEF WebhookFault, orderVars, IInv, TypeOK, OrderTypeOK
    <2>2. d.order \in Orders /\ SubjectOf(d) \in Attempts /\ SubjectOf(d)[1] = d.order
      BY DeliveryReferences
    <2>3. orders[d.order].payable
      BY <1>2, <2>2 DEF WebhookFault, Deliverable, IInv, WebhookInv, PaymentInv
    <2>4. notifications' \in [Notifications -> {"absent", "pending", "processed", "failed"}]
      BY <1>2 DEF WebhookFault, IInv, TypeOK, WebhookTypeOK
    <2>5. /\ webhook' \in [Deliveries -> WebhookStates]
          /\ webhook'[d].pc = "done"
          /\ \A x \in Deliveries \ {d} : webhook'[x] = webhook[x]
      BY <2>1, HandlerMoved DEF IInv, TypeOK, WebhookTypeOK, WebhookStates, WebhookPc
    <2> QED
      BY <1>a, <1>2, <2>1, <2>3, <2>4, <2>5, WebhookMoves DEF WebhookPc
  <1>3. ASSUME NEW j \in Jobs, NEW o \in Orders, JobFault(j, o),
               UNCHANGED <<create, payments, webhookVars, admin>>
        PROVE  IInv'
    <2>1. StoreInv' /\ RowsKept
      BY <1>3, StoreUntouched DEF JobFault, orderVars, IInv, TypeOK, OrderTypeOK
    <2> QED
      BY <1>a, <1>3, <2>1, JobMoves DEF JobFault
  <1>4. ASSUME NEW r \in AdminRequests, AdminFault(r),
               UNCHANGED <<create, payments, webhookVars, job>>
        PROVE  IInv'
    <2>1. StoreInv' /\ RowsKept
      BY <1>4, StoreUntouched DEF AdminFault, orderVars, IInv, TypeOK, OrderTypeOK
    <2> QED
      BY <1>a, <1>4, <2>1, AdminMoves DEF AdminFault, AdminPc
  <1> QED
    BY <1>1, <1>2, <1>3, <1>4 DEF Fault

LEMMA RestartStep ==
    ASSUME IInv, Restart
    PROVE  IInv'
  <1>1. /\ UNCHANGED <<creditVars, orders, cart, payments, notifications>>
        /\ faults' \in 0..MaxFaults
    BY FaultAssumption DEF Restart, orderVars, IInv, TypeOK
  <1>2. /\ CreateTypeOK'
        /\ \A x \in Orders :
             /\ create'[x].method = create[x].method
             /\ create'[x].pc \in {"idle", "done", "failed"}
             /\ create'[x].pc = "idle" => create[x].pc = "idle"
    BY DEF Restart, CreateCrashed, IInv, TypeOK, CreateTypeOK, CreatePc
  <1>3. /\ webhook' \in [Deliveries -> WebhookStates]
        /\ \A d \in Deliveries : /\ webhook'[d].pc \in {"idle", "done"}
                                 /\ webhook[d].pc = "idle" => webhook'[d].pc = "idle"
    BY DEF Restart, WebhookCrashed, IInv, TypeOK, WebhookTypeOK, WebhookStates, WebhookPc
  <1>4. JobTypeOK' /\ \A j \in Jobs, o \in Orders : job'[j][o] = "none"
    BY DEF Restart, JobCrashed, JobTypeOK
  <1>5. AdminTypeOK' /\ \A r \in AdminRequests : admin'[r] \in {"idle", "done"}
    BY DEF Restart, AdminCrashed, AdminTypeOK, AdminPc
  <1>6. CreditTypeOK' /\ OrderTypeOK' /\ WebhookTypeOK' /\ NoOverdraft' /\ OrderBacked'
    BY <1>1, <1>3 DEF IInv, TypeOK, CreditTypeOK, OrderTypeOK, WebhookTypeOK, WebhookStates,
       NoOverdraft, OrderBacked, Exists, creditVars
  <1>7. CheckoutInv' /\ RowInv'
    BY <1>1, <1>2 DEF IInv, CheckoutInv, RowInv, Exists, creditVars
  <1>8. PaymentInv' /\ JobInv' /\ AdminInv'
    BY <1>1, <1>4, <1>5 DEF IInv, PaymentInv, JobInv, AdminInv
  <1>9. WebhookInv'
    BY <1>1, <1>3 DEF IInv, WebhookInv
  <1> QED
    BY <1>1, <1>2, <1>4, <1>5, <1>6, <1>7, <1>8, <1>9 DEF IInv, TypeOK

-----------------------------------------------------------------------------
(* The inductive invariant. *)

LEMMA InitEstablishes == Init => IInv
  <1> SUFFICES ASSUME Init PROVE IInv
    OBVIOUS
  <1> USE DEF Init, CreditInit, OrderInit, CreateInit, WebhookInit, JobInit, AdminInit
  <1>1. CreditTypeOK /\ NoOverdraft
    BY CreditAssumption DEF CreditTypeOK, LedgerEntry, NoOverdraft
  <1>2. OrderTypeOK /\ CreateTypeOK
    BY DEF OrderTypeOK, OrderRow, CreateTypeOK, CreatePc
  <1>3. WebhookTypeOK /\ JobTypeOK /\ AdminTypeOK /\ faults \in 0..MaxFaults
    BY FaultAssumption DEF WebhookTypeOK, WebhookPc, JobTypeOK, AdminTypeOK, AdminPc
  <1>4. \A o \in Orders : ~Exists(o)
    BY DEF Exists
  <1>5. OrderBacked /\ CheckoutInv /\ RowInv
    BY <1>4 DEF OrderBacked, CheckoutInv, RowInv
  <1>6. PaymentInv /\ WebhookInv /\ JobInv /\ AdminInv
    BY DEF PaymentInv, WebhookInv, JobInv, AdminInv
  <1> QED
    BY <1>1, <1>2, <1>3, <1>5, <1>6 DEF IInv, TypeOK

LEMMA NextPreserves == IInv /\ [Next]_vars => IInv'
  <1> SUFFICES ASSUME IInv, [Next]_vars PROVE IInv'
    OBVIOUS
  <1>1. CASE Checkout
    BY <1>1, CheckoutStep DEF Checkout
  <1>2. CASE Customer
    <2>1. ASSUME NEW o \in Orders, ClientCancel(o),
                 UNCHANGED <<create, payments, webhookVars, job, faults>>
          PROVE  IInv'
      BY <2>1, ClientHandler
    <2>2. ASSUME NEW u \in Users, SaveCart(u), UNCHANGED <<creditVars, admin>>,
                 UNCHANGED <<create, payments, webhookVars, job, faults>>
          PROVE  IInv'
      BY <2>2, CartStep
    <2> QED
      BY <1>2, <2>1, <2>2 DEF Customer
  <1>3. CASE Provider
    BY <1>3, ProviderMoves DEF Provider
  <1>4. CASE Webhook
    BY <1>4, WebhookHandler DEF Webhook
  <1>5. CASE AbandonedJob
    BY <1>5, JobStarts, JobHandler DEF AbandonedJob
  <1>6. CASE Administrator
    <2>1. ASSUME NEW r \in AdminRequests,
                 AdminCancelRead(r) \/ AdminStatusRequest(r) \/ AdminStep(r),
                 UNCHANGED <<create, payments, webhookVars, job, faults>>
          PROVE  IInv'
      BY <2>1, AdminHandler
    <2>2. ASSUME NEW u \in Users, NEW x \in CreditGrants, AdminSetCredit(u, x),
                 UNCHANGED <<orderVars, admin>>,
                 UNCHANGED <<create, payments, webhookVars, job, faults>>
          PROVE  IInv'
      BY <2>2, CreditEdit
    <2> QED
      BY <1>6, <2>1, <2>2 DEF Administrator
  <1>7. CASE Fault
    BY <1>7, FaultStep
  <1>8. CASE Restart
    BY <1>8, RestartStep
  <1>9. CASE UNCHANGED vars
    <2>1. UNCHANGED <<creditVars, orders, cart, create, payments, webhookVars, job, admin, faults>>
      BY <1>9 DEF vars, orderVars
    <2>2. StoreInv' /\ RowsKept
      BY <2>1, StoreUntouched DEF IInv, TypeOK, OrderTypeOK
    <2>3. PaymentInv' /\ WebhookInv' /\ JobInv' /\ AdminInv'
      BY <2>1, <2>2, HandlersKept DEF IInv, webhookVars
    <2>4. WebhookTypeOK' /\ JobTypeOK' /\ AdminTypeOK' /\ (faults \in 0..MaxFaults)'
      BY <2>1 DEF IInv, TypeOK, WebhookTypeOK, JobTypeOK, AdminTypeOK, webhookVars
    <2> QED
      BY <2>2, <2>3, <2>4 DEF IInv, TypeOK, StoreInv
  <1> QED
    BY <1>1, <1>2, <1>3, <1>4, <1>5, <1>6, <1>7, <1>8, <1>9 DEF Next

(* IInv holds of every reachable state, for any number of users, orders,   *)
(* deliveries, job runs, requests, failures and restarts.                  *)
THEOREM Invariance == Spec => []IInv
  <1> QED
    BY InitEstablishes, NextPreserves, PTL DEF Spec

(* Every table column and every handler's local state keeps its type: in   *)
(* particular no status outside OrderStatus is ever written to a row.      *)
THEOREM TypeCorrect == Spec => []TypeOK
  <1>1. IInv => TypeOK
    BY DEF IInv
  <1> QED
    BY <1>1, Invariance, PTL

(* No interleaving of checkouts, settlements, edits, failures and restarts *)
(* makes creditValue negative (deductCreditAtomic, reserveCredit).         *)
THEOREM NeverOverdrawn == Spec => []NoOverdraft
  <1>1. IInv => NoOverdraft
    BY DEF IInv
  <1> QED
    BY <1>1, Invariance, PTL

(* The creditUsed of every saved order was taken from its customer first,  *)
(* and exactly once (CreateOrderUseCase.execute).                          *)
THEOREM OrdersBacked == Spec => []OrderBacked
  <1>1. IInv => OrderBacked
    BY DEF IInv
  <1> QED
    BY <1>1, Invariance, PTL

(* Whoever settles an order, its row was flagged credit_restored before    *)
(* any of its credit moved.                                                *)
THEOREM MarkedBeforeSettled == Spec => []MarkBeforeSettle
  <1>1. IInv => MarkBeforeSettle
    BY DEF IInv, RowInv, MarkBeforeSettle
  <1> QED
    BY <1>1, Invariance, PTL

(* No webhook, job, client or administrator ever settles an order that was *)
(* paid entirely with credit, though it is saved before it is flagged.     *)
THEOREM CreditOrdersFinal == Spec => []CreditOrderNeverRefunded
  <1>1. IInv => CreditOrderNeverRefunded
    BY DEF IInv, TypeOK, CreditTypeOK, LedgerEntry, CheckoutInv, RowInv, CreditOrderNeverRefunded
  <1> QED
    BY <1>1, Invariance, PTL

-----------------------------------------------------------------------------
(* Notifications. *)

(* A delivery is handled to the end before the next one of its order, and  *)
(* so the next one of its notification, begins.                            *)
LEMMA WebhookNotice ==
    ASSUME IInv, NoticeInv, OneAtATime, NEW d \in Deliveries,
           (MayStart(d.order) /\ WebhookFind(d)) \/ WebhookStep(d)
    PROVE  NoticeInv'
  <1>a. /\ webhook \in [Deliveries -> WebhookStates]
        /\ notifications \in [Notifications -> {"absent", "pending", "processed", "failed"}]
        /\ \A x \in Deliveries : x.note \in Notifications
        /\ \A x, y \in Deliveries : x.note = y.note => x.order = y.order
    BY DeliveryAssumption DEF IInv, TypeOK, WebhookTypeOK, WebhookStates, Delivery
  <1> USE DEF NoticeInv, DuplicatesIgnored, WebhookBusy
  <1>m. ASSUME NEW pc \in WebhookPc, Resume(d, pc)
        PROVE  /\ webhook'[d].pc = pc
               /\ \A x \in Deliveries : /\ webhook'[x].status = webhook[x].status
                                        /\ x # d => webhook'[x] = webhook[x]
    BY <1>a, <1>m, HandlerMoved DEF WebhookStates
  <1>1. CASE MayStart(d.order) /\ WebhookFind(d)
    <2>1. \A x \in Deliveries : x.order = d.order => webhook[x].pc \in {"idle", "done"}
      BY <1>1 DEF MayStart, InFlightOn, OneAtATime
    <2>2. PICK pc \in {"done", "savePending"} :
             /\ Resume(d, pc) /\ webhook[d].pc = "idle"
             /\ pc = "savePending" => notifications[d.note] # "processed"
      BY <1>1 DEF WebhookFind
    <2>3. UNCHANGED notifications
      BY <1>1 DEF WebhookFind
    <2> QED
      BY <1>a, <1>m, <2>1, <2>2, <2>3 DEF WebhookPc
  <1>2. CASE WebhookSavePending(d)
    <2>1. /\ webhook[d].pc = "savePending" /\ Resume(d, "fetch")
          /\ notifications' = [notifications EXCEPT ![d.note] = "pending"]
      BY <1>2 DEF WebhookSavePending
    <2>2. /\ webhook'[d].pc = "fetch"
          /\ \A x \in Deliveries : /\ webhook'[x].status = webhook[x].status
                                   /\ x # d => webhook'[x] = webhook[x]
      BY <1>m, <2>1 DEF WebhookPc
    <2>3. \A x \in Deliveries : x.note # d.note => notifications'[x.note] = notifications[x.note]
      BY <1>a, <2>1
    <2> QED
      BY <1>a, <2>1, <2>2, <2>3
  <1>3. CASE WebhookFetch(d)
    <2>1. /\ webhook[d].pc = "fetch" /\ webhook'[d].pc = "saveProcessed"
          /\ \A x \in Deliveries \ {d} : webhook'[x] = webhook[x]
          /\ UNCHANGED notifications
      BY <1>3, <1>a DEF WebhookFetch, WebhookStates
    <2> QED
      BY <1>a, <2>1
  <1>4. CASE WebhookSaveProcessed(d)
    <2>1. PICK pc \in {"done", "read"} : Resume(d, pc)
      BY <1>4 DEF WebhookSaveProcessed
    <2>2. /\ webhook[d].pc = "saveProcessed"
          /\ notifications'[d.note] = "processed"
          /\ \A x \in Deliveries : x.note # d.note => notifications'[x.note] = notifications[x.note]
      BY <1>4, <1>a DEF WebhookSaveProcessed
    <2> QED
      BY <1>m, <2>1, <2>2 DEF WebhookPc
  <1>5. CASE \/ WebhookRead(d) \/ WebhookMark(d) \/ WebhookSettle(d)
             \/ WebhookWrite(d) \/ WebhookClearCart(d)
    <2>1. PICK pc \in {"done", "mark", "settle", "write", "clearCart"} : Resume(d, pc)
      BY <1>5 DEF WebhookRead, WebhookMark, WebhookSettle, WebhookWrite, WebhookClearCart
    <2>2. /\ webhook[d].pc \in {"read", "mark", "settle", "write", "clearCart"}
          /\ UNCHANGED notifications
      BY <1>5 DEF WebhookRead, WebhookMark, WebhookSettle, WebhookWrite, WebhookClearCart
    <2> QED
      BY <1>m, <2>1, <2>2 DEF WebhookPc
  <1> QED
    BY <1>1, <1>2, <1>3, <1>4, <1>5 DEF WebhookStep

LEMMA NextNotice ==
    ASSUME IInv, NoticeInv, OneAtATime, [Next]_vars
    PROVE  NoticeInv'
  <1>1. CASE Webhook
    BY <1>1, WebhookNotice DEF Webhook
  <1>2. CASE UNCHANGED webhookVars
    BY <1>2 DEF NoticeInv, DuplicatesIgnored, WebhookBusy, webhookVars
  <1>3. ~Fault /\ ~Restart
    BY DEF OneAtATime, IInv, TypeOK, Fault, Restart
  <1> QED
    BY <1>1, <1>2, <1>3
    DEF Next, Checkout, Customer, Provider, ProviderStep, AbandonedJob, Administrator, vars

LEMMA InitNotice == Init => NoticeInv
  BY DEF Init, WebhookInit, NoticeInv, DuplicatesIgnored, WebhookBusy

(* A notification delivered twice is processed once, if settling handlers  *)
(* of one order do not overlap and nothing fails (findNotificationById and *)
(* the "processed" status ProcessWebhookUseCase saves before it acts).     *)
THEOREM DuplicatesAreIgnored == OneAtATime => (Spec => []DuplicatesIgnored)
  <1> SUFFICES ASSUME OneAtATime PROVE Spec => []DuplicatesIgnored
    OBVIOUS
  <1>1. IInv /\ NoticeInv /\ [Next]_vars => NoticeInv'
    BY NextNotice
  <1>2. NoticeInv => DuplicatesIgnored
    BY DEF NoticeInv
  <1> QED
    BY <1>1, <1>2, InitNotice, Invariance, PTL DEF Spec

-----------------------------------------------------------------------------
(* Approvals. *)

(* Payments of an order follow one another, and one that was approved is   *)
(* the last.                                                               *)
LEMMA AttemptsInOrder ==
    ASSUME IInv, AppliedInv, ApprovalsStand, [Next]_vars
    PROVE  \A p \in Attempts :
              /\ payments'[p] \notin {"authorized", "in_mediation"}
              /\ payments'[p] # "none" =>
                    \A q \in Attempts :
                       q[1] = p[1] /\ q[2] < p[2] => payments'[q] \in {"rejected", "cancelled"}
              /\ payments[p] \in Final => payments'[p] \in Final
  <1>a. payments \in [Attempts -> PaymentStatus \cup {"none"}]
    BY DEF IInv, TypeOK, WebhookTypeOK
  <1>1. CASE UNCHANGED payments
    BY <1>1 DEF AppliedInv
  <1>2. ASSUME NEW t \in Attempts, ProviderStep(t)
        PROVE  \A p \in Attempts :
                  /\ payments'[p] \notin {"authorized", "in_mediation"}
                  /\ payments'[p] # "none" =>
                        \A q \in Attempts :
                           q[1] = p[1] /\ q[2] < p[2] => payments'[q] \in {"rejected", "cancelled"}
                  /\ payments[p] \in Final => payments'[p] \in Final
    <2>1. PICK s \in ProviderNext(payments[t]) \cap ProviderStatuses :
             payments' = [payments EXCEPT ![t] = s]
      BY <1>2 DEF ProviderStep
    <2>2. /\ \A p \in Attempts \ {t} : payments'[p] = payments[p]
          /\ payments'[t] = s
      BY <1>a, <2>1
    <2>3. /\ payments[t] \notin {"rejected", "cancelled"}
          /\ s \notin {"authorized", "in_mediation"}
          /\ payments[t] \in Final => s \in Final
      BY <2>1 DEF ApprovalsStand, ProviderNext, Final
    <2>4. \A q \in Attempts :
             q[1] = t[1] /\ q[2] < t[2] => payments[q] \in {"rejected", "cancelled"}
      <3>1. CASE payments[t] # "none"
        BY <3>1 DEF AppliedInv
      <3>2. CASE payments[t] = "none"
        <4> SUFFICES ASSUME NEW q \in Attempts, q[1] = t[1], q[2] < t[2]
                     PROVE  payments[q] \in {"rejected", "cancelled"}
          OBVIOUS
        <4> DEFINE last == <<t[1], t[2] - 1>>
        <4>1. /\ q = <<q[1], q[2]>> /\ q[2] \in 1..MaxAttempts
              /\ t[1] \in Orders /\ t[2] \in 1..MaxAttempts
          BY DEF Attempts
        <4>2. t[2] > 1 /\ t[2] - 1 \in 1..MaxAttempts
          BY <4>1, AttemptAssumption
        <4>3. last \in Attempts /\ payments[last] \in {"rejected", "cancelled"}
          BY <1>2, <4>1, <4>2 DEF ProviderStep, Attempts
        <4>4. q = last \/ q[2] < last[2]
          BY <4>1, <4>2, AttemptAssumption
        <4>5. ASSUME q[2] < last[2] PROVE payments[q] \in {"rejected", "cancelled"}
          <5>1. payments[last] # "none" /\ last[1] = q[1]
            BY <4>3
          <5> HIDE DEF last
          <5> QED
            BY <4>3, <4>5, <5>1 DEF AppliedInv
        <4> QED
          BY <4>3, <4>4, <4>5
      <3> QED
        BY <3>1, <3>2
    <2>5. ASSUME NEW p \in Attempts, payments'[p] # "none",
                 NEW q \in Attempts, q[1] = p[1], q[2] < p[2]
          PROVE  payments'[q] \in {"rejected", "cancelled"}
      <3>1. q # p /\ (p = t => q # t)
        BY <2>5, AttemptAssumption DEF Attempts
      <3>2. CASE p = t
        BY <2>2, <2>4, <2>5, <3>1, <3>2
      <3>3. CASE p # t
        <4>1. payments[q] \in {"rejected", "cancelled"}
          BY <2>2, <2>5, <3>3 DEF AppliedInv
        <4> QED
          BY <2>2, <2>3, <4>1
      <3> QED
        BY <3>2, <3>3
    <2> QED
      BY <2>2, <2>3, <2>5 DEF AppliedInv
  <1>3. UNCHANGED payments \/ \E t \in Attempts : ProviderStep(t)
    BY DEF Next, Checkout, Customer, Provider, Webhook, WebhookFind, WebhookStep,
       WebhookSavePending, WebhookFetch, WebhookSaveProcessed, WebhookRead, WebhookMark,
       WebhookSettle, WebhookWrite, WebhookClearCart, AbandonedJob, Administrator, Fault,
       WebhookFault, Restart, vars
  <1> QED
    BY <1>1, <1>2, <1>3

(* Only a webhook told so makes an order PENDING again.                    *)
LEMMA PendingWritten ==
    ASSUME IInv, [Next]_vars, NEW o \in Orders,
           orders'[o].paymentStatus = "PENDING", orders[o].paymentStatus # "PENDING", Exists(o)
    PROVE  \E d \in Deliveries : /\ d.order = o
                                 /\ webhook[d].pc = "write" /\ webhook[d].status = "PENDING"
  <1>a. OrderTypeOK
    BY DEF IInv, TypeOK
  <1>b. ASSUME NEW x \in Orders, NEW s \in OrderStatus, UpdateOrderStatus(x, s)
        PROVE  x = o /\ s = "PENDING"
    BY <1>a, <1>b DEF UpdateOrderStatus, OrderTypeOK, OrderRow
  <1>c. ASSUME NEW x \in Orders, MarkCreditRestored(x) \/ UpdateOrderPaymentGatewayId(x)
        PROVE  FALSE
    BY <1>a, <1>c DEF MarkCreditRestored, UpdateOrderPaymentGatewayId, OrderTypeOK, OrderRow
  <1>d. ~UNCHANGED orders
    OBVIOUS
  <1>1. ASSUME NEW x \in Orders, CreateStep(x)
        PROVE  FALSE
    <2>1. CASE CreateSave(x)
      <3>1. x # o
        BY <2>1 DEF CreateSave, At, IInv, CheckoutInv
      <3> QED
        BY <1>a, <2>1, <3>1 DEF CreateSave, SaveOrder, OrderTypeOK
    <2> QED
      BY <1>1, <1>c, <1>d, <2>1 DEF CreateStep, CreateBegin, CreateDeduct, CreateReserve,
         CreateMark, CreateClearCart, CreatePreference, CreateSetGateway, orderVars
  <1>2. ASSUME NEW d \in Deliveries, WebhookFind(d) \/ WebhookStep(d)
        PROVE  d.order = o /\ webhook[d].pc = "write" /\ webhook[d].status = "PENDING"
    <2>1. d.order \in Orders
      BY DeliveryReferences
    <2>2. CASE WebhookWrite(d)
      <3>1. webhook[d].status \in OrderStatus
        BY <2>2 DEF WebhookWrite, IInv, TypeOK, WebhookTypeOK, WebhookInv
      <3> QED
        BY <1>b, <2>1, <2>2, <3>1 DEF WebhookWrite
    <2> QED
      BY <1>2, <1>c, <1>d, <2>1, <2>2 DEF WebhookFind, WebhookStep, WebhookSavePending,
         WebhookFetch, WebhookSaveProcessed, WebhookRead, WebhookMark, WebhookSettle,
         WebhookClearCart, orderVars
  <1>3. ASSUME NEW j \in Jobs, NEW x \in Orders, JobOrderStep(j, x)
        PROVE  FALSE
    BY <1>3, <1>b, <1>c, <1>d DEF JobOrderStep, JobCancel, JobMark, JobRelease, OrderStatus,
       orderVars
  <1>4. ASSUME NEW r \in AdminRequests, AdminCancelRead(r) \/ AdminStatusRequest(r) \/ AdminStep(r)
        PROVE  FALSE
    <2>1. r.order \in Orders /\ r.status \in OrderStatus
      BY RequestReferences
    <2>2. CASE AdminWrite(r)
      BY <1>b, <2>1, <2>2 DEF AdminWrite, IInv, AdminInv
    <2> QED
      BY <1>4, <1>c, <1>d, <2>1, <2>2 DEF AdminCancelRead, AdminStatusRequest, AdminStep,
         AdminValidate, AdminMark, AdminRelease, orderVars
  <1>5. ASSUME NEW x \in Orders, ClientCancel(x)
        PROVE  FALSE
    BY <1>5, <1>a DEF ClientCancel, OrderTypeOK, OrderRow
  <1>6. \/ \E x \in Orders : CreateStep(x)
        \/ \E d \in Deliveries : WebhookFind(d) \/ WebhookStep(d)
        \/ \E j \in Jobs, x \in Orders : JobOrderStep(j, x)
        \/ \E r \in AdminRequests : AdminCancelRead(r) \/ AdminStatusRequest(r) \/ AdminStep(r)
        \/ \E x \in Orders : ClientCancel(x)
    BY <1>d DEF Next, Checkout, Customer, SaveCart, Provider, ProviderStep, Webhook,
       AbandonedJob, JobScan, Administrator, Fault, CreateFault, WebhookFault, JobFault,
       AdminFault, Restart, vars, orderVars
  <1> QED
    BY <1>1, <1>2, <1>3, <1>4, <1>5, <1>6

(* What a handler that was told APPROVED has done, and will do, of it.     *)
LEMMA ApprovalsAhead ==
    ASSUME IInv, NoticeInv, AppliedInv, ApprovalsStand, [Next]_vars
    PROVE  /\ \A d \in Deliveries :
                 webhook'[d].status = "APPROVED" =>
                    /\ payments'[SubjectOf(d)] \in Final
                    /\ \/ webhook'[d].pc \in {"saveProcessed", "read", "mark", "settle", "write"}
                       \/ orders'[d.order].paymentStatus # "PENDING"
           /\ \A d, e \in Deliveries :
                 webhook'[d].status = "APPROVED" /\ d.order = e.order /\ WebhookBusy(e)' =>
                    webhook'[e].status # "PENDING"
  <1> DEFINE Ahead(pc) == pc \in {"saveProcessed", "read", "mark", "settle", "write"}
             Told(d) == /\ webhook'[d].status = "APPROVED" =>
                              /\ payments'[SubjectOf(d)] \in Final
                              /\ \/ Ahead(webhook'[d].pc)
                                 \/ orders'[d.order].paymentStatus # "PENDING"
             Agree(d, e) == webhook'[d].status = "APPROVED" /\ d.order = e.order /\ WebhookBusy(e)'
                               => webhook'[e].status # "PENDING"
  <1>a. /\ webhook \in [Deliveries -> WebhookStates]
        /\ payments \in [Attempts -> PaymentStatus \cup {"none"}]
        /\ \A d \in Deliveries : d.order \in Orders /\ SubjectOf(d) \in Attempts
    BY DeliveryReferences DEF IInv, TypeOK, WebhookTypeOK, WebhookStates
  <1>b. \A d \in Deliveries : webhook[d].status = "APPROVED" =>
           /\ Exists(d.order)
           /\ payments'[SubjectOf(d)] \in Final
           /\ orders[d.order].paymentStatus # "PENDING" =>
                 orders'[d.order].paymentStatus # "PENDING"
    <2> SUFFICES ASSUME NEW d \in Deliveries, webhook[d].status = "APPROVED"
                 PROVE  /\ Exists(d.order)
                        /\ payments'[SubjectOf(d)] \in Final
                        /\ orders[d.order].paymentStatus # "PENDING" =>
                              orders'[d.order].paymentStatus # "PENDING"
      OBVIOUS
    <2>1. webhook[d].pc # "idle"
      BY DEF NoticeInv
    <2>2. Exists(d.order)
      BY <1>a, <2>1 DEF IInv, WebhookInv, RowInv
    <2>3. payments'[SubjectOf(d)] \in Final
      BY <1>a, AttemptsInOrder DEF AppliedInv
    <2>4. ~\E e \in Deliveries : /\ e.order = d.order
                                 /\ webhook[e].pc = "write" /\ webhook[e].status = "PENDING"
      BY DEF AppliedInv, WebhookBusy
    <2> QED
      BY <1>a, <2>2, <2>3, <2>4, PendingWritten
  <1>c. ASSUME \A d \in Deliveries :
                  /\ webhook'[d].status = webhook[d].status
                  /\ WebhookBusy(d)' => WebhookBusy(d) \/ webhook[d].status = "NULL"
                  /\ webhook[d].status = "APPROVED" /\ Ahead(webhook[d].pc) =>
                        Ahead(webhook'[d].pc) \/ orders'[d.order].paymentStatus # "PENDING"
        PROVE  \A d, e \in Deliveries : Told(d) /\ Agree(d, e)
    <2>1. \A d \in Deliveries : Told(d)
      BY <1>b, <1>c DEF AppliedInv
    <2>2. \A d, e \in Deliveries : Agree(d, e)
      BY <1>c DEF AppliedInv
    <2> QED
      BY <2>1, <2>2
  <1>m. ASSUME NEW d \in Deliveries, NEW pc \in WebhookPc, Resume(d, pc),
               webhook[d].pc \in {"idle", "done"} => webhook[d].status = "NULL",
               webhook[d].status = "APPROVED" /\ Ahead(webhook[d].pc) =>
                  Ahead(pc) \/ orders'[d.order].paymentStatus # "PENDING"
        PROVE  \A x, y \in Deliveries : Told(x) /\ Agree(x, y)
    <2>1. /\ webhook'[d].pc = pc
          /\ \A x \in Deliveries : /\ webhook'[x].status = webhook[x].status
                                   /\ x # d => webhook'[x] = webhook[x]
      BY <1>a, <1>m, HandlerMoved DEF WebhookStates
    <2> HIDE DEF Told, Agree
    <2> QED
      BY <1>c, <1>m, <2>1 DEF WebhookBusy
  <1>1. ASSUME NEW d \in Deliveries, WebhookFetch(d)
        PROVE  \A x, y \in Deliveries : Told(x) /\ Agree(x, y)
    <2>1. /\ \A x \in Deliveries \ {d} : webhook'[x] = webhook[x]
          /\ webhook'[d].status = MapPaymentStatusToOrderStatus(payments[SubjectOf(d)])
          /\ webhook[d].pc = "fetch" /\ webhook'[d].pc = "saveProcessed"
          /\ UNCHANGED payments
      BY <1>a, <1>1 DEF WebhookFetch, WebhookStates
    <2>2. /\ payments[SubjectOf(d)] \in PaymentStatus \cup {"none"}
          /\ payments[SubjectOf(d)] \notin {"authorized", "in_mediation"}
      BY <1>a DEF AppliedInv
    <2>3. /\ webhook'[d].status = "APPROVED" => payments[SubjectOf(d)] \in Final
          /\ webhook'[d].status = "PENDING" =>
                payments[SubjectOf(d)] \notin Final \cup {"none", "rejected", "cancelled"}
      BY <2>1, <2>2 DEF MapPaymentStatusToOrderStatus, PaymentStatus, Final
    <2>4. \A x \in Deliveries : Told(x)
      BY <1>b, <2>1, <2>3 DEF AppliedInv
    <2>5. \A y \in Deliveries : y.order = d.order /\ WebhookBusy(y)' => y = d
      BY <2>1 DEF NoticeInv, WebhookBusy
    <2>6. ASSUME NEW x \in Deliveries, x # d, x.order = d.order, webhook'[x].status = "APPROVED"
          PROVE  webhook'[d].status # "PENDING"
      <3>1. payments[SubjectOf(x)] \in Final
        BY <2>1, <2>6 DEF AppliedInv
      <3>2. /\ SubjectOf(x) \in Attempts /\ SubjectOf(d) \in Attempts
            /\ SubjectOf(x) = <<d.order, SubjectOf(x)[2]>>
            /\ SubjectOf(d) = <<d.order, SubjectOf(d)[2]>>
            /\ SubjectOf(x)[2] \in Nat /\ SubjectOf(d)[2] \in Nat
        BY <1>a, <2>6, AttemptAssumption DEF Attempts, SubjectOf
      <3>3. CASE SubjectOf(x)[2] = SubjectOf(d)[2]
        BY <2>3, <3>1, <3>2, <3>3
      <3>4. CASE SubjectOf(d)[2] < SubjectOf(x)[2]
        <4>1. payments[SubjectOf(d)] \in {"rejected", "cancelled"}
          BY <3>1, <3>2, <3>4 DEF AppliedInv, Final
        <4> QED
          BY <2>3, <4>1
      <3>5. CASE SubjectOf(x)[2] < SubjectOf(d)[2]
        <4>1. payments[SubjectOf(d)] = "none"
          BY <3>1, <3>2, <3>5 DEF AppliedInv, Final
        <4> QED
          BY <2>3, <4>1
      <3> QED
        BY <3>2, <3>3, <3>4, <3>5
    <2>7. \A x, y \in Deliveries : Agree(x, y)
      <3>1. ASSUME NEW x \in Deliveries, NEW y \in Deliveries, x.order = d.order PROVE Agree(x, y)
        BY <2>5, <2>6, <3>1
      <3>2. ASSUME NEW x \in Deliveries, NEW y \in Deliveries, x.order # d.order PROVE Agree(x, y)
        BY <2>1, <3>2 DEF AppliedInv, WebhookBusy
      <3> QED
        BY <3>1, <3>2
    <2> QED
      BY <2>4, <2>7
  <1>2. ASSUME NEW d \in Deliveries, WebhookWrite(d)
        PROVE  \A x, y \in Deliveries : Told(x) /\ Agree(x, y)
    <2>1. /\ webhook[d].pc = "write" /\ UpdateOrderStatus(d.order, webhook[d].status)
          /\ UNCHANGED cart
      BY <1>2 DEF WebhookWrite
    <2>2. webhook[d].status \in OrderStatus
      BY <1>a, <2>1 DEF IInv, WebhookInv, WebhookStates
    <2>3. orders'[d.order].paymentStatus = webhook[d].status
      BY <1>a, <2>1, <2>2, StatusWritten DEF IInv, TypeOK
    <2>4. PICK pc \in WebhookPc : Resume(d, pc)
      BY <1>2 DEF WebhookWrite, WebhookPc
    <2> HIDE DEF Told, Agree
    <2> QED
      BY <1>m, <2>1, <2>3, <2>4
  <1>3. ASSUME NEW d \in Deliveries,
               \/ WebhookFind(d) \/ WebhookSavePending(d) \/ WebhookSaveProcessed(d)
               \/ WebhookRead(d) \/ WebhookMark(d) \/ WebhookSettle(d) \/ WebhookClearCart(d)
        PROVE  \A x, y \in Deliveries : Told(x) /\ Agree(x, y)
    <2>1. webhook[d].pc = "idle" => webhook[d].status = "NULL"
      BY DEF NoticeInv
    <2>2. webhook[d].pc # "done"
      BY <1>3 DEF WebhookFind, WebhookSavePending, WebhookSaveProcessed, WebhookRead, WebhookMark,
         WebhookSettle, WebhookClearCart
    <2>3. PICK pc \in WebhookPc :
             /\ Resume(d, pc)
             /\ webhook[d].status = "APPROVED" /\ Ahead(webhook[d].pc) => Ahead(pc)
      BY <1>3, <1>b DEF WebhookFind, WebhookSavePending, WebhookSaveProcessed, WebhookRead,
         WebhookMark, WebhookSettle, WebhookClearCart, WebhookPc
    <2> HIDE DEF Told, Agree
    <2> QED
      BY <1>m, <2>1, <2>2, <2>3
  <1>4. ASSUME UNCHANGED webhook
        PROVE  \A x, y \in Deliveries : Told(x) /\ Agree(x, y)
    <2>1. \A d \in Deliveries : /\ webhook'[d] = webhook[d]
                                /\ WebhookBusy(d)' => WebhookBusy(d)
      BY <1>4 DEF WebhookBusy
    <2> HIDE DEF Told, Agree
    <2> QED
      BY <1>c, <2>1
  <1>5. ~Fault /\ ~Restart
    BY DEF ApprovalsStand, OneAtATime, IInv, TypeOK, Fault, Restart
  <1>6. UNCHANGED webhook \/ \E d \in Deliveries : WebhookFind(d) \/ WebhookStep(d)
    BY <1>5 DEF Next, Checkout, Customer, Provider, ProviderStep, Webhook, AbandonedJob,
       Administrator, vars, webhookVars
  <1>7. ASSUME NEW d \in Deliveries, WebhookFind(d) \/ WebhookStep(d)
        PROVE  \A x, y \in Deliveries : Told(x) /\ Agree(x, y)
    <2> HIDE DEF Told, Agree
    <2> QED
      BY <1>7, <1>1, <1>2, <1>3 DEF WebhookStep
  <1>8. \A x, y \in Deliveries : Told(x) /\ Agree(x, y)
    <2> HIDE DEF Told, Agree
    <2> QED
      BY <1>4, <1>6, <1>7
  <1> QED
    BY <1>8

LEMMA NextApplied ==
    ASSUME IInv, NoticeInv, AppliedInv, ApprovalsStand, [Next]_vars
    PROVE  AppliedInv'
  BY AttemptsInOrder, ApprovalsAhead DEF AppliedInv

LEMMA InitApplied == Init => AppliedInv
  BY DEF Init, WebhookInit, AppliedInv

(* If settling handlers of one order do not overlap, nothing fails and the *)
(* provider never takes an approval back to waiting, a webhook answered    *)
(* "processed successfully" has been applied (ProcessWebhookUseCase marks  *)
(* the notification before it touches the order): what can lose a payment  *)
(* is a failure or an overlap, not a late, repeated or reordered delivery. *)
THEOREM ApprovalsApplied == ApprovalsStand => (Spec => []ProcessedMeansApplied)
  <1> SUFFICES ASSUME ApprovalsStand PROVE Spec => []ProcessedMeansApplied
    OBVIOUS
  <1>1. IInv /\ NoticeInv /\ [Next]_vars => NoticeInv'
    BY NextNotice DEF ApprovalsStand
  <1>2. IInv /\ NoticeInv /\ AppliedInv /\ [Next]_vars => AppliedInv'
    BY NextApplied
  <1>3. IInv /\ AppliedInv => ProcessedMeansApplied
    BY DEF AppliedInv, ProcessedMeansApplied, InFlightOn, WebhookBusy
  <1> QED
    BY <1>1, <1>2, <1>3, InitNotice, InitApplied, Invariance, PTL DEF Spec

-----------------------------------------------------------------------------
(* The cart. *)

(* A row once there stays, with the method it was paid by. *)
LEMMA RowsStay ==
    ASSUME IInv, [Next]_vars
    PROVE  \A x \in Orders : Exists(x) => Exists(x)' /\ create'[x].method = create[x].method
  <1>a. /\ OrderTypeOK /\ CreateTypeOK
        /\ \A o \in Orders : create[o].pc = "idle" => ~Exists(o)
        /\ \A d \in Deliveries : d.order \in Orders
        /\ \A r \in AdminRequests : r.order \in Orders /\ r.status \in OrderStatus
    BY DeliveryReferences, RequestReferences DEF IInv, TypeOK, CheckoutInv
  <1>b. ASSUME NEW o \in Orders, NEW s \in OrderStatus,
               \/ UpdateOrderStatus(o, s) \/ MarkCreditRestored(o)
               \/ UpdateOrderPaymentGatewayId(o) \/ UNCHANGED orders
        PROVE  \A x \in Orders : Exists(x) => Exists(x)'
    BY <1>a, <1>b
    DEF OrderTypeOK, OrderRow, OrderStatus, Exists, UpdateOrderStatus, MarkCreditRestored,
        UpdateOrderPaymentGatewayId
  <1>c. ASSUME NEW o \in Orders, NEW pc \in CreatePc, Continue(o, pc)
        PROVE  \A x \in Orders : create'[x].method = create[x].method
    BY <1>a, <1>c, CheckoutMoved
  <1>1. CASE Checkout
    <2>1. PICK o \in Orders : CreateStep(o)
      BY <1>1 DEF Checkout
    <2>2. CASE CreateBegin(o)
      <3>1. \A x \in Orders \ {o} : create'[x] = create[x]
        BY <1>a, <2>2 DEF CreateBegin, Take, CreateTypeOK
      <3> QED
        BY <1>a, <2>2, <3>1 DEF CreateBegin, At, Exists, orderVars
    <2>3. CASE CreateSave(o)
      <3>1. \A x \in Orders : create'[x].method = create[x].method
        BY <1>c, <2>3 DEF CreateSave, CreatePc
      <3>2. PICK s \in {"PENDING", "APPROVED"} : SaveOrder(o, s, create[o].used)
        BY <2>3 DEF CreateSave
      <3>3. \A x \in Orders : Exists(x) => Exists(x)'
        BY <1>a, <3>2 DEF SaveOrder, OrderTypeOK, OrderRow, Exists
      <3> QED
        BY <3>1, <3>3
    <2>4. CASE \/ CreateDeduct(o) \/ CreateReserve(o) \/ CreateMark(o) \/ CreateClearCart(o)
               \/ CreatePreference(o) \/ CreateSetGateway(o)
      <3>1. PICK pc \in CreatePc : Continue(o, pc)
        BY <2>4 DEF CreateDeduct, CreateReserve, CreateMark, CreateClearCart, CreatePreference,
           CreateSetGateway, CreatePc
      <3>2. \A x \in Orders : Exists(x) => Exists(x)'
        BY <1>b, <2>4 DEF CreateDeduct, CreateReserve, CreateMark, CreateClearCart,
           CreatePreference, CreateSetGateway, OrderStatus, orderVars
      <3> QED
        BY <1>c, <3>1, <3>2
    <2> QED
      BY <2>1, <2>2, <2>3, <2>4 DEF CreateStep
  <1>2. CASE Webhook
    <2>1. PICK d \in Deliveries : WebhookFind(d) \/ WebhookStep(d)
      BY <1>2 DEF Webhook
    <2>2. webhook[d].pc = "write" => webhook[d].status \in OrderStatus
      BY DEF IInv, TypeOK, WebhookTypeOK, WebhookInv
    <2>3. \A x \in Orders : Exists(x) => Exists(x)'
      BY <1>a, <1>b, <2>1, <2>2 DEF WebhookFind, WebhookStep, WebhookSavePending, WebhookFetch,
         WebhookSaveProcessed, WebhookRead, WebhookMark, WebhookSettle, WebhookWrite,
         WebhookClearCart, OrderStatus, orderVars
    <2> QED
      BY <1>2, <2>3 DEF Webhook
  <1>3. CASE AbandonedJob
    <2>1. \A x \in Orders : Exists(x) => Exists(x)'
      BY <1>b, <1>3 DEF AbandonedJob, JobScan, JobOrderStep, JobCancel, JobMark, JobRelease,
         OrderStatus, orderVars
    <2> QED
      BY <1>3, <2>1 DEF AbandonedJob
  <1>4. CASE Administrator
    <2>1. ASSUME NEW r \in AdminRequests,
                 AdminCancelRead(r) \/ AdminStatusRequest(r) \/ AdminStep(r)
          PROVE  \A x \in Orders : Exists(x) => Exists(x)'
      <3>1. \/ UNCHANGED orders
            \/ UpdateOrderStatus(r.order, r.status)
            \/ MarkCreditRestored(r.order)
        BY <2>1 DEF AdminCancelRead, AdminStatusRequest, AdminStep, AdminValidate, AdminWrite,
           AdminMark, AdminRelease, orderVars
      <3> QED
        BY <1>a, <1>b, <3>1
    <2>2. ASSUME NEW u \in Users, NEW g \in CreditGrants, AdminSetCredit(u, g),
                 UNCHANGED <<orderVars, admin>>
          PROVE  \A x \in Orders : Exists(x) => Exists(x)'
      BY <2>2 DEF Exists, orderVars
    <2>3. \A x \in Orders : Exists(x) => Exists(x)'
      BY <1>4, <2>1, <2>2 DEF Administrator
    <2> QED
      BY <1>4, <2>3 DEF Administrator
  <1>5. CASE Customer
    <2>1. ASSUME NEW o \in Orders, ClientCancel(o)
          PROVE  \A x \in Orders : Exists(x) => Exists(x)'
      <3>1. /\ orders'[o].paymentStatus = "CANCELLED"
            /\ \A x \in Orders \ {o} : orders'[x] = orders[x]
        BY <1>a, <2>1 DEF ClientCancel, OrderTypeOK, OrderRow
      <3> QED
        BY <3>1 DEF Exists
    <2>2. ASSUME NEW u \in Users, SaveCart(u)
          PROVE  \A x \in Orders : Exists(x) => Exists(x)'
      BY <2>2 DEF SaveCart, Exists
    <2> QED
      BY <1>5, <2>1, <2>2 DEF Customer
  <1>6. CASE Fault
    <2>1. UNCHANGED orders
      BY <1>6 DEF Fault, CreateFault, WebhookFault, JobFault, AdminFault, orderVars
    <2>2. \A x \in Orders : create'[x].method = create[x].method
      BY <1>c, <1>6 DEF Fault, CreateFault, CreatePc
    <2> QED
      BY <2>1, <2>2 DEF Exists
  <1>7. CASE Restart
    BY <1>a, <1>7 DEF Restart, CreateCrashed, CreateTypeOK, Exists, orderVars
  <1>8. CASE Provider \/ UNCHANGED vars
    BY <1>8 DEF Provider, ProviderStep, vars, Exists, orderVars
  <1> QED
    BY <1>1, <1>2, <1>3, <1>4, <1>5, <1>6, <1>7, <1>8 DEF Next

NoAuthorizations == "authorized" \notin ProviderStatuses

(* What was approved once is told by the payment for ever. *)
LEMMA PaidStays ==
    ASSUME IInv, CartInv, NoAuthorizations, [Next]_vars
    PROVE  /\ \A p \in Attempts : /\ payments'[p] # "authorized"
                                  /\ payments[p] \in EverPaid => payments'[p] \in EverPaid
           /\ \A o \in Orders : EverApproved(o) => EverApproved(o)'
  <1>1. \A p \in Attempts : /\ payments'[p] # "authorized"
                            /\ payments[p] \in EverPaid => payments'[p] \in EverPaid
    <2>1. CASE UNCHANGED payments
      BY <2>1 DEF CartInv
    <2>2. ASSUME NEW q \in Attempts, ProviderStep(q)
          PROVE  \A p \in Attempts : /\ payments'[p] # "authorized"
                                     /\ payments[p] \in EverPaid => payments'[p] \in EverPaid
      <3>1. PICK s \in ProviderNext(payments[q]) \cap ProviderStatuses :
               payments' = [payments EXCEPT ![q] = s]
        BY <2>2 DEF ProviderStep
      <3>2. /\ \A p \in Attempts \ {q} : payments'[p] = payments[p]
            /\ payments'[q] = s /\ s # "authorized"
        BY <3>1 DEF NoAuthorizations, IInv, TypeOK, WebhookTypeOK
      <3>3. payments[q] \in EverPaid => s \in EverPaid
        BY <3>1 DEF ProviderNext, EverPaid
      <3> QED
        BY <3>2, <3>3 DEF CartInv
    <2>3. UNCHANGED payments \/ \E q \in Attempts : ProviderStep(q)
      BY DEF Next, Checkout, Customer, Provider, Webhook, WebhookFind, WebhookStep,
         WebhookSavePending, WebhookFetch, WebhookSaveProcessed, WebhookRead, WebhookMark,
         WebhookSettle, WebhookWrite, WebhookClearCart, AbandonedJob, Administrator, Fault,
         WebhookFault, Restart, vars
    <2> QED
      BY <2>1, <2>2, <2>3
  <1>2. ASSUME NEW o \in Orders, EverApproved(o)
        PROVE  EverApproved(o)'
    <2>1. CASE Exists(o) /\ create[o].method # "MERCADO_PAGO"
      BY <2>1, RowsStay DEF EverApproved
    <2>2. CASE \E i \in 1..MaxAttempts : payments[<<o, i>>] \in EverPaid
      <3>1. PICK i \in 1..MaxAttempts : payments[<<o, i>>] \in EverPaid
        BY <2>2
      <3>2. payments'[<<o, i>>] \in EverPaid
        BY <1>1, <3>1 DEF Attempts
      <3> QED
        BY <3>2 DEF EverApproved, EverPaid
    <2> QED
      BY <1>2, <2>1, <2>2 DEF EverApproved, EverPaid
  <1> QED
    BY <1>1, <1>2

(* What a webhook handler knows of its payment. *)
LEMMA ApprovalsKnown ==
    ASSUME IInv, CartInv, NoAuthorizations, [Next]_vars
    PROVE  \A d \in Deliveries :
              /\ webhook'[d].status = "APPROVED" => payments'[SubjectOf(d)] \in EverPaid
              /\ webhook'[d].pc = "clearCart" => webhook'[d].status = "APPROVED"
  <1>a. /\ webhook \in [Deliveries -> WebhookStates]
        /\ \A d \in Deliveries : SubjectOf(d) \in Attempts
    BY DeliveryReferences DEF IInv, TypeOK, WebhookTypeOK, WebhookStates
  <1>b. ASSUME \A d \in Deliveries :
                  /\ webhook'[d].status = webhook[d].status
                  /\ webhook'[d].pc = "clearCart" =>
                        webhook[d].pc = "clearCart" \/ webhook[d].status = "APPROVED"
        PROVE  \A d \in Deliveries :
                  /\ webhook'[d].status = "APPROVED" => payments'[SubjectOf(d)] \in EverPaid
                  /\ webhook'[d].pc = "clearCart" => webhook'[d].status = "APPROVED"
    BY <1>a, <1>b, PaidStays DEF CartInv
  <1>m. ASSUME NEW d \in Deliveries, NEW pc \in WebhookPc, Resume(d, pc),
               pc = "clearCart" => webhook[d].status = "APPROVED"
        PROVE  \A x \in Deliveries :
                  /\ webhook'[x].status = webhook[x].status
                  /\ webhook'[x].pc = "clearCart" =>
                        webhook[x].pc = "clearCart" \/ webhook[x].status = "APPROVED"
    BY <1>a, <1>m, HandlerMoved DEF WebhookStates
  <1>1. ASSUME NEW d \in Deliveries, WebhookFetch(d)
        PROVE  \A x \in Deliveries :
                  /\ webhook'[x].status = "APPROVED" => payments'[SubjectOf(x)] \in EverPaid
                  /\ webhook'[x].pc = "clearCart" => webhook'[x].status = "APPROVED"
    <2>1. /\ \A x \in Deliveries \ {d} : webhook'[x] = webhook[x]
          /\ webhook'[d].status = MapPaymentStatusToOrderStatus(payments[SubjectOf(d)])
          /\ webhook'[d].pc = "saveProcessed" /\ UNCHANGED payments
      BY <1>a, <1>1 DEF WebhookFetch
    <2>2. payments[SubjectOf(d)] \in PaymentStatus \cup {"none"}
      BY <1>a DEF IInv, TypeOK, WebhookTypeOK
    <2>3. webhook'[d].status = "APPROVED" => payments[SubjectOf(d)] \in EverPaid
      BY <1>a, <2>1, <2>2 DEF MapPaymentStatusToOrderStatus, PaymentStatus, EverPaid, CartInv
    <2> QED
      BY <2>1, <2>3 DEF CartInv
  <1>2. ASSUME NEW d \in Deliveries,
               \/ WebhookFind(d) \/ WebhookSavePending(d) \/ WebhookSaveProcessed(d)
               \/ WebhookRead(d) \/ WebhookMark(d) \/ WebhookSettle(d) \/ WebhookWrite(d)
               \/ WebhookClearCart(d) \/ WebhookFault(d)
        PROVE  \A x \in Deliveries :
                  /\ webhook'[x].status = "APPROVED" => payments'[SubjectOf(x)] \in EverPaid
                  /\ webhook'[x].pc = "clearCart" => webhook'[x].status = "APPROVED"
    <2>1. PICK pc \in WebhookPc :
             Resume(d, pc) /\ (pc = "clearCart" => webhook[d].status = "APPROVED")
      BY <1>2 DEF WebhookFind, WebhookSavePending, WebhookSaveProcessed, WebhookRead, WebhookMark,
         WebhookSettle, WebhookWrite, WebhookClearCart, WebhookFault, WebhookPc
    <2> QED
      BY <1>b, <1>m, <2>1
  <1>3. CASE UNCHANGED webhook
    BY <1>b, <1>3
  <1>4. CASE Restart
    <2>1. \A d \in Deliveries : /\ webhook'[d].status = webhook[d].status
                                /\ webhook'[d].pc # "clearCart"
      BY <1>a, <1>4 DEF Restart, WebhookCrashed, WebhookStates
    <2> QED
      BY <1>b, <2>1
  <1>5. \/ UNCHANGED webhook \/ Restart
        \/ \E d \in Deliveries : WebhookFind(d) \/ WebhookStep(d) \/ WebhookFault(d)
    BY DEF Next, Checkout, Customer, Provider, ProviderStep, Webhook, AbandonedJob,
       Administrator, Fault, vars, webhookVars
  <1> QED
    BY <1>1, <1>2, <1>3, <1>4, <1>5 DEF WebhookStep

(* A checkout that clears the cart needed no payment. *)
LEMMA ClearsUnpaid ==
    ASSUME IInv, CartInv, [Next]_vars
    PROVE  \A o \in Orders :
              create'[o].pc \in {"mark", "clearCart"} => create'[o].method # "MERCADO_PAGO"
  <1>a. CreateTypeOK
    BY DEF IInv, TypeOK
  <1>c. ASSUME NEW o \in Orders, NEW pc \in CreatePc, Continue(o, pc),
               pc \in {"mark", "clearCart"} => create[o].method # "MERCADO_PAGO"
        PROVE  \A x \in Orders :
                  create'[x].pc \in {"mark", "clearCart"} => create'[x].method # "MERCADO_PAGO"
    BY <1>a, <1>c, CheckoutMoved DEF CartInv
  <1>1. CASE UNCHANGED create
    BY <1>1 DEF CartInv
  <1>2. ASSUME NEW o \in Orders, CreateBegin(o)
        PROVE  \A x \in Orders :
                  create'[x].pc \in {"mark", "clearCart"} => create'[x].method # "MERCADO_PAGO"
    <2>1. /\ create'[o].pc \notin {"mark", "clearCart"}
          /\ \A x \in Orders \ {o} : create'[x] = create[x]
      BY <1>a, <1>2 DEF CreateBegin, Take, CreateTypeOK
    <2> QED
      BY <2>1 DEF CartInv
  <1>3. ASSUME NEW o \in Orders, CreateMark(o)
        PROVE  \A x \in Orders :
                  create'[x].pc \in {"mark", "clearCart"} => create'[x].method # "MERCADO_PAGO"
    <2>1. create[o].method # "MERCADO_PAGO"
      BY <1>3 DEF CreateMark, At, CartInv
    <2> QED
      BY <1>c, <1>3, <2>1 DEF CreateMark, CreatePc
  <1>4. ASSUME NEW o \in Orders,
               \/ CreateDeduct(o) \/ CreateReserve(o) \/ CreateSave(o) \/ CreateClearCart(o)
               \/ CreatePreference(o) \/ CreateSetGateway(o) \/ CreateFault(o)
        PROVE  \A x \in Orders :
                  create'[x].pc \in {"mark", "clearCart"} => create'[x].method # "MERCADO_PAGO"
    <2>1. PICK pc \in CreatePc :
             Continue(o, pc) /\ (pc \in {"mark", "clearCart"} => create[o].method # "MERCADO_PAGO")
      BY <1>4 DEF CreateDeduct, CreateReserve, CreateSave, CreateClearCart,
         CreatePreference, CreateSetGateway, CreateFault, CreatePc
    <2> QED
      BY <1>c, <2>1
  <1>5. CASE Restart
    BY <1>a, <1>5 DEF Restart, CreateCrashed, CreateTypeOK
  <1>6. \/ UNCHANGED create \/ Restart
        \/ \E o \in Orders : CreateStep(o) \/ CreateFault(o)
    BY DEF Next, Checkout, Customer, Provider, Webhook, AbandonedJob, Administrator, Fault, vars
  <1> QED
    BY <1>1, <1>2, <1>3, <1>4, <1>5, <1>6 DEF CreateStep

LEMMA NextCart ==
    ASSUME IInv, CartInv, NoAuthorizations, [Next]_vars
    PROVE  CartInv'
  <1>1. \A u \in Users :
           ~cart'[u] => \/ ~cart[u]
                        \/ \E o \in Orders : CustomerOf[o] = u /\ EverApproved(o)
    <2>a. cart \in [Users -> BOOLEAN]
      BY DEF IInv, TypeOK, OrderTypeOK
    <2>1. CASE UNCHANGED cart
      BY <2>1
    <2>2. ASSUME NEW o \in Orders, CreateClearCart(o)
          PROVE  \A u \in Users :
                    ~cart'[u] => ~cart[u] \/ (CustomerOf[o] = u /\ EverApproved(o))
      <3>1. EverApproved(o)
        BY <2>2 DEF CreateClearCart, At, IInv, CheckoutInv, CartInv, EverApproved
      <3> QED
        BY <2>a, <2>2, <3>1 DEF CreateClearCart, ClearCart
    <2>3. ASSUME NEW d \in Deliveries, WebhookClearCart(d)
          PROVE  /\ d.order \in Orders
                 /\ \A u \in Users :
                      ~cart'[u] => ~cart[u] \/ (CustomerOf[d.order] = u /\ EverApproved(d.order))
      <3>1. /\ d.order \in Orders
            /\ \E i \in 1..MaxAttempts : SubjectOf(d) = <<d.order, i>>
        BY AttemptAssumption, DeliveryAssumption DEF Delivery, SubjectOf
      <3>2. payments[SubjectOf(d)] \in EverPaid
        BY <2>3 DEF WebhookClearCart, CartInv
      <3>3. EverApproved(d.order)
        BY <3>1, <3>2 DEF EverApproved, EverPaid
      <3> QED
        BY <2>a, <2>3, <3>1, <3>3 DEF WebhookClearCart, ClearCart
    <2>4. ASSUME NEW u \in Users, SaveCart(u)
          PROVE  \A w \in Users : ~cart'[w] => ~cart[w]
      BY <2>a, <2>4 DEF SaveCart
    <2>5. \/ UNCHANGED cart
          \/ \E o \in Orders : CreateClearCart(o)
          \/ \E d \in Deliveries : WebhookClearCart(d)
          \/ \E u \in Users : SaveCart(u)
      BY DEF Next, Checkout, CreateStep, CreateBegin, CreateDeduct, CreateReserve, CreateSave,
         CreateMark, CreatePreference, CreateSetGateway, Customer, ClientCancel, Provider,
         ProviderStep, Webhook, WebhookFind, WebhookStep, WebhookSavePending, WebhookFetch,
         WebhookSaveProcessed, WebhookRead, WebhookMark, WebhookSettle, WebhookWrite,
         AbandonedJob, JobScan, JobOrderStep, JobCancel, JobMark, JobRelease, Administrator,
         AdminCancelRead, AdminStatusRequest, AdminStep, AdminValidate, AdminWrite, AdminMark,
         AdminRelease, Fault, CreateFault, WebhookFault, JobFault, AdminFault, Restart, vars,
         orderVars
    <2> QED
      BY <2>1, <2>2, <2>3, <2>4, <2>5
  <1>2. CartKeptUntilPaid'
    BY <1>1, PaidStays DEF CartInv, CartKeptUntilPaid
  <1> QED
    BY <1>2, PaidStays, ApprovalsKnown, ClearsUnpaid DEF CartInv

LEMMA InitCart == Init => CartInv
  BY DEF Init, OrderInit, CreateInit, WebhookInit, CartInv, CartKeptUntilPaid

(* Under every interleaving, failure and restart, where the provider never *)
(* answers authorized: a customer who does not empty the cart loses it     *)
(* only to an order that needed no payment or had one approved (clearCart- *)
(* Safe in CreateOrderUseCase and ProcessWebhookUseCase).                  *)
THEOREM CartsKept == NoAuthorizations => (Spec => []CartKeptUntilPaid)
  <1> SUFFICES ASSUME NoAuthorizations PROVE Spec => []CartKeptUntilPaid
    OBVIOUS
  <1>1. IInv /\ CartInv /\ [Next]_vars => CartInv'
    BY NextCart
  <1>2. CartInv => CartKeptUntilPaid
    BY DEF CartInv
  <1> QED
    BY <1>1, <1>2, InitCart, Invariance, PTL DEF Spec
=============================================================================
