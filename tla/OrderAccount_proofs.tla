------------------------ MODULE OrderAccount_proofs ------------------------
(***************************************************************************)
(* Proofs, for every value of the constants, that handlers which settle an *)
(* order one at a time, those of different orders interleaving             *)
(* (OrderAccount!SerialSchedule), settle every hold at most once and       *)
(* implement the abstract account of CreditHolds.                          *)
(* The inductive invariant is IInv /\ OrderAccount!SerialInv.              *)
(***************************************************************************)
EXTENDS OrderAccount, OrderPayments_proofs

-----------------------------------------------------------------------------
(* What IInv says of a hold. *)

(* What an order that was not paid with credit shows as used is its hold. *)
LEMMA UsedIsHeld ==
    ASSUME IInv, NEW o \in Orders, Exists(o), create[o].method # "CREDIT"
    PROVE  ledger[o].deducted = 0 /\ orders[o].creditUsed = ledger[o].reserved
  <1>1. ledger[o].deducted \in Nat /\ ledger[o].reserved \in Nat
    BY DEF IInv, TypeOK, CreditTypeOK, LedgerEntry
  <1>2. ~(ledger[o].deducted > 0)
    BY DEF IInv, CheckoutInv
  <1>3. orders[o].creditUsed = ledger[o].deducted + ledger[o].reserved
    BY DEF IInv, OrderBacked
  <1> QED
    BY <1>1, <1>2, <1>3

(* A row that is not flagged, or not there, has had no credit settled. *)
LEMMA UnflaggedUnsettled ==
    ASSUME IInv, NEW o \in Orders, ~orders[o].creditRestored \/ ~Exists(o)
    PROVE  Unsettled(o)
  <1>1. ledger[o].consumed \in Nat /\ ledger[o].released \in Nat
    BY DEF IInv, TypeOK, CreditTypeOK, LedgerEntry
  <1>2. ~(ledger[o].consumed + ledger[o].released > 0)
    BY DEF IInv, RowInv
  <1> QED
    BY <1>1, <1>2 DEF Unsettled

(* The customer of a saved order that waits for a payment, or may be paid, *)
(* did not pay with credit.                                                *)
LEMMA PayableNotCredit ==
    ASSUME IInv, NEW o \in Orders, orders[o].payable \/ orders[o].paymentStatus = "PENDING"
    PROVE  Exists(o) /\ create[o].method # "CREDIT"
  BY DEF IInv, RowInv, Exists

(* Nothing fails where administrators may cancel. *)
LEMMA CancelsFailFree ==
    ASSUME IInv, CancelsSafely
    PROVE  ~Fault /\ ~Restart
  BY DEF IInv, TypeOK, CancelsSafely, Fault, Restart

LEMMA UndecidedStatus ==
    \A s \in PaymentStatus \cup {"none"} :
        MapPaymentStatusToOrderStatus(s) = "PENDING" => s \in Undecided
  BY DEF MapPaymentStatusToOrderStatus, PaymentStatus, Undecided

-----------------------------------------------------------------------------
(* One handler of an order at a time. *)

(* Handlers that move on or end leave at most one of an order in flight.   *)
LEMMA NobodyStarts ==
    ASSUME OneInFlight,
           \A d \in Deliveries : WebhookBusy(d)' => WebhookBusy(d),
           \A j \in Jobs, o \in Orders : job[j][o] = "none" => job'[j][o] = "none",
           \A r \in AdminRequests : AdminBusy(r)' => AdminBusy(r)
    PROVE  OneInFlight'
  BY DeliveryReferences, RequestReferences DEF OneInFlight

(* Whoever starts on an order finds nobody else at it. *)
LEMMA NobodyBusy ==
    ASSUME SerialSchedule, NEW o, MayStart(o)
    PROVE  /\ \A d \in Deliveries : d.order = o => ~WebhookBusy(d)
           /\ \A j \in Jobs : job[j][o] = "none"
           /\ \A r \in AdminRequests : r.order = o => ~AdminBusy(r)
  BY DEF SerialSchedule, MayStart, InFlightOn

(* A step of one order's handler leaves every other order as it is.        *)
OthersKept(o) == \A x \in Orders \ {o} : orders'[x] = orders[x] /\ ledger'[x] = ledger[x]

(* What handlers know of their orders stays true while only an order that  *)
(* none of them handles changes.                                           *)
LEMMA OthersDue ==
    ASSUME WebhookDue, JobDue, AdminDue, NEW o \in Orders, OthersKept(o)
    PROVE  /\ UNCHANGED webhook /\ (\A d \in Deliveries : d.order = o => ~WebhookBusy(d))
                 => WebhookDue'
           /\ UNCHANGED job /\ (\A j \in Jobs : job[j][o] = "none") => JobDue'
           /\ UNCHANGED admin /\ (\A r \in AdminRequests : r.order = o => ~AdminBusy(r))
                 => AdminDue'
  <1>1. \A d \in Deliveries : d.order \in Orders
    BY DeliveryReferences
  <1>2. \A r \in AdminRequests : r.order \in Orders
    BY RequestReferences
  <1>3. ASSUME UNCHANGED webhook, \A d \in Deliveries : d.order = o => ~WebhookBusy(d)
        PROVE  WebhookDue'
    BY <1>1, <1>3 DEF OthersKept, WebhookDue, WebhookBusy, HoldsCredit, Unsettled
  <1>4. ASSUME UNCHANGED job, \A j \in Jobs : job[j][o] = "none"
        PROVE  JobDue'
    BY <1>4 DEF OthersKept, JobDue, HoldsCredit, Unsettled
  <1>5. ASSUME UNCHANGED admin, \A r \in AdminRequests : r.order = o => ~AdminBusy(r)
        PROVE  AdminDue'
    BY <1>2, <1>5 DEF OthersKept, AdminDue, AdminBusy, Unsettled
  <1> QED
    BY <1>3, <1>4, <1>5

(* What a handler in flight knows of an order stays true of orders that    *)
(* nobody settles, flags or inserts.                                       *)
HoldsKept ==
    \A x \in Orders :
        Exists(x) /\ create[x].method # "CREDIT" =>
            /\ orders'[x].creditUsed = orders[x].creditUsed
            /\ orders'[x].creditRestored = orders[x].creditRestored
            /\ ledger'[x].consumed = ledger[x].consumed
            /\ ledger'[x].released = ledger[x].released
            /\ orders'[x].paymentStatus = orders[x].paymentStatus

LEMMA DueKept ==
    ASSUME IInv, WebhookDue, JobDue, AdminDue, HoldsKept
    PROVE  /\ UNCHANGED webhook => WebhookDue'
           /\ UNCHANGED job => JobDue'
           /\ UNCHANGED admin => AdminDue'
  <1>1. \A d \in Deliveries : webhook[d].pc # "idle" =>
            d.order \in Orders /\ Exists(d.order) /\ create[d.order].method # "CREDIT"
    BY DeliveryReferences, PayableNotCredit DEF IInv, WebhookInv
  <1>2. UNCHANGED webhook => WebhookDue'
    BY <1>1 DEF HoldsKept, WebhookDue, HoldsCredit, Unsettled
  <1>3. UNCHANGED job => JobDue'
    BY DEF HoldsKept, JobDue, HoldsCredit, Unsettled, IInv, JobInv
  <1>4. \A r \in AdminRequests :
           /\ r.endpoint = "cancel" /\ AdminBusy(r) => create[r.order].method # "CREDIT"
           /\ admin[r] \in {"mark", "release"} => r.endpoint = "cancel"
           /\ AdminBusy(r) => r.order \in Orders /\ Exists(r.order)
    BY RequestReferences DEF IInv, AdminInv, AdminBusy
  <1>5. UNCHANGED admin => AdminDue'
    BY <1>4 DEF HoldsKept, AdminDue, AdminBusy, Unsettled
  <1> QED
    BY <1>2, <1>3, <1>5

(* An order that waits for a payment after a step that leaves webhooks and *)
(* payments alone waited already, or is unsettled.                         *)
LEMMA PendingKept ==
    ASSUME PendingInv, UNCHANGED <<webhook, payments>>,
           \A x \in Orders :
              orders'[x].paymentStatus = "PENDING" =>
                 Unsettled(x)' \/ (orders[x].paymentStatus = "PENDING" /\ ~Unsettled(x))
    PROVE  PendingInv'
  BY DEF PendingInv, CancelsSafely

(* Statements that leave the settled amounts and the statuses alone.       *)
LEMMA PendingStays ==
    ASSUME PendingInv, UNCHANGED <<webhook, payments>>,
           \A x \in Orders : /\ orders'[x].paymentStatus = orders[x].paymentStatus
                             /\ ledger'[x].consumed = ledger[x].consumed
                             /\ ledger'[x].released = ledger[x].released
    PROVE  PendingInv'
  BY PendingKept DEF Unsettled

-----------------------------------------------------------------------------
(* Settling one hold. *)

(* A statement that settles an order's hold settles it whole, or is the    *)
(* silent no-op.                                                           *)
LEMMA HoldSettled ==
    ASSUME IInv, SettledWhole, NEW o \in Orders, Exists(o), create[o].method # "CREDIT",
           Unsettled(o),
           \/ RefundHold(o, orders[o].creditUsed)
           \/ ReleaseReservedCredit(o, orders[o].creditUsed)
           \/ ConsumeReservedCredit(o, orders[o].creditUsed)
    PROVE  /\ SettledWhole'
           /\ \A x \in Orders : ledger'[x].reserved = ledger[x].reserved
           /\ \A x \in Orders \ {o} : ledger'[x] = ledger[x]
  <1>1. ledger \in [Orders -> LedgerEntry] /\ orders[o].creditUsed = ledger[o].reserved
    BY UsedIsHeld DEF IInv, TypeOK, CreditTypeOK
  <1>2. CASE RefundHold(o, orders[o].creditUsed)
    BY <1>1, <1>2 DEF RefundHold, LedgerEntry, SettledWhole, Unsettled
  <1>3. CASE ConsumeHold(o, orders[o].creditUsed)
    BY <1>1, <1>3 DEF ConsumeHold, LedgerEntry, SettledWhole, Unsettled
  <1>4. CASE UNCHANGED creditVars
    BY <1>4 DEF creditVars, SettledWhole, Unsettled
  <1> QED
    BY <1>2, <1>3, <1>4 DEF ReleaseReservedCredit, ConsumeReservedCredit

(* A step of a settling handler moves no checkout request. *)
LEMMA TakingStays ==
    ASSUME TakingInv, UNCHANGED create,
           \A x \in Orders : ledger'[x].reserved = ledger[x].reserved
    PROVE  TakingInv'
  BY DEF TakingInv

(* A step that moves no credit. *)
LEMMA LedgerStays ==
    ASSUME SettledWhole, UNCHANGED creditVars
    PROVE  /\ SettledWhole'
           /\ UNCHANGED ledger
           /\ \A x \in Orders : ledger'[x].reserved = ledger[x].reserved
  BY DEF SettledWhole, Unsettled, creditVars

-----------------------------------------------------------------------------
(* POST /v1/orders. *)

LEMMA CheckoutSerial ==
    ASSUME IInv, SerialInv, NEW o \in Orders, CreateStep(o),
           UNCHANGED <<payments, webhookVars, job, admin, faults>>
    PROVE  SerialInv'
  <1> USE DEF SerialInv
  <1>a. /\ CreditTypeOK /\ OrderTypeOK /\ CreateTypeOK /\ NoOverdraft
        /\ create[o] \in [pc : CreatePc, method : {"FREE", "CREDIT", "MERCADO_PAGO"}, used : Nat]
        /\ UNCHANGED <<webhook, job, admin, payments>>
    BY DEF IInv, TypeOK, CreateTypeOK, webhookVars
  <1>b. OneInFlight'
    BY <1>a, NobodyStarts DEF WebhookBusy, AdminBusy
  <1>c. ASSUME HoldsKept PROVE WebhookDue' /\ JobDue' /\ AdminDue'
    BY <1>a, <1>c, DueKept
  <1>e. ASSUME \A x \in Orders : /\ ledger'[x].consumed = ledger[x].consumed
                                 /\ ledger'[x].released = ledger[x].released,
               \A x \in Orders : \/ orders'[x].paymentStatus = orders[x].paymentStatus
                                 \/ ~Exists(x)
        PROVE  PendingInv'
    <2>1. \A x \in Orders : Unsettled(x)' <=> Unsettled(x)
      BY <1>e DEF Unsettled
    <2>2. \A x \in Orders : ~Exists(x) => Unsettled(x)
      BY UnflaggedUnsettled
    <2> QED
      BY <1>a, <1>e, <2>1, <2>2, PendingKept
  <1>d. ASSUME NEW pc \in CreatePc \ {"deduct", "reserve", "mark"}, Continue(o, pc),
               UNCHANGED creditVars, HoldsKept,
               \A x \in Orders : orders'[x].paymentStatus = orders[x].paymentStatus
        PROVE  SerialInv'
    <2>1. TakingInv'
      BY <1>a, <1>d, CheckoutMoved DEF TakingInv, creditVars
    <2>2. PendingInv'
      BY <1>d, <1>e DEF creditVars
    <2> QED
      BY <1>b, <1>c, <1>d, <2>1, <2>2, LedgerStays
  <1>1. CASE CreateBegin(o)
    <2>1. PICK pc \in {"save", "deduct", "reserve"},
               method \in {"FREE", "CREDIT", "MERCADO_PAGO"}, used \in Nat :
            /\ Take(o, pc, method, used)
            /\ pc \in {"deduct", "reserve"} => used > 0
            /\ pc = "reserve" => method = "MERCADO_PAGO"
      BY <1>1, <1>a, CustomerAssumption, TotalsAssumption DEF CreateBegin, CreditTypeOK
    <2>2. create[o].pc = "idle" /\ UNCHANGED <<creditVars, orderVars>>
      BY <1>1 DEF CreateBegin, At
    <2>3. ledger[o].reserved = 0
      BY <2>2 DEF IInv, CheckoutInv
    <2>4. TakingInv'
      BY <1>a, <2>1, <2>2, <2>3 DEF TakingInv, Take, CreateTypeOK, creditVars
    <2>5. HoldsKept
      BY <2>2 DEF HoldsKept, creditVars, orderVars
    <2>6. PendingInv'
      BY <2>2, <1>e DEF creditVars, orderVars
    <2> QED
      BY <1>b, <1>c, <2>2, <2>4, <2>5, <2>6, LedgerStays
  <1>2. ASSUME NEW a \in Nat, Continue(o, "save"), UNCHANGED orderVars,
               a = create[o].used, ~Exists(o),
               \/ DeductCreditAtomic(o, a) /\ ledger'[o].reserved = ledger[o].reserved
               \/ ReserveCredit(o, a) /\ create[o].pc = "reserve"
        PROVE  SerialInv'
    <2>1. /\ \A x \in Orders : /\ ledger'[x].consumed = ledger[x].consumed
                               /\ ledger'[x].released = ledger[x].released
                               /\ x # o => ledger'[x] = ledger[x]
      BY <1>2, <1>a, CreditTaken
    <2>2. /\ create'[o].pc = "save"
          /\ \A x \in Orders : /\ create'[x].method = create[x].method
                               /\ create'[x].used = create[x].used
                               /\ x # o => create'[x] = create[x]
      BY <1>2, <1>a, CheckoutMoved DEF CreatePc
    <2>3. TakingInv'
      BY <1>2, <2>1, <2>2 DEF TakingInv
    <2>4. Unsettled(o)'
      BY <1>2, <2>1, UnflaggedUnsettled DEF Unsettled
    <2>5. SettledWhole'
      BY <2>1, <2>4 DEF SettledWhole, Unsettled
    <2>6. HoldsKept
      BY <1>2, <2>1 DEF HoldsKept, orderVars
    <2>7. PendingInv'
      BY <1>2, <1>e, <2>1 DEF orderVars
    <2> QED
      BY <1>b, <1>c, <2>3, <2>5, <2>6, <2>7
  <1>3. CASE CreateDeduct(o)
    <2>1. UNCHANGED orderVars /\ ~Exists(o)
      BY <1>3 DEF CreateDeduct, At, IInv, CheckoutInv
    <2>2. CASE DeductCreditAtomic(o, create[o].used) /\ Continue(o, "save")
      <3>1. ledger'[o].reserved = ledger[o].reserved
        BY <1>a, <2>2 DEF DeductCreditAtomic, DeductUnchecked, CreditTypeOK, LedgerEntry
      <3> QED
        BY <1>2, <1>a, <2>1, <2>2, <3>1
    <2>3. CASE Continue(o, "failed") /\ UNCHANGED creditVars
      BY <1>d, <2>1, <2>3 DEF CreatePc, HoldsKept, creditVars, orderVars
    <2> QED
      BY <1>3, <2>2, <2>3 DEF CreateDeduct
  <1>4. CASE CreateReserve(o)
    <2>1. UNCHANGED orderVars /\ ~Exists(o) /\ create[o].pc = "reserve"
      BY <1>4 DEF CreateReserve, At, IInv, CheckoutInv
    <2>2. CASE ReserveCredit(o, create[o].used) /\ Continue(o, "save")
      BY <1>2, <1>a, <2>1, <2>2
    <2>3. CASE Continue(o, "failed") /\ UNCHANGED creditVars
      BY <1>d, <2>1, <2>3 DEF CreatePc, HoldsKept, creditVars, orderVars
    <2> QED
      BY <1>4, <2>2, <2>3 DEF CreateReserve
  <1>5. CASE CreateSave(o)
    <2>1. /\ create[o].pc = "save" /\ ~Exists(o) /\ UNCHANGED creditVars
          /\ \A x \in Orders \ {o} : orders'[x] = orders[x]
      BY <1>5, <1>a DEF CreateSave, SaveOrder, At, IInv, CheckoutInv, OrderTypeOK
    <2>2. HoldsKept
      BY <2>1 DEF HoldsKept, creditVars
    <2>3. PICK pc \in {"clearCart", "mark", "preference"} :
             Continue(o, pc) /\ (pc = "mark" => create[o].method = "CREDIT")
      BY <1>5 DEF CreateSave
    <2>4. TakingInv'
      BY <1>a, <2>1, <2>3, CheckoutMoved DEF TakingInv, CreatePc, creditVars
    <2>5. PendingInv'
      BY <2>1, <1>e DEF creditVars
    <2> QED
      BY <1>b, <1>c, <2>1, <2>2, <2>4, <2>5, LedgerStays
  <1>6. CASE CreateMark(o)
    <2>1. /\ create[o].method = "CREDIT" /\ Continue(o, "clearCart")
          /\ UNCHANGED creditVars
          /\ \A x \in Orders \ {o} : orders'[x] = orders[x]
      BY <1>6, <1>a DEF CreateMark, MarkCreditRestored, At, TakingInv, OrderTypeOK
    <2>2. HoldsKept
      BY <2>1 DEF HoldsKept, creditVars
    <2>3. \A x \in Orders : orders'[x].paymentStatus = orders[x].paymentStatus
      BY <1>6, <1>a, RestoredMarked DEF CreateMark
    <2> QED
      BY <1>d, <2>1, <2>2, <2>3 DEF CreatePc
  <1>7. CASE CreateClearCart(o)
    BY <1>7, <1>d DEF CreateClearCart, HoldsKept, CreatePc, creditVars
  <1>8. CASE CreatePreference(o)
    BY <1>8, <1>d DEF CreatePreference, HoldsKept, CreatePc, creditVars, orderVars
  <1>9. CASE CreateSetGateway(o)
    <2>1. UpdateOrderPaymentGatewayId(o) /\ Continue(o, "done") /\ UNCHANGED <<creditVars, cart>>
      BY <1>9 DEF CreateSetGateway
    <2>2. /\ HoldsKept
          /\ \A x \in Orders : orders'[x].paymentStatus = orders[x].paymentStatus
      BY <1>a, <2>1, GatewayStored DEF HoldsKept, creditVars
    <2> QED
      BY <1>d, <2>1, <2>2 DEF CreatePc
  <1> QED
    BY <1>1, <1>3, <1>4, <1>5, <1>6, <1>7, <1>8, <1>9 DEF CreateStep

-----------------------------------------------------------------------------
(* The settling handlers. *)

LEMMA WebhookSerial ==
    ASSUME IInv, SerialInv, SerialSchedule, NEW d \in Deliveries,
           (MayStart(d.order) /\ WebhookFind(d)) \/ WebhookStep(d),
           UNCHANGED <<create, job, admin, faults>>
    PROVE  SerialInv'
  <1> USE DEF SerialInv
  <1> DEFINE o == d.order
  <1>a. o \in Orders /\ webhook \in [Deliveries -> WebhookStates]
    BY DeliveryReferences DEF IInv, TypeOK, WebhookTypeOK, WebhookStates
  <1>b. webhook[d].pc # "idle" => Exists(o) /\ create[o].method # "CREDIT"
    BY <1>a, PayableNotCredit DEF IInv, WebhookInv
  <1>m. \A x \in Deliveries \ {d} : webhook'[x] = webhook[x]
    BY <1>a DEF WebhookFind, WebhookStep, WebhookSavePending, WebhookFetch,
       WebhookSaveProcessed, WebhookRead, WebhookMark, WebhookSettle, WebhookWrite,
       WebhookClearCart, Resume
  <1>1. /\ \A x \in Deliveries \ {d} : x.order = o => ~WebhookBusy(x)
        /\ \A j \in Jobs : job[j][o] = "none"
        /\ \A r \in AdminRequests : r.order = o => ~AdminBusy(r)
    <2>1. CASE MayStart(o) /\ WebhookFind(d)
      BY <2>1, <1>a, NobodyBusy
    <2>2. CASE WebhookStep(d)
      <3>1. WebhookBusy(d)
        BY <2>2 DEF WebhookStep, WebhookSavePending, WebhookFetch, WebhookSaveProcessed,
           WebhookRead, WebhookMark, WebhookSettle, WebhookWrite, WebhookClearCart, WebhookBusy
      <3> QED
        BY <3>1 DEF OneInFlight
    <2> QED
      BY <2>1, <2>2
  <1>h. OthersKept(o)
    <2>1. orders \in [Orders -> OrderRow] /\ ledger \in [Orders -> LedgerEntry]
      BY DEF IInv, TypeOK, OrderTypeOK, CreditTypeOK
    <2>2. \A x \in Orders \ {o} : orders'[x] = orders[x]
      BY <1>a, <2>1 DEF WebhookFind, WebhookStep, WebhookSavePending, WebhookFetch,
         WebhookSaveProcessed, WebhookRead, WebhookMark, WebhookSettle, WebhookWrite,
         WebhookClearCart, orderVars, MarkCreditRestored, UpdateOrderStatus
    <2>3. \A x \in Orders \ {o} : ledger'[x] = ledger[x]
      BY <1>a, <2>1 DEF WebhookFind, WebhookStep, WebhookSavePending, WebhookFetch,
         WebhookSaveProcessed, WebhookRead, WebhookMark, WebhookSettle, WebhookWrite,
         WebhookClearCart, creditVars, ReleaseReservedCredit, ConsumeReservedCredit,
         RefundHold, ConsumeHold
    <2> QED
      BY <2>2, <2>3 DEF OthersKept
  <1>2. OneInFlight'
    <2>1. \A x \in Deliveries : WebhookBusy(x)' => WebhookBusy(x) \/ x = d
      BY <1>m DEF WebhookBusy
    <2>2. \A r \in AdminRequests : AdminBusy(r)' <=> AdminBusy(r)
      BY DEF AdminBusy
    <2> QED
      BY <1>1, <2>1, <2>2 DEF OneInFlight
  <1>f. JobDue' /\ AdminDue'
    BY <1>a, <1>1, <1>h, OthersDue
  <1>c. ASSUME webhook'[d].pc = "mark" => HoldsCredit(o)',
               webhook'[d].pc = "settle" => orders'[o].creditUsed > 0 /\ Unsettled(o)'
        PROVE  WebhookDue'
    <2> SUFFICES ASSUME NEW x \in Deliveries
                 PROVE  /\ webhook'[x].pc = "mark" => HoldsCredit(x.order)'
                        /\ webhook'[x].pc = "settle" =>
                              orders'[x.order].creditUsed > 0 /\ Unsettled(x.order)'
      BY DEF WebhookDue
    <2>1. CASE x = d
      BY <2>1, <1>c
    <2>2. CASE x # d /\ x.order = o
      BY <2>2, <1>1, <1>m DEF WebhookBusy
    <2>3. CASE x # d /\ x.order # o
      BY <2>3, <1>m, <1>h, DeliveryReferences
      DEF OthersKept, WebhookDue, HoldsCredit, Unsettled
    <2> QED
      BY <2>1, <2>2, <2>3
  <1>d. ASSUME UNCHANGED creditVars, WebhookDue', PendingInv' PROVE SerialInv'
    BY <1>2, <1>d, <1>f, LedgerStays, TakingStays
  <1>e. ASSUME webhook'[d].pc \notin {"mark", "settle"} PROVE WebhookDue'
    BY <1>e, <1>c
  <1>i. ASSUME CancelsSafely, NEW x \in Orders \ {o}, orders[x].paymentStatus = "PENDING"
        PROVE  Unsettled(x)' \/ \E e \in Deliveries : webhook'[e].pc = "write" /\ e.order = x
    <2>1. CASE Unsettled(x)
      BY <2>1, <1>h DEF OthersKept, Unsettled
    <2>2. ASSUME NEW e \in Deliveries, webhook[e].pc = "write", e.order = x
          PROVE  webhook'[e].pc = "write" /\ e.order = x
      BY <2>2, <1>m
    <2> QED
      BY <1>i, <2>1, <2>2 DEF PendingInv
  <1>j. ASSUME UNCHANGED payments, CancelsSafely => webhook'[d].status # "PENDING",
               CancelsSafely /\ orders'[o].paymentStatus = "PENDING" =>
                  Unsettled(o)' \/ webhook'[d].pc = "write"
        PROVE  PendingInv'
    <2> SUFFICES ASSUME CancelsSafely
                 PROVE  /\ \A p \in Attempts : payments[p] \notin Undecided
                        /\ \A x \in Deliveries : webhook'[x].status # "PENDING"
                        /\ \A x \in Orders :
                              orders'[x].paymentStatus = "PENDING" =>
                                 \/ Unsettled(x)'
                                 \/ \E e \in Deliveries : webhook'[e].pc = "write" /\ e.order = x
      BY <1>j DEF PendingInv, CancelsSafely
    <2>1. \A p \in Attempts : payments[p] \notin Undecided
      BY DEF PendingInv
    <2>2. \A x \in Deliveries : webhook'[x].status # "PENDING"
      BY <1>j, <1>m DEF PendingInv
    <2>3. ASSUME NEW x \in Orders, orders'[x].paymentStatus = "PENDING"
          PROVE  Unsettled(x)' \/ \E e \in Deliveries : webhook'[e].pc = "write" /\ e.order = x
      <3>1. CASE x = o
        BY <3>1, <2>3, <1>j
      <3>2. CASE x # o
        BY <3>2, <2>3, <1>h, <1>i DEF OthersKept
      <3> QED
        BY <3>1, <3>2
    <2> QED
      BY <2>1, <2>2, <2>3
  <1>g. ASSUME UNCHANGED <<payments, ledger>>, webhook[d].pc # "write",
               orders'[o].paymentStatus = orders[o].paymentStatus,
               CancelsSafely => webhook'[d].status # "PENDING"
        PROVE  PendingInv'
    <2>1. \A x \in Deliveries : x.order = o => webhook[x].pc # "write"
      BY <1>1, <1>g DEF WebhookBusy
    <2>2. CancelsSafely /\ orders'[o].paymentStatus = "PENDING" => Unsettled(o)'
      BY <1>a, <1>g, <2>1 DEF PendingInv, Unsettled
    <2> QED
      BY <1>g, <1>j, <2>2
  <1>3. CASE WebhookFind(d)
    <2>1. /\ webhook'[d].pc \in {"done", "savePending"} /\ UNCHANGED <<creditVars, orders, payments>>
          /\ webhook[d].pc = "idle" /\ webhook'[d].status = webhook[d].status
      BY <1>3, <1>a DEF WebhookFind, Resume, WebhookStates, orderVars
    <2>2. PendingInv'
      BY <2>1, <1>g DEF PendingInv, creditVars
    <2> QED
      BY <2>1, <2>2, <1>d, <1>e
  <1>4. CASE WebhookSavePending(d) \/ WebhookSaveProcessed(d) \/ WebhookClearCart(d)
    <2>1. /\ webhook'[d].pc \in {"fetch", "done", "read"}
          /\ webhook[d].pc # "write" /\ webhook'[d].status = webhook[d].status
          /\ UNCHANGED <<creditVars, orders, payments>>
      BY <1>4, <1>a DEF WebhookSavePending, WebhookSaveProcessed, WebhookClearCart, Resume,
         WebhookStates, orderVars
    <2>2. PendingInv'
      BY <2>1, <1>g DEF PendingInv, creditVars
    <2> QED
      BY <2>1, <2>2, <1>d, <1>e
  <1>8. CASE WebhookFetch(d)
    <2>1. /\ webhook'[d].pc = "saveProcessed" /\ webhook[d].pc # "write"
          /\ webhook'[d].status = MapPaymentStatusToOrderStatus(payments[SubjectOf(d)])
          /\ UNCHANGED <<creditVars, orders, payments>>
      BY <1>8, <1>a DEF WebhookFetch, WebhookStates, orderVars
    <2>2. SubjectOf(d) \in Attempts /\ payments[SubjectOf(d)] \in PaymentStatus \cup {"none"}
      BY DeliveryReferences DEF IInv, TypeOK, WebhookTypeOK
    <2>3. CancelsSafely => webhook'[d].status # "PENDING"
      BY <2>1, <2>2, UndecidedStatus DEF PendingInv
    <2>4. PendingInv'
      BY <2>1, <2>3, <1>g DEF creditVars
    <2> QED
      BY <2>1, <2>4, <1>d, <1>e
  <1>9. CASE WebhookWrite(d)
    <2>1. /\ webhook'[d].pc \in {"done", "clearCart"} /\ UNCHANGED <<creditVars, payments>>
          /\ webhook'[d].status = webhook[d].status
      BY <1>9, <1>a DEF WebhookWrite, Resume, WebhookStates
    <2>2. orders'[o].paymentStatus = webhook[d].status
      <3>1. webhook[d].status \in OrderStatus
        BY <1>9, <1>a DEF WebhookWrite, IInv, WebhookInv, WebhookStates
      <3> QED
        BY <1>9, <1>a, <3>1, StatusWritten DEF WebhookWrite, IInv, TypeOK
    <2>3. PendingInv'
      <3>1. CancelsSafely => webhook[d].status # "PENDING"
        BY DEF PendingInv
      <3> QED
        BY <2>1, <2>2, <3>1, <1>j
    <2> QED
      BY <2>1, <2>3, <1>d, <1>e
  <1>5. CASE WebhookRead(d)
    <2>1. /\ webhook'[d].pc \in {"done", "mark", "write"}
          /\ UNCHANGED <<creditVars, orders, payments>>
          /\ webhook'[d].pc = "mark" => HoldsCredit(o)
          /\ webhook[d].pc = "read" /\ webhook'[d].status = webhook[d].status
      BY <1>5, <1>a DEF WebhookRead, Resume, WebhookStates, orderVars
    <2>2. PendingInv'
      BY <2>1, <1>g DEF PendingInv, creditVars
    <2> QED
      BY <2>1, <2>2, <1>c, <1>d DEF HoldsCredit
  <1>6. CASE WebhookMark(d)
    <2>1. HoldsCredit(o) /\ MarkCreditRestored(o) /\ UNCHANGED <<creditVars, cart>>
      BY <1>6 DEF WebhookMark, WebhookDue
    <2>2. orders'[o].creditUsed = orders[o].creditUsed
      BY <2>1, <1>a, RestoredMarked DEF IInv, TypeOK
    <2>3. Unsettled(o)'
      BY <2>1, <1>a, UnflaggedUnsettled DEF HoldsCredit, Unsettled, creditVars
    <2>4. /\ webhook'[d].pc = "settle" /\ webhook[d].pc = "mark" /\ UNCHANGED payments
          /\ webhook'[d].status = webhook[d].status
      BY <1>6, <1>a DEF WebhookMark, Resume, WebhookStates
    <2>5. orders'[o].paymentStatus = orders[o].paymentStatus
      BY <2>1, <1>a, RestoredMarked DEF IInv, TypeOK
    <2>6. PendingInv'
      BY <2>1, <2>4, <2>5, <1>g DEF PendingInv, creditVars
    <2> QED
      BY <2>1, <2>2, <2>3, <2>4, <2>6, <1>c, <1>d DEF HoldsCredit
  <1>7. CASE WebhookSettle(d)
    <2>1. Unsettled(o) /\ webhook[d].pc = "settle"
      BY <1>7 DEF WebhookSettle, WebhookDue
    <2>2. \/ ReleaseReservedCredit(o, orders[o].creditUsed)
          \/ ConsumeReservedCredit(o, orders[o].creditUsed)
      BY <1>7 DEF WebhookSettle
    <2>3. /\ SettledWhole' /\ \A x \in Orders : ledger'[x].reserved = ledger[x].reserved
          /\ \A x \in Orders \ {o} : ledger'[x] = ledger[x]
      BY <1>a, <1>b, <2>1, <2>2, HoldSettled
    <2>4. /\ webhook'[d].pc = "write" /\ webhook'[d].status = webhook[d].status
          /\ UNCHANGED <<orders, payments>>
      BY <1>7, <1>a DEF WebhookSettle, Resume, WebhookStates, orderVars
    <2>5. PendingInv'
      BY <2>4, <1>j DEF PendingInv
    <2> QED
      BY <1>2, <1>e, <1>f, <2>3, <2>4, <2>5, TakingStays
  <1> QED
    BY <1>3, <1>4, <1>5, <1>6, <1>7, <1>8, <1>9 DEF WebhookStep

LEMMA JobSerial ==
    ASSUME IInv, SerialInv, NEW j \in Jobs, NEW o \in Orders, JobOrderStep(j, o),
           UNCHANGED <<create, payments, webhookVars, admin, faults>>
    PROVE  SerialInv'
  <1> USE DEF SerialInv
  <1>1. PICK pc \in {"none", "mark", "release"} : Move(j, o, pc) /\ job[j][o] # "none"
    BY DEF JobOrderStep, JobCancel, JobMark, JobRelease
  <1>2. /\ job'[j][o] = pc
        /\ \A k \in Jobs, x \in Orders : <<k, x>> # <<j, o>> => job'[k][x] = job[k][x]
    BY <1>1, JobMoved DEF IInv, TypeOK
  <1>3. /\ \A k \in Jobs \ {j} : job[k][o] = "none" /\ job'[k][o] = "none"
        /\ \A d \in Deliveries : d.order = o => ~WebhookBusy(d)
        /\ \A r \in AdminRequests : r.order = o => ~AdminBusy(r)
    BY <1>1, <1>2 DEF OneInFlight
  <1>a. UNCHANGED <<webhook, payments>>
    BY DEF webhookVars
  <1>5. /\ Exists(o) /\ create[o].method # "CREDIT"
        /\ orders \in [Orders -> OrderRow] /\ ledger \in [Orders -> LedgerEntry]
    BY <1>1 DEF IInv, JobInv, TypeOK, OrderTypeOK, CreditTypeOK
  <1>h. OthersKept(o)
    <2>1. \A x \in Orders \ {o} : orders'[x] = orders[x]
      BY <1>5 DEF JobOrderStep, JobCancel, JobMark, JobRelease, orderVars, MarkCreditRestored,
         UpdateOrderStatus
    <2>2. \A x \in Orders \ {o} : ledger'[x] = ledger[x]
      BY <1>5 DEF JobOrderStep, JobCancel, JobMark, JobRelease, creditVars,
         ReleaseReservedCredit, RefundHold
    <2> QED
      BY <2>1, <2>2 DEF OthersKept
  <1>4. OneInFlight' /\ WebhookDue' /\ AdminDue'
    <2>1. OneInFlight'
      BY <1>1, <1>2, <1>a, NobodyStarts DEF WebhookBusy, AdminBusy
    <2> QED
      BY <2>1, <1>3, <1>a, <1>h, OthersDue
  <1>6. ASSUME pc \in {"mark"} => HoldsCredit(o)',
               pc = "release" => orders'[o].creditUsed > 0 /\ Unsettled(o)',
               pc \in {"mark", "release"} => orders'[o].paymentStatus # "PENDING"
        PROVE  JobDue'
    <2> SUFFICES ASSUME NEW k \in Jobs, NEW x \in Orders
                 PROVE  /\ job'[k][x] \in {"listed", "mark"} => HoldsCredit(x)'
                        /\ job'[k][x] = "release" => orders'[x].creditUsed > 0 /\ Unsettled(x)'
                        /\ job'[k][x] \in {"mark", "release"} =>
                              orders'[x].paymentStatus # "PENDING"
      BY DEF JobDue
    <2>1. CASE x # o
      BY <2>1, <1>2, <1>h DEF OthersKept, JobDue, HoldsCredit, Unsettled
    <2>2. CASE x = o /\ k # j
      BY <2>2, <1>3
    <2>3. CASE x = o /\ k = j
      BY <2>3, <1>1, <1>2, <1>6
    <2> QED
      BY <2>1, <2>2, <2>3
  <1>7. CASE JobCancel(j, o)
    <2>1. HoldsCredit(o) /\ UpdateOrderStatus(o, "CANCELLED") /\ UNCHANGED <<creditVars, cart>>
          /\ pc = "mark"
      BY <1>7, <1>2 DEF JobCancel, JobDue, Move, IInv, TypeOK, JobTypeOK
    <2>2. /\ HoldsCredit(o)' /\ \A x \in Orders \ {o} : orders'[x] = orders[x]
          /\ orders'[o].paymentStatus = "CANCELLED"
      BY <2>1, <1>5 DEF UpdateOrderStatus, HoldsCredit, OrderRow
    <2>3. JobDue'
      BY <2>1, <2>2, <1>6, LedgerStays
    <2>4. PendingInv'
      BY <1>a, <2>1, <2>2, PendingKept DEF Unsettled, creditVars
    <2> QED
      BY <1>4, <2>1, <2>3, <2>4, LedgerStays, TakingStays
  <1>8. CASE JobMark(j, o)
    <2>1. HoldsCredit(o) /\ MarkCreditRestored(o) /\ UNCHANGED <<creditVars, cart>>
          /\ pc = "release"
      BY <1>8, <1>2 DEF JobMark, JobDue, Move, IInv, TypeOK, JobTypeOK
    <2>2. /\ orders'[o].creditUsed > 0
          /\ \A x \in Orders \ {o} : orders'[x] = orders[x]
          /\ orders'[o].paymentStatus = orders[o].paymentStatus
          /\ orders[o].paymentStatus # "PENDING"
      BY <2>1, <1>5, <1>8 DEF MarkCreditRestored, HoldsCredit, OrderRow, JobMark, JobDue
    <2>3. Unsettled(o)'
      BY <2>1, UnflaggedUnsettled DEF HoldsCredit, Unsettled, creditVars
    <2>4. JobDue'
      BY <2>1, <2>2, <2>3, <1>6, LedgerStays
    <2>5. PendingInv'
      BY <1>a, <2>1, <2>2, PendingKept DEF Unsettled, creditVars
    <2> QED
      BY <1>4, <2>1, <2>4, <2>5, LedgerStays, TakingStays
  <1>9. CASE JobRelease(j, o)
    <2>1. /\ Unsettled(o) /\ UNCHANGED orderVars /\ pc = "none"
          /\ ReleaseReservedCredit(o, orders[o].creditUsed)
          /\ orders[o].paymentStatus # "PENDING"
      BY <1>9, <1>2 DEF JobRelease, JobDue, Move, IInv, TypeOK, JobTypeOK
    <2>2. /\ SettledWhole'
          /\ \A x \in Orders : ledger'[x].reserved = ledger[x].reserved
          /\ \A x \in Orders \ {o} : ledger'[x] = ledger[x]
      BY <1>5, <2>1, HoldSettled
    <2>3. JobDue'
      BY <1>6, <2>1, <2>2 DEF orderVars
    <2>4. PendingInv'
      BY <1>a, <2>1, <2>2, PendingKept DEF Unsettled, orderVars
    <2> QED
      BY <1>4, <2>2, <2>3, <2>4, TakingStays
  <1> QED
    BY <1>7, <1>8, <1>9 DEF JobOrderStep

LEMMA JobStartSerial ==
    ASSUME IInv, SerialInv, SerialSchedule, NEW j \in Jobs, NEW old \in SUBSET Orders,
           JobMayScan(old), JobScan(j, old),
           UNCHANGED <<create, payments, webhookVars, admin, faults>>
    PROVE  SerialInv'
  <1> USE DEF SerialInv
  <1>1. \A x \in Abandoned(old) :
           /\ HoldsCredit(x)
           /\ \A d \in Deliveries : d.order = x => ~WebhookBusy(d)
           /\ \A k \in Jobs : job[k][x] = "none"
           /\ \A r \in AdminRequests : r.order = x => ~AdminBusy(r)
    BY NobodyBusy DEF JobMayScan, Abandoned, HoldsCredit
  <1>2. /\ \A x \in Orders : job[j][x] = "none"
        /\ \A x \in Orders : job'[j][x] = IF x \in Abandoned(old) THEN "listed" ELSE "none"
        /\ \A k \in Jobs \ {j} : job'[k] = job[k]
        /\ UNCHANGED <<creditVars, orderVars, webhook, admin, payments>>
    BY DEF JobScan, Finished, IInv, TypeOK, JobTypeOK, webhookVars
  <1>3. OneInFlight'
    <2>1. \A k \in Jobs, x \in Orders :
             job'[k][x] # "none" => job[k][x] # "none" \/ (k = j /\ x \in Abandoned(old))
      BY <1>2
    <2>2. /\ \A d \in Deliveries : d.order \in Orders /\ (WebhookBusy(d)' <=> WebhookBusy(d))
          /\ \A r \in AdminRequests : r.order \in Orders /\ (AdminBusy(r)' <=> AdminBusy(r))
      BY <1>2, DeliveryReferences, RequestReferences DEF WebhookBusy, AdminBusy
    <2>3. \A j1, j2 \in Jobs, x \in Orders :
             job'[j1][x] # "none" /\ job'[j2][x] # "none" => j1 = j2
      BY <1>1, <2>1 DEF OneInFlight
    <2>4. /\ \A d \in Deliveries, k \in Jobs : WebhookBusy(d)' => job'[k][d.order] = "none"
          /\ \A k \in Jobs, r \in AdminRequests : AdminBusy(r)' => job'[k][r.order] = "none"
      BY <1>1, <2>1, <2>2 DEF OneInFlight
    <2> QED
      BY <2>2, <2>3, <2>4 DEF OneInFlight
  <1>4. HoldsKept
    BY <1>2 DEF HoldsKept, creditVars, orderVars
  <1>5. WebhookDue' /\ AdminDue'
    BY <1>2, <1>4, DueKept
  <1>6. PendingInv'
    BY <1>2, PendingStays DEF orderVars, creditVars
  <1>7. JobDue'
    BY <1>1, <1>2 DEF JobDue, HoldsCredit, Unsettled, orderVars, creditVars
  <1> QED
    BY <1>2, <1>3, <1>5, <1>6, <1>7, LedgerStays, TakingStays

(* The administrator's endpoints: cancel settles what nobody has, status   *)
(* moves no credit.                                                        *)
LEMMA AdminSerial ==
    ASSUME IInv, SerialInv, SerialSchedule, NEW r \in AdminRequests,
           (MayStart(r.order) /\ (AdminCancelRead(r) \/ AdminStatusRequest(r))) \/ AdminStep(r),
           UNCHANGED <<create, payments, webhookVars, job, faults>>
    PROVE  SerialInv'
  <1> USE DEF SerialInv
  <1> DEFINE o == r.order
  <1>a. /\ o \in Orders /\ r.status \in OrderStatus
        /\ r.endpoint = "cancel" => r.status = "CANCELLED" /\ CancelsSafely
        /\ UNCHANGED <<webhook, payments>>
        /\ orders \in [Orders -> OrderRow] /\ ledger \in [Orders -> LedgerEntry]
    BY RequestReferences DEF SerialSchedule, webhookVars, IInv, TypeOK, OrderTypeOK, CreditTypeOK
  <1>b. /\ AdminBusy(r) => Exists(o)
        /\ AdminBusy(r) /\ r.endpoint = "cancel" => create[o].method # "CREDIT"
        /\ admin[r] \in {"mark", "release"} => r.endpoint = "cancel"
        /\ admin[r] = "write" => r.status # "PENDING"
    BY DEF IInv, AdminInv, AdminBusy
  <1>1. PICK pc \in {"done", "validate", "write", "mark", "release"} : Go(r, pc)
    BY DEF AdminCancelRead, AdminStatusRequest, AdminStep, AdminValidate, AdminWrite,
       AdminMark, AdminRelease
  <1>2. admin'[r] = pc /\ \A x \in AdminRequests \ {r} : admin'[x] = admin[x]
    BY <1>1 DEF Go, IInv, TypeOK, AdminTypeOK
  <1>3. /\ \A x \in AdminRequests \ {r} : x.order = o => ~AdminBusy(x)
        /\ \A j \in Jobs : job[j][o] = "none"
        /\ \A d \in Deliveries : d.order = o => ~WebhookBusy(d)
    <2>1. CASE MayStart(o) /\ (AdminCancelRead(r) \/ AdminStatusRequest(r))
      BY <1>a, <2>1, NobodyBusy
    <2>2. CASE AdminStep(r)
      <3>1. AdminBusy(r)
        BY <2>2 DEF AdminStep, AdminValidate, AdminWrite, AdminMark, AdminRelease, AdminBusy
      <3> QED
        BY <3>1 DEF OneInFlight
    <2> QED
      BY <2>1, <2>2
  <1>h. OthersKept(o)
    <2>1. \A x \in Orders \ {o} : orders'[x] = orders[x]
      BY <1>a DEF AdminCancelRead, AdminStatusRequest, AdminStep, AdminValidate, AdminWrite,
         AdminMark, AdminRelease, orderVars, MarkCreditRestored, UpdateOrderStatus
    <2>2. \A x \in Orders \ {o} : ledger'[x] = ledger[x]
      BY <1>a DEF AdminCancelRead, AdminStatusRequest, AdminStep, AdminValidate, AdminWrite,
         AdminMark, AdminRelease, creditVars, ReleaseReservedCredit, RefundHold
    <2> QED
      BY <2>1, <2>2 DEF OthersKept
  <1>4. OneInFlight' /\ WebhookDue' /\ JobDue'
    <2>1. \A x \in AdminRequests : AdminBusy(x)' => AdminBusy(x) \/ x = r
      BY <1>2 DEF AdminBusy
    <2>2. \A d \in Deliveries : WebhookBusy(d)' <=> WebhookBusy(d)
      BY <1>a DEF WebhookBusy
    <2>3. OneInFlight'
      BY <1>3, <2>1, <2>2 DEF OneInFlight
    <2> QED
      BY <1>3, <1>a, <1>h, <2>3, OthersDue
  <1>5. ASSUME r.endpoint = "cancel" /\ pc # "done" => Unsettled(o)',
               pc \in {"mark", "release"} =>
                  orders'[o].creditUsed > 0 /\ orders'[o].paymentStatus # "PENDING"
        PROVE  AdminDue'
    <2> SUFFICES ASSUME NEW x \in AdminRequests
                 PROVE  /\ x.endpoint = "cancel" /\ AdminBusy(x)' => Unsettled(x.order)'
                        /\ admin'[x] \in {"mark", "release"} =>
                              /\ orders'[x.order].creditUsed > 0
                              /\ orders'[x.order].paymentStatus # "PENDING"
      BY DEF AdminDue
    <2>1. CASE x = r
      BY <2>1, <1>2, <1>5 DEF AdminBusy
    <2>2. CASE x # r /\ x.order = o
      BY <2>2, <1>2, <1>3 DEF AdminBusy
    <2>3. CASE x # r /\ x.order # o
      BY <2>3, <1>2, <1>h, RequestReferences DEF OthersKept, AdminDue, AdminBusy, Unsettled
    <2> QED
      BY <2>1, <2>2, <2>3
  <1>6. CASE AdminCancelRead(r)
    <2>1. UNCHANGED <<creditVars, orderVars>> /\ ~AdminBusy(r)
      BY <1>6 DEF AdminCancelRead, AdminBusy
    <2>2. /\ pc = "validate" => orders[o].paymentStatus = "PENDING"
          /\ pc \in {"done", "validate"} /\ CancelsSafely
      BY <1>a, <1>6, <1>2 DEF AdminCancelRead, Go, IInv, TypeOK, AdminTypeOK
    <2>3. pc = "validate" => Unsettled(o)
      BY <1>a, <1>3, <2>2 DEF PendingInv, WebhookBusy
    <2>4. AdminDue' /\ PendingInv'
      BY <1>a, <1>5, <2>1, <2>2, <2>3, PendingStays DEF Unsettled, creditVars, orderVars
    <2> QED
      BY <1>4, <2>1, <2>4, LedgerStays, TakingStays
  <1>7. CASE AdminStatusRequest(r) \/ AdminValidate(r)
    <2>1. /\ UNCHANGED <<creditVars, orderVars>> /\ pc \in {"done", "validate", "write"}
          /\ r.endpoint = "cancel" => Unsettled(o)
      BY <1>7, <1>2 DEF AdminStatusRequest, AdminValidate, Go, IInv, TypeOK, AdminTypeOK,
         AdminDue, AdminBusy
    <2>2. AdminDue' /\ PendingInv'
      BY <1>a, <1>5, <2>1, PendingStays DEF Unsettled, creditVars, orderVars
    <2> QED
      BY <1>4, <2>1, <2>2, LedgerStays, TakingStays
  <1>8. CASE AdminWrite(r)
    <2>1. /\ UNCHANGED <<creditVars, cart>> /\ UpdateOrderStatus(o, r.status)
          /\ AdminBusy(r) /\ r.status # "PENDING"
          /\ pc = IF r.endpoint = "cancel" /\ orders[o].creditUsed > 0 THEN "mark" ELSE "done"
      BY <1>8, <1>2, <1>b DEF AdminWrite, AdminBusy, Go, IInv, TypeOK, AdminTypeOK
    <2>2. /\ orders'[o].creditUsed = orders[o].creditUsed
          /\ orders'[o].paymentStatus = r.status
          /\ \A x \in Orders \ {o} : orders'[x] = orders[x]
      BY <1>a, <2>1 DEF UpdateOrderStatus, OrderRow
    <2>3. AdminDue'
      BY <1>5, <2>1, <2>2 DEF AdminDue, Unsettled, creditVars
    <2>4. PendingInv'
      BY <1>a, <2>1, <2>2, PendingKept DEF Unsettled, creditVars
    <2> QED
      BY <1>4, <2>1, <2>3, <2>4, LedgerStays, TakingStays
  <1>9. CASE AdminMark(r)
    <2>1. /\ UNCHANGED <<creditVars, cart>> /\ MarkCreditRestored(o) /\ pc = "release"
          /\ AdminBusy(r) /\ admin[r] = "mark"
      BY <1>9, <1>2 DEF AdminMark, AdminBusy, Go, IInv, TypeOK, AdminTypeOK
    <2>2. \A x \in Orders : /\ orders'[x].creditUsed = orders[x].creditUsed
                            /\ orders'[x].paymentStatus = orders[x].paymentStatus
      BY <1>a, <2>1, RestoredMarked DEF IInv, TypeOK
    <2>3. AdminDue'
      BY <1>5, <1>a, <2>1, <2>2 DEF AdminDue, Unsettled, creditVars
    <2>4. PendingInv'
      BY <1>a, <2>1, <2>2, PendingStays DEF creditVars
    <2> QED
      BY <1>4, <2>1, <2>3, <2>4, LedgerStays, TakingStays
  <1>10. CASE AdminRelease(r)
    <2>1. /\ ReleaseReservedCredit(o, orders[o].creditUsed) /\ UNCHANGED orderVars
          /\ pc = "done" /\ admin[r] = "release" /\ AdminBusy(r)
      BY <1>10, <1>2 DEF AdminRelease, AdminBusy, Go, IInv, TypeOK, AdminTypeOK
    <2>2. Unsettled(o) /\ orders[o].paymentStatus # "PENDING"
      BY <1>b, <2>1 DEF AdminDue
    <2>3. /\ SettledWhole' /\ \A x \in Orders : ledger'[x].reserved = ledger[x].reserved
          /\ \A x \in Orders \ {o} : ledger'[x] = ledger[x]
      BY <1>a, <1>b, <2>1, <2>2, HoldSettled
    <2>4. AdminDue'
      BY <1>5, <2>1
    <2>5. PendingInv'
      BY <1>a, <2>1, <2>2, <2>3, PendingKept DEF Unsettled, orderVars
    <2> QED
      BY <1>4, <2>3, <2>4, <2>5, TakingStays
  <1> QED
    BY <1>6, <1>7, <1>8, <1>9, <1>10 DEF AdminStep

(* The client's cancellation is one transaction: it settles a hold only if *)
(* nobody has.                                                             *)
LEMMA ClientSerial ==
    ASSUME IInv, SerialInv, SerialSchedule, NEW o \in Orders, MayStart(o), ClientCancel(o),
           UNCHANGED <<create, payments, webhookVars, job, faults>>
    PROVE  SerialInv'
  <1> USE DEF SerialInv
  <1>1. UNCHANGED <<webhook, job, admin>>
    BY DEF ClientCancel, webhookVars
  <1>h. OthersKept(o)
    BY DEF OthersKept, ClientCancel, RefundHold, creditVars, IInv, TypeOK, OrderTypeOK,
       CreditTypeOK
  <1>2. OneInFlight' /\ WebhookDue' /\ JobDue' /\ AdminDue'
    <2>1. OneInFlight'
      BY <1>1, NobodyStarts DEF WebhookBusy, AdminBusy
    <2> QED
      BY <1>1, <1>h, <2>1, NobodyBusy, OthersDue
  <1>3. Exists(o) /\ create[o].method # "CREDIT"
    BY PayableNotCredit DEF ClientCancel
  <1>4. /\ SettledWhole' /\ \A x \in Orders : ledger'[x].reserved = ledger[x].reserved
        /\ \A x \in Orders \ {o} : ledger'[x] = ledger[x]
    <2>1. CASE HoldsCredit(o) /\ RefundHold(o, orders[o].creditUsed)
      BY <2>1, <1>3, HoldSettled, UnflaggedUnsettled DEF HoldsCredit
    <2>2. CASE UNCHANGED creditVars
      BY <2>2, LedgerStays
    <2> QED
      BY <2>1, <2>2 DEF ClientCancel
  <1>5. \A x \in Orders : orders'[x].paymentStatus =
                             IF x = o THEN "CANCELLED" ELSE orders[x].paymentStatus
    BY DEF ClientCancel, IInv, TypeOK, OrderTypeOK, OrderRow
  <1>6. PendingInv'
    BY <1>4, <1>5, PendingKept DEF Unsettled, webhookVars
  <1> QED
    BY <1>2, <1>4, <1>6, TakingStays

-----------------------------------------------------------------------------
(* Failures and restarts: handlers only end. *)

LEMMA FaultSerial ==
    ASSUME IInv, SerialInv, Fault
    PROVE  SerialInv'
  <1> USE DEF SerialInv
  <1>1. UNCHANGED <<creditVars, orders>>
    BY DEF Fault, CreateFault, WebhookFault, JobFault, AdminFault, orderVars
  <1>2. HoldsKept
    BY <1>1 DEF HoldsKept, creditVars
  <1>a. PendingInv'
    BY CancelsFailFree DEF PendingInv, CancelsSafely
  <1>3. ASSUME NEW o \in Orders, CreateFault(o), UNCHANGED <<payments, webhookVars, job, admin>>
        PROVE  SerialInv'
    <2>1. OneInFlight' /\ WebhookDue' /\ JobDue' /\ AdminDue'
      BY <1>2, <1>3, DueKept, NobodyStarts DEF webhookVars, WebhookBusy, AdminBusy
    <2>2. PICK pc \in {"done", "failed"} : Continue(o, pc)
      BY <1>3 DEF CreateFault
    <2>3. TakingInv'
      BY <1>1, <2>2, CheckoutMoved DEF TakingInv, CreatePc, IInv, TypeOK, creditVars
    <2> QED
      BY <1>1, <1>a, <2>1, <2>3, LedgerStays
  <1>4. ASSUME NEW d \in Deliveries, WebhookFault(d), UNCHANGED <<create, job, admin>>
        PROVE  SerialInv'
    <2>1. \A x \in Deliveries : webhook'[x] = webhook[x] \/ webhook'[x].pc = "done"
      BY <1>4 DEF WebhookFault, Resume, IInv, TypeOK, WebhookTypeOK
    <2>2. OneInFlight'
      BY <1>4, <2>1, NobodyStarts DEF WebhookBusy, AdminBusy
    <2>3. WebhookDue'
      BY <1>1, <2>1 DEF WebhookDue, HoldsCredit, Unsettled, creditVars
    <2> QED
      BY <1>1, <1>2, <1>4, <1>a, <2>2, <2>3, DueKept, LedgerStays, TakingStays
  <1>5. ASSUME NEW j \in Jobs, NEW o \in Orders, JobFault(j, o),
               UNCHANGED <<create, payments, webhookVars, admin>>
        PROVE  SerialInv'
    <2>1. \A k \in Jobs, x \in Orders : job'[k][x] = job[k][x] \/ job'[k][x] = "none"
      BY <1>5, JobMoved DEF JobFault, IInv, TypeOK
    <2>2. OneInFlight'
      BY <1>5, <2>1, NobodyStarts DEF WebhookBusy, AdminBusy, webhookVars
    <2>3. JobDue'
      BY <1>1, <2>1 DEF JobDue, HoldsCredit, Unsettled, creditVars
    <2> QED
      BY <1>1, <1>2, <1>5, <1>a, <2>2, <2>3, DueKept, LedgerStays, TakingStays DEF webhookVars
  <1>6. ASSUME NEW r \in AdminRequests, AdminFault(r),
               UNCHANGED <<create, payments, webhookVars, job>>
        PROVE  SerialInv'
    <2>1. \A x \in AdminRequests : admin'[x] = admin[x] \/ admin'[x] = "done"
      BY <1>6 DEF AdminFault, Go, IInv, TypeOK, AdminTypeOK
    <2>2. OneInFlight'
      BY <1>6, <2>1, NobodyStarts DEF WebhookBusy, AdminBusy, webhookVars
    <2>3. AdminDue'
      BY <1>1, <2>1 DEF AdminDue, AdminBusy, Unsettled, creditVars
    <2> QED
      BY <1>1, <1>2, <1>6, <1>a, <2>2, <2>3, DueKept, LedgerStays, TakingStays DEF webhookVars
  <1> QED
    BY <1>3, <1>4, <1>5, <1>6 DEF Fault

LEMMA RestartSerial ==
    ASSUME IInv, SerialInv, Restart
    PROVE  SerialInv'
  <1> USE DEF SerialInv
  <1>1. UNCHANGED <<creditVars, orders>>
    BY DEF Restart, orderVars
  <1>2. \A o \in Orders : /\ create'[o].method = create[o].method
                          /\ create'[o].pc \in {"idle", "done", "failed"}
    BY DEF Restart, CreateCrashed, IInv, TypeOK, CreateTypeOK
  <1>3. /\ \A d \in Deliveries : webhook'[d].pc \in {"idle", "done"}
        /\ \A j \in Jobs, o \in Orders : job'[j][o] = "none"
        /\ \A r \in AdminRequests : admin'[r] \in {"idle", "done"}
    BY DEF Restart, WebhookCrashed, JobCrashed, AdminCrashed, IInv, TypeOK, WebhookTypeOK
  <1>4. OneInFlight' /\ WebhookDue' /\ JobDue' /\ AdminDue'
    BY <1>3 DEF OneInFlight, WebhookBusy, AdminBusy, WebhookDue, JobDue, AdminDue
  <1>6. PendingInv'
    BY CancelsFailFree DEF PendingInv, CancelsSafely
  <1>5. TakingInv'
    BY <1>1, <1>2 DEF TakingInv, creditVars
  <1> QED
    BY <1>1, <1>4, <1>5, <1>6, LedgerStays

-----------------------------------------------------------------------------
(* The inductive invariant. *)

LEMMA InitSerial == Init => SerialInv
  <1> SUFFICES ASSUME Init PROVE SerialInv
    OBVIOUS
  <1> USE DEF Init, CreditInit, OrderInit, CreateInit, WebhookInit, JobInit, AdminInit
  <1>1. OneInFlight /\ WebhookDue /\ JobDue /\ AdminDue
    BY DEF OneInFlight, WebhookBusy, AdminBusy, WebhookDue, JobDue, AdminDue
  <1>3. PendingInv
    BY DEF PendingInv, Undecided
  <1>2. TakingInv /\ SettledWhole
    BY DEF TakingInv, SettledWhole, Unsettled
  <1> QED
    BY <1>1, <1>2, <1>3 DEF SerialInv

(* A step that leaves orders, credit and handlers alone. *)
LEMMA QuietStep ==
    ASSUME IInv, SerialInv, HoldsKept, UNCHANGED <<ledger, create, webhook, job, admin>>,
           PendingInv'
    PROVE  SerialInv'
  <1>1. WebhookDue' /\ JobDue' /\ AdminDue'
    BY DueKept DEF SerialInv
  <1>2. OneInFlight' /\ TakingInv' /\ SettledWhole'
    BY DEF SerialInv, OneInFlight, WebhookBusy, AdminBusy, TakingInv, SettledWhole,
       Unsettled
  <1> QED
    BY <1>1, <1>2 DEF SerialInv

LEMMA NextSerial ==
    ASSUME IInv, SerialInv, SerialSchedule, [Next]_vars
    PROVE  SerialInv'
  <1>1. CASE Checkout
    BY <1>1, CheckoutSerial DEF Checkout
  <1>2. CASE Customer
    <2>1. ASSUME NEW u \in Users, SaveCart(u), UNCHANGED <<creditVars, admin>>,
                 UNCHANGED <<create, payments, webhookVars, job, faults>>
          PROVE  SerialInv'
      BY <2>1, QuietStep, PendingStays DEF SerialInv, HoldsKept, SaveCart, creditVars, webhookVars
    <2> QED
      BY <1>2, <2>1, ClientSerial DEF Customer
  <1>3. CASE Provider
    <2>1. PICK p \in Attempts : ProviderStep(p)
      BY <1>3 DEF Provider
    <2>2. UNCHANGED <<creditVars, orderVars, create, webhook, job, admin>>
      BY <1>3, <2>1 DEF Provider, ProviderStep, webhookVars
    <2>3. \A q \in Attempts : payments'[q] = payments[q] \/ payments'[q] \in ProviderStatuses
      BY <2>1 DEF ProviderStep, IInv, TypeOK, WebhookTypeOK
    <2>4. PendingInv'
      BY <2>2, <2>3 DEF SerialInv, PendingInv, CancelsSafely, Unsettled, creditVars, orderVars
    <2> QED
      BY <2>2, <2>4, QuietStep DEF HoldsKept, creditVars, orderVars
  <1>4. CASE Webhook
    BY <1>4, WebhookSerial DEF Webhook
  <1>5. CASE AbandonedJob
    BY <1>5, JobStartSerial, JobSerial DEF AbandonedJob
  <1>6. CASE Administrator
    <2>1. ASSUME NEW u \in Users, NEW x \in CreditGrants, AdminSetCredit(u, x),
                 UNCHANGED <<orderVars, admin>>,
                 UNCHANGED <<create, payments, webhookVars, job, faults>>
          PROVE  SerialInv'
      BY <2>1, QuietStep, PendingStays
      DEF SerialInv, AdminSetCredit, HoldsKept, orderVars, webhookVars
    <2> QED
      BY <1>6, <2>1, AdminSerial DEF Administrator
  <1>7. CASE Fault
    BY <1>7, FaultSerial
  <1>8. CASE Restart
    BY <1>8, RestartSerial
  <1>9. CASE UNCHANGED vars
    BY <1>9, QuietStep, PendingStays
    DEF SerialInv, vars, HoldsKept, creditVars, orderVars, webhookVars
  <1> QED
    BY <1>1, <1>2, <1>3, <1>4, <1>5, <1>6, <1>7, <1>8, <1>9 DEF Next

-----------------------------------------------------------------------------
(* The account of CreditHolds: what one statement does to it. *)

AccountVars == <<creditValue, creditReserved, phases, amounts>>

LEMMA AccountStays ==
    ASSUME UNCHANGED creditVars
    PROVE  UNCHANGED AccountVars
  BY DEF AccountVars, creditVars, phases, amounts, Phase

(* The entry of one order changes: so do its phase and amount, no others. *)
LEMMA OnePhase ==
    ASSUME NEW o \in Orders, \A x \in Orders \ {o} : ledger'[x] = ledger[x]
    PROVE  /\ phases' = [phases EXCEPT ![o] = Phase(o)']
           /\ amounts' = [amounts EXCEPT ![o] = ledger'[o].deducted + ledger'[o].reserved]
  <1>1. \A x \in Orders \ {o} : Phase(x)' = Phase(x)
    BY DEF Phase
  <1> QED
    BY <1>1 DEF phases, amounts

(* A checkout that deducts spends, one that reserves holds. *)
LEMMA AccountTaken ==
    ASSUME IInv, SerialInv, NEW o \in Orders, create[o].pc \in {"deduct", "reserve"},
           \/ DeductCreditAtomic(o, create[o].used)
           \/ ReserveCredit(o, create[o].used)
    PROVE  Account!Spend(o) \/ Account!Hold(o)
  <1> DEFINE a == create[o].used
             u == CustomerOf[o]
  <1>1. /\ a \in Nat /\ a > 0 /\ u \in Users
        /\ creditValue \in [Users -> Int] /\ ledger \in [Orders -> LedgerEntry]
    BY CustomerAssumption DEF IInv, TypeOK, CreateTypeOK, CreditTypeOK, SerialInv, TakingInv
  <1>2. ledger[o].deducted = 0 /\ ledger[o].reserved = 0 /\ Unsettled(o)
    BY UnflaggedUnsettled DEF IInv, CheckoutInv
  <1>3. Phase(o) = "none" /\ phases[o] = "none"
    BY <1>1, <1>2 DEF Phase, phases, LedgerEntry
  <1>4. a \in 1..creditValue[u] /\ creditValue' = [creditValue EXCEPT ![u] = @ - a]
    BY <1>1 DEF DeductCreditAtomic, DeductUnchecked, ReserveCredit, ReserveUnchecked, CanCover
  <1>5. \A x \in Orders \ {o} : ledger'[x] = ledger[x]
    BY <1>1 DEF DeductCreditAtomic, DeductUnchecked, ReserveCredit, ReserveUnchecked
  <1>6. ASSUME NEW p, Phase(o)' = p, ledger'[o].deducted + ledger'[o].reserved = a
        PROVE  Account!TakeFrom(o, a, p)
    BY <1>1, <1>3, <1>4, <1>5, <1>6, OnePhase DEF Account!TakeFrom
  <1>7. CASE DeductCreditAtomic(o, a)
    <2>1. /\ ledger'[o].deducted = a /\ ledger'[o].reserved = 0
          /\ UNCHANGED creditReserved
      BY <1>1, <1>2, <1>7 DEF DeductCreditAtomic, DeductUnchecked, LedgerEntry
    <2>2. Account!TakeFrom(o, a, "spent")
      BY <1>1, <1>6, <2>1 DEF Phase
    <2> QED
      BY <1>4, <2>1, <2>2 DEF Account!Spend
  <1>8. CASE ReserveCredit(o, a)
    <2>1. /\ ledger'[o].deducted = 0 /\ ledger'[o].reserved = a
          /\ ledger'[o].consumed = 0 /\ ledger'[o].released = 0
          /\ creditReserved' = [creditReserved EXCEPT ![u] = @ + a]
      BY <1>1, <1>2, <1>8 DEF ReserveCredit, ReserveUnchecked, LedgerEntry, Unsettled
    <2>2. Account!TakeFrom(o, a, "held")
      BY <1>1, <1>6, <2>1 DEF Phase
    <2> QED
      BY <1>4, <2>1, <2>2 DEF Account!Hold
  <1> QED
    BY <1>7, <1>8

(* A statement that settles a hold consumes or releases it in the account, *)
(* or is the silent no-op.                                                 *)
LEMMA AccountSettled ==
    ASSUME IInv, NEW o \in Orders, Exists(o), create[o].method # "CREDIT",
           orders[o].creditUsed > 0, Unsettled(o),
           \/ RefundHold(o, orders[o].creditUsed)
           \/ ReleaseReservedCredit(o, orders[o].creditUsed)
           \/ ConsumeReservedCredit(o, orders[o].creditUsed)
    PROVE  Account!Consume(o) \/ Account!Release(o) \/ UNCHANGED AccountVars
  <1> DEFINE a == orders[o].creditUsed
  <1>1. /\ ledger[o].deducted = 0 /\ a = ledger[o].reserved
        /\ ledger[o].consumed = 0 /\ ledger[o].released = 0
        /\ ledger \in [Orders -> LedgerEntry] /\ a \in Nat
    BY UsedIsHeld DEF IInv, TypeOK, CreditTypeOK, OrderTypeOK, OrderRow, Unsettled
  <1>2. phases[o] = "held" /\ amounts[o] = a
    BY <1>1 DEF phases, amounts, Phase
  <1>3. ASSUME NEW p, Phase(o)' = p,
               \A x \in Orders \ {o} : ledger'[x] = ledger[x],
               ledger'[o].deducted = 0, ledger'[o].reserved = a,
               creditReserved' = [creditReserved EXCEPT ![CustomerOf[o]] = @ - a]
        PROVE  Account!Settle(o, p)
    <2>1. /\ phases' = [phases EXCEPT ![o] = p]
          /\ amounts' = [amounts EXCEPT ![o] = a]
      BY <1>1, <1>3, OnePhase
    <2>2. UNCHANGED amounts
      BY <1>2, <2>1 DEF amounts
    <2> QED
      BY <1>2, <1>3, <2>1, <2>2 DEF Account!Settle
  <1>4. CASE RefundHold(o, a)
    <2>1. /\ ledger'[o].deducted = 0 /\ ledger'[o].reserved = a
          /\ ledger'[o].consumed = 0 /\ ledger'[o].released = a
          /\ \A x \in Orders \ {o} : ledger'[x] = ledger[x]
      BY <1>1, <1>4 DEF RefundHold, LedgerEntry
    <2>2. Phase(o)' = "released"
      BY <1>1, <2>1 DEF Phase
    <2>3. Account!Settle(o, "released")
      BY <1>3, <1>4, <2>1, <2>2 DEF RefundHold
    <2> QED
      BY <1>2, <1>4, <2>3 DEF Account!Release, RefundHold
  <1>5. CASE ConsumeHold(o, a)
    <2>1. /\ ledger'[o].deducted = 0 /\ ledger'[o].reserved = a
          /\ ledger'[o].consumed = a
          /\ \A x \in Orders \ {o} : ledger'[x] = ledger[x]
      BY <1>1, <1>5 DEF ConsumeHold, LedgerEntry
    <2>2. Phase(o)' = "consumed"
      BY <1>1, <2>1 DEF Phase
    <2>3. Account!Settle(o, "consumed")
      BY <1>3, <1>5, <2>1, <2>2 DEF ConsumeHold
    <2> QED
      BY <1>5, <2>3 DEF Account!Consume, ConsumeHold
  <1>6. CASE UNCHANGED creditVars
    BY <1>6, AccountStays
  <1> QED
    BY <1>4, <1>5, <1>6 DEF ReleaseReservedCredit, ConsumeReservedCredit

(* PUT /v2/users/:id is an adjustment. *)
LEMMA AccountAdjusted ==
    ASSUME IInv, NEW u \in Users, NEW x \in CreditGrants, AdminSetCredit(u, x)
    PROVE  Account!Adjust(u)
  <1>1. /\ creditValue' = [creditValue EXCEPT ![u] = x] /\ creditValue'[u] = x /\ x \in Nat
        /\ UNCHANGED <<creditReserved, ledger>>
    BY CreditAssumption DEF AdminSetCredit, IInv, TypeOK, CreditTypeOK
  <1>2. UNCHANGED <<phases, amounts>>
    BY <1>1 DEF phases, amounts, Phase
  <1> QED
    BY <1>1, <1>2 DEF Account!Adjust

-----------------------------------------------------------------------------
(* Every step is a step of the account, or one it does not see. *)

AccountStep == Account!Next \/ UNCHANGED AccountVars

LEMMA CheckoutAccount ==
    ASSUME IInv, SerialInv, NEW o \in Orders, CreateStep(o)
    PROVE  AccountStep
  <1>1. CASE UNCHANGED creditVars
    BY <1>1, AccountStays DEF AccountStep
  <1>2. CASE /\ create[o].pc \in {"deduct", "reserve"}
             /\ \/ DeductCreditAtomic(o, create[o].used)
                \/ ReserveCredit(o, create[o].used)
    BY <1>2, AccountTaken DEF AccountStep, Account!Next
  <1> QED
    BY <1>1, <1>2 DEF CreateStep, CreateBegin, CreateDeduct, CreateReserve, CreateSave, CreateMark,
       CreateClearCart, CreatePreference, CreateSetGateway, At

LEMMA WebhookAccount ==
    ASSUME IInv, SerialInv, NEW d \in Deliveries, WebhookFind(d) \/ WebhookStep(d)
    PROVE  AccountStep
  <1>1. CASE UNCHANGED creditVars
    BY <1>1, AccountStays DEF AccountStep
  <1>2. CASE WebhookSettle(d)
    <2>1. /\ d.order \in Orders /\ Exists(d.order) /\ create[d.order].method # "CREDIT"
          /\ orders[d.order].creditUsed > 0 /\ Unsettled(d.order)
      BY <1>2, DeliveryReferences, PayableNotCredit
      DEF WebhookSettle, SerialInv, WebhookDue, IInv, WebhookInv
    <2> QED
      BY <1>2, <2>1, AccountSettled DEF WebhookSettle, AccountStep, Account!Next
  <1> QED
    BY <1>1, <1>2 DEF WebhookFind, WebhookStep, WebhookSavePending, WebhookFetch,
       WebhookSaveProcessed, WebhookRead, WebhookMark, WebhookWrite, WebhookClearCart

LEMMA JobAccount ==
    ASSUME IInv, SerialInv, NEW j \in Jobs, NEW o \in Orders, JobOrderStep(j, o)
    PROVE  AccountStep
  <1>1. CASE UNCHANGED creditVars
    BY <1>1, AccountStays DEF AccountStep
  <1>2. CASE JobRelease(j, o)
    <2>1. /\ Exists(o) /\ create[o].method # "CREDIT"
          /\ orders[o].creditUsed > 0 /\ Unsettled(o)
      BY <1>2 DEF JobRelease, SerialInv, JobDue, IInv, JobInv
    <2> QED
      BY <1>2, <2>1, AccountSettled DEF JobRelease, AccountStep, Account!Next
  <1> QED
    BY <1>1, <1>2 DEF JobOrderStep, JobCancel, JobMark

LEMMA ClientAccount ==
    ASSUME IInv, NEW o \in Orders, ClientCancel(o)
    PROVE  AccountStep
  <1>1. CASE UNCHANGED creditVars
    BY <1>1, AccountStays DEF AccountStep
  <1>2. CASE HoldsCredit(o) /\ RefundHold(o, orders[o].creditUsed)
    <2>1. Exists(o) /\ create[o].method # "CREDIT" /\ Unsettled(o)
      BY <1>2, PayableNotCredit, UnflaggedUnsettled DEF ClientCancel, HoldsCredit
    <2> QED
      BY <1>2, <2>1, AccountSettled DEF HoldsCredit, AccountStep, Account!Next
  <1> QED
    BY <1>1, <1>2 DEF ClientCancel

LEMMA AdministratorAccount ==
    ASSUME IInv, SerialInv, Administrator
    PROVE  AccountStep
  <1>1. CASE UNCHANGED creditVars
    BY <1>1, AccountStays DEF AccountStep
  <1>2. ASSUME NEW u \in Users, NEW x \in CreditGrants, AdminSetCredit(u, x)
        PROVE  AccountStep
    BY <1>2, AccountAdjusted DEF AccountStep, Account!Next
  <1>3. ASSUME NEW r \in AdminRequests, AdminRelease(r)
        PROVE  AccountStep
    <2>1. admin[r] = "release" /\ ReleaseReservedCredit(r.order, orders[r.order].creditUsed)
      BY <1>3 DEF AdminRelease
    <2>2. r.endpoint = "cancel" /\ AdminBusy(r)
      BY <2>1 DEF IInv, AdminInv, AdminBusy
    <2>3. r.order \in Orders /\ Exists(r.order) /\ create[r.order].method # "CREDIT"
      BY <2>1, <2>2, RequestReferences DEF IInv, AdminInv
    <2>4. orders[r.order].creditUsed > 0 /\ Unsettled(r.order)
      BY <2>1, <2>2 DEF SerialInv, AdminDue
    <2> QED
      BY <2>1, <2>3, <2>4, AccountSettled DEF AccountStep, Account!Next
  <1> QED
    BY <1>1, <1>2, <1>3 DEF Administrator, AdminCancelRead, AdminStatusRequest, AdminStep,
       AdminValidate, AdminWrite, AdminMark

LEMMA NextAccount ==
    ASSUME IInv, SerialInv, SerialSchedule, [Next]_vars
    PROVE  [Account!Next]_AccountVars
  <1>1. CASE UNCHANGED creditVars
    BY <1>1, AccountStays
  <1>2. CASE Checkout
    BY <1>2, CheckoutAccount DEF Checkout, AccountStep
  <1>3. CASE Customer
    BY <1>1, <1>3, ClientAccount DEF Customer, AccountStep
  <1>4. CASE Webhook
    BY <1>4, WebhookAccount DEF Webhook, AccountStep
  <1>5. CASE AbandonedJob
    BY <1>1, <1>5, JobAccount DEF AbandonedJob, JobScan, AccountStep
  <1>6. CASE Administrator
    BY <1>6, AdministratorAccount DEF AccountStep
  <1>7. CASE Provider \/ Fault \/ Restart \/ UNCHANGED vars
    BY <1>1, <1>7 DEF Provider, ProviderStep, Fault, CreateFault, WebhookFault, JobFault,
       AdminFault, Restart, vars
  <1> QED
    BY <1>2, <1>3, <1>4, <1>5, <1>6, <1>7 DEF Next

LEMMA InitAccount == Init => Account!Init
  BY CreditAssumption DEF Init, CreditInit, Account!Init, phases, amounts, Phase

-----------------------------------------------------------------------------
(* The theorems. *)

(* SerialInv holds of every reachable state, for any number of users,      *)
(* orders, deliveries, job runs, requests, failures and restarts, when     *)
(* settling handlers of one order do not overlap and administrators cancel *)
(* only where nothing that was settled is PENDING (SerialSchedule).        *)
THEOREM SerialInvariance == SerialSchedule => (Spec => []SerialInv)
  <1> SUFFICES ASSUME SerialSchedule PROVE Spec => []SerialInv
    OBVIOUS
  <1>1. Init => SerialInv
    BY InitSerial
  <1>2. IInv /\ SerialInv /\ [Next]_vars => SerialInv'
    BY NextSerial
  <1> QED
    BY <1>1, <1>2, Invariance, PTL DEF Spec

(* Then every hold is consumed or released at most once, whichever of the  *)
(* webhook, the job and the two cancellations gets to it, and whatever     *)
(* fails in between (the statements of UserSQLRepository are guarded by    *)
(* creditReserved, never by the order).                                    *)
THEOREM HoldsSettledOnce == SerialSchedule => (Spec => []SettledOnce)
  <1> SUFFICES ASSUME SerialSchedule PROVE Spec => []SettledOnce
    OBVIOUS
  <1>1. IInv /\ SerialInv => SettledOnce
    <2> SUFFICES ASSUME IInv, SerialInv, NEW o \in Orders
                 PROVE  ledger[o].consumed + ledger[o].released <= ledger[o].reserved
      BY DEF SettledOnce
    <2>1. /\ ledger[o].reserved \in Nat
          /\ ledger[o].consumed \in Nat /\ ledger[o].released \in Nat
      BY DEF IInv, TypeOK, CreditTypeOK, LedgerEntry
    <2> QED
      BY <2>1 DEF SerialInv, SettledWhole, Unsettled
  <1> QED
    BY <1>1, Invariance, SerialInvariance, PTL

(* Then the checkout, webhook, job, endpoints and credit edits together    *)
(* implement the account of CreditHolds: every step of theirs spends,      *)
(* holds, consumes, releases or adjusts, or leaves the account alone.      *)
THEOREM AccountImplemented == SerialSchedule => (Spec => AccountRefined)
  <1> SUFFICES ASSUME SerialSchedule PROVE Spec => AccountRefined
    OBVIOUS
  <1>1. Init => Account!Init
    BY InitAccount
  <1>2. IInv /\ SerialInv /\ [Next]_vars
           => [Account!Next]_<<creditValue, creditReserved, phases, amounts>>
    BY NextAccount DEF AccountVars
  <1> QED
    BY <1>1, <1>2, Invariance, SerialInvariance, PTL DEF Spec, AccountRefined, Account!Spec
=============================================================================
