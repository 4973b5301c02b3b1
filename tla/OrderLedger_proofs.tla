------------------------ MODULE OrderLedger_proofs ------------------------
(***************************************************************************)
(* Proofs, for every value of the constants, of what OrderLedger says of   *)
(* the balances: first under every interleaving, failure and restart, then *)
(* while the settling handlers of one order do not overlap.  The amounts   *)
(* of any number of orders are summed by counting their units, so that a   *)
(* sum changes by what a statement moves (UnitsGrow).                      *)
(***************************************************************************)
EXTENDS OrderLedger, OrderAccount_proofs, FiniteSetTheorems

-----------------------------------------------------------------------------
(* Sums of amounts. *)

Amounts == [Orders -> Nat]

LEMMA UnitsAre ==
    ASSUME NEW f \in Amounts, NEW u
    PROVE  \A p : p \in Units(f, u) <=>
                     \E o \in OrdersOf(u) : \E k \in 1..f[o] : p = <<o, k>>
  BY DEF Units

LEMMA TotalsEqual ==
    ASSUME NEW f \in Amounts, NEW g \in Amounts, NEW u, \A o \in OrdersOf(u) : g[o] = f[o]
    PROVE  Total(g, u) = Total(f, u)
  <1>1. \A p : p \in Units(g, u) <=> p \in Units(f, u)
    BY UnitsAre
  <1>2. Units(g, u) = Units(f, u)
    BY <1>1
  <1> QED
    BY <1>2 DEF Total

(* The units that raise an amount n of order o by a. *)
Further(o, n, a) == {o} \X ((n + 1)..(n + a))

LEMMA FurtherUnits ==
    ASSUME NEW o, NEW n \in Nat, NEW a \in Nat
    PROVE  /\ IsFiniteSet(Further(o, n, a)) /\ Cardinality(Further(o, n, a)) = a
           /\ \A p : p \in Further(o, n, a) <=> \E k \in (n + 1)..(n + a) : p = <<o, k>>
  <1> DEFINE I == (n + 1)..(n + a)
  <1>1. IsFiniteSet(I) /\ Cardinality(I) = a
    BY FS_Interval
  <1>2. IsFiniteSet({o}) /\ Cardinality({o}) = 1
    BY FS_Singleton
  <1> HIDE DEF I
  <1>3. IsFiniteSet({o} \X I) /\ Cardinality({o} \X I) = 1 * a
    BY <1>1, <1>2, FS_Product
  <1>4. \A p : p \in {o} \X I <=> \E k \in I : p = <<o, k>>
    OBVIOUS
  <1> QED
    BY <1>3, <1>4 DEF I, Further

(* A sum grows by what one order's amount grows. *)
LEMMA UnitsGrow ==
    ASSUME NEW f \in Amounts, NEW g \in Amounts, NEW o \in Orders, NEW a \in Nat,
           g[o] = f[o] + a, \A x \in Orders \ {o} : g[x] = f[x],
           NEW u, IsFiniteSet(Units(f, u))
    PROVE  /\ IsFiniteSet(Units(g, u))
           /\ Total(g, u) = IF CustomerOf[o] = u THEN Total(f, u) + a ELSE Total(f, u)
  <1>1. CASE CustomerOf[o] # u
    <2>1. \A p : p \in Units(g, u) <=> p \in Units(f, u)
      BY <1>1, UnitsAre DEF OrdersOf
    <2>2. Units(g, u) = Units(f, u)
      BY <2>1
    <2> QED
      BY <1>1, <2>2 DEF Total
  <1>2. CASE CustomerOf[o] = u
    <2> DEFINE N == Further(o, f[o], a)
    <2>1. f[o] \in Nat
      BY DEF Amounts
    <2>2. IsFiniteSet(N) /\ Cardinality(N) = a
      BY <2>1, FurtherUnits
    <2>3. \A p : p \in N <=> \E k \in (f[o] + 1)..(f[o] + a) : p = <<o, k>>
      BY <2>1, FurtherUnits
    <2> HIDE DEF N
    <2>4. \A p : p \in Units(g, u) => p \in Units(f, u) \/ p \in N
      <3> SUFFICES ASSUME NEW p, p \in Units(g, u) PROVE p \in Units(f, u) \/ p \in N
        OBVIOUS
      <3>1. PICK x \in OrdersOf(u) : \E k \in 1..g[x] : p = <<x, k>>
        BY UnitsAre
      <3>2. PICK k \in 1..g[x] : p = <<x, k>>
        BY <3>1
      <3>3. CASE x # o
        BY <3>2, <3>3, UnitsAre DEF OrdersOf
      <3>4. CASE x = o
        <4>1. k \in 1..f[o] \/ k \in (f[o] + 1)..(f[o] + a)
          BY <2>1, <3>2, <3>4
        <4> QED
          BY <2>3, <3>2, <3>4, <4>1, UnitsAre
      <3> QED
        BY <3>3, <3>4
    <2>5. \A p : p \in Units(f, u) => p \in Units(g, u) /\ p \notin N
      <3> SUFFICES ASSUME NEW p, p \in Units(f, u) PROVE p \in Units(g, u) /\ p \notin N
        OBVIOUS
      <3>1. PICK x \in OrdersOf(u) : \E k \in 1..f[x] : p = <<x, k>>
        BY UnitsAre
      <3>2. PICK k \in 1..f[x] : p = <<x, k>>
        BY <3>1
      <3>3. f[x] \in Nat /\ k \in 1..g[x]
        BY <2>1, <3>2 DEF OrdersOf, Amounts
      <3>4. p \in Units(g, u)
        BY <3>2, <3>3, UnitsAre
      <3>5. p \notin N
        BY <2>1, <2>3, <3>2
      <3> QED
        BY <3>4, <3>5
    <2>6. \A p : p \in N => p \in Units(g, u)
      <3> SUFFICES ASSUME NEW p, p \in N PROVE p \in Units(g, u)
        OBVIOUS
      <3>1. PICK k \in (f[o] + 1)..(f[o] + a) : p = <<o, k>>
        BY <2>3
      <3>2. k \in 1..g[o]
        BY <2>1, <3>1
      <3> QED
        BY <1>2, <3>1, <3>2, UnitsAre DEF OrdersOf
    <2>7. Units(g, u) = Units(f, u) \cup N /\ Units(f, u) \cap N = {}
      BY <2>4, <2>5, <2>6
    <2>8. /\ IsFiniteSet(Units(g, u))
          /\ Cardinality(Units(g, u))
                = Cardinality(Units(f, u)) + a - Cardinality(Units(f, u) \cap N)
      BY <2>2, <2>7, FS_Union
    <2>9. Cardinality(Units(f, u) \cap N) = 0 /\ Cardinality(Units(f, u)) \in Nat
      BY <2>7, FS_EmptySet, FS_CardinalityType
    <2> QED
      BY <1>2, <2>8, <2>9 DEF Total
  <1> QED
    BY <1>1, <1>2

LEMMA NoUnits ==
    ASSUME NEW f \in Amounts, \A o \in Orders : f[o] = 0, NEW u
    PROVE  IsFiniteSet(Units(f, u)) /\ Total(f, u) = 0
  <1>1. \A p : p \notin Units(f, u)
    BY UnitsAre DEF OrdersOf
  <1>2. Units(f, u) = {}
    BY <1>1
  <1> QED
    BY <1>2, FS_EmptySet DEF Total

LEMMA TotalIsNat ==
    ASSUME NEW f, NEW u, IsFiniteSet(Units(f, u))
    PROVE  Total(f, u) \in Nat
  BY FS_CardinalityType DEF Total

(* Two amounts of which no order of u has both, and that never exceed a    *)
(* third.                                                                  *)
Apart(f, g, h, u) ==
    \A o \in OrdersOf(u) : \/ f[o] = 0 /\ g[o] <= h[o]
                           \/ g[o] = 0 /\ f[o] <= h[o]

LEMMA UnitsApart ==
    ASSUME NEW f \in Amounts, NEW g \in Amounts, NEW h \in Amounts,
           NEW u, Apart(f, g, h, u), IsFiniteSet(Units(h, u))
    PROVE  /\ IsFiniteSet(Units(f, u)) /\ IsFiniteSet(Units(g, u))
           /\ Units(f, u) \cup Units(g, u) \subseteq Units(h, u)
           /\ Cardinality(Units(f, u) \cup Units(g, u)) = Total(f, u) + Total(g, u)
  <1>1. \A p : /\ p \in Units(f, u) => p \in Units(h, u) /\ p \notin Units(g, u)
               /\ p \in Units(g, u) => p \in Units(h, u)
    <2> SUFFICES ASSUME NEW p, p \in Units(f, u) \/ p \in Units(g, u)
                 PROVE  p \in Units(h, u) /\ ~(p \in Units(f, u) /\ p \in Units(g, u))
      OBVIOUS
    <2>1. PICK x \in OrdersOf(u) :
             (\E k \in 1..f[x] : p = <<x, k>>) \/ (\E k \in 1..g[x] : p = <<x, k>>)
      BY UnitsAre
    <2>2. PICK k \in Nat : p = <<x, k>> /\ (k \in 1..f[x] \/ k \in 1..g[x])
      BY <2>1 DEF OrdersOf, Amounts
    <2>3. x \in Orders /\ f[x] \in Nat /\ g[x] \in Nat /\ h[x] \in Nat
      BY DEF OrdersOf, Amounts
    <2>4. k \in 1..h[x] /\ ~(k \in 1..f[x] /\ k \in 1..g[x])
      BY <2>2, <2>3 DEF Apart
    <2>5. \A y, n : p = <<y, n>> => y = x /\ n = k
      BY <2>2
    <2>6. ~(p \in Units(f, u) /\ p \in Units(g, u))
      BY <2>4, <2>5, UnitsAre
    <2> QED
      BY <2>2, <2>4, <2>6, UnitsAre
  <1>2. /\ Units(f, u) \in SUBSET Units(h, u) /\ Units(g, u) \in SUBSET Units(h, u)
        /\ Units(f, u) \cap Units(g, u) = {}
    BY <1>1
  <1>3. IsFiniteSet(Units(f, u)) /\ IsFiniteSet(Units(g, u))
    BY <1>2, FS_Subset
  <1>4. Cardinality(Units(f, u) \cup Units(g, u))
           = Total(f, u) + Total(g, u) - Cardinality(Units(f, u) \cap Units(g, u))
    BY <1>3, FS_Union DEF Total
  <1>5. Cardinality(Units(f, u) \cap Units(g, u)) = 0
    BY <1>2, FS_EmptySet
  <1> QED
    BY <1>2, <1>3, <1>4, <1>5, TotalIsNat

LEMMA TotalAtMost ==
    ASSUME NEW f \in Amounts, NEW g \in Amounts, NEW h \in Amounts,
           NEW u, Apart(f, g, h, u), IsFiniteSet(Units(h, u))
    PROVE  Total(f, u) + Total(g, u) <= Total(h, u)
  <1>1. Cardinality(Units(f, u) \cup Units(g, u)) <= Cardinality(Units(h, u))
    BY UnitsApart, FS_Subset
  <1> QED
    BY <1>1, UnitsApart DEF Total

LEMMA TotalExactly ==
    ASSUME NEW f \in Amounts, NEW g \in Amounts, NEW h \in Amounts,
           NEW u, Apart(f, g, h, u), IsFiniteSet(Units(h, u)),
           \A o \in OrdersOf(u) : h[o] = f[o] \/ h[o] = g[o]
    PROVE  Total(f, u) + Total(g, u) = Total(h, u)
  <1>1. \A p : p \in Units(h, u) => p \in Units(f, u) \/ p \in Units(g, u)
    BY UnitsAre
  <1>2. Units(h, u) = Units(f, u) \cup Units(g, u)
    BY <1>1, UnitsApart
  <1> QED
    BY <1>2, UnitsApart DEF Total

-----------------------------------------------------------------------------
(* The credit columns are written by five statements and no others, each   *)
(* of them for an order in a state that lets it.                           *)

(* A request takes credit before its order exists. *)
Takes(o) ==
    /\ create[o].pc \in {"deduct", "reserve"}
    /\ DeductCreditAtomic(o, create[o].used) \/ ReserveCredit(o, create[o].used)

(* A hold is settled by a statement that found it covered, or by the       *)
(* transaction that found the row unflagged.                               *)
Settles(o) ==
    LET a == orders[o].creditUsed IN
    /\ Exists(o) /\ create[o].method # "CREDIT"
    /\ HoldsCredit(o) \/ creditReserved[CustomerOf[o]] >= a
    /\ RefundHold(o, a) \/ ConsumeHold(o, a)

CreditStatement ==
    \/ UNCHANGED creditVars
    \/ \E o \in Orders : Takes(o) \/ Settles(o)
    \/ \E u \in Users, x \in CreditGrants : AdminSetCredit(u, x)

LEMMA CreditStatements ==
    ASSUME IInv, [Next]_vars
    PROVE  CreditStatement
  <1> USE DEF CreditStatement
  <1>1. ASSUME NEW o \in Orders, CreateStep(o)
        PROVE  CreditStatement
    BY <1>1 DEF CreateStep, CreateBegin, CreateDeduct, CreateReserve, CreateSave, CreateMark,
       CreateClearCart, CreatePreference, CreateSetGateway, Takes, At
  <1>2. ASSUME NEW o \in Orders, ClientCancel(o)
        PROVE  CreditStatement
    BY <1>2, PayableNotCredit DEF ClientCancel, Settles
  <1>3. ASSUME NEW d \in Deliveries, WebhookFind(d) \/ WebhookStep(d)
        PROVE  CreditStatement
    <2>1. webhook[d].pc # "idle" =>
             d.order \in Orders /\ Exists(d.order) /\ create[d.order].method # "CREDIT"
      BY DeliveryReferences, PayableNotCredit DEF IInv, WebhookInv
    <2> QED
      BY <1>3, <2>1
      DEF WebhookFind, WebhookStep, WebhookSavePending, WebhookFetch, WebhookSaveProcessed,
          WebhookRead, WebhookMark, WebhookSettle, WebhookWrite, WebhookClearCart,
          ReleaseReservedCredit, ConsumeReservedCredit, Settles
  <1>4. ASSUME NEW j \in Jobs, NEW o \in Orders, JobOrderStep(j, o)
        PROVE  CreditStatement
    BY <1>4 DEF JobOrderStep, JobCancel, JobMark, JobRelease, ReleaseReservedCredit, Settles,
       IInv, JobInv
  <1>5. ASSUME NEW r \in AdminRequests,
               AdminCancelRead(r) \/ AdminStatusRequest(r) \/ AdminStep(r)
        PROVE  CreditStatement
    <2>1. admin[r] = "release" =>
             r.order \in Orders /\ Exists(r.order) /\ create[r.order].method # "CREDIT"
      BY RequestReferences DEF IInv, AdminInv
    <2> QED
      BY <1>5, <2>1
      DEF AdminCancelRead, AdminStatusRequest, AdminStep, AdminValidate, AdminWrite, AdminMark,
          AdminRelease, ReleaseReservedCredit, Settles
  <1>6. CASE Checkout \/ Customer
    BY <1>6, <1>1, <1>2 DEF Checkout, Customer
  <1>7. CASE Webhook
    BY <1>7, <1>3 DEF Webhook
  <1>8. CASE AbandonedJob
    BY <1>8, <1>4 DEF AbandonedJob, JobScan
  <1>9. CASE Administrator
    BY <1>9, <1>5 DEF Administrator
  <1>10. CASE Provider \/ Fault \/ Restart \/ UNCHANGED vars
    BY <1>10 DEF Provider, ProviderStep, Fault, CreateFault, WebhookFault, JobFault, AdminFault,
       Restart, vars
  <1> QED
    BY <1>6, <1>7, <1>8, <1>9, <1>10 DEF Next

-----------------------------------------------------------------------------
(* The identities of the balances, under every interleaving.               *)

AccountedFor(u) ==
    /\ IsFiniteSet(Units(Reserved, u))
    /\ IsFiniteSet(Units(Settled, u))
    /\ IsFiniteSet(Units(Spent, u))
    /\ creditReserved[u] = Total(Reserved, u) - Total(Settled, u)
    /\ creditValue[u] + creditReserved[u] + Total(Spent, u) = granted[u]

LedgerInv == \A u \in Users : AccountedFor(u)

LEMMA AmountsTyped ==
    /\ CreditTypeOK => Reserved \in Amounts /\ Settled \in Amounts /\ Spent \in Amounts
    /\ CreditTypeOK' => Reserved' \in Amounts /\ Settled' \in Amounts /\ Spent' \in Amounts
  BY DEF CreditTypeOK, LedgerEntry, Reserved, Settled, Spent, Amounts

(* A statement that reserves r, settles s and spends t units for one order *)
(* and moves the customer's balances accordingly.                          *)
LEMMA UnitsMoved ==
    ASSUME CreditTypeOK, CreditTypeOK', LedgerInv,
           NEW o \in Orders, NEW r \in Nat, NEW s \in Nat, NEW t \in Nat,
           Reserved'[o] = Reserved[o] + r, Settled'[o] = Settled[o] + s,
           Spent'[o] = Spent[o] + t,
           \A x \in Orders \ {o} : ledger'[x] = ledger[x],
           UNCHANGED granted,
           \A u \in Users :
              IF CustomerOf[o] = u
              THEN /\ creditReserved'[u] = creditReserved[u] + r - s
                   /\ creditValue'[u] = creditValue[u] + s - r - t
              ELSE /\ creditReserved'[u] = creditReserved[u]
                   /\ creditValue'[u] = creditValue[u]
    PROVE  LedgerInv'
  <1> SUFFICES ASSUME NEW u \in Users PROVE AccountedFor(u)'
    BY DEF LedgerInv
  <1>1. AccountedFor(u)
    BY DEF LedgerInv
  <1>2. \A x \in Orders \ {o} : /\ Reserved'[x] = Reserved[x]
                                /\ Settled'[x] = Settled[x]
                                /\ Spent'[x] = Spent[x]
    BY DEF Reserved, Settled, Spent
  <1>3. /\ IsFiniteSet(Units(Reserved', u))
        /\ Total(Reserved', u) = IF CustomerOf[o] = u THEN Total(Reserved, u) + r
                                                      ELSE Total(Reserved, u)
    BY <1>1, <1>2, UnitsGrow, AmountsTyped DEF AccountedFor
  <1>4. /\ IsFiniteSet(Units(Settled', u))
        /\ Total(Settled', u) = IF CustomerOf[o] = u THEN Total(Settled, u) + s
                                                     ELSE Total(Settled, u)
    BY <1>1, <1>2, UnitsGrow, AmountsTyped DEF AccountedFor
  <1>5. /\ IsFiniteSet(Units(Spent', u))
        /\ Total(Spent', u) = IF CustomerOf[o] = u THEN Total(Spent, u) + t
                                                   ELSE Total(Spent, u)
    BY <1>1, <1>2, UnitsGrow, AmountsTyped DEF AccountedFor
  <1>6. /\ Total(Reserved, u) \in Nat /\ Total(Settled, u) \in Nat /\ Total(Spent, u) \in Nat
        /\ creditReserved[u] \in Int /\ creditValue[u] \in Int /\ granted[u] \in Int
    BY <1>1, TotalIsNat DEF AccountedFor, CreditTypeOK
  <1> QED
    BY <1>1, <1>3, <1>4, <1>5, <1>6 DEF AccountedFor

LEMMA InitLedger == Init => LedgerInv
  <1> SUFFICES ASSUME Init, NEW u \in Users PROVE AccountedFor(u)
    BY DEF LedgerInv
  <1>1. \A o \in Orders : Reserved[o] = 0 /\ Settled[o] = 0 /\ Spent[o] = 0
    BY DEF Init, CreditInit, Reserved, Settled, Spent
  <1>2. IInv /\ Reserved \in Amounts /\ Settled \in Amounts /\ Spent \in Amounts
    BY InitEstablishes, AmountsTyped DEF IInv, TypeOK
  <1>3. /\ IsFiniteSet(Units(Reserved, u)) /\ Total(Reserved, u) = 0
        /\ IsFiniteSet(Units(Settled, u)) /\ Total(Settled, u) = 0
        /\ IsFiniteSet(Units(Spent, u)) /\ Total(Spent, u) = 0
    BY <1>1, <1>2, NoUnits
  <1>4. creditReserved[u] = 0 /\ creditValue[u] = granted[u] /\ creditValue[u] \in Int
    BY CreditAssumption DEF Init, CreditInit
  <1> QED
    BY <1>3, <1>4 DEF AccountedFor

LEMMA NextLedger ==
    ASSUME IInv, LedgerInv, [Next]_vars
    PROVE  LedgerInv'
  <1>a. CreditTypeOK /\ CreditTypeOK'
    BY NextPreserves DEF IInv, TypeOK
  <1>b. CreditStatement
    BY CreditStatements
  <1>1. CASE UNCHANGED creditVars
    BY <1>1 DEF LedgerInv, AccountedFor, Reserved, Settled, Spent, creditVars
  <1>2. ASSUME NEW o \in Orders, NEW a \in Nat,
               \/ DeductCreditAtomic(o, a) \/ ReserveCredit(o, a)
               \/ RefundHold(o, a) \/ ConsumeHold(o, a)
        PROVE  LedgerInv'
    <2>1. /\ CustomerOf[o] \in Users
          /\ creditValue \in [Users -> Int] /\ creditReserved \in [Users -> Int]
          /\ ledger \in [Orders -> LedgerEntry]
      BY <1>a, CustomerAssumption DEF CreditTypeOK
    <2>2. CASE DeductCreditAtomic(o, a)
      <3>1. /\ Reserved'[o] = Reserved[o] + 0 /\ Settled'[o] = Settled[o] + 0
            /\ Spent'[o] = Spent[o] + a
            /\ \A x \in Orders \ {o} : ledger'[x] = ledger[x]
        BY <2>1, <2>2 DEF DeductCreditAtomic, DeductUnchecked, Reserved, Settled, Spent, LedgerEntry
      <3>2. /\ UNCHANGED granted
            /\ \A u \in Users :
                  IF CustomerOf[o] = u
                  THEN /\ creditReserved'[u] = creditReserved[u] + 0 - 0
                       /\ creditValue'[u] = creditValue[u] + 0 - 0 - a
                  ELSE /\ creditReserved'[u] = creditReserved[u]
                       /\ creditValue'[u] = creditValue[u]
        BY <2>1, <2>2 DEF DeductCreditAtomic, DeductUnchecked
      <3> QED
        BY <1>a, <3>1, <3>2, UnitsMoved
    <2>3. CASE ReserveCredit(o, a)
      <3>1. /\ Reserved'[o] = Reserved[o] + a /\ Settled'[o] = Settled[o] + 0
            /\ Spent'[o] = Spent[o] + 0
            /\ \A x \in Orders \ {o} : ledger'[x] = ledger[x]
        BY <2>1, <2>3 DEF ReserveCredit, ReserveUnchecked, Reserved, Settled, Spent, LedgerEntry
      <3>2. /\ UNCHANGED granted
            /\ \A u \in Users :
                  IF CustomerOf[o] = u
                  THEN /\ creditReserved'[u] = creditReserved[u] + a - 0
                       /\ creditValue'[u] = creditValue[u] + 0 - a - 0
                  ELSE /\ creditReserved'[u] = creditReserved[u]
                       /\ creditValue'[u] = creditValue[u]
        BY <2>1, <2>3 DEF ReserveCredit, ReserveUnchecked
      <3> QED
        BY <1>a, <3>1, <3>2, UnitsMoved
    <2>4. CASE RefundHold(o, a)
      <3>1. /\ Reserved'[o] = Reserved[o] + 0 /\ Settled'[o] = Settled[o] + a
            /\ Spent'[o] = Spent[o] + 0
            /\ \A x \in Orders \ {o} : ledger'[x] = ledger[x]
        BY <2>1, <2>4 DEF RefundHold, Reserved, Settled, Spent, LedgerEntry
      <3>2. /\ UNCHANGED granted
            /\ \A u \in Users :
                  IF CustomerOf[o] = u
                  THEN /\ creditReserved'[u] = creditReserved[u] + 0 - a
                       /\ creditValue'[u] = creditValue[u] + a - 0 - 0
                  ELSE /\ creditReserved'[u] = creditReserved[u]
                       /\ creditValue'[u] = creditValue[u]
        BY <2>1, <2>4 DEF RefundHold
      <3> QED
        BY <1>a, <3>1, <3>2, UnitsMoved
    <2>5. CASE ConsumeHold(o, a)
      <3>1. /\ Reserved'[o] = Reserved[o] + 0 /\ Settled'[o] = Settled[o] + a
            /\ Spent'[o] = Spent[o] + a
            /\ \A x \in Orders \ {o} : ledger'[x] = ledger[x]
        BY <2>1, <2>5 DEF ConsumeHold, Reserved, Settled, Spent, LedgerEntry
      <3>2. /\ UNCHANGED granted
            /\ \A u \in Users :
                  IF CustomerOf[o] = u
                  THEN /\ creditReserved'[u] = creditReserved[u] + 0 - a
                       /\ creditValue'[u] = creditValue[u] + a - 0 - a
                  ELSE /\ creditReserved'[u] = creditReserved[u]
                       /\ creditValue'[u] = creditValue[u]
        BY <2>1, <2>5 DEF ConsumeHold
      <3> QED
        BY <1>a, <3>1, <3>2, UnitsMoved
    <2> QED
      BY <1>2, <2>2, <2>3, <2>4, <2>5
  <1>3. ASSUME NEW w \in Users, NEW x \in CreditGrants, AdminSetCredit(w, x)
        PROVE  LedgerInv'
    <2> SUFFICES ASSUME NEW u \in Users PROVE AccountedFor(u)'
      BY DEF LedgerInv
    <2>1. AccountedFor(u) /\ x \in Int
      BY CreditAssumption DEF LedgerInv
    <2>2. UNCHANGED <<Reserved, Settled, Spent, creditReserved>>
      BY <1>3 DEF AdminSetCredit, Reserved, Settled, Spent
    <2>3. /\ creditValue[u] \in Int /\ creditReserved[u] \in Int /\ granted[u] \in Int
          /\ Total(Spent, u) \in Nat
      BY <1>a, <2>1, TotalIsNat DEF CreditTypeOK, AccountedFor
    <2>4. creditValue'[u] - creditValue[u] = granted'[u] - granted[u]
      <3>1. CASE u = w
        BY <1>3, <1>a, <2>1, <2>3, <3>1 DEF AdminSetCredit, CreditTypeOK
      <3>2. CASE u # w
        BY <1>3, <1>a, <2>3, <3>2 DEF AdminSetCredit, CreditTypeOK
      <3> QED
        BY <3>1, <3>2
    <2>5. creditValue'[u] \in Int /\ granted'[u] \in Int
      BY <1>a DEF CreditTypeOK
    <2>6. creditValue'[u] + creditReserved[u] + Total(Spent, u) = granted'[u]
      <3>1. creditValue[u] + creditReserved[u] + Total(Spent, u) = granted[u]
        BY <2>1 DEF AccountedFor
      <3> QED
        BY <2>3, <2>4, <2>5, <3>1
    <2> QED
      BY <2>1, <2>2, <2>6 DEF AccountedFor
  <1>4. \A o \in Orders : create[o].used \in Nat /\ orders[o].creditUsed \in Nat
    BY DEF IInv, TypeOK, CreateTypeOK, OrderTypeOK, OrderRow
  <1> QED
    BY <1>b, <1>1, <1>2, <1>3, <1>4 DEF CreditStatement, Takes, Settles

LEMMA LedgerInvariance == Spec => []LedgerInv
  <1> QED
    BY InitLedger, NextLedger, Invariance, PTL DEF Spec

(* Whatever overlaps, fails or restarts, a customer's creditReserved is    *)
(* what the customer's orders reserved less what was consumed or released  *)
(* of them, and the silent no-ops of the two guarded statements included.  *)
THEOREM ReservesAccounted == Spec => []ReserveAccounted
  <1>1. LedgerInv => ReserveAccounted
    BY DEF LedgerInv, AccountedFor, ReserveAccounted
  <1> QED
    BY <1>1, LedgerInvariance, PTL

(* No statement of UserSQLRepository loses or makes credit: what a         *)
(* customer was given is free, reserved or spent.                          *)
THEOREM CreditIsConserved == Spec => []CreditConserved
  <1>1. LedgerInv => CreditConserved
    BY DEF LedgerInv, AccountedFor, CreditConserved
  <1> QED
    BY <1>1, LedgerInvariance, PTL

-----------------------------------------------------------------------------
(* A customer with a single hold, under every interleaving.                *)

HoldsAlone(o) ==
    \A x \in Orders \ {o} : CustomerOf[x] = CustomerOf[o] => ledger[x].reserved = 0

(* While no other order of its customer holds credit, creditReserved is    *)
(* what is left of this one's hold.                                        *)
SoleHoldInv ==
    /\ \A u \in Users : OrdersOf(u) = {} => creditReserved[u] = 0
    /\ \A o \in Orders :
          /\ ledger[o].reserved = 0 => Unsettled(o)
          /\ HoldsAlone(o) =>
                /\ creditReserved[CustomerOf[o]] = Reserved[o] - Settled[o]
                /\ creditReserved[CustomerOf[o]] >= 0

(* Other orders' reserves do not change, and those with none move nothing. *)
LEMMA SoleHoldMoved ==
    ASSUME IInv, CreditTypeOK', SoleHoldInv, NEW o \in Orders, NEW d \in Int,
           \A x \in Orders \ {o} : ledger'[x] = ledger[x],
           creditReserved' = [creditReserved EXCEPT ![CustomerOf[o]] = @ + d],
           Reserved'[o] - Settled'[o] = Reserved[o] - Settled[o] + d,
           ledger'[o].reserved = 0 => d = 0 /\ ledger[o].reserved = 0 /\ Unsettled(o)',
           HoldsAlone(o) => creditReserved[CustomerOf[o]] + d >= 0
    PROVE  SoleHoldInv'
  <1>1. /\ creditReserved \in [Users -> Int] /\ CustomerOf \in [Orders -> Users]
        /\ \A x \in Orders : Reserved[x] \in Nat /\ Settled[x] \in Nat
        /\ \A x \in Orders \ {o} : Reserved'[x] = Reserved[x] /\ Settled'[x] = Settled[x]
    BY CustomerAssumption DEF IInv, TypeOK, CreditTypeOK, LedgerEntry, Reserved, Settled
  <1>2. ASSUME NEW u \in Users, OrdersOf(u) = {}
        PROVE  creditReserved'[u] = 0
    BY <1>1, <1>2 DEF SoleHoldInv, OrdersOf
  <1>3. \A x \in Orders : ledger'[x].reserved = 0 => Unsettled(x)'
    BY DEF SoleHoldInv, Unsettled
  <1>4. ASSUME NEW x \in Orders, HoldsAlone(x)'
        PROVE  /\ creditReserved'[CustomerOf[x]] = Reserved'[x] - Settled'[x]
               /\ creditReserved'[CustomerOf[x]] >= 0
    <2>1. CASE x = o
      <3>1. HoldsAlone(o)
        BY <1>4, <2>1 DEF HoldsAlone
      <3>2. /\ creditReserved[CustomerOf[o]] = Reserved[o] - Settled[o]
            /\ creditReserved'[CustomerOf[o]] = creditReserved[CustomerOf[o]] + d
        BY <1>1, <3>1 DEF SoleHoldInv
      <3> QED
        BY <1>1, <2>1, <3>1, <3>2
    <2>2. CASE x # o /\ CustomerOf[x] = CustomerOf[o]
      <3>1. ledger'[o].reserved = 0
        BY <1>4, <2>2 DEF HoldsAlone
      <3>2. HoldsAlone(x)
        BY <1>4, <3>1 DEF HoldsAlone
      <3> QED
        BY <1>1, <2>2, <3>1, <3>2 DEF SoleHoldInv
    <2>3. CASE CustomerOf[x] # CustomerOf[o]
      <3>1. HoldsAlone(x)
        BY <1>4, <2>3 DEF HoldsAlone
      <3> QED
        BY <1>1, <2>3, <3>1 DEF SoleHoldInv
    <2> QED
      BY <2>1, <2>2, <2>3
  <1> QED
    BY <1>2, <1>3, <1>4 DEF SoleHoldInv

LEMMA NextSoleHold ==
    ASSUME IInv, SoleHoldInv, [Next]_vars
    PROVE  SoleHoldInv'
  <1>a. /\ CreditTypeOK /\ CreditTypeOK' /\ ledger \in [Orders -> LedgerEntry]
        /\ creditReserved \in [Users -> Int] /\ CustomerOf \in [Orders -> Users]
    BY NextPreserves, CustomerAssumption DEF IInv, TypeOK, CreditTypeOK
  <1>1. ASSUME UNCHANGED <<creditReserved, ledger>>
        PROVE  SoleHoldInv'
    BY <1>1 DEF SoleHoldInv, HoldsAlone, Unsettled, Reserved, Settled
  <1>2. ASSUME NEW o \in Orders, Takes(o)
        PROVE  SoleHoldInv'
    <2> DEFINE a == create[o].used
    <2>1. /\ a \in Nat /\ Unsettled(o)
          /\ ledger[o].reserved = 0 /\ ledger[o].deducted = 0
      BY <1>2, UnflaggedUnsettled DEF Takes, IInv, TypeOK, CreateTypeOK, CheckoutInv
    <2>2. CASE DeductCreditAtomic(o, a)
      <3>1. /\ \A x \in Orders \ {o} : ledger'[x] = ledger[x]
            /\ creditReserved' = [creditReserved EXCEPT ![CustomerOf[o]] = @ + 0]
            /\ ledger'[o].reserved = ledger[o].reserved
            /\ ledger'[o].consumed = ledger[o].consumed
            /\ ledger'[o].released = ledger[o].released
        BY <1>a, <2>1, <2>2 DEF DeductCreditAtomic, DeductUnchecked, LedgerEntry
      <3>2. Reserved'[o] - Settled'[o] = Reserved[o] - Settled[o] + 0 /\ Unsettled(o)'
        BY <1>a, <2>1, <3>1 DEF Reserved, Settled, LedgerEntry, Unsettled
      <3>3. HoldsAlone(o) => creditReserved[CustomerOf[o]] + 0 >= 0
        BY <1>a DEF SoleHoldInv
      <3>4. SoleHoldInv'
        BY <1>a, <2>1, <3>1, <3>2, <3>3, SoleHoldMoved, 0 \in Int
      <3> QED
        BY <3>4
    <2>3. CASE ReserveCredit(o, a)
      <3>1. /\ \A x \in Orders \ {o} : ledger'[x] = ledger[x]
            /\ creditReserved' = [creditReserved EXCEPT ![CustomerOf[o]] = @ + a]
            /\ ledger'[o].reserved = a
            /\ ledger'[o].consumed = ledger[o].consumed
            /\ ledger'[o].released = ledger[o].released
        BY <1>a, <2>1, <2>3 DEF ReserveCredit, ReserveUnchecked, LedgerEntry
      <3>2. Reserved'[o] - Settled'[o] = Reserved[o] - Settled[o] + a /\ Unsettled(o)'
        BY <1>a, <2>1, <3>1 DEF Reserved, Settled, LedgerEntry, Unsettled
      <3>3. HoldsAlone(o) => creditReserved[CustomerOf[o]] + a >= 0
        BY <1>a, <2>1 DEF SoleHoldInv
      <3>4. a \in Int /\ (ledger'[o].reserved = 0 => a = 0)
        BY <2>1, <3>1
      <3> HIDE DEF a
      <3>5. SoleHoldInv'
        BY <1>a, <2>1, <3>1, <3>2, <3>3, <3>4, SoleHoldMoved
      <3> QED
        BY <3>5
    <2> QED
      BY <1>2, <2>2, <2>3 DEF Takes
  <1>3. ASSUME NEW o \in Orders, Settles(o)
        PROVE  SoleHoldInv'
    <2> DEFINE a == orders[o].creditUsed
    <2>1. a \in Nat /\ a = ledger[o].reserved
      BY <1>3, UsedIsHeld DEF Settles, IInv, TypeOK, OrderTypeOK, OrderRow
    <2>2. /\ \A x \in Orders \ {o} : ledger'[x] = ledger[x]
          /\ creditReserved' = [creditReserved EXCEPT ![CustomerOf[o]] = @ + (-a)]
          /\ ledger'[o].reserved = a
          /\ ledger'[o].consumed + ledger'[o].released
                = ledger[o].consumed + ledger[o].released + a
      BY <1>3, <1>a, <2>1 DEF Settles, RefundHold, ConsumeHold, LedgerEntry
    <2>3. Reserved'[o] - Settled'[o] = Reserved[o] - Settled[o] + (-a)
      BY <1>a, <2>1, <2>2 DEF Reserved, Settled, LedgerEntry
    <2>4. a = 0 => Unsettled(o)'
      <3>1. a = 0 => Unsettled(o)
        BY <2>1 DEF SoleHoldInv
      <3>2. /\ ledger[o].consumed \in Nat /\ ledger[o].released \in Nat
            /\ ledger'[o].consumed \in Nat /\ ledger'[o].released \in Nat
        BY <1>a DEF CreditTypeOK, LedgerEntry
      <3> QED
        BY <2>2, <3>1, <3>2 DEF Unsettled
    <2>5. HoldsAlone(o) => creditReserved[CustomerOf[o]] + (-a) >= 0
      <3>1. CASE creditReserved[CustomerOf[o]] >= a
        BY <1>a, <2>1, <3>1
      <3>2. CASE HoldsCredit(o)
        <4>1. Unsettled(o)
          BY <3>2, UnflaggedUnsettled DEF HoldsCredit
        <4>2. HoldsAlone(o) => creditReserved[CustomerOf[o]] = a
          BY <1>a, <2>1, <4>1 DEF SoleHoldInv, Reserved, Settled, Unsettled, LedgerEntry
        <4> QED
          BY <2>1, <4>2
      <3> QED
        BY <1>3, <3>1, <3>2 DEF Settles
    <2>6. -a \in Int /\ (ledger'[o].reserved = 0 => -a = 0 /\ ledger[o].reserved = 0)
      BY <2>1, <2>2
    <2> DEFINE d == -a
    <2> HIDE DEF d
    <2> QED
      BY <1>a, <2>1, <2>2, <2>3, <2>4, <2>5, <2>6, SoleHoldMoved DEF d
  <1> QED
    BY <1>1, <1>2, <1>3, CreditStatements DEF CreditStatement, creditVars, AdminSetCredit

LEMMA InitSoleHold == Init => SoleHoldInv
  BY CustomerAssumption DEF Init, CreditInit, SoleHoldInv, Reserved, Settled, Unsettled

(* The guards of release and consume absorb every second settlement of a   *)
(* customer who has one hold, and the unguarded client cancellation then   *)
(* finds the hold unsettled: only where two orders of a customer hold      *)
(* credit does creditReserved become negative.                             *)
THEOREM OverdrawnOnlyAcrossHolds == Spec => []ReserveOverdrawnOnlyAcrossHolds
  <1>1. IInv /\ SoleHoldInv => ReserveOverdrawnOnlyAcrossHolds
    <2> SUFFICES ASSUME IInv, SoleHoldInv, NEW u \in Users, creditReserved[u] < 0,
                        \A o1, o2 \in Orders :
                           /\ o1 # o2
                           /\ CustomerOf[o1] = u /\ ledger[o1].reserved > 0
                           /\ CustomerOf[o2] = u /\ ledger[o2].reserved > 0
                           => FALSE
                 PROVE  FALSE
      BY DEF ReserveOverdrawnOnlyAcrossHolds
    <2>1. \A o \in Orders : ledger[o].reserved \in Nat
      BY DEF IInv, TypeOK, CreditTypeOK, LedgerEntry
    <2>2. PICK o \in Orders : CustomerOf[o] = u
      BY DEF SoleHoldInv, OrdersOf
    <2>3. PICK x \in Orders : CustomerOf[x] = u /\ HoldsAlone(x)
      <3>1. CASE \E x \in Orders : CustomerOf[x] = u /\ ledger[x].reserved > 0
        BY <2>1, <3>1 DEF HoldsAlone
      <3>2. CASE \A x \in Orders : CustomerOf[x] = u => ~(ledger[x].reserved > 0)
        BY <2>1, <2>2, <3>2 DEF HoldsAlone
      <3> QED
        BY <3>1, <3>2
    <2> QED
      BY <2>3 DEF SoleHoldInv, IInv, TypeOK, CreditTypeOK
  <1>2. IInv /\ SoleHoldInv /\ [Next]_vars => SoleHoldInv'
    BY NextSoleHold
  <1> QED
    BY <1>1, <1>2, InitSoleHold, Invariance, PTL DEF Spec

-----------------------------------------------------------------------------
(* Handlers of one order one at a time: every hold is covered.             *)

(* What an order still holds, whatever its row says. *)
Open == [o \in Orders |-> IF Unsettled(o) THEN ledger[o].reserved ELSE 0]

LEMMA OpenTyped ==
    ASSUME CreditTypeOK
    PROVE  Open \in Amounts
  BY DEF CreditTypeOK, LedgerEntry, Open, Amounts

(* What is settled was settled whole, so creditReserved is the sum of the  *)
(* open holds.                                                             *)
LEMMA ReserveIsOpen ==
    ASSUME IInv, SerialInv, LedgerInv, NEW u \in Users
    PROVE  creditReserved[u] = Total(Open, u) /\ IsFiniteSet(Units(Open, u))
  <1>1. CreditTypeOK /\ ledger \in [Orders -> LedgerEntry]
    BY DEF IInv, TypeOK, CreditTypeOK
  <1>2. Reserved \in Amounts /\ Settled \in Amounts /\ Open \in Amounts
    BY <1>1, AmountsTyped, OpenTyped
  <1>3. \A o \in Orders : \/ Open[o] = 0 /\ Settled[o] = Reserved[o]
                          \/ Settled[o] = 0 /\ Open[o] = Reserved[o]
    BY <1>1 DEF SerialInv, SettledWhole, Unsettled, Open, Settled, Reserved, LedgerEntry
  <1>4. Apart(Open, Settled, Reserved, u)
    BY <1>2, <1>3 DEF Apart, Amounts, OrdersOf
  <1>5. AccountedFor(u)
    BY DEF LedgerInv
  <1>6. Total(Open, u) + Total(Settled, u) = Total(Reserved, u)
    BY <1>2, <1>3, <1>4, <1>5, TotalExactly DEF AccountedFor, OrdersOf
  <1>7. IsFiniteSet(Units(Open, u))
    BY <1>2, <1>4, <1>5, UnitsApart DEF AccountedFor
  <1>8. Total(Open, u) \in Nat /\ Total(Settled, u) \in Nat
    BY <1>5, <1>7, TotalIsNat DEF AccountedFor
  <1> QED
    BY <1>5, <1>6, <1>7, <1>8 DEF AccountedFor

LEMMA TotalMonotone ==
    ASSUME NEW f \in Amounts, NEW h \in Amounts, \A o \in Orders : f[o] <= h[o],
           NEW u, IsFiniteSet(Units(h, u))
    PROVE  IsFiniteSet(Units(f, u)) /\ Total(f, u) <= Total(h, u)
  <1> DEFINE g == [o \in Orders |-> 0]
  <1>1. g \in Amounts /\ \A o \in Orders : g[o] = 0
    BY DEF Amounts
  <1>2. Apart(f, g, h, u)
    BY <1>1 DEF Apart, OrdersOf
  <1> HIDE DEF g
  <1>3. Total(f, u) + Total(g, u) <= Total(h, u)
    BY <1>1, <1>2, TotalAtMost
  <1>4. Total(g, u) = 0
    BY <1>1, NoUnits
  <1>5. IsFiniteSet(Units(f, u))
    BY <1>1, <1>2, UnitsApart
  <1> QED
    BY <1>3, <1>4, <1>5, TotalIsNat

(* One open hold is part of creditReserved, so a guard lets it be settled. *)
LEMMA HoldCovered ==
    ASSUME IInv, SerialInv, LedgerInv, NEW o \in Orders, Unsettled(o)
    PROVE  ledger[o].reserved <= creditReserved[CustomerOf[o]]
  <1> DEFINE f == [x \in Orders |-> 0]
             g == [x \in Orders |-> IF x = o THEN Open[o] ELSE 0]
             u == CustomerOf[o]
  <1>1. /\ Open \in Amounts /\ Open[o] \in Nat /\ Open[o] = ledger[o].reserved
        /\ u \in Users
    BY OpenTyped, CustomerAssumption DEF IInv, TypeOK, Open, Amounts
  <1>2. creditReserved[u] = Total(Open, u) /\ IsFiniteSet(Units(Open, u))
    BY <1>1, ReserveIsOpen
  <1>3. f \in Amounts /\ \A x \in Orders : f[x] = 0
    BY DEF Amounts
  <1>4. /\ g \in Amounts /\ g[o] = f[o] + Open[o]
        /\ \A x \in Orders \ {o} : g[x] = f[x]
        /\ \A x \in Orders : g[x] <= Open[x]
    BY <1>1 DEF Amounts
  <1>5. IsFiniteSet(Units(f, u)) /\ Total(f, u) = 0
    BY <1>3, NoUnits
  <1> HIDE DEF f, g, u
  <1>6. Total(g, u) = Open[o]
    <2>1. CustomerOf[o] = u
      BY DEF u
    <2> QED
      BY <1>1, <1>3, <1>4, <1>5, <2>1, UnitsGrow
  <1>7. Total(g, u) <= Total(Open, u)
    BY <1>1, <1>2, <1>4, TotalMonotone
  <1> QED
    BY <1>1, <1>2, <1>6, <1>7 DEF u

(* The holds of orders that wait for a payment are among the open ones.    *)
LEMMA DueCovered ==
    ASSUME IInv, SerialInv, LedgerInv
    PROVE  ReserveCoversHolds
  <1> SUFFICES ASSUME NEW u \in Users PROVE creditReserved[u] >= Total(Due, u)
    BY DEF ReserveCoversHolds
  <1>1. /\ orders \in [Orders -> OrderRow] /\ ledger \in [Orders -> LedgerEntry]
        /\ Open \in Amounts
    BY OpenTyped DEF IInv, TypeOK, OrderTypeOK, CreditTypeOK
  <1>2. Due \in Amounts
    BY <1>1 DEF Due, Amounts, OrderRow
  <1>3. ASSUME NEW o \in Orders PROVE Due[o] <= Open[o]
    <2>1. CASE orders[o].paymentStatus = "PENDING" /\ HoldsCredit(o)
      <3>1. orders[o].creditUsed = ledger[o].reserved /\ Unsettled(o)
        BY <2>1, PayableNotCredit, UsedIsHeld, UnflaggedUnsettled DEF HoldsCredit
      <3> QED
        BY <1>1, <2>1, <3>1 DEF Due, Open, LedgerEntry
    <2>2. CASE ~(orders[o].paymentStatus = "PENDING" /\ HoldsCredit(o))
      BY <1>1, <2>2 DEF Due, Amounts
    <2> QED
      BY <2>1, <2>2
  <1>4. creditReserved[u] = Total(Open, u) /\ IsFiniteSet(Units(Open, u))
    BY ReserveIsOpen
  <1>5. IsFiniteSet(Units(Due, u)) /\ Total(Due, u) <= Total(Open, u)
    BY <1>1, <1>2, <1>3, <1>4, TotalMonotone
  <1>6. Total(Open, u) \in Nat /\ Total(Due, u) \in Nat
    BY <1>4, <1>5, TotalIsNat
  <1> QED
    BY <1>4, <1>5, <1>6

-----------------------------------------------------------------------------
(* Nothing fails: a step of a handler concerns one order and keeps what    *)
(* OrderLedger says of the others.                                         *)

(* A statement for order o, which has a row. *)
StatementFor(o) ==
    /\ UNCHANGED create
    /\ Exists(o) /\ Exists(o)'
    /\ orders'[o].creditUsed = orders[o].creditUsed
    /\ orders[o].creditRestored => orders'[o].creditRestored
    /\ ledger'[o].reserved = ledger[o].reserved
    /\ \A x \in Orders \ {o} : orders'[x] = orders[x] /\ ledger'[x] = ledger[x]

(* Only handlers that are with order o move. *)
MovesAt(o) ==
    /\ \A d \in Deliveries : d.order # o => webhook'[d] = webhook[d]
    /\ \A j \in Jobs, x \in Orders \ {o} : job'[j][x] = job[j][x]
    /\ \A r \in AdminRequests : r.order # o => admin'[r] = admin[r]

LEMMA OthersWait ==
    ASSUME NEW o \in Orders, MovesAt(o), NEW x \in Orders \ {o}
    PROVE  /\ AboutToSettle(x) => AboutToSettle(x)'
           /\ AboutToFlag(x) => AboutToFlag(x)'
  BY DEF MovesAt, AboutToSettle, AboutToFlag

LEMMA TidyKept ==
    ASSUME FaultFreeInv, NEW o \in Orders, StatementFor(o), MovesAt(o),
           \/ AboutToSettle(o)'
           \/ ~Unsettled(o)'
           \/ ledger[o].reserved = 0
           \/ /\ ledger'[o] = ledger[o]
              /\ orders'[o].creditRestored = orders[o].creditRestored
              /\ AboutToSettle(o) => AboutToSettle(o)'
    PROVE  FaultFreeInv'
  <1>1. CheckoutTidy'
    BY DEF FaultFreeInv, CheckoutTidy, StatementFor, Exists
  <1>2. ASSUME NEW x \in Orders, orders'[x].creditRestored, ledger'[x].reserved > 0, Unsettled(x)'
        PROVE  AboutToSettle(x)'
    <2>1. CASE x # o
      BY <1>2, <2>1, OthersWait DEF StatementFor, FaultFreeInv, FlaggedSettled, Unsettled
    <2>2. CASE x = o
      BY <1>2, <2>2 DEF StatementFor, FaultFreeInv, FlaggedSettled, Unsettled
    <2> QED
      BY <2>1, <2>2
  <1> QED
    BY <1>1, <1>2 DEF FaultFreeInv, FlaggedSettled

LEMMA ClosedKept ==
    ASSUME ClosedInv, NEW o \in Orders, StatementFor(o), MovesAt(o),
           \A d \in Deliveries : d.order \in Orders,
           \A d \in Deliveries :
              d.order = o /\ webhook'[d].pc = "write" /\ Closed(webhook'[d].status) =>
                 ~HoldsCredit(o)' \/ (webhook[d].pc = "write" /\ Closed(webhook[d].status)),
           \/ AboutToFlag(o)' \/ ~HoldsCredit(o)'
           \/ ~Closed(orders'[o].paymentStatus)
           \/ /\ orders'[o].paymentStatus = orders[o].paymentStatus
              /\ AboutToFlag(o) => AboutToFlag(o)'
    PROVE  ClosedInv'
  <1>1. ASSUME NEW d \in Deliveries, webhook'[d].pc = "write", Closed(webhook'[d].status)
        PROVE  ~HoldsCredit(d.order)'
    BY <1>1 DEF ClosedInv, StatementFor, MovesAt, HoldsCredit
  <1>2. ASSUME NEW x \in Orders, Closed(orders'[x].paymentStatus), HoldsCredit(x)'
        PROVE  AboutToFlag(x)'
    BY <1>2, OthersWait DEF ClosedInv, StatementFor, HoldsCredit
  <1> QED
    BY <1>1, <1>2 DEF ClosedInv, Closed

LEMMA StatusStatement ==
    ASSUME IInv, NEW o \in Orders, Exists(o), NEW s \in OrderStatus, UpdateOrderStatus(o, s),
           UNCHANGED <<creditVars, create>>
    PROVE  /\ StatementFor(o)
           /\ ledger' = ledger
           /\ orders'[o].paymentStatus = s
           /\ orders'[o].creditRestored = orders[o].creditRestored
  BY DEF IInv, TypeOK, OrderTypeOK, OrderRow, OrderStatus, UpdateOrderStatus, StatementFor,
     Exists, creditVars

LEMMA FlagStatement ==
    ASSUME IInv, NEW o \in Orders, Exists(o), MarkCreditRestored(o),
           UNCHANGED <<creditVars, create>>
    PROVE  StatementFor(o) /\ orders'[o].creditRestored
  BY DEF IInv, TypeOK, OrderTypeOK, OrderRow, MarkCreditRestored, StatementFor, Exists, creditVars

(* A due settlement is no silent no-op. *)
LEMMA SettleStatement ==
    ASSUME IInv, SerialInv, LedgerInv, NEW o \in Orders, Exists(o), create[o].method # "CREDIT",
           orders[o].creditUsed > 0, Unsettled(o),
           \/ RefundHold(o, orders[o].creditUsed)
           \/ ReleaseReservedCredit(o, orders[o].creditUsed)
           \/ ConsumeReservedCredit(o, orders[o].creditUsed)
    PROVE  /\ ~Unsettled(o)' /\ ledger'[o].reserved = ledger[o].reserved
           /\ \A x \in Orders \ {o} : ledger'[x] = ledger[x]
  <1> DEFINE a == orders[o].creditUsed
  <1>1. /\ a = ledger[o].reserved /\ a \in Nat /\ ledger \in [Orders -> LedgerEntry]
        /\ creditReserved[CustomerOf[o]] \in Int
    BY UsedIsHeld, CustomerAssumption
    DEF IInv, TypeOK, CreditTypeOK, OrderTypeOK, OrderRow
  <1>2. RefundHold(o, a) \/ ConsumeHold(o, a)
    BY <1>1, HoldCovered DEF ReleaseReservedCredit, ConsumeReservedCredit
  <1> QED
    BY <1>1, <1>2 DEF RefundHold, ConsumeHold, LedgerEntry, Unsettled

(* Where a delivery's handler is, it alone moves. *)
LEMMA WebhookPlace ==
    ASSUME IInv, NEW d \in Deliveries, WebhookFind(d) \/ WebhookStep(d),
           UNCHANGED <<job, admin>>
    PROVE  /\ Exists(d.order) /\ create[d.order].method # "CREDIT"
           /\ \A x \in Deliveries \ {d} : webhook'[x] = webhook[x]
           /\ MovesAt(d.order)
  <1> DEFINE o == d.order
  <1>a. /\ o \in Orders /\ webhook \in [Deliveries -> WebhookStates]
        /\ SubjectOf(d) \in Attempts /\ SubjectOf(d)[1] = o
    BY DeliveryReferences DEF IInv, TypeOK, WebhookTypeOK, WebhookStates
  <1>b. Exists(o) /\ create[o].method # "CREDIT"
    <2>1. orders[o].payable
      BY <1>a DEF WebhookFind, Deliverable, WebhookStep, WebhookSavePending, WebhookFetch,
         WebhookSaveProcessed, WebhookRead, WebhookMark, WebhookSettle, WebhookWrite,
         WebhookClearCart, IInv, WebhookInv, PaymentInv
    <2> QED
      BY <1>a, <2>1, PayableNotCredit
  <1>c. /\ \A x \in Deliveries \ {d} : webhook'[x] = webhook[x]
        /\ MovesAt(o)
    <2>1. \A x \in Deliveries \ {d} : webhook'[x] = webhook[x]
      BY <1>a DEF WebhookFind, WebhookStep, WebhookSavePending, WebhookFetch,
         WebhookSaveProcessed, WebhookRead, WebhookMark, WebhookSettle, WebhookWrite,
         WebhookClearCart, Resume
    <2> QED
      BY <2>1 DEF MovesAt
  <1> QED
    BY <1>b, <1>c

LEMMA WebhookTidy ==
    ASSUME IInv, SerialInv, LedgerInv, FaultFreeInv, NEW d \in Deliveries,
           WebhookFind(d) \/ WebhookStep(d), UNCHANGED <<create, job, admin>>
    PROVE  FaultFreeInv' /\ (ClosedInv => ClosedInv')
  <1> DEFINE o == d.order
  <1>a. /\ o \in Orders /\ webhook \in [Deliveries -> WebhookStates]
        /\ \A x \in Deliveries : x.order \in Orders
        /\ SubjectOf(d) \in Attempts /\ SubjectOf(d)[1] = o
    BY DeliveryReferences DEF IInv, TypeOK, WebhookTypeOK, WebhookStates
  <1>b. Exists(o) /\ create[o].method # "CREDIT"
    BY WebhookPlace
  <1>c. /\ \A x \in Deliveries \ {d} : webhook'[x] = webhook[x]
        /\ MovesAt(o)
        /\ AboutToFlag(o) => AboutToFlag(o)'
    BY WebhookPlace DEF AboutToFlag
  <1>d. ASSUME webhook[d].pc # "settle"
        PROVE  AboutToSettle(o) => AboutToSettle(o)'
    BY <1>c, <1>d DEF AboutToSettle
  <1>e. ASSUME UNCHANGED <<creditVars, orders>>, webhook[d].pc # "settle",
               webhook'[d].pc = "write" /\ Closed(webhook'[d].status) => ~HoldsCredit(o)
        PROVE  FaultFreeInv' /\ (ClosedInv => ClosedInv')
    <2>1. StatementFor(o) /\ UNCHANGED ledger
      BY <1>b, <1>e DEF StatementFor, Exists, creditVars
    <2>2. FaultFreeInv'
      BY <1>a, <1>c, <1>d, <1>e, <2>1, TidyKept
    <2>3. ~HoldsCredit(o) => ~HoldsCredit(o)'
      BY <1>e DEF HoldsCredit
    <2>4. \A x \in Deliveries :
             x.order = o /\ webhook'[x].pc = "write" /\ Closed(webhook'[x].status) =>
                ~HoldsCredit(o)' \/ (webhook[x].pc = "write" /\ Closed(webhook[x].status))
      BY <1>c, <1>e, <2>3
    <2>5. ClosedInv => ClosedInv'
      BY <1>a, <1>c, <1>e, <2>1, <2>4, ClosedKept
    <2> QED
      BY <2>2, <2>5
  <1>1. CASE \/ WebhookFind(d) \/ WebhookSavePending(d) \/ WebhookFetch(d)
             \/ WebhookSaveProcessed(d) \/ WebhookClearCart(d)
    <2>1. /\ UNCHANGED <<creditVars, orders>>
          /\ webhook[d].pc # "settle" /\ webhook'[d].pc # "write"
      BY <1>1, <1>a DEF WebhookFind, WebhookSavePending, WebhookFetch, WebhookSaveProcessed,
         WebhookClearCart, Resume, WebhookStates, orderVars
    <2> QED
      BY <1>e, <2>1
  <1>2. CASE WebhookRead(d)
    <2>1. /\ UNCHANGED <<creditVars, orders>> /\ webhook[d].pc = "read"
          /\ webhook'[d].status = webhook[d].status
          /\ webhook'[d].pc = "write" => ~HoldsCredit(o) \/ webhook[d].status = "PENDING"
      BY <1>2, <1>a, <1>b DEF WebhookRead, Resume, WebhookStates, orderVars
    <2> QED
      BY <1>e, <2>1 DEF Closed
  <1>3. CASE WebhookMark(d)
    <2>1. StatementFor(o) /\ orders'[o].creditRestored
      BY <1>3, <1>a, <1>b, FlagStatement DEF WebhookMark
    <2>2. webhook'[d].pc = "settle" /\ AboutToSettle(o)' /\ ~HoldsCredit(o)'
      BY <1>3, <1>a, <2>1 DEF WebhookMark, Resume, WebhookStates, AboutToSettle, HoldsCredit
    <2> QED
      BY <1>a, <1>c, <2>1, <2>2, TidyKept, ClosedKept
  <1>4. CASE WebhookSettle(d)
    <2>1. /\ UNCHANGED <<orderVars>> /\ webhook[d].pc = "settle"
          /\ \/ ReleaseReservedCredit(o, orders[o].creditUsed)
             \/ ConsumeReservedCredit(o, orders[o].creditUsed)
      BY <1>4 DEF WebhookSettle
    <2>2. /\ orders[o].creditUsed > 0 /\ Unsettled(o) /\ orders[o].creditRestored
      BY <2>1 DEF SerialInv, WebhookDue, IInv, WebhookInv
    <2>3. /\ ~Unsettled(o)' /\ ledger'[o].reserved = ledger[o].reserved
          /\ \A x \in Orders \ {o} : ledger'[x] = ledger[x]
      BY <1>a, <1>b, <2>1, <2>2, SettleStatement
    <2>4. StatementFor(o) /\ ~HoldsCredit(o)'
      BY <1>b, <2>1, <2>2, <2>3 DEF StatementFor, Exists, HoldsCredit, orderVars
    <2> QED
      BY <1>a, <1>c, <2>3, <2>4, TidyKept, ClosedKept
  <1>5. CASE WebhookWrite(d)
    <2>1. /\ webhook[d].pc = "write" /\ webhook[d].status \in OrderStatus
          /\ UpdateOrderStatus(o, webhook[d].status) /\ UNCHANGED creditVars
          /\ webhook'[d].pc # "write"
      BY <1>5, <1>a DEF WebhookWrite, Resume, WebhookStates, IInv, WebhookInv
    <2>2. /\ StatementFor(o) /\ UNCHANGED ledger
          /\ orders'[o].paymentStatus = webhook[d].status
          /\ orders'[o].creditRestored = orders[o].creditRestored
      BY <1>a, <1>b, <2>1, StatusStatement
    <2>3. FaultFreeInv'
      BY <1>a, <1>c, <1>d, <2>1, <2>2, TidyKept
    <2>4. ASSUME ClosedInv PROVE ClosedInv'
      <3>1. Closed(orders'[o].paymentStatus) => ~HoldsCredit(o)'
        BY <2>1, <2>2, <2>4 DEF ClosedInv, StatementFor, HoldsCredit
      <3> QED
        BY <1>a, <1>c, <2>1, <2>2, <2>4, <3>1, ClosedKept
    <2> QED
      BY <2>3, <2>4
  <1> QED
    BY <1>1, <1>2, <1>3, <1>4, <1>5 DEF WebhookStep

LEMMA JobTidy ==
    ASSUME IInv, SerialInv, LedgerInv, FaultFreeInv, NEW j \in Jobs, NEW o \in Orders,
           JobOrderStep(j, o), UNCHANGED <<create, webhook, admin>>
    PROVE  FaultFreeInv' /\ (ClosedInv => ClosedInv')
  <1>1. PICK pc \in {"none", "mark", "release"} :
           /\ Move(j, o, pc) /\ job[j][o] # "none"
           /\ job[j][o] = "listed" => pc = "mark"
           /\ job[j][o] = "mark" => pc = "release"
    BY DEF JobOrderStep, JobCancel, JobMark, JobRelease
  <1>2. /\ job'[j][o] = pc
        /\ \A k \in Jobs, x \in Orders : <<k, x>> # <<j, o>> => job'[k][x] = job[k][x]
    BY <1>1, JobMoved DEF IInv, TypeOK
  <1>3. /\ Exists(o) /\ create[o].method # "CREDIT" /\ MovesAt(o)
        /\ \A d \in Deliveries : d.order \in Orders
    BY <1>1, <1>2, DeliveryReferences DEF IInv, JobInv, MovesAt
  <1>4. CASE JobCancel(j, o)
    <2>1. /\ StatementFor(o) /\ UNCHANGED ledger
          /\ orders'[o].creditRestored = orders[o].creditRestored
      BY <1>3, <1>4, StatusStatement DEF JobCancel, OrderStatus
    <2>2. /\ job[j][o] = "listed" /\ AboutToFlag(o)'
          /\ AboutToSettle(o) => AboutToSettle(o)'
      BY <1>1, <1>2, <1>4 DEF JobCancel, AboutToFlag, AboutToSettle
    <2> QED
      BY <1>3, <2>1, <2>2, TidyKept, ClosedKept
  <1>5. CASE JobMark(j, o)
    <2>1. /\ StatementFor(o) /\ ~HoldsCredit(o)'
      BY <1>3, <1>5, FlagStatement DEF JobMark, HoldsCredit
    <2>2. AboutToSettle(o)'
      BY <1>1, <1>2, <1>5 DEF JobMark, AboutToSettle
    <2> QED
      BY <1>3, <2>1, <2>2, TidyKept, ClosedKept
  <1>6. CASE JobRelease(j, o)
    <2>1. /\ orders[o].creditUsed > 0 /\ Unsettled(o) /\ orders[o].creditRestored
          /\ ReleaseReservedCredit(o, orders[o].creditUsed) /\ UNCHANGED orderVars
      BY <1>6 DEF JobRelease, SerialInv, JobDue, IInv, JobInv
    <2>2. /\ ~Unsettled(o)' /\ ledger'[o].reserved = ledger[o].reserved
          /\ \A x \in Orders \ {o} : ledger'[x] = ledger[x]
      BY <1>3, <2>1, SettleStatement
    <2>3. StatementFor(o) /\ ~HoldsCredit(o)'
      BY <1>3, <2>1, <2>2 DEF StatementFor, Exists, HoldsCredit, orderVars
    <2> QED
      BY <1>3, <2>2, <2>3, TidyKept, ClosedKept
  <1> QED
    BY <1>4, <1>5, <1>6 DEF JobOrderStep

LEMMA AdminTidy ==
    ASSUME IInv, SerialInv, LedgerInv, FaultFreeInv, NEW r \in AdminRequests,
           AdminCancelRead(r) \/ AdminStatusRequest(r) \/ AdminStep(r),
           UNCHANGED <<create, webhook, job>>
    PROVE  FaultFreeInv' /\ (ClosingSchedule /\ ClosedInv => ClosedInv')
  <1> DEFINE o == r.order
  <1>a. /\ o \in Orders /\ r.status \in OrderStatus
        /\ \A d \in Deliveries : d.order \in Orders
    BY RequestReferences, DeliveryReferences
  <1>1. PICK pc \in {"done", "validate", "write", "mark", "release"} :
           /\ Go(r, pc)
           /\ admin[r] = "write" => pc \in {"mark", "done"}
           /\ admin[r] = "mark" => pc = "release"
    BY DEF AdminCancelRead, AdminStatusRequest, AdminStep, AdminValidate, AdminWrite,
       AdminMark, AdminRelease
  <1>2. admin'[r] = pc /\ \A x \in AdminRequests \ {r} : admin'[x] = admin[x]
    BY <1>1 DEF Go, IInv, TypeOK, AdminTypeOK
  <1>3. /\ Exists(o) /\ MovesAt(o)
        /\ admin[r] \in {"mark", "release"} => create[o].method # "CREDIT"
    BY <1>2 DEF AdminCancelRead, AdminStatusRequest, AdminStep, AdminValidate, AdminWrite,
       AdminMark, AdminRelease, IInv, AdminInv, MovesAt
  <1>4. /\ admin[r] # "release" => (AboutToSettle(o) => AboutToSettle(o)')
        /\ admin[r] # "mark" => (AboutToFlag(o) => AboutToFlag(o)')
        /\ pc = "release" => AboutToSettle(o)'
        /\ pc = "mark" => AboutToFlag(o)'
    BY <1>2 DEF AboutToSettle, AboutToFlag
  <1>5. CASE AdminCancelRead(r) \/ AdminStatusRequest(r) \/ AdminValidate(r)
    <2>1. StatementFor(o) /\ UNCHANGED <<orders, ledger>> /\ admin[r] \notin {"mark", "release"}
      BY <1>3, <1>5 DEF AdminCancelRead, AdminStatusRequest, AdminValidate, StatementFor, Exists,
         creditVars, orderVars
    <2> QED
      BY <1>a, <1>3, <1>4, <2>1, TidyKept, ClosedKept
  <1>6. CASE AdminWrite(r)
    <2>1. /\ StatementFor(o) /\ UNCHANGED ledger
          /\ orders'[o].paymentStatus = r.status
          /\ orders'[o].creditRestored = orders[o].creditRestored
      BY <1>a, <1>3, <1>6, StatusStatement DEF AdminWrite
    <2>2. FaultFreeInv'
      BY <1>a, <1>3, <1>4, <1>6, <2>1, TidyKept DEF AdminWrite
    <2>3. ASSUME ClosingSchedule, ClosedInv PROVE ClosedInv'
      <3>1. Closed(r.status) => r.endpoint = "cancel"
        BY <2>3, AdminAssumption DEF ClosingSchedule, Closed, AdminRequest
      <3>2. r.endpoint = "cancel" /\ orders[o].creditUsed > 0 => pc = "mark"
        BY <1>2, <1>6 DEF AdminWrite, Go, IInv, TypeOK, AdminTypeOK
      <3>3. AboutToFlag(o)' \/ ~HoldsCredit(o)' \/ ~Closed(orders'[o].paymentStatus)
        BY <1>4, <2>1, <3>1, <3>2 DEF HoldsCredit, StatementFor
      <3> QED
        BY <1>a, <1>3, <2>1, <2>3, <3>3, ClosedKept
    <2> QED
      BY <2>2, <2>3
  <1>7. CASE AdminMark(r)
    <2>1. StatementFor(o) /\ ~HoldsCredit(o)'
      BY <1>a, <1>3, <1>7, FlagStatement DEF AdminMark, HoldsCredit
    <2>2. AboutToSettle(o)'
      BY <1>1, <1>4, <1>7 DEF AdminMark
    <2> QED
      BY <1>a, <1>3, <2>1, <2>2, TidyKept, ClosedKept
  <1>8. CASE AdminRelease(r)
    <2>1. /\ admin[r] = "release" /\ UNCHANGED orderVars
          /\ ReleaseReservedCredit(o, orders[o].creditUsed)
      BY <1>8 DEF AdminRelease
    <2>2. r.endpoint = "cancel" /\ AdminBusy(r) /\ orders[o].creditRestored
      BY <2>1 DEF IInv, AdminInv, AdminBusy
    <2>3. orders[o].creditUsed > 0 /\ Unsettled(o)
      BY <2>1, <2>2 DEF SerialInv, AdminDue
    <2>4. /\ ~Unsettled(o)' /\ ledger'[o].reserved = ledger[o].reserved
          /\ \A x \in Orders \ {o} : ledger'[x] = ledger[x]
      BY <1>a, <1>3, <2>1, <2>3, SettleStatement
    <2>5. StatementFor(o) /\ ~HoldsCredit(o)'
      BY <1>3, <2>1, <2>2, <2>4 DEF StatementFor, Exists, HoldsCredit, orderVars
    <2> QED
      BY <1>a, <1>3, <2>4, <2>5, TidyKept, ClosedKept
  <1> QED
    BY <1>5, <1>6, <1>7, <1>8 DEF AdminStep

LEMMA ClientTidy ==
    ASSUME IInv, SerialInv, LedgerInv, FaultFreeInv, NEW o \in Orders, ClientCancel(o),
           UNCHANGED <<create, webhook, job>>
    PROVE  FaultFreeInv' /\ (ClosedInv => ClosedInv')
  <1>1. /\ Exists(o) /\ create[o].method # "CREDIT" /\ UNCHANGED admin
        /\ orders[o].creditUsed \in Nat
        /\ orders[o].creditUsed = ledger[o].reserved
    BY PayableNotCredit, UsedIsHeld DEF ClientCancel, IInv, TypeOK, OrderTypeOK, OrderRow
  <1>2. /\ Exists(o)' /\ orders'[o].creditRestored
        /\ orders'[o].creditUsed = orders[o].creditUsed
        /\ \A x \in Orders \ {o} : orders'[x] = orders[x]
    BY DEF ClientCancel, Exists, IInv, TypeOK, OrderTypeOK, OrderRow
  <1>3. /\ MovesAt(o) /\ \A d \in Deliveries : d.order \in Orders
        /\ AboutToSettle(o) => AboutToSettle(o)'
    BY <1>1, DeliveryReferences DEF MovesAt, AboutToSettle
  <1>4. /\ ledger'[o].reserved = ledger[o].reserved
        /\ \A x \in Orders \ {o} : ledger'[x] = ledger[x]
        /\ HoldsCredit(o) => ~Unsettled(o)'
        /\ ~HoldsCredit(o) => UNCHANGED ledger
    <2>1. CASE HoldsCredit(o) /\ RefundHold(o, orders[o].creditUsed)
      BY <1>1, <2>1, SettleStatement, UnflaggedUnsettled DEF HoldsCredit
    <2>2. CASE ~HoldsCredit(o) /\ UNCHANGED creditVars
      BY <2>2 DEF creditVars
    <2> QED
      BY <2>1, <2>2 DEF ClientCancel
  <1>5. StatementFor(o) /\ ~HoldsCredit(o)'
    BY <1>1, <1>2, <1>4 DEF StatementFor, HoldsCredit
  <1>6. \/ ~Unsettled(o)'
        \/ ledger[o].reserved = 0
        \/ ledger'[o] = ledger[o] /\ orders[o].creditRestored
    BY <1>1, <1>4 DEF HoldsCredit
  <1> QED
    BY <1>2, <1>3, <1>5, <1>6, TidyKept, ClosedKept

(* A checkout request; handlers stand still. *)
LEMMA CheckoutStepTidy ==
    ASSUME IInv, SerialInv, FaultFreeInv, NEW o \in Orders, CreateStep(o),
           UNCHANGED <<webhook, job, admin>>
    PROVE  FaultFreeInv' /\ (ClosedInv => ClosedInv')
  <1>a. /\ CreateTypeOK /\ create[o].pc \in CreatePc
        /\ orders \in [Orders -> OrderRow] /\ ledger \in [Orders -> LedgerEntry]
    BY DEF IInv, TypeOK, CreateTypeOK, OrderTypeOK, CreditTypeOK
  <1>b. ASSUME \A x \in Orders \ {o} : /\ orders'[x] = orders[x] /\ ledger'[x] = ledger[x]
                                       /\ create'[x] = create[x],
               ~Exists(o)' => /\ orders'[o].creditUsed = 0 /\ ~orders'[o].creditRestored
                              /\ create'[o].pc # "save" => ledger'[o].reserved = 0,
               Exists(o)' /\ create'[o].method = "CREDIT" /\ create'[o].pc # "mark" =>
                  orders'[o].creditRestored,
               \/ ~orders'[o].creditRestored \/ ledger'[o].reserved = 0
               \/ /\ orders'[o].creditRestored = orders[o].creditRestored
                  /\ ledger'[o] = ledger[o],
               \/ ~Closed(orders'[o].paymentStatus) \/ orders'[o].creditRestored
               \/ /\ orders'[o].paymentStatus = orders[o].paymentStatus
                  /\ orders'[o].creditUsed = orders[o].creditUsed
                  /\ orders'[o].creditRestored = orders[o].creditRestored,
               Exists(o) => /\ orders'[o].creditUsed = orders[o].creditUsed
                            /\ orders[o].creditRestored => orders'[o].creditRestored
        PROVE  FaultFreeInv' /\ (ClosedInv => ClosedInv')
    <2>1. CheckoutTidy'
      BY <1>b DEF FaultFreeInv, CheckoutTidy, Exists
    <2>2. \A x \in Orders : /\ AboutToSettle(x)' <=> AboutToSettle(x)
                            /\ AboutToFlag(x)' <=> AboutToFlag(x)
      BY DEF AboutToSettle, AboutToFlag
    <2>3. FlaggedSettled'
      BY <1>b, <2>2 DEF FaultFreeInv, FlaggedSettled, Unsettled
    <2>4. ASSUME ClosedInv PROVE ClosedInv'
      <3>1. \A d \in Deliveries : webhook[d].pc = "write" =>
               d.order \in Orders /\ Exists(d.order)
        BY DeliveryReferences, PayableNotCredit DEF IInv, WebhookInv
      <3>2. ASSUME NEW d \in Deliveries, webhook[d].pc = "write", Closed(webhook[d].status)
            PROVE  ~HoldsCredit(d.order)'
        BY <1>b, <2>4, <3>1, <3>2 DEF ClosedInv, HoldsCredit
      <3>3. ASSUME NEW x \in Orders, Closed(orders'[x].paymentStatus), HoldsCredit(x)'
            PROVE  AboutToFlag(x)'
        BY <1>b, <2>2, <2>4, <3>3 DEF ClosedInv, HoldsCredit
      <3> QED
        BY <3>2, <3>3 DEF ClosedInv
    <2> QED
      BY <2>1, <2>3, <2>4 DEF FaultFreeInv
  <1>c. ASSUME NEW pc \in CreatePc, Continue(o, pc)
        PROVE  /\ create'[o].pc = pc /\ create'[o].method = create[o].method
               /\ \A x \in Orders \ {o} : create'[x] = create[x]
    BY <1>a, <1>c, CheckoutMoved
  <1>1. CASE CreateBegin(o)
    <2>1. /\ UNCHANGED <<creditVars, orderVars>> /\ ~Exists(o) /\ ledger[o].reserved = 0
      BY <1>1 DEF CreateBegin, At, IInv, CheckoutInv
    <2>2. \A x \in Orders \ {o} : create'[x] = create[x]
      BY <1>1, <1>a DEF CreateBegin, Take, CreateTypeOK
    <2> QED
      BY <1>b, <2>1, <2>2 DEF FaultFreeInv, CheckoutTidy, Exists, creditVars, orderVars
  <1>2. CASE CreateDeduct(o) \/ CreateReserve(o)
    <2>1. /\ UNCHANGED orderVars /\ ~Exists(o) /\ ledger[o].reserved = 0
      BY <1>2 DEF CreateDeduct, CreateReserve, At, IInv, CheckoutInv
    <2>2. PICK pc \in {"save", "failed"} : Continue(o, pc) /\ (pc = "failed" => UNCHANGED creditVars)
      BY <1>2 DEF CreateDeduct, CreateReserve
    <2>3. \A x \in Orders \ {o} : ledger'[x] = ledger[x]
      BY <1>2, <1>a DEF CreateDeduct, CreateReserve, DeductCreditAtomic, DeductUnchecked,
         ReserveCredit, ReserveUnchecked, creditVars
    <2>4. create'[o].pc = pc /\ \A x \in Orders \ {o} : create'[x] = create[x]
      BY <1>c, <2>2 DEF CreatePc
    <2>5. create'[o].pc # "save" => ledger'[o].reserved = 0
      BY <2>1, <2>2, <2>4 DEF creditVars
    <2>6. orders[o].creditUsed = 0 /\ ~orders[o].creditRestored
      BY <2>1 DEF FaultFreeInv, CheckoutTidy
    <2> QED
      BY <1>b, <2>1, <2>3, <2>4, <2>5, <2>6 DEF Exists, orderVars
  <1>3. CASE CreateSave(o)
    <2>1. /\ UNCHANGED creditVars /\ ~Exists(o)
          /\ orders'[o].paymentStatus \in {"PENDING", "APPROVED"} /\ ~orders'[o].creditRestored
          /\ \A x \in Orders \ {o} : orders'[x] = orders[x]
      BY <1>3, <1>a DEF CreateSave, SaveOrder, At, IInv, CheckoutInv
    <2>2. PICK pc \in {"clearCart", "mark", "preference"} :
             Continue(o, pc) /\ (create[o].method = "CREDIT" => pc = "mark")
      BY <1>3 DEF CreateSave
    <2>3. /\ create'[o].pc = pc /\ create'[o].method = create[o].method
          /\ \A x \in Orders \ {o} : create'[x] = create[x]
      BY <1>c, <2>2 DEF CreatePc
    <2> QED
      BY <1>b, <2>1, <2>2, <2>3 DEF Exists, Closed, creditVars
  <1>4. CASE CreateMark(o)
    <2>1. /\ create[o].method = "CREDIT" /\ Continue(o, "clearCart") /\ Exists(o)
          /\ MarkCreditRestored(o) /\ UNCHANGED creditVars
      BY <1>4 DEF CreateMark, At, SerialInv, TakingInv, IInv, CheckoutInv
    <2>2. /\ orders'[o].creditRestored /\ Exists(o)'
          /\ orders'[o].creditUsed = orders[o].creditUsed
          /\ \A x \in Orders \ {o} : orders'[x] = orders[x]
      BY <1>a, <2>1 DEF MarkCreditRestored, OrderRow, Exists
    <2>3. ledger[o].reserved = 0
      BY <1>a, <2>1 DEF SerialInv, TakingInv, LedgerEntry
    <2>4. \A x \in Orders \ {o} : create'[x] = create[x]
      BY <1>c, <2>1 DEF CreatePc
    <2> QED
      BY <1>b, <2>1, <2>2, <2>3, <2>4 DEF creditVars
  <1>5. CASE CreateClearCart(o) \/ CreatePreference(o)
    <2>1. /\ UNCHANGED <<creditVars, orders>> /\ Exists(o)
          /\ create[o].pc # "mark"
      BY <1>5 DEF CreateClearCart, CreatePreference, At, IInv, CheckoutInv, orderVars
    <2>2. PICK pc \in {"done", "gateway"} : Continue(o, pc)
      BY <1>5 DEF CreateClearCart, CreatePreference
    <2>3. /\ create'[o].pc = pc /\ create'[o].method = create[o].method
          /\ \A x \in Orders \ {o} : create'[x] = create[x]
      BY <1>c, <2>2 DEF CreatePc
    <2> QED
      BY <1>b, <2>1, <2>3 DEF FaultFreeInv, CheckoutTidy, Exists, creditVars
  <1>6. CASE CreateSetGateway(o)
    <2>1. /\ UNCHANGED creditVars /\ Exists(o) /\ create[o].method = "MERCADO_PAGO"
          /\ UpdateOrderPaymentGatewayId(o) /\ Continue(o, "done")
      BY <1>6 DEF CreateSetGateway, At, IInv, CheckoutInv
    <2>2. /\ orders'[o].paymentStatus = orders[o].paymentStatus
          /\ orders'[o].creditUsed = orders[o].creditUsed
          /\ orders'[o].creditRestored = orders[o].creditRestored
          /\ \A x \in Orders \ {o} : orders'[x] = orders[x]
      BY <1>a, <2>1 DEF UpdateOrderPaymentGatewayId, OrderRow
    <2>3. /\ create'[o].method = "MERCADO_PAGO"
          /\ \A x \in Orders \ {o} : create'[x] = create[x]
      BY <1>c, <2>1 DEF CreatePc
    <2> QED
      BY <1>b, <2>1, <2>2, <2>3 DEF Exists, creditVars
  <1> QED
    BY <1>1, <1>2, <1>3, <1>4, <1>5, <1>6 DEF CreateStep

(* A step that leaves orders, requests and every handler in its place. *)
LEMMA QuietTidy ==
    ASSUME FaultFreeInv, UNCHANGED <<orders, ledger, create, webhook, admin>>,
           \A j \in Jobs, x \in Orders :
              job[j][x] \in {"mark", "release"} => job'[j][x] = job[j][x]
    PROVE  FaultFreeInv' /\ (ClosedInv => ClosedInv')
  <1>1. CheckoutTidy'
    BY DEF FaultFreeInv, CheckoutTidy, Exists
  <1>2. \A x \in Orders : /\ AboutToSettle(x) => AboutToSettle(x)'
                          /\ AboutToFlag(x) => AboutToFlag(x)'
    BY DEF AboutToSettle, AboutToFlag
  <1>3. FlaggedSettled'
    BY <1>2 DEF FaultFreeInv, FlaggedSettled, Unsettled
  <1>4. ClosedInv => ClosedInv'
    BY <1>2 DEF ClosedInv, Closed, HoldsCredit
  <1> QED
    BY <1>1, <1>3, <1>4 DEF FaultFreeInv

LEMMA NoFaults ==
    ASSUME IInv, FaultFree
    PROVE  ~Fault /\ ~Restart
  BY FaultAssumption DEF IInv, TypeOK, FaultFree, Fault, Restart

LEMMA InitTidy == Init => FaultFreeInv /\ ClosedInv
  <1> SUFFICES ASSUME Init PROVE FaultFreeInv /\ ClosedInv
    OBVIOUS
  <1> USE DEF Init, CreditInit, OrderInit, CreateInit, WebhookInit, JobInit, AdminInit
  <1>1. CheckoutTidy /\ FlaggedSettled
    BY DEF CheckoutTidy, FlaggedSettled, Exists
  <1>2. ClosedInv
    BY DEF ClosedInv, Closed
  <1> QED
    BY <1>1, <1>2 DEF FaultFreeInv

LEMMA NextTidy ==
    ASSUME IInv, SerialInv, LedgerInv, FaultFreeInv, FaultFree, [Next]_vars
    PROVE  FaultFreeInv' /\ (ClosingSchedule /\ ClosedInv => ClosedInv')
  <1>1. CASE Checkout
    BY <1>1, CheckoutStepTidy DEF Checkout, webhookVars
  <1>2. CASE Customer
    BY <1>2, ClientTidy, QuietTidy DEF Customer, SaveCart, creditVars, webhookVars
  <1>3. CASE Webhook
    BY <1>3, WebhookTidy DEF Webhook
  <1>4. CASE AbandonedJob
    <2>1. ASSUME NEW j \in Jobs, NEW old \in SUBSET Orders, JobScan(j, old),
                 UNCHANGED <<create, payments, webhookVars, admin, faults>>
          PROVE  FaultFreeInv' /\ (ClosedInv => ClosedInv')
      <3>1. \A k \in Jobs, x \in Orders :
               job[k][x] \in {"mark", "release"} => job'[k][x] = job[k][x]
        BY <2>1 DEF JobScan, Finished, IInv, TypeOK, JobTypeOK
      <3> QED
        BY <2>1, <3>1, QuietTidy DEF JobScan, creditVars, orderVars, webhookVars
    <2> QED
      BY <1>4, <2>1, JobTidy DEF AbandonedJob, webhookVars
  <1>5. CASE Administrator
    <2>1. ASSUME NEW u \in Users, NEW x \in CreditGrants, AdminSetCredit(u, x),
                 UNCHANGED <<orderVars, admin>>,
                 UNCHANGED <<create, payments, webhookVars, job, faults>>
          PROVE  FaultFreeInv' /\ (ClosedInv => ClosedInv')
      BY <2>1, QuietTidy DEF AdminSetCredit, orderVars, webhookVars
    <2> QED
      BY <1>5, <2>1, AdminTidy DEF Administrator, webhookVars
  <1>6. CASE Provider \/ UNCHANGED vars
    BY <1>6, QuietTidy
    DEF Provider, ProviderStep, vars, creditVars, orderVars, webhookVars
  <1> QED
    BY <1>1, <1>2, <1>3, <1>4, <1>5, <1>6, NoFaults DEF Next

LEMMA NothingDue ==
    ASSUME NEW o, ~InFlightOn(o)
    PROVE  ~AboutToSettle(o) /\ ~AboutToFlag(o)
  BY DEF InFlightOn, WebhookBusy, AdminBusy, AboutToSettle, AboutToFlag

LEMMA TidyInvariance ==
    /\ FaultFree => (Spec => []FaultFreeInv)
    /\ ClosingSchedule => (Spec => []ClosedInv)
  <1>a. ClosingSchedule => FaultFree
    BY DEF ClosingSchedule
  <1>b. FaultFree => SerialSchedule
    BY DEF FaultFree
  <1>1. ASSUME FaultFree PROVE Spec => []FaultFreeInv
    <2>1. IInv /\ SerialInv /\ LedgerInv /\ FaultFreeInv /\ [Next]_vars => FaultFreeInv'
      BY <1>1, NextTidy
    <2> QED
      BY <1>1, <1>b, <2>1, InitTidy, Invariance, SerialInvariance, LedgerInvariance, PTL DEF Spec
  <1>2. ASSUME ClosingSchedule PROVE Spec => []ClosedInv
    <2>1. Spec => []FaultFreeInv
      BY <1>2, <1>a, <1>1
    <2>2. /\ IInv /\ SerialInv /\ LedgerInv /\ FaultFreeInv /\ ClosedInv /\ [Next]_vars
          => ClosedInv'
      BY <1>2, <1>a, NextTidy
    <2> QED
      BY <1>2, <1>a, <1>b, <2>1, <2>2, InitTidy, Invariance, SerialInvariance,
         LedgerInvariance, PTL DEF Spec
  <1> QED
    BY <1>1, <1>2

-----------------------------------------------------------------------------
(* The theorems for schedules where handlers of one order do not overlap.  *)

(* While settling handlers of one order do not overlap, creditReserved     *)
(* covers every hold of an order that still waits for its payment, through *)
(* failures and restarts and whatever goes on with the customer's other    *)
(* orders: the guards of release and consume are never a silent no-op for  *)
(* it, and the unguarded client cancellation keeps it from negative.       *)
THEOREM HoldsCovered == SerialSchedule => (Spec => []ReserveCoversHolds)
  <1> SUFFICES ASSUME SerialSchedule PROVE Spec => []ReserveCoversHolds
    OBVIOUS
  <1>1. IInv /\ SerialInv /\ LedgerInv => ReserveCoversHolds
    BY DueCovered
  <1> QED
    BY <1>1, Invariance, SerialInvariance, LedgerInvariance, PTL

(* If besides nothing fails, then whenever nothing of a customer's is in   *)
(* flight the users table and the orders table agree about that customer:  *)
(* creditReserved is the credit that the rows not flagged credit_restored  *)
(* hold.                                                                   *)
THEOREM RowsMatchReserve == FaultFree => (Spec => []ReserveMatchesRows)
  <1> SUFFICES ASSUME FaultFree PROVE Spec => []ReserveMatchesRows
    OBVIOUS
  <1>1. IInv /\ SerialInv /\ LedgerInv /\ FaultFreeInv => ReserveMatchesRows
    <2> SUFFICES ASSUME IInv, SerialInv, LedgerInv, FaultFreeInv,
                        NEW u \in Users, \A o \in OrdersOf(u) : AtRest(o)
                 PROVE  creditReserved[u] = Total(Held, u)
      BY DEF ReserveMatchesRows
    <2>1. /\ orders \in [Orders -> OrderRow] /\ ledger \in [Orders -> LedgerEntry]
          /\ Open \in Amounts /\ Held \in Amounts
      BY OpenTyped DEF IInv, TypeOK, OrderTypeOK, CreditTypeOK, OrderRow, Held, Amounts
    <2>2. ASSUME NEW o \in OrdersOf(u) PROVE Held[o] = Open[o]
      <3> o \in Orders
        BY DEF OrdersOf
      <3>1. /\ ledger[o].reserved \in Nat /\ orders[o].creditUsed \in Nat
            /\ ~AboutToSettle(o)
        BY <2>1, NothingDue DEF OrderRow, LedgerEntry, AtRest
      <3>2. CASE ~Exists(o)
        BY <3>1, <3>2 DEF AtRest, FaultFreeInv, CheckoutTidy, Held, HoldsCredit, Open
      <3>3. CASE Exists(o) /\ create[o].method = "CREDIT"
        <4>1. ~HoldsCredit(o)
          BY <3>3 DEF AtRest, FaultFreeInv, CheckoutTidy, HoldsCredit
        <4>2. ledger[o].reserved = 0
          BY <3>1, <3>3 DEF SerialInv, TakingInv
        <4> QED
          BY <4>1, <4>2 DEF Held, Open
      <3>4. CASE Exists(o) /\ create[o].method # "CREDIT"
        <4>1. orders[o].creditUsed = ledger[o].reserved
          BY <3>4, UsedIsHeld
        <4>2. CASE HoldsCredit(o)
          BY <4>1, <4>2, UnflaggedUnsettled DEF HoldsCredit, Held, Open
        <4>3. CASE ~HoldsCredit(o)
          BY <3>1, <4>1, <4>3 DEF HoldsCredit, FaultFreeInv, FlaggedSettled, Held, Open
        <4> QED
          BY <4>2, <4>3
      <3> QED
        BY <3>2, <3>3, <3>4
    <2>3. Total(Held, u) = Total(Open, u)
      BY <2>1, <2>2, TotalsEqual
    <2> QED
      BY <2>3, ReserveIsOpen
  <1>2. FaultFree => SerialSchedule
    BY DEF FaultFree
  <1> QED
    BY <1>1, <1>2, Invariance, SerialInvariance, LedgerInvariance, TidyInvariance, PTL

(* If besides administrators use the status endpoint neither to cancel nor *)
(* to reject, an order that ended CANCELLED or REJECTED has given up its   *)
(* whole hold once none of its handlers is in flight.                      *)
THEOREM ClosedOrdersSettled == ClosingSchedule => (Spec => []ClosedOrdersHoldNothing)
  <1> SUFFICES ASSUME ClosingSchedule PROVE Spec => []ClosedOrdersHoldNothing
    OBVIOUS
  <1>1. IInv /\ SerialInv /\ FaultFreeInv /\ ClosedInv => ClosedOrdersHoldNothing
    <2> SUFFICES ASSUME IInv, SerialInv, FaultFreeInv, ClosedInv,
                        NEW o \in Orders, ~InFlightOn(o),
                        orders[o].paymentStatus \in {"CANCELLED", "REJECTED"}
                 PROVE  ledger[o].consumed + ledger[o].released = ledger[o].reserved
      BY DEF ClosedOrdersHoldNothing
    <2>1. /\ ledger[o].reserved \in Nat /\ orders[o].creditUsed \in Nat
          /\ ledger[o].consumed \in Nat /\ ledger[o].released \in Nat
      BY DEF IInv, TypeOK, CreditTypeOK, LedgerEntry, OrderTypeOK, OrderRow
    <2>2. ~HoldsCredit(o) /\ ~AboutToSettle(o)
      BY NothingDue DEF ClosedInv, Closed
    <2>3. Unsettled(o) => ledger[o].reserved = 0
      <3>1. CASE create[o].method = "CREDIT"
        BY <2>1, <3>1 DEF SerialInv, TakingInv
      <3>2. CASE create[o].method # "CREDIT"
        <4>1. orders[o].creditUsed = ledger[o].reserved
          BY <3>2, UsedIsHeld DEF Exists
        <4> QED
          BY <2>1, <2>2, <4>1 DEF HoldsCredit, FaultFreeInv, FlaggedSettled
      <3> QED
        BY <3>1, <3>2
    <2> QED
      BY <2>1, <2>3 DEF SerialInv, SettledWhole, Unsettled
  <1>2. FaultFree /\ SerialSchedule
    BY DEF ClosingSchedule, FaultFree
  <1> QED
    BY <1>1, <1>2, Invariance, SerialInvariance, TidyInvariance, PTL

-----------------------------------------------------------------------------
(* What failures cost. *)

(* A handler's step on the row of order o. *)
LEMMA RequestKept ==
    ASSUME RequestInv, NEW o \in Orders, UNCHANGED create, Exists(o),
           \/ UNCHANGED orders
           \/ \E s \in OrderStatus : UpdateOrderStatus(o, s)
           \/ MarkCreditRestored(o)
           \/ orders' = [orders EXCEPT ![o].paymentStatus = "CANCELLED",
                                       ![o].creditRestored = TRUE],
           orders \in [Orders -> OrderRow]
    PROVE  RequestInv'
  <1>1. \A x \in Orders \ {o} : orders'[x] = orders[x]
    BY DEF UpdateOrderStatus, MarkCreditRestored
  <1>2. Exists(o)'
    BY DEF UpdateOrderStatus, MarkCreditRestored, Exists, OrderRow, OrderStatus
  <1> QED
    BY <1>1, <1>2 DEF RequestInv, At, Exists

LEMMA CheckoutRequest ==
    ASSUME IInv, RequestInv, NEW o \in Orders, CreateStep(o)
    PROVE  RequestInv'
  <1>a. CreateTypeOK /\ create[o].pc \in CreatePc /\ orders \in [Orders -> OrderRow]
    BY DEF IInv, TypeOK, CreateTypeOK, OrderTypeOK
  <1>1. ASSUME \A x \in Orders \ {o} : orders'[x] = orders[x] /\ create'[x] = create[x],
               \/ Exists(o)'
               \/ /\ create'[o].pc # "done"
                  /\ orders'[o].creditUsed = 0 /\ ~orders'[o].creditRestored
        PROVE  RequestInv'
    BY <1>1 DEF RequestInv, At, Exists
  <1>2. \A x \in Orders \ {o} : create'[x] = create[x]
    BY <1>a DEF CreateStep, CreateBegin, CreateDeduct, CreateReserve, CreateSave, CreateMark,
       CreateClearCart, CreatePreference, CreateSetGateway, Take, Continue, CreateTypeOK
  <1>3. \A x \in Orders \ {o} : orders'[x] = orders[x]
    BY <1>a DEF CreateStep, CreateBegin, CreateDeduct, CreateReserve, CreateSave, CreateMark,
       CreateClearCart, CreatePreference, CreateSetGateway, SaveOrder, MarkCreditRestored,
       UpdateOrderPaymentGatewayId, orderVars
  <1>4. CASE CreateBegin(o) \/ CreateDeduct(o) \/ CreateReserve(o)
    <2>1. ~Exists(o) /\ UNCHANGED orders /\ create'[o].pc # "done"
      BY <1>4, <1>a DEF CreateBegin, CreateDeduct, CreateReserve, Take, Continue, At, IInv,
         CheckoutInv, CreateTypeOK, orderVars
    <2> QED
      BY <1>1, <1>2, <1>3, <2>1 DEF RequestInv
  <1>5. CASE CreateSave(o)
    BY <1>1, <1>2, <1>3, <1>5, <1>a DEF CreateSave, SaveOrder, Exists
  <1>6. CASE CreateMark(o) \/ CreateClearCart(o) \/ CreatePreference(o) \/ CreateSetGateway(o)
    <2>1. Exists(o)
      BY <1>6 DEF CreateMark, CreateClearCart, CreatePreference, CreateSetGateway, At, IInv,
         CheckoutInv
    <2>2. Exists(o)'
      BY <1>6, <1>a, <2>1 DEF CreateMark, CreateClearCart, CreatePreference, CreateSetGateway,
         MarkCreditRestored, UpdateOrderPaymentGatewayId, Exists, OrderRow, orderVars
    <2> QED
      BY <1>1, <1>2, <1>3, <2>2
  <1> QED
    BY <1>4, <1>5, <1>6 DEF CreateStep

LEMMA NextRequest ==
    ASSUME IInv, RequestInv, [Next]_vars
    PROVE  RequestInv'
  <1>a. /\ CreateTypeOK /\ orders \in [Orders -> OrderRow]
        /\ \A o \in Orders : create[o].pc \in CreatePc
    BY DEF IInv, TypeOK, OrderTypeOK, CreateTypeOK
  <1>b. ASSUME UNCHANGED <<orders, create>>
        PROVE  RequestInv'
    BY <1>b DEF RequestInv, At, Exists
  <1>1. CASE Checkout
    BY <1>1, CheckoutRequest DEF Checkout
  <1>2. CASE Customer
    <2>1. ASSUME NEW o \in Orders, ClientCancel(o), UNCHANGED create
          PROVE  RequestInv'
      BY <2>1, <1>a, RequestKept DEF ClientCancel, Exists
    <2> QED
      BY <1>2, <2>1, <1>b DEF Customer, SaveCart
  <1>3. CASE Webhook
    <2>1. ASSUME NEW d \in Deliveries, WebhookFind(d) \/ WebhookStep(d), UNCHANGED create
          PROVE  RequestInv'
      <3>1. CASE UNCHANGED orders
        BY <2>1, <3>1, <1>b
      <3>2. CASE WebhookMark(d) \/ WebhookWrite(d)
        <4>1. /\ d.order \in Orders /\ Exists(d.order) /\ UNCHANGED create
              /\ \/ MarkCreditRestored(d.order)
                 \/ \E s \in OrderStatus : UpdateOrderStatus(d.order, s)
          BY <2>1, <3>2, DeliveryReferences, PayableNotCredit
          DEF WebhookMark, WebhookWrite, IInv, WebhookInv, TypeOK, WebhookTypeOK
        <4> QED
          BY <4>1, <1>a, RequestKept
      <3> QED
        BY <2>1, <3>1, <3>2 DEF WebhookFind, WebhookStep, WebhookSavePending, WebhookFetch,
           WebhookSaveProcessed, WebhookRead, WebhookSettle, WebhookClearCart, orderVars
    <2> QED
      BY <1>3, <2>1 DEF Webhook
  <1>4. CASE AbandonedJob
    <2>1. ASSUME NEW j \in Jobs, NEW o \in Orders, JobOrderStep(j, o), UNCHANGED create
          PROVE  RequestInv'
      <3>1. Exists(o) /\ (\/ UNCHANGED orders \/ MarkCreditRestored(o)
                          \/ \E s \in OrderStatus : UpdateOrderStatus(o, s))
        BY <2>1 DEF JobOrderStep, JobCancel, JobMark, JobRelease, OrderStatus, orderVars, IInv,
           JobInv
      <3> QED
        BY <2>1, <3>1, <1>a, RequestKept
    <2> QED
      BY <1>4, <2>1, <1>b DEF AbandonedJob, JobScan, orderVars
  <1>5. CASE Administrator
    <2>1. ASSUME NEW r \in AdminRequests,
                 AdminCancelRead(r) \/ AdminStatusRequest(r) \/ AdminStep(r), UNCHANGED create
          PROVE  RequestInv'
      <3>1. /\ r.order \in Orders /\ Exists(r.order)
            /\ \/ UNCHANGED orders \/ MarkCreditRestored(r.order)
               \/ \E s \in OrderStatus : UpdateOrderStatus(r.order, s)
        BY <2>1, RequestReferences DEF AdminCancelRead, AdminStatusRequest, AdminStep,
           AdminValidate, AdminWrite, AdminMark, AdminRelease, orderVars, IInv, AdminInv
      <3> QED
        BY <2>1, <3>1, <1>a, RequestKept
    <2> QED
      BY <1>5, <2>1, <1>b DEF Administrator, AdminSetCredit, orderVars
  <1>6. CASE Provider \/ UNCHANGED vars
    BY <1>6, <1>b DEF Provider, ProviderStep, vars, orderVars
  <1>7. CASE Fault
    <2>1. ASSUME NEW o \in Orders, CreateFault(o)
          PROVE  RequestInv'
      <3>1. /\ UNCHANGED orders
            /\ create'[o].pc = IF At(o, "clearCart") THEN "done" ELSE "failed"
            /\ \A x \in Orders \ {o} : create'[x] = create[x]
        BY <2>1, <1>a DEF CreateFault, Continue, CreateTypeOK, orderVars
      <3>2. At(o, "clearCart") => Exists(o)
        BY DEF At, IInv, CheckoutInv
      <3> QED
        BY <3>1, <3>2 DEF RequestInv, At, Exists
    <2> QED
      BY <1>7, <2>1, <1>b DEF Fault, WebhookFault, JobFault, AdminFault, orderVars
  <1>8. CASE Restart
    <2>1. UNCHANGED orders /\ \A o \in Orders : create'[o].pc = "done" => create[o].pc = "done"
      BY <1>8, <1>a DEF Restart, CreateCrashed, CreateTypeOK, orderVars
    <2> QED
      BY <2>1 DEF RequestInv, At, Exists
  <1> QED
    BY <1>1, <1>2, <1>3, <1>4, <1>5, <1>6, <1>7, <1>8 DEF Next

LEMMA RequestInvariance == Spec => []RequestInv
  <1>1. Init => RequestInv
    BY DEF Init, OrderInit, CreateInit, RequestInv, At, Exists
  <1>2. IInv /\ RequestInv /\ [Next]_vars => RequestInv'
    BY NextRequest
  <1> QED
    BY <1>1, <1>2, Invariance, PTL DEF Spec

(* While handlers of one order do not overlap, whatever fails: what a      *)
(* customer's creditReserved holds at rest is the holds of the customer's  *)
(* rows and those a failure stranded, and nothing else.                    *)
THEOREM ReserveIsExplained == SerialSchedule => (Spec => []ReserveExplained)
  <1> SUFFICES ASSUME SerialSchedule PROVE Spec => []ReserveExplained
    OBVIOUS
  <1>1. IInv /\ SerialInv /\ LedgerInv /\ RequestInv => ReserveExplained
    <2> SUFFICES ASSUME IInv, SerialInv, LedgerInv, RequestInv,
                        NEW u \in Users, \A o \in OrdersOf(u) : AtRest(o)
                 PROVE  creditReserved[u] = Total(HeldForPayment, u) + Total(StrandedCredit, u)
      BY DEF ReserveExplained
    <2>1. /\ orders \in [Orders -> OrderRow] /\ ledger \in [Orders -> LedgerEntry]
          /\ Open \in Amounts /\ HeldForPayment \in Amounts /\ StrandedCredit \in Amounts
      BY OpenTyped DEF IInv, TypeOK, OrderTypeOK, CreditTypeOK, OrderRow, LedgerEntry, Held,
         HeldForPayment, StrandedCredit, Amounts
    <2>2. ASSUME NEW o \in OrdersOf(u)
          PROVE  \/ HeldForPayment[o] = 0 /\ StrandedCredit[o] = Open[o]
                 \/ StrandedCredit[o] = 0 /\ HeldForPayment[o] = Open[o]
      <3>1. o \in Orders /\ AtRest(o)
        BY DEF OrdersOf
      <3>2. /\ ledger[o].reserved \in Nat /\ orders[o].creditUsed \in Nat
            /\ orders[o].creditRestored \in BOOLEAN /\ ~AboutToSettle(o)
        BY <2>1, <3>1, NothingDue DEF OrderRow, LedgerEntry, AtRest
      <3>3. CASE ~Exists(o)
        <4>1. HeldForPayment[o] = 0 /\ ~orders[o].creditRestored
          BY <3>1, <3>3 DEF RequestInv, HeldForPayment, Held, HoldsCredit
        <4>2. ~At(o, "failed") => ledger[o].reserved = 0
          BY <3>1, <3>3 DEF RequestInv, AtRest, At, IInv, CheckoutInv
        <4>3. StrandedCredit[o] = Open[o]
          BY <3>1, <3>2, <3>3, <4>2 DEF StrandedCredit, Stranded, Open
        <4> QED
          BY <4>1, <4>3
      <3>4. CASE create[o].method = "CREDIT"
        <4>1. ledger[o].reserved = 0
          BY <3>1, <3>2, <3>4 DEF SerialInv, TakingInv
        <4> QED
          BY <3>1, <3>4, <4>1 DEF HeldForPayment, StrandedCredit, Stranded, Open
      <3>5. CASE Exists(o) /\ create[o].method # "CREDIT"
        <4>1. orders[o].creditUsed = ledger[o].reserved
          BY <3>1, <3>5, UsedIsHeld
        <4>2. CASE HoldsCredit(o)
          <5>1. Unsettled(o) /\ ~Stranded(o)
            BY <3>1, <3>5, <4>2, UnflaggedUnsettled DEF HoldsCredit, Stranded
          <5> QED
            BY <3>1, <3>5, <4>1, <4>2, <5>1 DEF HeldForPayment, Held, StrandedCredit, Open
        <4>3. CASE ~HoldsCredit(o)
          <5>1. HeldForPayment[o] = 0
            BY <3>1, <4>3 DEF HeldForPayment, Held
          <5>2. StrandedCredit[o] = Open[o]
            BY <3>1, <3>2, <4>1, <4>3 DEF HoldsCredit, StrandedCredit, Stranded, Open
          <5> QED
            BY <5>1, <5>2
        <4> QED
          BY <4>2, <4>3
      <3> QED
        BY <3>3, <3>4, <3>5
    <2>3. Apart(HeldForPayment, StrandedCredit, Open, u)
      BY <2>1, <2>2 DEF Apart, OrdersOf, Amounts
    <2>4. creditReserved[u] = Total(Open, u) /\ IsFiniteSet(Units(Open, u))
      BY ReserveIsOpen
    <2>5. Total(HeldForPayment, u) + Total(StrandedCredit, u) = Total(Open, u)
      BY <2>1, <2>2, <2>3, <2>4, TotalExactly
    <2> QED
      BY <2>4, <2>5
  <1> QED
    BY <1>1, Invariance, SerialInvariance, LedgerInvariance, RequestInvariance, PTL

(* What a step does to the holds that are stranded. *)
StrandingKept == \A x \in Orders : Stranded(x)' <=> Stranded(x)

(* A handler's step strands nothing: the hold it flags it is about to      *)
(* settle, and the one it stops being about to settle is settled.          *)
LEMMA HandlerStrands ==
    ASSUME NEW o \in Orders, StatementFor(o), MovesAt(o),
           \/ /\ ledger'[o] = ledger[o]
              /\ orders'[o].creditRestored = orders[o].creditRestored
              /\ AboutToSettle(o)' <=> AboutToSettle(o)
           \/ /\ orders[o].creditRestored => AboutToSettle(o)
              /\ AboutToSettle(o)' \/ ~Unsettled(o)'
    PROVE  StrandingKept
  <1>1. ASSUME NEW x \in Orders \ {o}
        PROVE  Stranded(x)' <=> Stranded(x)
    <2>1. AboutToSettle(x)' <=> AboutToSettle(x)
      BY DEF MovesAt, AboutToSettle
    <2> QED
      BY <2>1 DEF StatementFor, Stranded, Unsettled, Exists, At
  <1>2. Stranded(o)' <=> Stranded(o)
    BY DEF StatementFor, Stranded, Unsettled, At
  <1> QED
    BY <1>1, <1>2 DEF StrandingKept

(* A step that leaves orders, requests and every settlement in its place. *)
LEMMA QuietStrands ==
    ASSUME UNCHANGED <<orders, ledger, create>>,
           \A x \in Orders : AboutToSettle(x)' <=> AboutToSettle(x)
    PROVE  StrandingKept
  BY DEF StrandingKept, Stranded, Unsettled, Exists, At

LEMMA CheckoutStrands ==
    ASSUME IInv, SerialInv, RequestInv, NEW o \in Orders, CreateStep(o),
           UNCHANGED <<webhook, job, admin>>
    PROVE  StrandingKept
  <1>a. /\ CreateTypeOK /\ create[o].pc \in CreatePc
        /\ orders \in [Orders -> OrderRow] /\ ledger \in [Orders -> LedgerEntry]
        /\ ledger[o].reserved \in Nat
    BY DEF IInv, TypeOK, CreateTypeOK, OrderTypeOK, CreditTypeOK, LedgerEntry
  <1>b. \A x \in Orders : AboutToSettle(x)' <=> AboutToSettle(x)
    BY DEF AboutToSettle
  <1>c. \A x \in Orders \ {o} : /\ create'[x] = create[x] /\ orders'[x] = orders[x]
                                /\ ledger'[x] = ledger[x]
    <2>1. \A x \in Orders \ {o} : create'[x] = create[x]
      BY <1>a DEF CreateStep, CreateBegin, CreateDeduct, CreateReserve, CreateSave, CreateMark,
         CreateClearCart, CreatePreference, CreateSetGateway, Take, Continue, CreateTypeOK
    <2>2. \A x \in Orders \ {o} : orders'[x] = orders[x]
      BY <1>a DEF CreateStep, CreateBegin, CreateDeduct, CreateReserve, CreateSave, CreateMark,
         CreateClearCart, CreatePreference, CreateSetGateway, SaveOrder, MarkCreditRestored,
         UpdateOrderPaymentGatewayId, orderVars
    <2>3. \A x \in Orders \ {o} : ledger'[x] = ledger[x]
      BY <1>a DEF CreateStep, CreateBegin, CreateDeduct, CreateReserve, CreateSave, CreateMark,
         CreateClearCart, CreatePreference, CreateSetGateway, DeductCreditAtomic,
         DeductUnchecked, ReserveCredit, ReserveUnchecked, creditVars
    <2> QED
      BY <2>1, <2>2, <2>3
  <1>d. ASSUME Stranded(o)' <=> Stranded(o)
        PROVE  StrandingKept
    BY <1>b, <1>c, <1>d DEF StrandingKept, Stranded, Unsettled, Exists, At
  <1>1. CASE CreateBegin(o)
    BY <1>1, <1>a, <1>d DEF CreateBegin, At, IInv, CheckoutInv, Stranded, creditVars
  <1>2. CASE CreateDeduct(o) \/ CreateReserve(o)
    <2>1. /\ UNCHANGED orders /\ ~Exists(o) /\ ledger[o].reserved = 0
          /\ ~orders[o].creditRestored
      BY <1>2 DEF CreateDeduct, CreateReserve, At, IInv, CheckoutInv, RequestInv, orderVars
    <2>2. ~Stranded(o)
      BY <2>1 DEF Stranded
    <2>3. create'[o].pc = "failed" => UNCHANGED ledger
      BY <1>2, <1>a DEF CreateDeduct, CreateReserve, Continue, CreateTypeOK, creditVars
    <2>4. ~Stranded(o)'
      BY <2>1, <2>3 DEF Stranded, At
    <2> QED
      BY <1>d, <2>2, <2>4
  <1>3. CASE CreateSave(o)
    <2>1. ~Stranded(o)
      BY <1>3 DEF CreateSave, At, IInv, CheckoutInv, RequestInv, Stranded
    <2>2. ~Stranded(o)'
      BY <1>3, <1>a DEF CreateSave, SaveOrder, Exists, Stranded
    <2> QED
      BY <1>d, <2>1, <2>2
  <1>4. CASE CreateMark(o)
    <2>1. ledger[o].reserved = 0 /\ UNCHANGED ledger
      BY <1>4, <1>a DEF CreateMark, At, SerialInv, TakingInv, creditVars
    <2> QED
      BY <1>d, <2>1 DEF Stranded
  <1>5. CASE CreateClearCart(o) \/ CreatePreference(o) \/ CreateSetGateway(o)
    <2>1. Exists(o) /\ UNCHANGED ledger
      BY <1>5 DEF CreateClearCart, CreatePreference, CreateSetGateway, At, IInv, CheckoutInv,
         creditVars
    <2>2. Exists(o)' /\ orders'[o].creditRestored = orders[o].creditRestored
      BY <1>5, <1>a, <2>1 DEF CreateClearCart, CreatePreference, CreateSetGateway,
         UpdateOrderPaymentGatewayId, Exists, OrderRow, orderVars
    <2> QED
      BY <1>b, <1>d, <2>1, <2>2 DEF Stranded, Unsettled
  <1> QED
    BY <1>1, <1>2, <1>3, <1>4, <1>5 DEF CreateStep

LEMMA WebhookStrands ==
    ASSUME IInv, SerialInv, LedgerInv, NEW d \in Deliveries,
           WebhookFind(d) \/ WebhookStep(d), UNCHANGED <<create, job, admin>>
    PROVE  StrandingKept
  <1> DEFINE o == d.order
  <1>a. o \in Orders /\ webhook \in [Deliveries -> WebhookStates]
    BY DeliveryReferences DEF IInv, TypeOK, WebhookTypeOK, WebhookStates
  <1>b. Exists(o) /\ create[o].method # "CREDIT" /\ MovesAt(o)
    BY WebhookPlace
  <1>c. \A x \in Deliveries \ {d} : webhook'[x] = webhook[x]
    BY WebhookPlace
  <1>1. CASE WebhookMark(d)
    <2>1. StatementFor(o)
      BY <1>1, <1>a, <1>b, FlagStatement DEF WebhookMark
    <2>2. ~orders[o].creditRestored
      BY <1>1 DEF WebhookMark, SerialInv, WebhookDue, HoldsCredit
    <2>3. AboutToSettle(o)'
      BY <1>1, <1>a DEF WebhookMark, Resume, WebhookStates, AboutToSettle
    <2> QED
      BY <1>a, <1>b, <2>1, <2>2, <2>3, HandlerStrands
  <1>2. CASE WebhookSettle(d)
    <2>1. /\ UNCHANGED orderVars /\ webhook[d].pc = "settle" /\ AboutToSettle(o)
          /\ \/ ReleaseReservedCredit(o, orders[o].creditUsed)
             \/ ConsumeReservedCredit(o, orders[o].creditUsed)
      BY <1>2 DEF WebhookSettle, AboutToSettle
    <2>2. orders[o].creditUsed > 0 /\ Unsettled(o)
      BY <2>1 DEF SerialInv, WebhookDue
    <2>3. /\ ~Unsettled(o)' /\ ledger'[o].reserved = ledger[o].reserved
          /\ \A x \in Orders \ {o} : ledger'[x] = ledger[x]
      BY <1>a, <1>b, <2>1, <2>2, SettleStatement
    <2>4. StatementFor(o)
      BY <1>b, <2>1, <2>3 DEF StatementFor, Exists, orderVars
    <2> QED
      BY <1>a, <1>b, <2>1, <2>3, <2>4, HandlerStrands
  <1>3. CASE ~WebhookMark(d) /\ ~WebhookSettle(d)
    <2>1. webhook[d].pc # "settle" /\ webhook'[d].pc # "settle"
      BY <1>3, <1>a DEF WebhookFind, WebhookStep, WebhookSavePending, WebhookFetch,
         WebhookSaveProcessed, WebhookRead, WebhookWrite, WebhookClearCart, Resume,
         WebhookStates
    <2>2. AboutToSettle(o)' <=> AboutToSettle(o)
      BY <1>c, <2>1 DEF AboutToSettle
    <2>3. CASE WebhookWrite(d)
      <3>1. /\ webhook[d].status \in OrderStatus
            /\ UpdateOrderStatus(o, webhook[d].status) /\ UNCHANGED creditVars
        BY <2>3, <1>a DEF WebhookWrite, WebhookStates, IInv, WebhookInv
      <3>2. /\ StatementFor(o) /\ UNCHANGED ledger
            /\ orders'[o].creditRestored = orders[o].creditRestored
        BY <1>a, <1>b, <3>1, StatusStatement
      <3> QED
        BY <1>a, <1>b, <2>2, <3>2, HandlerStrands
    <2>4. CASE ~WebhookWrite(d)
      <3>1. UNCHANGED <<orders, creditVars>>
        BY <1>3, <2>4 DEF WebhookFind, WebhookStep, WebhookSavePending, WebhookFetch,
           WebhookSaveProcessed, WebhookRead, WebhookClearCart, orderVars
      <3>2. StatementFor(o) /\ UNCHANGED ledger
        BY <1>b, <3>1 DEF StatementFor, Exists, creditVars
      <3> QED
        BY <1>a, <1>b, <2>2, <3>1, <3>2, HandlerStrands
    <2> QED
      BY <2>3, <2>4
  <1> QED
    BY <1>1, <1>2, <1>3

LEMMA JobStrands ==
    ASSUME IInv, SerialInv, LedgerInv, NEW j \in Jobs, NEW o \in Orders, JobOrderStep(j, o),
           UNCHANGED <<create, webhook, admin>>
    PROVE  StrandingKept
  <1>1. PICK pc \in {"none", "mark", "release"} :
           /\ Move(j, o, pc) /\ job[j][o] # "none"
           /\ job[j][o] = "listed" => pc = "mark"
           /\ job[j][o] = "mark" => pc = "release"
    BY DEF JobOrderStep, JobCancel, JobMark, JobRelease
  <1>2. /\ job'[j][o] = pc
        /\ \A k \in Jobs, x \in Orders : <<k, x>> # <<j, o>> => job'[k][x] = job[k][x]
    BY <1>1, JobMoved DEF IInv, TypeOK
  <1>3. Exists(o) /\ create[o].method # "CREDIT" /\ MovesAt(o)
    BY <1>1, <1>2 DEF IInv, JobInv, MovesAt
  <1>4. CASE JobCancel(j, o)
    <2>1. /\ StatementFor(o) /\ UNCHANGED ledger
          /\ orders'[o].creditRestored = orders[o].creditRestored
      BY <1>3, <1>4, StatusStatement DEF JobCancel, OrderStatus
    <2>2. AboutToSettle(o)' <=> AboutToSettle(o)
      BY <1>1, <1>2, <1>4 DEF JobCancel, AboutToSettle
    <2> QED
      BY <1>3, <2>1, <2>2, HandlerStrands
  <1>5. CASE JobMark(j, o)
    <2>1. StatementFor(o) /\ ~orders[o].creditRestored
      BY <1>3, <1>5, FlagStatement DEF JobMark, SerialInv, JobDue, HoldsCredit
    <2>2. AboutToSettle(o)'
      BY <1>1, <1>2, <1>5 DEF JobMark, AboutToSettle
    <2> QED
      BY <1>3, <2>1, <2>2, HandlerStrands
  <1>6. CASE JobRelease(j, o)
    <2>1. /\ orders[o].creditUsed > 0 /\ Unsettled(o) /\ AboutToSettle(o)
          /\ ReleaseReservedCredit(o, orders[o].creditUsed) /\ UNCHANGED orderVars
      BY <1>6 DEF JobRelease, SerialInv, JobDue, AboutToSettle
    <2>2. /\ ~Unsettled(o)' /\ ledger'[o].reserved = ledger[o].reserved
          /\ \A x \in Orders \ {o} : ledger'[x] = ledger[x]
      BY <1>3, <2>1, SettleStatement
    <2>3. StatementFor(o)
      BY <1>3, <2>1, <2>2 DEF StatementFor, Exists, orderVars
    <2> QED
      BY <1>3, <2>1, <2>2, <2>3, HandlerStrands
  <1> QED
    BY <1>4, <1>5, <1>6 DEF JobOrderStep

(* Where failures occur no administrator cancels, so none is about to flag *)
(* or to release.                                                          *)
LEMMA AdminStrands ==
    ASSUME IInv, \A q \in AdminRequests : q.endpoint = "status", NEW r \in AdminRequests,
           AdminCancelRead(r) \/ AdminStatusRequest(r) \/ AdminStep(r),
           UNCHANGED <<create, webhook, job>>
    PROVE  StrandingKept
  <1> DEFINE o == r.order
  <1>a. o \in Orders /\ r.status \in OrderStatus /\ AdminTypeOK
    BY RequestReferences DEF IInv, TypeOK
  <1>1. \A q \in AdminRequests : admin[q] \notin {"mark", "release"}
    BY DEF IInv, AdminInv
  <1>2. /\ AdminStatusRequest(r) \/ AdminValidate(r) \/ AdminWrite(r)
        /\ \E pc \in {"done", "validate", "write"} : Go(r, pc)
    BY <1>1 DEF AdminCancelRead, AdminStatusRequest, AdminStep, AdminValidate, AdminWrite,
       AdminMark, AdminRelease
  <1>3. \A q \in AdminRequests : /\ q # r => admin'[q] = admin[q]
                                 /\ admin'[q] # "release"
    BY <1>1, <1>2, <1>a DEF Go, AdminTypeOK
  <1>4. \A x \in Orders : AboutToSettle(x)' <=> AboutToSettle(x)
    BY <1>1, <1>3 DEF AboutToSettle
  <1>5. CASE AdminWrite(r)
    <2>1. Exists(o) /\ UpdateOrderStatus(o, r.status) /\ UNCHANGED creditVars
      BY <1>5 DEF AdminWrite, IInv, AdminInv
    <2>2. /\ StatementFor(o) /\ UNCHANGED ledger
          /\ orders'[o].creditRestored = orders[o].creditRestored
      BY <1>a, <2>1, StatusStatement
    <2>3. MovesAt(o)
      BY <1>3 DEF MovesAt
    <2> QED
      BY <1>a, <1>4, <2>2, <2>3, HandlerStrands
  <1>6. CASE AdminStatusRequest(r) \/ AdminValidate(r)
    BY <1>4, <1>6, QuietStrands DEF AdminStatusRequest, AdminValidate, creditVars, orderVars
  <1> QED
    BY <1>2, <1>5, <1>6

LEMMA ClientStrands ==
    ASSUME IInv, SerialInv, LedgerInv, NEW o \in Orders, ClientCancel(o),
           UNCHANGED <<create, webhook, job>>
    PROVE  StrandingKept
  <1>1. /\ Exists(o) /\ create[o].method # "CREDIT" /\ UNCHANGED admin
        /\ orders[o].creditUsed \in Nat
        /\ orders[o].creditUsed = ledger[o].reserved
        /\ MovesAt(o)
    BY PayableNotCredit, UsedIsHeld DEF ClientCancel, IInv, TypeOK, OrderTypeOK, OrderRow, MovesAt
  <1>2. /\ Exists(o)' /\ orders'[o].creditRestored
        /\ orders'[o].creditUsed = orders[o].creditUsed
        /\ \A x \in Orders \ {o} : orders'[x] = orders[x]
    BY DEF ClientCancel, Exists, IInv, TypeOK, OrderTypeOK, OrderRow
  <1>3. AboutToSettle(o)' <=> AboutToSettle(o)
    BY <1>1 DEF AboutToSettle
  <1>4. CASE HoldsCredit(o)
    <2>1. RefundHold(o, orders[o].creditUsed)
      BY <1>4 DEF ClientCancel
    <2>2. /\ ~Unsettled(o)' /\ ledger'[o].reserved = ledger[o].reserved
          /\ \A x \in Orders \ {o} : ledger'[x] = ledger[x]
      BY <1>1, <1>4, <2>1, SettleStatement, UnflaggedUnsettled DEF HoldsCredit
    <2>3. StatementFor(o)
      BY <1>1, <1>2, <2>2 DEF StatementFor
    <2> QED
      BY <1>1, <1>4, <2>2, <2>3, HandlerStrands DEF HoldsCredit
  <1>5. CASE ~HoldsCredit(o)
    <2>1. UNCHANGED ledger
      BY <1>5 DEF ClientCancel, creditVars
    <2>2. StatementFor(o)
      BY <1>1, <1>2, <2>1 DEF StatementFor
    <2>3. CASE orders[o].creditRestored
      <3>1. orders'[o].creditRestored = orders[o].creditRestored
        BY <1>2, <2>3 DEF ClientCancel, IInv, TypeOK, OrderTypeOK, OrderRow
      <3> QED
        BY <1>1, <1>3, <2>1, <2>2, <3>1, HandlerStrands
    <2>4. CASE ledger[o].reserved = 0
      <3>1. \A x \in Orders \ {o} : Stranded(x)' <=> Stranded(x)
        <4>1. \A x \in Orders : AboutToSettle(x)' <=> AboutToSettle(x)
          BY <1>1 DEF AboutToSettle
        <4> QED
          BY <4>1, <2>2 DEF StatementFor, Stranded, Unsettled, Exists, At
      <3>2. ~Stranded(o) /\ ~Stranded(o)'
        BY <2>1, <2>4 DEF Stranded
      <3> QED
        BY <3>1, <3>2 DEF StrandingKept
    <2> QED
      BY <1>1, <1>5, <2>3, <2>4 DEF HoldsCredit
  <1> QED
    BY <1>4, <1>5

(* Where nothing fails nothing is stranded. *)
LEMMA NothingStranded ==
    ASSUME FaultFreeInv, NEW o \in Orders
    PROVE  ~Stranded(o)
  BY DEF FaultFreeInv, CheckoutTidy, FlaggedSettled, Stranded, At

(* Only a failure or a restart strands a hold, and they free none. *)
LEMMA FailureStrands ==
    ASSUME IInv, Fault \/ Restart, NEW o \in Orders, Stranded(o)
    PROVE  Stranded(o)' /\ faults' # faults
  <1>a. /\ CreateTypeOK /\ AdminTypeOK /\ JobTypeOK /\ WebhookTypeOK /\ faults \in Nat
    BY FaultAssumption DEF IInv, TypeOK
  <1>1. UNCHANGED <<orders, ledger>> /\ faults' # faults
    BY <1>a DEF Fault, Restart, CreateFault, WebhookFault, JobFault, AdminFault, creditVars,
       orderVars
  <1>2. At(o, "failed") => At(o, "failed")'
    <2>1. ASSUME NEW x \in Orders, CreateFault(x), At(o, "failed")
          PROVE  At(o, "failed")'
      BY <2>1, <1>a DEF CreateFault, Continue, At, CreateTypeOK
    <2>2. CASE Restart
      BY <2>2, <1>a DEF Restart, CreateCrashed, At, CreateTypeOK
    <2> QED
      BY <2>1, <2>2 DEF Fault, At
  <1>3. AboutToSettle(o)' => AboutToSettle(o)
    <2>1. \A d \in Deliveries : webhook'[d].pc = "settle" => webhook[d].pc = "settle"
      BY <1>a DEF Fault, WebhookFault, Resume, WebhookTypeOK, Restart, WebhookCrashed, CreateFault,
         webhookVars
    <2>2. \A j \in Jobs : job'[j][o] = "release" => job[j][o] = "release"
      BY <1>a DEF Fault, JobFault, Move, JobTypeOK, Restart, JobCrashed
    <2>3. \A r \in AdminRequests : admin'[r] = "release" => admin[r] = "release"
      BY <1>a DEF Fault, AdminFault, Go, AdminTypeOK, Restart, AdminCrashed
    <2> QED
      BY <2>1, <2>2, <2>3 DEF AboutToSettle
  <1> QED
    BY <1>1, <1>2, <1>3 DEF Stranded, Unsettled, Exists

(* A failure is what it takes: steps of handlers, whatever they meet, keep *)
(* the set of stranded holds.                                              *)
LEMMA NextStrands ==
    ASSUME IInv, SerialInv, LedgerInv, RequestInv, [Next]_vars, ~Fault, ~Restart,
           \A q \in AdminRequests : q.endpoint = "status"
    PROVE  StrandingKept
  <1>1. CASE Checkout
    BY <1>1, CheckoutStrands DEF Checkout, webhookVars
  <1>2. CASE Customer
    <2>1. ASSUME NEW u \in Users, SaveCart(u), UNCHANGED <<creditVars, create, webhook, job, admin>>
          PROVE  StrandingKept
      BY <2>1, QuietStrands DEF SaveCart, creditVars, AboutToSettle
    <2> QED
      BY <1>2, <2>1, ClientStrands DEF Customer, webhookVars
  <1>3. CASE Webhook
    BY <1>3, WebhookStrands DEF Webhook
  <1>4. CASE AbandonedJob
    <2>1. ASSUME NEW j \in Jobs, NEW old \in SUBSET Orders, JobScan(j, old),
                 UNCHANGED <<create, payments, webhookVars, admin, faults>>
          PROVE  StrandingKept
      <3>1. \A k \in Jobs, x \in Orders : job'[k][x] = "release" <=> job[k][x] = "release"
        BY <2>1 DEF JobScan, Finished, IInv, TypeOK, JobTypeOK
      <3>2. \A x \in Orders : AboutToSettle(x)' <=> AboutToSettle(x)
        BY <2>1, <3>1 DEF AboutToSettle, webhookVars
      <3> QED
        BY <2>1, <3>2, QuietStrands DEF JobScan, creditVars, orderVars
    <2> QED
      BY <1>4, <2>1, JobStrands DEF AbandonedJob, webhookVars
  <1>5. CASE Administrator
    <2>1. ASSUME NEW u \in Users, NEW x \in CreditGrants, AdminSetCredit(u, x),
                 UNCHANGED <<orderVars, admin>>,
                 UNCHANGED <<create, payments, webhookVars, job, faults>>
          PROVE  StrandingKept
      BY <2>1, QuietStrands DEF AdminSetCredit, orderVars, webhookVars, AboutToSettle
    <2> QED
      BY <1>5, <2>1, AdminStrands DEF Administrator, webhookVars
  <1>6. CASE Provider \/ UNCHANGED vars
    <2>1. UNCHANGED <<orders, ledger, create, webhook, job, admin>>
      BY <1>6 DEF Provider, ProviderStep, vars, creditVars, orderVars, webhookVars
    <2> QED
      BY <2>1, QuietStrands DEF AboutToSettle
  <1> QED
    BY <1>1, <1>2, <1>3, <1>4, <1>5, <1>6 DEF Next

(* While handlers of one order do not overlap, only a failing statement or *)
(* a restart strands a hold, and no handler gives a stranded one back.     *)
THEOREM HoldsStrandedByFailure == SerialSchedule => (Spec => StrandedOnlyByFailure)
  <1> SUFFICES ASSUME SerialSchedule PROVE Spec => StrandedOnlyByFailure
    OBVIOUS
  <1> DEFINE Step == \A o \in Orders :
                        /\ ~Stranded(o) /\ Stranded(o)' => faults' # faults
                        /\ Stranded(o) => Stranded(o)'
  <1>1. CASE FaultFree
    <2>1. FaultFreeInv /\ FaultFreeInv' => Step
      <3>1. FaultFreeInv' => \A o \in Orders : ~Stranded(o)'
        BY DEF FaultFreeInv, CheckoutTidy, FlaggedSettled, Stranded, At
      <3> QED
        BY <3>1, NothingStranded
    <2> HIDE DEF Step
    <2>2. Spec => [][Step]_vars
      BY <1>1, <2>1, TidyInvariance, PTL DEF Spec
    <2> QED
      BY <2>2 DEF StrandedOnlyByFailure, Step
  <1>2. CASE ~FaultFree
    <2>1. \A q \in AdminRequests : q.endpoint = "status"
      BY <1>2 DEF FaultFree, SerialSchedule, CancelsSafely
    <2>2. IInv /\ SerialInv /\ LedgerInv /\ RequestInv /\ [Next]_vars => [Step]_vars
      <3> SUFFICES ASSUME IInv, SerialInv, LedgerInv, RequestInv, [Next]_vars PROVE Step
        OBVIOUS
      <3>1. CASE Fault \/ Restart
        <4>1. faults' # faults
          BY <3>1, FaultAssumption DEF Fault, Restart, IInv, TypeOK
        <4> QED
          BY <3>1, <4>1, FailureStrands
      <3>2. CASE ~Fault /\ ~Restart
        BY <2>1, <3>2, NextStrands DEF StrandingKept
      <3> QED
        BY <3>1, <3>2
    <2> HIDE DEF Step
    <2>3. Spec => [][Step]_vars
      BY <2>2, Invariance, SerialInvariance, LedgerInvariance, RequestInvariance, PTL DEF Spec
    <2> QED
      BY <2>3 DEF StrandedOnlyByFailure, Step
  <1> QED
    BY <1>1, <1>2
=============================================================================
