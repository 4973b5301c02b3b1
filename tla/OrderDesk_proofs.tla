-------------------------- MODULE OrderDesk_proofs ---------------------------
(***************************************************************************)
(* The order of an item's steps, that only paid orders are worked off,     *)
(* and that an order is complete, sold at the price shown and charged in   *)
(* full, proved for any number of checkouts, lines and administrators.     *)
(***************************************************************************)
EXTENDS OrderDesk, Functions, FiniteSetTheorems, WellFoundedInduction, TLAPS

(* How one step may change the saved items: not at all, by a new item that *)
(* has just been received, or by another detail of an item.                *)
NewItem(r) ==
    \E row \in ItemRow :
        /\ row.fulfillmentStatus = "ORDER_RECEIVED"
        /\ lines' = [lines EXCEPT ![r] = Append(@, row)]

NewDetail(r) ==
    \E i \in DOMAIN lines[r], ds \in SUBSET Details : lines' = [lines EXCEPT ![r][i].details = ds]

(* A line of a cart in progress is one the storefront offers.              *)
LEMMA LineOffered ==
    ASSUME LinesTypeOK, NEW r \in Requests, LinesLeft(r)
    PROVE  Line(r) \in Lines
<1>1. request[r].cart \in Carts \cup {<< >>} /\ request[r].line \in Nat \ {0}
    BY DEF LinesTypeOK, RequestState
<1>2. request[r].cart # << >>
    BY <1>1 DEF LinesLeft
<1>3. request[r].cart \in Seq(Lines)
    BY <1>1, <1>2, LineAssumption
<1> QED
    BY <1>1, <1>3 DEF LinesLeft, Line

LEMMA LinesStep ==
    ASSUME LinesTypeOK, LinesNext
    PROVE  /\ request' \in [Requests -> RequestState]
           /\ lines' = lines \/ \E r \in Requests : NewItem(r) \/ NewDetail(r)
<1> USE DEF LinesTypeOK, At
<1>1. ASSUME NEW r \in Requests, OrderStart(r)
      PROVE  request' \in [Requests -> RequestState] /\ lines' = lines
    <2>1. PICK cart \in Carts, shipping \in Addresses \cup {Null} :
             request' = [request EXCEPT ![r] =
                [pc |-> "pricing", cart |-> cart, shipping |-> shipping, line |-> 1, details |-> {}]]
        BY <1>1 DEF OrderStart
    <2>2. [pc |-> "pricing", cart |-> cart, shipping |-> shipping, line |-> 1, details |-> {}]
            \in RequestState
        BY DEF RequestState
    <2> QED
        BY <1>1, <2>1, <2>2 DEF OrderStart
<1>2. ASSUME NEW r \in Requests, OrderPriceLine(r)
      PROVE  request' \in [Requests -> RequestState] /\ lines' = lines
    <2>1. \/ request' = [request EXCEPT ![r].line = @ + 1]
          \/ request' = [request EXCEPT ![r].pc = "refused"]
        BY <1>2 DEF OrderPriceLine
    <2>2. CASE request' = [request EXCEPT ![r].line = @ + 1]
        <3>1. request[r].line \in Nat \ {0}
            BY DEF RequestState
        <3>2. request[r].line + 1 \in Nat \ {0}
            BY <3>1
        <3>3. request' \in [Requests -> RequestState]
            BY <2>2, <3>2 DEF RequestState
        <3> QED
            BY <1>2, <3>3 DEF OrderPriceLine
    <2>3. CASE request' = [request EXCEPT ![r].pc = "refused"]
        <3>1. request' \in [Requests -> RequestState]
            BY <2>3 DEF RequestState
        <3> QED
            BY <1>2, <3>1 DEF OrderPriceLine
    <2> QED
        BY <2>1, <2>2, <2>3
<1>3. ASSUME NEW r \in Requests, OrderCheckAddress(r)
      PROVE  request' \in [Requests -> RequestState] /\ lines' = lines
    BY ZenonT(40), <1>3 DEF OrderCheckAddress, RequestState
<1>4. ASSUME NEW r \in Requests, OrderWriteAddress(r)
      PROVE  request' \in [Requests -> RequestState] /\ lines' = lines
    BY <1>4 DEF OrderWriteAddress, RequestState
<1>5. ASSUME NEW r \in Requests, OrderSaveRow(r)
      PROVE  request' \in [Requests -> RequestState] /\ lines' = lines
    <2>1. request' = [request EXCEPT ![r].pc = "saving", ![r].line = 1]
        BY <1>5 DEF OrderSaveRow
    <2>2. 1 \in Nat \ {0}
        OBVIOUS
    <2>3. request' \in [Requests -> RequestState]
        BY ZenonT(40), <2>1, <2>2 DEF RequestState
    <2> QED
        BY <1>5, <2>3 DEF OrderSaveRow
<1>6. ASSUME NEW r \in Requests, OrderSaveItem(r)
      PROVE  request' \in [Requests -> RequestState] /\ NewItem(r)
    <2> DEFINE row == [productId |-> Line(r).productId, productType |-> Line(r).productType,
                       itemPrice |-> Line(r).totalPrice, quantity |-> Line(r).quantity,
                       fulfillmentStatus |-> "ORDER_RECEIVED", details |-> {}]
    <2>1. Line(r) \in Lines
        BY <1>6, LineOffered DEF OrderSaveItem, Saving
    <2>2. row \in ItemRow
        BY <2>1, LineAssumption DEF ItemRow, FulfillmentStatus
    <2>3. DetailRows(Line(r).selection) \in SUBSET Details
        BY <2>1 DEF Details
    <2>4. request' = [request EXCEPT ![r].details = DetailRows(Line(r).selection)]
        BY <1>6 DEF OrderSaveItem
    <2>5. request' \in [Requests -> RequestState]
        BY <2>3, <2>4 DEF RequestState
    <2>6. lines' = [lines EXCEPT ![r] = Append(@, row)] /\ row.fulfillmentStatus = "ORDER_RECEIVED"
        BY <1>6 DEF OrderSaveItem
    <2> QED
        BY <2>2, <2>5, <2>6 DEF NewItem
<1>7. ASSUME NEW r \in Requests, OrderSaveDetail(r)
      PROVE  request' \in [Requests -> RequestState] /\ NewDetail(r)
    <2>1. PICK d \in request[r].details :
             /\ lines' = [lines EXCEPT ![r][request[r].line].details = @ \cup {d}]
             /\ request' = [request EXCEPT ![r].details = request[r].details \ {d},
                               ![r].line = IF request[r].details \ {d} = {} THEN @ + 1 ELSE @]
        BY <1>7 DEF OrderSaveDetail
    <2>2. request[r].details \in SUBSET Details /\ request[r].line \in Nat \ {0}
        BY DEF RequestState
    <2>3. request' \in [Requests -> RequestState]
        <3>1. /\ request[r].details \ {d} \in SUBSET Details
              /\ (IF request[r].details \ {d} = {} THEN request[r].line + 1 ELSE request[r].line)
                    \in Nat \ {0}
            BY <2>2
        <3>2. [request[r] EXCEPT !.details = request[r].details \ {d},
                  !.line = IF request[r].details \ {d} = {} THEN @ + 1 ELSE @] \in RequestState
            BY <3>1 DEF RequestState
        <3> QED
            BY <2>1, <3>2
    <2>4. request[r].line \in DOMAIN lines[r]
        <3>1. lines[r] \in Seq(ItemRow) /\ Len(lines[r]) = request[r].line
            BY <1>7 DEF OrderSaveDetail
        <3> QED
            BY <2>2, <3>1
    <2>5. lines[r][request[r].line].details \cup {d} \in SUBSET Details
        <3>1. lines[r] \in Seq(ItemRow)
            OBVIOUS
        <3>2. lines[r][request[r].line] \in ItemRow
            BY <2>4, <3>1
        <3>3. lines[r][request[r].line].details \in SUBSET Details
            BY <3>2 DEF ItemRow
        <3> QED
            BY <2>2, <3>3
    <2> QED
        BY <2>1, <2>3, <2>4, <2>5 DEF NewDetail
<1>8. ASSUME NEW r \in Requests, OrderAnswer(r)
      PROVE  request' \in [Requests -> RequestState] /\ lines' = lines
    BY <1>8 DEF OrderAnswer, RequestState
<1>9. ASSUME NEW r \in Requests, OrderFail(r)
      PROVE  request' \in [Requests -> RequestState] /\ lines' = lines
    BY <1>9 DEF OrderFail, RequestState
<1>10. ASSUME NEW r \in Requests, PaymentMoves(r)
       PROVE  request' \in [Requests -> RequestState] /\ lines' = lines
    BY <1>10 DEF PaymentMoves
<1>11. ASSUME Revise
       PROVE  request' \in [Requests -> RequestState] /\ lines' = lines
    BY <1>11 DEF Revise
<1> QED
    BY <1>1, <1>2, <1>3, <1>4, <1>5, <1>6, <1>7, <1>8, <1>9, <1>10, <1>11 DEF LinesNext

-----------------------------------------------------------------------------
(* The items keep their number, types and statuses.                        *)
ItemsKept ==
    /\ lines' \in [Requests -> Seq(ItemRow)]
    /\ \A r \in Requests :
          /\ Len(lines'[r]) = Len(lines[r]) /\ DOMAIN lines'[r] = DOMAIN lines[r]
          /\ \A i \in DOMAIN lines[r] :
                /\ lines'[r][i].productType = lines[r][i].productType
                /\ lines'[r][i].fulfillmentStatus = lines[r][i].fulfillmentStatus

LEMMA DetailKeepsItems ==
    ASSUME LinesTypeOK, NEW r \in Requests, NewDetail(r)
    PROVE  ItemsKept
<1>1. PICK i \in DOMAIN lines[r], ds \in SUBSET Details : lines' = [lines EXCEPT ![r][i].details = ds]
    BY DEF NewDetail
<1>2. lines[r] \in Seq(ItemRow) /\ lines[r][i] \in ItemRow
    BY DEF LinesTypeOK
<1> DEFINE row == [lines[r][i] EXCEPT !.details = ds]
<1>3. /\ row \in ItemRow
      /\ row.productType = lines[r][i].productType
      /\ row.fulfillmentStatus = lines[r][i].fulfillmentStatus
    BY <1>2 DEF ItemRow
<1>4. lines' = [lines EXCEPT ![r] = [lines[r] EXCEPT ![i] = row]]
    BY <1>1
<1> HIDE DEF row
<1>5. [lines[r] EXCEPT ![i] = row] \in Seq(ItemRow)
    BY <1>2, <1>3
<1>6. lines \in [Requests -> Seq(ItemRow)]
    BY DEF LinesTypeOK
<1>7. lines' \in [Requests -> Seq(ItemRow)]
    BY <1>4, <1>5, <1>6
<1>8. ASSUME NEW q \in Requests
      PROVE  /\ Len(lines'[q]) = Len(lines[q]) /\ DOMAIN lines'[q] = DOMAIN lines[q]
             /\ \A j \in DOMAIN lines[q] :
                   /\ lines'[q][j].productType = lines[q][j].productType
                   /\ lines'[q][j].fulfillmentStatus = lines[q][j].fulfillmentStatus
    <2>1. CASE q # r
        BY <1>4, <1>6, <2>1
    <2>2. CASE q = r
        <3>1. lines'[q] = [lines[r] EXCEPT ![i] = row]
            BY <1>4, <1>6, <2>2
        <3> QED
            BY <1>2, <1>3, <1>5, <2>2, <3>1
    <2> QED
        BY <2>1, <2>2
<1> QED
    BY <1>7, <1>8 DEF ItemsKept

LEMMA NewItemAppends ==
    ASSUME LinesTypeOK, NEW r \in Requests, NewItem(r)
    PROVE  /\ lines' \in [Requests -> Seq(ItemRow)]
           /\ \A q \in Requests \ {r} : lines'[q] = lines[q]
           /\ Len(lines[r]) \in Nat /\ Len(lines'[r]) = Len(lines[r]) + 1
           /\ DOMAIN lines[r] = 1 .. Len(lines[r])
           /\ DOMAIN lines'[r] = 1 .. Len(lines[r]) + 1
           /\ \A i \in DOMAIN lines[r] : lines'[r][i] = lines[r][i]
           /\ lines'[r][Len(lines[r]) + 1].fulfillmentStatus = "ORDER_RECEIVED"
<1>1. PICK row \in ItemRow : row.fulfillmentStatus = "ORDER_RECEIVED"
                             /\ lines' = [lines EXCEPT ![r] = Append(@, row)]
    BY DEF NewItem
<1>2. lines \in [Requests -> Seq(ItemRow)] /\ lines[r] \in Seq(ItemRow)
    BY DEF LinesTypeOK
<1>3. Append(lines[r], row) \in Seq(ItemRow)
    BY <1>1, <1>2
<1>4. lines'[r] = Append(lines[r], row)
    BY <1>1, <1>2
<1>5. lines' \in [Requests -> Seq(ItemRow)] /\ \A q \in Requests \ {r} : lines'[q] = lines[q]
    BY <1>1, <1>2, <1>3
<1> QED
    BY <1>1, <1>2, <1>4, <1>5

(* A transition leads from one step shown to the customer to the next.     *)
LEMMA StepFollows ==
    ASSUME NEW t \in Flags, NEW s \in FulfillmentStatus, NEW n \in FULFILLMENT_TRANSITIONS[t][s]
    PROVE  /\ n \in FulfillmentStatus /\ n # "ORDER_RECEIVED"
           /\ \E k \in 1 .. Len(FULFILLMENT_STEPS[t]) : n = FULFILLMENT_STEPS[t][k]
           /\ \A k \in 2 .. Len(FULFILLMENT_STEPS[t]) :
                 FULFILLMENT_STEPS[t][k] = n => FULFILLMENT_STEPS[t][k - 1] = s
<1>1. CASE t = "DIGITAL_FILES"
    <2>1. FULFILLMENT_STEPS[t] = <<"ORDER_RECEIVED", "PHOTOS_SEPARATED", "SENT">>
        BY <1>1 DEF FULFILLMENT_STEPS
    <2>2. n \in DigitalTransitions[s]
        BY <1>1 DEF FULFILLMENT_TRANSITIONS
    <2>3. \/ s = "ORDER_RECEIVED" /\ n = "PHOTOS_SEPARATED"
          \/ s = "PHOTOS_SEPARATED" /\ n = "SENT"
        BY <2>2 DEF DigitalTransitions, FulfillmentStatus
    <2> QED
        BY <2>1, <2>3 DEF FulfillmentStatus
<1>2. CASE t \in {"ALBUM", "GENERIC"}
    <2>1. FULFILLMENT_STEPS[t] = ManufacturedSteps
        BY <1>2 DEF FULFILLMENT_STEPS
    <2>2. n \in ManufacturedTransitions[s]
        BY <1>2 DEF FULFILLMENT_TRANSITIONS
    <2>3. \/ s = "ORDER_RECEIVED" /\ n = "PHOTOS_SEPARATED"
          \/ s = "PHOTOS_SEPARATED" /\ n = "PRODUCT_MANUFACTURED"
          \/ s = "PRODUCT_MANUFACTURED" /\ n = "IN_TRANSIT"
          \/ s = "IN_TRANSIT" /\ n = "DELIVERED"
        BY <2>2 DEF ManufacturedTransitions, FulfillmentStatus
    <2> QED
        BY <2>1, <2>3 DEF FulfillmentStatus, ManufacturedSteps
<1> QED
    BY <1>1, <1>2 DEF Flags

LEMMA FirstStep ==
    ASSUME NEW t \in Flags
    PROVE  /\ 1 \in 1 .. Len(FULFILLMENT_STEPS[t]) /\ FULFILLMENT_STEPS[t][1] = "ORDER_RECEIVED"
           /\ \A k \in 2 .. Len(FULFILLMENT_STEPS[t]) : FULFILLMENT_STEPS[t][k] # "ORDER_RECEIVED"
<1>1. CASE t = "DIGITAL_FILES"
    <2>1. FULFILLMENT_STEPS[t] = <<"ORDER_RECEIVED", "PHOTOS_SEPARATED", "SENT">>
        BY <1>1 DEF FULFILLMENT_STEPS
    <2> QED
        BY <2>1
<1>2. CASE t \in {"ALBUM", "GENERIC"}
    <2>1. FULFILLMENT_STEPS[t] = ManufacturedSteps
        BY <1>2 DEF FULFILLMENT_STEPS
    <2> QED
        BY <2>1 DEF ManufacturedSteps
<1> QED
    BY <1>1, <1>2 DEF Flags

-----------------------------------------------------------------------------
LEMMA InitInv == Init => FulfilInv
<1> SUFFICES ASSUME Init PROVE FulfilInv
    OBVIOUS
<1> USE DEF Init, LinesInit, FulfilInit
<1>1. Idle \in RequestState
    <2>1. 1 \in Nat \ {0} /\ {} \in SUBSET Details
        OBVIOUS
    <2> QED
        BY <2>1 DEF Idle, RequestState
<1>2. LinesTypeOK
    BY <1>1 DEF LinesTypeOK, EditState
<1>3. \A r \in Requests : DOMAIN lines[r] = {}
    OBVIOUS
<1>4. ReachedOK /\ StepsInOrder /\ AdvancedOnlyIfPaid
    BY <1>3 DEF ReachedOK, StepsInOrder, AdvancedOnlyIfPaid
<1>5. EditOK /\ PaidKnown
    BY DEF EditOK, PaidKnown, Saved
<1> QED
    BY <1>2, <1>4, <1>5 DEF FulfilInv

(* A checkout's step: items stay as they are, or one new item begins.      *)
LEMMA CheckoutInv ==
    ASSUME FulfilInv,
           LinesNext,
           paid' = paid \cup {r \in Requests : orders'[r] # Null /\ Paid(orders'[r].paymentStatus)},
           reached' = reached \cup
             {<<r, Len(lines'[r]), "ORDER_RECEIVED">> : r \in {q \in Requests : Len(lines'[q]) > Len(lines[q])}},
           UNCHANGED <<edit, overtaken>>
    PROVE  FulfilInv'
<1>1. LinesTypeOK
    BY DEF FulfilInv
<1>2. /\ request' \in [Requests -> RequestState]
      /\ lines' = lines \/ \E r \in Requests : NewItem(r) \/ NewDetail(r)
    BY <1>1, LinesStep
<1>3. PaidKnown' /\ paid \subseteq paid' /\ paid' \subseteq Requests
    BY <1>1 DEF PaidKnown, Saved, LinesTypeOK
<1>4. edit' \in [Admins -> EditState]
    BY <1>1 DEF LinesTypeOK
<1>5. CASE ItemsKept
    <2>1. LinesTypeOK'
        BY <1>2, <1>3, <1>4, <1>5 DEF LinesTypeOK, ItemsKept
    <2>2. \A r \in Requests : lines[r] \in Seq(ItemRow)
        BY <1>1 DEF LinesTypeOK
    <2>3. reached' = reached
        BY <1>5, <2>2 DEF ItemsKept
    <2>4. ReachedOK'
        BY <1>5, <2>3 DEF FulfilInv, ReachedOK, ItemsKept
    <2>5. EditOK'
        <3> SUFFICES ASSUME NEW a \in Admins, NEW e \in EditState, edit[a] = e, e # NoEdit
                     PROVE  Begun(a, e.order, e.item, e.target)'
            BY <1>1 DEF EditOK, LinesTypeOK
        <3>1. e.order \in Requests /\ Begun(a, e.order, e.item, e.target)
            BY DEF FulfilInv, EditOK, EditState
        <3> QED
            BY ZenonT(40), <1>3, <1>5, <2>3, <3>1 DEF Begun, ItemsKept
    <2>6. StepsInOrder'
        BY <1>5, <2>3 DEF FulfilInv, StepsInOrder, Had, ItemsKept
    <2>7. AdvancedOnlyIfPaid'
        BY <1>3, <1>5 DEF FulfilInv, AdvancedOnlyIfPaid, ItemsKept
    <2> QED
        BY <1>3, <2>1, <2>4, <2>5, <2>6, <2>7 DEF FulfilInv
<1>6. ASSUME NEW r \in Requests, NewItem(r)
      PROVE  FulfilInv'
    <2> DEFINE n == Len(lines[r]) + 1
    <2>1. /\ lines' \in [Requests -> Seq(ItemRow)]
          /\ \A q \in Requests \ {r} : lines'[q] = lines[q]
          /\ Len(lines[r]) \in Nat /\ Len(lines'[r]) = n
          /\ DOMAIN lines[r] = 1 .. Len(lines[r]) /\ DOMAIN lines'[r] = 1 .. n
          /\ \A i \in DOMAIN lines[r] : lines'[r][i] = lines[r][i]
          /\ lines'[r][n].fulfillmentStatus = "ORDER_RECEIVED"
        BY <1>1, <1>6, NewItemAppends
    <2>2. LinesTypeOK'
        BY <1>2, <1>3, <1>4, <2>1 DEF LinesTypeOK
    <2>3. reached' = reached \cup {<<r, n, "ORDER_RECEIVED">>}
        <3>1. \A q \in Requests : Len(lines[q]) \in Nat
            BY <1>1 DEF LinesTypeOK
        <3>2. {q \in Requests : Len(lines'[q]) > Len(lines[q])} = {r}
            BY <2>1, <3>1
        <3> QED
            BY <2>1, <3>2
    <2>4. ReachedOK'
        <3>1. \A e \in reached' : e[1] \in Requests /\ e[2] \in DOMAIN lines'[e[1]] /\ e[3] \in FulfillmentStatus
            <4> SUFFICES ASSUME NEW e \in reached'
                         PROVE  e[1] \in Requests /\ e[2] \in DOMAIN lines'[e[1]] /\ e[3] \in FulfillmentStatus
                OBVIOUS
            <4>1. CASE e = <<r, n, "ORDER_RECEIVED">>
                BY <2>1, <4>1 DEF FulfillmentStatus
            <4>2. CASE e \in reached
                <5>1. e[1] \in Requests /\ e[2] \in DOMAIN lines[e[1]] /\ e[3] \in FulfillmentStatus
                    BY <4>2 DEF FulfilInv, ReachedOK
                <5>2. DOMAIN lines[e[1]] \subseteq DOMAIN lines'[e[1]]
                    BY <2>1, <5>1
                <5> QED
                    BY <5>1, <5>2
            <4> QED
                BY <2>3, <4>1, <4>2
        <3>2. \A q \in Requests : \A i \in DOMAIN lines'[q] : <<q, i, lines'[q][i].fulfillmentStatus>> \in reached'
            <4> SUFFICES ASSUME NEW q \in Requests, NEW i \in DOMAIN lines'[q]
                         PROVE  <<q, i, lines'[q][i].fulfillmentStatus>> \in reached'
                OBVIOUS
            <4>1. CASE q = r /\ i = n
                BY <2>1, <2>3, <4>1
            <4>2. CASE q # r \/ i # n
                <5>1. i \in DOMAIN lines[q] /\ lines'[q][i] = lines[q][i]
                    BY <2>1, <4>2
                <5>2. <<q, i, lines[q][i].fulfillmentStatus>> \in reached
                    BY <5>1 DEF FulfilInv, ReachedOK
                <5> QED
                    BY <2>3, <5>1, <5>2
            <4> QED
                BY <4>1, <4>2
        <3> QED
            BY <3>1, <3>2 DEF ReachedOK
    <2>5. EditOK'
        <3> SUFFICES ASSUME NEW a \in Admins, NEW e \in EditState, edit[a] = e, e # NoEdit
                     PROVE  Begun(a, e.order, e.item, e.target)'
            BY <1>1 DEF EditOK, LinesTypeOK
        <3>1. e.order \in Requests /\ Begun(a, e.order, e.item, e.target)
            BY DEF FulfilInv, EditOK, EditState
        <3>2. /\ e.item \in DOMAIN lines[e.order] /\ e.item \in DOMAIN lines'[e.order]
              /\ lines'[e.order][e.item] = lines[e.order][e.item]
            <4>1. e.item \in DOMAIN lines[e.order]
                BY <3>1 DEF Begun
            <4>2. CASE e.order = r
                BY <2>1, <4>1, <4>2
            <4>3. CASE e.order # r
                BY <2>1, <3>1, <4>1, <4>3
            <4> QED
                BY <4>2, <4>3
        <3>3. PICK s \in FulfillmentStatus :
                 /\ <<e.order, e.item, s>> \in reached
                 /\ e.target \in FULFILLMENT_TRANSITIONS[lines[e.order][e.item].productType][s]
                 /\ a \notin overtaken => s = lines[e.order][e.item].fulfillmentStatus
            BY <3>1 DEF Begun
        <3>4. e.order \in paid' /\ <<e.order, e.item, s>> \in reached' /\ overtaken' = overtaken
            BY <1>3, <2>3, <3>1, <3>3 DEF Begun
        <3> QED
            BY <3>2, <3>3, <3>4 DEF Begun
    <2>6. StepsInOrder'
        <3> SUFFICES ASSUME NEW q \in Requests, NEW i \in DOMAIN lines'[q]
                     PROVE  AlongSteps(Had(q, i)', FULFILLMENT_STEPS[lines'[q][i].productType])
            BY DEF StepsInOrder
        <3>1. CASE q = r /\ i = n
            <4>1. \A s : <<q, i, s>> \in reached' => s = "ORDER_RECEIVED"
                BY <2>1, <2>3, <3>1 DEF FulfilInv, ReachedOK
            <4>2. lines'[q][i].productType \in Flags
                <5>1. lines'[q] \in Seq(ItemRow) /\ i \in DOMAIN lines'[q]
                    BY <2>1
                <5>2. lines'[q][i] \in ItemRow
                    BY <5>1
                <5> QED
                    BY <5>2 DEF ItemRow
            <4> DEFINE steps == FULFILLMENT_STEPS[lines'[q][i].productType]
            <4>3. Had(q, i)' \subseteq {"ORDER_RECEIVED"}
                BY <4>1 DEF Had
            <4>4. /\ 1 \in 1 .. Len(steps) /\ steps[1] = "ORDER_RECEIVED"
                  /\ \A k \in 2 .. Len(steps) : steps[k] # "ORDER_RECEIVED"
                BY <4>2, FirstStep
            <4> HIDE DEF steps
            <4>5. AlongSteps(Had(q, i)', steps)
                BY <4>3, <4>4 DEF AlongSteps
            <4> QED
                BY <4>5 DEF steps
        <3>2. CASE ~(q = r /\ i = n)
            <4>1. i \in DOMAIN lines[q] /\ lines'[q][i] = lines[q][i]
                BY SMTT(30), <2>1, <3>2
            <4>2. \A s : <<q, i, s>> \in reached' <=> <<q, i, s>> \in reached
                BY <2>3, <3>2
            <4>3. Had(q, i)' = Had(q, i)
                BY <4>2 DEF Had
            <4>4. AlongSteps(Had(q, i), FULFILLMENT_STEPS[lines[q][i].productType])
                BY <4>1 DEF FulfilInv, StepsInOrder
            <4> QED
                BY <4>1, <4>3, <4>4
        <3> QED
            BY <3>1, <3>2
    <2>7. AdvancedOnlyIfPaid'
        BY <1>3, <2>1 DEF FulfilInv, AdvancedOnlyIfPaid
    <2> QED
        BY <1>3, <2>2, <2>4, <2>5, <2>6, <2>7 DEF FulfilInv
<1>7. ASSUME lines' = lines
      PROVE  ItemsKept
    BY <1>1, <1>7 DEF ItemsKept, LinesTypeOK
<1> QED
    BY <1>1, <1>2, <1>5, <1>6, <1>7, DetailKeepsItems

LEMMA ReadInv ==
    ASSUME FulfilInv, NEW a \in Admins, FulfilRead(a)
    PROVE  FulfilInv'
<1>0. PICK r \in Requests : \E i \in DOMAIN lines[r] :
         /\ Saved(r) /\ Paid(orders[r].paymentStatus)
         /\ \E target \in FULFILLMENT_TRANSITIONS[lines[r][i].productType][lines[r][i].fulfillmentStatus] :
               edit' = [edit EXCEPT ![a] = [order |-> r, item |-> i, target |-> target]]
    BY DEF FulfilRead
<1>1. PICK i \in DOMAIN lines[r] :
         /\ Saved(r) /\ Paid(orders[r].paymentStatus)
         /\ \E target \in FULFILLMENT_TRANSITIONS[lines[r][i].productType][lines[r][i].fulfillmentStatus] :
               edit' = [edit EXCEPT ![a] = [order |-> r, item |-> i, target |-> target]]
    BY <1>0
<1>2. PICK target \in FULFILLMENT_TRANSITIONS[lines[r][i].productType][lines[r][i].fulfillmentStatus] :
         edit' = [edit EXCEPT ![a] = [order |-> r, item |-> i, target |-> target]]
    BY <1>1
<1>3. /\ UNCHANGED <<lines, orders, request, reached, paid>>
      /\ overtaken' = overtaken \ {a}
    BY DEF FulfilRead, lineVars
<1>4. lines[r] \in Seq(ItemRow) /\ edit \in [Admins -> EditState]
    BY DEF FulfilInv, LinesTypeOK
<1>5. lines[r][i].productType \in Flags /\ lines[r][i].fulfillmentStatus \in FulfillmentStatus
    <2>1. lines[r][i] \in ItemRow
        BY <1>4
    <2> QED
        BY <2>1 DEF ItemRow
<1>6. target \in FulfillmentStatus
    BY <1>5, StepFollows
<1>7. edit' \in [Admins -> EditState]
    <2>1. i \in Nat \ {0}
        BY <1>4
    <2>2. [order |-> r, item |-> i, target |-> target] \in EditState
        BY <1>6, <2>1 DEF EditState
    <2> QED
        BY <1>2, <1>4, <2>2
<1>8. LinesTypeOK'
    BY <1>3, <1>7 DEF FulfilInv, LinesTypeOK
<1>9. ReachedOK' /\ PaidKnown' /\ StepsInOrder' /\ AdvancedOnlyIfPaid'
    BY <1>3 DEF FulfilInv, ReachedOK, PaidKnown, Saved, StepsInOrder, Had, AdvancedOnlyIfPaid
<1>10. EditOK'
    <2> SUFFICES ASSUME NEW b \in Admins, NEW e \in EditState, edit'[b] = e, e # NoEdit
                 PROVE  Begun(b, e.order, e.item, e.target)'
        BY <1>7 DEF EditOK
    <2>1. CASE b = a
        <3>1. e = [order |-> r, item |-> i, target |-> target]
            BY <1>2, <1>4, <2>1
        <3>2. r \in paid /\ <<r, i, lines[r][i].fulfillmentStatus>> \in reached
            BY <1>1 DEF FulfilInv, PaidKnown, ReachedOK
        <3>3. Begun(b, r, i, target)'
            BY <1>2, <1>3, <1>5, <3>2 DEF Begun
        <3> QED
            BY <3>1, <3>3
    <2>2. CASE b # a
        <3>1. edit[b] = e /\ (b \in overtaken' <=> b \in overtaken)
            BY <1>2, <1>3, <1>4, <2>2
        <3>2. Begun(b, e.order, e.item, e.target)
            BY <3>1 DEF FulfilInv, EditOK
        <3> QED
            BY <1>3, <3>1, <3>2 DEF Begun
    <2> QED
        BY <2>1, <2>2
<1> QED
    BY <1>8, <1>9, <1>10 DEF FulfilInv

(* What a write does: its step is one the item has not had or has had, and *)
(* every step before it has been reached.                                  *)
LEMMA WriteInv ==
    ASSUME FulfilInv, NEW a \in Admins, FulfilWrite(a)
    PROVE  FulfilInv'
<1> DEFINE r == edit[a].order
           i == edit[a].item
           target == edit[a].target
<1>1. /\ edit[a] # NoEdit
      /\ lines' = [lines EXCEPT ![r][i].fulfillmentStatus = target]
      /\ reached' = reached \cup {<<r, i, target>>}
      /\ edit' = [edit EXCEPT ![a] = NoEdit]
      /\ overtaken' = (overtaken \ {a}) \cup Others(a)
      /\ UNCHANGED <<orders, request, paid>>
    BY DEF FulfilWrite
<1>2. edit \in [Admins -> EditState] /\ lines \in [Requests -> Seq(ItemRow)]
    BY DEF FulfilInv, LinesTypeOK
<1>3. r \in Requests /\ i \in Nat \ {0} /\ target \in FulfillmentStatus
    BY <1>1, <1>2 DEF EditState
<1>4. /\ r \in paid /\ i \in DOMAIN lines[r]
      /\ \E s \in FulfillmentStatus :
            /\ <<r, i, s>> \in reached
            /\ target \in FULFILLMENT_TRANSITIONS[lines[r][i].productType][s]
    BY <1>1 DEF FulfilInv, EditOK, Begun
<1>5. PICK s \in FulfillmentStatus :
         /\ <<r, i, s>> \in reached
         /\ target \in FULFILLMENT_TRANSITIONS[lines[r][i].productType][s]
    BY <1>4
<1>6. lines[r] \in Seq(ItemRow) /\ lines[r][i] \in ItemRow
    BY <1>2, <1>3, <1>4
<1>7. lines[r][i].productType \in Flags
    BY <1>6 DEF ItemRow
<1> HIDE DEF r, i, target
<1> DEFINE row == [lines[r][i] EXCEPT !.fulfillmentStatus = target]
<1>8. row \in ItemRow /\ row.productType = lines[r][i].productType /\ row.fulfillmentStatus = target
    BY <1>3, <1>6 DEF ItemRow
<1>9. lines' = [lines EXCEPT ![r] = [lines[r] EXCEPT ![i] = row]]
    BY <1>1
<1> HIDE DEF row
<1>10. [lines[r] EXCEPT ![i] = row] \in Seq(ItemRow)
    BY <1>4, <1>6, <1>8
<1>11. lines' \in [Requests -> Seq(ItemRow)]
    BY <1>2, <1>9, <1>10
<1>12. /\ DOMAIN lines'[r] = DOMAIN lines[r] /\ lines'[r][i] = row
       /\ \A q \in Requests : DOMAIN lines'[q] = DOMAIN lines[q]
       /\ \A q \in Requests : \A j \in DOMAIN lines[q] :
             ~(q = r /\ j = i) => lines'[q][j] = lines[q][j]
    <2>1. lines'[r] = [lines[r] EXCEPT ![i] = row]
        BY <1>2, <1>3, <1>9
    <2>2. \A q \in Requests : q # r => lines'[q] = lines[q]
        BY <1>2, <1>9
    <2> QED
        BY <1>4, <1>6, <1>10, <2>1, <2>2
<1>13. LinesTypeOK'
    <2>1. edit' \in [Admins -> EditState]
        BY <1>1, <1>2 DEF EditState
    <2> QED
        BY <1>1, <1>11, <2>1 DEF FulfilInv, LinesTypeOK
<1>14. ReachedOK'
    <2>1. \A e \in reached' : e[1] \in Requests /\ e[2] \in DOMAIN lines'[e[1]] /\ e[3] \in FulfillmentStatus
        BY <1>1, <1>3, <1>4, <1>12 DEF FulfilInv, ReachedOK
    <2>2. ASSUME NEW q \in Requests, NEW j \in DOMAIN lines'[q]
          PROVE  <<q, j, lines'[q][j].fulfillmentStatus>> \in reached'
        <3>1. CASE q = r /\ j = i
            BY <1>1, <1>8, <1>12, <3>1
        <3>2. CASE ~(q = r /\ j = i)
            <4>1. j \in DOMAIN lines[q] /\ lines'[q][j] = lines[q][j]
                BY <1>12, <3>2
            <4> QED
                BY <1>1, <4>1 DEF FulfilInv, ReachedOK
        <3> QED
            BY <3>1, <3>2
    <2> QED
        BY <2>1, <2>2 DEF ReachedOK
<1>15. EditOK'
    <2>0. edit' \in [Admins -> EditState]
        BY <1>13 DEF LinesTypeOK
    <2> SUFFICES ASSUME NEW b \in Admins, NEW e \in EditState, edit'[b] = e, e # NoEdit
                 PROVE  Begun(b, e.order, e.item, e.target)'
        BY <2>0 DEF EditOK
    <2>1. b # a /\ edit[b] = e
        BY <1>1, <1>2
    <2>2. e.order \in Requests /\ Begun(b, e.order, e.item, e.target)
        BY <2>1 DEF FulfilInv, EditOK, EditState
    <2>3. /\ e.item \in DOMAIN lines[e.order] /\ e.item \in DOMAIN lines'[e.order]
          /\ lines'[e.order][e.item].productType = lines[e.order][e.item].productType
        BY <1>8, <1>12, <2>2 DEF Begun
    <2>4. b \notin overtaken' => b \notin overtaken /\ lines'[e.order][e.item] = lines[e.order][e.item]
        <3>1. e.order = r /\ e.item = i => b \in Others(a)
            BY <2>1 DEF Others, r, i
        <3> QED
            BY <1>1, <1>12, <2>1, <2>2, <2>3, <3>1
    <2>5. PICK t \in FulfillmentStatus :
             /\ <<e.order, e.item, t>> \in reached
             /\ e.target \in FULFILLMENT_TRANSITIONS[lines[e.order][e.item].productType][t]
             /\ b \notin overtaken => t = lines[e.order][e.item].fulfillmentStatus
        BY <2>2 DEF Begun
    <2>6. e.order \in paid' /\ <<e.order, e.item, t>> \in reached'
        BY <1>1, <2>2, <2>5 DEF Begun
    <2> QED
        BY <2>3, <2>4, <2>5, <2>6 DEF Begun
<1>16. PaidKnown'
    BY <1>1 DEF FulfilInv, PaidKnown, Saved
<1>17. StepsInOrder'
    <2> SUFFICES ASSUME NEW q \in Requests, NEW j \in DOMAIN lines'[q]
                 PROVE  AlongSteps(Had(q, j)', FULFILLMENT_STEPS[lines'[q][j].productType])
        BY DEF StepsInOrder
    <2> DEFINE steps == FULFILLMENT_STEPS[lines'[q][j].productType]
    <2>1. j \in DOMAIN lines[q] /\ lines'[q][j].productType = lines[q][j].productType
        BY <1>8, <1>12
    <2>2. AlongSteps(Had(q, j), steps)
        BY <2>1 DEF FulfilInv, StepsInOrder
    <2>3. CASE q = r /\ j = i
        <3>1. Had(q, j)' = Had(q, j) \cup {target} /\ s \in Had(q, j)
            BY <1>1, <1>3, <1>5, <2>3 DEF Had
        <3>2. /\ \E k \in 1 .. Len(steps) : target = steps[k]
              /\ \A k \in 2 .. Len(steps) : steps[k] = target => steps[k - 1] = s
            BY <1>5, <1>7, <2>1, <2>3, StepFollows
        <3> HIDE DEF steps
        <3> QED
            BY <2>2, <3>1, <3>2 DEF AlongSteps, steps
    <2>4. CASE ~(q = r /\ j = i)
        <3>1. Had(q, j)' = Had(q, j)
            BY <1>1, <2>4 DEF Had
        <3> QED
            BY <2>2, <3>1
    <2> QED
        BY <2>3, <2>4
<1>18. AdvancedOnlyIfPaid'
    BY <1>1, <1>4, <1>12 DEF FulfilInv, AdvancedOnlyIfPaid
<1> QED
    BY <1>13, <1>14, <1>15, <1>16, <1>17, <1>18 DEF FulfilInv

LEMMA EndInv ==
    ASSUME FulfilInv, NEW a \in Admins, FulfilFail(a)
    PROVE  FulfilInv'
<1>1. /\ UNCHANGED <<lines, orders, request, reached, paid>>
      /\ edit' = [edit EXCEPT ![a] = NoEdit] /\ overtaken' = overtaken \ {a}
    BY DEF FulfilFail, lineVars
<1>2. LinesTypeOK'
    BY <1>1 DEF FulfilInv, LinesTypeOK, EditState
<1>3. ReachedOK' /\ PaidKnown' /\ StepsInOrder' /\ AdvancedOnlyIfPaid'
    BY <1>1 DEF FulfilInv, ReachedOK, PaidKnown, Saved, StepsInOrder, Had, AdvancedOnlyIfPaid
<1>4. EditOK'
    <2>0. edit' \in [Admins -> EditState]
        BY <1>2 DEF LinesTypeOK
    <2> SUFFICES ASSUME NEW b \in Admins, NEW e \in EditState, edit'[b] = e, e # NoEdit
                 PROVE  Begun(b, e.order, e.item, e.target)'
        BY <2>0 DEF EditOK
    <2>1. edit[b] = e /\ (b \in overtaken' <=> b \in overtaken)
        BY <1>1 DEF FulfilInv, LinesTypeOK
    <2>2. Begun(b, e.order, e.item, e.target)
        BY <2>1 DEF FulfilInv, EditOK
    <2> QED
        BY <1>1, <2>1, <2>2 DEF Begun
<1> QED
    BY <1>2, <1>3, <1>4 DEF FulfilInv

-----------------------------------------------------------------------------
LEMMA StepInv == FulfilInv /\ [Next]_vars => FulfilInv'
<1> SUFFICES ASSUME FulfilInv, [Next]_vars PROVE FulfilInv'
    OBVIOUS
<1>1. CASE LinesNext /\ Next /\ ~FulfilNext
    BY <1>1, CheckoutInv DEF Next
<1>2. CASE FulfilNext
    BY <1>2, ReadInv, WriteInv, EndInv DEF FulfilNext
<1>3. CASE UNCHANGED vars
    BY <1>3 DEF vars, lineVars, fulfilVars, FulfilInv, LinesTypeOK, ReachedOK, EditOK, Begun, PaidKnown,
                Saved, StepsInOrder, Had, AdvancedOnlyIfPaid
<1> QED
    BY <1>1, <1>2, <1>3 DEF Next

(* The invariant of the items holds in every reachable state.              *)
THEOREM ItemInvariance == Spec => []FulfilInv
<1> QED
    BY InitInv, StepInv, PTL DEF Spec

(* No item skips a step of its product type or enters another type's, for  *)
(* any number of administrators.                                           *)
THEOREM NoStepSkipped == Spec => []StepsInOrder
<1>1. FulfilInv => StepsInOrder
    BY DEF FulfilInv
<1> QED
    BY <1>1, ItemInvariance, PTL

(* No item of an order that was never paid is worked off.                  *)
THEOREM OnlyPaidWorkedOff == Spec => []AdvancedOnlyIfPaid
<1>1. FulfilInv => AdvancedOnlyIfPaid
    BY DEF FulfilInv
<1> QED
    BY <1>1, ItemInvariance, PTL

(* An item moves off its chain only when the administrator was overtaken.  *)
THEOREM ItemsMoveBackOnlyInRaces == Spec => BackOnlyWhenRaced
<1> DEFINE Moves ==
       \A r \in Requests : \A i \in DOMAIN lines[r] :
          LET was == lines[r][i]
              now == lines'[r][i].fulfillmentStatus
          IN  now \notin {was.fulfillmentStatus}
                        \cup FULFILLMENT_TRANSITIONS[was.productType][was.fulfillmentStatus] =>
                 \E a \in overtaken : edit[a] = [order |-> r, item |-> i, target |-> now]
<1>1. FulfilInv /\ [Next]_vars => [Moves]_vars
    <2> SUFFICES ASSUME FulfilInv, Next, NEW r \in Requests, NEW i \in DOMAIN lines[r],
                        lines'[r][i].fulfillmentStatus \notin {lines[r][i].fulfillmentStatus}
                           \cup FULFILLMENT_TRANSITIONS[lines[r][i].productType][lines[r][i].fulfillmentStatus]
                 PROVE  \E a \in overtaken :
                           edit[a] = [order |-> r, item |-> i, target |-> lines'[r][i].fulfillmentStatus]
        OBVIOUS
    <2>1. LinesTypeOK
        BY DEF FulfilInv
    <2>2. ~LinesNext
        <3> SUFFICES ASSUME LinesNext PROVE FALSE
            OBVIOUS
        <3>1. lines' = lines \/ \E q \in Requests : NewItem(q) \/ NewDetail(q)
            BY <2>1, LinesStep
        <3>2. ASSUME NEW q \in Requests, NewItem(q) PROVE lines'[r][i] = lines[r][i]
            BY <2>1, <3>2, NewItemAppends
        <3>3. ASSUME NEW q \in Requests, NewDetail(q)
              PROVE  lines'[r][i].fulfillmentStatus = lines[r][i].fulfillmentStatus
            BY <2>1, <3>3, DetailKeepsItems DEF ItemsKept
        <3> QED
            BY <3>1, <3>2, <3>3
    <2>3. PICK a \in Admins : FulfilRead(a) \/ FulfilWrite(a) \/ FulfilFail(a)
        BY <2>2 DEF Next, FulfilNext
    <2>4. FulfilWrite(a)
        BY <2>3 DEF FulfilRead, FulfilFail, lineVars
    <2>5. PICK e \in EditState : edit[a] = e /\ e # NoEdit
        BY <2>1, <2>4 DEF FulfilWrite, LinesTypeOK
    <2>6. /\ e.order \in Requests /\ Begun(a, e.order, e.item, e.target)
          /\ e = [order |-> e.order, item |-> e.item, target |-> e.target]
        BY <2>5 DEF FulfilInv, EditOK, EditState
    <2>7. lines' = [lines EXCEPT ![e.order][e.item].fulfillmentStatus = e.target]
        BY <2>4, <2>5 DEF FulfilWrite
    <2>8. lines \in [Requests -> Seq(ItemRow)] /\ lines[r] \in Seq(ItemRow) /\ lines[r][i] \in ItemRow
        BY <2>1 DEF LinesTypeOK
    <2>9. r = e.order /\ i = e.item
        BY <2>6, <2>7, <2>8 DEF Begun
    <2>10. lines'[r][i].fulfillmentStatus = e.target
        BY <2>6, <2>7, <2>8, <2>9 DEF ItemRow
    <2> QED
        BY <2>5, <2>6, <2>9, <2>10 DEF Begun
<1> QED
    BY <1>1, ItemInvariance, PTL DEF Spec, BackOnlyWhenRaced

-----------------------------------------------------------------------------
(* A set of numbers has a least one.                                       *)
LEMMA LeastNumber ==
    ASSUME NEW T \in SUBSET Nat, T # {}
    PROVE  \E m \in T : \A k \in T : m <= k
<1> DEFINE R == OpToRel(<, Nat)
<1>1. \A x, y \in Nat : <<y, x>> \in R <=> y < x
    BY DEF OpToRel
<1>2. IsWellFoundedOn(R, Nat)
    BY NatLessThanWellFounded
<1> HIDE DEF R
<1>3. PICK m \in T : \A k \in T : <<k, m>> \notin R
    BY <1>2, WFMin
<1>4. ASSUME NEW k \in T PROVE m <= k
    <2>1. m \in Nat /\ k \in Nat /\ ~(k < m)
        BY <1>1, <1>3, Zenon
    <2> QED
        BY <2>1
<1> QED
    BY <1>4

(* SumFunctionOnSet goes through the set one element after the other: g    *)
(* has the sums of f over all the subsets of D.                            *)
SumStep(f, g, s) == IF s = {} THEN 0 ELSE LET x == CHOOSE x \in s : TRUE IN f[x] + g[s \ {x}]
Sums(f, D, g) == g = [s \in SUBSET D |-> SumStep(f, g, s)]

LEMMA StepTaken ==
    ASSUME NEW f, NEW g, NEW s, s # {}, IsFiniteSet(s)
    PROVE  \E x \in s : /\ SumStep(f, g, s) = f[x] + g[s \ {x}]
                        /\ \A h, k : SumStep(h, k, s) = h[x] + k[s \ {x}]
                        /\ IsFiniteSet(s \ {x}) /\ Cardinality(s \ {x}) = Cardinality(s) - 1
                        /\ Cardinality(s) \in Nat /\ Cardinality(s) > 0
<1> DEFINE x == CHOOSE x \in s : TRUE
<1>1. x \in s
    OBVIOUS
<1>2. /\ SumStep(f, g, s) = f[x] + g[s \ {x}]
      /\ \A h, k : SumStep(h, k, s) = h[x] + k[s \ {x}]
    BY DEF SumStep
<1>3. /\ IsFiniteSet(s \ {x}) /\ Cardinality(s \ {x}) = Cardinality(s) - 1
      /\ Cardinality(s) \in Nat /\ Cardinality(s) > 0
    <2>1. Cardinality(s) \in Nat /\ Cardinality(s) # 0
        BY FS_CardinalityType, FS_EmptySet
    <2> HIDE DEF x
    <2>2. IsFiniteSet(s \ {x}) /\ Cardinality(s \ {x}) = Cardinality(s) - 1
        BY <1>1, FS_RemoveElement
    <2> QED
        BY <2>1, <2>2
<1> QED
    BY <1>1, <1>2, <1>3

LEMMA SumsExist ==
    ASSUME NEW D, IsFiniteSet(D), NEW f \in [D -> Nat]
    PROVE  \E g : Sums(f, D, g)
<1> DEFINE UpTo(g, n) == \A s \in SUBSET D : Cardinality(s) <= n => g[s] = SumStep(f, g, s)
           Good(n) == \E g \in [SUBSET D -> Nat] : UpTo(g, n)
           T == {n \in Nat : ~Good(n)}
<1>1. \A s \in SUBSET D : IsFiniteSet(s) /\ Cardinality(s) \in Nat /\ Cardinality(s) <= Cardinality(D)
    BY FS_Subset, FS_CardinalityType
<1>2. ASSUME T # {} PROVE FALSE
    <2>1. PICK n \in T : \A k \in T : n <= k
        BY <1>2, LeastNumber
    <2>2. n \in Nat /\ ~Good(n)
        OBVIOUS
    <2>3. CASE n = 0
        <3> DEFINE g == [s \in SUBSET D |-> 0]
        <3>1. g \in [SUBSET D -> Nat]
            OBVIOUS
        <3>2. ASSUME NEW s \in SUBSET D, Cardinality(s) <= 0 PROVE g[s] = SumStep(f, g, s)
            <4>1. s = {}
                BY <1>1, <3>2, FS_EmptySet
            <4> QED
                BY <4>1 DEF SumStep
        <3> HIDE DEF g
        <3> QED
            BY <2>2, <2>3, <3>1, <3>2
    <2>4. CASE n # 0
        <3>1. n - 1 \in Nat /\ n - 1 \notin T
            <4>1. n - 1 \in Nat /\ ~(n <= n - 1)
                BY <2>2, <2>4
            <4> HIDE DEF T
            <4> QED
                BY <2>1, <4>1
        <3>2. PICK g \in [SUBSET D -> Nat] : UpTo(g, n - 1)
            BY <3>1
        <3> DEFINE k == [s \in SUBSET D |-> IF Cardinality(s) <= n - 1 THEN g[s] ELSE SumStep(f, g, s)]
        <3>3. ASSUME NEW s \in SUBSET D PROVE SumStep(f, g, s) \in Nat
            <4>1. CASE s = {}
                BY <4>1 DEF SumStep
            <4>2. CASE s # {}
                <5>1. PICK x \in s : \A a, b : SumStep(a, b, s) = a[x] + b[s \ {x}]
                    BY <1>1, <4>2, StepTaken
                <5>2. f[x] \in Nat /\ g[s \ {x}] \in Nat
                    OBVIOUS
                <5>3. SumStep(f, g, s) = f[x] + g[s \ {x}]
                    BY <5>1, Zenon
                <5> QED
                    BY <5>2, <5>3
            <4> QED
                BY <4>1, <4>2
        <3>4. k \in [SUBSET D -> Nat]
            BY <3>3
        <3>5. ASSUME NEW s \in SUBSET D, Cardinality(s) <= n PROVE k[s] = SumStep(f, k, s)
            <4>1. k[s] = SumStep(f, g, s)
                BY <3>2
            <4>2. CASE s = {}
                BY <4>1, <4>2 DEF SumStep
            <4>3. CASE s # {}
                <5>1. PICK x \in s : /\ \A a, b : SumStep(a, b, s) = a[x] + b[s \ {x}]
                                     /\ Cardinality(s \ {x}) = Cardinality(s) - 1
                    BY <1>1, <4>3, StepTaken
                <5>2. SumStep(f, g, s) = f[x] + g[s \ {x}] /\ SumStep(f, k, s) = f[x] + k[s \ {x}]
                    BY <5>1, Zenon
                <5>3. k[s \ {x}] = g[s \ {x}]
                    BY <1>1, <2>2, <3>5, <5>1
                <5> QED
                    BY <4>1, <5>2, <5>3
            <4> QED
                BY <4>2, <4>3
        <3> HIDE DEF k
        <3> QED
            BY <2>2, <3>4, <3>5
    <2> QED
        BY <2>3, <2>4
<1>3. Good(Cardinality(D))
    BY <1>1, <1>2
<1>4. PICK g \in [SUBSET D -> Nat] : UpTo(g, Cardinality(D))
    BY <1>3
<1>5. g = [s \in SUBSET D |-> SumStep(f, g, s)]
    BY <1>1, <1>4
<1> QED
    BY <1>5 DEF Sums

LEMMA SumUnfolds ==
    ASSUME NEW D, IsFiniteSet(D), NEW f \in [D -> Nat]
    PROVE  \E g : Sums(f, D, g) /\ SumFunctionOnSet(f, D) = g[D]
<1>1. DEFINE it[s \in SUBSET D] == IF s = {} THEN 0 ELSE LET x == CHOOSE x \in s : TRUE IN f[x] + it[s \ {x}]
<1>2. SumFunctionOnSet(f, D) = it[D]
    BY DEF SumFunctionOnSet, FoldFunctionOnSet, MapThenFoldSet
<1>3. it = CHOOSE g : Sums(f, D, g)
    BY DEF Sums, SumStep
<1> HIDE DEF it
<1> QED
    BY <1>2, <1>3, SumsExist

LEMMA SumsScaled ==
    ASSUME NEW D, IsFiniteSet(D), NEW f \in [D -> Nat], NEW c \in Nat, NEW h \in [D -> Nat],
           \A i \in D : h[i] = c * f[i],
           NEW g, Sums(f, D, g), NEW k, Sums(h, D, k)
    PROVE  g[D] \in Nat /\ k[D] = c * g[D]
<1> DEFINE Right(s) == g[s] \in Nat /\ k[s] = c * g[s]
           T == {n \in Nat : \E s \in SUBSET D : Cardinality(s) = n /\ ~Right(s)}
<1>1. \A s \in SUBSET D : IsFiniteSet(s) /\ Cardinality(s) \in Nat
    BY FS_Subset, FS_CardinalityType
<1>2. \A s \in SUBSET D : g[s] = SumStep(f, g, s) /\ k[s] = SumStep(h, k, s)
    BY DEF Sums
<1>3. ASSUME T # {} PROVE FALSE
    <2>1. PICK n \in T : \A m \in T : n <= m
        BY <1>3, LeastNumber
    <2>2. PICK s \in SUBSET D : Cardinality(s) = n /\ ~Right(s)
        OBVIOUS
    <2>3. CASE s = {}
        <3>1. g[s] = 0 /\ k[s] = 0
            BY <1>2, <2>3 DEF SumStep
        <3> QED
            BY <2>2, <3>1
    <2>4. CASE s # {}
        <3>1. PICK x \in s : /\ \A a, b : SumStep(a, b, s) = a[x] + b[s \ {x}]
                             /\ Cardinality(s \ {x}) = Cardinality(s) - 1
                             /\ Cardinality(s) \in Nat /\ Cardinality(s) > 0
            BY <1>1, <2>4, StepTaken
        <3>2. g[s] = f[x] + g[s \ {x}] /\ k[s] = h[x] + k[s \ {x}]
            BY <1>2, <3>1, Zenon
        <3>3. n - 1 \in Nat /\ n - 1 \notin T /\ Cardinality(s \ {x}) = n - 1
            BY <2>1, <2>2, <3>1
        <3>4. Right(s \ {x})
            BY <3>3
        <3>5. f[x] \in Nat /\ h[x] = c * f[x]
            OBVIOUS
        <3>6. \A a, b \in Nat : c * (a + b) = c * a + c * b /\ a + b \in Nat
            OBVIOUS
        <3> QED
            BY <2>2, <3>2, <3>4, <3>5, <3>6
    <2> QED
        BY <2>3, <2>4
<1>4. Right(D)
    BY <1>1, <1>3
<1> QED
    BY <1>4

(* A sum is a number, and what is scaled by c has c times the sum.         *)
LEMMA SumScaled ==
    ASSUME NEW D, IsFiniteSet(D), NEW f \in [D -> Nat], NEW c \in Nat, NEW h \in [D -> Nat],
           \A i \in D : h[i] = c * f[i]
    PROVE  SumFunction(f) \in Nat /\ SumFunction(h) = c * SumFunction(f)
<1>1. SumFunction(f) = SumFunctionOnSet(f, D) /\ SumFunction(h) = SumFunctionOnSet(h, D)
    BY DEF SumFunction
<1>2. PICK g : Sums(f, D, g) /\ SumFunctionOnSet(f, D) = g[D]
    BY SumUnfolds
<1>3. PICK k : Sums(h, D, k) /\ SumFunctionOnSet(h, D) = k[D]
    BY SumUnfolds
<1> QED
    BY <1>1, <1>2, <1>3, SumsScaled

-----------------------------------------------------------------------------
(* What a checkout has of its own.                                         *)
Charged(r) ==
    LET charge == preference[r] IN
    charge # << >> =>
       SumFunction([i \in DOMAIN charge |-> charge[i].unitPrice * charge[i].quantity])
          = (orders[r].totalAmount - orders[r].creditUsed) * orders[r].totalAmount

RequestOK(r) == RowsOfCart(r) /\ SavedSoFar(r) /\ PricedSoFar(r) /\ Charged(r)

LEMMA OrdersParts == OrdersInv <=> TypeOK /\ \A r \in Requests : RequestOK(r)
<1>1. ChargedWhatCreditLeaves <=> \A r \in Requests : Charged(r)
    BY DEF ChargedWhatCreditLeaves, Charged
<1> QED
    BY <1>1, Zenon DEF OrdersInv, RequestOK

LEMMA OrdersPartsNext == OrdersInv' <=> TypeOK' /\ \A r \in Requests : RequestOK(r)'
<1>1. ChargedWhatCreditLeaves' <=> \A r \in Requests : Charged(r)'
    BY DEF ChargedWhatCreditLeaves, Charged
<1> QED
    BY <1>1, Zenon DEF OrdersInv, RequestOK

(* A row is changed by its own checkout, its payment, or an item's status. *)
LEMMA RowsKept ==
    ASSUME NEW r \in Requests, RowsOfCart(r), lines'[r] = lines[r], request'[r].cart = request[r].cart
    PROVE  RowsOfCart(r)'
BY DEF RowsOfCart, Complete

LEMMA PricesKept ==
    ASSUME NEW r \in Requests, PricedSoFar(r), request'[r] = request[r],
           stale'[r] = stale[r], catalogue' = catalogue
    PROVE  PricedSoFar(r)'
BY DEF PricedSoFar, At, LinesLeft

LEMMA ChargeKept ==
    ASSUME NEW r \in Requests, Charged(r), preference'[r] = preference[r], orders'[r] = orders[r]
    PROVE  Charged(r)'
BY DEF Charged

LEMMA SavedKept ==
    ASSUME NEW r \in Requests, SavedSoFar(r), request'[r] = request[r], lines'[r] = lines[r],
           orders'[r] = orders[r], preference'[r] = preference[r]
    PROVE  SavedSoFar(r)'
BY DEF SavedSoFar, Saved, At, Complete

LEMMA RequestKept ==
    ASSUME NEW r \in Requests, RequestOK(r), request'[r] = request[r], lines'[r] = lines[r],
           orders'[r] = orders[r], preference'[r] = preference[r],
           stale'[r] = stale[r], catalogue' = catalogue
    PROVE  RequestOK(r)'
BY RowsKept, PricesKept, ChargeKept, SavedKept DEF RequestOK

-----------------------------------------------------------------------------
LEMMA CartTyped ==
    ASSUME LinesTypeOK, NEW r \in Requests
    PROVE  /\ request[r] \in RequestState /\ request[r].line \in Nat \ {0}
           /\ request[r].cart \in Seq(Lines) /\ lines[r] \in Seq(ItemRow)
           /\ Len(request[r].cart) \in Nat /\ DOMAIN request[r].cart = 1 .. Len(request[r].cart)
           /\ Len(lines[r]) \in Nat /\ DOMAIN lines[r] = 1 .. Len(lines[r])
<1>1. request[r] \in RequestState /\ lines[r] \in Seq(ItemRow)
    BY DEF LinesTypeOK
<1>2. request[r].line \in Nat \ {0} /\ request[r].cart \in Carts \cup {<< >>}
    BY <1>1 DEF RequestState
<1>3. request[r].cart \in Seq(Lines)
    <2>1. << >> \in Seq(Lines)
        OBVIOUS
    <2> QED
        BY <1>2, <2>1, LineAssumption
<1> QED
    BY <1>1, <1>2, <1>3

(* The total of a cart is a number.                                        *)
LEMMA TotalTyped ==
    ASSUME NEW cart \in Seq(Lines)
    PROVE  TotalAmount(cart) \in Nat
<1> DEFINE costs == [i \in DOMAIN cart |-> cart[i].totalPrice * cart[i].quantity]
<1>1. costs \in [DOMAIN cart -> Nat]
    <2>1. \A i \in DOMAIN cart : cart[i].totalPrice \in Nat /\ cart[i].quantity \in Nat
        BY LineAssumption
    <2> QED
        BY <2>1
<1>2. IsFiniteSet(DOMAIN cart)
    <2>1. Len(cart) \in Nat /\ DOMAIN cart = 1 .. Len(cart)
        OBVIOUS
    <2> QED
        BY <2>1, FS_Interval
<1>3. \A i \in DOMAIN cart : costs[i] = 1 * costs[i]
    BY <1>1
<1> HIDE DEF costs
<1>4. SumFunction(costs) \in Nat
    BY <1>1, <1>2, <1>3, SumScaled
<1> QED
    BY <1>4 DEF TotalAmount, costs

(* What is charged for a saved cart adds up to the rest, times the total.  *)
LEMMA ChargeAddsUp ==
    ASSUME NEW cart \in Seq(Lines), NEW rows \in Seq(ItemRow), NEW toPay \in Nat,
           Len(rows) = Len(cart),
           \A i \in DOMAIN rows : rows[i].itemPrice = cart[i].totalPrice /\ rows[i].quantity = cart[i].quantity,
           NEW charge, charge = PreferenceItems(rows, toPay)
    PROVE  /\ charge \in Seq(PreferenceItem)
           /\ SumFunction([i \in DOMAIN charge |-> charge[i].unitPrice * charge[i].quantity])
                 = toPay * TotalAmount(cart)
<1> DEFINE D == DOMAIN rows
           costs == [i \in D |-> rows[i].itemPrice * rows[i].quantity]
           parts == [i \in D |-> charge[i].unitPrice * charge[i].quantity]
<1>1. /\ Len(rows) \in Nat /\ D = 1 .. Len(rows) /\ DOMAIN cart = D
    OBVIOUS
<1>2. \A i \in D : rows[i].itemPrice \in Nat /\ rows[i].quantity \in Nat \ {0}
    <2>1. \A i \in D : rows[i] \in ItemRow
        OBVIOUS
    <2> QED
        BY <2>1 DEF ItemRow
<1>3. /\ DOMAIN charge = D
      /\ \A i \in D : charge[i] = [quantity |-> rows[i].quantity, unitPrice |-> rows[i].itemPrice * toPay]
    BY DEF PreferenceItems
<1>4. \A i \in D : charge[i] \in PreferenceItem
    <2>1. \A i \in D : rows[i].itemPrice * toPay \in Nat
        BY <1>2
    <2> QED
        BY <1>2, <1>3, <2>1 DEF PreferenceItem
<1>5. charge \in Seq(PreferenceItem)
    <2>1. charge = [i \in 1 .. Len(rows) |-> charge[i]]
        BY <1>1 DEF PreferenceItems
    <2> QED
        BY <1>1, <1>4, <2>1
<1>6. costs = [i \in DOMAIN cart |-> cart[i].totalPrice * cart[i].quantity]
    BY <1>1
<1>7. costs \in [D -> Nat]
    BY <1>2
<1>8. parts \in [D -> Nat] /\ \A i \in D : parts[i] = toPay * costs[i]
    <2> SUFFICES ASSUME NEW i \in D PROVE parts[i] \in Nat /\ parts[i] = toPay * costs[i]
        OBVIOUS
    <2>1. PICK price \in Nat, quantity \in Nat : price = rows[i].itemPrice /\ quantity = rows[i].quantity
        BY <1>2
    <2>2. parts[i] = (price * toPay) * quantity /\ costs[i] = price * quantity
        BY <1>3, <2>1
    <2>3. (price * toPay) * quantity \in Nat /\ (price * toPay) * quantity = toPay * (price * quantity)
        OBVIOUS
    <2> QED
        BY <2>2, <2>3
<1>9. IsFiniteSet(D)
    BY <1>1, FS_Interval
<1>10. parts = [i \in DOMAIN charge |-> charge[i].unitPrice * charge[i].quantity]
    BY <1>3
<1> HIDE DEF D, costs, parts
<1>11. SumFunction(parts) = toPay * SumFunction(costs)
    BY <1>7, <1>8, <1>9, SumScaled
<1> QED
    BY <1>5, <1>6, <1>10, <1>11 DEF TotalAmount, costs, D

-----------------------------------------------------------------------------
(* A step of one checkout changes only what that checkout has of its own.  *)
OnlyOf(r) ==
    /\ catalogue' = catalogue
    /\ \A q \in Requests \ {r} :
          /\ request'[q] = request[q] /\ lines'[q] = lines[q] /\ orders'[q] = orders[q]
          /\ preference'[q] = preference[q] /\ stale'[q] = stale[q]

LEMMA OwnStep ==
    ASSUME OrdersInv, LinesTypeOK', NEW r \in Requests, OnlyOf(r), RequestOK(r)',
           address' \in Addresses \cup {Null},
           orders' \in [Requests -> {Null} \cup OrderRow],
           preference' \in [Requests -> Seq(PreferenceItem)]
    PROVE  OrdersInv'
<1>1. TypeOK'
    BY DEF OrdersInv, TypeOK, OnlyOf
<1>2. ASSUME NEW q \in Requests \ {r} PROVE RequestOK(q)'
    <2>1. RequestOK(q)
        BY OrdersParts
    <2> QED
        BY <2>1, RequestKept DEF OnlyOf
<1> QED
    BY <1>1, <1>2, OrdersPartsNext

(* Until a row is saved a checkout has none.                               *)
LEMMA NoRows ==
    ASSUME NEW r \in Requests, LinesTypeOK', lines'[r] = << >>
    PROVE  RowsOfCart(r)'
<1>1. request'[r].cart \in Seq(Lines)
    <2>1. << >> \in Seq(Lines)
        OBVIOUS
    <2>2. request'[r].cart \in Carts \cup {<< >>}
        BY DEF LinesTypeOK, RequestState
    <2> QED
        BY <2>1, <2>2, LineAssumption
<1>2. Len(request'[r].cart) \in Nat
    BY <1>1
<1> QED
    BY <1>2 DEF RowsOfCart

LEMMA StartKeeps ==
    ASSUME OrdersInv, LinesTypeOK', NEW r \in Requests, OrderStart(r)
    PROVE  OrdersInv'
<1>1. LinesTypeOK /\ TypeOK /\ RequestOK(r) /\ SavedSoFar(r)
    BY OrdersParts DEF TypeOK, RequestOK
<1>2. /\ UNCHANGED <<catalogue, address, orders, lines, preference, stale>>
      /\ request[r].pc = "idle"
      /\ request'[r].pc = "pricing" /\ request'[r].line = 1
      /\ \A q \in Requests \ {r} : request'[q] = request[q]
    BY <1>1 DEF OrderStart, At, LinesTypeOK
<1>3. ~Saved(r) /\ lines[r] = << >> /\ preference[r] = << >>
    BY <1>1, <1>2 DEF SavedSoFar, At
<1>4. RowsOfCart(r)'
    BY <1>2, <1>3, NoRows
<1>5. SavedSoFar(r)'
    BY <1>2, <1>3 DEF SavedSoFar, At, Saved
<1>6. PricedSoFar(r)'
    BY <1>2 DEF PricedSoFar, At
<1>7. Charged(r)'
    BY <1>2, <1>3 DEF Charged
<1>8. RequestOK(r)'
    BY <1>4, <1>5, <1>6, <1>7 DEF RequestOK
<1> QED
    BY <1>1, <1>2, <1>8, OwnStep DEF OnlyOf, TypeOK

LEMMA PriceLineKeeps ==
    ASSUME OrdersInv, LinesTypeOK', NEW r \in Requests, OrderPriceLine(r)
    PROVE  OrdersInv'
<1>1. LinesTypeOK /\ TypeOK /\ RowsOfCart(r) /\ SavedSoFar(r) /\ PricedSoFar(r) /\ Charged(r)
    BY OrdersParts DEF TypeOK, RequestOK
<1> DEFINE k == request[r].line
           p == Line(r).productId
<1>2. k \in Nat \ {0} /\ Len(request[r].cart) \in Nat /\ DOMAIN request[r].cart = 1 .. Len(request[r].cart)
    BY <1>1, CartTyped
<1>3. UNCHANGED <<catalogue, address, orders, lines, preference, stale>> /\ At(r, "pricing") /\ LinesLeft(r)
    BY DEF OrderPriceLine
<1>4. /\ request'[r].cart = request[r].cart
      /\ \A q \in Requests \ {r} : request'[q] = request[q]
      /\ \/ request'[r].pc = "refused"
         \/ /\ request'[r].pc = "pricing" /\ request'[r].line = k + 1
            /\ p \in DOMAIN catalogue /\ PriceAccepted(catalogue[p], Line(r))
    BY <1>1, <1>3 DEF OrderPriceLine, LinesTypeOK, RequestState, At
<1>5. RowsOfCart(r)'
    BY <1>1, <1>3, <1>4, RowsKept
<1>6. SavedSoFar(r)'
    BY <1>1, <1>3, <1>4 DEF SavedSoFar, At, Saved
<1>7. PricedSoFar(r)'
    <2>1. CASE request'[r].pc = "refused"
        BY <2>1 DEF PricedSoFar
    <2>2. CASE request'[r].pc = "pricing" /\ request'[r].line = k + 1
               /\ p \in DOMAIN catalogue /\ PriceAccepted(catalogue[p], Line(r))
        <3> DEFINE cart == request[r].cart
        <3>1. k \in DOMAIN cart /\ cart[k] = Line(r)
            BY <1>2, <1>3 DEF LinesLeft, Line
        <3>2. \A i \in (1 .. k - 1) \ stale[r] :
                 /\ i \in DOMAIN cart /\ cart[i].productId \in DOMAIN catalogue
                 /\ PriceAccepted(catalogue[cart[i].productId], cart[i])
            BY <1>1, <1>3 DEF PricedSoFar, At
        <3>3. \A i \in 1 .. k : i = k \/ i \in 1 .. k - 1
            BY <1>2
        <3>4. \A i \in (1 .. k) \ stale[r] :
                 /\ i \in DOMAIN cart /\ cart[i].productId \in DOMAIN catalogue
                 /\ PriceAccepted(catalogue[cart[i].productId], cart[i])
            BY <2>2, <3>1, <3>2, <3>3
        <3>5. request'[r].cart = cart
            BY <1>4
        <3>6. request'[r].line - 1 = k
            BY <1>2, <2>2
        <3>7. stale'[r] = stale[r] /\ catalogue' = catalogue
            BY <1>3
        <3>8. At(r, "pricing")'
            BY <2>2 DEF At
        <3> HIDE DEF k, p, cart
        <3>9. \A i \in (1 .. request'[r].line - 1) \ stale'[r] :
                 /\ i \in DOMAIN cart /\ cart[i].productId \in DOMAIN catalogue'
                 /\ PriceAccepted(catalogue'[cart[i].productId], cart[i])
            <4> SUFFICES ASSUME NEW i \in (1 .. request'[r].line - 1) \ stale'[r]
                         PROVE  /\ i \in DOMAIN cart /\ cart[i].productId \in DOMAIN catalogue'
                                /\ PriceAccepted(catalogue'[cart[i].productId], cart[i])
                OBVIOUS
            <4>1. i \in (1 .. k) \ stale[r]
                BY <3>6, <3>7
            <4> QED
                BY <3>4, <3>7, <4>1, Zenon
        <3> QED
            BY <3>5, <3>8, <3>9 DEF PricedSoFar
    <2> QED
        BY <1>4, <2>1, <2>2
<1>8. Charged(r)'
    BY <1>1, <1>3, ChargeKept
<1>9. RequestOK(r)'
    BY <1>5, <1>6, <1>7, <1>8 DEF RequestOK
<1> QED
    BY <1>1, <1>3, <1>4, <1>9, OwnStep DEF OnlyOf, TypeOK

(* The address is read and written after the last line was priced.         *)
LEMMA AddressKeeps ==
    ASSUME OrdersInv, LinesTypeOK', NEW r \in Requests, OrderCheckAddress(r) \/ OrderWriteAddress(r)
    PROVE  OrdersInv'
<1>1. LinesTypeOK /\ TypeOK /\ RowsOfCart(r) /\ SavedSoFar(r) /\ PricedSoFar(r) /\ Charged(r)
    BY OrdersParts DEF TypeOK, RequestOK
<1>2. UNCHANGED <<catalogue, orders, lines, preference, stale>>
    BY DEF OrderCheckAddress, OrderWriteAddress
<1>3. request[r].pc \in {"pricing", "moving"} /\ ~LinesLeft(r)
    BY <1>1 DEF OrderCheckAddress, OrderWriteAddress, At, PricedSoFar
<1>4. /\ request'[r].cart = request[r].cart /\ request'[r].line = request[r].line
      /\ request'[r].pc \in {"moving", "ordering"}
      /\ \A q \in Requests \ {r} : request'[q] = request[q]
    BY <1>1 DEF OrderCheckAddress, OrderWriteAddress, LinesTypeOK, RequestState
<1>5. address' \in Addresses \cup {Null}
    <2>1. request[r].shipping \in Addresses \cup {Null}
        BY <1>1 DEF LinesTypeOK, RequestState
    <2> QED
        BY <1>1, <2>1 DEF OrderCheckAddress, OrderWriteAddress, TypeOK
<1>6. RowsOfCart(r)'
    BY <1>1, <1>2, <1>4, RowsKept
<1>7. SavedSoFar(r)'
    BY <1>1, <1>2, <1>3, <1>4 DEF SavedSoFar, At, Saved
<1>8. PricedSoFar(r)'
    BY <1>1, <1>2, <1>3, <1>4 DEF PricedSoFar, At, LinesLeft
<1>9. Charged(r)'
    BY <1>1, <1>2, ChargeKept
<1>10. RequestOK(r)'
    BY <1>6, <1>7, <1>8, <1>9 DEF RequestOK
<1> QED
    BY <1>1, <1>2, <1>4, <1>5, <1>10, OwnStep DEF OnlyOf, TypeOK

LEMMA FailKeeps ==
    ASSUME OrdersInv, LinesTypeOK', NEW r \in Requests, OrderFail(r)
    PROVE  OrdersInv'
<1>1. LinesTypeOK /\ TypeOK /\ RowsOfCart(r) /\ SavedSoFar(r) /\ Charged(r)
    BY OrdersParts DEF TypeOK, RequestOK
<1>2. /\ UNCHANGED <<catalogue, address, orders, lines, preference, stale>>
      /\ request[r].pc # "answered"
      /\ request'[r].cart = request[r].cart /\ request'[r].pc = "failed"
      /\ \A q \in Requests \ {r} : request'[q] = request[q]
    BY <1>1 DEF OrderFail, LinesTypeOK, RequestState
<1>3. RowsOfCart(r)'
    BY <1>1, <1>2, RowsKept
<1>4. SavedSoFar(r)'
    BY <1>1, <1>2 DEF SavedSoFar, At
<1>5. PricedSoFar(r)'
    BY <1>2 DEF PricedSoFar
<1>6. Charged(r)'
    BY <1>1, <1>2, ChargeKept
<1>7. RequestOK(r)'
    BY <1>3, <1>4, <1>5, <1>6 DEF RequestOK
<1> QED
    BY <1>1, <1>2, <1>7, OwnStep DEF OnlyOf, TypeOK
-----------------------------------------------------------------------------
LEMMA SaveRowKeeps ==
    ASSUME OrdersInv, LinesTypeOK', NEW r \in Requests, OrderSaveRow(r)
    PROVE  OrdersInv' /\ ~Saved(r) /\ ~LinesLeft(r)
<1>1. LinesTypeOK /\ TypeOK /\ RowsOfCart(r) /\ SavedSoFar(r) /\ PricedSoFar(r) /\ Charged(r)
    BY OrdersParts DEF TypeOK, RequestOK
<1> DEFINE total == TotalAmount(request[r].cart)
<1>2. UNCHANGED <<catalogue, address, lines, preference, stale>> /\ request[r].pc = "ordering"
    BY DEF OrderSaveRow, At
<1>3. /\ request'[r].cart = request[r].cart /\ request'[r].line = 1 /\ request'[r].pc = "saving"
      /\ \A q \in Requests \ {r} : request'[q] = request[q]
    BY <1>1 DEF OrderSaveRow, LinesTypeOK, RequestState
<1>4. ~Saved(r) /\ lines[r] = << >> /\ preference[r] = << >> /\ ~LinesLeft(r)
    BY <1>1, <1>2 DEF SavedSoFar, PricedSoFar, At
<1>5. total \in Nat
    BY <1>1, CartTyped, TotalTyped
<1>6. PICK row : /\ orders' = [orders EXCEPT ![r] = row] /\ row \in OrderRow
                 /\ row.totalAmount = total /\ row.creditUsed <= total
    <2> HIDE DEF total
    <2> DEFINE usedOf(c) == IF c >= total THEN total ELSE IF c > 0 THEN c ELSE 0
    <2>1. PICK credit \in Credits :
             orders' = [orders EXCEPT ![r] =
                   [paymentStatus |-> IF usedOf(credit) = total THEN "APPROVED" ELSE "PENDING",
                    totalAmount |-> total, creditUsed |-> usedOf(credit),
                    shippingAddress |-> request[r].shipping]]
        BY DEF OrderSaveRow, total
    <2> DEFINE used == usedOf(credit)
    <2> DEFINE new == [paymentStatus |-> IF used = total THEN "APPROVED" ELSE "PENDING",
                       totalAmount |-> total, creditUsed |-> used,
                       shippingAddress |-> request[r].shipping]
    <2>2. credit \in Int
        BY CreditAssumption
    <2>3. used \in Nat /\ used <= total
        BY <1>5, <2>1, <2>2
    <2>4. request[r].shipping \in Addresses \cup {Null}
        BY <1>1 DEF LinesTypeOK, RequestState
    <2>5. new \in OrderRow /\ new.totalAmount = total /\ new.creditUsed = used
        BY <1>5, <2>3, <2>4 DEF OrderRow, OrderStatus
    <2> QED
        BY <2>1, <2>3, <2>5
<1> HIDE DEF total
<1>7. /\ orders'[r] = row /\ \A q \in Requests \ {r} : orders'[q] = orders[q]
      /\ orders' \in [Requests -> {Null} \cup OrderRow]
    BY <1>1, <1>6 DEF TypeOK
<1>8. RowsOfCart(r)'
    BY <1>2, <1>4, NoRows
<1>9. SavedSoFar(r)'
    <2>1. Len(lines'[r]) = 1 - 1 /\ ~(lines'[r] # << >>)
        BY <1>2, <1>4
    <2>2. orders'[r] \in OrderRow /\ orders'[r].totalAmount = TotalAmount(request'[r].cart)
          /\ orders'[r].creditUsed <= orders'[r].totalAmount
        BY <1>3, <1>6, <1>7 DEF total
    <2> QED
        BY <1>2, <1>3, <1>4, <2>1, <2>2 DEF SavedSoFar, At
<1>10. PricedSoFar(r)'
    BY <1>3 DEF PricedSoFar
<1>11. Charged(r)'
    BY <1>2, <1>4 DEF Charged
<1>12. RequestOK(r)'
    BY <1>8, <1>9, <1>10, <1>11 DEF RequestOK
<1>13. OrdersInv'
    BY <1>1, <1>2, <1>3, <1>7, <1>12, OwnStep DEF OnlyOf, TypeOK
<1> QED
    BY <1>4, <1>13

LEMMA SaveItemKeeps ==
    ASSUME OrdersInv, LinesTypeOK', NEW r \in Requests, OrderSaveItem(r)
    PROVE  OrdersInv'
<1>1. LinesTypeOK /\ TypeOK /\ RowsOfCart(r) /\ SavedSoFar(r) /\ Charged(r)
    BY OrdersParts DEF TypeOK, RequestOK
<1> DEFINE cart == request[r].cart
           rows == lines[r]
           k == request[r].line
           row == [productId |-> Line(r).productId, productType |-> Line(r).productType,
                   itemPrice |-> Line(r).totalPrice, quantity |-> Line(r).quantity,
                   fulfillmentStatus |-> "ORDER_RECEIVED", details |-> {}]
<1>2. /\ k \in Nat \ {0} /\ rows \in Seq(ItemRow) /\ Len(cart) \in Nat /\ DOMAIN cart = 1 .. Len(cart)
      /\ Len(rows) \in Nat /\ DOMAIN rows = 1 .. Len(rows)
    BY <1>1, CartTyped
<1>3. /\ UNCHANGED <<catalogue, address, orders, preference, stale>>
      /\ request[r].pc = "saving" /\ k <= Len(cart) /\ Len(rows) < k
      /\ lines' = [lines EXCEPT ![r] = Append(@, row)]
      /\ request' = [request EXCEPT ![r].details = DetailRows(Line(r).selection)]
    BY DEF OrderSaveItem, Saving, At, LinesLeft
<1>4. Len(rows) = k - 1 /\ (rows # << >> => Complete(r, Len(rows)))
    BY <1>1, <1>2, <1>3 DEF SavedSoFar, At
<1>5. /\ request'[r].cart = cart /\ request'[r].line = k /\ request'[r].pc = "saving"
      /\ request'[r].details = DetailRows(cart[k].selection)
      /\ \A q \in Requests \ {r} : request'[q] = request[q]
    BY <1>1, <1>3 DEF LinesTypeOK, RequestState, Line
<1>6. lines'[r] = Append(rows, row) /\ \A q \in Requests \ {r} : lines'[q] = lines[q]
    BY <1>1, <1>3 DEF LinesTypeOK
<1>7. /\ row.productId = cart[k].productId /\ row.itemPrice = cart[k].totalPrice
      /\ row.quantity = cart[k].quantity /\ row.details = {}
    BY DEF Line
<1>8. /\ Len(lines'[r]) = k /\ DOMAIN lines'[r] = 1 .. k /\ lines'[r][k] = row
      /\ \A i \in 1 .. k - 1 : lines'[r][i] = rows[i]
    <2> HIDE DEF row
    <2> QED
        BY <1>2, <1>4, <1>6
<1> HIDE DEF row
<1>9. RowsOfCart(r)'
    <2> SUFFICES ASSUME NEW i \in 1 .. k
                 PROVE  /\ lines'[r][i].productId = cart[i].productId
                        /\ lines'[r][i].itemPrice = cart[i].totalPrice
                        /\ lines'[r][i].quantity = cart[i].quantity
                        /\ i < k => Complete(r, i)'
        BY <1>3, <1>5, <1>8 DEF RowsOfCart
    <2>1. CASE i = k
        BY <1>2, <1>7, <1>8, <2>1
    <2>2. CASE i # k
        <3>1. i \in DOMAIN rows /\ i <= Len(rows) /\ lines'[r][i] = rows[i]
            BY <1>2, <1>4, <1>8, <2>2
        <3>2. Complete(r, i)
            <4>1. i < Len(rows) => Complete(r, i)
                BY <1>1, <3>1 DEF RowsOfCart
            <4>2. i = Len(rows) => Complete(r, i)
                BY <1>4, <3>1
            <4> QED
                BY <1>2, <3>1, <4>1, <4>2
        <3> QED
            BY <1>1, <1>5, <3>1, <3>2 DEF RowsOfCart, Complete
    <2> QED
        BY <2>1, <2>2
<1>10. SavedSoFar(r)'
    <2>1. lines'[r][k].details \cup request'[r].details = DetailRows(cart[k].selection)
        BY <1>5, <1>7, <1>8
    <2> QED
        BY <1>1, <1>3, <1>5, <1>8, <2>1 DEF SavedSoFar, At
<1>11. PricedSoFar(r)'
    BY <1>5 DEF PricedSoFar
<1>12. Charged(r)'
    BY <1>1, <1>3, ChargeKept
<1>13. RequestOK(r)'
    BY <1>9, <1>10, <1>11, <1>12 DEF RequestOK
<1> QED
    BY <1>1, <1>3, <1>5, <1>6, <1>13, OwnStep DEF OnlyOf, TypeOK

LEMMA SaveDetailKeeps ==
    ASSUME OrdersInv, LinesTypeOK', NEW r \in Requests, OrderSaveDetail(r)
    PROVE  OrdersInv'
<1>1. LinesTypeOK /\ TypeOK /\ RowsOfCart(r) /\ SavedSoFar(r) /\ Charged(r)
    BY OrdersParts DEF TypeOK, RequestOK
<1> DEFINE cart == request[r].cart
           rows == lines[r]
           k == request[r].line
<1>2. /\ k \in Nat \ {0} /\ rows \in Seq(ItemRow) /\ Len(cart) \in Nat /\ DOMAIN cart = 1 .. Len(cart)
      /\ Len(rows) \in Nat /\ DOMAIN rows = 1 .. Len(rows)
    BY <1>1, CartTyped
<1>3. /\ UNCHANGED <<catalogue, address, orders, preference, stale>>
      /\ request[r].pc = "saving" /\ k <= Len(cart) /\ Len(rows) = k
    BY DEF OrderSaveDetail, Saving, At, LinesLeft
<1>4. rows[k].details \cup request[r].details = DetailRows(cart[k].selection)
    BY <1>1, <1>2, <1>3 DEF SavedSoFar, At
<1>5. PICK d \in request[r].details :
         /\ lines' = [lines EXCEPT ![r][k].details = @ \cup {d}]
         /\ request' = [request EXCEPT ![r].details = request[r].details \ {d},
                           ![r].line = IF request[r].details \ {d} = {} THEN @ + 1 ELSE @]
    BY DEF OrderSaveDetail
<1> DEFINE rest == request[r].details \ {d}
           row == [rows[k] EXCEPT !.details = @ \cup {d}]
<1>6. /\ request'[r].cart = cart /\ request'[r].pc = "saving" /\ request'[r].details = rest
      /\ request'[r].line = IF rest = {} THEN k + 1 ELSE k
      /\ \A q \in Requests \ {r} : request'[q] = request[q]
    BY <1>1, <1>3, <1>5 DEF LinesTypeOK, RequestState
<1>7. /\ row.productId = rows[k].productId /\ row.itemPrice = rows[k].itemPrice
      /\ row.quantity = rows[k].quantity /\ row.details = rows[k].details \cup {d}
    <2>1. rows[k] \in ItemRow
        BY <1>2, <1>3
    <2> QED
        BY <2>1 DEF ItemRow
<1>8. /\ lines'[r] = [rows EXCEPT ![k] = row] /\ \A q \in Requests \ {r} : lines'[q] = lines[q]
    BY <1>1, <1>5 DEF LinesTypeOK
<1> HIDE DEF row
<1>9. /\ Len(lines'[r]) = k /\ DOMAIN lines'[r] = 1 .. k /\ lines'[r][k] = row
      /\ \A i \in 1 .. k - 1 : lines'[r][i] = rows[i]
    BY <1>2, <1>3, <1>8
<1>10. row.details \cup rest = DetailRows(cart[k].selection)
    BY <1>4, <1>7
<1>11. RowsOfCart(r)'
    <2> SUFFICES ASSUME NEW i \in 1 .. k
                 PROVE  /\ lines'[r][i].productId = cart[i].productId
                        /\ lines'[r][i].itemPrice = cart[i].totalPrice
                        /\ lines'[r][i].quantity = cart[i].quantity
                        /\ i < k => Complete(r, i)'
        BY <1>3, <1>6, <1>9 DEF RowsOfCart
    <2>1. /\ i \in DOMAIN rows /\ rows[i].productId = cart[i].productId
          /\ rows[i].itemPrice = cart[i].totalPrice /\ rows[i].quantity = cart[i].quantity
          /\ i < k => Complete(r, i)
        BY <1>1, <1>2, <1>3 DEF RowsOfCart
    <2>2. CASE i = k
        BY <1>2, <1>7, <1>9, <2>1, <2>2
    <2>3. CASE i # k
        <3>1. i \in 1 .. k - 1
            BY <1>2, <2>3
        <3>2. lines'[r][i] = rows[i]
            BY <1>9, <3>1
        <3> QED
            BY <1>6, <2>1, <3>2 DEF Complete
    <2> QED
        BY <2>2, <2>3
<1>12. SavedSoFar(r)'
    <2>1. orders'[r] = orders[r] /\ preference'[r] = preference[r]
        BY <1>3
    <2>2. preference'[r] = << >>
        BY <1>1, <1>3, <2>1 DEF SavedSoFar, At
    <2>3. \/ /\ Len(lines'[r]) = request'[r].line - 1
             /\ lines'[r][Len(lines'[r])].details = DetailRows(request'[r].cart[Len(lines'[r])].selection)
          \/ /\ Len(lines'[r]) = request'[r].line
             /\ lines'[r][request'[r].line].details \cup request'[r].details
                   = DetailRows(request'[r].cart[request'[r].line].selection)
        <3>1. CASE rest = {}
            <4>1. request'[r].line = k + 1 /\ row.details = DetailRows(cart[k].selection)
                BY <1>6, <1>10, <3>1
            <4> QED
                BY <1>2, <1>6, <1>9, <4>1
        <3>2. CASE rest # {}
            BY <1>6, <1>9, <1>10, <3>2
        <3> QED
            BY <3>1, <3>2
    <2>4. orders'[r] \in OrderRow /\ orders'[r].totalAmount = TotalAmount(request'[r].cart)
          /\ orders'[r].creditUsed <= orders'[r].totalAmount
        BY <1>1, <1>3, <1>6, <2>1 DEF SavedSoFar
    <2> QED
        BY <1>6, <2>2, <2>3, <2>4 DEF SavedSoFar, Complete, At
<1>13. PricedSoFar(r)'
    BY <1>6 DEF PricedSoFar
<1>14. Charged(r)'
    BY <1>1, <1>3, ChargeKept
<1>15. RequestOK(r)'
    BY <1>11, <1>12, <1>13, <1>14 DEF RequestOK
<1> QED
    BY <1>1, <1>3, <1>6, <1>8, <1>15, OwnStep DEF OnlyOf, TypeOK

LEMMA AnswerKeeps ==
    ASSUME OrdersInv, LinesTypeOK', NEW r \in Requests, OrderAnswer(r)
    PROVE  OrdersInv'
<1>1. LinesTypeOK /\ TypeOK /\ RowsOfCart(r) /\ SavedSoFar(r) /\ Charged(r)
    BY OrdersParts DEF TypeOK, RequestOK
<1> DEFINE cart == request[r].cart
           rows == lines[r]
           k == request[r].line
           toPay == orders[r].totalAmount - orders[r].creditUsed
           charge == PreferenceItems(rows, toPay)
<1>2. /\ k \in Nat \ {0} /\ rows \in Seq(ItemRow) /\ cart \in Seq(Lines)
      /\ Len(cart) \in Nat /\ DOMAIN cart = 1 .. Len(cart)
      /\ Len(rows) \in Nat /\ DOMAIN rows = 1 .. Len(rows)
    BY <1>1, CartTyped
<1>3. /\ UNCHANGED <<catalogue, address, orders, lines, stale>>
      /\ request[r].pc = "saving" /\ ~(k <= Len(cart))
      /\ preference' = [preference EXCEPT ![r] = IF toPay = 0 THEN << >> ELSE charge]
    BY DEF OrderAnswer, At, LinesLeft
<1>4. /\ request'[r].cart = cart /\ request'[r].pc = "answered"
      /\ \A q \in Requests \ {r} : request'[q] = request[q]
    BY <1>1 DEF OrderAnswer, LinesTypeOK, RequestState
<1>5. Len(rows) = Len(cart) /\ (rows # << >> => Complete(r, Len(rows)))
    <2>1. Len(rows) <= Len(cart)
        BY <1>1 DEF RowsOfCart
    <2>2. \/ Len(rows) = k - 1 /\ (rows # << >> => Complete(r, Len(rows)))
          \/ Len(rows) = k
        BY <1>1, <1>3 DEF SavedSoFar, At
    <2> QED
        BY <1>2, <1>3, <2>1, <2>2
<1>6. /\ orders[r] \in OrderRow /\ orders[r].totalAmount = TotalAmount(cart)
      /\ orders[r].creditUsed <= orders[r].totalAmount
    BY <1>1, <1>3 DEF SavedSoFar
<1>7. toPay \in Nat
    <2>1. orders[r].totalAmount \in Nat /\ orders[r].creditUsed \in Nat
        BY <1>6 DEF OrderRow
    <2> QED
        BY <1>6, <2>1
<1>8. \A i \in DOMAIN rows : rows[i].itemPrice = cart[i].totalPrice /\ rows[i].quantity = cart[i].quantity
    BY <1>1 DEF RowsOfCart
<1>9. /\ charge \in Seq(PreferenceItem)
      /\ SumFunction([i \in DOMAIN charge |-> charge[i].unitPrice * charge[i].quantity])
            = toPay * TotalAmount(cart)
    <2>1. cart \in Seq(Lines) /\ rows \in Seq(ItemRow) /\ toPay \in Nat /\ Len(rows) = Len(cart)
        BY <1>2, <1>5, <1>7
    <2>2. charge = PreferenceItems(rows, toPay)
        OBVIOUS
    <2> HIDE DEF toPay, cart, rows, charge
    <2>3. PICK c \in Seq(Lines), rs \in Seq(ItemRow), n \in Nat, ch \in {charge} :
             c = cart /\ rs = rows /\ n = toPay
        BY <2>1
    <2>4. /\ Len(rs) = Len(c) /\ ch = PreferenceItems(rs, n)
          /\ \A i \in DOMAIN rs : rs[i].itemPrice = c[i].totalPrice /\ rs[i].quantity = c[i].quantity
        BY <1>8, <2>1, <2>2, <2>3
    <2>5. /\ ch \in Seq(PreferenceItem)
          /\ SumFunction([i \in DOMAIN ch |-> ch[i].unitPrice * ch[i].quantity]) = n * TotalAmount(c)
        BY <2>4, ChargeAddsUp, Zenon
    <2>6. ch = charge /\ c = cart /\ n = toPay
        BY <2>3
    <2> QED
        BY <2>5, <2>6, Zenon
<1> HIDE DEF charge
<1>10. preference'[r] \in {<< >>, charge} /\ \A q \in Requests \ {r} : preference'[q] = preference[q]
    BY <1>1, <1>3 DEF TypeOK
<1>11. preference' \in [Requests -> Seq(PreferenceItem)]
    <2>1. (IF toPay = 0 THEN << >> ELSE charge) \in Seq(PreferenceItem)
        BY <1>9
    <2> QED
        BY <1>1, <1>3, <2>1 DEF TypeOK
<1>12. RowsOfCart(r)'
    BY <1>1, <1>3, <1>4, RowsKept
<1>13. SavedSoFar(r)'
    BY <1>3, <1>4, <1>5, <1>6 DEF SavedSoFar, Complete, At
<1>14. PricedSoFar(r)'
    BY <1>4 DEF PricedSoFar
<1>15. Charged(r)'
    <2> SUFFICES ASSUME preference'[r] # << >>
                 PROVE  SumFunction([i \in DOMAIN preference'[r] |->
                                          preference'[r][i].unitPrice * preference'[r][i].quantity])
                           = (orders'[r].totalAmount - orders'[r].creditUsed) * orders'[r].totalAmount
        BY DEF Charged
    <2>1. preference'[r] = charge
        BY <1>10
    <2>2. orders'[r] = orders[r]
        BY <1>3
    <2>3. TotalAmount(cart) = orders[r].totalAmount
        BY <1>6
    <2>4. SumFunction([i \in DOMAIN charge |-> charge[i].unitPrice * charge[i].quantity])
             = (orders[r].totalAmount - orders[r].creditUsed) * orders[r].totalAmount
        BY <1>9, <2>3
    <2> QED
        BY <2>1, <2>2, <2>4, Zenon
<1>16. RequestOK(r)'
    BY <1>12, <1>13, <1>14, <1>15 DEF RequestOK
<1> QED
    BY <1>1, <1>3, <1>4, <1>10, <1>11, <1>16, OwnStep DEF OnlyOf, TypeOK

LEMMA PaymentKeeps ==
    ASSUME OrdersInv, LinesTypeOK', NEW r \in Requests, PaymentMoves(r)
    PROVE  OrdersInv'
<1>1. LinesTypeOK /\ TypeOK /\ RowsOfCart(r) /\ SavedSoFar(r) /\ PricedSoFar(r) /\ Charged(r)
    BY OrdersParts DEF TypeOK, RequestOK
<1>2. UNCHANGED <<catalogue, address, lines, request, preference, stale>> /\ Saved(r)
    BY DEF PaymentMoves
<1>3. PICK s \in OrderStatus : orders' = [orders EXCEPT ![r].paymentStatus = s]
    BY DEF PaymentMoves
<1>4. orders[r] \in OrderRow
    BY <1>1, <1>2 DEF TypeOK, Saved
<1> DEFINE row == [orders[r] EXCEPT !.paymentStatus = s]
<1>5. /\ row \in OrderRow /\ row.totalAmount = orders[r].totalAmount
      /\ row.creditUsed = orders[r].creditUsed
    BY <1>4 DEF OrderRow
<1>6. orders' = [orders EXCEPT ![r] = row]
    BY <1>3
<1> HIDE DEF row
<1>7. /\ orders'[r] = row /\ \A q \in Requests \ {r} : orders'[q] = orders[q]
      /\ orders' \in [Requests -> {Null} \cup OrderRow]
    BY <1>1, <1>5, <1>6 DEF TypeOK
<1>8. RowsOfCart(r)' /\ PricedSoFar(r)'
    BY <1>1, <1>2, RowsKept, PricesKept
<1>9. SavedSoFar(r)'
    BY <1>1, <1>2, <1>5, <1>7 DEF SavedSoFar, Saved, At, Complete
<1>10. Charged(r)'
    BY <1>1, <1>2, <1>5, <1>7 DEF Charged
<1>11. RequestOK(r)'
    BY <1>8, <1>9, <1>10 DEF RequestOK
<1> QED
    BY <1>1, <1>2, <1>7, <1>11, OwnStep DEF OnlyOf, TypeOK

(* A revision makes stale what it reprices.                                *)
LEMMA ReviseKeeps ==
    ASSUME OrdersInv, LinesTypeOK', Revise
    PROVE  OrdersInv'
<1>1. UNCHANGED <<address, orders, lines, request, preference>> /\ catalogue' \in Catalogues
    BY DEF Revise
<1>2. TypeOK'
    BY <1>1 DEF OrdersInv, TypeOK
<1>3. ASSUME NEW r \in Requests PROVE RequestOK(r)'
    <2>1. RowsOfCart(r) /\ SavedSoFar(r) /\ PricedSoFar(r) /\ Charged(r)
        BY OrdersParts DEF RequestOK
    <2>2. RowsOfCart(r)' /\ SavedSoFar(r)' /\ Charged(r)'
        BY <1>1, <2>1, RowsKept, SavedKept, ChargeKept
    <2>3. PricedSoFar(r)'
        <3> SUFFICES ASSUME request[r].pc \in {"pricing", "moving", "ordering"}
                     PROVE  PricedSoFar(r)'
            BY <1>1 DEF PricedSoFar
        <3> SUFFICES ASSUME NEW i \in (1 .. request[r].line - 1) \ stale'[r]
                     PROVE  /\ i \in DOMAIN request[r].cart
                            /\ request[r].cart[i].productId \in DOMAIN catalogue'
                            /\ PriceAccepted(catalogue'[request[r].cart[i].productId], request[r].cart[i])
            BY <1>1, <2>1 DEF PricedSoFar, At, LinesLeft
        <3>1. stale'[r] = stale[r] \cup
                 {j \in 1 .. request[r].line - 1 :
                     /\ At(r, "pricing") \/ At(r, "moving") \/ At(r, "ordering")
                     /\ LET p == request[r].cart[j].productId
                        IN  /\ p \in DOMAIN catalogue
                            /\ p \in DOMAIN catalogue' => catalogue[p] # catalogue'[p]}
            BY DEF Revise
        <3> DEFINE p == request[r].cart[i].productId
        <3>2. i \notin stale[r]
            BY <3>1
        <3>3. i \in DOMAIN request[r].cart /\ p \in DOMAIN catalogue
              /\ PriceAccepted(catalogue[p], request[r].cart[i])
            BY <2>1, <3>2 DEF PricedSoFar
        <3>4. p \in DOMAIN catalogue' /\ catalogue[p] = catalogue'[p]
            BY <3>1, <3>3 DEF At
        <3> QED
            BY <3>3, <3>4
    <2> QED
        BY <2>2, <2>3 DEF RequestOK
<1> QED
    BY <1>2, <1>3, OrdersPartsNext

(* Working an item off leaves what was bought as it is.                    *)
LEMMA WriteKeeps ==
    ASSUME OrdersInv, FulfilInv, LinesTypeOK', NEW a \in Admins, FulfilWrite(a)
    PROVE  OrdersInv'
<1>1. LinesTypeOK /\ TypeOK
    BY DEF OrdersInv, TypeOK
<1>2. PICK e \in EditState : edit[a] = e /\ e # NoEdit
    BY <1>1 DEF FulfilWrite, LinesTypeOK
<1>3. e.order \in Requests /\ e.item \in DOMAIN lines[e.order]
    BY <1>2 DEF FulfilInv, EditOK, Begun, EditState
<1> DEFINE r == e.order
           n == e.item
           row == [lines[r][n] EXCEPT !.fulfillmentStatus = e.target]
<1>4. /\ UNCHANGED <<catalogue, address, orders, request, preference, stale>>
      /\ lines' = [lines EXCEPT ![r][n].fulfillmentStatus = e.target]
    BY <1>2 DEF FulfilWrite
<1>5. lines[r] \in Seq(ItemRow) /\ lines[r][n] \in ItemRow /\ DOMAIN lines[r] = 1 .. Len(lines[r])
    BY <1>1, <1>3 DEF LinesTypeOK
<1>6. /\ row.productId = lines[r][n].productId /\ row.itemPrice = lines[r][n].itemPrice
      /\ row.quantity = lines[r][n].quantity /\ row.details = lines[r][n].details
    BY <1>5 DEF ItemRow
<1>7. lines'[r] = [lines[r] EXCEPT ![n] = row] /\ \A q \in Requests \ {r} : lines'[q] = lines[q]
    BY <1>1, <1>3, <1>4 DEF LinesTypeOK
<1> HIDE DEF row
<1>8. /\ Len(lines'[r]) = Len(lines[r]) /\ DOMAIN lines'[r] = DOMAIN lines[r]
      /\ lines'[r] = << >> <=> lines[r] = << >>
      /\ \A i \in DOMAIN lines[r] :
            /\ lines'[r][i].productId = lines[r][i].productId
            /\ lines'[r][i].itemPrice = lines[r][i].itemPrice
            /\ lines'[r][i].quantity = lines[r][i].quantity
            /\ lines'[r][i].details = lines[r][i].details
    <2>1. Len(lines'[r]) = Len(lines[r]) /\ DOMAIN lines'[r] = DOMAIN lines[r]
        BY <1>5, <1>7
    <2>2. lines'[r] # << >> /\ lines[r] # << >>
        BY <1>3, <2>1
    <2> QED
        BY <1>6, <1>7, <2>1, <2>2
<1>9. RequestOK(r)
    BY <1>3, OrdersParts
<1>10. RowsOfCart(r)'
    BY <1>4, <1>5, <1>8, <1>9 DEF RequestOK, RowsOfCart, Complete
<1>11. SavedSoFar(r)'
    <2>1. RowsOfCart(r) /\ SavedSoFar(r)
        BY <1>9 DEF RequestOK
    <2>2. request[r].line \in Nat \ {0} /\ Len(lines[r]) \in Nat
        BY <1>1, <1>3, CartTyped
    <2>3. Len(lines[r]) \in DOMAIN lines[r]
        BY <1>3, <1>5, <2>2
    <2>4. Complete(r, Len(lines[r])) => Complete(r, Len(lines[r]))'
        BY <1>4, <1>8, <2>3 DEF Complete
    <2>5. Len(lines[r]) = request[r].line =>
             lines'[r][request[r].line].details = lines[r][request[r].line].details
        BY <1>8, <2>3
    <2>6. orders'[r] = orders[r] /\ preference'[r] = preference[r] /\ request'[r] = request[r]
        BY <1>4
    <2> QED
        BY <1>8, <2>1, <2>4, <2>5, <2>6 DEF SavedSoFar, Saved, At, Complete
<1>12. PricedSoFar(r)' /\ Charged(r)'
    BY <1>3, <1>4, <1>9, PricesKept, ChargeKept DEF RequestOK
<1>13. RequestOK(r)'
    BY <1>10, <1>11, <1>12 DEF RequestOK
<1> QED
    BY <1>1, <1>3, <1>4, <1>7, <1>13, OwnStep DEF OnlyOf, TypeOK

-----------------------------------------------------------------------------
LEMMA OrdersStart == Init => OrdersInv
<1> SUFFICES ASSUME Init PROVE OrdersInv
    OBVIOUS
<1>1. LinesTypeOK
    BY InitInv DEF FulfilInv
<1>2. /\ catalogue \in Catalogues /\ address = Null
      /\ orders = [r \in Requests |-> Null] /\ lines = [r \in Requests |-> << >>]
      /\ request = [r \in Requests |-> Idle] /\ preference = [r \in Requests |-> << >>]
    BY DEF Init, LinesInit
<1>3. TypeOK
    BY <1>1, <1>2 DEF TypeOK
<1>4. ASSUME NEW r \in Requests PROVE RequestOK(r)
    BY <1>2 DEF RequestOK, RowsOfCart, SavedSoFar, PricedSoFar, Charged, Saved, At, Idle
<1> QED
    BY <1>3, <1>4, OrdersParts

LEMMA CheckoutsKeep ==
    ASSUME OrdersInv, LinesTypeOK', LinesNext
    PROVE  OrdersInv'
<1>1. CASE Revise
    BY <1>1, ReviseKeeps
<1>2. ASSUME NEW r \in Requests,
             OrderStart(r) \/ OrderPriceLine(r) \/ OrderCheckAddress(r) \/ OrderWriteAddress(r)
                \/ OrderSaveRow(r) \/ OrderFail(r)
      PROVE  OrdersInv'
    BY <1>2, StartKeeps, PriceLineKeeps, AddressKeeps, SaveRowKeeps, FailKeeps
<1>3. ASSUME NEW r \in Requests,
             OrderSaveItem(r) \/ OrderSaveDetail(r) \/ OrderAnswer(r) \/ PaymentMoves(r)
      PROVE  OrdersInv'
    BY <1>3, SaveItemKeeps, SaveDetailKeeps, AnswerKeeps, PaymentKeeps
<1> QED
    BY <1>1, <1>2, <1>3 DEF LinesNext

LEMMA NothingKeeps ==
    ASSUME OrdersInv, UNCHANGED lineVars, LinesTypeOK'
    PROVE  OrdersInv'
<1>1. UNCHANGED <<catalogue, address, orders, lines, request, preference, stale>>
    BY DEF lineVars
<1>2. TypeOK'
    BY <1>1 DEF OrdersInv, TypeOK
<1>3. ASSUME NEW r \in Requests PROVE RequestOK(r)'
    BY <1>1, OrdersParts, RequestKept
<1> QED
    BY <1>2, <1>3, OrdersPartsNext

LEMMA OrdersStep == OrdersInv /\ FulfilInv /\ FulfilInv' /\ [Next]_vars => OrdersInv'
<1> SUFFICES ASSUME OrdersInv, FulfilInv, LinesTypeOK', [Next]_vars PROVE OrdersInv'
    BY DEF FulfilInv
<1>1. CASE LinesNext
    BY <1>1, CheckoutsKeep
<1>2. CASE FulfilNext
    <2>1. PICK a \in Admins : FulfilRead(a) \/ FulfilWrite(a) \/ FulfilFail(a)
        BY <1>2 DEF FulfilNext
    <2>2. FulfilWrite(a) \/ UNCHANGED lineVars
        BY <2>1 DEF FulfilRead, FulfilFail, lineVars
    <2> QED
        BY <2>2, WriteKeeps, NothingKeeps
<1>3. CASE UNCHANGED vars
    BY <1>3, NothingKeeps DEF vars
<1> QED
    BY <1>1, <1>2, <1>3 DEF Next

(* The invariant of the orders holds in every reachable state.             *)
THEOREM OrderInvariance == Spec => []OrdersInv
<1> QED
    BY OrdersStart, OrdersStep, ItemInvariance, PTL DEF Spec

(* The type invariant.                                                     *)
THEOREM OrdersTyped == Spec => []TypeOK
<1>1. OrdersInv => TypeOK
    BY DEF OrdersInv
<1> QED
    BY <1>1, OrderInvariance, PTL

(* An answered order has every line and detail of its cart, and they add   *)
(* up to its total, whatever the cart and the catalogue are.               *)
THEOREM AnsweredOrdersComplete == Spec => []AnsweredOrderComplete
<1>1. OrdersInv => AnsweredOrderComplete
    <2> SUFFICES ASSUME OrdersInv, NEW r \in Requests
                 PROVE  LET cart == request[r].cart  rows == lines[r] IN
                        /\ \A i \in DOMAIN rows :
                              /\ rows[i].productId = cart[i].productId
                              /\ i < Len(rows) \/ At(r, "answered") =>
                                    rows[i].details = DetailRows(cart[i].selection)
                        /\ At(r, "answered") =>
                              /\ Len(rows) = Len(cart)
                              /\ orders[r].totalAmount
                                    = SumFunction([i \in DOMAIN rows |-> rows[i].itemPrice * rows[i].quantity])
        BY DEF AnsweredOrderComplete
    <2> DEFINE cart == request[r].cart
               rows == lines[r]
    <2>1. LinesTypeOK /\ RowsOfCart(r) /\ SavedSoFar(r)
        BY DEF OrdersInv, TypeOK
    <2>2. /\ rows \in Seq(ItemRow) /\ cart \in Seq(Lines) /\ Len(rows) \in Nat /\ DOMAIN rows = 1 .. Len(rows)
          /\ Len(cart) \in Nat /\ DOMAIN cart = 1 .. Len(cart)
        BY <2>1, CartTyped
    <2>3. \A i \in DOMAIN rows :
             /\ rows[i].productId = cart[i].productId
             /\ rows[i].itemPrice = cart[i].totalPrice /\ rows[i].quantity = cart[i].quantity
             /\ i < Len(rows) => rows[i].details = DetailRows(cart[i].selection)
        BY <2>1 DEF RowsOfCart, Complete
    <2>4. ASSUME At(r, "answered"), NEW i \in DOMAIN rows
          PROVE  rows[i].details = DetailRows(cart[i].selection)
        <3>1. rows # << >> /\ (i < Len(rows) \/ i = Len(rows))
            BY <2>2
        <3>2. rows[Len(rows)].details = DetailRows(cart[Len(rows)].selection)
            BY <2>1, <2>4, <3>1 DEF SavedSoFar, Complete
        <3> QED
            BY <2>3, <3>1, <3>2
    <2>5. ASSUME At(r, "answered")
          PROVE  /\ Len(rows) = Len(cart)
                 /\ orders[r].totalAmount
                       = SumFunction([i \in DOMAIN rows |-> rows[i].itemPrice * rows[i].quantity])
        <3>1. Len(rows) = Len(cart) /\ orders[r].totalAmount = TotalAmount(cart)
            BY <2>1, <2>5 DEF SavedSoFar, At
        <3>2. [i \in DOMAIN rows |-> rows[i].itemPrice * rows[i].quantity]
                 = [i \in DOMAIN cart |-> cart[i].totalPrice * cart[i].quantity]
            BY <2>2, <2>3, <3>1
        <3> QED
            BY <3>1, <3>2 DEF TotalAmount
    <2> QED
        BY <2>3, <2>4, <2>5
<1> QED
    BY <1>1, OrderInvariance, PTL

(* What the customer is asked to pay is what the credit leaves of the      *)
(* order, for every cart, credit and history of the payment.               *)
THEOREM ChargesAddUp == Spec => []ChargedWhatCreditLeaves
<1>1. OrdersInv => ChargedWhatCreditLeaves
    BY DEF OrdersInv
<1> QED
    BY <1>1, OrderInvariance, PTL

(* An order is sold at the prices its products have, but for those revised *)
(* meanwhile, for any number of checkouts.                                 *)
THEOREM SoldAtPriceShown == Spec => SoldAtCurrentPrice
<1> DEFINE Sold ==
       \A r \in Requests : ~Saved(r) /\ Saved(r)' =>
          \A i \in DOMAIN request[r].cart \ stale[r] :
             LET line == request[r].cart[i] IN
             /\ line.productId \in DOMAIN catalogue
             /\ LET off == ExpectedPrice(catalogue[line.productId], line.selection) * line.quantity
                           - line.totalPrice * line.quantity
                IN  off <= 2 /\ off >= -2
<1>1. OrdersInv /\ FulfilInv' /\ [Next]_vars => [Sold]_vars
    <2> SUFFICES ASSUME OrdersInv, LinesTypeOK', Next, NEW r \in Requests, ~Saved(r), Saved(r)',
                        NEW i \in DOMAIN request[r].cart \ stale[r]
                 PROVE  LET line == request[r].cart[i] IN
                        /\ line.productId \in DOMAIN catalogue
                        /\ LET off == ExpectedPrice(catalogue[line.productId], line.selection) * line.quantity
                                      - line.totalPrice * line.quantity
                           IN  off <= 2 /\ off >= -2
        BY DEF FulfilInv
    <2>1. OrderSaveRow(r)
        <3>1. orders'[r] # orders[r]
            BY DEF Saved
        <3>2. LinesNext
            BY <3>1 DEF Next, FulfilNext, FulfilRead, FulfilWrite, FulfilFail, lineVars
        <3>3. PICK q \in Requests : OrderSaveRow(q) \/ PaymentMoves(q)
            BY <3>1, <3>2 DEF LinesNext, OrderStart, OrderPriceLine, OrderCheckAddress, OrderWriteAddress,
                              OrderSaveItem, OrderSaveDetail, OrderAnswer, OrderFail, Revise
        <3>4. q = r
            BY <3>1, <3>3 DEF OrderSaveRow, PaymentMoves, OrdersInv, TypeOK
        <3> QED
            BY <3>3, <3>4 DEF PaymentMoves
    <2>2. LinesTypeOK /\ PricedSoFar(r) /\ ~LinesLeft(r) /\ request[r].pc = "ordering"
        BY <2>1, SaveRowKeeps DEF OrdersInv, TypeOK, OrderSaveRow, At
    <2>3. /\ request[r].line \in Nat \ {0} /\ Len(request[r].cart) \in Nat
          /\ DOMAIN request[r].cart = 1 .. Len(request[r].cart)
        BY <2>2, CartTyped
    <2>4. i \in (1 .. request[r].line - 1) \ stale[r]
        BY <2>2, <2>3 DEF LinesLeft
    <2> DEFINE line == request[r].cart[i]
    <2>5. line.productId \in DOMAIN catalogue /\ PriceAccepted(catalogue[line.productId], line)
        BY <2>2, <2>4 DEF PricedSoFar
    <2> DEFINE off == ExpectedPrice(catalogue[line.productId], line.selection) * line.quantity
                      - line.totalPrice * line.quantity
    <2>6. off \in -2 .. 2
        BY <2>5 DEF PriceAccepted
    <2>7. \A x \in -2 .. 2 : x <= 2 /\ x >= -2
        OBVIOUS
    <2> HIDE DEF off
    <2>8. off <= 2 /\ off >= -2
        BY <2>6, <2>7
    <2> QED
        BY <2>5, <2>8 DEF off
<1> QED
    BY <1>1, OrderInvariance, ItemInvariance, PTL DEF Spec, SoldAtCurrentPrice
=============================================================================
