-------------------------- MODULE CartStore_proofs ---------------------------
(***************************************************************************)
(* CartInv is inductive: for any number of customers, contents and PUTs.   *)
(***************************************************************************)
EXTENDS CartStore, TLAPS

(* No request has begun, so there is nothing a PUT could have seen.        *)
LEMMA CartInitial == CartInit => CartInv
  BY DEF CartInit, CartInv, TypeOK, PutState, SeenHolds, AnsweredPutReadBack,
         ConflictOnlyWhenRaced

(* Every write of a PUT or a removal marks the other requests of its owner *)
(* as touched, and what an unmarked request has seen is therefore so.      *)
LEMMA CartStep == CartInv /\ [CartNext]_cartVars => CartInv'
<1> SUFFICES ASSUME CartInv, [CartNext]_cartVars PROVE CartInv'
  OBVIOUS
<1> USE CartAssumption DEF CartInv, TypeOK, Cart, PutState
<1>1. CASE UNCHANGED cartVars
  BY <1>1 DEF cartVars, SeenHolds, AnsweredPutReadBack, ConflictOnlyWhenRaced, HasCart, Target,
              IsStored, GetCart
<1>2. ASSUME NEW p \in Puts, PutFind(p) PROVE CartInv'
  <2>1. TypeOK'
    BY ZenonT(40), <1>2 DEF PutFind, HasCart, Target, IsStored
  <2>2. SeenHolds'
    BY <1>2, <2>1 DEF PutFind, SeenHolds, HasCart, Target, IsStored
  <2>3. AnsweredPutReadBack'
    BY <1>2, <2>1 DEF PutFind, SeenHolds, AnsweredPutReadBack, GetCart, HasCart, Target, IsStored
  <2>4. ConflictOnlyWhenRaced'
    BY <1>2, <2>1 DEF PutFind, SeenHolds, ConflictOnlyWhenRaced, HasCart, Target, IsStored
  <2> QED BY <2>1, <2>2, <2>3, <2>4
<1>3. ASSUME NEW p \in Puts, PutSelect(p) PROVE CartInv'
  <2>1. TypeOK'
    BY <1>3 DEF PutSelect, Goto, HasCart, Target, IsStored
  <2>2. SeenHolds'
    BY <1>3, <2>1 DEF PutSelect, Goto, SeenHolds, HasCart, Target, IsStored
  <2>3. AnsweredPutReadBack'
    BY <1>3, <2>1 DEF PutSelect, Goto, SeenHolds, AnsweredPutReadBack, GetCart, HasCart, Target, IsStored
  <2>4. ConflictOnlyWhenRaced'
    BY <1>3, <2>1 DEF PutSelect, Goto, SeenHolds, ConflictOnlyWhenRaced, HasCart, Target, IsStored
  <2> QED BY <2>1, <2>2, <2>3, <2>4
<1>4. ASSUME NEW p \in Puts, PutUpdate(p) PROVE CartInv'
  <2>1. TypeOK'
    BY <1>4 DEF PutUpdate, Goto, TouchAll, HasCart, Target, IsStored
  <2>2. SeenHolds'
    BY <1>4, <2>1 DEF PutUpdate, Goto, TouchAll, SeenHolds, HasCart, Target, IsStored
  <2>3. AnsweredPutReadBack'
    BY <1>4, <2>1 DEF PutUpdate, Goto, TouchAll, SeenHolds, AnsweredPutReadBack, GetCart, HasCart, Target, IsStored
  <2>4. ConflictOnlyWhenRaced'
    BY <1>4, <2>1 DEF PutUpdate, Goto, TouchAll, SeenHolds, ConflictOnlyWhenRaced, HasCart, Target, IsStored
  <2> QED BY <2>1, <2>2, <2>3, <2>4
<1>5. ASSUME NEW p \in Puts, PutInsert(p) PROVE CartInv'
  <2>1. CASE HasCart(put[p].owner)
    <3>1. UNCHANGED <<carts, touched, job>> /\ put' = [put EXCEPT ![p].pc = "conflict"]
      BY <1>5, <2>1 DEF PutInsert, Goto
    <3>2. p \in touched
      BY <1>5, <2>1 DEF PutInsert, SeenHolds
    <3> QED BY <3>1, <3>2 DEF SeenHolds, AnsweredPutReadBack, ConflictOnlyWhenRaced, HasCart,
                              Target, IsStored, GetCart
  <2>2. CASE ~HasCart(put[p].owner)
    <3> DEFINE u == put[p].owner
               row == [id |-> Target(p), items |-> put[p].items, stale |-> FALSE]
    <3>1. /\ put' = [put EXCEPT ![p].pc = "answered"]
          /\ carts' = [carts EXCEPT ![u] = row] /\ job' = job
          /\ touched' = touched \cup {q \in Puts \ {p} : put[q].owner = u /\ put[q].pc # "idle"}
      BY <1>5, <2>2 DEF PutInsert, Goto, TouchAll
    <3>2. row \in Cart /\ row # NoCart /\ row.items = put[p].items
      <4>1. Target(p) \in Puts /\ put[p].items \in Items
        BY DEF Target
      <4>2. row \in Cart
        BY <4>1
      <4>3. row # NoCart
        BY <4>2
      <4> QED BY <4>2, <4>3
    <3> HIDE DEF row
    <3>3. TypeOK'
      BY <3>1, <3>2
    <3>4. SeenHolds'
      BY <3>1, <3>3 DEF SeenHolds, HasCart, Target, IsStored
    <3>5. AnsweredPutReadBack'
      BY <3>1, <3>2, <3>3 DEF AnsweredPutReadBack, GetCart, HasCart
    <3>6. ConflictOnlyWhenRaced'
      BY <3>1 DEF ConflictOnlyWhenRaced
    <3> QED BY <3>3, <3>4, <3>5, <3>6
  <2> QED BY <2>1, <2>2
<1>6. ASSUME NEW p \in Puts, PutFail(p) PROVE CartInv'
  <2>1. TypeOK'
    BY <1>6 DEF PutFail, Goto, HasCart, Target, IsStored
  <2>2. SeenHolds'
    BY <1>6, <2>1 DEF PutFail, Goto, SeenHolds, HasCart, Target, IsStored
  <2>3. AnsweredPutReadBack'
    BY <1>6, <2>1 DEF PutFail, Goto, SeenHolds, AnsweredPutReadBack, GetCart, HasCart, Target, IsStored
  <2>4. ConflictOnlyWhenRaced'
    BY <1>6, <2>1 DEF PutFail, Goto, SeenHolds, ConflictOnlyWhenRaced, HasCart, Target, IsStored
  <2> QED BY <2>1, <2>2, <2>3, <2>4
<1>7. ASSUME NEW u \in Users, ClearByUserId(u) PROVE CartInv'
  <2>1. TypeOK'
    BY <1>7 DEF ClearByUserId, HasCart, Target, IsStored
  <2>2. SeenHolds'
    BY <1>7, <2>1 DEF ClearByUserId, SeenHolds, HasCart, Target, IsStored
  <2>3. AnsweredPutReadBack'
    BY <1>7, <2>1 DEF ClearByUserId, SeenHolds, AnsweredPutReadBack, GetCart, HasCart, Target, IsStored
  <2>4. ConflictOnlyWhenRaced'
    BY <1>7, <2>1 DEF ClearByUserId, SeenHolds, ConflictOnlyWhenRaced, HasCart, Target, IsStored
  <2> QED BY <2>1, <2>2, <2>3, <2>4
<1>8. CASE NextDay
  <2>1. PICK S \in SUBSET {u \in Users : HasCart(u)} :
          carts' = [u \in Users |-> IF u \in S THEN [carts[u] EXCEPT !.stale = TRUE] ELSE carts[u]]
    BY <1>8 DEF NextDay
  <2>2. UNCHANGED <<put, touched>> /\ job' = "due"
    BY <1>8 DEF NextDay
  <2>3. ASSUME NEW u \in Users
        PROVE  /\ carts'[u] \in Cart \cup {NoCart} /\ HasCart(u)' = HasCart(u)
               /\ HasCart(u) => carts'[u].id = carts[u].id /\ carts'[u].items = carts[u].items
    <3>1. CASE u \in S
      <4>1. carts[u] \in Cart
        BY <3>1 DEF HasCart
      <4>2. carts'[u] = [carts[u] EXCEPT !.stale = TRUE]
        BY <2>1, <3>1
      <4> QED BY <3>1, <4>1, <4>2 DEF HasCart
    <3>2. CASE u \notin S
      BY <2>1, <3>2 DEF HasCart
    <3> QED BY <3>1, <3>2
  <2>4. TypeOK'
    BY <2>1, <2>2, <2>3
  <2>5. SeenHolds'
    BY <2>2, <2>3 DEF SeenHolds, Target, IsStored
  <2>6. AnsweredPutReadBack'
    BY <2>2, <2>3 DEF AnsweredPutReadBack, GetCart
  <2>7. ConflictOnlyWhenRaced'
    BY <2>2 DEF ConflictOnlyWhenRaced
  <2> QED BY <2>4, <2>5, <2>6, <2>7
<1>9. CASE DeleteAbandonedCarts
  <2>1. TypeOK'
    BY <1>9 DEF DeleteAbandonedCarts, HasCart, Target, IsStored
  <2>2. SeenHolds'
    BY <1>9, <2>1 DEF DeleteAbandonedCarts, SeenHolds, HasCart, Target, IsStored
  <2>3. AnsweredPutReadBack'
    BY <1>9, <2>1 DEF DeleteAbandonedCarts, SeenHolds, AnsweredPutReadBack, GetCart, HasCart, Target, IsStored
  <2>4. ConflictOnlyWhenRaced'
    BY <1>9, <2>1 DEF DeleteAbandonedCarts, SeenHolds, ConflictOnlyWhenRaced, HasCart, Target, IsStored
  <2> QED BY <2>1, <2>2, <2>3, <2>4
<1> QED BY <1>1, <1>2, <1>3, <1>4, <1>5, <1>6, <1>7, <1>8, <1>9 DEF CartNext, UpdateCart

(* The four parts hold in every reachable state.                           *)
THEOREM CartInvariance == CartSpec => []CartInv
<1>1. CartInv /\ [CartNext]_cartVars => CartInv' BY CartStep
<1> QED BY CartInitial, <1>1, PTL DEF CartSpec

(* An answered PUT is what GET returns, whatever overlaps it, until        *)
(* somebody else changes the cart.                                         *)
THEOREM PutsReadBack == CartSpec => []AnsweredPutReadBack
<1>1. CartInv => AnsweredPutReadBack BY DEF CartInv
<1> QED BY CartInvariance, <1>1, PTL

(* Only a race can make a PUT fail on the unique key.                      *)
THEOREM ConflictsAreRaces == CartSpec => []ConflictOnlyWhenRaced
<1>1. CartInv => ConflictOnlyWhenRaced BY DEF CartInv
<1> QED BY CartInvariance, <1>1, PTL
=============================================================================
