--------------------------- MODULE OrderInvariant ---------------------------
(***************************************************************************)
(* The inductive invariant behind the theorems of OrderPayments_proofs: it *)
(* ties each handler's local state to the row and the ledger entry of its  *)
(* order, so that it survives every interleaving, failure and restart.     *)
(***************************************************************************)
EXTENDS OrderPayments

(* Before the insert the row is absent and the ledger entry is what the    *)
(* request has taken so far; only a request paid with credit deducts.      *)
CheckoutInv ==
    \A o \in Orders :
        /\ create[o].pc \in {"idle", "deduct", "reserve"} =>
              ledger[o].deducted = 0 /\ ledger[o].reserved = 0
        /\ create[o].pc = "save" =>
              ledger[o].deducted + ledger[o].reserved = create[o].used
        /\ create[o].pc = "deduct" => create[o].method = "CREDIT"
        /\ ledger[o].deducted > 0 => create[o].method = "CREDIT"
        /\ create[o].pc \in {"idle", "deduct", "reserve", "save"} => ~Exists(o)
        /\ create[o].pc \in {"mark", "clearCart", "preference", "gateway"} => Exists(o)
        /\ create[o].pc \in {"preference", "gateway"} => create[o].method = "MERCADO_PAGO"

(* Only a MERCADO_PAGO order can be paid, and an order paid with credit    *)
(* never waits for a payment; nothing is settled without a row that says   *)
(* so, and never for an order paid with credit.                            *)
RowInv ==
    \A o \in Orders :
        /\ orders[o].payable => Exists(o) /\ create[o].method = "MERCADO_PAGO"
        /\ create[o].method = "CREDIT" => orders[o].paymentStatus # "PENDING"
        /\ ledger[o].consumed + ledger[o].released > 0 =>
              Exists(o) /\ orders[o].creditRestored /\ create[o].method # "CREDIT"

PaymentInv == \A p \in Attempts : payments[p] # "none" => orders[p[1]].payable

WebhookInv ==
    \A d \in Deliveries :
        /\ webhook[d].pc # "idle" => orders[d.order].payable
        /\ webhook[d].pc \in {"read", "mark", "settle", "write", "clearCart"} =>
              webhook[d].status # "NULL"
        /\ webhook[d].pc = "settle" => orders[d.order].creditRestored

JobInv ==
    \A j \in Jobs, o \in Orders :
        /\ job[j][o] # "none" => Exists(o) /\ create[o].method # "CREDIT"
        /\ job[j][o] = "release" => orders[o].creditRestored

AdminInv ==
    \A r \in AdminRequests :
        /\ admin[r] \notin {"idle", "done"} => Exists(r.order)
        /\ admin[r] \in {"write", "mark", "release"} => r.status # "PENDING"
        /\ admin[r] \in {"mark", "release"} => r.endpoint = "cancel"
        /\ admin[r] \notin {"idle", "done"} /\ r.endpoint = "cancel" =>
              create[r.order].method # "CREDIT"
        /\ admin[r] = "release" => orders[r.order].creditRestored

(* The invariant that the steps of OrderPayments preserve: it holds of the *)
(* initial states and implies the safety properties proved from it.        *)
IInv ==
    /\ TypeOK
    /\ NoOverdraft
    /\ OrderBacked
    /\ CheckoutInv
    /\ RowInv
    /\ PaymentInv
    /\ WebhookInv
    /\ JobInv
    /\ AdminInv

-----------------------------------------------------------------------------
(* The inductive strengthening of DuplicatesIgnored, for schedules where   *)
(* settling handlers of one order do not overlap and nothing fails.        *)
OneAtATime == ~Overlapping /\ MaxFaults = 0

(* A handler has an answer of the provider once it fetched, and whoever    *)
(* has one wrote its notification down as processed, or does so next.      *)
NoticeInv ==
    /\ DuplicatesIgnored
    /\ \A d, e \in Deliveries : WebhookBusy(d) /\ WebhookBusy(e) /\ d.order = e.order => d = e
    /\ \A d \in Deliveries :
          /\ webhook[d].pc \in {"idle", "savePending", "fetch"} => webhook[d].status = "NULL"
          /\ webhook[d].status # "NULL" /\ webhook[d].pc # "saveProcessed" =>
                notifications[d.note] = "processed"
    /\ \A d, e \in Deliveries :
          webhook[d].pc \in {"savePending", "fetch"} /\ e.note = d.note =>
              webhook[e].status = "NULL"

(* The inductive strengthening of ProcessedMeansApplied, for such          *)
(* schedules and a provider that does not take an approval back to         *)
(* waiting: a payment is tried again only after the ones before came to    *)
(* nothing, so what the provider answers about an order some payment of    *)
(* which was approved never is PENDING again, and whoever saw the approval *)
(* has written it or is about to.                                          *)
ApprovalsStand == OneAtATime /\ ProviderStatuses \cap {"authorized", "in_mediation"} = {}

Final == {"approved", "refunded", "charged_back"}

AppliedInv ==
    /\ \A p \in Attempts :
          /\ payments[p] \notin {"authorized", "in_mediation"}
          /\ payments[p] # "none" =>
                \A q \in Attempts :
                   q[1] = p[1] /\ q[2] < p[2] => payments[q] \in {"rejected", "cancelled"}
    /\ \A d \in Deliveries :
          webhook[d].status = "APPROVED" =>
             /\ payments[SubjectOf(d)] \in Final
             /\ \/ webhook[d].pc \in {"saveProcessed", "read", "mark", "settle", "write"}
                \/ orders[d.order].paymentStatus # "PENDING"
    /\ \A d, e \in Deliveries :
          webhook[d].status = "APPROVED" /\ d.order = e.order /\ WebhookBusy(e) =>
             webhook[e].status # "PENDING"

(* The inductive strengthening of CartKeptUntilPaid, under every           *)
(* interleaving and failure: whoever is about to delete a cart row knows   *)
(* of an order that needed no payment or had one approved.                 *)
EverPaid == {"approved", "in_mediation", "refunded", "charged_back"}

CartInv ==
    /\ CartKeptUntilPaid
    /\ \A p \in Attempts : payments[p] # "authorized"
    /\ \A o \in Orders :
          create[o].pc \in {"mark", "clearCart"} => create[o].method # "MERCADO_PAGO"
    /\ \A d \in Deliveries :
          /\ webhook[d].status = "APPROVED" => payments[SubjectOf(d)] \in EverPaid
          /\ webhook[d].pc = "clearCart" => webhook[d].status = "APPROVED"
=============================================================================
