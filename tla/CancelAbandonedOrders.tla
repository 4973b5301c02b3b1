------------------------ MODULE CancelAbandonedOrders ------------------------
(***************************************************************************)
(* CancelAbandonedOrdersJob: run by cron every hour with a 24 h threshold  *)
(* and by POST /v1/orders/admin/cancel-abandoned with any threshold, so    *)
(* two runs can overlap.  One scan takes a snapshot of the abandoned       *)
(* orders; they are then cancelled one after the other from the snapshot.  *)
(***************************************************************************)
EXTENDS UserCredit, OrderTable

CONSTANT Jobs   \* runs of the job that may be in progress together

VARIABLE job    \* job[j][o]: where run j is with order o of its snapshot

JobTypeOK == job \in [Jobs -> [Orders -> {"none", "listed", "mark", "release"}]]

JobInit == job = [j \in Jobs |-> [o \in Orders |-> "none"]]

Finished(j) == \A o \in Orders : job[j][o] = "none"

(* The loop body awaits each statement, so one order is handled at a time. *)
Between(j) == \A o \in Orders : job[j][o] \notin {"mark", "release"}

Move(j, o, pc) == job' = [job EXCEPT ![j][o] = pc]

-----------------------------------------------------------------------------
(* findAbandonedOrders with threshold hours: old is the set of orders that *)
(* are older than it.                                                      *)
JobScan(j, old) ==
    /\ Finished(j)
    /\ Abandoned(old) # {}
    /\ job' = [job EXCEPT ![j] = [o \in Orders |->
                  IF o \in Abandoned(old) THEN "listed" ELSE "none"]]
    /\ UNCHANGED <<creditVars, orderVars>>

(* A plausible bug: the credit of a cancelled order is forgotten. *)
JobCancelOnly(j, o) ==
    /\ job[j][o] = "listed" /\ Between(j)
    /\ UpdateOrderStatus(o, "CANCELLED")
    /\ Move(j, o, "none")
    /\ UNCHANGED <<creditVars, cart>>

(* updateOrderStatus(CANCELLED), without looking at the row again.  The    *)
(* snapshot row always has credit to restore: the scan selected for it.    *)
JobCancel(j, o) ==
    /\ job[j][o] = "listed" /\ Between(j)
    /\ UpdateOrderStatus(o, "CANCELLED")
    /\ Move(j, o, "mark")
    /\ UNCHANGED <<creditVars, cart>>

(* A plausible bug: the flag is never written. *)
JobMarkSkipped(j, o) ==
    /\ job[j][o] = "mark"
    /\ Move(j, o, "release")
    /\ UNCHANGED <<creditVars, orderVars>>

JobMark(j, o) ==
    /\ job[j][o] = "mark"
    /\ MarkCreditRestored(o)
    /\ Move(j, o, "release")
    /\ UNCHANGED <<creditVars, cart>>

(* A plausible bug: the order is flagged but nothing is released. *)
JobReleaseSkipped(j, o) ==
    /\ job[j][o] = "release"
    /\ Move(j, o, "none")
    /\ UNCHANGED <<creditVars, orderVars>>

JobRelease(j, o) ==
    /\ job[j][o] = "release"
    /\ ReleaseReservedCredit(o, orders[o].creditUsed)
    /\ Move(j, o, "none")
    /\ UNCHANGED orderVars

(* A statement throws: the loop's catch notes the error and goes on with   *)
(* the next order.                                                         *)
JobFault(j, o) ==
    /\ job[j][o] # "none"
    /\ job[j][o] = "listed" => Between(j)
    /\ Move(j, o, "none")
    /\ UNCHANGED <<creditVars, orderVars>>

JobOrderStep(j, o) == JobCancel(j, o) \/ JobMark(j, o) \/ JobRelease(j, o)

JobCrashed == job' = [j \in Jobs |-> [o \in Orders |-> "none"]]
=============================================================================
