-------------------------------- MODULE Shop --------------------------------
(***************************************************************************)
(* The identifiers every order-handling module shares.                     *)
(***************************************************************************)
CONSTANTS
    Users,       \* user ids
    Orders,      \* order ids; order o is created by checkout request o
    CustomerOf   \* the authenticated user of checkout request o

ASSUME CustomerAssumption == CustomerOf \in [Orders -> Users]
=============================================================================
