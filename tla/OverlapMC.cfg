\* Every settling handler at once, a late notice, one failure or restart.
SPECIFICATION Spec
CONSTANTS
    u1 = u1  u2 = u2
    o1 = o1  o2 = o2  o3 = o3
    n1 = n1  n2 = n2  n3 = n3
    Users = {u1}
    Orders = {o1, o2}
    CustomerOf <- TwoOrdersOneUser
    InitialCredit <- CreditOne
    CreditGrants = {1}
    MaxGrants = 0
    Totals = {1, 2}
    MaxAttempts = 1
    ProviderStatuses = {"approved", "rejected"}
    Notifications = {n1, n2, n3}
    Deliveries <- TwoNotices
    Jobs = {"j1"}
    AdminRequests <- CancelFirst
    ClientCancels = {o1, o2}
    MaxFaults = 1
    Overlapping = TRUE
INVARIANTS
    IInv
    CreditOrderNeverRefunded
    ReserveOverdrawnOnlyAcrossHolds
CHECK_DEADLOCK FALSE
