\* Settling handlers of an order one after the other, no failures.
SPECIFICATION Spec
CONSTANTS
    u1 = u1  u2 = u2
    o1 = o1  o2 = o2  o3 = o3
    n1 = n1  n2 = n2  n3 = n3
    Users = {u1}
    Orders = {o1, o2}
    CustomerOf <- TwoOrdersOneUser
    InitialCredit <- CreditOne
    CreditGrants = {1}
    MaxGrants = 0
    Totals = {2}
    MaxAttempts = 1
    ProviderStatuses = {"approved", "rejected", "refunded"}
    Notifications = {n1, n2, n3}
    Deliveries <- MixedNotices
    Jobs = {"j1"}
    AdminRequests <- CancelAndComplete
    ClientCancels = {o1, o2}
    MaxFaults = 0
    Overlapping = FALSE
INVARIANTS
    ClosedOrdersHoldNothing
    ReserveMatchesRows
    DuplicatesIgnored
CHECK_DEADLOCK FALSE
